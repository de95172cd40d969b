-------------------------- MODULE MCSearchRefinement --------------------------
(* The instances of MCSearchPublication, for the specification with history.   *)
EXTENDS MCSearchPublication, SearchRefinement
===============================================================================
