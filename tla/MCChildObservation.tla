------------------------- MODULE MCChildObservation -------------------------
(* A parent and two children: a publishes a layer before it ends, b only ends. *)
(* The parent watches both, or watches b and awaits the result of a.           *)
EXTENDS ChildObservation

CONSTANTS a, b
=============================================================================
