----------------------------- MODULE Selections -----------------------------
(***************************************************************************)
(* Selecting from a sequence, as SelectSeq does, by positions: the one     *)
(* recursive function is what the positions are taken from.                *)
(***************************************************************************)
EXTENDS Integers, Sequences

\* The numbers of 1..n that belong to S, in order.
Ascending(n, S) ==
  LET upTo[m \in 0 .. n] == IF m = 0 THEN << >>
                            ELSE IF m \in S THEN Append(upTo[m - 1], m) ELSE upTo[m - 1]
  IN  upTo[n]

\* The members of s that belong to S, in their order.
Keep(s, S) ==
  LET at == Ascending(Len(s), {n \in DOMAIN s : s[n] \in S})
  IN  [k \in DOMAIN at |-> s[at[k]]]
=============================================================================
