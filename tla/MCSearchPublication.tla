----------------------- MODULE MCSearchPublication -----------------------
(* Small instances of SearchPublication. *)
EXTENDS SearchPublication, TLC

CONSTANTS p1, p2, p3, t1, t2

\* Publications that share one target contend for its quarantine.
OneTarget  == [p \in Publications |-> t1]

\* The target of p1 is damaged by a lost commit while p2's stays healthy.
TwoTargets == p1 :> t1 @@ p2 :> t2

\* Both: p1 and p2 contend for t1 while p3 damages t2, whose rebuild replaces the
\* store under the queries of t1.
ContendedAndDamaged == p1 :> t1 @@ p2 :> t1 @@ p3 :> t2

\* p1 and p2 are interchangeable there.
Contenders == Permutations({p1, p2})
=============================================================================
