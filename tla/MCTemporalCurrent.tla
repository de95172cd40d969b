------------------------ MODULE MCTemporalCurrent ------------------------
(* Small instances of TemporalCurrent: the configurations pick the sets. *)
EXTENDS TemporalCurrent, TLC

CONSTANTS c1, c2, l1, l2, l3

\* One completion and three layers: Advance over Advance, back references, cycles,
\* discards, and additions to layers accepted by an earlier Advance.
OwnerOne    == l1 :> c1 @@ l2 :> c1 @@ l3 :> c1
LinksOne    == {<<l1, l2, "expand">>, <<l2, l1, "expand">>, <<l3, l1, "reference">>,
                <<l2, l1, "reference">>, <<l1, l3, "reference">>}

\* One completion, two layers and one back reference: authority and retries.
OwnerTwo    == l1 :> c1 @@ l2 :> c1
LinksTwo    == {<<l2, l1, "reference">>}

NoLease     == [c \in Completions |-> NoLayer]
NotRequired == [c \in Completions |-> {}]

\* Two completions: c2 answers an invoke on c1's first layer, must link that layer
\* to its response, and both may extend accepted layers of the other.
OwnerShared    == l1 :> c1 @@ l2 :> c2
LeaseShared    == c1 :> NoLayer @@ c2 :> l1
RequiredShared == c1 :> {} @@ c2 :> {l1}
LinksShared    == {<<l1, l2, "reference">>, <<l1, l2, "expand">>,
                   <<l2, l1, "reference">>, <<l2, l1, "expand">>}
=============================================================================
