---------------------------- MODULE CompletionLog ----------------------------
(***************************************************************************)
(* What the durable current of a completion promises its readers, with no  *)
(* drafts, no links, no flags, no gates and no restarts: each completion   *)
(* keeps one append-only log, every append is announced on the feed in the *)
(* same step, and the layers a reader may open are published by the very   *)
(* append that makes one of them the current.                              *)
(*                                                                         *)
(* A log is closed by its first terminal entry.  An operation key is used  *)
(* by one entry of a log, and entries of brokers follow the order of the   *)
(* brokers' generations; generation 0 is trusted control, which may only   *)
(* end a completion.                                                       *)
(***************************************************************************)
EXTENDS Integers, Sequences

CONSTANTS
  Completions,   \* completions that keep a log
  Layers,        \* layers that may be published
  Owner,         \* the completion that may publish a layer
  NoLayer,       \* the current before the first publication
  Keys,          \* operation keys
  Generations    \* authors of entries, 0 for trusted control

VARIABLES
  log,           \* entries of each completion
  feed,          \* announcements <<completion, revision>>
  published      \* layers a reader may open

vars == <<log, feed, published>>

Last(c) == log[c][Len(log[c])]
Open(c) == Len(log[c]) > 0 /\ Last(c).lifecycle = "active"
Own(c)  == { l \in Layers : Owner[l] = c }

\* Appends an entry and announces its revision, the number of earlier entries.
Extend(c, author, key, layer, lifecycle) ==
  /\ log' = [log EXCEPT ![c] = Append(@,
       [rev |-> Len(@), current |-> layer, lifecycle |-> lifecycle,
        key |-> key, author |-> author])]
  /\ feed' = Append(feed, <<c, Len(log[c])>>)

\* The author may append under the key: the log is open, the key is new and no
\* newer broker has written.
Admits(c, author, key) ==
  /\ Open(c)
  /\ \A i \in 1..Len(log[c]) :
       /\ log[c][i].key # key
       /\ author # 0 => log[c][i].author <= author

\* A completion comes into being with nothing published.
Start(c) ==
  /\ log[c] = <<>>
  /\ Extend(c, 0, "initial", NoLayer, "active")
  /\ UNCHANGED published

\* A broker publishes layers of its completion, one of which, not seen before,
\* becomes the current.
Advance(c, author, key, layer, L) ==
  /\ author # 0 /\ Admits(c, author, key)
  /\ layer \in L \ published /\ L \subseteq Own(c)
  /\ published' = published \cup L
  /\ Extend(c, author, key, layer, "active")

\* A broker answers with a layer it publishes now, or with the current one.
Return(c, author, key, layer, L) ==
  /\ author # 0 /\ Admits(c, author, key)
  /\ layer \in (L \ published) \cup ({Last(c).current} \cap published)
  /\ layer \in Own(c) /\ L \subseteq Own(c)
  /\ published' = published \cup L
  /\ Extend(c, author, key, layer, "succeeded")

\* A broker or trusted control ends a completion, whose current stays.
End(c, author, key, lifecycle) ==
  /\ Admits(c, author, key)
  /\ Extend(c, author, key, Last(c).current, lifecycle)
  /\ UNCHANGED published

Init ==
  /\ log = [c \in Completions |-> <<>>]
  /\ feed = <<>>
  /\ published = {}

Next ==
  \E c \in Completions :
    \/ Start(c)
    \/ \E author \in Generations, key \in Keys :
         \/ \E layer \in Layers, L \in SUBSET Layers :
              Advance(c, author, key, layer, L) \/ Return(c, author, key, layer, L)
         \/ \E lifecycle \in {"stopped", "failed"} : End(c, author, key, lifecycle)

Spec == Init /\ [][Next]_vars
=============================================================================
