--------------------------- MODULE ChildObservation ---------------------------
(***************************************************************************)
(* A parent agent observing the children it launched.  The graph records   *)
(* each move of a child's current in one projection outbox; the app        *)
(* server's observer of a child follows the outbox in pages                *)
(* (projection_page) and publishes its events on the child's channel       *)
(* (completion_broker.rs); a request for news is held on that channel      *)
(* (completion_result); and the parent's client waits on one child's       *)
(* result or watches several children (src/complete.ts).                   *)
(*                                                                         *)
(* A revision below every revision stands for "no afterRevision" and for   *)
(* a channel that carries nothing yet.  "failed" is both ends without a    *)
(* result, stopped and failed: observers and clients treat them alike.     *)
(***************************************************************************)
EXTENDS Integers, Sequences, SequencesExt, Selections

CONSTANTS
  Kids,          \* children a parent launched
  Watches,       \* the sets of them it may watch; it awaits the result of the others
  PageLimit,     \* events on one projection page
  FailureLimit,  \* consecutive failed reads before the observer fails the child
  Authoring,     \* children that publish before they return
  MaxExtras      \* bound on publications and failed calls, together

ASSUME ObservationAssumption ==
  /\ Watches \subseteq SUBSET Kids
  /\ PageLimit \in Nat \ {0} /\ FailureLimit \in Nat \ {0}
  /\ Authoring \subseteq Kids /\ MaxExtras \in Nat

VARIABLES
  current,   \* the durable current of each child
  outbox,    \* graph_projection_outbox: the position is the sequence
  watched,   \* children under watchCompletions
  refused,   \* children whose POST of complete() was refused
  observer,  \* the observer task of each child
  channel,   \* its channel in CompletionObservations
  request,   \* the open request of next() or of the result
  watch,     \* the state of watchCompletions
  delivered, \* history: revisions published on each channel
  extras     \* publications and failed calls so far

graphVars == <<current, outbox>>
launches == <<watched, refused>>
brokerVars == <<observer, channel, delivered>>
clientVars == <<request, watch>>
childVars == <<graphVars, launches, brokerVars, clientVars, extras>>

None == -1
Lifecycles == {"active", "succeeded", "failed"}
Initial == [revision |-> 0, lifecycle |-> "active"]
Fresh(pc, after) == [pc |-> pc, after |-> after, current |-> Initial]
Idle == Fresh("none", None)

\* The parent's launches are answered.  An accepted one is supervised: its channel is
\* registered, and its observer has yet to read.  The parent reads the results of some
\* children and watches the others.
ChildInit ==
  /\ current = [c \in Kids |-> Initial]
  /\ outbox = << >>
  /\ watched \in Watches /\ refused \in SUBSET Kids
  /\ observer = [c \in Kids |-> [pc |-> IF c \in refused THEN "none" ELSE "reading",
                                 cursor |-> 0, failures |-> 0]]
  /\ channel = [c \in Kids |-> [open |-> c \notin refused, revision |-> None, lifecycle |-> "active"]]
  /\ request = [c \in Kids |-> Fresh(IF c \in watched THEN "none" ELSE "asked", None)]
  /\ watch = [collecting |-> FALSE, seen |-> [c \in Kids |-> None], ended |-> {}]
  /\ delivered = [c \in Kids |-> << >>]
  /\ extras = 0

Extra == extras < MaxExtras /\ extras' = extras + 1

(***************************************************************************)
(* The graph: a child's current moves until it is terminal, and each move  *)
(* commits its outbox record with it.                                      *)
(***************************************************************************)
Moved(c, lifecycle) ==
  LET next == [revision |-> current[c].revision + 1, lifecycle |-> lifecycle] IN
  /\ current[c].lifecycle = "active"
  /\ current' = [current EXCEPT ![c] = next]
  /\ outbox' = Append(outbox, [child |-> c, revision |-> next.revision, lifecycle |-> lifecycle])

\* The child's agent publishes a layer or returns; the parent stops it, or its provider
\* exits without a Return, or its refused start is cleaned up.
ChildMoves(c, lifecycle) ==
  /\ IF lifecycle = "active" THEN c \in Authoring /\ Extra ELSE UNCHANGED extras
  /\ Moved(c, lifecycle)
  /\ UNCHANGED <<launches, brokerVars, clientVars>>

(***************************************************************************)
(* The observer of one child.                                              *)
(***************************************************************************)
Of(c) == {n \in DOMAIN outbox : outbox[n].child = c}

\* projections_after_for: the sequences of the child's events past the cursor, in order
After(c, cursor) == Ascending(Len(outbox), {n \in Of(c) : n > cursor})

\* Mutant: the cursor moves to the end of the outbox whatever was truncated.
Page_SkipsTruncated(c, cursor) ==
  [events |-> SubSeq(After(c, cursor), 1, Min({PageLimit, Len(After(c, cursor))})),
   cursor |-> Len(outbox)]

\* projection_page: at most PageLimit events, and the cursor after the last of them
Page(c, cursor) ==
  LET rows == After(c, cursor)
      events == SubSeq(rows, 1, Min({PageLimit, Len(rows)}))
  IN  [events |-> events, cursor |-> IF events = << >> THEN cursor ELSE Last(events)]

\* A page is published in order: the channel keeps the last event, and the state that
\* came with the page decides how to go on.
Publishes(c, page) ==
  LET last == outbox[Last(page.events)]
  IN  /\ observer[c].pc = "reading"
      /\ observer' = [observer EXCEPT ![c] =
           [pc |-> IF current[c].lifecycle = "active" THEN "reading" ELSE "settling",
            cursor |-> page.cursor,
            failures |-> IF current[c].lifecycle = "active" THEN 0 ELSE observer[c].failures]]
      /\ delivered' = [delivered EXCEPT ![c] =
           @ \o [i \in DOMAIN page.events |-> outbox[page.events[i]].revision]]
      /\ channel' = IF page.events = << >> THEN channel
                    ELSE [channel EXCEPT ![c] = [open |-> channel[c].open,
                            revision |-> last.revision, lifecycle |-> last.lifecycle]]
      /\ UNCHANGED <<graphVars, launches, clientVars, extras>>

\* One read, of one page.
ObserverReads(c) == \E page \in {Page(c, observer[c].cursor)} : Publishes(c, page)

\* A failed read is repeated; too many in a row fail the child, if the graph answers.
ObserverFails(c) ==
  LET failures == observer[c].failures + 1 IN
  /\ observer[c].pc = "reading" /\ Extra
  /\ observer' = [observer EXCEPT ![c].failures = failures % FailureLimit]
  /\ \/ failures = FailureLimit /\ Moved(c, "failed")
     \/ UNCHANGED graphVars
  /\ UNCHANGED <<launches, channel, delivered, clientVars>>

\* The guard is dropped with the observer.
Forget(c) == channel' = [channel EXCEPT ![c].open = FALSE]

\* settle_terminal_recursive_child: the observer ends, or reads again.
ObserverSettles(c, ok) ==
  /\ observer[c].pc = "settling"
  /\ observer' = [observer EXCEPT ![c].pc = IF ok THEN "done" ELSE "reading"]
  /\ IF ok THEN Forget(c) /\ UNCHANGED extras ELSE Extra /\ UNCHANGED channel
  /\ UNCHANGED <<graphVars, launches, delivered, clientVars>>

(***************************************************************************)
(* A request for a child's result: the client's handling of an answer, and *)
(* the server's of the request.  An answer is handled where it is made; it *)
(* then waits for collect, however late that is.                           *)
(***************************************************************************)
Goes(c, pc, cur) ==
  request' = [request EXCEPT ![c] = [pc |-> pc, after |-> request[c].after, current |-> cur]]

\* Mutant: an unchanged answer counts as a change.
NextAnswered_Unchanged(c, cur) ==
  Goes(c, IF cur.lifecycle = "succeeded" THEN "fetching" ELSE "answered", cur)

\* observeNextCurrent: a success is read again, an end or a move is the answer, and an
\* unchanged current is asked for again.
NextAnswered(c, cur) ==
  CASE cur.lifecycle = "succeeded" -> Goes(c, "fetching", Initial)
    [] cur.lifecycle = "failed" -> Goes(c, "answered", cur)
    [] OTHER -> IF cur.revision > request[c].after THEN Goes(c, "answered", cur)
                ELSE Goes(c, "asked", Initial)

\* observeResult: an active current is asked for again, past what it reported.
ResultAnswered(c, cur) ==
  IF cur.lifecycle = "active"
  THEN request' = [request EXCEPT ![c] = Fresh("asked", cur.revision)]
  ELSE Goes(c, "answered", cur)

Answers(c, cur) == IF c \in watched THEN NextAnswered(c, cur) ELSE ResultAnswered(c, cur)

ServerReads(c) ==
  /\ request[c].pc = "asked" /\ c \notin refused
  /\ Goes(c, "read", current[c])
  /\ UNCHANGED <<graphVars, launches, brokerVars, watch, extras>>

\* hold of a current that has not moved; an unsupervised one just waits
ServerHolds(c) ==
  LET r == request[c] IN
  /\ r.pc = "read"
  /\ IF r.current.lifecycle # "active" \/ r.current.revision > r.after THEN Answers(c, r.current)
     ELSE Goes(c, IF channel[c].open THEN "holding" ELSE "sleeping", r.current)
  /\ UNCHANGED <<graphVars, launches, brokerVars, watch, extras>>

News(c) ==
  channel[c].revision # None /\
    (channel[c].revision > request[c].after \/ channel[c].lifecycle # "active")

\* News on the channel: the current is read again.
HoldWakes(c) ==
  /\ request[c].pc = "holding" /\ News(c)
  /\ Answers(c, current[c])
  /\ UNCHANGED <<graphVars, launches, brokerVars, watch, extras>>

\* The channel closes without news, or nothing was there to hold: the current read first
\* is answered.
HoldEnds(c) ==
  /\ \/ request[c].pc = "holding" /\ ~News(c) /\ ~channel[c].open
     \/ request[c].pc = "sleeping"
  /\ Answers(c, request[c].current)
  /\ UNCHANGED <<graphVars, launches, brokerVars, watch, extras>>

\* COMPLETION_OBSERVATION_HOLD passes.
HoldElapses(c) ==
  /\ request[c].pc = "holding" /\ ~News(c) /\ channel[c].open
  /\ Answers(c, request[c].current)
  /\ UNCHANGED <<graphVars, launches, brokerVars, watch, extras>>

(***************************************************************************)
(* The parent's client.                                                    *)
(***************************************************************************)
FetchCurrent(c) ==
  /\ request[c].pc = "fetching"
  /\ Goes(c, "answered", current[c])
  /\ UNCHANGED <<graphVars, launches, brokerVars, watch, extras>>

Open == {"asked", "read", "holding", "sleeping", "fetching"}

\* The start was refused, or a request fails: next() and the result reject.
RequestFails(c) ==
  /\ request[c].pc \in Open
  /\ IF c \in refused THEN UNCHANGED extras ELSE Extra
  /\ request' = [request EXCEPT ![c] = Fresh("failed", None)]
  /\ UNCHANGED <<graphVars, launches, brokerVars, watch>>

\* collect, one call of changes() at a time: every child that is neither ended nor
\* pending is asked for news past what it reported.
CollectAsks ==
  LET ask == {c \in watched \ watch.ended : request[c].pc = "none"} IN
  /\ ~watch.collecting /\ watch.ended # watched
  /\ watch' = [watch EXCEPT !.collecting = TRUE]
  /\ request' = [c \in Kids |-> IF c \in ask
                  THEN Fresh("asked", watch.seen[c])
                  ELSE request[c]]
  /\ UNCHANGED <<graphVars, launches, brokerVars, extras>>

\* Mutant: a change is reported once every pending child has answered.
CollectReports_All ==
  LET answered == {c \in watched : request[c].pc = "answered"}
      failed == {c \in watched : request[c].pc = "failed"}
  IN  /\ watch.collecting /\ answered \cup failed = watched \ watch.ended
      /\ watch' = [collecting |-> FALSE,
           seen |-> [c \in Kids |-> IF c \in answered THEN request[c].current.revision
                                    ELSE watch.seen[c]],
           ended |-> watch.ended \cup failed
                     \cup {c \in answered : request[c].current.lifecycle # "active"}]
      /\ request' = [c \in Kids |-> IF c \in answered \cup failed THEN Idle ELSE request[c]]
      /\ UNCHANGED <<graphVars, launches, brokerVars, extras>>

\* Every request answered by then is one change.
CollectReports ==
  LET answered == {c \in watched : request[c].pc = "answered"}
      failed == {c \in watched : request[c].pc = "failed"}
  IN  /\ watch.collecting /\ answered \cup failed # {}
      /\ watch' = [collecting |-> FALSE,
           seen |-> [c \in Kids |-> IF c \in answered THEN request[c].current.revision
                                    ELSE watch.seen[c]],
           ended |-> watch.ended \cup failed
                     \cup {c \in answered : request[c].current.lifecycle # "active"}]
      /\ request' = [c \in Kids |-> IF c \in answered \cup failed
                      THEN Idle ELSE request[c]]
      /\ UNCHANGED <<graphVars, launches, brokerVars, extras>>

ServerGoesOn(c) ==
  \/ ObserverReads(c) \/ ObserverSettles(c, TRUE)

RequestGoesOn(c) ==
  \/ ServerReads(c) \/ ServerHolds(c) \/ HoldWakes(c) \/ HoldEnds(c)
  \/ FetchCurrent(c)
  \/ c \in refused /\ RequestFails(c)

ChildNext ==
  \/ \E c \in Kids :
       \/ \E lifecycle \in Lifecycles : ChildMoves(c, lifecycle)
       \/ ServerGoesOn(c) \/ ObserverFails(c) \/ ObserverSettles(c, FALSE)
       \/ RequestGoesOn(c) \/ HoldElapses(c) \/ RequestFails(c)
  \/ CollectAsks \/ CollectReports

ChildSpec == ChildInit /\ [][ChildNext]_childVars

(***************************************************************************)
(* Fairness: the app server's tasks run, requests are answered, and the    *)
(* parent calls changes() again.  A hold on an open channel is not         *)
(* assumed to end by its deadline: it is the observer's to wake it.        *)
(***************************************************************************)
ChildFairness ==
  /\ \A c \in Kids : WF_childVars(ServerGoesOn(c)) /\ WF_childVars(RequestGoesOn(c))
  /\ WF_childVars(CollectAsks \/ CollectReports)

FairChildSpec == ChildSpec /\ ChildFairness

(***************************************************************************)
(* Properties.                                                             *)
(***************************************************************************)
\* FeedExact: however the outboxes of several children interleave, whichever reads fail and
\* whatever is committed between two pages, the cursor is past exactly the events of the
\* child that were published, each once and in order (current.rs:340).
FeedExact ==
  \A c \in Kids :
    LET events == Ascending(observer[c].cursor, Of(c))
    IN  delivered[c] = [i \in DOMAIN events |-> outbox[events[i]].revision]

\* ChangesMoveForward: each change the watch reports of a child is a current the child had,
\* past the one reported before, and nothing follows its end or its error, whichever holds
\* elapsed on a stale read and whichever answers came late (complete.ts:96).
ChangesMoveForward ==
  [][\A c \in watched : (request[c].pc = "answered" /\ request'[c].pc = "none") =>
       LET reported == request[c].current IN
       /\ c \notin watch.ended /\ reported.revision > watch.seen[c]
       /\ \/ reported = Initial
          \/ \E n \in DOMAIN outbox :
               /\ outbox[n].child = c /\ outbox[n].revision = reported.revision
               /\ outbox[n].lifecycle = reported.lifecycle]_childVars

Observed(c) ==
  IF c \in watched THEN c \in watch.ended ELSE request[c].pc \in {"answered", "failed"}

\* EndIsObserved: "A never-settling promise is not the contract" (docs/prd/index.html:474).
\* Once a child the parent waits for has ended, the parent learns of it, with no hold
\* having to run out while the child is supervised: the watch counts it as ended, or its
\* result settles.
EndIsObserved ==
  <>[](\A c \in Kids : current[c].lifecycle # "active" => Observed(c))
===============================================================================
