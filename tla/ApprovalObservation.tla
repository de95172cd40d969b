------------------------ MODULE ApprovalObservation ------------------------
(***************************************************************************)
(* The approval coordinator of a live session composed with what reads and *)
(* answers it in the product: the observer of each root run, which polls   *)
(* its interaction's stream every 100 ms, persists it event by event and   *)
(* reconciles it when the completion returns (product/execution.rs), and   *)
(* the decision route, whose call to the host can be refused or lost       *)
(* (api/threads.rs).  HTTP answers may be lost and runs retried.           *)
(***************************************************************************)
EXTENDS ApprovalCoordinator

CONSTANTS
  NoCall,
  MaxFaults      \* bound on lost HTTP calls and answers and on stop requests

ASSUME ObservationAssumption == NoCall \notin Calls /\ MaxFaults \in Nat

VARIABLES
  observer,  \* per call: the observer of its run, see NoObserver
  returned,  \* calls whose completion returned to the product
  cut,       \* calls whose completion's answer was lost while the turn ran on
  rec,       \* approval_requests / approval_resolutions: state of each request
  row,       \* completion_status of each interaction
  stopping,  \* interaction_stop_requests
  decision,  \* approval_decisions: the decision retained for each request
  route,     \* the decision route's call for each request
  late,      \* calls given up on that may still reach the host
  faults     \* HTTP calls and answers lost, and stops requested, so far

records == <<rec, row>>
routes  == <<decision, route, late>>
runs    == <<returned, cut, stopping>>
product == <<observer, records, routes, runs, faults>>
allVars == <<coordinator, product>>

Fault == faults < MaxFaults /\ faults' = faults + 1

NoRoute == [pc |-> "idle", again |-> FALSE, sent |-> "none"]

\* An observer: its step, the end of the last snapshot it took, the call it took
\* that for, what of the snapshot is still to persist, and the step after that.
NoObserver == [pc |-> "none", cursor |-> 0, call |-> NoCall, todo |-> <<>>, then |-> "polling"]

Live == {"polling", "persisting", "checking", "ack"}

ObservationInit ==
  /\ Init
  /\ observer = [c \in Calls |-> NoObserver]
  /\ returned = {} /\ cut = {}
  /\ rec = [r \in Requests |-> "none"]
  /\ row = [i \in Interactions |-> "idle"]
  /\ stopping = {}
  /\ decision = [r \in Requests |-> "none"]
  /\ route = [r \in Requests |-> NoRoute]
  /\ late = {} /\ faults = 0

(***************************************************************************)
(* A run of an interaction: one attempt at a time, each with its own call. *)
(***************************************************************************)
\* (A stop request kept from an earlier attempt is one made right after the start.)
StartRun(c) ==
  LET i == InteractionOf[c] IN
  /\ c \notin Unobserved /\ observer[c].pc = "none"
  /\ \A d \in Calls : InteractionOf[d] = i => observer[d].pc \notin Live
  /\ observer' = [observer EXCEPT ![c].pc = "polling"]
  /\ row' = [row EXCEPT ![i] = "running"]
  /\ stopping' = stopping \ {i}
  /\ UNCHANGED <<coordinator, returned, cut, rec, routes, faults>>

Begin(c) ==
  /\ c \in Unobserved \/ observer[c].pc \in Live
  /\ BeginCompletion(c)
  /\ UNCHANGED product

\* The turn ends: runCompletion's endCompletion, then its answer to the product.
TurnEnds(c) ==
  /\ c \in begun \ returned
  /\ EndCompletion(c, "aborted") \/ (c \notin active /\ UNCHANGED coordinator)
  /\ returned' = returned \union {c}
  /\ UNCHANGED <<observer, cut, records, stopping, routes, faults>>

\* The completion's HTTP call fails in the product; the host's turn runs on.
AnswerCut(c) ==
  /\ c \in begun \ (returned \union cut) /\ observer[c].pc \in Live
  /\ cut' = cut \union {c}
  /\ Fault
  /\ UNCHANGED <<coordinator, observer, returned, records, stopping, routes>>

\* A stop is requested: it is recorded before anything is cancelled.
Stop(i) ==
  /\ row[i] \in {"running", "waiting"} /\ i \notin stopping
  /\ stopping' = stopping \union {i}
  /\ Fault
  /\ UNCHANGED <<coordinator, observer, returned, cut, records, routes>>

\* A cancelled completion: HarnessHost.cancel ends its approvals at once, its turn later.
Cancel(c) == EndCompletion(c, "cancelled") /\ UNCHANGED product

(***************************************************************************)
(* The approval tables and the interaction's row.                          *)
(***************************************************************************)
OpenRecords(rc, i) == {r \in Requests : IOf(r) = i /\ rc[r] = "open"}

\* record_approval_request
RequestRefused(r) == rec[r] = "none" /\ row[IOf(r)] \notin {"running", "waiting"}

RecordRequest(r) ==
  IF rec[r] # "none" THEN UNCHANGED records
  ELSE /\ rec' = [rec EXCEPT ![r] = "open"]
       /\ row' = [row EXCEPT ![IOf(r)] = "waiting"]

\* record_approval_resolution
ResolutionRefused(r, o) == rec[r] \notin {"open", o}

\* The row once request r ended as o: a run with a stop request only goes on running.
RowAfter(r, o) ==
  LET i    == IOf(r)
      live == row[i] \in {"running", "waiting"}
      left == OpenRecords(rec, i) \ {r}
  IN  CASE i \in stopping /\ row[i] = "waiting" -> "running"
        [] o \in {"approved", "denied"} /\ left = {} /\ row[i] = "waiting" -> "running"
        [] o = "cancelled" /\ live /\ i \notin stopping -> "stopped"
        [] o \in {"expired", "aborted"} /\ live /\ i \notin stopping -> "failed"
        [] OTHER -> row[i]

RecordResolution(r, o) ==
  IF rec[r] = o THEN UNCHANGED records
  ELSE /\ rec' = [rec EXCEPT ![r] = o]
       /\ row' = [row EXCEPT ![IOf(r)] = RowAfter(r, o)]

(***************************************************************************)
(* The run is over.  abort_pending_approvals closes what it left open, and *)
(* fails a row that still waits; a row that runs is settled by the graph:  *)
(* its output, recovered when the answer was lost, a stop, or a failure.   *)
(***************************************************************************)
\* The observer's locals end with the run.
Ended(c, result) ==
  [pc |-> result, cursor |-> 0, call |-> observer[c].call, todo |-> <<>>, then |-> "polling"]

\* Mutant: the requests the run left open stay open.
Settle_LeavesOpen(c, result) ==
  LET i == InteractionOf[c] IN
  /\ observer' = [observer EXCEPT ![c] = Ended(c, result)]
  /\ rec' = rec
  /\ \E end \in {"accepted", "failed"} :
       row' = [row EXCEPT ![i] = IF @ = "waiting" THEN "failed"
                                 ELSE IF @ = "running" THEN end ELSE @]

Settle(c, result) ==
  LET i    == InteractionOf[c]
      open == OpenRecords(rec, i)
  IN  /\ observer' = [observer EXCEPT ![c] = Ended(c, IF open = {} THEN result ELSE "failed")]
      /\ rec' = [r \in Requests |-> IF r \in open THEN "aborted" ELSE rec[r]]
      /\ \E end \in {"accepted", "failed"} \union IF i \in stopping THEN {"stopped"} ELSE {} :
           row' = [row EXCEPT ![i] = IF @ = "waiting" THEN "failed"
                                     ELSE IF @ = "running" THEN end ELSE @]

\* What an observer cannot persist ends its run: a tick cancels the completion, and
\* that call may be lost; the final reconciliation has nothing left to cancel.
FailRun(c) ==
  /\ Settle(c, "failed")
  /\ IF observer[c].then = "ack" \/ c \notin active THEN UNCHANGED <<coordinator, faults>>
     ELSE \/ EndCompletion(c, "cancelled") /\ UNCHANGED faults
          \/ Fault /\ UNCHANGED coordinator
  /\ UNCHANGED <<runs, routes>>

(***************************************************************************)
(* The observer reads a snapshot.                                          *)
(***************************************************************************)
\* latest_sequence is where the events read end, unless the stream lost some.
Exact(c) == observer[c].cursor <= Len(streams[InteractionOf[c]])

\* The events after the cursor, then the requests still pending.
Items(i, after) ==
  LET still == Keep(pending, {r \in Requests : IOf(r) = i})
  IN  EventsAfter(i, after) \o [k \in DOMAIN still |-> Requested(still[k])]

Reads(c, then) ==
  LET i     == InteractionOf[c]
      items == Items(i, observer[c].cursor)
  IN  observer' = [observer EXCEPT ![c] =
        [pc |-> IF items = <<>> THEN then ELSE "persisting", cursor |-> Len(streams[i]),
         call |-> observer[c].call, todo |-> items, then |-> then]]

\* An interval tick polls.
Poll(c) ==
  /\ observer[c].pc = "polling"
  /\ \/ /\ Exact(c)
        /\ Snapshot(InteractionOf[c], observer[c].cursor)
        /\ Reads(c, "polling")
        /\ UNCHANGED <<records, runs, routes, faults>>
     \/ ~Exact(c) /\ FailRun(c)

\* The host answers a poll but the answer is lost; a tick only logs that.
PollLost(c) ==
  /\ observer[c].pc = "polling"
  /\ Snapshot(InteractionOf[c], observer[c].cursor)
  /\ Fault
  /\ UNCHANGED <<observer, records, runs, routes>>

\* Mutant: the last events are not reconciled after the completion returned.
FinalPoll_Skipped(c) ==
  /\ observer[c].pc = "polling" /\ c \in returned
  /\ Snapshot(InteractionOf[c], observer[c].cursor)
  /\ Settle(c, "done")
  /\ UNCHANGED <<runs, routes, faults>>

\* The completion returned, or its call failed: the last events are read ...
FinalPoll(c) ==
  /\ observer[c].pc = "polling" /\ c \in returned \union cut
  /\ Snapshot(InteractionOf[c], observer[c].cursor)
  /\ IF Exact(c) THEN Reads(c, "ack") /\ UNCHANGED records ELSE Settle(c, "failed")
  /\ UNCHANGED <<runs, routes, faults>>

\* ... or the reconciliation is lost and the run fails ...
FinalPollLost(c) ==
  /\ \/ observer[c].pc = "polling" /\ c \in returned \union cut
     \/ observer[c].pc = "ack"
  /\ Snapshot(InteractionOf[c], observer[c].cursor)
  /\ Settle(c, "failed")
  /\ Fault
  /\ UNCHANGED <<runs, routes>>

\* ... and final_approval_acknowledgement requires an empty, exact second answer.
FinalAcknowledgement(c) ==
  LET i == InteractionOf[c]
      cursor == observer[c].cursor
  IN  /\ EventsAfter(i, cursor) = <<>> /\ PendingCount(i) = 0
      /\ Len(streams[i]) = cursor \/ Len(streams[i]) = 0

AckPoll(c) ==
  /\ observer[c].pc = "ack"
  /\ Snapshot(InteractionOf[c], observer[c].cursor)
  /\ Settle(c, IF FinalAcknowledgement(c) /\ c \notin cut THEN "done" ELSE "failed")
  /\ UNCHANGED <<runs, routes, faults>>

(***************************************************************************)
(* persist_approval_snapshot takes the snapshot's items in turn.           *)
(***************************************************************************)
Item(c) == Head(observer[c].todo)

\* validate_approval_correlation: all are of one completion call.
Correlated(c) == observer[c].call \in {NoCall, CallOf[Item(c).request]}

Takes(c) ==
  LET o == observer[c] IN
  observer' = [observer EXCEPT ![c] =
    [pc |-> IF Len(o.todo) = 1 THEN o.then ELSE "persisting", cursor |-> o.cursor,
     call |-> CallOf[Item(c).request], todo |-> Tail(o.todo), then |-> o.then]]

PersistForeign(c) ==
  /\ observer[c].pc = "persisting" /\ ~Correlated(c)
  /\ FailRun(c)

PersistRequest(c) ==
  LET r == Item(c).request IN
  /\ observer[c].pc = "persisting" /\ Item(c).type = "requested" /\ Correlated(c)
  /\ \/ RequestRefused(r) /\ FailRun(c)
     \/ /\ ~RequestRefused(r)
        /\ RecordRequest(r) /\ Takes(c)
        /\ UNCHANGED <<coordinator, runs, routes, faults>>

\* A resolution is recorded, and what was decided on its request forgotten.
Resolves(c) ==
  LET r == Item(c).request
      o == Item(c).outcome
  IN  \/ ResolutionRefused(r, o) /\ FailRun(c)
      \/ /\ ~ResolutionRefused(r, o)
         /\ RecordResolution(r, o) /\ Takes(c)
         /\ decision' = [decision EXCEPT ![r] = "none"]
         /\ UNCHANGED <<coordinator, runs, route, late, faults>>

\* validate_event_resolution_authority: a resolution by the user that the row read
\* does not hold yet needs ...
NeedsDecision(c) ==
  Item(c).by = Item(c).request /\ rec[Item(c).request] # Item(c).outcome

PersistResolution(c) ==
  /\ observer[c].pc = "persisting" /\ Item(c).type = "resolved" /\ Correlated(c)
  /\ ~NeedsDecision(c)
  /\ Resolves(c)

ReadApproval(c) ==
  /\ observer[c].pc = "persisting" /\ Item(c).type = "resolved" /\ Correlated(c)
  /\ NeedsDecision(c)
  /\ observer' = [observer EXCEPT ![c].pc = "checking"]
  /\ UNCHANGED <<coordinator, records, runs, routes, faults>>

\* ... a decision, looked up in the map only after that read returned.
Authorized(c) ==
  LET d == decision[Item(c).request]
  IN  d # "none" /\ (Item(c).outcome = "denied" <=> d = "deny")

CheckDecision(c) ==
  /\ observer[c].pc = "checking"
  /\ \/ Authorized(c) /\ Resolves(c)
     \/ ~Authorized(c) /\ FailRun(c)

(***************************************************************************)
(* The decision route.  One call per request is in flight; the decision is *)
(* retained until the host refuses it or its resolution is durable.        *)
(***************************************************************************)
SubmitDecision(r, d) ==
  /\ rec[r] = "open" /\ row[IOf(r)] = "waiting" /\ route[r].pc = "idle"
  /\ decision[r] \in {"none", d}
  /\ decision' = [decision EXCEPT ![r] = d]
  /\ route' = [route EXCEPT ![r] = [pc |-> "sent", again |-> decision[r] # "none", sent |-> d]]
  /\ UNCHANGED <<coordinator, observer, records, runs, late, faults>>

\* The host applies the decision, with the decision it was sent, or refuses it.
Answers(r, pc) == [route EXCEPT ![r] = [pc |-> pc, again |-> route[r].again, sent |-> route[r].sent]]

HostDecides(r, d) ==
  /\ route[r].pc = "sent" /\ d = route[r].sent
  /\ \/ Decide(r, d) /\ route' = Answers(r, "answered")
     \/ /\ r \notin ToSet(pending) /\ UNCHANGED coordinator
        /\ route' = Answers(r, "refused")
  /\ UNCHANGED <<observer, records, runs, decision, late, faults>>

\* The reservation ends: kept unless the host refused it or it became durable.
Release(r, keep) ==
  /\ route' = [route EXCEPT ![r] = NoRoute]
  /\ decision' = IF keep THEN decision ELSE [decision EXCEPT ![r] = "none"]

HostRefused(r) ==
  /\ route[r].pc = "refused"
  /\ Release(r, route[r].again)
  /\ UNCHANGED <<coordinator, observer, records, runs, late, faults>>

LostAnswer_Forgets(r) ==
  /\ route[r].pc \in {"sent", "answered", "refused"}
  /\ late' = IF route[r].pc = "sent" THEN late \union {<<r, route[r].sent>>} ELSE late
  /\ Release(r, FALSE)
  /\ Fault
  /\ UNCHANGED <<coordinator, observer, records, runs>>

\* The answer is lost, or the route gives up on a call the host may yet receive.
LostAnswer(r) ==
  /\ route[r].pc \in {"sent", "answered", "refused"}
  /\ late' = IF route[r].pc = "sent" THEN late \union {<<r, route[r].sent>>} ELSE late
  /\ Release(r, TRUE)
  /\ Fault
  /\ UNCHANGED <<coordinator, observer, records, runs>>

LateDecision(r, d) ==
  /\ <<r, d>> \in late
  /\ late' = late \ {<<r, d>>}
  /\ Decide(r, d) \/ (r \notin ToSet(pending) /\ UNCHANGED coordinator)
  /\ UNCHANGED <<observer, records, runs, decision, route, faults>>

RecordAnswer_OnSubmit(r) ==
  LET o == IF route[r].sent = "deny" THEN "denied" ELSE "approved" IN
  /\ route[r].pc \in {"sent", "answered"}
  /\ IF ResolutionRefused(r, o) THEN UNCHANGED records ELSE RecordResolution(r, o)
  /\ Release(r, ResolutionRefused(r, o))
  /\ UNCHANGED <<coordinator, observer, runs, late, faults>>

\* record_approval_resolution of the answer; a conflict keeps the decision.
RecordAnswer(r) ==
  LET o == promise[r] IN
  /\ route[r].pc = "answered"
  /\ IF ResolutionRefused(r, o) THEN UNCHANGED records ELSE RecordResolution(r, o)
  /\ Release(r, ResolutionRefused(r, o))
  /\ UNCHANGED <<coordinator, observer, runs, late, faults>>

(***************************************************************************)
(* The provider's and the session's own steps.                             *)
(***************************************************************************)
Provider ==
  /\ \/ \E r \in Requests, e \in {"none", "expired", "aborted"} : Request(r, e)
     \/ \E r \in Requests : RequestInactive(r) \/ RequestUnobserved(r)
     \/ \E r \in Requests, o \in {"expired", "aborted"} : ProviderAbort(r, o)
  /\ UNCHANGED product

\* A stream goes stale only after its observer, polling every 100 ms, read it all.
Time(i) ==
  /\ \A c \in Calls : InteractionOf[c] = i /\ observer[c].pc \in Live
       => observer[c].cursor = Len(streams[i])
  /\ GraceElapses(i)
  /\ UNCHANGED product

ObservationNext ==
  \/ \E c \in Calls :
       \/ StartRun(c) \/ Begin(c) \/ TurnEnds(c) \/ AnswerCut(c) \/ Cancel(c)
       \/ Poll(c) \/ PollLost(c) \/ FinalPoll(c) \/ FinalPollLost(c) \/ AckPoll(c)
       \/ PersistForeign(c) \/ PersistRequest(c) \/ PersistResolution(c)
       \/ ReadApproval(c) \/ CheckDecision(c)
  \/ \E r \in Requests :
       \/ \E d \in Decisions : SubmitDecision(r, d) \/ HostDecides(r, d) \/ LateDecision(r, d)
       \/ HostRefused(r) \/ LostAnswer(r) \/ RecordAnswer(r)
  \/ Provider
  \/ \E i \in Interactions : Stop(i) \/ Time(i)
  \/ CloseSession /\ UNCHANGED product

ObservationSpec == ObservationInit /\ [][ObservationNext]_allVars

(***************************************************************************)
(* Properties of the composition.                                          *)
(***************************************************************************)
\* RecordedAsApplied: the database never claims that a request was approved or
\* denied, or otherwise ended by its provider, unless the provider saw exactly that.
\* (A run that ends without reading an end records it as aborted.)
RecordedAsApplied ==
  \A r \in Requests : rec[r] \in Outcomes \ {"aborted"} => rec[r] = promise[r]

\* RefusedOnlyIfRecorded: whatever answers were lost, decisions retried and reservations
\* released, an observer about to look up the authority of the user's answer finds the
\* product's own decision, unless the answer was recorded since it read the approval.
RefusedOnlyIfRecorded ==
  \A c \in Calls :
    observer[c].pc = "checking" /\ rec[Item(c).request] = "open" => Authorized(c)

\* DoneSawEverything: a run that succeeds, and read no other attempt's events,
\* recorded every request its completion made, with the outcome its provider saw.
DoneSawEverything ==
  \A c \in Calls : observer[c].pc = "done" /\ observer[c].call \in {NoCall, c} =>
    \A r \in Requests : CallOf[r] = c /\ promise[r] \in Outcomes => rec[r] = promise[r]

\* NoUnanswerableWait: an interaction waits only for a request that is still open, and
\* while one is open some run observes it and will record or abort its end.
NoUnanswerableWait ==
  \A i \in Interactions :
    /\ row[i] = "waiting" => OpenRecords(rec, i) # {}
    /\ OpenRecords(rec, i) # {} =>
         \E c \in Calls : InteractionOf[c] = i /\ observer[c].pc \in Live

\* KeptUntilFinalAcknowledgement: "Drop the stream only after returning an exact
\* final acknowledgement, never while its completion can race it"
\* (approval-coordinator.ts:316): a run still polling finds the events it read.
KeptUntilFinalAcknowledgement ==
  \A c \in Calls : observer[c].pc = "polling" /\ observer[c].call = c
                     => observer[c].cursor <= Len(streams[InteractionOf[c]])

\* NoLeakedCall: "An earlier attempt's stream that nothing will acknowledge must not
\* leak its completion call into the new observer" (approval-coordinator.ts:176).
NoLeakedCall == \A c \in Calls : observer[c].call \in {NoCall, c}
=============================================================================
