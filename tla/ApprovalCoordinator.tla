------------------------ MODULE ApprovalCoordinator ------------------------
(***************************************************************************)
(* The approval state of one live harness session                          *)
(* (packages/harness-host/src/approval-coordinator.ts).  Completions of    *)
(* the session ask for approval while they run; a user, a session grant,   *)
(* the provider or the host ends each request; and the product reads one   *)
(* event stream per interaction.  Streams, tombstones and grants are       *)
(* bounded, and a stream is dropped once it is acknowledged, abandoned or  *)
(* superseded by a new attempt.                                            *)
(*                                                                         *)
(* A stream's events are numbered from 1 without gaps, so the sequence of  *)
(* an event is its position and nextSequence is Len + 1; a stream exists   *)
(* in the code's Map exactly when it has an event.                         *)
(***************************************************************************)
EXTENDS Selections, FiniteSets, SequencesExt

CONSTANTS
  Interactions,  \* product interactions
  Calls,         \* completion calls (completeCallId, random and never reused)
  Requests,      \* approval requests
  InteractionOf, \* the interaction a call answers
  CallOf,        \* the call a request belongs to
  Scope,         \* the scope keys a request needs
  Unobserved,    \* calls of children the product never recorded
  NoRequest,
  MaxStream,     \* MAX_HARNESS_APPROVAL_RETAINED_EVENTS
  MaxSession,    \* MAX_HARNESS_APPROVAL_SESSION_RETAINED_EVENTS
  MaxTombstones, \* MAX_HARNESS_APPROVAL_TERMINAL_TOMBSTONES
  MaxGrants      \* MAX_HARNESS_APPROVAL_SESSION_GRANTS

ASSUME CoordinatorAssumption ==
  /\ IsFiniteSet(Interactions) /\ IsFiniteSet(Requests)
  /\ InteractionOf \in [Calls -> Interactions]
  /\ CallOf \in [Requests -> Calls]
  /\ \A r \in Requests : Scope[r] # {}
  /\ Unobserved \subseteq Calls
  /\ NoRequest \notin Requests
  /\ {MaxStream, MaxSession, MaxTombstones, MaxGrants} \subseteq Nat \ {0}

VARIABLES
  closed,    \* HarnessApprovalCoordinator.closed
  begun,     \* calls beginCompletion was called for
  active,    \* activeCompletions
  pending,   \* pending, in insertion order
  terminal,  \* terminal, the tombstones in insertion order
  grants,    \* grants, each named by its source request
  streams,   \* the events of each interaction's stream
  order,     \* interactions with a stream, in insertion order
  stale,     \* streams whose last event is older than the grace period
  promise,   \* what the provider awaiting each request sees
  authority, \* the request whose user decision approved this one
  decided    \* history: the decision a user made on each request

coordinator == <<closed, begun, active, pending, terminal, grants, streams,
                 order, stale, promise, authority, decided>>

Decisions == {"approve_once", "approve_always", "deny"}
Outcomes  == {"approved", "denied", "cancelled", "expired", "aborted"}

IOf(r) == InteractionOf[CallOf[r]]

InteractionActive(i)  == \E c \in active : InteractionOf[c] = i
PendingCount(i)       == Cardinality({r \in ToSet(pending) : IOf(r) = i})
Idle(i)               == ~InteractionActive(i) /\ PendingCount(i) = 0

Requested(r)          == [type |-> "requested", request |-> r,
                          outcome |-> "none", by |-> NoRequest]
Resolved(r, o, by)    == [type |-> "resolved", request |-> r,
                          outcome |-> o, by |-> by]

\* The events of some streams, each with its place, and how many they are.
Places(strs)   == UNION {{i} \X DOMAIN strs[i] : i \in Interactions}
Retained(strs) == Cardinality(Places(strs))

Init ==
  /\ closed = FALSE /\ begun = {} /\ active = {}
  /\ pending = <<>> /\ terminal = <<>> /\ grants = <<>>
  /\ streams = [i \in Interactions |-> <<>>] /\ order = <<>> /\ stale = {}
  /\ promise = [r \in Requests |-> "none"]
  /\ authority = [r \in Requests |-> NoRequest]
  /\ decided = [r \in Requests |-> "none"]

(***************************************************************************)
(* Dropping streams.                                                       *)
(***************************************************************************)
ForgetTerminal(term, is) == Keep(term, {r \in Requests : IOf(r) \notin is})

Without(is) == [i \in Interactions |-> IF i \in is THEN <<>> ELSE streams[i]]

DropStreams(is) ==
  /\ streams' = Without(is)
  /\ order' = Keep(order, Interactions \ is)
  /\ stale' = stale \ is

\* Without these streams the session has room for a request and its terminal event.
Fits(is) == Retained(Without(is)) + Len(pending) + 2 <= MaxSession

\* reserveSessionBacklog: the abandoned streams dropped, oldest first, until the
\* session has room: each goes when it does not fit without those before it.
Abandoned(i) ==
  LET old == Keep(order, {j \in stale : j # i /\ Idle(j)})
  IN  {old[k] : k \in {n \in DOMAIN old : ~Fits({old[m] : m \in 1 .. n - 1})}}

\* The grace period of an idle stream passes.  (The age of a stream that is not
\* idle is never looked at.)
GraceElapses(i) ==
  /\ streams[i] # <<>> /\ i \notin stale /\ Idle(i)
  /\ stale' = stale \union {i}
  /\ UNCHANGED <<closed, begun, active, pending, terminal, grants, streams,
                 order, promise, authority, decided>>

(***************************************************************************)
(* Completions.                                                            *)
(***************************************************************************)
\* Mutant: a new attempt resets the stream even while another call uses it.
BeginCompletion_AlwaysResets(c) ==
  /\ ~closed /\ c \notin begun
  /\ begun' = begun \union {c}
  /\ active' = active \union ({c} \ Unobserved)
  /\ DropStreams({InteractionOf[c]})
  /\ UNCHANGED <<closed, pending, terminal, grants, promise, authority, decided>>

\* An observed call becomes active; an unobserved one leaves no state.
BeginCompletion(c) ==
  LET i == InteractionOf[c] IN
  /\ ~closed /\ c \notin begun
  /\ begun' = begun \union {c}
  /\ IF c \in Unobserved
     THEN UNCHANGED <<active, streams, order, stale>>
     ELSE /\ active' = active \union {c}
          /\ DropStreams(IF Idle(i) THEN {i} ELSE {})
  /\ UNCHANGED <<closed, pending, terminal, grants, promise, authority, decided>>

(***************************************************************************)
(* finish for a sequence of pending requests, each with outcome o: they    *)
(* leave pending, become tombstones and get their resolved event.          *)
(***************************************************************************)
\* Mutant: tombstones are kept for ever.
Tombstones_Unbounded(term, rs) == term \o rs

\* The newest m members: a Map or an array from which the oldest are deleted.
Newest(s, m) == IF Len(s) <= m THEN s ELSE SubSeq(s, Len(s) - m + 1, Len(s))

Tombstones(term, rs) == Newest(term \o rs, MaxTombstones)

Finish(rs, o, by) ==
  LET Of(i)    == Keep(rs, {r \in Requests : IOf(r) = i})
      Events(i) == [k \in DOMAIN Of(i) |-> Resolved(Of(i)[k], o, by)]
  IN  /\ pending' = Keep(pending, Requests \ ToSet(rs))
      /\ terminal' = Tombstones(terminal, rs)
      /\ streams' = [i \in Interactions |-> streams[i] \o Events(i)]
      /\ stale' = {i \in stale : Of(i) = <<>>}
      /\ promise' = [r \in Requests |-> IF r \in ToSet(rs) THEN o ELSE promise[r]]
      /\ authority' = [r \in Requests |-> IF r \in ToSet(rs) THEN by ELSE authority[r]]
      /\ UNCHANGED order

PendingOf(c) == Keep(pending, {r \in Requests : CallOf[r] = c})

\* endCompletion (and failClosedCompletion): the call is inactive before its
\* requests end, so none can follow.
EndCompletion_KeepsPending(c, o) ==
  /\ c \in active
  /\ active' = active \ {c}
  /\ UNCHANGED <<closed, begun, pending, terminal, grants, streams, order, stale,
                 promise, authority, decided>>

EndCompletion(c, o) ==
  /\ c \in active
  /\ active' = active \ {c}
  /\ Finish(PendingOf(c), o, NoRequest)
  /\ UNCHANGED <<closed, begun, grants, decided>>

CloseSession ==
  /\ ~closed /\ closed' = TRUE
  /\ active' = {}
  /\ Finish(pending, "aborted", NoRequest)
  /\ grants' = <<>>
  /\ UNCHANGED <<begun, decided>>

(***************************************************************************)
(* Requests.                                                               *)
(***************************************************************************)
\* requestMatchesHarnessApprovalSessionGrant: one live session, so only the keys.
\* Mutant: one common key is enough.
Matches_AnyKey(r, g) == Scope[r] \intersect Scope[g] # {}

Matches(r, g) == Scope[r] \subseteq Scope[g]

\* Mutant: the terminal events owed to other requests are not counted.
StreamFull_NoReserve(r) == Len(streams[IOf(r)]) + 2 > MaxStream

\* Room for the request's own event, its terminal event, and the terminal
\* events already owed to the interaction's pending requests.
StreamFull(r) == Len(streams[IOf(r)]) + PendingCount(IOf(r)) + 2 > MaxStream

\* The request is stored, its event appended, and it ends at once when its
\* provider already aborted (early) or a session grant covers it.
Store(r, early) ==
  LET i     == IOf(r)
      found == Keep(grants, {g \in Requests : Matches(r, g)})
      ends  == IF early # "none" THEN early
               ELSE IF found # <<>> THEN "approved" ELSE "open"
      by    == IF early = "none" /\ found # <<>> THEN found[1] ELSE NoRequest
      dropped == Abandoned(i)
      kept  == ForgetTerminal(terminal, dropped)
  IN  /\ pending' = IF ends = "open" THEN Append(pending, r) ELSE pending
      /\ terminal' = IF ends = "open" THEN kept ELSE Tombstones(kept, <<r>>)
      /\ streams' = [j \in Interactions |->
           IF j # i THEN Without(dropped)[j]
           ELSE streams[i] \o IF ends = "open" THEN <<Requested(r)>>
                              ELSE <<Requested(r), Resolved(r, ends, by)>>]
      /\ order' = LET rest == Keep(order, Interactions \ dropped)
                  IN  IF i \in ToSet(rest) THEN rest ELSE Append(rest, i)
      /\ stale' = stale \ (dropped \union {i})
      /\ promise' = [promise EXCEPT ![r] = ends]
      /\ authority' = [authority EXCEPT ![r] = by]
      /\ UNCHANGED <<closed, begun, active, grants, decided>>

\* A full backlog refuses the request; abandoned streams are dropped all the same
\* unless the interaction's own stream was the full one.
Refuse(r, dropped) ==
  /\ promise' = [promise EXCEPT ![r] = "refused"]
  /\ DropStreams(dropped)
  /\ terminal' = ForgetTerminal(terminal, dropped)
  /\ UNCHANGED <<closed, begun, active, pending, grants, authority, decided>>

\* The provider of an active call asks for approval.
Request(r, early) ==
  /\ promise[r] = "none" /\ CallOf[r] \in active
  /\ LET dropped == Abandoned(IOf(r)) IN
       \/ StreamFull(r) /\ Refuse(r, {})
       \/ ~StreamFull(r) /\ ~Fits(dropped) /\ Refuse(r, dropped)
       \/ ~StreamFull(r) /\ Fits(dropped) /\ Store(r, early)

\* The provider of an ended call asks: approval_completion_inactive.
RequestInactive(r) ==
  /\ promise[r] = "none"
  /\ CallOf[r] \in begun \ (active \union Unobserved)
  /\ promise' = [promise EXCEPT ![r] = "refused"]
  /\ UNCHANGED <<closed, begun, active, pending, terminal, grants, streams, order,
                 stale, authority, decided>>

\* A request of an unobserved call ends as aborted at once and is retained nowhere.
RequestUnobserved(r) ==
  /\ promise[r] = "none" /\ CallOf[r] \in begun \intersect Unobserved
  /\ promise' = [promise EXCEPT ![r] = "aborted"]
  /\ UNCHANGED <<closed, begun, active, pending, terminal, grants, streams, order,
                 stale, authority, decided>>

\* The provider's signal aborts a pending request.
ProviderAbort(r, o) ==
  /\ r \in ToSet(pending)
  /\ Finish(<<r>>, o, NoRequest)
  /\ UNCHANGED <<closed, begun, active, grants, decided>>

(***************************************************************************)
(* decide: the user's decision on a pending request.  approve_always also  *)
(* becomes a session grant and approves every other request it covers.     *)
(***************************************************************************)
Decide(r, d) ==
  LET covered == IF d = "approve_always"
                 THEN Keep(pending, {q \in Requests \ {r} : Matches(q, r)}) ELSE <<>>
  IN  /\ r \in ToSet(pending)
      /\ decided' = [decided EXCEPT ![r] = d]
      /\ Finish(<<r>> \o covered, IF d = "deny" THEN "denied" ELSE "approved", r)
      /\ grants' = IF d = "approve_always" THEN Newest(Append(grants, r), MaxGrants) ELSE grants
      /\ UNCHANGED <<closed, begun, active>>

(***************************************************************************)
(* snapshot: the events after a cursor; an exact acknowledgement of an     *)
(* idle interaction's stream drops it.                                     *)
(***************************************************************************)
EventsAfter(i, after) == SubSeq(streams[i], after + 1, Len(streams[i]))

Acknowledges(i, after) == after = Len(streams[i]) /\ Idle(i)

Snapshot(i, after) ==
  LET gone == IF Acknowledges(i, after) THEN {i} ELSE {} IN
  /\ DropStreams(gone)
  /\ terminal' = ForgetTerminal(terminal, gone)
  /\ UNCHANGED <<closed, begun, active, pending, grants, promise, authority, decided>>

(***************************************************************************)
(* Properties of the coordinator.                                          *)
(***************************************************************************)
EventSet ==
  {Requested(r) : r \in Requests}
    \union {Resolved(r, o, by) : r \in Requests, o \in Outcomes,
                                 by \in Requests \union {NoRequest}}

\* Type invariant: the shape of every field of HarnessApprovalCoordinator, and the
\* bounds on tombstones and grants.
TypeOK ==
  /\ closed \in BOOLEAN /\ begun \subseteq Calls /\ active \subseteq begun
  /\ {pending, terminal, grants} \subseteq Seq(Requests)
  /\ streams \in [Interactions -> Seq(EventSet)]
  /\ Len(terminal) <= MaxTombstones /\ Len(grants) <= MaxGrants
  /\ order \in Seq(Interactions) /\ IsInjective(order)
  /\ ToSet(order) = {i \in Interactions : streams[i] # <<>>} /\ stale \subseteq ToSet(order)
  /\ promise \in [Requests -> Outcomes \union {"none", "open", "refused"}]
  /\ authority \in [Requests -> Requests \union {NoRequest}]
  /\ decided \in [Requests -> Decisions \union {"none"}]

\* NoOrphanedRequest: a provider never waits on a request whose completion has
\* ended or whose session is closed (endCompletion, close), and a request it waits
\* on is one a decision can still reach.
NoOrphanedRequest ==
  \A r \in Requests :
    promise[r] = "open" <=> /\ r \in ToSet(pending)
                            /\ CallOf[r] \in active

\* BacklogBounded: the events retained, with the terminal event each pending
\* request still owes, never exceed the bound of a stream or of the session.
BacklogBounded ==
  /\ \A i \in Interactions : Len(streams[i]) + PendingCount(i) <= MaxStream
  /\ Retained(streams) + Len(pending) <= MaxSession

\* ReviewedOnly: an action proceeds only when the user approved that very request,
\* or approved one with at least its scope for the whole session.
ReviewedOnly ==
  \A r \in Requests : promise[r] = "approved" =>
    LET s == authority[r] IN
      /\ s # NoRequest /\ Scope[r] \subseteq Scope[s]
      /\ decided[s] \in IF s = r THEN {"approve_once", "approve_always"}
                        ELSE {"approve_always"}

\* StreamTellsTheTruth: an observer that reads a stream from its start sees each
\* pending request, and sees each end only after its request and as the provider
\* saw it, whatever streams were dropped in between.
StreamTellsTheTruth ==
  /\ \A r \in ToSet(pending) : Requested(r) \in ToSet(streams[IOf(r)])
  /\ \A i \in Interactions : \A k \in DOMAIN streams[i] :
       LET e == streams[i][k] IN
         /\ IOf(e.request) = i
         /\ e.type = "resolved" =>
              /\ e.outcome = promise[e.request]
              /\ \E j \in 1 .. k - 1 : streams[i][j] = Requested(e.request)

CoordinatorNext ==
  \/ \E c \in Calls : BeginCompletion(c)
  \/ \E c \in Calls, o \in {"cancelled", "aborted"} : EndCompletion(c, o)
  \/ \E r \in Requests, e \in {"none", "expired", "aborted"} : Request(r, e)
  \/ \E r \in Requests : RequestInactive(r) \/ RequestUnobserved(r)
  \/ \E r \in Requests, o \in {"expired", "aborted"} : ProviderAbort(r, o)
  \/ \E r \in Requests, d \in Decisions : Decide(r, d)
  \/ \E i \in Interactions : \E after \in 0 .. MaxStream : Snapshot(i, after)
  \/ \E i \in Interactions : GraceElapses(i)
  \/ CloseSession

CoordinatorSpec == Init /\ [][CoordinatorNext]_coordinator
=============================================================================
