--------------------------- MODULE ExecutionLeases ---------------------------
(***************************************************************************)
(* Provider access held by the harness host for native turns               *)
(* (packages/harness-host/src/host.ts).  An execution lease is admitted    *)
(* with one provider lease per provider of its model plan, claimed by at   *)
(* most one turn, settled when that turn ends, released to its providers   *)
(* with retries, and acknowledged once its owner, the app server, gave it  *)
(* up.  A turn runs until it settles by itself or, once cancelled, until   *)
(* its force-stop is given up on.                                          *)
(*                                                                         *)
(* Each action is the code between two awaits.  What the providers and the *)
(* owner do is ProviderRemoval's.                                          *)
(***************************************************************************)
EXTENDS Naturals, FiniteSets

CONSTANTS
  Leases,         \* execution lease ids
  Providers,      \* provider definitions
  ProvidersOf,    \* the providers of a lease's model plan
  Position,       \* their order in the roster
  Runs,           \* deliveries of a completion to the host
  LeaseOf,        \* the lease a delivery names
  CompletionOf,   \* the completion a delivery is for
  Children,       \* deliveries of agent-invoked completions
  ForceStoppable  \* deliveries whose harness supports a force-stop

ASSUME LeaseAssumption ==
  /\ ProvidersOf \in [Leases -> (SUBSET Providers) \ {{}}]
  /\ Position \in [Providers -> Nat]
  /\ \A p, q \in Providers : Position[p] = Position[q] => p = q
  /\ LeaseOf \in [Runs -> Leases]
  /\ Children \subseteq Runs /\ ForceStoppable \subseteq Runs

VARIABLES
  hostClosing, \* close: "no", "waiting" for the sessions, "done"
  access,      \* the pendingExecutionAccess entry of each lease
  run,         \* the run each delivery started
  native,      \* the native turn of each run
  starts       \* history: native turns started under each lease

host == <<hostClosing, access, run, native, starts>>

hostClosed == hostClosing # "no"

NoEntry ==
  [state |-> "none", tracked |-> FALSE, requested |-> FALSE, owner |-> FALSE,
   timer |-> "none", held |-> {}, todo |-> {}, waiting |-> {}, acks |-> {}]

HostInit ==
  /\ hostClosing = "no"
  /\ access = [l \in Leases |-> NoEntry]
  /\ run = [n \in Runs |-> [pc |-> "none", aborted |-> FALSE, forced |-> FALSE]]
  /\ native = [n \in Runs |-> "none"]
  /\ starts = [l \in Leases |-> 0]

(***************************************************************************)
(* Release and acknowledgement of an entry.  waiting holds who awaits the  *)
(* releasePromise, todo the provider leases its loop has yet to call, held *)
(* the ones not released; acks holds, for each acknowledgement loop, the   *)
(* providers it has yet to call.                                           *)
(***************************************************************************)
IsFirst(p, ps) == p \in ps /\ \A q \in ps : Position[p] <= Position[q]
IsLast(p, ps)  == p \in ps /\ \A q \in ps : Position[p] >= Position[q]

Ackers(a) == {x[1] : x \in a.acks}

StartAck(a, l, who) == [a EXCEPT !.timer = "none", !.acks = @ \cup ({who} \X ProvidersOf[l])]

\* releaseHeldExecution for a caller that goes on to acknowledge or to finish
StartRelease(a, l, who) ==
  IF a.state = "released"
  THEN IF who = "owner" THEN StartAck(a, l, who) ELSE a
  ELSE [a EXCEPT !.timer = "none",
                 !.todo = IF a.waiting = {} THEN a.held ELSE @,
                 !.waiting = @ \cup {who}]

\* The releasePromise resolves: the owner's call acknowledges, and
\* finishReleasedExecution acknowledges or keeps the entry for the owner.
AfterRelease(a, l) ==
  LET b == [a EXCEPT !.state = "released", !.waiting = {}]
      next == {w \in a.waiting : w = "owner" \/ (w = "host" /\ a.tracked /\ a.owner)}
  IN  [b EXCEPT !.acks = next \X ProvidersOf[l],
                !.timer = IF "host" \in a.waiting /\ a.tracked /\ ~a.owner
                                /\ "close" \notin a.waiting
                          THEN "expire" ELSE "none"]

\* It rejects: the host's own timer retries.
AfterFailure(a) ==
  [a EXCEPT !.waiting = {},
            !.timer = IF a.tracked /\ ~hostClosed THEN "release" ELSE "none"]

\* releaseHeldExecutionAccess calls the provider leases in reverse; the last call settles
\* the promise.  A rolled-back admission has no entry to go on with.
ReleaseOne(l, p, ok) ==
  LET a == access[l]
      b == [a EXCEPT !.todo = @ \ {p}, !.held = IF ok THEN @ \ {p} ELSE @]
  IN  /\ a.waiting # {} /\ IsLast(p, a.todo)
      /\ access' = [access EXCEPT ![l] =
           IF b.todo # {} THEN b
           ELSE IF b.state = "refused" THEN [b EXCEPT !.waiting = {}]
           ELSE IF b.held = {} THEN AfterRelease(b, l) ELSE AfterFailure(b)]
      /\ UNCHANGED <<hostClosing, run, native, starts>>

\* acknowledgeReleasedExecution calls one provider.  The last one forgets the
\* entry; a failure is the owner's to retry, or the host's on its timer.
AcknowledgeOne(l, who, p, ok) ==
  LET a == access[l]
      rest == {x \in a.acks : x[1] # who}
      left == a.acks \ {<<who, p>>}
  IN  /\ IsFirst(p, {x[2] : x \in a.acks \ rest})
      /\ access' = [access EXCEPT ![l] =
           IF ok THEN [a EXCEPT !.acks = left,
                                !.tracked = @ /\ \E x \in left : x[1] = who]
           ELSE [a EXCEPT !.acks = rest,
                          !.timer = IF who = "host" /\ a.tracked /\ ~hostClosed
                                    THEN "ack" ELSE @]]
      /\ UNCHANGED <<hostClosing, run, native, starts>>

(***************************************************************************)
(* Admission, and the timers of an entry.                                  *)
(***************************************************************************)
Admit(l) ==
  /\ ~hostClosed /\ access[l].state = "none"
  /\ access' = [access EXCEPT ![l] = [@ EXCEPT !.state = "acquiring", !.todo = ProvidersOf[l]]]
  /\ UNCHANGED <<hostClosing, run, native, starts>>

\* One provider's access is acquired; with the last one the entry is made.
Acquired(l, p) ==
  LET a == access[l]
      b == [a EXCEPT !.todo = @ \ {p}, !.held = @ \cup {p}]
  IN  /\ a.state = "acquiring" /\ IsFirst(p, a.todo)
      /\ access' = [access EXCEPT ![l] =
           IF b.todo # {} THEN b
           ELSE [b EXCEPT !.state = "admitted", !.tracked = TRUE, !.timer = "release"]]
      /\ UNCHANGED <<hostClosing, run, native, starts>>

\* Mutant: what was acquired before the refusal is forgotten.
AdmissionFails_NoRollback(l) ==
  /\ access[l].state = "acquiring"
  /\ access' = [access EXCEPT ![l] = [NoEntry EXCEPT !.state = "refused"]]
  /\ UNCHANGED <<hostClosing, run, native, starts>>

\* A refusal or an aborted admission releases what was acquired, without retries.
AdmissionFails(l) ==
  LET a == access[l] IN
  /\ a.state = "acquiring"
  /\ access' = [access EXCEPT ![l] =
       [a EXCEPT !.state = "refused", !.todo = a.held,
                 !.waiting = IF a.held = {} THEN {} ELSE {"rollback"}]]
  /\ UNCHANGED <<hostClosing, run, native, starts>>

\* releaseAfter: an admission nobody claimed in a minute, or a failed release
ReleaseTimer(l) ==
  LET a == [access[l] EXCEPT !.timer = "none"] IN
  /\ access[l].timer = "release"
  /\ access' = [access EXCEPT ![l] =
       IF ~a.tracked \/ a.state \in {"claimed", "released"} THEN a
       ELSE StartRelease([a EXCEPT !.requested = TRUE], l, "host")]
  /\ UNCHANGED <<hostClosing, run, native, starts>>

\* retryAcknowledgement
AckTimer(l) ==
  /\ access[l].timer = "ack"
  /\ access' = [access EXCEPT ![l] =
       IF @.tracked THEN StartAck(@, l, "host") ELSE [@ EXCEPT !.timer = "none"]]
  /\ UNCHANGED <<hostClosing, run, native, starts>>

\* expireUnacknowledged
ExpireTimer(l) ==
  LET a == access[l] IN
  /\ a.timer = "expire"
  /\ access' = [access EXCEPT ![l] = [a EXCEPT !.timer = "none", !.tracked = @ /\ a.owner]]
  /\ UNCHANGED <<hostClosing, run, native, starts>>

(***************************************************************************)
(* Runs.                                                                   *)
(***************************************************************************)
Ongoing == {"preparing", "claimed", "native", "ending"}

\* complete, invokedCompletion: a delivery of a run that goes on joins it.
Deliver(n) ==
  /\ ~hostClosed /\ run[n].pc = "none"
  /\ run' = [run EXCEPT ![n].pc =
       IF \E m \in Runs : CompletionOf[m] = CompletionOf[n] /\ run[m].pc \in Ongoing
       THEN "joined" ELSE "preparing"]
  /\ UNCHANGED <<hostClosing, access, native, starts>>

\* Mutant: an entry that is still known can be claimed.
Claimable_Known(l) == access[l].tracked

Claimable(l) ==
  LET a == access[l] IN a.tracked /\ a.state = "admitted" /\ ~a.requested

\* The claim of executeCompletion; an invalid or expired admission ends the run.
Claim(n) ==
  LET l == LeaseOf[n] IN
  /\ run[n].pc = "preparing"
  /\ \/ /\ Claimable(l)
        /\ access' = [access EXCEPT ![l] = [@ EXCEPT !.state = "claimed", !.timer = "none"]]
        /\ run' = [run EXCEPT ![n].pc = "claimed"]
     \/ /\ ~Claimable(l)
        /\ run' = [run EXCEPT ![n].pc = "ended"]
        /\ UNCHANGED access
  /\ UNCHANGED <<hostClosing, native, starts>>

\* The run fails, or is found cancelled, before its native turn starts.
PrepareFails(n) ==
  /\ run[n].pc \in {"preparing", "claimed"}
  /\ run' = [run EXCEPT ![n].pc = IF @ = "claimed" THEN "ending" ELSE "ended"]
  /\ UNCHANGED <<hostClosing, access, native, starts>>

StartNative(n) ==
  /\ run[n].pc = "claimed"
  /\ ~run[n].forced /\ (run[n].aborted => n \in Children)
  /\ run' = [run EXCEPT ![n].pc = "native"]
  /\ native' = [native EXCEPT ![n] = "running"]
  /\ starts' = [starts EXCEPT ![LeaseOf[n]] = @ + 1]
  /\ UNCHANGED <<hostClosing, access>>

\* The native turn settles; the turn the host gave up on may settle later.
NativeEnds(n) ==
  /\ native[n] = "running"
  /\ native' = [native EXCEPT ![n] = "ended"]
  /\ run' = [run EXCEPT ![n].pc = IF @ = "native" THEN "ending" ELSE @]
  /\ UNCHANGED <<hostClosing, access, starts>>

\* armForceStop: two minutes after the cancellation
ForceStop(n) ==
  /\ n \in ForceStoppable /\ run[n].aborted /\ ~run[n].forced
  /\ run[n].pc \in Ongoing
  /\ run' = [run EXCEPT ![n].forced = TRUE]
  /\ UNCHANGED <<hostClosing, access, native, starts>>

\* settledOrForceStopped: ten seconds after the force-stop
GiveUp(n) ==
  /\ run[n].pc = "native" /\ run[n].forced
  /\ run' = [run EXCEPT ![n].pc = "ending"]
  /\ UNCHANGED <<hostClosing, access, native, starts>>

\* settleExecutionAccess, in the finally of executeCompletion
SettleAccess(n) ==
  LET l == LeaseOf[n] IN
  /\ run[n].pc = "ending"
  /\ run' = [run EXCEPT ![n].pc = "ended"]
  /\ access' = IF access[l].state = "claimed"
               THEN [access EXCEPT ![l] = StartRelease([@ EXCEPT !.state = "settled"], l, "host")]
               ELSE access
  /\ UNCHANGED <<hostClosing, native, starts>>

CancelRun(n) ==
  /\ run[n].pc \in Ongoing /\ ~run[n].aborted
  /\ run' = [run EXCEPT ![n].aborted = TRUE]
  /\ UNCHANGED <<hostClosing, access, native, starts>>

(***************************************************************************)
(* The owner gives the lease up, and the host closes.                      *)
(***************************************************************************)
OwnerCalling(l) == "owner" \in access[l].waiting \cup Ackers(access[l])

\* Mutant: the owner's release does not wait for the turn.
OwnerReleases_ClaimedToo(l) ==
  LET a == [access[l] EXCEPT !.owner = TRUE, !.requested = TRUE] IN
  /\ access[l].tracked /\ ~OwnerCalling(l)
  /\ access' = [access EXCEPT ![l] = StartRelease(a, l, "owner")]
  /\ UNCHANGED <<hostClosing, run, native, starts>>

\* releaseProviderExecution of a known lease: a claimed one is answered at once,
\* its turn cancelled, and released when that turn settles.
OwnerReleases(l) ==
  LET a == [access[l] EXCEPT !.owner = TRUE] IN
  /\ a.tracked /\ ~OwnerCalling(l)
  /\ \/ /\ a.state = "claimed"
        /\ access' = [access EXCEPT ![l] = a]
        /\ run' = [n \in Runs |-> IF LeaseOf[n] = l /\ run[n].pc \in Ongoing \ {"preparing"}
                                  THEN [run[n] EXCEPT !.aborted = TRUE] ELSE run[n]]
     \/ /\ a.state # "claimed"
        /\ access' = [access EXCEPT ![l] =
             StartRelease([a EXCEPT !.requested = @ \/ a.state = "admitted"], l, "owner")]
        /\ UNCHANGED run
  /\ UNCHANGED <<hostClosing, native, starts>>

\* close: every run is cancelled ...
CloseHost ==
  /\ ~hostClosed
  /\ hostClosing' = "waiting"
  /\ run' = [n \in Runs |-> IF run[n].pc \in Ongoing THEN [run[n] EXCEPT !.aborted = TRUE] ELSE run[n]]
  /\ UNCHANGED <<access, native, starts>>

\* ... and, after the runs or after the deadline, unclaimed access is released.
CloseReleases ==
  /\ hostClosing = "waiting"
  /\ hostClosing' = "done"
  /\ access' = [l \in Leases |->
       IF access[l].tracked /\ access[l].state \in {"admitted", "settled"}
       THEN StartRelease([access[l] EXCEPT !.requested = TRUE], l, "close") ELSE access[l]]
  /\ UNCHANGED <<run, native, starts>>

\* An entry of pendingExecutionAccess with what is in flight on it
Entry ==
  [state : {"none", "acquiring", "refused", "admitted", "claimed", "settled", "released", "lost"},
   tracked : BOOLEAN, requested : BOOLEAN, owner : BOOLEAN,
   timer : {"none", "release", "expire", "ack"},
   held : SUBSET Providers, todo : SUBSET Providers,
   waiting : SUBSET {"owner", "host", "close", "rollback"},
   acks : SUBSET ({"owner", "host"} \X Providers)]

HostTypeOK ==
  /\ hostClosing \in {"no", "waiting", "done"}
  /\ access \in [Leases -> Entry]
  /\ \A l \in Leases : access[l].held \cup access[l].todo \subseteq ProvidersOf[l]
  /\ run \in [Runs -> [pc : Ongoing \cup {"none", "joined", "ended"},
                       aborted : BOOLEAN, forced : BOOLEAN]]
  /\ native \in [Runs -> {"none", "running", "ended"}]
  /\ starts \in [Leases -> Nat]
=============================================================================
