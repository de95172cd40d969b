--------------------------- MODULE ProviderRemoval ---------------------------
(***************************************************************************)
(* Execution leases composed with the two parties around them: the desktop *)
(* provider service (desktop/main/providers/provider-definition-service),  *)
(* which counts the leases of each provider and tombstones a removed one   *)
(* once it is drained, and the app server, which owns the leases: it       *)
(* records attempts, and repeats the release of an ended one until the     *)
(* host answers (app_server.rs).  The store refuses a tombstone while an   *)
(* attempt through the provider is recorded as running.                    *)
(*                                                                         *)
(* Faults are failures of the provider's store and answers lost on the way *)
(* to the owner.  The desktop may restart once; the attempts and the       *)
(* lifecycle of the providers are what it finds again.                     *)
(***************************************************************************)
EXTENDS ExecutionLeases

CONSTANTS
  Orchestrator,   \* the provider recorded for the attempt of a lease
  MaxLeaseFaults, \* bound on faults
  MaxBoots        \* bound on restarts

ASSUME RemovalAssumption ==
  /\ \A l \in Leases : Orchestrator[l] \in ProvidersOf[l]
  /\ MaxLeaseFaults \in Nat /\ MaxBoots \in Nat

VARIABLES
  lifecycle,   \* lifecycleState of each definition
  leased,      \* activeExecutions: the leases a provider counts
  attempt,     \* interaction_attempts row of each lease
  faulted,     \* history: providers whose tombstoning failed
  leaseFaults, \* faults so far
  boots        \* restarts so far

desktop == <<lifecycle, leased, attempt, faulted, leaseFaults, boots>>
leaseVars == <<host, desktop>>

RemovalInit ==
  /\ HostInit
  /\ lifecycle = [p \in Providers |-> "active"]
  /\ leased = [p \in Providers |-> {}]
  /\ attempt = [l \in Leases |-> "none"]
  /\ faulted = {} /\ leaseFaults = 0 /\ boots = 0

LeaseFault == leaseFaults < MaxLeaseFaults /\ leaseFaults' = leaseFaults + 1

(***************************************************************************)
(* Finalizing a removal.                                                   *)
(***************************************************************************)
\* The store counts an attempt by the provider of its orchestrator.
RecordedRunning(p) == \E l \in Leases : Orchestrator[l] = p /\ attempt[l] = "running"

Drained(p, counts) == lifecycle[p] = "removal_pending" /\ counts[p] = {}

\* #finalizeRemoval of drained providers
Finalized(ps) ==
  lifecycle' = [p \in Providers |->
    IF p \in ps /\ ~RecordedRunning(p) THEN "tombstoned" ELSE lifecycle[p]]

\* #finalizeDrainedRemoval of the providers ps, answered or failed: the save fails,
\* or the cleanup behind the tombstone does.
FinalizeDrained(ps, counts, ok) ==
  LET drained == {p \in ps : Drained(p, counts)} IN
  \/ ok /\ Finalized(drained) /\ UNCHANGED <<faulted, leaseFaults>>
  \/ /\ ~ok /\ drained # {} /\ LeaseFault
     /\ faulted' = faulted \cup drained
     /\ UNCHANGED lifecycle \/ Finalized(drained)

(***************************************************************************)
(* The provider's side of a lease.                                         *)
(***************************************************************************)
\* acquireExecution
Acquire(l, p) ==
  /\ lifecycle[p] = "active"
  /\ Acquired(l, p)
  /\ leased' = [leased EXCEPT ![p] = @ \cup {l}]
  /\ UNCHANGED <<lifecycle, attempt, faulted, leaseFaults, boots>>

AcquireRefused(l) == AdmissionFails(l) /\ UNCHANGED desktop

\* release: the count goes down once, whatever follows; a repeated call answers.
ProviderReleases(l, p, ok) ==
  LET counts == [leased EXCEPT ![p] = @ \ {l}] IN
  /\ ReleaseOne(l, p, ok)
  /\ leased' = counts
  /\ IF l \in leased[p] THEN FinalizeDrained({p}, counts, ok)
     ELSE ok /\ UNCHANGED <<lifecycle, faulted, leaseFaults>>
  /\ UNCHANGED <<attempt, boots>>

\* Mutant: the acknowledgement does not try the removal again.
FinalizesOnAck_Never(p, ok) == ok /\ UNCHANGED <<lifecycle, faulted, leaseFaults>>

FinalizesOnAck(p, ok) == FinalizeDrained({p}, leased, ok)

\* The owner's call returns: its debt is settled unless the answer is lost.
Answered(l) ==
  \/ attempt' = [attempt EXCEPT ![l] = IF @ = "ended" THEN "settled" ELSE @]
  \/ attempt[l] = "ended" /\ UNCHANGED attempt

\* acknowledge
ProviderAcknowledges(l, who, p, ok) ==
  /\ AcknowledgeOne(l, who, p, ok)
  /\ FinalizesOnAck(p, ok)
  /\ IF ok /\ who = "owner" /\ "owner" \notin Ackers(access[l]') THEN Answered(l)
     ELSE UNCHANGED attempt
  /\ UNCHANGED <<leased, boots>>

\* remove: pending at once, tombstoned when nothing uses it
RemoveProvider(p, ok) ==
  /\ lifecycle[p] = "active"
  /\ LET next == [lifecycle EXCEPT ![p] = "removal_pending"]
         goes == leased[p] = {} /\ ~RecordedRunning(p)
     IN  \/ ok /\ lifecycle' = (IF goes THEN [next EXCEPT ![p] = "tombstoned"] ELSE next)
            /\ UNCHANGED <<faulted, leaseFaults>>
         \/ /\ ~ok /\ leased[p] = {} /\ LeaseFault
            /\ faulted' = faulted \cup {p}
            /\ lifecycle' = next
  /\ UNCHANGED <<host, leased, attempt, boots>>

(***************************************************************************)
(* The owner.                                                              *)
(***************************************************************************)
\* The admitted lease is recorded with a running attempt before it is used.
RecordAttempt(l) ==
  /\ attempt[l] = "none" /\ access[l].state \notin {"none", "acquiring", "refused", "lost"}
  /\ attempt' = [attempt EXCEPT ![l] = "running"]
  /\ UNCHANGED <<host, lifecycle, leased, faulted, leaseFaults, boots>>

\* Or the admission is given back, once.
RejectAdmission(l) ==
  /\ attempt[l] = "none" /\ access[l].tracked
  /\ attempt' = [attempt EXCEPT ![l] = "rejected"]
  /\ OwnerReleases(l)
  /\ UNCHANGED <<lifecycle, leased, faulted, leaseFaults, boots>>

\* The attempt's outcome, or that nobody waits for it any more, becomes durable.
AttemptEnds(l) ==
  /\ attempt[l] = "running"
  /\ attempt' = [attempt EXCEPT ![l] = "ended"]
  /\ UNCHANGED <<host, lifecycle, leased, faulted, leaseFaults, boots>>

\* reconcile_terminal_execution_lease: the host knows the lease ...
ReleaseDebt(l) ==
  /\ attempt[l] = "ended"
  /\ OwnerReleases(l)
  /\ IF access[l].state = "claimed" THEN Answered(l) ELSE UNCHANGED attempt
  /\ UNCHANGED <<lifecycle, leased, faulted, leaseFaults, boots>>

\* ... or not, and every drained removal is tried again (acknowledgeUnknownRelease).
ReleaseUnknown(l, ok) ==
  /\ attempt[l] = "ended" /\ ~access[l].tracked /\ ~OwnerCalling(l)
  /\ FinalizeDrained(Providers, leased, ok)
  /\ IF ok THEN Answered(l) ELSE UNCHANGED attempt
  /\ UNCHANGED <<host, leased, boots>>

\* The desktop ends and starts again: no lease is known, no turn runs, and
\* reconcileStartup tries the removals left pending.
Restart ==
  /\ boots < MaxBoots /\ boots' = boots + 1
  /\ hostClosing' = "no"
  /\ access' = [l \in Leases |-> [NoEntry EXCEPT !.state = "lost"]]
  /\ run' = [n \in Runs |-> [run[n] EXCEPT !.pc = IF @ \in Ongoing THEN "ended" ELSE @]]
  /\ native' = [n \in Runs |-> IF native[n] = "running" THEN "ended" ELSE native[n]]
  /\ leased' = [p \in Providers |-> {}]
  /\ Finalized({p \in Providers : lifecycle[p] = "removal_pending"})
  /\ UNCHANGED <<starts, attempt, faulted, leaseFaults>>

HostAlone ==
  /\ \/ \E l \in Leases : Admit(l) \/ ReleaseTimer(l) \/ AckTimer(l) \/ ExpireTimer(l)
     \/ \E n \in Runs :
          \/ attempt[LeaseOf[n]] # "none" /\ Deliver(n)
          \/ Claim(n) \/ PrepareFails(n) \/ StartNative(n) \/ NativeEnds(n)
          \/ ForceStop(n) \/ GiveUp(n) \/ SettleAccess(n) \/ CancelRun(n)
     \/ boots < MaxBoots /\ CloseHost
     \/ CloseReleases
  /\ UNCHANGED desktop

RemovalNext ==
  \/ HostAlone
  \/ \E l \in Leases :
       \/ \E p \in Providers, ok \in BOOLEAN :
            \/ ProviderReleases(l, p, ok)
            \/ \E who \in {"owner", "host"} : ProviderAcknowledges(l, who, p, ok)
       \/ \E p \in Providers : Acquire(l, p)
       \/ AcquireRefused(l)
       \/ RecordAttempt(l) \/ RejectAdmission(l) \/ AttemptEnds(l) \/ ReleaseDebt(l)
       \/ \E ok \in BOOLEAN : ReleaseUnknown(l, ok)
  \/ \E p \in Providers, ok \in BOOLEAN : RemoveProvider(p, ok)
  \/ Restart

RemovalSpec == RemovalInit /\ [][RemovalNext]_leaseVars

(***************************************************************************)
(* Fairness: timers fire, calls return, admissions are decided, a run goes *)
(* on to its next await; a cancelled turn is force-stopped and given up    *)
(* on, or settles by itself when its harness has no force-stop; attempts   *)
(* end (they complete, fail, or are stopped); the reconciler repeats the   *)
(* release of an ended one; and a closed desktop is started again.         *)
(***************************************************************************)
LeaseGoesOn(l) ==
  \/ (ReleaseTimer(l) \/ AckTimer(l)) /\ UNCHANGED desktop
  \/ AcquireRefused(l)
  \/ \E p \in Providers, ok \in BOOLEAN :
       \/ ProviderReleases(l, p, ok)
       \/ \E who \in {"owner", "host"} : ProviderAcknowledges(l, who, p, ok)

OwnerGoesOn(l) == ReleaseDebt(l) \/ \E ok \in BOOLEAN : ReleaseUnknown(l, ok)

RunGoesOn(n) ==
  /\ \/ Claim(n) \/ PrepareFails(n) \/ ForceStop(n) \/ GiveUp(n) \/ SettleAccess(n)
     \/ n \notin ForceStoppable /\ NativeEnds(n)
  /\ UNCHANGED desktop

RemovalFairness ==
  /\ \A l \in Leases : /\ WF_leaseVars(LeaseGoesOn(l)) /\ WF_leaseVars(AttemptEnds(l))
                       /\ WF_leaseVars(OwnerGoesOn(l))
  /\ \A n \in Runs : WF_leaseVars(RunGoesOn(n))
  /\ WF_leaseVars(hostClosed /\ Restart)

FairRemovalSpec == RemovalSpec /\ RemovalFairness

(***************************************************************************)
(* Properties.                                                             *)
(***************************************************************************)
\* Type invariant of the host's leases and of the parties around it.
RemovalTypeOK ==
  /\ HostTypeOK
  /\ lifecycle \in [Providers -> {"active", "removal_pending", "tombstoned"}]
  /\ leased \in [Providers -> SUBSET Leases]
  /\ attempt \in [Leases -> {"none", "running", "rejected", "ended", "settled"}]
  /\ faulted \subseteq Providers
  /\ leaseFaults \in 0 .. MaxLeaseFaults /\ boots \in 0 .. MaxBoots

\* AccessHeldWhileTurnRuns: "Provider access lives exactly as long as the native turn
\* that uses it" (host.ts:1095).  While a turn the host has not given up on runs, each
\* of its providers counts its lease and has kept its runtime and credentials,
\* whatever the owner released, the user removed or the store recorded.
AccessHeldWhileTurnRuns ==
  \A n \in Runs : run[n].pc \in {"claimed", "native"} =>
    \A p \in ProvidersOf[LeaseOf[n]] :
      LeaseOf[n] \in leased[p] /\ lifecycle[p] # "tombstoned"

\* OneTurnPerLease: however often a prepared run is delivered, before or after it
\* ended, its lease pays for one native turn (host.ts:718).
OneTurnPerLease == \A l \in Leases : starts[l] <= 1

\* NoStrandedLease: a lease a provider counts always has somebody about to release it:
\* the admission, the run that claimed it, a release in progress or a timer.
NoStrandedLease ==
  \A l \in Leases, p \in Providers : (l \in leased[p] /\ ~hostClosed) =>
    LET a == access[l] IN
      \/ a.state = "acquiring"
      \/ a.waiting # {} /\ p \in a.todo
      \/ a.tracked /\ a.timer = "release"
      \/ a.tracked /\ a.state = "claimed"
         /\ \E n \in Runs : LeaseOf[n] = l /\ run[n].pc \in Ongoing \ {"preparing"}

\* RemovalFinishes: a removal that waits on running work is finished once that work
\* has ended, whichever of the lease's release, its expiry, the attempt's record and a
\* restart comes first: for good, no provider is left pending unless its tombstone
\* itself failed (provider-definition-service.mjs:1236).
RemovalFinishes ==
  <>[](\A p \in Providers : lifecycle[p] = "removal_pending" => p \in faulted)
=============================================================================
