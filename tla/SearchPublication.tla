-------------------------- MODULE SearchPublication --------------------------
(***************************************************************************)
(* Accepted graphs are committed twice: to SQLite, which is canonical, and *)
(* to the derived Ladybug search store.  No commit covers both, so a       *)
(* publication quarantines its search target, commits Ladybug, commits     *)
(* SQLite and only then lifts the quarantine.  This module has every step  *)
(* of that protocol, the failures and abandoned requests between them, the *)
(* single worker thread behind the Ladybug connection, public queries,     *)
(* retries, restart reconciliation and the background rebuild.             *)
(*                                                                         *)
(* A publication stands for one transition with its operation key: its     *)
(* identity digest, its closure and its receipt.  What SQLite or Ladybug   *)
(* hold is the set of publications committed to them.  The write order     *)
(* lock, the publication barrier and SQLite's write lock are held between  *)
(* the steps of a publication, so they are read off its program counter.   *)
(***************************************************************************)
EXTENDS Naturals, Sequences, FiniteSets

CONSTANTS
  Publications,  \* transitions that publish a graph
  Targets,       \* search targets (projects, or threads without a project)
  TargetOf,      \* the ordering target of a publication
  Queries,       \* public query requests
  Dark,          \* publications of completions without root_current_write
  Disconnecting, \* publications whose client may leave before it reads the BEGIN's answer
  NoPublication,
  MaxRevision,   \* bound on search revisions
  MaxRestarts    \* bound on restarts

ASSUME PublicationAssumption ==
  /\ TargetOf \in [Publications -> Targets]
  /\ Dark \subseteq Publications
  /\ Disconnecting \subseteq Publications
  /\ NoPublication \notin Publications
  /\ MaxRevision \in Nat /\ MaxRestarts \in Nat

VARIABLES
  canonical,     \* publications committed in SQLite
  canonicalRev,  \* search_index_targets.revision of each target, 0 if none
  store,         \* publications committed in the open Ladybug generation
  storeRev,      \* revision Ladybug holds for each target
  pointer,       \* generation the active pointer names, when it is not the open one
  readiness,     \* LadybugRuntime.readiness
  pending,       \* LadybugRuntime.pending_publications
  pc,            \* step of each publication request
  txn,           \* transaction open on the Ladybug connection
  jobs,          \* jobs of abandoned requests still queued at the worker
  rebuild,       \* background_rebuild: phase, snapshot, whether the epoch moved
  query,         \* step and observations of each query
  dark,          \* step of the replayed flat submit of each dark publication
  acked,         \* publications whose request was answered with success
  restarts       \* number of restarts so far

durable == <<canonical, canonicalRev, store, storeRev, pointer>>
memory  == <<readiness, pending>>
worker  == <<txn, jobs>>
vars    == <<durable, memory, worker, pc, rebuild, query, dark, acked, restarts>>

NoTxn == [pub |-> NoPublication, rev |-> 0, applied |-> FALSE]
NoGeneration == [set |-> {}, revs |-> [t \in Targets |-> 0], named |-> FALSE]
NotRebuilding == [phase |-> "none", set |-> {}, revs |-> [t \in Targets |-> 0], moved |-> FALSE]
NoQuery(t) == [pc |-> "idle", target |-> t, needed |-> {}, seen |-> {},
               inside |-> FALSE, overtaken |-> FALSE]

Of(t, S) == { p \in S : TargetOf[p] = t }

-----------------------------------------------------------------------------
(* Locks, and the readiness tests. *)

InSqlite == {"writing", "begun", "applied", "quarantined", "committed"}
InBarrier == InSqlite \cup {"confirming"}

OrderFree(t)  == \A p \in Of(t, Publications) : pc[p] = "idle"
SqliteFree    == \A p \in Publications : pc[p] \notin InSqlite
BarrierFree   == \A p \in Publications : pc[p] \notin InBarrier
OperationsFree ==
  /\ \A p \in Publications : pc[p] \notin {"begun", "applied", "quarantined"}
  /\ \A q \in Queries : query[q].pc # "admitted"

\* The worker takes jobs in order: a new job runs after the abandoned ones.
WorkerFree == jobs = <<>>

\* require_store_available
Available(t) == readiness[t] \in {"Ready", "CanonicalUnknown"}

Later(a, b) == IF a >= b THEN a ELSE b

Move(p, from, to) == pc[p] = from /\ pc' = [pc EXCEPT ![p] = to]

\* canonical_commit_confirmed
Confirmed(t) ==
  /\ pending' = [pending EXCEPT ![t] = NoPublication]
  /\ readiness' = [readiness EXCEPT ![t] = IF @ = "CanonicalUnknown" THEN "Ready" ELSE @]

-----------------------------------------------------------------------------
(* A publication request: transition, index_and_record, commit_indexed_write. *)

\* order_writes_to
Order(p) ==
  /\ OrderFree(TargetOf[p])
  /\ Move(p, "idle", "ordered")
  /\ UNCHANGED <<durable, memory, worker, rebuild, query, dark, acked, restarts>>

\* wait_until_available, enter_search_publication, begin_write
Enter(p) ==
  /\ Available(TargetOf[p])
  /\ rebuild.phase # "locked"
  /\ SqliteFree
  /\ Move(p, "ordered", "writing")
  /\ UNCHANGED <<durable, memory, worker, rebuild, query, dark, acked, restarts>>

\* The receipt is already committed and its target is not quarantined.
ReplayKnown(p) ==
  /\ p \in canonical
  /\ readiness[TargetOf[p]] # "CanonicalUnknown"
  /\ Move(p, "writing", "idle")
  /\ acked' = acked \cup {p}
  /\ UNCHANGED <<durable, memory, worker, rebuild, query, dark, restarts>>

\* canonical_publication_matches: on equal revisions the replay lifts the quarantine
\* (on different ones it is refused, as in Abandon).
ReplayReconciles(p) ==
  LET t == TargetOf[p]
  IN /\ p \in canonical
     /\ readiness[t] = "CanonicalUnknown" /\ WorkerFree
     /\ canonicalRev[t] = storeRev[t]
     /\ Move(p, "writing", "idle")
     /\ Confirmed(t)
     /\ acked' = acked \cup {p}
     /\ UNCHANGED <<durable, worker, rebuild, query, dark, restarts>>

\* BEGIN TRANSACTION of a publication at a revision; it fails while another
\* transaction is open on the connection.
BeginAt(p, rev) ==
  /\ p \notin canonical
  /\ Available(TargetOf[p]) /\ WorkerFree
  /\ txn = NoTxn
  /\ rev <= MaxRevision
  /\ txn' = [pub |-> p, rev |-> rev, applied |-> FALSE]
  /\ UNCHANGED <<durable, memory, jobs, rebuild, query, dark, acked, restarts>>

\* Mutant: the newest revision is taken again.
NextRevision_Same(t) == Later(Later(canonicalRev[t], storeRev[t]), 1)

\* index_and_record: one past the revisions of both stores
NextRevision(t) == Later(canonicalRev[t], storeRev[t]) + 1

Begin(p) ==
  /\ Move(p, "writing", "begun")
  /\ BeginAt(p, NextRevision(TargetOf[p]))

\* The worker's answer to the BEGIN is accepted by the channel, then the request
\* is dropped before it reads it: the undo does not run, and no LadybugWrite
\* exists to queue a ROLLBACK.
BeginLost(p) ==
  /\ p \in Disconnecting
  /\ Move(p, "writing", "idle")
  /\ BeginAt(p, NextRevision(TargetOf[p]))

\* apply of every closure of the publication
Apply(p) ==
  /\ Move(p, "begun", "applied")
  /\ txn' = [txn EXCEPT !.applied = TRUE]
  /\ UNCHANGED <<durable, memory, jobs, rebuild, query, dark, acked, restarts>>

\* Mutant: a target that is already quarantined takes over any publication.
Quarantine_AnyIdentity(p) ==
  /\ Available(TargetOf[p])
  /\ Move(p, "applied", "quarantined")
  /\ readiness' = [readiness EXCEPT ![TargetOf[p]] = "CanonicalUnknown"]
  /\ pending' = [pending EXCEPT ![TargetOf[p]] = p]
  /\ UNCHANGED <<durable, worker, rebuild, query, dark, acked, restarts>>

\* canonical_commit_unknown: refuses another identity while one is pending
Quarantine(p) ==
  LET t == TargetOf[p]
  IN /\ readiness[t] = "Ready" \/ (readiness[t] = "CanonicalUnknown" /\ pending[t] = p)
     /\ Move(p, "applied", "quarantined")
     /\ readiness' = [readiness EXCEPT ![t] = "CanonicalUnknown"]
     /\ pending' = [pending EXCEPT ![t] = p]
     /\ UNCHANGED <<durable, worker, rebuild, query, dark, acked, restarts>>

\* The transaction on the connection becomes durable in Ladybug.
CommitTxn ==
  /\ store' = IF txn.applied THEN store \cup {txn.pub} ELSE store
  /\ storeRev' = [storeRev EXCEPT ![TargetOf[txn.pub]] = txn.rev]
  /\ txn' = NoTxn

\* LadybugWrite::commit answered; the epoch moves
LadybugCommit(p) ==
  /\ WorkerFree
  /\ Move(p, "quarantined", "committed")
  /\ CommitTxn
  /\ rebuild' = [rebuild EXCEPT !.moved = TRUE]
  /\ UNCHANGED <<canonical, canonicalRev, pointer, memory, jobs, query, dark, acked, restarts>>

\* Mutant: the error of the Ladybug commit is ignored.
LadybugCommitFails_Ignored(p) ==
  /\ WorkerFree
  /\ Move(p, "quarantined", "committed")
  /\ txn' = NoTxn
  /\ UNCHANGED <<durable, memory, jobs, rebuild, query, dark, acked, restarts>>

\* LadybugWrite::commit answered with an error after its own ROLLBACK
LadybugCommitFails(p) ==
  /\ WorkerFree
  /\ Move(p, "quarantined", "idle")
  /\ txn' = NoTxn
  /\ UNCHANGED <<durable, memory, jobs, rebuild, query, dark, acked, restarts>>

\* The deadline has passed when commit is called: run_until refuses without a job,
\* and the write is marked settled, so no ROLLBACK is queued either.
LadybugCommitExpired(p) ==
  /\ Move(p, "quarantined", "idle")
  /\ UNCHANGED <<durable, memory, worker, rebuild, query, dark, acked, restarts>>

\* record_revision and the SQLite commit
SqliteEffect(p) ==
  /\ canonical' = canonical \cup {p}
  /\ canonicalRev' = [canonicalRev EXCEPT ![TargetOf[p]] = storeRev[TargetOf[p]]]

SqliteCommit(p) ==
  /\ Move(p, "committed", "confirming")
  /\ SqliteEffect(p)
  /\ UNCHANGED <<store, storeRev, pointer, memory, worker, rebuild, query, dark, acked, restarts>>

\* A failed or cancelled COMMIT is ambiguous: it may have taken effect.
SqliteCommitAmbiguous(p) ==
  /\ Move(p, "committed", "idle")
  /\ SqliteEffect(p) \/ UNCHANGED <<canonical, canonicalRev>>
  /\ UNCHANGED <<store, storeRev, pointer, memory, worker, rebuild, query, dark, acked, restarts>>

Confirm(p) ==
  /\ Move(p, "confirming", "idle")
  /\ Confirmed(TargetOf[p])
  /\ acked' = acked \cup {p}
  /\ UNCHANGED <<durable, worker, rebuild, query, dark, restarts>>

\* Mutant: an abandoned request keeps its step instead of dropping its locks.
Abandon_Parked(p) ==
  /\ pc[p] \in {"ordered", "writing", "begun", "applied", "quarantined"}
  /\ pc' = [pc EXCEPT ![p] = "abandoned"]
  /\ UNCHANGED <<durable, memory, worker, rebuild, query, dark, acked, restarts>>

\* A deadline, a refusal or a cancelled request.  SQLite rolls back; an open
\* Ladybug transaction gets a queued ROLLBACK, behind the COMMIT already queued.
Abandon(p) ==
  /\ pc[p] \in {"ordered", "writing", "begun", "applied", "quarantined"}
  /\ pc' = [pc EXCEPT ![p] = "idle"]
  /\ jobs' = jobs \o (CASE pc[p] = "quarantined" -> <<"commit", "rollback">>
                        [] pc[p] \in {"begun", "applied"} -> <<"rollback">>
                        [] OTHER -> <<>>)
  /\ UNCHANGED <<durable, memory, txn, rebuild, query, dark, acked, restarts>>

\* The worker reaches a job nobody waits for.  A commit run this way does not
\* move the epoch.
RunJob ==
  /\ jobs # <<>>
  /\ jobs' = Tail(jobs)
  /\ \/ Head(jobs) = "commit" /\ txn.pub # NoPublication /\ CommitTxn
     \/ txn' = NoTxn /\ UNCHANGED <<store, storeRev>>
  /\ UNCHANGED <<canonical, canonicalRev, pointer, memory, pc, rebuild, query, dark, acked, restarts>>

-----------------------------------------------------------------------------
(* execute_prepared *)

\* First two readiness checks, around the operations lock
QueryAdmit(q, t) ==
  /\ query[q].pc \in {"idle", "returned"}
  /\ readiness[t] = "Ready"
  /\ query' = [query EXCEPT ![q] =
       [NoQuery(t) EXCEPT !.pc = "admitted", !.needed = Of(t, acked)]]
  /\ UNCHANGED <<durable, memory, worker, pc, rebuild, dark, acked, restarts>>

\* The job on the shared connection: inside a transaction another request has
\* open there, it reads what that transaction has applied.
QueryRun(q) ==
  /\ query[q].pc = "admitted"
  /\ WorkerFree
  /\ query' = [query EXCEPT ![q] = [@ EXCEPT
       !.pc = "ran",
       !.seen = Of(query[q].target, store \cup (IF txn.applied THEN {txn.pub} ELSE {})),
       !.inside = txn # NoTxn]]
  /\ UNCHANGED <<durable, memory, worker, pc, rebuild, dark, acked, restarts>>

\* Mutant: the readiness is not read again after the engine work.
QueryReturn_NoRecheck(q) ==
  /\ query[q].pc = "ran"
  /\ query' = [query EXCEPT ![q].pc = "returned"]
  /\ UNCHANGED <<durable, memory, worker, pc, rebuild, dark, acked, restarts>>

\* The operations lock is dropped; then the third readiness check, and the answer
QueryReturn(q) ==
  /\ query[q].pc = "ran"
  /\ readiness[query[q].target] = "Ready"
  /\ query' = [query EXCEPT ![q].pc = "returned"]
  /\ UNCHANGED <<durable, memory, worker, pc, rebuild, dark, acked, restarts>>

\* Not ready any more, over budget or cancelled
QueryRefused(q) ==
  /\ query[q].pc \in {"admitted", "ran"}
  /\ query' = [query EXCEPT ![q] = NoQuery(@.target)]
  /\ UNCHANGED <<durable, memory, worker, pc, rebuild, dark, acked, restarts>>

-----------------------------------------------------------------------------
(* complete() for a dark completion that already has its output: one read     *)
(* transaction, without the order lock and without the barrier.               *)

DarkRead(p) ==
  /\ p \in Dark \cap canonical
  /\ dark[p].pc = "idle"
  /\ dark' = [dark EXCEPT ![p] = [pc |-> "read", rev |-> canonicalRev[TargetOf[p]]]]
  /\ UNCHANGED <<durable, memory, worker, pc, rebuild, query, acked, restarts>>

\* canonical_commit_is_unknown
DarkCheck(p) ==
  /\ dark[p].pc = "read"
  /\ dark' = [dark EXCEPT ![p].pc =
       IF readiness[TargetOf[p]] = "CanonicalUnknown" THEN "compare" ELSE "idle"]
  /\ UNCHANGED <<durable, memory, worker, pc, rebuild, query, acked, restarts>>

\* The stored revision against the revision of the read transaction
DarkCompare(p) ==
  /\ dark[p].pc = "compare"
  /\ WorkerFree
  /\ dark' = [dark EXCEPT ![p].pc =
       IF dark[p].rev = storeRev[TargetOf[p]] THEN "confirm" ELSE "idle"]
  /\ UNCHANGED <<durable, memory, worker, pc, rebuild, query, acked, restarts>>

DarkConfirm(p) ==
  /\ dark[p].pc = "confirm"
  /\ Confirmed(TargetOf[p])
  /\ dark' = [dark EXCEPT ![p].pc = "idle"]
  /\ UNCHANGED <<durable, worker, pc, rebuild, query, acked, restarts>>

-----------------------------------------------------------------------------
(* Restart, open_reconciled and background_rebuild. *)

\* The process ends: requests, the open transaction, queued jobs and quarantine
\* are lost.  The generation the pointer names is opened.
Restarted ==
  /\ pc' = [p \in Publications |-> "idle"]
  /\ txn' = NoTxn /\ jobs' = <<>>
  /\ pending' = [t \in Targets |-> NoPublication]
  /\ query' = [q \in Queries |->
       IF query[q].pc = "returned" THEN query[q] ELSE NoQuery(query[q].target)]
  /\ dark' = [p \in Publications |-> [pc |-> "idle", rev |-> 0]]
  /\ pointer' = NoGeneration
  /\ rebuild' = NotRebuilding
  /\ restarts < MaxRestarts /\ restarts' = restarts + 1
  /\ UNCHANGED <<canonical, canonicalRev, acked>>

OpenedStore == IF pointer.named THEN pointer.set ELSE store
OpenedRevs  == IF pointer.named THEN pointer.revs ELSE storeRev

\* Mutant: the revisions are taken to match after any restart.
Damaged_None(t) == FALSE

\* damaged_targets
Damaged(t) == OpenedRevs[t] # canonicalRev[t] \/ Of(t, OpenedStore) # Of(t, canonical)

\* The store opens; its damaged targets are rebuilt in the background.
RestartReconcile ==
  /\ Restarted
  /\ store' = OpenedStore /\ storeRev' = OpenedRevs
  /\ readiness' = [t \in Targets |-> IF Damaged(t) THEN "Rebuilding" ELSE "Ready"]

\* The store does not open: it is rebuilt before the server answers.
RestartRebuilt ==
  /\ Restarted
  /\ store' = canonical /\ storeRev' = canonicalRev
  /\ readiness' = [t \in Targets |-> "Ready"]

\* search_index_rebuild_snapshot and the epoch, then the candidate is built
RebuildSnapshot ==
  /\ rebuild.phase = "none"
  /\ \E t \in Targets : readiness[t] = "Rebuilding"
  /\ rebuild' = [phase |-> "built", set |-> canonical, revs |-> canonicalRev, moved |-> FALSE]
  /\ UNCHANGED <<durable, memory, worker, pc, query, dark, acked, restarts>>

\* Mutant: the snapshot is not compared again under the barrier.
RebuildLock_NoCompare ==
  /\ rebuild.phase = "built"
  /\ BarrierFree
  /\ rebuild' = [rebuild EXCEPT !.phase = "locked"]
  /\ UNCHANGED <<durable, memory, worker, pc, query, dark, acked, restarts>>

\* lock_search_rebuild; a candidate that missed a publication starts over
RebuildLock ==
  /\ rebuild.phase = "built"
  /\ BarrierFree
  /\ rebuild' =
       IF rebuild.set = canonical /\ rebuild.revs = canonicalRev /\ ~rebuild.moved
       THEN [rebuild EXCEPT !.phase = "locked"]
       ELSE NotRebuilding
  /\ UNCHANGED <<durable, memory, worker, pc, query, dark, acked, restarts>>

\* finish_rebuild
Finished(outcome) ==
  /\ readiness' = [t \in Targets |-> IF readiness[t] = "Rebuilding" THEN outcome ELSE readiness[t]]
  /\ rebuild' = NotRebuilding

\* lock_operations, publish, install_store.  The old store's worker goes with it; a
\* query that ran there has let the operations lock go and may still answer, also with
\* what only the old store held of a quarantined target.
Install ==
  /\ store' = rebuild.set /\ storeRev' = rebuild.revs
  /\ pointer' = NoGeneration
  /\ txn' = NoTxn /\ jobs' = <<>>
  /\ query' = [q \in Queries |->
       [query[q] EXCEPT !.overtaken =
          @ \/ (query[q].pc = "ran" /\ readiness[query[q].target] = "CanonicalUnknown")]]

RebuildInstall ==
  /\ rebuild.phase = "locked" /\ OperationsFree
  /\ Install
  /\ Finished("Ready")
  /\ UNCHANGED <<canonical, canonicalRev, pending, pc, dark, acked, restarts>>

\* Installed, but retaining the old generation or recording the receipt failed
RebuildInstallFails ==
  /\ rebuild.phase = "locked" /\ OperationsFree
  /\ Install
  /\ Finished("Failed")
  /\ UNCHANGED <<canonical, canonicalRev, pending, pc, dark, acked, restarts>>

\* The pointer was published, then opening the generation failed: the process
\* keeps the old store, a restart opens the new one.
RebuildOpenFails ==
  /\ rebuild.phase = "locked" /\ OperationsFree
  /\ pointer' = [set |-> rebuild.set, revs |-> rebuild.revs, named |-> TRUE]
  /\ Finished("Failed")
  /\ UNCHANGED <<canonical, canonicalRev, store, storeRev, pending, worker, pc, query, dark, acked, restarts>>

\* Mutant: a failed rebuild does not reach finish_rebuild.
RebuildFails_Silent ==
  /\ rebuild.phase # "none"
  /\ rebuild' = NotRebuilding
  /\ UNCHANGED <<durable, memory, worker, pc, query, dark, acked, restarts>>

\* Any failure before the pointer is published
RebuildFails ==
  /\ rebuild.phase # "none"
  /\ Finished("Failed")
  /\ UNCHANGED <<durable, pending, worker, pc, query, dark, acked, restarts>>

-----------------------------------------------------------------------------
Init ==
  /\ canonical = {} /\ canonicalRev = [t \in Targets |-> 0]
  /\ store = {} /\ storeRev = [t \in Targets |-> 0]
  /\ pointer = NoGeneration
  /\ readiness = [t \in Targets |-> "Ready"]
  /\ pending = [t \in Targets |-> NoPublication]
  /\ pc = [p \in Publications |-> "idle"]
  /\ txn = NoTxn /\ jobs = <<>>
  /\ rebuild = NotRebuilding
  /\ query \in [Queries -> { NoQuery(t) : t \in Targets }]
  /\ dark = [p \in Publications |-> [pc |-> "idle", rev |-> 0]]
  /\ acked = {} /\ restarts = 0

PublicationStep(p) ==
  \/ Order(p) \/ Enter(p) \/ ReplayKnown(p) \/ ReplayReconciles(p) \/ Begin(p) \/ BeginLost(p) \/ Apply(p)
  \/ Quarantine(p) \/ LadybugCommit(p) \/ LadybugCommitFails(p) \/ LadybugCommitExpired(p)
  \/ SqliteCommit(p) \/ SqliteCommitAmbiguous(p) \/ Confirm(p) \/ Abandon(p)

DarkStep(p) == DarkRead(p) \/ DarkCheck(p) \/ DarkCompare(p) \/ DarkConfirm(p)

QueryStep(q) ==
  (\E t \in Targets : QueryAdmit(q, t)) \/ QueryRun(q) \/ QueryReturn(q) \/ QueryRefused(q)

RebuildStep ==
  \/ RebuildSnapshot \/ RebuildLock \/ RebuildInstall \/ RebuildInstallFails
  \/ RebuildOpenFails \/ RebuildFails

Next ==
  \/ \E p \in Publications : PublicationStep(p) \/ DarkStep(p)
  \/ \E q \in Queries : QueryStep(q)
  \/ RunJob \/ RebuildStep
  \/ RestartReconcile \/ RestartRebuilt

Spec == Init /\ [][Next]_vars

\* The background rebuild is a spawned task with a deadline: it is always taken
\* to its next step.
FairSpec == Spec /\ WF_vars(RebuildStep)

-----------------------------------------------------------------------------
(* Properties. *)

PublicationSteps == InBarrier \cup {"idle", "ordered"}
Generation == [set : SUBSET Publications, revs : [Targets -> Nat], named : BOOLEAN]
Transaction == [pub : Publications \cup {NoPublication}, rev : Nat, applied : BOOLEAN]
Rebuild == [phase : {"none", "built", "locked"}, set : SUBSET Publications,
            revs : [Targets -> Nat], moved : BOOLEAN]
QueryRow == [pc : {"idle", "admitted", "ran", "returned"}, target : Targets,
             needed : SUBSET Publications, seen : SUBSET Publications,
             inside : BOOLEAN, overtaken : BOOLEAN]
DarkRow == [pc : {"idle", "read", "compare", "confirm"}, rev : Nat]

\* Type invariant.
TypeOK ==
  /\ canonical \subseteq Publications /\ canonicalRev \in [Targets -> Nat]
  /\ store \subseteq Publications /\ storeRev \in [Targets -> Nat]
  /\ pointer \in Generation
  /\ readiness \in [Targets -> {"Ready", "CanonicalUnknown", "Rebuilding", "Failed"}]
  /\ pending \in [Targets -> Publications \cup {NoPublication}]
  /\ pc \in [Publications -> PublicationSteps]
  /\ txn \in Transaction
  /\ jobs \in Seq({"commit", "rollback"})
  /\ rebuild \in Rebuild
  /\ query \in [Queries -> QueryRow]
  /\ dark \in [Publications -> DarkRow]
  /\ acked \subseteq Publications
  /\ restarts \in Nat

\* A target that answers queries holds in Ladybug exactly what SQLite committed,
\* at the same revision, whatever failed, was retried or restarted before.
ReadyIsReconciled ==
  \A t \in Targets : readiness[t] = "Ready" =>
    /\ storeRev[t] = canonicalRev[t]
    /\ Of(t, store) = Of(t, canonical)

\* What Ladybug holds beyond SQLite on a quarantined target is at most the pending
\* publication, so its exact retry is enough to reconcile the target.
QuarantineExact ==
  \A t \in Targets : readiness[t] = "CanonicalUnknown" =>
    /\ pending[t] # NoPublication
    /\ Of(t, canonical) \subseteq Of(t, store) \cup {pending[t]}
    /\ Of(t, store) \subseteq Of(t, canonical) \cup {pending[t]}

\* The answers that count: not read inside another request's transaction, and the
\* store was not replaced between the job and the last readiness check while the
\* target was quarantined.
Answered(q) == query[q].pc = "returned" /\ ~query[q].inside /\ ~query[q].overtaken

\* A query that ran between transactions, and whose target was not rebuilt with
\* another one while quarantined, returns only publications SQLite has committed.
NoUnacknowledgedRead ==
  \A q \in Queries : Answered(q) => query[q].seen \subseteq canonical

\* A query returns every publication that had been answered with success before it
\* was admitted, also across restarts and rebuilds.
AcknowledgedIsVisible ==
  \A q \in Queries : query[q].pc = "returned" => query[q].needed \subseteq query[q].seen

\* What the comments on run_undoable and commit promise: a transaction open on the
\* single Ladybug connection has a request that will settle it or a queued
\* ROLLBACK.  A leaked one fails the BEGIN of every later publication.
NoLeakedTransaction ==
  txn # NoTxn =>
    \/ \E p \in Publications : txn.pub = p /\ pc[p] \in {"begun", "applied", "quarantined"}
    \/ \E i \in 1..Len(jobs) : jobs[i] = "rollback"

\* The proof a retry relies on: while a target can be published to, equal revisions
\* in the two stores mean equal contents, so lifting a quarantine on equal
\* revisions never exposes an unknown write that is already durable.
EqualRevisionEqualContent ==
  \A t \in Targets :
    (Available(t) /\ storeRev[t] = canonicalRev[t]) => Of(t, store) = Of(t, canonical)

\* Liveness: a background rebuild ends, and with it the wait of every publication
\* to the target, even when other targets publish meanwhile.
RebuildSettles ==
  \A t \in Targets : readiness[t] = "Rebuilding" ~> readiness[t] # "Rebuilding"
=============================================================================
