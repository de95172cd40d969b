----------------------- MODULE SearchPublicationProofs -----------------------
(* Proofs about SearchPublication, for every set of publications, targets and *)
(* queries.                                                                   *)
EXTENDS SearchRefinement, TLAPS

-----------------------------------------------------------------------------
(* The inductive invariant. *)

\* A request whose transaction is open on the Ladybug connection.
OpenWrite(p) == pc[p] \in {"begun", "applied", "quarantined"}

\* An abandoned request's COMMIT is still queued, with its ROLLBACK behind it.
QueuedCommit == jobs = <<"commit", "rollback">>

\* SQLite's write lock, the order lock of a target and the rebuild barrier exclude
\* one another, and a locked rebuild holds the canonical snapshot.
LockInv ==
  /\ \A p, q \in Publications :
       (pc[p] \in InSqlite /\ pc[q] \in InSqlite) => p = q
  /\ \A p, q \in Publications :
       (TargetOf[p] = TargetOf[q] /\ pc[p] # "idle" /\ pc[q] # "idle") => p = q
  /\ rebuild.phase = "locked" =>
       /\ \A p \in Publications : pc[p] \notin InBarrier
       /\ rebuild.set = canonical /\ rebuild.revs = canonicalRev

\* An open transaction is its request's own, nothing is queued before its COMMIT,
\* and its revision is past both stores'.
WriteInv ==
  /\ txn.applied => txn.pub \in Publications
  /\ \A p \in Publications : OpenWrite(p) =>
       /\ txn.pub = p /\ jobs = <<>>
       /\ txn.rev > canonicalRev[TargetOf[p]] /\ txn.rev > storeRev[TargetOf[p]]
       /\ pc[p] # "begun" => txn.applied

\* At most one abandoned transaction is queued, and if its COMMIT is, no other
\* request of its target has got past the queue.
JobInv ==
  /\ jobs \in {<<>>, <<"rollback">>, <<"commit", "rollback">>}
  /\ QueuedCommit =>
       /\ txn.pub \in Publications /\ txn.applied
       /\ txn.rev > canonicalRev[TargetOf[txn.pub]] /\ txn.rev > storeRev[TargetOf[txn.pub]]
       /\ \A p \in Publications :
            TargetOf[p] = TargetOf[txn.pub] => pc[p] \in {"idle", "ordered", "writing"}

\* Ladybug holds what SQLite has committed of every target that can be published
\* to, so a query that was admitted finds what had been acknowledged.
StoreInv ==
  /\ \A t \in Targets : Available(t) => Of(t, canonical) \subseteq store
  /\ \A p \in Publications :
       /\ pc[p] = "committed" => p \in store
       /\ pc[p] = "confirming" => p \in canonical
  /\ acked \subseteq canonical
  /\ \A q \in Queries :
       /\ query[q].pc = "admitted" => query[q].needed \subseteq Of(query[q].target, store)
       /\ query[q].pc \in {"ran", "returned"} => query[q].needed \subseteq query[q].seen

\* Only a dark completion replays its submit.
DarkInv == \A p \in Publications \ Dark : dark[p].pc = "idle"

BaseInv == TypeOK /\ LockInv /\ WriteInv /\ JobInv /\ StoreInv /\ DarkInv

\* Nobody else publishes to the target of a dark completion.
DarkAlone == \A p \in Dark, q \in Publications : TargetOf[q] = TargetOf[p] => q = p

\* What is being published is not in SQLite yet.  A replay of a dark completion read
\* the revision SQLite still holds, and confirms it only if Ladybug holds it too.
ReplayInv ==
  /\ \A p \in Publications :
       /\ pc[p] \in {"begun", "applied", "quarantined", "committed"} => p \notin canonical
       /\ dark[p].pc # "idle" => p \in canonical /\ dark[p].rev = canonicalRev[TargetOf[p]]
       /\ dark[p].pc = "confirm" => storeRev[TargetOf[p]] = canonicalRev[TargetOf[p]]
  /\ QueuedCommit => txn.pub \notin canonical

\* From the quarantine to the commit in SQLite, or while its COMMIT is queued, a
\* publication owns its target's quarantine.  From there to its confirmation the two
\* stores are equal, so that a replay may lift the quarantine first.
QuarantineInv ==
  /\ \A p \in Publications :
       /\ pc[p] \in {"quarantined", "committed"} =>
            /\ readiness[TargetOf[p]] = "CanonicalUnknown"
            /\ pending[TargetOf[p]] = p
       /\ pc[p] = "confirming" => storeRev[TargetOf[p]] = canonicalRev[TargetOf[p]]
  /\ QueuedCommit =>
       /\ readiness[TargetOf[txn.pub]] = "CanonicalUnknown"
       /\ pending[TargetOf[txn.pub]] = txn.pub

\* What the two stores hold of a target that can be published to.
ContentInv == ReadyIsReconciled /\ QuarantineExact /\ EqualRevisionEqualContent

\* A query only runs while its target can be published to: a rebuilt target answers
\* none.  What it has read between transactions was in Ladybug, and still is until it
\* returns, unless a rebuild replaces the store while the target is quarantined.
Observed(q) ==
  /\ query[q].pc \in {"admitted", "ran"} => Available(query[q].target)
  /\ ~query[q].inside /\ ~query[q].overtaken =>
       /\ query[q].pc = "ran" => query[q].seen \subseteq Of(query[q].target, store)
       /\ query[q].pc = "returned" => query[q].seen \subseteq canonical

QueryInv == \A q \in Queries : Observed(q)

\* When nobody else publishes to the target of a dark completion.
Inv == BaseInv /\ ReplayInv /\ QuarantineInv /\ ContentInv /\ QueryInv

-----------------------------------------------------------------------------
(* Type correctness. *)

USE DEF durable, memory, worker, vars, Move

\* What the worker's queue can be made of.
LEMMA JobFacts ==
  /\ <<>> \in Seq({"commit", "rollback"})
  /\ <<"rollback">> \in Seq({"commit", "rollback"})
  /\ <<"commit", "rollback">> \in Seq({"commit", "rollback"})
  /\ Head(<<"commit", "rollback">>) = "commit" /\ Tail(<<"commit", "rollback">>) = <<"rollback">>
  /\ Head(<<"rollback">>) = "rollback" /\ Tail(<<"rollback">>) = <<>>
  /\ <<>> \o <<"commit", "rollback">> = <<"commit", "rollback">>
  /\ <<>> \o <<"rollback">> = <<"rollback">>
  /\ \A s \in Seq({"commit", "rollback"}) : s \o <<>> = s
  /\ <<"commit", "rollback">> # <<"rollback">>
  /\ <<"commit", "rollback">> # <<>> /\ <<"rollback">> # <<>>
  OBVIOUS

\* The records that stand for "nothing".
LEMMA RowTypes ==
  /\ NoTxn \in Transaction /\ NoGeneration \in Generation /\ NotRebuilding \in Rebuild
  /\ [pc |-> "idle", rev |-> 0] \in DarkRow
  /\ \A t \in Targets : NoQuery(t) \in QueryRow
  BY DEF NoTxn, Transaction, NoGeneration, Generation, NotRebuilding, Rebuild, DarkRow, NoQuery,
         QueryRow

\* Running and answering a query keep the type of its row.
LEMMA QueryRows ==
  ASSUME NEW r \in QueryRow, NEW S \in SUBSET Publications, NEW b \in BOOLEAN
  PROVE  /\ [r EXCEPT !.pc = "ran", !.seen = S, !.inside = b] \in QueryRow
         /\ [r EXCEPT !.pc = "returned"] \in QueryRow
  BY DEF QueryRow

\* The initial state has its types.
LEMMA InitType == Init => TypeOK
<1>1. { NoQuery(t) : t \in Targets } \subseteq QueryRow
  BY RowTypes
<1>. QED
  BY <1>1, RowTypes, JobFacts, PublicationAssumption
  DEF Init, TypeOK, PublicationSteps, InBarrier, InSqlite

\* The COMMIT of a request's transaction keeps the types of what it writes.
LEMMA CommitType ==
  ASSUME TypeOK, CommitTxn, txn.pub \in Publications
  PROVE  store' \subseteq Publications /\ storeRev' \in [Targets -> Nat] /\ txn' \in Transaction
  BY RowTypes, PublicationAssumption DEF TypeOK, CommitTxn, Transaction

\* A request's step keeps the types.
LEMMA PublicationType ==
  ASSUME BaseInv, NEW p \in Publications, PublicationStep(p)
  PROVE  TypeOK'
<1>. USE PublicationAssumption
     DEF BaseInv, TypeOK, PublicationSteps, InBarrier, InSqlite, Transaction, Rebuild, NoTxn
<1>1. CASE Order(p)
  BY <1>1 DEF Order
<1>2. CASE Enter(p)
  BY <1>2 DEF Enter
<1>3. CASE ReplayKnown(p)
  BY <1>3 DEF ReplayKnown
<1>4. CASE ReplayReconciles(p)
  BY <1>4 DEF ReplayReconciles, Confirmed
<1>5. CASE Begin(p)
  BY <1>5 DEF Begin, BeginAt, NextRevision, Later
<1>6. CASE BeginLost(p)
  BY <1>6 DEF BeginLost, BeginAt, NextRevision, Later
<1>7. CASE Apply(p)
  BY <1>7 DEF Apply
<1>8. CASE Quarantine(p)
  BY <1>8 DEF Quarantine
<1>9. CASE LadybugCommit(p)
  <2>1. CommitTxn /\ txn.pub = p
    BY <1>9 DEF LadybugCommit, WriteInv, OpenWrite
  <2>2. store' \subseteq Publications /\ storeRev' \in [Targets -> Nat] /\ txn' \in Transaction
    BY <2>1, CommitType
  <2>. QED
    BY <1>9, <2>2 DEF LadybugCommit
<1>10. CASE LadybugCommitFails(p)
  BY <1>10 DEF LadybugCommitFails
<1>11. CASE LadybugCommitExpired(p)
  BY <1>11 DEF LadybugCommitExpired
<1>12. CASE SqliteCommit(p)
  BY <1>12 DEF SqliteCommit, SqliteEffect
<1>13. CASE SqliteCommitAmbiguous(p)
  <2>1. CASE UNCHANGED <<canonical, canonicalRev>>
    BY <1>13, <2>1 DEF SqliteCommitAmbiguous
  <2>2. CASE SqliteEffect(p)
    BY <1>13, <2>2 DEF SqliteCommitAmbiguous, SqliteEffect
  <2>. QED
    BY <1>13, <2>1, <2>2 DEF SqliteCommitAmbiguous
<1>14. CASE Confirm(p)
  BY <1>14 DEF Confirm, Confirmed
<1>15. CASE Abandon(p)
  <2>1. jobs' \in Seq({"commit", "rollback"})
    <3>1. CASE pc[p] = "quarantined"
      BY <1>15, <3>1, JobFacts DEF Abandon, WriteInv, OpenWrite
    <3>2. CASE pc[p] \in {"begun", "applied"}
      BY <1>15, <3>2, JobFacts DEF Abandon, WriteInv, OpenWrite
    <3>3. CASE pc[p] \in {"ordered", "writing"}
      BY <1>15, <3>3, JobFacts DEF Abandon, JobInv
    <3>. QED
      BY <1>15, <3>1, <3>2, <3>3 DEF Abandon
  <2>. QED
    BY <1>15, <2>1 DEF Abandon
<1>. QED
  BY <1>1, <1>2, <1>3, <1>4, <1>5, <1>6, <1>7, <1>8, <1>9, <1>10, <1>11, <1>12, <1>13, <1>14, <1>15
  DEF PublicationStep

\* Every other step keeps the types.
LEMMA OtherType ==
  ASSUME BaseInv, [Next]_vars, \A p \in Publications : ~PublicationStep(p)
  PROVE  TypeOK'
<1>. USE PublicationAssumption, RowTypes DEF BaseInv, TypeOK
<1>1. ASSUME NEW p \in Publications, DarkStep(p) PROVE TypeOK'
  <2>1. CASE DarkRead(p)
    BY <2>1 DEF DarkRead, DarkRow
  <2>2. CASE DarkCheck(p)
    BY <2>2 DEF DarkCheck, DarkRow
  <2>3. CASE DarkCompare(p)
    BY <2>3 DEF DarkCompare, DarkRow
  <2>4. CASE DarkConfirm(p)
    BY <2>4 DEF DarkConfirm, DarkRow, Confirmed
  <2>. QED
    BY <1>1, <2>1, <2>2, <2>3, <2>4 DEF DarkStep
<1>2. ASSUME NEW q \in Queries, QueryStep(q) PROVE TypeOK'
  <2>1. ASSUME NEW t \in Targets, QueryAdmit(q, t) PROVE TypeOK'
    BY <2>1 DEF QueryAdmit, NoQuery, QueryRow, Of
  <2>2. CASE QueryRun(q)
    <3>. DEFINE seen == Of(query[q].target, store \cup (IF txn.applied THEN {txn.pub} ELSE {}))
                inside == txn # NoTxn
    <3>1. seen \in SUBSET Publications
      BY DEF Of, WriteInv
    <3>2. inside \in BOOLEAN
      OBVIOUS
    <3>3. query[q] \in QueryRow
      OBVIOUS
    <3>4. [query[q] EXCEPT !.pc = "ran", !.seen = seen, !.inside = inside] \in QueryRow
      BY <3>1, <3>2, <3>3, QueryRows
    <3>. QED
      BY <2>2, <3>4 DEF QueryRun
  <2>3. CASE QueryReturn(q)
    <3>1. [query[q] EXCEPT !.pc = "returned"] \in QueryRow
      <4>1. query[q] \in QueryRow
        OBVIOUS
      <4>. QED
        BY <4>1, QueryRows
    <3>. QED
      BY <2>3, <3>1 DEF QueryReturn
  <2>4. CASE QueryRefused(q)
    BY <2>4 DEF QueryRefused, QueryRow
  <2>. QED
    BY <1>2, <2>1, <2>2, <2>3, <2>4 DEF QueryStep
<1>3. CASE RunJob
  <2>1. jobs' \in Seq({"commit", "rollback"})
    BY <1>3, JobFacts DEF RunJob, JobInv
  <2>2. CASE Head(jobs) = "commit" /\ CommitTxn
    <3>1. txn.pub \in Publications
      BY <1>3, <2>2, JobFacts DEF RunJob, JobInv, QueuedCommit
    <3>2. store' \subseteq Publications /\ storeRev' \in [Targets -> Nat] /\ txn' \in Transaction
      BY <2>2, <3>1, CommitType
    <3>. QED
      BY <1>3, <2>1, <3>2 DEF RunJob
  <2>3. CASE txn' = NoTxn /\ UNCHANGED <<store, storeRev>>
    BY <1>3, <2>1, <2>3 DEF RunJob
  <2>. QED
    BY <1>3, <2>2, <2>3 DEF RunJob
<1>4. CASE RebuildStep
  <2>1. CASE RebuildSnapshot
    BY <2>1 DEF RebuildSnapshot, Rebuild
  <2>2. CASE RebuildLock
    BY <2>2 DEF RebuildLock, Rebuild
  <2>7. Install => query' \in [Queries -> QueryRow]
    <3>. HAVE Install
    <3>1. ASSUME NEW q \in Queries PROVE query'[q] \in QueryRow
      <4>. DEFINE b == query[q].overtaken \/ (query[q].pc = "ran"
                         /\ readiness[query[q].target] = "CanonicalUnknown")
      <4>1. query'[q] = [query[q] EXCEPT !.overtaken = b]
        BY DEF Install, QueryRow
      <4>2. query[q] \in QueryRow /\ b \in BOOLEAN
        OBVIOUS
      <4>. HIDE DEF b
      <4>. QED
        BY <4>1, <4>2 DEF QueryRow
    <3>. QED
      BY <3>1 DEF Install
  <2>3. CASE RebuildInstall
    BY <2>3, <2>7, JobFacts DEF RebuildInstall, Install, Finished, Rebuild
  <2>6. CASE RebuildInstallFails
    BY <2>6, <2>7, JobFacts DEF RebuildInstallFails, Install, Finished, Rebuild
  <2>4. CASE RebuildOpenFails
    BY <2>4 DEF RebuildOpenFails, Finished, Generation, Rebuild
  <2>5. CASE RebuildFails
    BY <2>5 DEF RebuildFails, Finished
  <2>. QED
    BY <1>4, <2>1, <2>2, <2>3, <2>4, <2>5, <2>6 DEF RebuildStep
<1>5. ASSUME Restarted, store' \subseteq Publications, storeRev' \in [Targets -> Nat],
             readiness' \in [Targets -> {"Ready", "Rebuilding"}]
      PROVE  TypeOK'
  <2>1. query' \in [Queries -> QueryRow]
    BY <1>5 DEF Restarted, QueryRow
  <2>. QED
    BY <1>5, <2>1, JobFacts DEF Restarted, PublicationSteps
<1>6. CASE RestartReconcile
  BY <1>5, <1>6 DEF RestartReconcile, OpenedStore, OpenedRevs, Generation
<1>7. CASE RestartRebuilt
  BY <1>5, <1>7 DEF RestartRebuilt
<1>8. CASE UNCHANGED vars
  BY <1>8
<1>. QED
  BY <1>1, <1>2, <1>3, <1>4, <1>6, <1>7, <1>8 DEF Next

-----------------------------------------------------------------------------
(* The invariant that holds whatever completions replay. *)

\* A rebuild that replaces the store marks the queries that ran in it on a
\* quarantined target, and changes nothing else of a query.
LEMMA InstallRows ==
  ASSUME TypeOK, Install, NEW q \in Queries
  PROVE  /\ query'[q].pc = query[q].pc /\ query'[q].target = query[q].target
         /\ query'[q].needed = query[q].needed /\ query'[q].seen = query[q].seen
         /\ query'[q].inside = query[q].inside
         /\ query'[q].overtaken <=> query[q].overtaken
              \/ (query[q].pc = "ran" /\ readiness[query[q].target] = "CanonicalUnknown")
  BY DEF Install, TypeOK, QueryRow

\* The steps that touch neither a request nor the two stores.
Outside ==
  \/ \E p \in Publications : DarkStep(p)
  \/ \E q \in Queries : QueryStep(q)
  \/ UNCHANGED vars

\* Replays of dark completions and queries write to neither store.
LEMMA OutsideFrame ==
  ASSUME Outside
  PROVE  UNCHANGED <<durable, worker, pc, rebuild, acked, restarts>>
  BY DEF Outside, DarkStep, DarkRead, DarkCheck, DarkCompare, DarkConfirm, QueryStep, QueryAdmit,
         QueryRun, QueryReturn, QueryRefused

\* Requests keep to the locks, and the rebuild to the barrier.
LEMMA LockStep ==
  ASSUME BaseInv, [Next]_vars
  PROVE  LockInv'
<1>. USE PublicationAssumption
     DEF BaseInv, LockInv, TypeOK, PublicationSteps, InBarrier, InSqlite
<1>1. ASSUME NEW p \in Publications, PublicationStep(p) PROVE LockInv'
  <2>1. CASE Order(p)
    BY <2>1 DEF Order, OrderFree, Of
  <2>2. CASE Enter(p)
    BY <2>2 DEF Enter, SqliteFree
  <2>3. CASE ReplayKnown(p)
    BY <2>3 DEF ReplayKnown
  <2>10. CASE ReplayReconciles(p)
    BY <2>10 DEF ReplayReconciles
  <2>4. CASE Begin(p)
    BY <2>4 DEF Begin, BeginAt
  <2>13. CASE BeginLost(p)
    BY <2>13 DEF BeginLost, BeginAt
  <2>5. CASE Apply(p)
    BY <2>5 DEF Apply
  <2>11. CASE Quarantine(p)
    BY <2>11 DEF Quarantine
  <2>6. CASE LadybugCommit(p)
    BY <2>6 DEF LadybugCommit, Rebuild
  <2>7. CASE LadybugCommitFails(p)
    BY <2>7 DEF LadybugCommitFails
  <2>14. CASE LadybugCommitExpired(p)
    BY <2>14 DEF LadybugCommitExpired
  <2>12. CASE Confirm(p)
    BY <2>12 DEF Confirm
  <2>8. CASE SqliteCommit(p)
    BY <2>8 DEF SqliteCommit
  <2>15. CASE SqliteCommitAmbiguous(p)
    BY <2>15 DEF SqliteCommitAmbiguous
  <2>9. CASE Abandon(p)
    BY <2>9 DEF Abandon
  <2>. QED
    BY <1>1, <2>1, <2>2, <2>3, <2>4, <2>5, <2>6, <2>7, <2>8, <2>9, <2>10, <2>11, <2>12, <2>13,
       <2>14, <2>15
    DEF PublicationStep
<1>2. CASE Outside
  BY <1>2, OutsideFrame
<1>3. CASE RunJob
  BY <1>3 DEF RunJob
<1>4. CASE RebuildSnapshot
  BY <1>4 DEF RebuildSnapshot
<1>5. CASE RebuildLock
  BY <1>5 DEF RebuildLock, BarrierFree, NotRebuilding, Rebuild
<1>6. CASE RebuildInstall \/ RebuildInstallFails \/ RebuildOpenFails \/ RebuildFails
  BY <1>6 DEF RebuildInstall, RebuildInstallFails, RebuildOpenFails, RebuildFails, Finished,
         NotRebuilding
<1>7. CASE RestartReconcile \/ RestartRebuilt
  <2>1. Restarted
    BY <1>7 DEF RestartReconcile, RestartRebuilt
  <2>2. rebuild'.phase = "none" /\ \A p \in Publications : pc'[p] = "idle"
    BY <2>1 DEF Restarted, NotRebuilding
  <2>. QED
    BY <2>2
<1>. QED
  BY <1>1, <1>2, <1>3, <1>4, <1>5, <1>6, <1>7 DEF Next, Outside, RebuildStep

\* A request's transaction stays its own, past both stores' revisions.
LEMMA WriteStep ==
  ASSUME BaseInv, [Next]_vars
  PROVE  WriteInv'
<1>. USE PublicationAssumption
     DEF BaseInv, WriteInv, OpenWrite, TypeOK, PublicationSteps, InBarrier, InSqlite
<1>1. ASSUME NEW p \in Publications, PublicationStep(p) PROVE WriteInv'
  <2>1. CASE Order(p) \/ Enter(p) \/ ReplayKnown(p) \/ ReplayReconciles(p)
    BY <2>1 DEF Order, Enter, ReplayKnown, ReplayReconciles
  <2>2. CASE Begin(p)
    <3>1. \A q \in Publications : OpenWrite(q)' => q = p
      BY <2>2 DEF Begin, LockInv
    <3>2. /\ txn'.pub = p /\ ~txn'.applied /\ jobs' = <<>>
          /\ pc'[p] = "begun"
          /\ UNCHANGED <<canonicalRev, storeRev>>
      BY <2>2 DEF Begin, BeginAt, WorkerFree
    <3>3. /\ txn'.rev > canonicalRev[TargetOf[p]]
          /\ txn'.rev > storeRev[TargetOf[p]]
      BY <2>2 DEF Begin, BeginAt, NextRevision, Later
    <3>. QED
      BY <3>1, <3>2, <3>3
  <2>8. CASE BeginLost(p)
    <3>1. \A q \in Publications : ~OpenWrite(q)'
      BY <2>8 DEF BeginLost, LockInv
    <3>. QED
      BY <2>8, <3>1 DEF BeginLost, BeginAt
  <2>3. CASE Apply(p)
    BY <2>3 DEF Apply, LockInv, Transaction
  <2>4. CASE Quarantine(p)
    BY <2>4 DEF Quarantine
  <2>9. CASE LadybugCommitExpired(p)
    BY <2>9 DEF LadybugCommitExpired
  <2>10. CASE Confirm(p)
    BY <2>10 DEF Confirm
  <2>5. CASE LadybugCommit(p) \/ LadybugCommitFails(p)
    <3>1. \A q \in Publications : ~OpenWrite(q)'
      <4>1. pc[p] = "quarantined" /\ \E to \in {"committed", "idle"} : pc' = [pc EXCEPT ![p] = to]
        BY <2>5 DEF LadybugCommit, LadybugCommitFails
      <4>. QED
        BY <4>1 DEF LockInv
    <3>. QED
      BY <2>5, <3>1 DEF LadybugCommit, LadybugCommitFails, CommitTxn, NoTxn
  <2>6. CASE SqliteCommit(p) \/ SqliteCommitAmbiguous(p)
    BY <2>6 DEF SqliteCommit, SqliteCommitAmbiguous, SqliteEffect, LockInv
  <2>7. CASE Abandon(p)
    <3>1. \A q \in Publications : OpenWrite(q)' => pc[p] \in {"ordered", "writing"} /\ q # p
      BY <2>7 DEF Abandon, LockInv
    <3>. QED
      BY <2>7, <3>1, JobFacts DEF Abandon, JobInv
  <2>. QED
    BY <1>1, <2>1, <2>2, <2>3, <2>4, <2>5, <2>6, <2>7, <2>8, <2>9, <2>10 DEF PublicationStep
<1>2. CASE Outside
  BY <1>2, OutsideFrame
<1>3. CASE RunJob
  BY <1>3 DEF RunJob, CommitTxn, NoTxn
<1>4. CASE RebuildSnapshot \/ RebuildLock \/ RebuildOpenFails \/ RebuildFails
  BY <1>4 DEF RebuildSnapshot, RebuildLock, RebuildOpenFails, RebuildFails
<1>5. CASE RebuildInstall \/ RebuildInstallFails
  BY <1>5 DEF RebuildInstall, RebuildInstallFails, Install, NoTxn, LockInv
<1>6. CASE RestartReconcile \/ RestartRebuilt
  BY <1>6 DEF RestartReconcile, RestartRebuilt, Restarted, NoTxn
<1>. QED
  BY <1>1, <1>2, <1>3, <1>4, <1>5, <1>6 DEF Next, Outside, RebuildStep

\* The queue holds at most one abandoned transaction, ahead of its target's requests.
LEMMA JobStep ==
  ASSUME BaseInv, [Next]_vars
  PROVE  JobInv'
<1>. USE PublicationAssumption
     DEF BaseInv, JobInv, QueuedCommit, TypeOK, PublicationSteps, InBarrier, InSqlite
<1>1. ASSUME NEW p \in Publications, PublicationStep(p) PROVE JobInv'
  <2>1. CASE Order(p)
    BY <2>1 DEF Order
  <2>2. CASE Enter(p)
    BY <2>2 DEF Enter
  <2>3. CASE ReplayKnown(p) \/ ReplayReconciles(p)
    BY <2>3 DEF ReplayKnown, ReplayReconciles
  <2>4. CASE Begin(p) \/ BeginLost(p)
    BY <2>4, JobFacts DEF Begin, BeginLost, BeginAt, WorkerFree
  <2>5. CASE OpenWrite(p) /\ UNCHANGED jobs
    BY <2>5, JobFacts DEF WriteInv, OpenWrite
  <2>6. CASE SqliteCommit(p)
    BY <2>6 DEF SqliteCommit, SqliteEffect
  <2>10. CASE SqliteCommitAmbiguous(p)
    BY <2>10 DEF SqliteCommitAmbiguous, SqliteEffect
  <2>7. CASE Confirm(p)
    BY <2>7 DEF Confirm
  <2>8. CASE Abandon(p)
    <3>1. CASE pc[p] = "quarantined"
      <4>1. jobs' = <<"commit", "rollback">> /\ UNCHANGED txn
        BY <2>8, <3>1, JobFacts DEF Abandon, WriteInv, OpenWrite
      <4>2. \A q \in Publications : TargetOf[q] = TargetOf[p] => pc'[q] = "idle"
        BY <2>8, <3>1 DEF Abandon, LockInv
      <4>3. /\ txn.pub = p /\ txn.applied /\ UNCHANGED <<canonicalRev, storeRev>>
            /\ txn.rev > canonicalRev[TargetOf[p]] /\ txn.rev > storeRev[TargetOf[p]]
        BY <2>8, <3>1 DEF Abandon, WriteInv, OpenWrite
      <4>. QED
        BY <4>1, <4>2, <4>3
    <3>2. CASE pc[p] \in {"begun", "applied"}
      <4>1. jobs' = <<"rollback">>
        BY <2>8, <3>2, JobFacts DEF Abandon, WriteInv, OpenWrite
      <4>. QED
        BY <4>1, JobFacts
    <3>3. CASE pc[p] \in {"ordered", "writing"}
      <4>1. UNCHANGED <<jobs, txn, canonicalRev, storeRev>> /\ pc' = [pc EXCEPT ![p] = "idle"]
        BY <2>8, <3>3, JobFacts DEF Abandon
      <4>. QED
        BY <4>1
    <3>. QED
      BY <2>8, <3>1, <3>2, <3>3 DEF Abandon
  <2>9. (Apply(p) \/ Quarantine(p) \/ LadybugCommit(p) \/ LadybugCommitFails(p)
           \/ LadybugCommitExpired(p)) => OpenWrite(p) /\ UNCHANGED jobs
    BY DEF Apply, Quarantine, LadybugCommit, LadybugCommitFails, LadybugCommitExpired, OpenWrite
  <2>. QED
    BY <1>1, <2>1, <2>2, <2>3, <2>4, <2>5, <2>6, <2>7, <2>8, <2>9, <2>10
    DEF PublicationStep
<1>2. CASE Outside
  BY <1>2, OutsideFrame
<1>3. CASE RunJob
  BY <1>3, JobFacts DEF RunJob
<1>4. CASE RebuildSnapshot \/ RebuildLock \/ RebuildOpenFails \/ RebuildFails
  BY <1>4 DEF RebuildSnapshot, RebuildLock, RebuildOpenFails, RebuildFails
<1>5. CASE RebuildInstall \/ RebuildInstallFails
  BY <1>5, JobFacts DEF RebuildInstall, RebuildInstallFails, Install
<1>6. CASE RestartReconcile \/ RestartRebuilt
  BY <1>6, JobFacts DEF RestartReconcile, RestartRebuilt, Restarted
<1>. QED
  BY <1>1, <1>2, <1>3, <1>4, <1>5, <1>6 DEF Next, Outside, RebuildStep

\* Every acknowledged publication stays in SQLite, in Ladybug while its target can be
\* published to, and in the answers of the queries that need it.
LEMMA StoreStep ==
  ASSUME BaseInv, [Next]_vars
  PROVE  StoreInv'
<1>. USE PublicationAssumption
     DEF BaseInv, StoreInv, Available, TypeOK, PublicationSteps, InBarrier, InSqlite, Of
<1>1. ASSUME NEW p \in Publications, PublicationStep(p) PROVE StoreInv'
  <2>1. CASE Order(p) \/ Enter(p)
    BY <2>1 DEF Order, Enter
  <2>2. CASE ReplayKnown(p)
    BY <2>2 DEF ReplayKnown
  <2>3. CASE ReplayReconciles(p)
    BY <2>3 DEF ReplayReconciles, Confirmed
  <2>4. CASE Begin(p) \/ BeginLost(p)
    BY <2>4 DEF Begin, BeginLost, BeginAt
  <2>5. CASE Apply(p)
    BY <2>5 DEF Apply
  <2>6. CASE Quarantine(p)
    BY <2>6 DEF Quarantine
  <2>7. CASE LadybugCommit(p)
    <3>1. store' = store \cup {p}
      BY <2>7 DEF LadybugCommit, CommitTxn, WriteInv, OpenWrite
    <3>. QED
      BY <2>7, <3>1 DEF LadybugCommit
  <2>8. CASE LadybugCommitFails(p) \/ LadybugCommitExpired(p)
    BY <2>8 DEF LadybugCommitFails, LadybugCommitExpired
  <2>9. CASE SqliteCommit(p)
    BY <2>9 DEF SqliteCommit, SqliteEffect
  <2>10. CASE SqliteCommitAmbiguous(p)
    BY <2>10 DEF SqliteCommitAmbiguous, SqliteEffect
  <2>11. CASE Confirm(p)
    BY <2>11 DEF Confirm, Confirmed
  <2>12. CASE Abandon(p)
    BY <2>12 DEF Abandon
  <2>. QED
    BY <1>1, <2>1, <2>2, <2>3, <2>4, <2>5, <2>6, <2>7, <2>8, <2>9, <2>10, <2>11, <2>12
    DEF PublicationStep
<1>2. ASSUME NEW p \in Publications, DarkStep(p) PROVE StoreInv'
  <2>1. CASE DarkConfirm(p)
    BY <2>1 DEF DarkConfirm, Confirmed
  <2>2. CASE DarkRead(p) \/ DarkCheck(p) \/ DarkCompare(p)
    BY <2>2 DEF DarkRead, DarkCheck, DarkCompare
  <2>. QED
    BY <1>2, <2>1, <2>2 DEF DarkStep
<1>3. ASSUME NEW q \in Queries, QueryStep(q) PROVE StoreInv'
  <2>. USE DEF QueryRow
  <2>1. ASSUME NEW t \in Targets, QueryAdmit(q, t) PROVE StoreInv'
    BY <2>1 DEF QueryAdmit, NoQuery
  <2>2. CASE QueryRun(q)
    BY <2>2 DEF QueryRun
  <2>3. CASE QueryReturn(q)
    BY <2>3 DEF QueryReturn
  <2>4. CASE QueryRefused(q)
    BY <2>4 DEF QueryRefused, NoQuery
  <2>. QED
    BY <1>3, <2>1, <2>2, <2>3, <2>4 DEF QueryStep
<1>4. CASE RunJob
  BY <1>4 DEF RunJob, CommitTxn
<1>5. CASE RebuildSnapshot \/ RebuildLock
  BY <1>5 DEF RebuildSnapshot, RebuildLock
<1>6. CASE RebuildInstall \/ RebuildInstallFails
  <2>1. Install /\ OperationsFree /\ UNCHANGED <<canonical, acked, pc>>
    BY <1>6 DEF RebuildInstall, RebuildInstallFails
  <2>2. store' = canonical
    BY <1>6 DEF RebuildInstall, RebuildInstallFails, Install, LockInv
  <2>3. \A p \in Publications : pc[p] # "committed"
    BY <1>6 DEF RebuildInstall, RebuildInstallFails, LockInv
  <2>4. \A q \in Queries : query'[q].pc # "admitted"
    BY <2>1, InstallRows DEF OperationsFree
  <2>5. \A q \in Queries : query'[q].pc \in {"ran", "returned"} =>
          query'[q].needed \subseteq query'[q].seen
    BY <2>1, InstallRows
  <2>. QED
    BY <2>1, <2>2, <2>3, <2>4, <2>5
<1>7. CASE RebuildOpenFails \/ RebuildFails
  BY <1>7 DEF RebuildOpenFails, RebuildFails, Finished
<1>8. CASE RestartReconcile
  BY <1>8 DEF RestartReconcile, Restarted, Damaged, NoQuery
<1>9. CASE RestartRebuilt
  BY <1>9 DEF RestartRebuilt, Restarted, NoQuery
<1>10. CASE UNCHANGED vars
  BY <1>10
<1>. QED
  BY <1>1, <1>2, <1>3, <1>4, <1>5, <1>6, <1>7, <1>8, <1>9, <1>10 DEF Next, RebuildStep

\* Only dark completions ever replay outside the order lock.
LEMMA DarkStepInv ==
  ASSUME BaseInv, [Next]_vars
  PROVE  DarkInv'
<1>. USE DEF BaseInv, DarkInv, TypeOK
<1>1. ASSUME NEW p \in Publications, PublicationStep(p) PROVE DarkInv'
  BY <1>1 DEF PublicationStep, Order, Enter, ReplayKnown, ReplayReconciles, Begin, BeginLost,
         BeginAt, Apply, Quarantine, LadybugCommit, LadybugCommitFails, LadybugCommitExpired,
         SqliteCommit, SqliteCommitAmbiguous, Confirm, Abandon
<1>2. ASSUME NEW p \in Publications, DarkStep(p) PROVE DarkInv'
  BY <1>2 DEF DarkStep, DarkRead, DarkCheck, DarkCompare, DarkConfirm
<1>3. ASSUME NEW q \in Queries, QueryStep(q) PROVE DarkInv'
  BY <1>3 DEF QueryStep, QueryAdmit, QueryRun, QueryReturn, QueryRefused
<1>4. CASE RunJob
  BY <1>4 DEF RunJob
<1>5. CASE RebuildStep
  BY <1>5 DEF RebuildStep, RebuildSnapshot, RebuildLock, RebuildInstall, RebuildInstallFails,
         RebuildOpenFails, RebuildFails
<1>6. CASE RestartReconcile \/ RestartRebuilt
  BY <1>6 DEF RestartReconcile, RestartRebuilt, Restarted
<1>7. CASE UNCHANGED vars
  BY <1>7
<1>. QED
  BY <1>1, <1>2, <1>3, <1>4, <1>5, <1>6, <1>7 DEF Next

\* The empty stores satisfy the base invariant.
LEMMA BaseInit == Init => BaseInv
<1>. SUFFICES ASSUME Init PROVE BaseInv
  OBVIOUS
<1>1. TypeOK
  BY InitType
<1>2. \A q \in Queries : query[q].pc = "idle"
  BY DEF Init, NoQuery
<1>3. WriteInv /\ JobInv
  BY JobFacts DEF Init, WriteInv, OpenWrite, JobInv, QueuedCommit, NoTxn
<1>4. LockInv
  BY DEF Init, LockInv, InSqlite, InBarrier, NotRebuilding
<1>5. StoreInv
  BY <1>2 DEF Init, StoreInv, Of
<1>6. DarkInv
  BY DEF Init, DarkInv
<1>. QED
  BY <1>1, <1>3, <1>4, <1>5, <1>6 DEF BaseInv

\* The base invariant is inductive.
LEMMA BaseStep == BaseInv /\ [Next]_vars => BaseInv'
<1>. SUFFICES ASSUME BaseInv, [Next]_vars PROVE BaseInv'
  OBVIOUS
<1>1. TypeOK'
  BY PublicationType, OtherType
<1>. QED
  BY <1>1, LockStep, WriteStep, JobStep, StoreStep, DarkStepInv DEF BaseInv

\* The base invariant holds in every reachable state.
LEMMA BaseInvariant == Spec => []BaseInv
  BY BaseInit, BaseStep, PTL DEF Spec

\* SearchPublication is type correct.
THEOREM TypeCorrect == Spec => []TypeOK
<1>1. BaseInv => TypeOK
  BY DEF BaseInv
<1>. QED
  BY <1>1, BaseInvariant, PTL

\* execute_prepared returns every publication that was answered with success before
\* the query was admitted: through failed commits, abandoned requests, restarts and
\* rebuilds, and whatever dark completions replay.
THEOREM AcknowledgedVisible == Spec => []AcknowledgedIsVisible
<1>1. BaseInv => AcknowledgedIsVisible
  BY DEF BaseInv, StoreInv, AcknowledgedIsVisible
<1>. QED
  BY <1>1, BaseInvariant, PTL

-----------------------------------------------------------------------------
(* What holds when nobody else publishes to the target of a dark completion:   *)
(* its replays lift a quarantine outside the order lock, but only their own.   *)

\* A replay writes nothing but its own step, until it lifts a quarantine.
LEMMA DarkFrame ==
  ASSUME NEW p \in Publications, DarkStep(p)
  PROVE  /\ UNCHANGED <<durable, worker, pc, rebuild, query, acked, restarts>>
         /\ DarkConfirm(p) \/ UNCHANGED memory
  BY DEF DarkStep, DarkRead, DarkCheck, DarkCompare, DarkConfirm

\* A publication's receipt is read, compared and confirmed while nothing is published
\* to its target.
LEMMA ReplayStep ==
  ASSUME BaseInv, ReplayInv, [Next]_vars, DarkAlone
  PROVE  ReplayInv'
<1>. USE PublicationAssumption
     DEF BaseInv, ReplayInv, QueuedCommit, TypeOK, PublicationSteps, InBarrier, InSqlite
<1>0. \A p, q \in Publications :
        (dark[p].pc # "idle" /\ TargetOf[q] = TargetOf[p]) => q = p
  BY DEF DarkAlone, DarkInv
<1>1. ASSUME NEW p \in Publications, PublicationStep(p) PROVE ReplayInv'
  <2>1. CASE Order(p) \/ Enter(p) \/ ReplayKnown(p) \/ ReplayReconciles(p)
    BY <2>1 DEF Order, Enter, ReplayKnown, ReplayReconciles
  <2>2. CASE Begin(p) \/ BeginLost(p)
    BY <2>2, JobFacts DEF Begin, BeginLost, BeginAt, WorkerFree
  <2>3. CASE Apply(p)
    BY <2>3, JobFacts DEF Apply, WriteInv, OpenWrite
  <2>4. CASE Quarantine(p)
    BY <2>4 DEF Quarantine
  <2>5. CASE LadybugCommit(p)
    <3>1. p \notin canonical /\ txn.pub = p /\ jobs = <<>>
      BY <2>5 DEF LadybugCommit, WriteInv, OpenWrite
    <3>2. \A q \in Publications : dark[q].pc # "idle" => TargetOf[q] # TargetOf[p]
      BY <1>0, <3>1
    <3>3. \A q \in Publications :
            dark[q].pc # "idle" => storeRev'[TargetOf[q]] = storeRev[TargetOf[q]]
      BY <2>5, <3>1, <3>2 DEF LadybugCommit, CommitTxn
    <3>. QED
      BY <2>5, <3>1, <3>3, JobFacts DEF LadybugCommit
  <2>6. CASE LadybugCommitFails(p) \/ LadybugCommitExpired(p)
    BY <2>6, JobFacts DEF LadybugCommitFails, LadybugCommitExpired, WriteInv, OpenWrite
  <2>7. CASE SqliteCommit(p) \/ SqliteCommitAmbiguous(p)
    <3>0. pc[p] = "committed" /\ p \notin canonical
      BY <2>7 DEF SqliteCommit, SqliteCommitAmbiguous
    <3>1. /\ \E to \in {"confirming", "idle"} : pc' = [pc EXCEPT ![p] = to]
          /\ UNCHANGED <<store, storeRev, txn, jobs, dark>>
      BY <2>7 DEF SqliteCommit, SqliteCommitAmbiguous
    <3>2. \A q \in Publications : dark[q].pc # "idle" => TargetOf[q] # TargetOf[p]
      BY <1>0, <3>0
    <3>3. QueuedCommit => txn.pub # p
      BY <3>0 DEF JobInv
    <3>4. \A q \in Publications :
            pc'[q] \in {"begun", "applied", "quarantined", "committed"} =>
              q # p /\ q \notin canonical
      BY <3>0, <3>1 DEF LockInv
    <3>5. CASE SqliteEffect(p)
      BY <3>1, <3>2, <3>3, <3>4, <3>5 DEF SqliteEffect
    <3>6. CASE UNCHANGED <<canonical, canonicalRev>>
      BY <3>1, <3>4, <3>6
    <3>. QED
      BY <2>7, <3>5, <3>6 DEF SqliteCommit, SqliteCommitAmbiguous
  <2>8. CASE Confirm(p)
    BY <2>8 DEF Confirm
  <2>9. CASE Abandon(p)
    <3>1. /\ pc' = [pc EXCEPT ![p] = "idle"] /\ UNCHANGED <<durable, txn, dark>>
      BY <2>9 DEF Abandon
    <3>2. (jobs' = <<"commit", "rollback">>) => (QueuedCommit \/ (txn.pub = p /\ p \notin canonical))
      <4>1. CASE OpenWrite(p)
        BY <4>1 DEF OpenWrite, WriteInv
      <4>2. CASE pc[p] \in {"ordered", "writing"}
        <5>1. jobs \in Seq({"commit", "rollback"})
          OBVIOUS
        <5>2. jobs' = jobs
          BY <2>9, <4>2, <5>1, JobFacts DEF Abandon
        <5>. QED
          BY <5>2
      <4>. QED
        BY <2>9, <4>1, <4>2 DEF Abandon, OpenWrite
    <3>. QED
      BY <3>1, <3>2
  <2>. QED
    BY <1>1, <2>1, <2>2, <2>3, <2>4, <2>5, <2>6, <2>7, <2>8, <2>9 DEF PublicationStep
<1>2. ASSUME NEW p \in Publications, DarkStep(p) PROVE ReplayInv'
  <2>0. UNCHANGED <<canonical, canonicalRev, storeRev, pc, txn, jobs>>
    BY <1>2, DarkFrame
  <2>1. CASE DarkRead(p)
    BY <2>0, <2>1 DEF DarkRead
  <2>2. CASE DarkCheck(p)
    BY <2>0, <2>2 DEF DarkCheck, DarkRow
  <2>3. CASE DarkCompare(p)
    BY <2>0, <2>3 DEF DarkCompare, DarkRow
  <2>4. CASE DarkConfirm(p)
    BY <2>0, <2>4 DEF DarkConfirm, DarkRow
  <2>. QED
    BY <1>2, <2>1, <2>2, <2>3, <2>4 DEF DarkStep
<1>3. ASSUME NEW q \in Queries, QueryStep(q) PROVE ReplayInv'
  <2>1. UNCHANGED <<durable, worker, pc, dark>>
    BY <1>3 DEF QueryStep, QueryAdmit, QueryRun, QueryReturn, QueryRefused
  <2>. QED
    BY <2>1
<1>4. CASE RunJob
  <2>1. jobs' # <<"commit", "rollback">> /\ UNCHANGED <<pc, canonical, canonicalRev, dark>>
    BY <1>4, JobFacts DEF RunJob, JobInv
  <2>2. CASE Head(jobs) = "commit" /\ CommitTxn
    <3>1. QueuedCommit
      BY <1>4, <2>2, JobFacts DEF RunJob, JobInv
    <3>2. txn.pub \in Publications /\ txn.pub \notin canonical
      BY <3>1 DEF JobInv
    <3>3. \A q \in Publications : dark[q].pc # "idle" => TargetOf[q] # TargetOf[txn.pub]
      BY <1>0, <3>2
    <3>. QED
      BY <2>1, <2>2, <3>3 DEF CommitTxn
  <2>3. CASE UNCHANGED storeRev
    BY <2>1, <2>3
  <2>. QED
    BY <1>4, <2>2, <2>3 DEF RunJob
<1>5. CASE RebuildSnapshot \/ RebuildLock \/ RebuildOpenFails \/ RebuildFails
  BY <1>5 DEF RebuildSnapshot, RebuildLock, RebuildOpenFails, RebuildFails
<1>6. CASE RebuildInstall \/ RebuildInstallFails
  <2>1. /\ jobs' = <<>> /\ storeRev' = canonicalRev
        /\ UNCHANGED <<canonical, canonicalRev, pc, dark>>
    BY <1>6 DEF RebuildInstall, RebuildInstallFails, Install, LockInv
  <2>. QED
    BY <2>1, JobFacts
<1>7. CASE RestartReconcile \/ RestartRebuilt
  <2>1. Restarted
    BY <1>7 DEF RestartReconcile, RestartRebuilt
  <2>. QED
    BY <2>1, JobFacts DEF Restarted
<1>8. CASE UNCHANGED vars
  BY <1>8
<1>. QED
  BY <1>1, <1>2, <1>3, <1>4, <1>5, <1>6, <1>7, <1>8 DEF Next, RebuildStep

\* A replay that confirms found the two stores at one revision, and its own
\* publication is the only one of the target: nothing is in between its commits.
LEMMA DarkConfirms ==
  ASSUME BaseInv, ReplayInv, DarkAlone, NEW p \in Publications, DarkConfirm(p)
  PROVE  /\ storeRev[TargetOf[p]] = canonicalRev[TargetOf[p]]
         /\ \A q \in Publications : TargetOf[q] = TargetOf[p] =>
              pc[q] \notin {"begun", "applied", "quarantined", "committed"}
         /\ QueuedCommit => TargetOf[txn.pub] # TargetOf[p]
<1>1. dark[p].pc = "confirm" /\ p \in Dark /\ p \in canonical
  BY DEF DarkConfirm, BaseInv, DarkInv, ReplayInv
<1>2. \A q \in Publications : TargetOf[q] = TargetOf[p] => q = p
  BY <1>1 DEF DarkAlone
<1>. QED
  BY <1>1, <1>2 DEF ReplayInv, BaseInv, JobInv

\* A quarantine is lifted by its own publication, by a replay in its target's order,
\* or by its dark completion's replay: always when no COMMIT is open or queued.
LEMMA QuarantineStep ==
  ASSUME BaseInv, ReplayInv, QuarantineInv, [Next]_vars, DarkAlone
  PROVE  QuarantineInv'
<1>. USE PublicationAssumption
     DEF BaseInv, QuarantineInv, QueuedCommit, TypeOK, PublicationSteps, InBarrier, InSqlite
<1>1. ASSUME NEW p \in Publications, PublicationStep(p) PROVE QuarantineInv'
  <2>1. CASE Order(p) \/ Enter(p) \/ ReplayKnown(p)
    BY <2>1 DEF Order, Enter, ReplayKnown
  <2>2. CASE ReplayReconciles(p)
    BY <2>2, JobFacts DEF ReplayReconciles, Confirmed, WorkerFree, LockInv
  <2>3. CASE Begin(p)
    BY <2>3, JobFacts DEF Begin, BeginAt, WorkerFree
  <2>12. CASE BeginLost(p)
    BY <2>12, JobFacts DEF BeginLost, BeginAt, WorkerFree
  <2>4. CASE Apply(p)
    BY <2>4, JobFacts DEF Apply, WriteInv, OpenWrite
  <2>5. CASE Quarantine(p)
    <3>1. pc[p] = "applied" /\ pc' = [pc EXCEPT ![p] = "quarantined"] /\ jobs = <<>>
          /\ UNCHANGED <<storeRev, canonicalRev, jobs, txn>>
      BY <2>5 DEF Quarantine, WriteInv, OpenWrite
    <3>2. \A q \in Publications : pc[q] # "idle" /\ q # p => TargetOf[q] # TargetOf[p]
      BY <3>1 DEF LockInv
    <3>3. readiness'[TargetOf[p]] = "CanonicalUnknown" /\ pending'[TargetOf[p]] = p
      BY <2>5 DEF Quarantine
    <3>4. \A t \in Targets : t # TargetOf[p] =>
            readiness'[t] = readiness[t] /\ pending'[t] = pending[t]
      BY <2>5 DEF Quarantine
    <3>. QED
      BY <3>1, <3>2, <3>3, <3>4, JobFacts
  <2>6. CASE LadybugCommit(p)
    <3>1. pc[p] = "quarantined" /\ pc' = [pc EXCEPT ![p] = "committed"]
          /\ jobs = <<>> /\ txn.pub = p /\ UNCHANGED <<memory, canonicalRev, jobs>>
      BY <2>6 DEF LadybugCommit, WriteInv, OpenWrite
    <3>2. \A q \in Publications : pc[q] # "idle" /\ q # p => TargetOf[q] # TargetOf[p]
      BY <3>1 DEF LockInv
    <3>3. \A t \in Targets : t # TargetOf[p] => storeRev'[t] = storeRev[t]
      BY <2>6, <3>1 DEF LadybugCommit, CommitTxn
    <3>. QED
      BY <3>1, <3>2, <3>3, JobFacts
  <2>7. CASE LadybugCommitFails(p) \/ LadybugCommitExpired(p)
    <3>1. /\ pc' = [pc EXCEPT ![p] = "idle"] /\ jobs = <<>>
          /\ UNCHANGED <<durable, memory, jobs>>
      BY <2>7 DEF LadybugCommitFails, LadybugCommitExpired, WriteInv, OpenWrite
    <3>. QED
      BY <3>1, JobFacts
  <2>8. CASE SqliteCommit(p)
    BY <2>8 DEF SqliteCommit, SqliteEffect, LockInv
  <2>9. CASE SqliteCommitAmbiguous(p)
    BY <2>9 DEF SqliteCommitAmbiguous, SqliteEffect, LockInv
  <2>10. CASE Confirm(p)
    <3>1. pc[p] = "confirming" /\ pc' = [pc EXCEPT ![p] = "idle"]
      BY <2>10 DEF Confirm
    <3>2. \A q \in Publications : pc'[q] # "idle" => TargetOf[q] # TargetOf[p]
      BY <3>1 DEF LockInv
    <3>3. \A t \in Targets : t # TargetOf[p] =>
            readiness'[t] = readiness[t] /\ pending'[t] = pending[t]
      BY <2>10 DEF Confirm, Confirmed
    <3>4. QueuedCommit => txn.pub \in Publications /\ TargetOf[txn.pub] # TargetOf[p]
      BY <3>1 DEF JobInv
    <3>. QED
      BY <2>10, <3>1, <3>2, <3>3, <3>4 DEF Confirm
  <2>11. CASE Abandon(p)
    <3>1. CASE OpenWrite(p)
      <4>1. jobs' = <<"commit", "rollback">> => pc[p] = "quarantined"
        BY <2>11, <3>1, JobFacts DEF Abandon, WriteInv, OpenWrite
      <4>2. txn.pub = p /\ UNCHANGED <<txn, durable, memory>> /\ pc' = [pc EXCEPT ![p] = "idle"]
        BY <2>11, <3>1 DEF Abandon, WriteInv
      <4>. QED
        BY <4>1, <4>2
    <3>2. CASE pc[p] \in {"ordered", "writing"}
      <4>1. UNCHANGED <<jobs, txn, durable, memory>> /\ pc' = [pc EXCEPT ![p] = "idle"]
        BY <2>11, <3>2, JobFacts DEF Abandon
      <4>. QED
        BY <4>1
    <3>. QED
      BY <2>11, <3>1, <3>2 DEF Abandon, OpenWrite
  <2>. QED
    BY <1>1, <2>1, <2>2, <2>3, <2>4, <2>5, <2>6, <2>7, <2>8, <2>9, <2>10, <2>11, <2>12
    DEF PublicationStep
<1>2. ASSUME NEW q \in Queries, QueryStep(q) PROVE QuarantineInv'
  <2>1. UNCHANGED <<durable, memory, worker, pc>>
    BY <1>2 DEF QueryStep, QueryAdmit, QueryRun, QueryReturn, QueryRefused
  <2>. QED
    BY <2>1
<1>3. CASE RunJob
  <2>1. jobs' # <<"commit", "rollback">> /\ UNCHANGED <<pc, memory, canonicalRev>>
    BY <1>3, JobFacts DEF RunJob, JobInv
  <2>2. CASE Head(jobs) = "commit" /\ CommitTxn
    <3>1. QueuedCommit
      BY <1>3, <2>2, JobFacts DEF RunJob, JobInv
    <3>2. \A q \in Publications : pc[q] = "confirming" => storeRev'[TargetOf[q]] = storeRev[TargetOf[q]]
      BY <2>2, <3>1 DEF CommitTxn, JobInv
    <3>. QED
      BY <2>1, <3>2
  <2>3. CASE UNCHANGED storeRev
    BY <2>1, <2>3
  <2>. QED
    BY <1>3, <2>2, <2>3 DEF RunJob
<1>4. CASE RebuildSnapshot \/ RebuildLock
  BY <1>4 DEF RebuildSnapshot, RebuildLock
<1>5. CASE RebuildInstall \/ RebuildInstallFails
  BY <1>5, JobFacts DEF RebuildInstall, RebuildInstallFails, Install, Finished, LockInv
<1>6. CASE RebuildOpenFails \/ RebuildFails
  BY <1>6 DEF RebuildOpenFails, RebuildFails, Finished, JobInv
<1>7. CASE RestartReconcile \/ RestartRebuilt
  <2>1. Restarted
    BY <1>7 DEF RestartReconcile, RestartRebuilt
  <2>. QED
    BY <2>1, JobFacts DEF Restarted
<1>8. CASE UNCHANGED vars
  BY <1>8
<1>9. ASSUME NEW p \in Publications, DarkStep(p) PROVE QuarantineInv'
  <2>1. UNCHANGED <<durable, worker, pc>>
    BY <1>9, DarkFrame
  <2>2. CASE UNCHANGED memory
    BY <2>1, <2>2
  <2>3. CASE DarkConfirm(p)
    <3>1. \A t \in Targets : t # TargetOf[p] =>
            readiness'[t] = readiness[t] /\ pending'[t] = pending[t]
      BY <2>3 DEF DarkConfirm, Confirmed
    <3>2. QueuedCommit => txn.pub \in Publications
      BY DEF JobInv
    <3>. QED
      BY <2>1, <2>3, <3>1, <3>2, DarkConfirms
  <2>. QED
    BY <1>9, <2>2, <2>3, DarkFrame
<1>. QED
  BY <1>1, <1>2, <1>3, <1>4, <1>5, <1>6, <1>7, <1>8, <1>9 DEF Next, RebuildStep

\* A COMMIT of the pending publication leaves Ladybug ahead by that publication.
LEMMA CommitContent ==
  ASSUME TypeOK, ContentInv, CommitTxn, UNCHANGED <<canonical, canonicalRev, memory>>,
         NEW p \in Publications, txn.pub = p, txn.applied, txn.rev > canonicalRev[TargetOf[p]],
         readiness[TargetOf[p]] = "CanonicalUnknown", pending[TargetOf[p]] = p
  PROVE  ContentInv'
<1>1. store' = store \cup {p} /\ storeRev'[TargetOf[p]] = txn.rev
      /\ \A t \in Targets : t # TargetOf[p] => storeRev'[t] = storeRev[t]
  BY PublicationAssumption DEF CommitTxn, TypeOK
<1>2. TargetOf[p] \in Targets /\ storeRev'[TargetOf[p]] # canonicalRev[TargetOf[p]]
  BY <1>1, PublicationAssumption DEF TypeOK, Transaction
<1>. USE DEF ContentInv, Available, Of
<1>3. ReadyIsReconciled'
  BY <1>1, <1>2 DEF ReadyIsReconciled
<1>4. QuarantineExact'
  BY <1>1, <1>2 DEF QuarantineExact
<1>5. EqualRevisionEqualContent'
  BY <1>1, <1>2 DEF EqualRevisionEqualContent
<1>. QED
  BY <1>3, <1>4, <1>5

\* The SQLite commit of the pending publication makes the two stores equal.
LEMMA SqliteContent ==
  ASSUME TypeOK, ContentInv, UNCHANGED <<store, storeRev, memory>>,
         NEW p \in Publications, SqliteEffect(p), p \in store,
         readiness[TargetOf[p]] = "CanonicalUnknown", pending[TargetOf[p]] = p
  PROVE  ContentInv'
<1>1. canonical' = canonical \cup {p} /\ canonicalRev'[TargetOf[p]] = storeRev[TargetOf[p]]
      /\ \A t \in Targets : t # TargetOf[p] => canonicalRev'[t] = canonicalRev[t]
  BY PublicationAssumption DEF SqliteEffect, TypeOK
<1>2. TargetOf[p] \in Targets
  BY PublicationAssumption
<1>. USE DEF ContentInv, Available, Of
<1>3. ReadyIsReconciled'
  BY <1>1, <1>2 DEF ReadyIsReconciled
<1>4. QuarantineExact'
  BY <1>1, <1>2 DEF QuarantineExact
<1>5. EqualRevisionEqualContent'
  BY <1>1, <1>2 DEF EqualRevisionEqualContent, QuarantineExact
<1>. QED
  BY <1>3, <1>4, <1>5

\* Lifting a quarantine on equal revisions exposes nothing but SQLite's content.
LEMMA ConfirmedContent ==
  ASSUME TypeOK, ContentInv, UNCHANGED <<canonical, canonicalRev, store, storeRev>>,
         NEW t \in Targets, Confirmed(t), storeRev[t] = canonicalRev[t]
  PROVE  ContentInv'
<1>1. \A u \in Targets : u # t => readiness'[u] = readiness[u] /\ pending'[u] = pending[u]
  BY DEF Confirmed, TypeOK
<1>2. readiness'[t] # "CanonicalUnknown"
      /\ (readiness'[t] = "Ready" => readiness[t] \in {"Ready", "CanonicalUnknown"})
  BY DEF Confirmed, TypeOK
<1>. USE DEF ContentInv, Available
<1>3. ReadyIsReconciled'
  BY <1>1, <1>2 DEF ReadyIsReconciled, EqualRevisionEqualContent, Of
<1>4. QuarantineExact'
  BY <1>1, <1>2 DEF QuarantineExact, Of
<1>5. EqualRevisionEqualContent'
  BY <1>1, <1>2 DEF EqualRevisionEqualContent, Of
<1>. QED
  BY <1>3, <1>4, <1>5

\* A step that leaves the stores alone and makes no target publishable keeps them
\* reconciled.
LEMMA StableContent ==
  ASSUME TypeOK, ContentInv, UNCHANGED <<canonical, canonicalRev, store, storeRev, pending>>,
         \A t \in Targets : readiness'[t] = readiness[t] \/ readiness'[t] = "Failed"
  PROVE  ContentInv'
  BY DEF ContentInv, ReadyIsReconciled, QuarantineExact, EqualRevisionEqualContent, Available, Of

\* Equal stores are reconciled, whatever is pending.
LEMMA EqualContent ==
  ASSUME \A t \in Targets : readiness'[t] = "CanonicalUnknown" => pending'[t] # NoPublication,
         \A t \in Targets : Available(t)' =>
           storeRev'[t] = canonicalRev'[t] /\ Of(t, store') = Of(t, canonical')
  PROVE  ContentInv'
  BY DEF ContentInv, ReadyIsReconciled, QuarantineExact, EqualRevisionEqualContent, Available

\* Every target that can be published to is reconciled, but for its pending publication.
LEMMA ContentStep ==
  ASSUME BaseInv, ReplayInv, QuarantineInv, ContentInv, [Next]_vars, DarkAlone
  PROVE  ContentInv'
<1>. USE PublicationAssumption DEF BaseInv
<1>1. ASSUME NEW p \in Publications, PublicationStep(p) PROVE ContentInv'
  <2>. DEFINE t == TargetOf[p]
  <2>1. CASE UNCHANGED <<canonical, canonicalRev, store, storeRev, memory>>
    BY <2>1, StableContent
  <2>2. CASE ReplayReconciles(p)
    <3>1. Confirmed(t) /\ storeRev[t] = canonicalRev[t]
          /\ UNCHANGED <<canonical, canonicalRev, store, storeRev>>
      BY <2>2 DEF ReplayReconciles
    <3>. QED
      BY <3>1, ConfirmedContent
  <2>3. CASE Quarantine(p)
    <3>1. /\ Available(t) /\ readiness'[t] = "CanonicalUnknown" /\ pending'[t] = p
          /\ readiness[t] = "CanonicalUnknown" => pending[t] = p
      BY <2>3 DEF Quarantine, Available, TypeOK
    <3>2. \A u \in Targets : u # t => readiness'[u] = readiness[u] /\ pending'[u] = pending[u]
      BY <2>3 DEF Quarantine, TypeOK
    <3>3. UNCHANGED <<canonical, canonicalRev, store, storeRev>> /\ p # NoPublication
      BY <2>3 DEF Quarantine
    <3>. QED
      BY <3>1, <3>2, <3>3
      DEF ContentInv, ReadyIsReconciled, QuarantineExact, EqualRevisionEqualContent, Available, Of
  <2>4. CASE LadybugCommit(p)
    <3>1. /\ CommitTxn /\ UNCHANGED <<canonical, canonicalRev, memory>>
          /\ pc[p] = "quarantined"
      BY <2>4 DEF LadybugCommit
    <3>2. txn.pub = p /\ txn.applied /\ txn.rev > canonicalRev[t]
      BY <3>1 DEF WriteInv, OpenWrite
    <3>3. readiness[t] = "CanonicalUnknown" /\ pending[t] = p
      BY <3>1 DEF QuarantineInv
    <3>. QED
      BY <3>1, <3>2, <3>3, CommitContent
  <2>5. CASE SqliteCommit(p) \/ SqliteCommitAmbiguous(p)
    <3>1. pc[p] = "committed" /\ UNCHANGED <<store, storeRev, memory>>
      BY <2>5 DEF SqliteCommit, SqliteCommitAmbiguous
    <3>2. p \in store /\ readiness[t] = "CanonicalUnknown" /\ pending[t] = p
      BY <3>1 DEF QuarantineInv, StoreInv
    <3>3. CASE SqliteEffect(p)
      BY <3>1, <3>2, <3>3, SqliteContent
    <3>4. CASE UNCHANGED <<canonical, canonicalRev>>
      BY <3>1, <3>4, StableContent
    <3>. QED
      BY <2>5, <3>3, <3>4 DEF SqliteCommit, SqliteCommitAmbiguous
  <2>6. CASE Confirm(p)
    <3>1. /\ Confirmed(t) /\ pc[p] = "confirming"
          /\ UNCHANGED <<canonical, canonicalRev, store, storeRev>>
      BY <2>6 DEF Confirm
    <3>2. storeRev[t] = canonicalRev[t]
      BY <3>1 DEF QuarantineInv
    <3>. QED
      BY <3>1, <3>2, ConfirmedContent
  <2>7. (Order(p) \/ Enter(p) \/ ReplayKnown(p) \/ Begin(p) \/ BeginLost(p) \/ Apply(p)
           \/ LadybugCommitFails(p) \/ LadybugCommitExpired(p) \/ Abandon(p))
        => UNCHANGED <<canonical, canonicalRev, store, storeRev, memory>>
    BY DEF Order, Enter, ReplayKnown, Begin, BeginLost, BeginAt, Apply, LadybugCommitFails,
           LadybugCommitExpired, Abandon
  <2>. QED
    BY <1>1, <2>1, <2>2, <2>3, <2>4, <2>5, <2>6, <2>7 DEF PublicationStep
<1>2. ASSUME NEW q \in Queries, QueryStep(q) PROVE ContentInv'
  <2>1. UNCHANGED <<canonical, canonicalRev, store, storeRev, memory>>
    BY <1>2 DEF QueryStep, QueryAdmit, QueryRun, QueryReturn, QueryRefused
  <2>. QED
    BY <2>1, StableContent
<1>3. CASE RunJob
  <2>1. UNCHANGED <<canonical, canonicalRev, memory>>
    BY <1>3 DEF RunJob
  <2>2. CASE Head(jobs) = "commit" /\ CommitTxn
    <3>1. QueuedCommit
      BY <1>3, <2>2, JobFacts DEF RunJob, JobInv, QueuedCommit
    <3>2. txn.pub \in Publications /\ txn.applied /\ txn.rev > canonicalRev[TargetOf[txn.pub]]
      BY <3>1 DEF JobInv
    <3>3. readiness[TargetOf[txn.pub]] = "CanonicalUnknown" /\ pending[TargetOf[txn.pub]] = txn.pub
      BY <3>1 DEF QuarantineInv
    <3>. QED
      BY <2>1, <2>2, <3>2, <3>3, CommitContent
  <2>3. CASE UNCHANGED <<store, storeRev>>
    BY <2>1, <2>3, StableContent
  <2>. QED
    BY <1>3, <2>2, <2>3 DEF RunJob
<1>4. CASE RebuildSnapshot \/ RebuildLock
  <2>1. UNCHANGED <<canonical, canonicalRev, store, storeRev, memory>>
    BY <1>4 DEF RebuildSnapshot, RebuildLock
  <2>. QED
    BY <2>1, StableContent
<1>5. CASE RebuildInstall \/ RebuildInstallFails
  <2>1. store' = canonical' /\ storeRev' = canonicalRev'
    BY <1>5 DEF RebuildInstall, RebuildInstallFails, Install, LockInv
  <2>2. \A u \in Targets : readiness'[u] = "CanonicalUnknown" => pending'[u] # NoPublication
    BY <1>5 DEF RebuildInstall, RebuildInstallFails, Finished, ContentInv, QuarantineExact, TypeOK
  <2>. QED
    BY <2>1, <2>2, EqualContent
<1>6. CASE RebuildOpenFails \/ RebuildFails
  <2>1. /\ UNCHANGED <<canonical, canonicalRev, store, storeRev, pending>>
        /\ \A u \in Targets : readiness'[u] = readiness[u] \/ readiness'[u] = "Failed"
    BY <1>6 DEF RebuildOpenFails, RebuildFails, Finished, TypeOK
  <2>. QED
    BY <2>1, StableContent
<1>7. CASE RestartReconcile
  <2>1. \A u \in Targets : readiness'[u] # "CanonicalUnknown"
    BY <1>7 DEF RestartReconcile
  <2>2. \A u \in Targets : Available(u)' => ~Damaged(u)
    BY <1>7 DEF RestartReconcile, Available
  <2>3. /\ store' = OpenedStore /\ storeRev' = OpenedRevs
        /\ UNCHANGED <<canonical, canonicalRev>>
    BY <1>7 DEF RestartReconcile, Restarted
  <2>. QED
    BY <2>1, <2>2, <2>3, EqualContent DEF Damaged
<1>8. CASE RestartRebuilt
  BY <1>8, EqualContent DEF RestartRebuilt, Restarted
<1>9. CASE UNCHANGED vars
  BY <1>9, StableContent
<1>10. ASSUME NEW p \in Publications, DarkStep(p) PROVE ContentInv'
  <2>1. UNCHANGED <<canonical, canonicalRev, store, storeRev>>
    BY <1>10, DarkFrame
  <2>2. CASE UNCHANGED memory
    BY <2>1, <2>2, StableContent
  <2>3. CASE DarkConfirm(p)
    <3>1. Confirmed(TargetOf[p]) /\ storeRev[TargetOf[p]] = canonicalRev[TargetOf[p]]
      BY <2>3, DarkConfirms DEF DarkConfirm
    <3>. QED
      BY <2>1, <3>1, ConfirmedContent
  <2>. QED
    BY <1>10, <2>2, <2>3, DarkFrame
<1>. QED
  BY <1>1, <1>2, <1>3, <1>4, <1>5, <1>6, <1>7, <1>8, <1>9, <1>10 DEF Next, RebuildStep

\* What a query reads between transactions stays in Ladybug until it is answered.
LEMMA QueryInvStep ==
  ASSUME BaseInv, ContentInv, QueryInv, [Next]_vars
  PROVE  QueryInv'
<1>. USE DEF BaseInv, QueryInv, Observed, TypeOK, Of
<1>1. ASSUME NEW p \in Publications, PublicationStep(p) PROVE QueryInv'
  <2>1. UNCHANGED query /\ canonical \subseteq canonical' /\ store \subseteq store'
        /\ \A t \in Targets : Available(t) => Available(t)'
    BY <1>1 DEF PublicationStep, Order, Enter, ReplayKnown, ReplayReconciles, Begin, BeginLost,
           BeginAt, Apply, Quarantine, LadybugCommit, CommitTxn, LadybugCommitFails,
           LadybugCommitExpired, SqliteCommit, SqliteCommitAmbiguous, SqliteEffect, Confirm, Confirmed, Abandon,
           Available
  <2>. QED
    BY <2>1 DEF QueryRow
<1>2. ASSUME NEW q \in Queries, QueryStep(q) PROVE QueryInv'
  <2>. USE DEF QueryRow, Available
  <2>1. ASSUME NEW t \in Targets, QueryAdmit(q, t) PROVE QueryInv'
    BY <2>1 DEF QueryAdmit, NoQuery
  <2>2. CASE QueryRun(q)
    <3>1. UNCHANGED <<canonical, store, readiness>> /\ \A r \in Queries : r # q => query'[r] = query[r]
      BY <2>2 DEF QueryRun
    <3>2. /\ query[q].pc = "admitted" /\ query'[q].pc = "ran"
          /\ query'[q].target = query[q].target
      BY <2>2 DEF QueryRun
    <3>3. txn = NoTxn => Observed(q)'
      <4>. HAVE txn = NoTxn
      <4>1. query'[q].seen = Of(query[q].target, store)
        BY <2>2 DEF QueryRun, NoTxn
      <4>. QED
        BY <3>1, <3>2, <4>1
    <3>4. txn # NoTxn => Observed(q)'
      <4>. HAVE txn # NoTxn
      <4>1. query'[q].inside
        BY <2>2 DEF QueryRun
      <4>. QED
        BY <3>1, <3>2, <4>1
    <3>5. \A r \in Queries : r # q => Observed(r)'
      BY <3>1
    <3>6. Observed(q)'
      BY <3>3, <3>4
    <3>. QED
      BY <3>5, <3>6
  <2>3. CASE QueryReturn(q)
    <3>1. UNCHANGED <<canonical, store, readiness>> /\ \A r \in Queries : r # q => query'[r] = query[r]
      BY <2>3 DEF QueryReturn
    <3>2. /\ query[q].pc = "ran" /\ query'[q].pc = "returned"
          /\ query'[q].inside = query[q].inside /\ query'[q].seen = query[q].seen
          /\ query'[q].overtaken = query[q].overtaken
      BY <2>3 DEF QueryReturn
    <3>3. Of(query[q].target, store) \subseteq canonical
      BY <2>3 DEF QueryReturn, ContentInv, ReadyIsReconciled
    <3>4. Observed(q)'
      BY <3>1, <3>2, <3>3
    <3>5. \A r \in Queries : r # q => Observed(r)'
      BY <3>1
    <3>. QED
      BY <3>4, <3>5
  <2>4. CASE QueryRefused(q)
    BY <2>4 DEF QueryRefused, NoQuery
  <2>. QED
    BY <1>2, <2>1, <2>2, <2>3, <2>4 DEF QueryStep
<1>3. CASE RunJob
  BY <1>3 DEF RunJob, CommitTxn, Available
<1>4. CASE RebuildSnapshot \/ RebuildLock \/ RebuildOpenFails \/ RebuildFails
  <2>1. UNCHANGED <<query, store, canonical>>
    BY <1>4 DEF RebuildSnapshot, RebuildLock, RebuildOpenFails, RebuildFails
  <2>2. \A t \in Targets : Available(t) => Available(t)'
    BY <1>4 DEF RebuildSnapshot, RebuildLock, RebuildOpenFails, RebuildFails, Finished, Available
  <2>. QED
    BY <2>1, <2>2 DEF QueryRow
<1>5. CASE RebuildInstall \/ RebuildInstallFails
  <2>1. Install /\ UNCHANGED canonical
    BY <1>5 DEF RebuildInstall, RebuildInstallFails
  <2>2. \A t \in Targets : Available(t) => Available(t)'
    BY <1>5 DEF RebuildInstall, RebuildInstallFails, Finished, Available
  <2>3. store' = canonical
    BY <1>5 DEF RebuildInstall, RebuildInstallFails, Install, LockInv
  <2>. SUFFICES ASSUME NEW q \in Queries PROVE Observed(q)'
    OBVIOUS
  <2>4. query[q].target \in Targets
    BY DEF QueryRow
  <2>5. ASSUME query'[q].pc = "ran", ~query'[q].inside, ~query'[q].overtaken
        PROVE  query'[q].seen \subseteq Of(query'[q].target, store')
    <3>1. readiness[query[q].target] = "Ready"
      BY <2>1, <2>4, <2>5, InstallRows DEF Available
    <3>2. Of(query[q].target, store) = Of(query[q].target, canonical)
      BY <2>4, <3>1 DEF ContentInv, ReadyIsReconciled
    <3>. QED
      BY <2>1, <2>3, <2>5, <3>2, InstallRows
  <2>. QED
    BY <2>1, <2>2, <2>4, <2>5, InstallRows
<1>6. CASE RestartReconcile \/ RestartRebuilt
  <2>1. Restarted
    BY <1>6 DEF RestartReconcile, RestartRebuilt
  <2>. QED
    BY <2>1 DEF Restarted, NoQuery
<1>7. CASE UNCHANGED vars
  BY <1>7 DEF Available
<1>8. ASSUME NEW p \in Publications, DarkStep(p) PROVE QueryInv'
  <2>1. \A t \in Targets : Available(t) => Available(t)'
    BY <1>8 DEF DarkStep, DarkRead, DarkCheck, DarkCompare, DarkConfirm, Confirmed, Available
  <2>. QED
    BY <1>8, <2>1, DarkFrame DEF QueryRow
<1>. QED
  BY <1>1, <1>2, <1>3, <1>4, <1>5, <1>6, <1>7, <1>8 DEF Next, RebuildStep

\* The full invariant holds in every reachable state, when nobody else publishes to the
\* target of a dark completion.
LEMMA Invariant ==
  ASSUME DarkAlone
  PROVE  Spec => []Inv
<1>1. Init => Inv
  <2>. SUFFICES ASSUME Init PROVE Inv
    OBVIOUS
  <2>1. QuarantineInv
    BY JobFacts DEF Init, QuarantineInv, QueuedCommit
  <2>2. ContentInv
    BY DEF Init, ContentInv, ReadyIsReconciled, QuarantineExact, EqualRevisionEqualContent, Of
  <2>3. \A q \in Queries : query[q].pc = "idle"
    BY DEF Init, NoQuery
  <2>4. ReplayInv
    BY JobFacts DEF Init, ReplayInv, QueuedCommit
  <2>. QED
    BY <2>1, <2>2, <2>3, <2>4, BaseInit DEF Inv, QueryInv, Observed
<1>2. Inv /\ [Next]_vars => Inv'
  BY BaseStep, ReplayStep, QuarantineStep, ContentStep, QueryInvStep DEF Inv
<1>. QED
  BY <1>1, <1>2, PTL DEF Spec

\* When nobody else publishes to the target of a dark completion, a target that answers
\* queries holds in Ladybug exactly what SQLite committed, through every failed,
\* abandoned, retried, replayed or restarted publication and every rebuild.
THEOREM Reconciled ==
  ASSUME DarkAlone
  PROVE  Spec => []ReadyIsReconciled
<1>1. Inv => ReadyIsReconciled
  BY DEF Inv, ContentInv
<1>. QED
  BY <1>1, Invariant, PTL

\* When nobody else publishes to the target of a dark completion, a quarantined target
\* differs from SQLite by at most the publication canonical_commit_unknown recorded.
THEOREM QuarantineIsExact ==
  ASSUME DarkAlone
  PROVE  Spec => []QuarantineExact
<1>1. Inv => QuarantineExact
  BY DEF Inv, ContentInv
<1>. QED
  BY <1>1, Invariant, PTL

\* When nobody else publishes to the target of a dark completion,
\* canonical_publication_matches is a proof: equal revisions are equal contents.
THEOREM RevisionsProveContent ==
  ASSUME DarkAlone
  PROVE  Spec => []EqualRevisionEqualContent
<1>1. Inv => EqualRevisionEqualContent
  BY DEF Inv, ContentInv
<1>. QED
  BY <1>1, Invariant, PTL

\* When nobody else publishes to the target of a dark completion, a query that ran
\* between transactions returns only what SQLite committed, also while other targets are
\* rebuilt, unless such a rebuild replaced the store while its target was quarantined.
THEOREM ReadsAcknowledged ==
  ASSUME DarkAlone
  PROVE  Spec => []NoUnacknowledgedRead
<1>1. Inv => NoUnacknowledgedRead
  BY DEF Inv, QueryInv, Observed, NoUnacknowledgedRead, Answered
<1>. QED
  BY <1>1, Invariant, PTL
-----------------------------------------------------------------------------
(* The publication protocol implements AcknowledgedSearch: the invariant of the  *)
(* history variable, and the steps.                                              *)

\* A question is open exactly while its query runs, and the present is one of its
\* moments.
OpenInv ==
  \A q \in Queries :
    /\ Asking(q) => canonical \in moments[q]
    /\ ~Asking(q) => moments[q] = {}

\* What a query read is what SQLite held for its target at one of its moments.
AtMoment(q) == \E M \in moments[q] : query[q].seen = Of(query[q].target, M)

\* Or it is what Ladybug alone holds of a quarantined target: then it cannot be
\* answered before SQLite holds that too.
Explained(q) ==
  \/ AtMoment(q)
  \/ ~Available(query[q].target)
  \/ /\ readiness[query[q].target] = "CanonicalUnknown"
     /\ query[q].seen = Of(query[q].target, store)

\* What every query read between transactions.
ReadInv ==
  \A q \in Queries : (query[q].pc = "ran" /\ ~query[q].inside /\ ~query[q].overtaken) => Explained(q)

MomentInv == moments \in [Queries -> SUBSET SUBSET Publications] /\ OpenInv /\ ReadInv

-----------------------------------------------------------------------------
\* The invariant holds initially: no query has been asked.
LEMMA MomentInit == HistoryInit => MomentInv
<1>. SUFFICES ASSUME HistoryInit PROVE MomentInv
  OBVIOUS
<1>1. \A q \in Queries : query[q].pc = "idle"
  BY DEF HistoryInit, Init, NoQuery
<1>. QED
  BY <1>1 DEF HistoryInit, MomentInv, OpenInv, ReadInv, Asking

\* The history of a step: the present is added to the moments of each open question.
LEMMA OpenStep ==
  ASSUME Inv, Inv', MomentInv, HistoryNext
  PROVE  moments' \in [Queries -> SUBSET SUBSET Publications] /\ OpenInv'
<1>1. canonical' \subseteq Publications
  BY DEF Inv, BaseInv, TypeOK
<1>. QED
  BY <1>1 DEF MomentInv, HistoryNext, OpenInv

\* A query keeps its moments for as long as it is open.
LEMMA MomentsKept ==
  ASSUME MomentInv, HistoryNext, NEW q \in Queries, Asking(q), query'[q] = query[q]
  PROVE  /\ Asking(q)' /\ moments[q] \subseteq moments'[q] /\ canonical' \in moments'[q]
         /\ AtMoment(q) => AtMoment(q)'
<1>1. Asking(q)'
  BY DEF Asking
<1>. QED
  BY <1>1 DEF HistoryNext, AtMoment, Of

\* A step that leaves a query open, and its target as it was or reconciled.
LEMMA ReadKept ==
  ASSUME MomentInv, HistoryNext, NEW q \in Queries, query'[q] = query[q], Explained(q),
         query[q].pc = "ran",
         \/ ~Available(query[q].target) /\ ~Available(query[q].target)'
         \/ /\ readiness'[query[q].target] = readiness[query[q].target]
            /\ Of(query[q].target, store') = Of(query[q].target, store)
         \/ /\ Available(query[q].target)
            /\ Of(query[q].target, store) = Of(query[q].target, canonical')
  PROVE  Explained(q)'
<1>1. Asking(q)' /\ canonical' \in moments'[q] /\ (AtMoment(q) => AtMoment(q)')
  BY MomentsKept DEF Asking
<1>2. CASE AtMoment(q)
  BY <1>1, <1>2 DEF Explained
<1>3. CASE ~AtMoment(q)
  BY <1>1, <1>3 DEF Explained, AtMoment, Available, Of
<1>. QED
  BY <1>2, <1>3

\* The COMMIT of the publication that owns a quarantine.
LEMMA ReadCommit ==
  ASSUME Inv, MomentInv, HistoryNext, NEW q \in Queries, query'[q] = query[q], Explained(q),
         query[q].pc = "ran", CommitTxn, UNCHANGED <<readiness, canonical>>,
         NEW p \in Publications, txn.pub = p, readiness[TargetOf[p]] = "CanonicalUnknown",
         pending[TargetOf[p]] = p
  PROVE  Explained(q)'
<1>. DEFINE t == query[q].target
<1>1. t \in Targets /\ TargetOf[p] \in Targets
  BY PublicationAssumption DEF Inv, BaseInv, TypeOK, QueryRow
<1>2. CASE t # TargetOf[p] \/ p \in store
  <2>1. Of(t, store') = Of(t, store)
    BY <1>2 DEF CommitTxn, Of
  <2>. QED
    BY <2>1, ReadKept
<1>3. CASE t = TargetOf[p] /\ p \notin store
  <2>1. Available(t)
    BY <1>3 DEF Available
  <2>2. Of(t, canonical) \subseteq store /\ Of(t, store) \subseteq Of(t, canonical) \cup {p}
    BY <1>1, <1>3, <2>1 DEF Inv, BaseInv, StoreInv, ContentInv, QuarantineExact
  <2>3. Of(t, store) = Of(t, canonical)
    BY <2>2, <1>3 DEF Of
  <2>. QED
    BY <2>1, <2>3, ReadKept
<1>. QED
  BY <1>2, <1>3

\* A quarantine lifted on equal revisions: what an open query read from Ladybug is what
\* SQLite holds.
LEMMA ReadConfirmed ==
  ASSUME Inv, MomentInv, HistoryNext, NEW q \in Queries, query'[q] = query[q], Explained(q),
         query[q].pc = "ran", NEW u \in Targets, Confirmed(u), storeRev[u] = canonicalRev[u],
         UNCHANGED <<store, canonical>>
  PROVE  Explained(q)'
<1>. DEFINE t == query[q].target
<1>0. TypeOK /\ t \in Targets
  BY DEF Inv, BaseInv, TypeOK, QueryRow
<1>1. readiness' = [readiness EXCEPT ![u] = IF @ = "CanonicalUnknown" THEN "Ready" ELSE @]
  BY DEF Confirmed
<1>2. CASE t # u
  <2>1. readiness'[t] = readiness[t]
    BY <1>0, <1>1, <1>2 DEF TypeOK
  <2>. QED
    BY <2>1, ReadKept
<1>3. CASE t = u /\ Available(t)
  <2>1. Of(t, store) = Of(t, canonical)
    BY <1>0, <1>3 DEF Inv, ContentInv, EqualRevisionEqualContent
  <2>. QED
    BY <2>1, <1>3, ReadKept
<1>4. CASE t = u /\ ~Available(t)
  <2>1. ~Available(t)'
    BY <1>0, <1>1, <1>4 DEF Available, TypeOK
  <2>. QED
    BY <2>1, <1>4, ReadKept
<1>. QED
  BY <1>2, <1>3, <1>4

\* A request's step keeps what open queries read explained.
LEMMA ReadPublication ==
  ASSUME Inv, MomentInv, HistoryNext, NEW q \in Queries, Explained(q), query[q].pc = "ran",
         NEW p \in Publications, PublicationStep(p)
  PROVE  Explained(q)' /\ query' = query
<1>. USE PublicationAssumption
<1>. DEFINE t == query[q].target
            u == TargetOf[p]
<1>0. TypeOK /\ t \in Targets /\ u \in Targets
  BY DEF Inv, BaseInv, TypeOK, QueryRow
<1>1. query' = query
  BY DEF PublicationStep, Order, Enter, ReplayKnown, ReplayReconciles, Begin, BeginLost,
         BeginAt, Apply, Quarantine, LadybugCommit, LadybugCommitFails, LadybugCommitExpired,
         SqliteCommit, SqliteCommitAmbiguous, Confirm, Abandon
<1>2. CASE UNCHANGED <<store, readiness>>
  BY <1>1, <1>2, ReadKept
<1>3. CASE ReplayReconciles(p) \/ Confirm(p)
  <2>1. UNCHANGED <<store, canonical>>
    BY <1>3 DEF ReplayReconciles, Confirm
  <2>2. Confirmed(u) /\ storeRev[u] = canonicalRev[u]
    BY <1>3 DEF ReplayReconciles, Confirm, Inv, QuarantineInv
  <2>. QED
    BY <2>1, <2>2, <1>0, <1>1, ReadConfirmed
<1>4. CASE Quarantine(p)
  <2>1. UNCHANGED <<store, canonical>> /\ readiness' = [readiness EXCEPT ![u] = "CanonicalUnknown"]
    BY <1>4 DEF Quarantine
  <2>2. CASE readiness'[t] = readiness[t]
    BY <2>1, <2>2, <1>1, ReadKept
  <2>3. CASE readiness'[t] # readiness[t]
    <3>1. readiness[t] = "Ready"
      BY <2>1, <2>3, <1>0, <1>4 DEF Quarantine, TypeOK
    <3>2. Of(t, store) = Of(t, canonical) /\ Available(t)
      BY <3>1, <1>0 DEF Inv, ContentInv, ReadyIsReconciled, Available
    <3>. QED
      BY <3>2, <2>1, <1>1, ReadKept
  <2>. QED
    BY <2>2, <2>3, <1>1
<1>5. CASE LadybugCommit(p)
  <2>1. /\ CommitTxn /\ UNCHANGED <<readiness, canonical>> /\ txn.pub = p
        /\ readiness[u] = "CanonicalUnknown" /\ pending[u] = p
    BY <1>5 DEF LadybugCommit, Inv, BaseInv, WriteInv, OpenWrite, QuarantineInv
  <2>. QED
    BY <2>1, <1>1, ReadCommit
<1>. QED
  BY <1>1, <1>2, <1>3, <1>4, <1>5 DEF PublicationStep, Order, Enter, ReplayKnown, Begin, BeginLost,
     BeginAt, Apply, LadybugCommitFails, LadybugCommitExpired, SqliteCommit, SqliteCommitAmbiguous,
     Abandon

\* So does the replay of a dark completion.
LEMMA ReadDark ==
  ASSUME Inv, MomentInv, HistoryNext, DarkAlone, NEW q \in Queries, Explained(q),
         query[q].pc = "ran", NEW p \in Publications, DarkStep(p)
  PROVE  Explained(q)' /\ query' = query
<1>1. query' = query /\ UNCHANGED <<store, canonical>>
  BY DarkFrame
<1>2. CASE UNCHANGED memory
  BY <1>1, <1>2, ReadKept
<1>3. CASE DarkConfirm(p)
  <2>1. Confirmed(TargetOf[p]) /\ storeRev[TargetOf[p]] = canonicalRev[TargetOf[p]]
    BY <1>3, DarkConfirms DEF DarkConfirm, Inv
  <2>2. TargetOf[p] \in Targets
    BY PublicationAssumption
  <2>. QED
    BY <2>1, <2>2, <1>1, ReadConfirmed
<1>. QED
  BY <1>1, <1>2, <1>3, DarkFrame

\* So does a job of an abandoned request.
LEMMA ReadJob ==
  ASSUME Inv, MomentInv, HistoryNext, NEW q \in Queries, Explained(q), query[q].pc = "ran", RunJob
  PROVE  Explained(q)' /\ query' = query
<1>1. query' = query /\ UNCHANGED <<readiness, canonical>>
  BY DEF RunJob
<1>2. CASE UNCHANGED store
  BY <1>1, <1>2, ReadKept
<1>3. CASE Head(jobs) = "commit" /\ txn.pub # NoPublication /\ CommitTxn
  <2>1. QueuedCommit
    BY <1>3, JobFacts DEF RunJob, Inv, BaseInv, JobInv, QueuedCommit
  <2>2. txn.pub \in Publications /\ readiness[TargetOf[txn.pub]] = "CanonicalUnknown"
        /\ pending[TargetOf[txn.pub]] = txn.pub
    BY <2>1 DEF Inv, BaseInv, JobInv, QuarantineInv
  <2>. QED
    BY <2>2, <1>1, <1>3, ReadCommit
<1>. QED
  BY <1>1, <1>2, <1>3 DEF RunJob

\* A rebuild's step only marks queries.
LEMMA RebuildRows ==
  ASSUME TypeOK, RebuildStep, NEW q \in Queries
  PROVE  /\ query'[q].pc = query[q].pc /\ query'[q].target = query[q].target
         /\ query'[q].seen = query[q].seen /\ query'[q].inside = query[q].inside
         /\ query[q].overtaken => query'[q].overtaken
         /\ query[q].pc # "ran" => (query'[q].overtaken <=> query[q].overtaken)
<1>1. CASE RebuildInstall \/ RebuildInstallFails
  BY <1>1, InstallRows DEF RebuildInstall, RebuildInstallFails
<1>2. CASE RebuildSnapshot \/ RebuildLock \/ RebuildOpenFails \/ RebuildFails
  BY <1>2 DEF RebuildSnapshot, RebuildLock, RebuildOpenFails, RebuildFails
<1>. QED
  BY <1>1, <1>2 DEF RebuildStep

\* And a rebuild's: it makes no target that answers queries unavailable, and replaces
\* only what Ladybug alone holds of the quarantined ones.
LEMMA ReadRebuild ==
  ASSUME Inv, MomentInv, HistoryNext, NEW q \in Queries, Explained(q), query[q].pc = "ran",
         RebuildStep, ~query'[q].overtaken
  PROVE  Explained(q)'
<1>. DEFINE t == query[q].target
<1>1. TypeOK /\ t \in Targets /\ Available(t)
  BY DEF Inv, BaseInv, TypeOK, QueryRow, QueryInv, Observed
<1>2. readiness'[t] = readiness[t]
  BY <1>1 DEF RebuildStep, RebuildSnapshot, RebuildLock, RebuildInstall, RebuildInstallFails,
     RebuildOpenFails, RebuildFails, Finished, Available, TypeOK
<1>3. CASE RebuildSnapshot \/ RebuildLock \/ RebuildOpenFails \/ RebuildFails
  <2>1. UNCHANGED <<query, store>>
    BY <1>3 DEF RebuildSnapshot, RebuildLock, RebuildOpenFails, RebuildFails
  <2>. QED
    BY <2>1, <1>2, ReadKept
<1>4. CASE RebuildInstall \/ RebuildInstallFails
  <2>1. Install /\ UNCHANGED canonical
    BY <1>4 DEF RebuildInstall, RebuildInstallFails
  <2>2. readiness[t] = "Ready" /\ query'[q].target = t /\ query'[q].seen = query[q].seen
        /\ query'[q].pc = "ran"
    BY <1>1, <2>1, InstallRows DEF Available
  <2>3. Of(t, store) = Of(t, canonical)
    BY <1>1, <2>2 DEF Inv, ContentInv, ReadyIsReconciled
  <2>4. AtMoment(q)
    <3>1. canonical \in moments[q]
      BY DEF MomentInv, OpenInv, Asking
    <3>. QED
      BY <1>1, <2>2, <2>3, <3>1 DEF Explained, AtMoment
  <2>5. moments[q] \subseteq moments'[q]
    BY <2>2 DEF HistoryNext, Asking
  <2>. QED
    BY <2>2, <2>4, <2>5 DEF Explained, AtMoment, Of
<1>. QED
  BY <1>3, <1>4 DEF RebuildStep

\* A query's job finds its target reconciled, quarantined or unavailable.
LEMMA ReadQuery ==
  ASSUME Inv, MomentInv, OpenInv', HistoryNext, NEW q \in Queries, QueryRun(q), ~query'[q].inside
  PROVE  Explained(q)'
<1>. DEFINE t == query[q].target
<1>0. TypeOK /\ t \in Targets
  BY DEF Inv, BaseInv, TypeOK, QueryRow
<1>1. /\ query'[q].target = t /\ query'[q].pc = "ran" /\ UNCHANGED <<readiness, store, canonical>>
      /\ query'[q].seen = Of(t, store \cup (IF txn.applied THEN {txn.pub} ELSE {}))
      /\ query'[q].inside = (txn # NoTxn)
  BY <1>0 DEF QueryRun, TypeOK, QueryRow
<1>2. query'[q].seen = Of(t, store)
  <2>1. txn = NoTxn
    BY <1>1
  <2>2. ~txn.applied
    BY <2>1 DEF NoTxn
  <2>3. store \cup (IF txn.applied THEN {txn.pub} ELSE {}) = store
    BY <2>2
  <2>. QED
    BY <1>1, <2>3
<1>3. canonical \in moments'[q]
  BY <1>1 DEF OpenInv, Asking
<1>4. readiness[t] = "Ready" => Of(t, store) = Of(t, canonical)
  BY <1>0 DEF Inv, ContentInv, ReadyIsReconciled
<1>. QED
  BY <1>1, <1>2, <1>3, <1>4 DEF Explained, AtMoment, Available

\* The invariant of the history is preserved by every step.
LEMMA MomentStep ==
  ASSUME Inv, Inv', MomentInv, [HistoryNext]_<<vars, moments>>, DarkAlone
  PROVE  MomentInv'
<1>1. CASE UNCHANGED <<vars, moments>>
  BY <1>1 DEF MomentInv, OpenInv, ReadInv, Explained, AtMoment, Asking, Available, Of
<1>2. CASE HistoryNext
  <2>1. moments' \in [Queries -> SUBSET SUBSET Publications] /\ OpenInv'
    BY <1>2, OpenStep
  <2>2. ASSUME NEW q \in Queries, query'[q].pc = "ran", ~query'[q].inside, ~query'[q].overtaken
        PROVE  Explained(q)'
    <3>0. Next /\ TypeOK
      BY <1>2 DEF HistoryNext, Inv, BaseInv
    <3>1. CASE query[q].pc = "ran" /\ ~query[q].inside /\ ~query[q].overtaken
               /\ ((\E p \in Publications : PublicationStep(p)) \/ RunJob \/ RebuildStep)
      <4>1. Explained(q)
        BY <3>1 DEF MomentInv, ReadInv
      <4>. QED
        BY <3>1, <4>1, <1>2, <2>2, ReadPublication, ReadJob, ReadRebuild
    <3>2. CASE \E p \in Publications : PublicationStep(p)
      <4>1. query' = query
        BY <3>2 DEF PublicationStep, Order, Enter, ReplayKnown, ReplayReconciles, Begin, BeginLost,
           BeginAt, Apply, Quarantine, LadybugCommit, LadybugCommitFails, LadybugCommitExpired,
           SqliteCommit, SqliteCommitAmbiguous, Confirm, Abandon
      <4>. QED
        BY <4>1, <3>1, <3>2, <2>2
    <3>3. CASE RunJob \/ RebuildStep
      <4>1. /\ query[q].pc = query'[q].pc /\ query[q].inside = query'[q].inside
            /\ query[q].overtaken => query'[q].overtaken
        BY <3>0, <3>3, RebuildRows DEF RunJob
      <4>. QED
        BY <4>1, <3>1, <3>3, <2>2
    <3>4. CASE \E r \in Queries : QueryStep(r)
      <4>. PICK r \in Queries : QueryStep(r)
        BY <3>4
      <4>1. UNCHANGED <<store, readiness, canonical>>
        BY DEF QueryStep, QueryAdmit, QueryRun, QueryReturn, QueryRefused
      <4>2. CASE r = q
        <5>1. QueryRun(q)
          <6>1. ~QueryRefused(q) /\ ~QueryReturn(q)
            BY <2>2, <3>0 DEF QueryReturn, QueryRefused, TypeOK, QueryRow, NoQuery
          <6>2. ASSUME NEW t \in Targets PROVE ~QueryAdmit(q, t)
            BY <2>2, <3>0 DEF QueryAdmit, TypeOK, QueryRow, NoQuery
          <6>. QED
            BY <4>2, <6>1, <6>2 DEF QueryStep
        <5>. QED
          BY <5>1, <2>1, <2>2, <1>2, ReadQuery
      <4>3. CASE r # q
        <5>1. query'[q] = query[q]
          BY <4>3, <3>0 DEF QueryStep, QueryAdmit, QueryRun, QueryReturn, QueryRefused, TypeOK
        <5>2. Explained(q)
          BY <5>1, <2>2 DEF MomentInv, ReadInv
        <5>. QED
          BY <5>1, <5>2, <4>1, <2>2, <1>2, ReadKept
      <4>. QED
        BY <4>2, <4>3
    <3>5. CASE RestartReconcile \/ RestartRebuilt
      <4>1. query'[q].pc # "ran"
        BY <3>5 DEF RestartReconcile, RestartRebuilt, Restarted, NoQuery
      <4>. QED
        BY <4>1, <2>2
    <3>6. CASE \E p \in Publications : DarkStep(p)
      <4>1. query' = query
        BY <3>6, DarkFrame
      <4>2. Explained(q)
        BY <4>1, <2>2 DEF MomentInv, ReadInv
      <4>. QED
        BY <4>1, <4>2, <3>6, <2>2, <1>2, ReadDark
    <3>. QED
      BY <3>0, <3>2, <3>3, <3>4, <3>5, <3>6 DEF Next
  <2>. QED
    BY <2>1, <2>2 DEF MomentInv, ReadInv
<1>. QED
  BY <1>1, <1>2

-----------------------------------------------------------------------------
(* The refinement, step by step. *)

\* A step that changes neither SQLite, nor what was acknowledged, nor a query's question
\* or answer is a stuttering step.
LEMMA MapsToStutter ==
  ASSUME Inv, MomentInv, OpenInv', HistoryNext, UNCHANGED <<canonical, acked>>,
         \A q \in Queries :
           /\ query'[q].target = query[q].target
           /\ Asking(q)' <=> Asking(q)
           /\ Answered(q)' <=> Answered(q)
           /\ Answered(q) => query'[q].seen = query[q].seen
  PROVE  UNCHANGED Acknowledged!vars
<1>1. moments' = moments
  <2>1. ASSUME NEW q \in Queries PROVE moments'[q] = moments[q]
    <3>1. CASE Asking(q)
      BY <3>1 DEF MomentInv, OpenInv, HistoryNext
    <3>2. CASE ~Asking(q)
      BY <3>2 DEF MomentInv, OpenInv, HistoryNext
    <3>. QED
      BY <3>1, <3>2
  <2>2. moments' = [q \in Queries |-> moments'[q]]
    BY DEF HistoryNext
  <2>. QED
    BY <2>1, <2>2 DEF MomentInv
<1>2. [q \in Queries |-> IF Asking(q)' \/ Answered(q)' THEN query'[q].target ELSE NoTarget]
        = [q \in Queries |-> IF Asking(q) \/ Answered(q) THEN query[q].target ELSE NoTarget]
  OBVIOUS
<1>3. [q \in Queries |-> IF Answered(q)' THEN query'[q].seen ELSE {}]
        = [q \in Queries |-> IF Answered(q) THEN query[q].seen ELSE {}]
  OBVIOUS
<1>. QED
  BY <1>1, <1>2, <1>3 DEF Acknowledged!vars

\* The commit of SQLite is the commit.
LEMMA MapsToCommit ==
  ASSUME Inv, MomentInv, HistoryNext, NEW p \in Publications, canonical' = canonical \cup {p},
         UNCHANGED <<acked, query>>
  PROVE  Acknowledged!Commit(p)
<1>1. \A q \in Queries : Acknowledged!Open(q) <=> Asking(q)
  BY DEF Acknowledged!Open, MomentInv, OpenInv
<1>2. \A q \in Queries : (Asking(q)' <=> Asking(q)) /\ (Answered(q)' <=> Answered(q))
  BY DEF Asking, Answered
<1>3. moments' = [q \in Queries |-> IF Acknowledged!Open(q) THEN moments[q] \cup {canonical'} ELSE {}]
  BY <1>1, <1>2 DEF HistoryNext
<1>. QED
  BY <1>2, <1>3 DEF Acknowledged!Commit

\* A replayed or a confirmed publication is the acknowledgement of a committed one.
LEMMA MapsToAcknowledge ==
  ASSUME Inv, MomentInv, OpenInv', HistoryNext, NEW p \in Publications, p \in canonical,
         acked' = acked \cup {p}, UNCHANGED <<canonical, query>>
  PROVE  Acknowledged!Acknowledge(p)
<1>1. \A q \in Queries : (Asking(q)' <=> Asking(q)) /\ (Answered(q)' <=> Answered(q))
  BY DEF Asking, Answered
<1>2. ASSUME NEW q \in Queries PROVE moments'[q] = moments[q]
  <2>1. CASE Asking(q)
    BY <1>1, <2>1 DEF MomentInv, OpenInv, HistoryNext
  <2>2. CASE ~Asking(q)
    BY <1>1, <2>2 DEF MomentInv, OpenInv, HistoryNext
  <2>. QED
    BY <2>1, <2>2
<1>3. moments' = [q \in Queries |-> moments'[q]]
  BY DEF HistoryNext
<1>4. moments' = moments
  BY <1>2, <1>3 DEF MomentInv
<1>. QED
  BY <1>1, <1>4 DEF Acknowledged!Acknowledge

\* A request's step commits, acknowledges or stutters.
LEMMA MapsPublication ==
  ASSUME Inv, MomentInv, OpenInv', HistoryNext, NEW p \in Publications, PublicationStep(p)
  PROVE  [Acknowledged!Next]_Acknowledged!vars
<1>1. query' = query
  BY DEF PublicationStep, Order, Enter, ReplayKnown, ReplayReconciles, Begin, BeginLost,
         BeginAt, Apply, Quarantine, LadybugCommit, LadybugCommitFails, LadybugCommitExpired,
         SqliteCommit, SqliteCommitAmbiguous, Confirm, Abandon
<1>2. CASE UNCHANGED <<canonical, acked>>
  <2>1. UNCHANGED Acknowledged!vars
    BY <1>1, <1>2, MapsToStutter DEF Asking, Answered
  <2>. QED
    BY <2>1
<1>3. CASE SqliteEffect(p) /\ acked' = acked
  BY <1>1, <1>3, MapsToCommit DEF SqliteEffect, Acknowledged!Next
<1>4. CASE p \in canonical /\ canonical' = canonical /\ acked' = acked \cup {p}
  BY <1>1, <1>4, MapsToAcknowledge DEF Acknowledged!Next
<1>5. Confirm(p) => p \in canonical
  BY DEF Confirm, Inv, BaseInv, StoreInv
<1>. QED
  BY <1>2, <1>3, <1>4, <1>5 DEF PublicationStep, Order, Enter, ReplayKnown, ReplayReconciles, Begin,
     BeginLost, BeginAt, Apply, Quarantine, LadybugCommit, LadybugCommitFails,
     LadybugCommitExpired, SqliteCommit, SqliteCommitAmbiguous, Confirm, Abandon

\* The moments of the other queries do not change when one query makes a step.
LEMMA OtherMoments ==
  ASSUME MomentInv, HistoryNext, canonical' = canonical, NEW q \in Queries,
         \A r \in Queries \ {q} : query'[r] = query[r]
  PROVE  moments' = [moments EXCEPT ![q] = IF ~Asking(q)' THEN {}
                       ELSE IF Asking(q) THEN moments[q] ELSE {canonical}]
<1>1. ASSUME NEW r \in Queries \ {q} PROVE moments'[r] = moments[r]
  <2>1. Asking(r)' <=> Asking(r)
    BY DEF Asking
  <2>2. CASE Asking(r)
    BY <2>1, <2>2 DEF MomentInv, OpenInv, HistoryNext
  <2>3. CASE ~Asking(r)
    BY <2>1, <2>3 DEF MomentInv, OpenInv, HistoryNext
  <2>. QED
    BY <2>2, <2>3
<1>2. moments'[q] = IF ~Asking(q)' THEN {} ELSE IF Asking(q) THEN moments[q] ELSE {canonical}
  <2>1. Asking(q) => canonical \in moments[q]
    BY DEF MomentInv, OpenInv
  <2>. QED
    BY <2>1 DEF HistoryNext
<1>3. moments' = [r \in Queries |-> moments'[r]]
  BY DEF HistoryNext
<1>. QED
  BY <1>1, <1>2, <1>3 DEF MomentInv

\* A query's step asks, answers with one of its moments, withdraws or stutters.
LEMMA MapsQuery ==
  ASSUME Inv, MomentInv, OpenInv', HistoryNext, NEW q \in Queries, QueryStep(q)
  PROVE  [Acknowledged!Next]_Acknowledged!vars
<1>0. TypeOK /\ query[q] \in QueryRow
  BY DEF Inv, BaseInv, TypeOK
<1>1. UNCHANGED <<canonical, acked>>
  BY DEF QueryStep, QueryAdmit, QueryRun, QueryReturn, QueryRefused
<1>2. \A r \in Queries \ {q} : query'[r] = query[r]
  BY <1>0 DEF QueryStep, QueryAdmit, QueryRun, QueryReturn, QueryRefused, TypeOK
<1>3. \A r \in Queries \ {q} : (Asking(r)' <=> Asking(r)) /\ (Answered(r)' <=> Answered(r))
  BY <1>2 DEF Asking, Answered
<1>4. moments' = [moments EXCEPT ![q] = IF ~Asking(q)' THEN {}
                    ELSE IF Asking(q) THEN moments[q] ELSE {canonical}]
  BY <1>1, <1>2, OtherMoments
<1>5. Acknowledged!Open(q) <=> Asking(q)
  BY DEF MomentInv, OpenInv, Acknowledged!Open
<1>6. ASSUME NEW t \in Targets, QueryAdmit(q, t) PROVE Acknowledged!Ask(q, t)
  <2>1. query'[q].target = t /\ query'[q].pc = "admitted" /\ ~Asking(q)
    BY <1>6, <1>0 DEF QueryAdmit, TypeOK, NoQuery, Asking
  <2>2. Asking(q)' /\ ~Answered(q)'
    BY <2>1 DEF Asking, Answered
  <2>. QED
    BY <1>1, <1>2, <1>3, <1>4, <1>5, <2>1, <2>2 DEF Acknowledged!Ask
<1>7. CASE QueryRun(q)
  <2>1. query'[q].target = query[q].target /\ Asking(q) /\ Asking(q)'
        /\ ~Answered(q) /\ ~Answered(q)'
    BY <1>7, <1>0 DEF QueryRun, TypeOK, QueryRow, Asking, Answered
  <2>2. UNCHANGED Acknowledged!vars
    BY <2>1, <1>1, <1>2, <1>3, MapsToStutter
  <2>. QED
    BY <2>2
<1>8. ASSUME Asking(q), ~Asking(q)', ~Answered(q)' PROVE Acknowledged!Withdraw({q})
  <2>1. ~Answered(q)
    BY <1>8 DEF Asking, Answered
  <2>. QED
    BY <1>1, <1>2, <1>3, <1>4, <1>5, <1>8, <2>1 DEF Acknowledged!Withdraw, MomentInv
<1>9. CASE QueryReturn(q) /\ ~query[q].inside /\ ~query[q].overtaken
  <2>1. /\ query'[q].target = query[q].target /\ query'[q].seen = query[q].seen
        /\ Asking(q) /\ ~Asking(q)' /\ ~Answered(q) /\ Answered(q)'
    BY <1>9, <1>0 DEF QueryReturn, TypeOK, QueryRow, Asking, Answered
  <2>2. Explained(q) /\ readiness[query[q].target] = "Ready"
    BY <1>9 DEF MomentInv, ReadInv, QueryReturn
  <2>3. PICK M \in moments[q] : query[q].seen = Of(query[q].target, M)
    BY <2>2 DEF Explained, AtMoment, Available
  <2>4. query[q].seen = { p \in M : TargetOf[p] = query[q].target }
    BY <2>3 DEF Of
  <2>. DEFINE asked == [r \in Queries |-> IF Asking(r) \/ Answered(r) THEN query[r].target ELSE NoTarget]
              answer == [r \in Queries |-> IF Answered(r) THEN query[r].seen ELSE {}]
  <2>5. asked' = asked
    BY <1>2, <1>3, <2>1
  <2>6. answer' = [answer EXCEPT ![q] = { p \in M : TargetOf[p] = asked[q] }]
    BY <1>2, <1>3, <2>1, <2>4
  <2>7. moments' = [moments EXCEPT ![q] = {}]
    BY <1>4, <2>1
  <2>8. Acknowledged!Answer(q)
    BY <1>1, <2>3, <2>5, <2>6, <2>7 DEF Acknowledged!Answer
  <2>. QED
    BY <2>8 DEF Acknowledged!Next
<1>10. CASE QueryReturn(q) /\ (query[q].inside \/ query[q].overtaken)
  <2>1. Asking(q) /\ ~Asking(q)' /\ ~Answered(q)'
    BY <1>10, <1>0 DEF QueryReturn, TypeOK, QueryRow, Asking, Answered
  <2>. QED
    BY <2>1, <1>8 DEF Acknowledged!Next
<1>11. CASE QueryRefused(q)
  <2>1. Asking(q) /\ ~Asking(q)' /\ ~Answered(q)'
    BY <1>11, <1>0 DEF QueryRefused, TypeOK, NoQuery, Asking, Answered
  <2>. QED
    BY <2>1, <1>8 DEF Acknowledged!Next
<1>. QED
  BY <1>6, <1>7, <1>9, <1>10, <1>11 DEF QueryStep, Acknowledged!Next

\* A restart withdraws the open questions.
LEMMA MapsRestart ==
  ASSUME Inv, MomentInv, HistoryNext, Restarted
  PROVE  [Acknowledged!Next]_Acknowledged!vars
<1>. PICK Q \in SUBSET Queries : \A q \in Queries : q \in Q <=> Asking(q)
  <2>1. \A q \in Queries : q \in {r \in Queries : Asking(r)} <=> Asking(q)
    OBVIOUS
  <2>. QED
    BY <2>1
<1>1. UNCHANGED <<canonical, acked>>
  BY DEF Restarted
<1>2. \A q \in Queries : IF Asking(q) THEN ~Asking(q)' /\ ~Answered(q)' /\ ~Answered(q)
                         ELSE /\ ~Asking(q)' /\ (Answered(q)' <=> Answered(q))
                              /\ query'[q].target = query[q].target
                              /\ Answered(q) => query'[q].seen = query[q].seen
  BY DEF Restarted, Asking, Answered, NoQuery
<1>3. \A q \in Queries : Acknowledged!Open(q) <=> Asking(q)
  BY DEF MomentInv, OpenInv, Acknowledged!Open
<1>4. moments' = [q \in Queries |-> IF q \in Q THEN {} ELSE moments[q]]
  BY <1>2 DEF HistoryNext, MomentInv, OpenInv
<1>5. Acknowledged!Withdraw(Q)
  BY <1>1, <1>2, <1>3, <1>4 DEF Acknowledged!Withdraw
<1>. QED
  BY <1>5 DEF Acknowledged!Next

\* Every step of the protocol with its history is a step of the abstract search.
LEMMA MapsStep ==
  ASSUME Inv, Inv', MomentInv, MomentInv', [HistoryNext]_<<vars, moments>>, DarkAlone
  PROVE  [Acknowledged!Next]_Acknowledged!vars
<1>1. CASE UNCHANGED <<vars, moments>>
  <2>1. UNCHANGED Acknowledged!vars
    BY <1>1 DEF Acknowledged!vars, Asking, Answered
  <2>. QED
    BY <2>1
<1>2. CASE HistoryNext
  <2>0. OpenInv' /\ Next
    BY <1>2 DEF MomentInv, HistoryNext
  <2>1. CASE RunJob \/ RebuildStep
    <3>1. UNCHANGED <<canonical, acked>>
      BY <2>1 DEF RunJob, RebuildStep, RebuildSnapshot, RebuildLock, RebuildInstall,
         RebuildInstallFails, RebuildOpenFails, RebuildFails
    <3>2. \A q \in Queries :
            /\ query'[q].pc = query[q].pc /\ query'[q].target = query[q].target
            /\ query'[q].seen = query[q].seen /\ query'[q].inside = query[q].inside
            /\ query[q].pc # "ran" => (query'[q].overtaken <=> query[q].overtaken)
      BY <2>1, RebuildRows DEF RunJob, Inv, BaseInv
    <3>3. UNCHANGED Acknowledged!vars
      BY <3>1, <3>2, <2>0, <1>2, MapsToStutter DEF Asking, Answered
    <3>. QED
      BY <3>3
  <2>2. CASE RestartReconcile \/ RestartRebuilt
    BY <2>2, <1>2, MapsRestart DEF RestartReconcile, RestartRebuilt
  <2>3. CASE \E p \in Publications : PublicationStep(p)
    BY <2>3, <2>0, <1>2, MapsPublication
  <2>4. CASE \E q \in Queries : QueryStep(q)
    BY <2>4, <2>0, <1>2, MapsQuery
  <2>5. CASE \E p \in Publications : DarkStep(p)
    <3>1. UNCHANGED <<canonical, acked, query>>
      BY <2>5, DarkFrame
    <3>2. UNCHANGED Acknowledged!vars
      BY <3>1, <2>0, <1>2, MapsToStutter DEF Asking, Answered
    <3>. QED
      BY <3>2
  <2>. QED
    BY <2>0, <2>1, <2>2, <2>3, <2>4, <2>5 DEF Next
<1>. QED
  BY <1>1, <1>2

\* Search implements AcknowledgedSearch: when nobody else publishes to the target of a dark
\* completion, a query that is answered between transactions saw exactly what SQLite held
\* for its target at one moment between its question and its answer, and everything
\* acknowledged was committed before.
THEOREM Implements ==
  ASSUME DarkAlone
  PROVE  HistorySpec => ImplementsAcknowledgedSearch
<1>1. HistoryInit => Acknowledged!Init
  <2>. SUFFICES ASSUME HistoryInit PROVE Acknowledged!Init
    OBVIOUS
  <2>1. \A q \in Queries : ~Asking(q) /\ ~Answered(q)
    BY DEF HistoryInit, Init, NoQuery, Asking, Answered
  <2>. QED
    BY <2>1 DEF HistoryInit, Init, Acknowledged!Init
<1>2. HistoryInit => Init
  BY DEF HistoryInit
<1>3. [HistoryNext]_<<vars, moments>> => [Next]_vars
  BY DEF HistoryNext
<1>4. Spec => []Inv
  BY Invariant
<1>5. HistorySpec => Spec
  BY <1>2, <1>3, PTL DEF HistorySpec, Spec
<1>6. Inv /\ Inv' /\ MomentInv /\ [HistoryNext]_<<vars, moments>> => MomentInv'
  BY MomentStep
<1>7. HistorySpec => []MomentInv
  BY <1>4, <1>5, <1>6, MomentInit, PTL DEF HistorySpec
<1>8. Inv /\ Inv' /\ MomentInv /\ MomentInv' /\ [HistoryNext]_<<vars, moments>>
        => [Acknowledged!Next]_Acknowledged!vars
  BY MapsStep
<1>. QED
  BY <1>1, <1>4, <1>5, <1>7, <1>8, PTL
  DEF HistorySpec, ImplementsAcknowledgedSearch, Acknowledged!Spec
=============================================================================
