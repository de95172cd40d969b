# Formal models of Relayer GraphComplete

TLA+ models, TLC configurations and TLAPS proofs for the parts of the repository that
hold shared or durable state under concurrency: the completion current of
`relayer-graph-core` / `relayer-graph-server`, the protocol that keeps the Ladybug search
store in step with SQLite, approvals and provider access in the harness host with the
product around them, and the way a parent agent observes its children. Paths below are
relative to `src/`.

## 1. Inventory

| Component | State | Operations | Interacts through |
| --- | --- | --- | --- |
| Completion current (`crates/relayer-graph-core/src/graph/completion/*`, `storage/sqlite/currents.rs`) | `completion_states`, `current_revisions`, `completion_authorities`, `graph_projection_outbox` | initialize, activate, cutover, transition (Advance, Return, Stop, Fail), flat submit | one SQLite write transaction per operation; receipts by operation key; outbox read by projections |
| Graph writer and layers (`graph/writer.rs`, `storage/sqlite/layers.rs`, `actions.rs`) | layers, actions, snapshots, leases | submit / discard layer, add action, set root, resolve leased invoke | authority epoch; `CompletionPlan` reads what it wrote |
| Attached navigation (`graph/attached_navigation.rs`) | draft additions to accepted nodes, pending presentations | add, stage, publish, discard | published by Return, dropped by Stop and Fail |
| Graph server (`crates/relayer-graph-server/src/lib.rs`) | sessions (token, epoch), a gate per completion, feature flags | HTTP handlers, mint, revoke, restart | calls the core under the gate |
| Search publication (`graph/completion.rs`, `graph/database.rs`) | order lock per target, publication barrier, `search_index_targets` | index, commit, replay | `SearchIndex` trait |
| Ladybug store (`search_index.rs`, `search_index/*.rs`) | generation directory and pointer, readiness, pending publications, epoch, one worker thread with one connection | begin, apply, commit, rollback, query, reconcile, rebuild | job channel, `operations` RwLock |
| Live answers, invocations, instruction graph, import (`graph/*.rs`) | answers, child completions, instruction versions, imported conversations | see the plan | same SQLite database, and the search protocol |
| App server (`crates/relayer-app-server`) | attempts, executions, action invocations, approvals, paused runs, drafts, catalog | HTTP API, recovery at start | calls the graph server with control tokens |
| Approval coordinator (`packages/harness-host/src/approval-coordinator.ts`) | per session: active completions, pending requests, tombstones, grants, one event stream per interaction | begin / end completion, request, decide, snapshot, close | providers await it; the app server polls and answers over HTTP |
| Approval records (`crates/relayer-app-server`: `product/execution.rs`, `api/threads.rs`, `storage/sqlite/approvals.rs`) | requests, resolutions, retained decisions, the interaction's status | observer of a run, decision route | polls the coordinator's streams |
| Execution access (`packages/harness-host/src/host.ts`) | `pendingExecutionAccess`, runs, timers | admit, claim, settle, release, acknowledge, cancel, force-stop, close | provider leases of the desktop; its owner is the app server |
| Provider definitions (`desktop/main/providers/provider-definition-service.mjs`) | lifecycle of each provider, lease counts | acquire, release, acknowledge, remove, reconcile at start | the app server's store refuses a tombstone while an attempt runs |
| Lease debts (`crates/relayer-app-server/src/app_server.rs`, `storage/sqlite/attempts.rs`) | attempt rows | record, end, reconcile | release calls to the host, repeated until answered |
| Completion broker (`completion_broker.rs`, `api/threads.rs`) | a channel per supervised child, an observer task with a cursor | publish, hold, settle, forget | reads the outbox, wakes held requests |
| `complete()` (`src/complete.ts`) | open requests, revisions reported, children that ended | result, next, changes | HTTP to the broker |
| Desktop (`desktop/main`) | installed runtimes, share attempts, account | install, publish, sign in | app server child process, files |

`PROJECT.json` lists every component, also those with no state worth a model.

**What is hard.** Retries and delayed requests across broker generations; two-transaction
handlers; completions that extend each other's accepted graph; two stores without a common
commit; requests dropped while the worker still runs their jobs; restarts between any two of
these; a rebuild that swaps the store under live traffic; polls, decisions and ends of a
completion in any order over HTTP that loses answers; a lease that its turn, its owner, a timer
and the shutdown all want to release; a held request racing the observer that should wake it. `PROJECT.json` lists each hazard
with its line and the property aimed at it.

**What makes each part correct.**

* Current: one linear history per completion, each operation at most once, brokers in the
  order of their generations, a terminal completion frozen, everything that was ever current
  still reachable, acceptance closed and acyclic, the outbox complete.
* Search: a ready target is equal to SQLite, a quarantine covers exactly the pending
  publication, queries see all that was acknowledged and nothing that may be rolled back, the
  connection's transaction always has an owner, a rebuild ends. In one sentence: a query is
  answered with what was committed at one moment between question and answer.
* Approvals: every request ends with its completion, only what a user reviewed is approved, the
  product records what the provider saw, bounded streams never tell a reader another history.
* Provider access: a turn keeps its providers, a lease pays for one turn and is always released,
  a removal finishes.
* Observation: every outbox event reaches its channel once, a watch only moves forward, a
  parent learns of every end.

## 2. Modules

| Module | Models |
| --- | --- |
| `TemporalCurrent` | tables of completions, layers and actions, and every operation that writes them |
| `CompletionLog` | the abstract promise: an append-only log per completion, announced on a feed, that publishes layers |
| `MCTemporalCurrent` | small instances (owners, leases, candidate links) |
| `TemporalCurrentProofs` | type correctness and the history properties |
| `CompletionGraphProofs` | lemmas about closures; the acceptance, output and presentation properties; the tables implement `CompletionLog` |
| `SearchPublication` | the two-store publication protocol, worker, queries, restart, rebuild |
| `AcknowledgedSearch` | the abstract promise: one set of committed publications, queries answered with it as of one moment |
| `SearchRefinement` | history of `SearchPublication` and the mapping to `AcknowledgedSearch` |
| `MCSearchPublication`, `MCSearchRefinement` | small instances (one target, two targets) |
| `SearchPublicationProofs` | inductive invariants of the protocol, six theorems; the protocol implements `AcknowledgedSearch` |
| `ApprovalCoordinator` | the approvals of one harness session |
| `ApprovalObservation` | the coordinator composed with the product's observers and decision route |
| `MCApprovals` | small instances of both |
| `Selections` | selecting from a sequence in order (`Array.prototype.filter`, `WHERE ... ORDER BY`) |
| `SelectionProofs` | what a selection is, by induction; used by the next and by `ChildObservationProofs` |
| `ApprovalProofs` | the coordinator's invariants, and the composition's |
| `ExecutionLeases` | provider access in the harness host, between two awaits at a time |
| `ProviderRemoval` | the leases composed with the provider service, the owner's debts and a restart |
| `ProviderRemovalProofs` | the inductive invariant of leases, counts and runs |
| `MCHarnessHost` | one instance of the two parts of the harness host |
| `HarnessHostProofs` | the host keeps the promises of both parts |
| `ChildObservation` | outbox, observers, channels, held requests, and the parent's client |
| `MCChildObservation` | a parent and two children |
| `ChildObservationProofs` | the feed and the watch, for every number of children and page limit |

### TemporalCurrent

*State.* `state`, `revs`, `outbox`, `epoch` are the four completion tables (revision *r* of a
completion is `revs[c][r+1]`; `author` records the epoch that wrote it, 0 for control, and is
history only). `layerState`, `links`, `shown`, `attached`, `root` are layers and navigate
actions. `output`, `resolution`, `presentation`, `staged` are what a Return writes;
`replaced` is history. `config`, `issued`, `submit` are process memory, lost by
`ServerRestart`.

*Actions.* One per operation. Each is atomic because the code runs it in one
`BEGIN IMMEDIATE` transaction. Three things are not atomic and are modelled as steps: the
session's epoch is read before the gate (`Authorized(c, e)` takes any epoch ever issued by the
process and compares it with the stored one), the flat submit is `SubmitRead` then
`SubmitReturn` or `SubmitDropped`, and a restart comes between any two steps. `ReturnEffect`
contains everything `transition` does for a Return: plan, accessibility, acceptance, attached
additions, leased invoke, presentation, output, revision, head, projection.

*Abstractions.* A navigate action is a link between layers; nodes, edges, layouts, artifacts,
icons and their validation are left out. An attached addition is given by the accepted layer
its node occurs in. The shared node presentation is one node with a revision number. Only the
typed lease of an interaction is modelled, not the parent contract of durable invocations.
Refused and replayed requests change nothing and are stuttering. A mint whose asset activation
fails after the epoch moved leaves the same tables as `CutoverAuthority`. A search failure
aborts the transition's transaction (stuttering here, steps in `SearchPublication`).

### CompletionLog

`CompletionLog` has no drafts, links, flags, gates, sessions or restarts. `Start` opens a log,
`Advance` and `Return` append an entry and publish layers of the completion, `End` appends a
terminal entry; each announces its revision on the feed in the same step. A log ends with its
first terminal entry, uses an operation key once, and takes entries of brokers in the order of
their generations. `TemporalCurrent` maps `revs` to the log, `outbox` to the feed and the
accepted layers to what is published (`ImplementsCompletionLog`): so a layer becomes readable only
by the step that commits a revision of its owner, and the current of a revision is readable when
the revision is.

### SearchPublication

*State.* `canonical`, `canonicalRev` are SQLite; `store`, `storeRev` the open Ladybug
generation; `pointer` the generation on disk when it is not the open one; `readiness`,
`pending`, `rebuild` the runtime; `txn` and `jobs` the connection and its queue; `pc`, `query`,
`dark` the requests; `acked` is history. Locks are read off program counters: the order lock is
held from `ordered` to `idle`, the barrier from `writing` to `confirming`, SQLite's write lock
from `writing` to `committed`, the `operations` read lock by a write from BEGIN to its COMMIT
and by a query while its job runs. `execute_prepared` drops the lock before its last readiness
check (`search_index.rs:490`), so between `QueryRun` and `QueryReturn` the rebuild of another
target may install its store; `overtaken` marks a query to which that happened while its own
target was quarantined.

*Actions.* `Order`, `Enter`, `ReplayKnown`, `ReplayReconciles`, `Begin`, `Apply`, `Quarantine`,
`LadybugCommit`, `SqliteCommit`, `Confirm` are the steps of `transition` for Advance and
Return. `BeginLost`, `LadybugCommitFails`, `LadybugCommitExpired`, `SqliteCommitAmbiguous`,
`Abandon` and `RunJob` are its failures. A replay whose revisions differ, and a BEGIN that fails
because a transaction is open, end the request as in `Abandon`. `Dark*` is the replay in
`complete()` for a terminal completion without `root_current_write`. `Query*` is
`execute_prepared`; its job runs on the shared connection and so reads an open transaction.
`RestartReconcile` and `RestartRebuilt` are `open_reconciled`; `Rebuild*` is
`background_rebuild`.

*Abstractions.* A publication is one identity digest; it is visible to one target. `Enter`
merges the readiness wait, the barrier and `BEGIN IMMEDIATE`. Start-up that fails is a further
restart. Import finalisation and removal are not modelled. `Disconnecting` limits which
clients may vanish exactly between the worker's answer and its delivery.

### AcknowledgedSearch and SearchRefinement

`AcknowledgedSearch` has no stores, locks or restarts. `Commit` and `Acknowledge` grow two sets;
`Ask` opens a question; `Answer` gives the committed set of the question's target as it was at
some moment since; `Withdraw` forgets questions. `SearchRefinement` maps SQLite's content to
`committed`, answered requests to `acknowledged` and each query to its question. Whether a
publication that a query read is committed by the time it is answered is only known then, so a
history variable keeps the committed sets since the question. A query whose job ran inside
another request's transaction, or that was overtaken by a rebuild, is mapped to a withdrawn one:
see section 4.

### ApprovalCoordinator and ApprovalObservation

*State.* The fields of `HarnessApprovalCoordinator`: `active`, `pending`, `terminal`, `grants`,
`streams` (a sequence number is a position), `order` (insertion order, which decides what is
evicted), `stale` (older than the grace period). `promise` is what the awaiting provider sees,
`authority` the request whose decision approved this one, `decided` is history. The
observation adds `observer` (its step, cursor and call, what of its last snapshot is still to
persist and where it goes then), the completions that `returned` or whose answer was `cut` while
their turn ran on, the tables `rec`, `row` and `stopping`, the retained `decision`, the decision
`route`, calls given up on that may still arrive (`late`) and `faults`.

*Actions.* One per method of the coordinator; `Request` contains the grant match, the bound
checks, eviction of abandoned streams and both early ends. In the composition an observer's
work is cut where the code awaits: `Poll` takes a snapshot, which may drop the stream, and then
`PersistRequest` and `PersistResolution` record its events one by one, each with the checks of
its transaction and its effect on the interaction's row, stop requests included. For an answer
of the user, `ReadApproval` (`get_approval`) and `CheckDecision` (the look-up in
`approval_decisions`) are two steps, because the decision route can record its answer and drop
its decision in between. `FailRun` is every refusal: the completion is cancelled, which may be
lost, and the run ends. `FinalPoll` and `AckPoll` reconcile a completion that returned or whose
call failed (`AnswerCut`); `Settle` closes the run: it aborts the requests left open and settles
the row. `Stop` records a stop request, `Cancel` is its effect in the host. `SubmitDecision`,
`HostDecides`, `LateDecision`, `LostAnswer`, `HostRefused` and `RecordAnswer` are the decision
route.

*Abstractions.* A request is its call and its scope keys; rationale and display text are left
out. The grace period elapses at any time for a stream its observer has read (an observer polls
every 100 ms). An event's checks, its record and the removal of its decision are one step, as are
the route's read of the approval and its reservation. A row that awaits reconciliation is not told
from one that failed. A stop request left from an earlier attempt is a `Stop` right after the
start; stop requests share the bound of the lost calls. The model starts with a live session, so
`approvalSession` always finds one and the branches for a 404 before the first snapshot
(`execution.rs:577`, `:636`), which skip the reconciliation of a session that never existed, have
nothing to do. Runs are root runs: the observers of agent children and paused runs are not
modelled.

### ExecutionLeases and ProviderRemoval

*State.* `access[l]` is the `pendingExecutionAccess` entry: its state, whether it is still
known, `releaseRequested`, `ownerReleased`, its timer, the provider leases not yet released,
and who awaits the release or is acknowledging. `run`, `native` are deliveries and their
turns. Around them: `lifecycle` and `leased` of the provider service, `attempt` of the store.

*Actions.* Each is the code between two awaits: a release and an acknowledgement call one
provider per step, in the code's order, and may fail at each. `Deliver` joins a run that goes
on; `Claim` and `PrepareFails` are the two ends of the preparation; `ForceStop` and `GiveUp`
the timers of a cancelled turn; `SettleAccess` the `finally`. `CloseHost` and `CloseReleases`
are the two halves of `close`. `ReleaseDebt` and `ReleaseUnknown` are the owner's call for a
known and for a forgotten lease, whose answer may be lost. `Restart` loses all memory and runs
`reconcileStartup`.

*Abstractions.* Identity checks of a claim (thread, model, policy) hold for the deliveries
modelled. Sign-in and readiness refuse an acquisition as any other reason does
(`AcquireRefused`). A tombstone whose cleanup fails is remembered in `faulted`.

### ChildObservation

*State.* `current` and `outbox` are the graph; `observer` the task of each child (cursor,
consecutive failures); `channel` its watch channel; `request` the open request of `next()` or
of the result; `watch` the maps of `watchCompletions`; `delivered` is history.

*Actions.* `ChildMoves` commits a revision and its outbox record. `ObserverReads` is one page
and its publications, `ObserverFails` a failed read that may end the child, `ObserverSettles`
the product's side of an end, with the channel. `ServerReads`, `ServerHolds`, `HoldWakes`,
`HoldEnds`, `HoldElapses` are `completion_result` and `hold`, with the read, the subscription
and the wait apart. `CollectAsks` and `CollectReports` are `changes()`.

*Abstractions.* Stopped and failed children are one case. Launches are answered in the initial
state, accepted or refused. Children have `projection_ui`. The renderer's and the evaluation
tool's readers of the same outbox are not modelled.

## 3. Runs

| Run | Bounds | Result |
| --- | --- | --- |
| `current_layers` | 1 completion, 3 layers, 5 candidate links, head <= 3, 1 broker, flag on | pass, 403,358 states |
| `current_authority` | 1 contracted completion, 2 layers, 3 epochs, head <= 3, flag on/off | pass, 18,832 states |
| `current_shared` | 2 completions, a lease and a required link between them, head <= 2 | pass, 488,815 states |
| `search_target` | 3 publications on 2 targets, two of them on one; 1 query, revision <= 2, 1 restart, symmetry, with history | pass, 1,566,772 states |
| `search_rebuild` | 2 targets, 1 publication each, one of them dark, revision <= 2, 2 restarts, fair rebuild | pass, 81,834 states |
| `approval_observed` | 1 interaction, 2 attempts with 1 request each, 4 events per stream, 1 fault or stop, symmetry | pass, 1,544,289 states |
| `harness_host` | 2 interactions, 4 calls and requests, 3 events per stream and 4 per session; 1 lease of 2 providers, 2 deliveries, 1 fault, 1 restart | pass, 326,545 states |
| `child_observation` | 2 children, pages of 1 event, 1 publication or failed call | pass, 260,862 states |
| `search_dark_replay` | 2 publications on 1 target, one of them dark, revision <= 4, 2 restarts | violation: finding 1 |
| `search_lost_begin` | 2 publications on 1 target, revision <= 4, 2 restarts | violation: finding 2 |
| `approval_dropped_stream` | as `approval_observed` | violation: finding 3 |
| `approval_leaked_call` | as `approval_observed` | violation: finding 4 |

*What they show.* The `current_*` runs: one linear history, no operation twice, brokers in
order, everything once current still reachable, acceptance closed and acyclic, nothing lost
between two completions. `current_authority` checks that the tables implement `CompletionLog`:
retries, three broker generations, restarts and the flat submit's two transactions commit nothing
twice, out of order or half (`ImplementsCompletionLog`). `search_target`:
`ImplementsAcknowledgedSearch` and the facts a retry relies on, also while another target's
rebuild replaces the store under running queries. `search_rebuild`: a rebuild never swaps in a generation that missed a publication
(`ReadyIsReconciled`), and ends. `approval_observed`: the product records what the provider
saw (`RecordedAsApplied`); an observer misses the authority of a user's answer only when that
answer was recorded since it read the approval (`RefusedOnlyIfRecorded`); whatever refuses a
snapshot half-way, the interaction's row waits only for an open request that a live run will
close (`NoUnanswerableWait`); and a run that succeeds recorded everything (`DoneSawEverything`).
`harness_host`:
no approval outlives its completion, backlogs stay bounded, nothing unreviewed is approved and
a stream tells one history; a running turn keeps its providers, a lease pays for one turn and is
never stranded, and a removal finishes. `child_observation`: `FeedExact`, `ChangesMoveForward`, `EndIsObserved`.

*Why the bounds are enough to be interesting.* Three layers allow an Advance over an Advance, a
cycle, a back reference and an orphan at once. Three epochs allow an old request, its successor
and a revoke. Two publications on one target are what contends for a quarantine, and give three
moments, so an answer that mixes two of them is visible; the third is on another target, which a
restart finds damaged after a failed COMMIT, so that a rebuild runs beside them; two revisions let each
contender commit once or one be retried. The contenders are interchangeable (same target, same
failures), so `search_target` is reduced by their symmetry; it checks safety only. In the
violation runs four revisions let each publication be attempted twice around a restart.
In `search_rebuild` the rebuild of one target races a publication of the other; two revisions
let each publication fail once and be retried. Two attempts on one interaction are what leaves
a stream behind; in `approval_observed` a grant of either request covers the other, so the
attempts, each with its request, are interchangeable and the run is reduced by that symmetry, too
(other scopes are in `harness_host`); there a stream of three events has room for one request and
the end it owes, so the next request meets the bound; one tombstone and one grant make every eviction happen. One lease
with two providers lets a release fail half-way; two deliveries, a root's and a child's, one
with a force-stop and one without, let the second come before, during and after the first. A
page of one event truncates whenever two events wait; in `child_observation` publications and
failures share one bound (`MaxExtras`), so each kind occurs, though not two at once. All
counters have named bounds (`MaxEpoch`, `MaxHead`, `MaxRevision`, `MaxRestarts`, `MaxFaults`,
`MaxLeaseFaults`, `MaxBoots`, `MaxExtras`). Deadlock is checked for the current and for search;
a session whose requests have ended, a released lease and a parent whose children have ended
may stop.

*One run for the harness host.* Approvals and execution access share no variable and no
constant, so `MCHarnessHost` lets each behaviour be one of either part: `part` never changes.
Their product would add no behaviour a property could see. In an approvals behaviour no step
under fairness is enabled, so its fairness assumes nothing there.

*Fairness.* `search_rebuild`: weak fairness of `RebuildStep`. `background_rebuild` is a spawned
task whose every wait is bounded by one deadline, after which it calls `finish_rebuild`; it is
not cancelled with a request. Restarts and publications are bounded, so a rebuild is not
restarted for ever; in the code the deadline gives the same.
`harness_host`: timers fire, provider calls return, a run reaches its next await, a cancelled
turn is force-stopped after two minutes and given up on ten seconds later, a turn whose harness
has no force-stop settles by itself, an attempt ends, the debt reconciler repeats its call
(`reconcile_execution_lease_debt` loops until no debt is left), and a desktop that was closed is
started again. Nothing makes a user remove a provider or a delivery arrive.
`child_observation`: the observer's task and a request's handler go on, a refused launch is
reported, and the parent calls `changes()` again. Nothing makes a child end, and no hold on an
open channel is assumed to end by its deadline, so `EndIsObserved` shows that the observer
always wakes it. No other run assumes fairness: a client may stop at any point.

## 4. Findings

1. **Dark replay lifts another publication's quarantine.** `complete()`
   (`graph/completion.rs:341`) replays under a read transaction, without the order lock. While
   another publication is quarantined and its COMMIT is still to come, the revisions are equal,
   so the replay confirms the target; the commit then becomes queryable before SQLite has it.
2. **Lost BEGIN leaks the transaction.** The undo of `run_undoable_until` depends on the send,
   not on the receipt (`search_index/store.rs:623`).
3. **A poll drops the stream its run still needs.** `snapshot` drops an acknowledged stream as
   soon as the interaction is idle, which `endCompletion` makes it before the completion has
   returned (`approval-coordinator.ts:318`, `host.ts:954`). The final poll then finds a stream
   shorter than its cursor and a successful run fails.
4. **A new attempt's observer reads the old attempt's events.** `beginCompletion` resets the
   stream, but the observer polls before it (`approval-coordinator.ts:178`), takes the old call
   for its own and refuses its own events later. It happens only to an interaction that is
   attempted again (`NoLeakWithoutRetry`).

Four more behaviours are in the models and have no run of their own; the properties say which
states they leave out because of them, and the passing runs and the theorems show that nothing
else goes wrong.

* `commit` past its deadline queues nothing and marks the write settled (`search_index.rs:960`,
  `LadybugCommitExpired`): with no disconnecting client it breaks `NoLeakedTransaction` as
  finding 2 does. A leaked transaction leaves every later publication failing at BEGIN until a
  restart or a store swap, which is why no liveness of a quarantined target is stated.
* A query job that runs between `apply` and the quarantine reads the publication's open
  transaction (`search_index.rs:452`); if it passes its last readiness check in time it returns
  rows that may be rolled back. The properties about queries therefore speak of those that ran
  between transactions (`inside` is false).
* A query can be overtaken by the rebuild of another target. It reads what only Ladybug holds of
  a quarantined target and drops its `operations` guard (`search_index.rs:490`); the rebuild then
  installs a generation built from SQLite; a replay finds equal revisions and lifts the
  quarantine; and the last check passes, although SQLite never had what the query read.
  The comment there (`search_index.rs:491`) says "Recheck after the engine work so a result
  cannot escape while canonical SQLite acknowledgement is unknown." It needs a failed SQLite
  COMMIT, a second target under rebuild and a retry, all within the query's last step: without
  `~overtaken` in `Answered`, `search_target` violates `NoUnacknowledgedRead` after 31 steps.
* An observer can refuse a legitimate answer. It reads the approval unresolved
  (`execution.rs:1513`); the decision route records the answer and, as it is durable, drops its
  decision (`threads.rs:135`, `:253`); the look-up (`execution.rs:1520`) finds none, and the run is
  cancelled and failed with "user approval resolution without a product decision in flight",
  although no call failed. The comment at `threads.rs:129` says of a kept decision that it "stays
  as the authority for the resolution event an observer records later", and the durable answer
  should serve as well. Without `rec = "open"` in `RefusedOnlyIfRecorded`, `approval_observed`
  violates it after 11 steps. As it stands the property says that this is the only way.

## 5. Proofs

The theorems hold for every value of the constants, under the assumptions named in the modules
that declare them (`CompletionAssumption`, `PublicationAssumption`, `NoTargetAssumption`,
`CoordinatorAssumption`, `LeaseAssumption`, `RemovalAssumption` and the two
`ObservationAssumption`s: types of the constants, "none" values outside their sets, the initial
key not an operation key). The runs give the constants values for which TLC evaluates them.

**TemporalCurrentProofs.** `Inv` is `TypeOK`, `HistoryConsistent`, `OneRevisionPerOperation`,
`AuthorsInOrder` and `RowInv`. `RowInv` is the strengthening: a completion without a row has no
revisions (so `initialize` starts an empty history), and no revision has an author above the
stored epoch (so a broker at the stored epoch is never older than an earlier writer).
`RecordHistory` shows that one appended revision preserves all of it; every transition reduces
to that lemma. Theorems: `TypeCorrect`, `HistoryIsConsistent`, `OperationsCommitOnce`,
`GenerationsInOrder`.

**CompletionGraphProofs.** `GraphInv` is `Inv` with `LayerInv` and `RowsInv`, proved together
because a Return's output, acceptance and leased invoke depend on one another. `Closure` is a
least fixed point, so its lemmas are proved from the sets closed under a relation and need no
induction: a closed set that holds the start holds the closure, closures are monotone and
transitive. The layer part is strengthened by: the leased layer of a present completion is
accepted, an action anyone presents comes from an accepted layer, and a current is accepted and
never taken away. Acyclicity is kept because the plan's walk allows no cycle
among the drafts it accepts, no accepted layer leads to a draft, and the links that an attached
addition or a leased invoke adds (`AddEdges`, `AddEdge`) lead to layers that do not reach back. Theorems: `CurrentsStayReachable`,
`AcceptedGraphClosed`, `AcceptedGraphAcyclic`, `OutputsAgree`, `NoDraftLeftBehind`,
`DarkStaysFlat`, `NoPresentationLost`, `SubmitsNotStale`, `RevisionsProjected`, and the action
properties `EndsAreFrozen` and `AcceptedOnlyGrows`. `TablesImplementLog` is the refinement: a
transition that is fresh and made by the broker of the stored epoch is one the log admits
(`LogAdmits`: `HistoryConsistent` gives the last entry, `RowInv` the order of authors), what it
records is one entry and one announcement (`LogExtends`), and what it accepts are drafts of its own
completion (`Walked`), among them its layer; every other step leaves revisions, outbox and accepted
layers alone. It needs one more invariant, `EpochBounded`, since an abstract author is one of the
generations up to `MaxEpoch`. With these every property of the three `current_*` runs is proved.

**SearchPublicationProofs.** `BaseInv` holds whatever completions replay: who holds which lock
(`LockInv`), which request owns the open transaction (`WriteInv`), what may be queued at the
worker (`JobInv`), and that Ladybug never lacks an acknowledged publication of an available
target (`StoreInv`). It gives `TypeCorrect` and `AcknowledgedVisible`. Under `DarkAlone` (nobody
else publishes to the target of a dark completion) `Inv` adds that a dark replay compares and
confirms the revision SQLite still holds, and that no publication under way is in SQLite yet
(`ReplayInv`), that a publication owns its target's quarantine from `Quarantine` to `Confirm` and
while its COMMIT is queued (`QuarantineInv`), the three statements about what the stores hold
(`ContentInv`), and about queries that ran between transactions and were not overtaken
(`QueryInv`): what one read stays in Ladybug until its last readiness check, although it no
longer holds the operations lock and another target's rebuild may replace the store, and it is
canonical when it has returned. An installed store holds exactly SQLite's content, which is
also what a target that is not quarantined held before. The revision of a transaction that
is open or queued is past both stores' revisions (`WriteInv`, `JobInv`): that is why its COMMIT
never makes two different contents agree on a revision. It gives `Reconciled`,
`QuarantineIsExact`, `RevisionsProveContent` and `ReadsAcknowledged`. The hypothesis is needed:
finding 1 is a counterexample with a dark completion whose target another one publishes to. With
it a replay, although it takes no lock, meets no other publication between its two commits
(`DarkConfirms`), so finding 1 needs a shared target.

**SearchPublicationProofs, the refinement.** `Implements`: under the same hypothesis, every behaviour of the
protocol is one of `AcknowledgedSearch`. `MomentInv` says of the history that a question is open
exactly while its query runs, that the present is one of its moments, and that what a query read
between transactions is `Explained`: it is what SQLite held at one of the question's moments, or
what Ladybug alone holds of a target that is quarantined or not available, which cannot be
answered before SQLite holds it too. Each step then maps to one step of the abstract
specification or to none.

**ProviderRemovalProofs.** `LeaseInvariant` (theorem `LeasesInStep`) is `RemovalTypeOK`,
`LeaseInv`, `RunInv` and `CountInv`. `LeaseInv` relates an entry of `pendingExecutionAccess` to
the providers that count its lease: they are among those it holds, the release loop has yet to
call them while one runs, and when none runs they are all of a claimed entry's providers and
none of a released one's. `RunInv`: a claimed lease is held by exactly one run, and a lease that
paid for a turn is past every state in which it could be claimed. `CountInv`: a tombstoned
provider counts no lease. A restart clears both sides at once, which is why no lease survives
it on one of them. Theorems: `RemovalTypeCorrect`, `AccessHeld`, `OneTurn`, `NothingStranded`.

**HarnessHostProofs.** A behaviour of `HostPartsSpec` moves one part and leaves the other's
variables alone (`ApprovalsAlone`, `LeasesAlone`), so `HostTypeCorrect` and
`HostKeepsBothPromises` follow from the theorems of the parts: every invariant of the
`harness_host` run is proved of the specification it runs.

**SelectionProofs.** The library's induction theorems take an operator and cannot be used;
`SetInduction` states induction for a *set* of numbers, from the least number outside it.
A recursive function is first shown to exist (`AscendingRec`), then to be the increasing sequence
of the members (`AscendingIs`), and to be the only one (`IncreasingUnique`); what `Keep` retains,
and that it repeats nothing, follows. `ChildObservation`, `ApprovalCoordinator` and
`ApprovalObservation` are written with these recursive functions so that they can be reasoned about.

**ChildObservationProofs.** `ChildInv` is the types, the cursor inside the outbox, `FeedExact`,
`ReadInv` (a request holds a current its child had, the present one or an earlier active one)
and `WatchInv` (what a watch reported is behind the child's current unless it ended, and a
request asks for what follows it). The page lemma does the work: a page is a prefix of what
follows the cursor, so what was delivered, with the page, is what lies up to the new cursor.
Theorems: `ObservationInvariant`, `FeedsAreExact`, `WatchMovesForward`.

**ApprovalProofs, the coordinator.** `CoordinatorInv` is `TypeOK`, `PendingInv` (a pending
request is kept once, under an active completion), `DecidedInv` (a decision ended its request,
only `approve_always` makes a grant) and the four properties, which need one another:
`StreamTellsTheTruth` says where a pending request's event is, and `BacklogBounded` counts on
each pending request owing one end. The count is a cardinality of `Places`, the pairs of a
stream and a position: an event appended adds one place, a pending request that ends gives up
the one reserved for it, and a dropped stream only takes places away. One lemma about `Finish`,
which ends a sequence of requests, serves end of completion, close, decision, grant and abort.
Theorems: `CoordinatorInvariant`, `CoordinatorTypeCorrect`, `NothingOrphaned`,
`BacklogWithinBounds`, `OnlyReviewedProceed`, `StreamsAreTrue`.

**ApprovalProofs, the composition.** A poll with any cursor is a snapshot of the coordinator, and
no other product step moves it but by its own actions, so `CoordinatorInv` carries over
(`CoordinatorHolds`). `ObservationInv` adds to it: events belong to calls that began
(`CallsInv`); a decision that is sent, late or made on an open request is the one the product
retains (`DecisionInv`); one observer at a time reads an interaction (`OneReader`); what an
observer still holds of a snapshot is what providers asked and saw (`TodoOf`, `Sound`); how its
cursor stands to its stream (`ObserverOf`); `NoUnanswerableWait`; and the two facts about a call's
own observer. `SeenOf`: an end it has not recorded is among the items it holds or ahead of its
cursor. `DoneOf`: when it is done there is none. How the coordinator's steps move a stream is
abstracted once (`Grown`, `Moves`): it only gets events of active calls, or it is dropped while
idle, and then whoever still reads it has read it all. That an open request has a live run
(`NoUnanswerableWait`) rests on `Settle` being the one way out of a run, and is why
`RefusedOnlyIfRecorded` needs `DecisionInv` only while the request is open.
`ReadsOwn` is a hypothesis of `SeenOf` and `DoneOf` because of finding 4. Theorems:
`CoordinatorHolds`, `ObservationInvariant`, `RecordsAreTrue`, `ResolutionsAuthorized`,
`WaitsAreAnswerable`, `DoneRunsSawEverything`.

**ApprovalProofs, how far a call can leak.** What an observer takes from a snapshot is its old call
or the call of an event of the stream it reads, and a stream has events of one interaction only. So
an observer takes at most the call of another attempt of its interaction
(`LeaksStayInInteraction`), and when no interaction is attempted twice (`OneAttempt`) there is
no leak at all (`NoLeakWithoutRetry`) and every run that is done recorded everything, with no
exception (`EveryDoneRunSawEverything`). Finding 4 thus needs a retry.

**Model-checked only.** Liveness (`RebuildSettles`, `RemovalFinishes`, `EndIsObserved`): out of
the prover's reach. The properties of the violation runs are false (section 4), `NoLeakedCall` only
where an interaction is attempted twice. Every other property of the runs is a theorem, and the
instances of the passing runs satisfy the hypotheses of the theorems about them (`DarkAlone` in
`search_target` and, with a dark completion, in `search_rebuild`).

## 6. Plan

1. Proofs: shorten what the provers now find by themselves; state `DarkAlone` target by target,
   so that a shared target costs only its own queries their guarantee; abstract specifications of
   the leases and of a child's watch.
2. Model: import finalise and remove, and publications to several targets, in
   `SearchPublication`; invocations and live answers in the graph core; paused runs, run
   capacity and recovery in the app server; share publishing and managed runtimes in the desktop.

## 7. Not modelled

Query language and execution, content validation, icons, visual assets and their hand-off
phases, telemetry, release scripts, evaluation tools, renderer: pure data or I/O, without the
shared state a model could say something about. Most of the repository's JavaScript and
TypeScript lines are of this kind (two generated icon tables alone are 100,000 of about 240,000
lines, the renderer's views, the evaluation service and the capture scripts most of the rest),
so the models cover a small share of them by size; the stateful core is in the Rust crates, the
harness host and the desktop services, and the models follow it there. The remaining stateful
parts are in the plan.
