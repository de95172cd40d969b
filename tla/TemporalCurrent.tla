--------------------------- MODULE TemporalCurrent ---------------------------
(***************************************************************************)
(* The durable current of a completion: the SQLite tables that             *)
(* relayer-graph-core keeps for every completion (completion_states,       *)
(* current_revisions, completion_authorities, graph_projection_outbox,     *)
(* layers, actions, completions) and the operations that change them.      *)
(*                                                                         *)
(* A completion authors draft layers joined by navigate actions, makes     *)
(* some of them its current (Advance), and ends once: Return publishes a   *)
(* final layer, Stop and Fail end it without one.  Every write runs in one *)
(* BEGIN IMMEDIATE transaction, so each is one atomic action here.  What   *)
(* is not atomic is modelled by its steps: a broker request holds the      *)
(* authority epoch it read before it reached the database, a flat submit   *)
(* is a read transaction followed by a write transaction, and the server   *)
(* may restart between any two steps.                                      *)
(*                                                                         *)
(* A refused request and the replay of a committed one change no table:    *)
(* they are the stuttering steps of this module.                           *)
(*                                                                         *)
(* Data abstraction.  A layer is a model value; nodes, edges, layouts and  *)
(* assets are left out, as is the validation of their content.  A navigate *)
(* action is its link <<source layer, target layer, relation>>: `links`    *)
(* holds the ones authored from a layer, `shown` the other ones a layer    *)
(* presents, and `attached` the drafts that will be presented by the       *)
(* accepted layer whose node they were added to.                           *)
(***************************************************************************)
EXTENDS Integers, Sequences, FiniteSets

CONSTANTS
  Completions,   \* interactions whose completion is author eligible
  Layers,        \* every layer that may ever be submitted
  Owner,         \* the completion that submits a layer
  NoLayer,       \* the NULL layer id
  Keys,          \* operation keys of transition requests
  LegacyKey,     \* "legacy-flat-submit-v1"
  Lease,         \* layer whose leased invoke the completion answers, or NoLayer
  Contracted,    \* completions with a sealed completion contract
  Required,      \* layers whose node must gain a link to the response
  Candidates,    \* the links an author may draft
  Flags,         \* values the operator may give root_current_write
  MaxEpoch,      \* bound on authority epochs
  MaxHead        \* bound on the head revision

Relations == {"expand", "reference"}
Link      == Layers \X Layers \X Relations

ASSUME CompletionAssumption ==
  /\ Owner \in [Layers -> Completions]
  /\ NoLayer \notin Layers
  /\ LegacyKey \in Keys /\ "initial" \notin Keys
  /\ Lease \in [Completions -> Layers \cup {NoLayer}]
  /\ Contracted \subseteq Completions
  /\ Required \in [Completions -> SUBSET Layers]
  /\ Candidates \subseteq Link
  /\ Flags \subseteq BOOLEAN
  /\ MaxEpoch \in Nat
  /\ MaxHead \in Nat

VARIABLES
  config,        \* root_current_write of the running server
  state,         \* completion_states rows
  revs,          \* current_revisions rows of each completion, revision r at r + 1
  outbox,        \* graph_projection_outbox, <<completion, revision>> in sequence
  epoch,         \* completion_authorities.authority_epoch
  issued,        \* newest epoch this server process handed to a broker, or 0
  layerState,    \* layers.state, "absent" before the first submit
  links,         \* navigate actions authored from a layer
  shown,         \* navigate actions a layer presents without having authored them
  attached,      \* each completion's draft actions on accepted nodes
  root,          \* target of each completion's root action, or NoLayer
  output,        \* completions: target of the accepted root action, or NoLayer
  resolution,    \* target written to the leased invoke, or NoLayer
  presentation,  \* revision of the shared accepted node's presentation
  staged,        \* revision a pending presentation replaces, or NotStaged
  replaced,      \* history: the revision a published presentation replaced
  submit         \* flat submit between its two transactions, or Idle

current_row == <<state, revs, outbox>>
authority   == <<epoch, issued>>
drafts      == <<layerState, links, shown, attached, root>>
results     == <<output, resolution, presentation, staged, replaced>>
vars        == <<config, current_row, authority, drafts, results, submit>>

Lifecycles == {"active", "succeeded", "stopped", "failed"}
NotStaged  == -1
Idle       == [epoch |-> 0, layer |-> NoLayer, expected |-> 0]

-----------------------------------------------------------------------------
(* Reading the layer graph. *)

\* Layers reached from R along E: the members of every set that holds R and is
\* closed under E.
Closure(R, E) ==
  { l \in Layers :
      \A S \in SUBSET Layers :
        (R \subseteq S /\ \A k \in E : k[1] \in S => k[2] \in S) => l \in S }

In(s)       == { l \in Layers : layerState[l] = s }
Accepted    == In("accepted")
Own(c)      == { l \in Layers : Owner[l] = c }
OwnDrafts(c) == Own(c) \cap In("draft")
Expands(E)  == { k \in E : k[3] = "expand" }
From(L, E)  == { k \in E : k[1] \in L }
Cyclic(E)   == \E k \in E : k[1] \in Closure({k[2]}, E)

\* layers::resolve: the navigate actions a layer presents.
Presented == links \cup shown

\* layer_reachable
Reachable(a, b) == b \in Closure({a}, Presented)

\* Mutant: the accessibility check is skipped.
KeepsAccess_Skipped(old, new) == TRUE

\* require_accessibility
KeepsAccess(old, new) == old = NoLayer \/ Reachable(new, old)

-----------------------------------------------------------------------------
(* CompletionPlan: what a publication accepts, and what it refuses. *)

\* Layers walk_layers visits from the layers of the arrivals A: only drafts are
\* walked through.
Visited(A) == Closure({ a[1] : a \in A }, From(In("draft"), links))

PlanLayers(A) == Visited(A) \cap In("draft")

\* Every (target, relation) the walk registers.
WalkArrivals(A) == A \cup { <<k[2], k[3]>> : k \in From(PlanLayers(A), links) }

\* Mutant: a discarded target is walked as if it were harmless.
WalkAllowed_Discarded(c, A, G) ==
  /\ Visited(A) \subseteq Accepted \cup Own(c)
  /\ ~Cyclic(Expands(From(PlanLayers(A), links)))

\* Mutant: validate_expand_acyclic is not called.
WalkAllowed_Cyclic(c, A, G) ==
  /\ Visited(A) \subseteq Accepted \cup OwnDrafts(c)
  /\ \A a \in WalkArrivals(A) : a[1] \in Accepted => a[2] = "reference"

\* walk_layers from the arrivals A of a completion, with the arrivals G already
\* registered; validate_expand_acyclic.
WalkAllowed(c, A, G) ==
  LET arrivals == WalkArrivals(A)
  IN /\ Visited(A) \subseteq Accepted \cup OwnDrafts(c)
     /\ \A a \in arrivals : a[1] \in Accepted => a[2] = "reference"
     /\ \A a, b \in arrivals \cup G : a[1] = b[1] => a[2] = b[2]
     /\ \A a \in arrivals : a[2] = "reference" =>
          \A k \in From({a[1]} \cap In("draft"), links) : k[3] = "reference"
     /\ ~Cyclic(Expands(From(PlanLayers(A), links)))

\* collect_attached: a reference to the response root is a backlink, not an arrival.
AttachedArrivals(c) ==
  { <<k[2], k[3]>> : k \in { k \in attached[c] : <<k[2], k[3]>> # <<root[c], "reference">> } }

\* Arrivals a Return of the root action's target walks and registers.
ReturnWalk(c) ==
  { a \in AttachedArrivals(c) \cup {<<root[c], "expand">>} : a[1] \notin Accepted }
ReturnRegistered(c) == AttachedArrivals(c) \cup {<<root[c], "expand">>}

\* Mutant: validate_no_orphan_layers is not called.
ReturnAllowed_Orphans(c) ==
  /\ root[c] # NoLayer
  /\ WalkAllowed(c, ReturnWalk(c), ReturnRegistered(c))

\* Mutant: the staged presentation's revision is not checked again.
ReturnAllowed_StalePresentation(c) ==
  /\ root[c] # NoLayer
  /\ WalkAllowed(c, ReturnWalk(c), ReturnRegistered(c))
  /\ OwnDrafts(c) \subseteq PlanLayers(ReturnWalk(c))

\* CompletionPlan::build and the accepted branch of build_return, short of the
\* test on the returned layer.
ReturnAllowed(c) ==
  /\ root[c] # NoLayer
  /\ WalkAllowed(c, ReturnWalk(c), ReturnRegistered(c))
  /\ \A s \in Required[c] : \E k \in attached[c] : k[1] = s /\ k[2] = root[c]
  /\ staged[c] \in {NotStaged, presentation}
  /\ OwnDrafts(c) \subseteq PlanLayers(ReturnWalk(c))
  /\ resolution[c] = NoLayer

\* build_return
BuildReturn(c, l) ==
  /\ ReturnAllowed(c)
  /\ root[c] = l
  /\ l \in Accepted => Owner[l] = c /\ state[c].current = l

\* build_current
BuildCurrent(c, l) ==
  /\ l \notin Accepted
  /\ WalkAllowed(c, {<<l, "expand">>}, {})
  /\ c \in Contracted => ReturnAllowed(c) /\ root[c] = l

-----------------------------------------------------------------------------
(* Guards shared by the operations. *)

Active(c) == state[c].lifecycle = "active"

\* No handler of this completion is between its transactions: every one that
\* writes holds the completion's gate.
GateFree(c) == submit[c] = Idle

\* Mutant: the epoch is not compared with the stored one.
Authorized_AnyEpoch(c, e) == e \in 1..issued[c] /\ Active(c)

\* Mutant: validate_generation in place of validate_authority.
Authorized_Terminal(c, e) == e \in 1..issued[c] /\ e = epoch[c]

\* validate_authority for a request that captured epoch e when it arrived.
Authorized(c, e) == e \in 1..issued[c] /\ e = epoch[c] /\ Active(c)

\* Mutant: only the server's flag is tested.
TemporalWriter_ServerOnly(c) == config

\* require_temporal_feature, for the server and for the completion.
TemporalWriter(c) == config /\ state[c].temporal

\* ensure_writable, for a draft write of a broker
Writable(c, e) == GateFree(c) /\ Authorized(c, e)

\* Mutant: the expected revision is not compared with the head.
Fresh_Stale(c, key, expected) ==
  /\ \A i \in 1..Len(revs[c]) : revs[c][i].key # key
  /\ Active(c) /\ expected < MaxHead

\* Mutant: no receipt is looked up.
Fresh_NoReceipt(c, key, expected) ==
  Active(c) /\ state[c].head = expected /\ expected < MaxHead

\* receipt, terminal_completion and stale_revision checks of transition
Fresh(c, key, expected) ==
  /\ \A i \in 1..Len(revs[c]) : revs[c][i].key # key
  /\ Active(c)
  /\ state[c].head = expected
  /\ expected < MaxHead

\* Mutant: the projection announces the base revision.
Record_BaseProjected(c, author, key, expected, lifecycle, layer, last) ==
  /\ revs' = [revs EXCEPT ![c] = Append(@,
       [rev |-> expected + 1, current |-> layer, lifecycle |-> lifecycle,
        key |-> key, author |-> author])]
  /\ state' = [state EXCEPT ![c] = [@ EXCEPT
       !.head = expected + 1, !.lifecycle = lifecycle,
       !.current = layer, !.final = last]]
  /\ outbox' = Append(outbox, <<c, expected>>)

\* append_revision, move_head and append_projection
Record(c, author, key, expected, lifecycle, layer, last) ==
  /\ revs' = [revs EXCEPT ![c] = Append(@,
       [rev |-> expected + 1, current |-> layer, lifecycle |-> lifecycle,
        key |-> key, author |-> author])]
  /\ state' = [state EXCEPT ![c] = [@ EXCEPT
       !.head = expected + 1, !.lifecycle = lifecycle,
       !.current = layer, !.final = last]]
  /\ outbox' = Append(outbox, <<c, expected + 1>>)

\* accept::publish
Publish(L) ==
  layerState' = [l \in Layers |-> IF l \in L THEN "accepted" ELSE layerState[l]]

-----------------------------------------------------------------------------
(* Creation and authority. *)

\* initialize: creates the row, revision 0, epoch 0 and the first projection, and
\* freezes the features of the running server.  A leased invoke is presented by
\* an accepted layer.
Initialize(c) ==
  /\ state[c].lifecycle = "absent"
  /\ Lease[c] = NoLayer \/ Lease[c] \in Accepted
  /\ state' = [state EXCEPT ![c] =
       [lifecycle |-> "active", head |-> 0, current |-> NoLayer, final |-> NoLayer,
        temporal |-> config]]
  /\ revs' = [revs EXCEPT ![c] = <<[rev |-> 0, current |-> NoLayer,
       lifecycle |-> "active", key |-> "initial", author |-> 0]>>]
  /\ outbox' = Append(outbox, <<c, 0>>)
  /\ UNCHANGED <<config, authority, drafts, results, submit>>

\* activate_authority, and the session that hands the new epoch to a broker
ActivateAuthority(c) ==
  /\ GateFree(c) /\ Active(c) /\ epoch[c] < MaxEpoch
  /\ epoch' = [epoch EXCEPT ![c] = @ + 1]
  /\ issued' = [issued EXCEPT ![c] = epoch[c] + 1]
  /\ UNCHANGED <<config, current_row, drafts, results, submit>>

\* cutover_authority: retires every broker, whatever the lifecycle
CutoverAuthority(c) ==
  /\ GateFree(c) /\ state[c].lifecycle # "absent" /\ epoch[c] < MaxEpoch
  /\ epoch' = [epoch EXCEPT ![c] = @ + 1]
  /\ UNCHANGED <<config, current_row, issued, drafts, results, submit>>

-----------------------------------------------------------------------------
(* Draft writes. *)

\* Mutant: an accepted layer can be submitted again.
SubmitLayer_Reopens(c, e, l, K) ==
  /\ Writable(c, e)
  /\ Owner[l] = c /\ layerState[l] # "stopped"
  /\ K = {}
  /\ layerState' = [layerState EXCEPT ![l] = "draft"]
  /\ UNCHANGED <<config, current_row, authority, links, shown, attached, root, results, submit>>

\* submit_layer: creates or replaces a draft.  The accepted nodes it reuses bring
\* the accepted actions K they already have.
SubmitLayer(c, e, l, K) ==
  /\ Writable(c, e)
  /\ Owner[l] = c /\ layerState[l] \in {"absent", "draft"}
  /\ K \subseteq From(Accepted, Presented)
  /\ layerState' = [layerState EXCEPT ![l] = "draft"]
  /\ shown' = From(Layers \ {l}, shown) \cup { <<l, k[2], k[3]>> : k \in K }
  /\ UNCHANGED <<config, current_row, authority, links, attached, root, results, submit>>

\* discard_layer
DiscardLayer(c, e, l) ==
  /\ Writable(c, e)
  /\ l \in OwnDrafts(c)
  /\ root[c] = NoLayer \/ l \notin Closure({root[c]}, From(OwnDrafts(c), links))
  /\ layerState' = [layerState EXCEPT ![l] = "stopped"]
  /\ UNCHANGED <<config, current_row, authority, links, shown, attached, root, results, submit>>

\* Layers this completion targets with a reference action.
ReferenceTargets(c) ==
  { k[2] : k \in { k \in From(Own(c), links) \cup attached[c] : k[3] = "reference" } }

\* add_action on a draft node: inserts an action, or retargets the draft `old`
AddAction(c, e, k, old) ==
  /\ Writable(c, e)
  /\ k \in Candidates \ links
  /\ old \subseteq From(Own(c) \ Accepted, links) /\ Cardinality(old) <= 1
  /\ k[1] \in OwnDrafts(c)
  /\ k[1] \in ReferenceTargets(c) => k[3] = "reference" \/ root[c] = k[1]
  /\ k[2] \in OwnDrafts(c) \/ (k[3] = "reference" /\ k[2] \in Accepted)
  /\ links' = (links \ old) \cup {k}
  /\ UNCHANGED <<config, current_row, authority, layerState, shown, attached, root, results, submit>>

\* add_action on an accepted node the completion may extend
AttachAction(c, e, k, old) ==
  /\ Writable(c, e)
  /\ k \in Candidates \ attached[c]
  /\ old \subseteq attached[c] /\ Cardinality(old) <= 1
  /\ k[1] \in Accepted
  /\ k[2] \in Accepted \cup OwnDrafts(c)
  /\ attached' = [attached EXCEPT ![c] = (@ \ old) \cup {k}]
  /\ UNCHANGED <<config, current_row, authority, layerState, links, shown, root, results, submit>>

\* add_action on the interaction: its single root action
SetRoot(c, e, l) ==
  /\ Writable(c, e)
  /\ l # root[c]
  /\ l \in OwnDrafts(c) \/ (l \in Own(c) \cap Accepted /\ state[c].current = l)
  /\ root' = [root EXCEPT ![c] = l]
  /\ UNCHANGED <<config, current_row, authority, layerState, links, shown, attached, results, submit>>

\* stage_node_presentation: needs a pending addition and the revision it read
StagePresentation(c, e, expected) ==
  /\ Writable(c, e)
  /\ attached[c] # {}
  /\ expected = presentation
  /\ staged' = [staged EXCEPT ![c] = expected]
  /\ UNCHANGED <<config, current_row, authority, drafts, output, resolution, presentation,
                 replaced, submit>>

-----------------------------------------------------------------------------
(* Transitions of the current. *)

\* Advance: accepts the closure of a new layer and makes it the current
Advance(c, e, key, expected, l) ==
  /\ Writable(c, e) /\ TemporalWriter(c)
  /\ Fresh(c, key, expected)
  /\ state[c].current # l
  /\ BuildCurrent(c, l)
  /\ KeepsAccess(state[c].current, l)
  /\ Publish(PlanLayers({<<l, "expand">>}))
  /\ Record(c, e, key, expected, "active", l, NoLayer)
  /\ UNCHANGED <<config, authority, links, shown, attached, root, results, submit>>

\* attached_navigation::publish refuses an addition that closes an expand cycle
\* through layers accepted by now.
AttachedAcyclic(c, L) ==
  LET E == Expands(From(Accepted \cup L, Presented) \cup attached[c])
  IN \A k \in Expands(attached[c]) : k[1] \notin Closure({k[2]}, E)

\* Mutant: the invoke is resolved without looking for a cycle.
LeaseAcyclic_Skipped(c, l, L) == TRUE

\* resolve_leased_invoke refuses an invoke that would expand into itself.
LeaseAcyclic(c, l, L) ==
  Lease[c] # NoLayer =>
    Lease[c] \notin Closure({l}, Expands(From(Accepted \cup L, Presented) \cup attached[c]))

\* Return: accepts every draft of the completion and its attached additions,
\* answers the leased invoke and records the output.
ReturnEffect(c, author, key, expected, l) ==
  LET plan == PlanLayers(ReturnWalk(c))
  IN /\ Fresh(c, key, expected)
     /\ BuildReturn(c, l)
     /\ KeepsAccess(state[c].current, l)
     /\ AttachedAcyclic(c, plan) /\ LeaseAcyclic(c, l, plan)
     /\ Publish(plan)
     /\ shown' = shown \cup attached[c] \cup
          { <<s, l, "expand">> : s \in {Lease[c]} \ {NoLayer} }
     /\ attached' = [attached EXCEPT ![c] = {}]
     /\ resolution' = [resolution EXCEPT ![c] = IF Lease[c] = NoLayer THEN NoLayer ELSE l]
     /\ presentation' = IF staged[c] = NotStaged THEN presentation ELSE presentation + 1
     /\ replaced' = [replaced EXCEPT ![c] = staged[c]]
     /\ staged' = [staged EXCEPT ![c] = NotStaged]
     /\ output' = [output EXCEPT ![c] = l]
     /\ Record(c, author, key, expected, "succeeded", l, l)
     /\ UNCHANGED <<config, authority, links, root>>

Return(c, e, key, expected, l) ==
  /\ Writable(c, e) /\ TemporalWriter(c)
  /\ ReturnEffect(c, e, key, expected, l)
  /\ UNCHANGED submit

\* Mutant: the last current is stored as the final layer.
EndEffect_Final(c, author, key, expected, lifecycle) ==
  /\ Fresh(c, key, expected)
  /\ staged' = [staged EXCEPT ![c] = NotStaged]
  /\ Record(c, author, key, expected, lifecycle, state[c].current, state[c].current)
  /\ UNCHANGED <<config, authority, drafts, output, resolution, presentation, replaced, submit>>

\* Stop and Fail keep the current and drop the pending presentation
EndEffect(c, author, key, expected, lifecycle) ==
  /\ Fresh(c, key, expected)
  /\ staged' = [staged EXCEPT ![c] = NotStaged]
  /\ Record(c, author, key, expected, lifecycle, state[c].current, NoLayer)
  /\ UNCHANGED <<config, authority, drafts, output, resolution, presentation, replaced, submit>>

BrokerStop(c, e, key, expected) ==
  /\ Writable(c, e) /\ TemporalWriter(c)
  /\ EndEffect(c, e, key, expected, "stopped")

\* Mutant: trusted control does not take the completion's gate.
ControlEnd_Ungated(c, key, expected, lifecycle) ==
  /\ TemporalWriter(c)
  /\ EndEffect(c, 0, key, expected, lifecycle)

\* Mutant: an end the lifecycle column does not know.
ControlEnd_Unknown(c, key, expected, lifecycle) ==
  /\ GateFree(c) /\ TemporalWriter(c)
  /\ EndEffect(c, 0, key, expected, "cancelled")

\* control_transition_current: no epoch, and only Stop or Fail
ControlEnd(c, key, expected, lifecycle) ==
  /\ GateFree(c) /\ TemporalWriter(c)
  /\ EndEffect(c, 0, key, expected, lifecycle)

-----------------------------------------------------------------------------
(* Flat submit: complete() reads the root action and the head in one         *)
(* transaction and returns that layer in another, holding the gate.          *)

SubmitRead(c, e) ==
  /\ Writable(c, e)
  /\ root[c] # NoLayer
  /\ submit' = [submit EXCEPT ![c] =
       [epoch |-> e, layer |-> root[c], expected |-> state[c].head]]
  /\ UNCHANGED <<config, current_row, authority, drafts, results>>

SubmitReturn(c) ==
  /\ ~GateFree(c)
  /\ Authorized(c, submit[c].epoch)
  /\ ReturnEffect(c, submit[c].epoch, LegacyKey, submit[c].expected, submit[c].layer)
  /\ submit' = [submit EXCEPT ![c] = Idle]

\* The write transaction refuses the Return, or the request is dropped.
SubmitDropped(c) ==
  /\ ~GateFree(c)
  /\ submit' = [submit EXCEPT ![c] = Idle]
  /\ UNCHANGED <<config, current_row, authority, drafts, results>>

\* The server stops and starts again: requests and sessions are lost, tables are
\* not, and the operator may have changed the feature flag.
ServerRestart(flag) ==
  /\ config' = flag
  /\ issued' = [c \in Completions |-> 0]
  /\ submit' = [c \in Completions |-> Idle]
  /\ UNCHANGED <<current_row, epoch, drafts, results>>

-----------------------------------------------------------------------------
Init ==
  /\ config \in Flags
  /\ state = [c \in Completions |->
       [lifecycle |-> "absent", head |-> 0, current |-> NoLayer, final |-> NoLayer,
        temporal |-> FALSE]]
  /\ revs = [c \in Completions |-> <<>>]
  /\ outbox = <<>>
  /\ epoch = [c \in Completions |-> 0]
  /\ issued = [c \in Completions |-> 0]
  /\ layerState = [l \in Layers |-> "absent"]
  /\ links = {}
  /\ shown = {}
  /\ attached = [c \in Completions |-> {}]
  /\ root = [c \in Completions |-> NoLayer]
  /\ output = [c \in Completions |-> NoLayer]
  /\ resolution = [c \in Completions |-> NoLayer]
  /\ presentation = 0
  /\ staged = [c \in Completions |-> NotStaged]
  /\ replaced = [c \in Completions |-> NotStaged]
  /\ submit = [c \in Completions |-> Idle]

AuthorDraft(c, e) ==
  \/ \E l \in Own(c), K \in SUBSET From(Accepted, Presented) : SubmitLayer(c, e, l, K)
  \/ \E l \in Own(c) : DiscardLayer(c, e, l)
  \/ \E l \in Own(c) : SetRoot(c, e, l)
  \/ \E k \in Candidates, old \in SUBSET links : AddAction(c, e, k, old)
  \/ \E k \in Candidates, old \in SUBSET attached[c] : AttachAction(c, e, k, old)
  \/ \E n \in 0..presentation : StagePresentation(c, e, n)

BrokerTransition(c, e) ==
  \E key \in Keys, expected \in 0..MaxHead :
    \/ \E l \in Own(c) : Advance(c, e, key, expected, l)
    \/ \E l \in Own(c) : Return(c, e, key, expected, l)
    \/ BrokerStop(c, e, key, expected)

Next ==
  \/ \E c \in Completions :
       \/ Initialize(c) \/ ActivateAuthority(c) \/ CutoverAuthority(c)
       \/ \E e \in 1..MaxEpoch : AuthorDraft(c, e) \/ BrokerTransition(c, e) \/ SubmitRead(c, e)
       \/ \E key \in Keys, expected \in 0..MaxHead, lifecycle \in {"stopped", "failed"} :
            ControlEnd(c, key, expected, lifecycle)
       \/ SubmitReturn(c)
       \/ SubmitDropped(c)
  \/ \E flag \in Flags : ServerRestart(flag)

Spec == Init /\ [][Next]_vars

-----------------------------------------------------------------------------
(* Properties. *)

Present(c) == state[c].lifecycle # "absent"

StateRow == [lifecycle : Lifecycles \cup {"absent"}, head : Nat,
             current : Layers \cup {NoLayer}, final : Layers \cup {NoLayer},
             temporal : BOOLEAN]

RevisionRow == [rev : Nat, current : Layers \cup {NoLayer}, lifecycle : Lifecycles,
                key : Keys \cup {"initial"}, author : Nat]

\* Type invariant: the columns hold what the migrations' CHECKs allow.
TypeOK ==
  /\ config \in BOOLEAN
  /\ state \in [Completions -> StateRow]
  /\ revs \in [Completions -> Seq(RevisionRow)]
  /\ outbox \in Seq(Completions \X Nat)
  /\ epoch \in [Completions -> Nat]
  /\ issued \in [Completions -> Nat]
  /\ layerState \in [Layers -> {"absent", "draft", "accepted", "stopped"}]
  /\ links \subseteq Link
  /\ shown \subseteq Link
  /\ attached \in [Completions -> SUBSET Link]
  /\ root \in [Completions -> Layers \cup {NoLayer}]
  /\ output \in [Completions -> Layers \cup {NoLayer}]
  /\ resolution \in [Completions -> Layers \cup {NoLayer}]
  /\ presentation \in Nat
  /\ staged \in [Completions -> Nat \cup {NotStaged}]
  /\ replaced \in [Completions -> Nat \cup {NotStaged}]
  /\ submit \in [Completions -> [epoch : Nat, layer : Layers \cup {NoLayer}, expected : Nat]]

\* The completion_states row is the last current_revisions row: revisions are
\* numbered without a gap, only the last may be terminal, and the head, current
\* and lifecycle columns agree with it.
HistoryConsistent ==
  \A c \in Completions : Present(c) =>
    /\ Len(revs[c]) = state[c].head + 1
    /\ \A i \in 1..Len(revs[c]) :
         /\ revs[c][i].rev = i - 1
         /\ i < Len(revs[c]) => revs[c][i].lifecycle = "active"
    /\ revs[c][Len(revs[c])].current = state[c].current
    /\ revs[c][Len(revs[c])].lifecycle = state[c].lifecycle

\* A transition retried under its operation key, by the same broker, by a later
\* one or by trusted control, is committed at most once.
OneRevisionPerOperation ==
  \A c \in Completions : \A i, j \in 1..Len(revs[c]) :
    revs[c][i].key = revs[c][j].key => i = j

\* The projection outbox holds each completion's revisions once each, in order: a
\* reader of the outbox misses none and sees none early.
EveryRevisionProjected ==
  /\ \A c \in Completions : \A r \in 0..(Len(revs[c]) - 1) :
       \E p \in 1..Len(outbox) : outbox[p] = <<c, r>>
  /\ \A p \in 1..Len(outbox) : outbox[p][2] < Len(revs[outbox[p][1]])
  /\ \A p, q \in 1..Len(outbox) :
       (p < q /\ outbox[p][1] = outbox[q][1]) => outbox[p][2] < outbox[q][2]

\* Every layer that was ever the current of a completion can still be navigated
\* to from its present current, whatever was published in between.
EverCurrentReachable ==
  \A c \in Completions : \A i \in 1..Len(revs[c]) :
    revs[c][i].current # NoLayer => Reachable(state[c].current, revs[c][i].current)

\* An accepted layer never presents a link to a draft, discarded or missing layer,
\* so an accepted graph can be opened completely.
AcceptedClosed ==
  \A k \in From(Accepted, Presented) : k[2] \in Accepted

\* Expansion of accepted layers is acyclic, across completions and with the links
\* that attached additions and resolved invokes add to layers accepted earlier.
AcceptedExpandAcyclic ==
  ~Cyclic(Expands(From(Accepted, Presented)))

\* Publication by brokers follows the order of their generations: once a newer
\* broker has written, an older one whose request was delayed never does.
AuthorsInOrder ==
  \A c \in Completions : \A i, j \in 1..Len(revs[c]) :
    (i < j /\ revs[c][i].author # 0 /\ revs[c][j].author # 0)
      => revs[c][i].author <= revs[c][j].author

\* Output, final layer, root action and leased invoke agree: a completion has an
\* output exactly when it succeeded, it is the accepted final current, and the
\* invoke it was leased for is resolved to that same layer.
OutputIsFinal ==
  \A c \in Completions :
    /\ (state[c].lifecycle = "succeeded") <=> (output[c] # NoLayer)
    /\ state[c].final = output[c]
    /\ output[c] # NoLayer =>
         /\ output[c] = state[c].current /\ output[c] \in Accepted
         /\ Lease[c] # NoLayer => <<Lease[c], output[c], "expand">> \in shown
    /\ resolution[c] = IF Lease[c] = NoLayer THEN NoLayer ELSE output[c]

\* A completion that returned left no draft behind: everything it authored was
\* accepted or discarded.
NoStrandedDraft ==
  \A c \in Completions : state[c].lifecycle = "succeeded" => OwnDrafts(c) = {}

\* A completion created while root-current-write was dark is written only by one
\* flat submit, even after the server restarts with the feature on.
DarkCompletionFlat ==
  \A c \in Completions : Present(c) /\ ~state[c].temporal =>
    /\ Len(revs[c]) <= 2
    /\ \A i \in 2..Len(revs[c]) :
         revs[c][i].key = LegacyKey /\ revs[c][i].lifecycle = "succeeded"

\* Two completions never publish a presentation that replaces the same revision of
\* the shared node: no replacement is silently overwritten.
NoLostPresentation ==
  \A c, d \in Completions :
    (c # d /\ replaced[c] # NotStaged) => replaced[c] # replaced[d]

\* The head a flat submit read in its first transaction is still the head in its
\* second one, so its Return is never refused as stale.
SubmitNotStale ==
  \A c \in Completions : submit[c] # Idle =>
    Active(c) /\ state[c].head = submit[c].expected /\ root[c] = submit[c].layer

\* Action property: a terminal completion never changes again, nor does any layer
\* it owns leave the state it ended in.
TerminalFrozen ==
  [][\A c \in Completions : (Present(c) /\ ~Active(c)) =>
       /\ state'[c] = state[c] /\ revs'[c] = revs[c] /\ output'[c] = output[c]
       /\ \A l \in Own(c) : layerState'[l] = layerState[l]]_vars

\* Action property: an accepted layer stays accepted and keeps every link it
\* presents; later publications only add links to it.
AcceptedGrows ==
  [][/\ Accepted \subseteq Accepted'
     /\ From(Accepted, Presented) \subseteq Presented']_vars
-----------------------------------------------------------------------------
\* The log a reader sees: the revisions, their projections and the accepted layers.
Log == INSTANCE CompletionLog WITH
         log <- revs, feed <- outbox, published <- Accepted, Generations <- 0..MaxEpoch

\* Refinement: drafts, delayed brokers, the two transactions of a flat submit and
\* restarts add nothing to the completion log.  A transition commits its revision,
\* its projection and the layers it publishes in one step, at most once per key, and
\* no other step publishes a layer or touches the log.
ImplementsCompletionLog == Log!Spec
=============================================================================
