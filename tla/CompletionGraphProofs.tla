----------------------- MODULE CompletionGraphProofs -----------------------
(* Proofs about what completions publish: the layer graph, the outputs, the   *)
(* presentations and the projection, for every set of completions and layers. *)
EXTENDS TemporalCurrentProofs

USE DEF current_row, authority, drafts, results, vars

-----------------------------------------------------------------------------
(* Reachability. *)

\* The layers reached from R hold R, and are closed under E.
LEMMA ClosureHolds ==
  ASSUME NEW R, NEW E
  PROVE  /\ Closure(R, E) \subseteq Layers
         /\ R \cap Layers \subseteq Closure(R, E)
         /\ \A k \in E : (k[1] \in Closure(R, E) /\ k[2] \in Layers) => k[2] \in Closure(R, E)
<1>1. R \cap Layers \subseteq Closure(R, E) /\ Closure(R, E) \subseteq Layers
  BY DEF Closure
<1>2. ASSUME NEW k \in E, k[1] \in Closure(R, E), k[2] \in Layers,
             NEW S \in SUBSET Layers, R \subseteq S, \A m \in E : m[1] \in S => m[2] \in S
      PROVE  k[2] \in S
  <2>1. k[1] \in S
    BY <1>2 DEF Closure
  <2>. QED
    BY <1>2, <2>1
<1>. QED
  BY <1>1, <1>2 DEF Closure

\* They are the smallest such set.
LEMMA ClosureLeast ==
  ASSUME NEW R, NEW E, NEW S \in SUBSET Layers, R \subseteq S,
         \A k \in E : k[1] \in S => k[2] \in S
  PROVE  Closure(R, E) \subseteq S
BY DEF Closure

\* What is reached from a reached layer is reached, along no fewer links.
LEMMA ClosureTrans ==
  ASSUME NEW R, NEW E \in SUBSET Link, NEW D \in SUBSET E, NEW Q \in SUBSET Closure(R, E)
  PROVE  Closure(Q, D) \subseteq Closure(R, E)
<1>1. \A k \in D : k[1] \in Closure(R, E) => k[2] \in Closure(R, E)
  BY ClosureHolds DEF Link
<1>2. Closure(R, E) \in SUBSET Layers
  BY ClosureHolds
<1>. QED
  BY <1>1, <1>2, ClosureLeast

\* A path either uses none of the added links or ends after the last of them.
LEMMA EdgeSplit ==
  ASSUME NEW E \in SUBSET Link, NEW F \in SUBSET Link, NEW y \in Layers,
         NEW x \in Closure({y}, E \cup F)
  PROVE  \/ x \in Closure({y}, E)
         \/ \E m \in F : m[1] \in Closure({y}, E \cup F) /\ x \in Closure({m[2]}, E \cup F)
<1>. DEFINE G == E \cup F
            Late == {z \in Layers : \E m \in F : m[1] \in Closure({y}, G) /\ z \in Closure({m[2]}, G)}
            S == Closure({y}, E) \cup Late
<1>1. G \in SUBSET Link /\ E \in SUBSET G /\ \A k \in G : k[2] \in Layers
  BY DEF Link
<1>2. y \in Closure({y}, E) /\ y \in Closure({y}, G) /\ Closure({y}, E) \subseteq Layers
  BY ClosureHolds
<1>3. Closure({y}, E) \subseteq Closure({y}, G)
  BY <1>1, <1>2, ClosureTrans
<1>4. Late \subseteq Closure({y}, G)
  <2>1. ASSUME NEW m \in F, m[1] \in Closure({y}, G)
        PROVE  Closure({m[2]}, G) \subseteq Closure({y}, G)
    <3>1. m[2] \in Closure({y}, G)
      BY <1>1, <2>1, ClosureHolds
    <3>. QED
      BY <1>1, <3>1, ClosureTrans
  <2>. QED
    BY <2>1
<1>5. ASSUME NEW k \in G, k[1] \in S PROVE k[2] \in S
  <2>1. CASE k \in F
    <3>1. k[1] \in Closure({y}, G)
      BY <1>3, <1>4, <1>5
    <3>2. k[2] \in Closure({k[2]}, G) /\ k[2] \in Layers
      BY <1>1, ClosureHolds
    <3>. QED
      BY <2>1, <3>1, <3>2
  <2>2. CASE k \in E /\ k[1] \in Closure({y}, E)
    BY <1>1, <2>2, ClosureHolds
  <2>3. CASE k \in E /\ k[1] \in Late
    <3>1. PICK m \in F : m[1] \in Closure({y}, G) /\ k[1] \in Closure({m[2]}, G)
      BY <2>3
    <3>2. k[2] \in Closure({m[2]}, G) /\ k[2] \in Layers
      BY <1>1, <3>1, ClosureHolds
    <3>. QED
      BY <3>1, <3>2
  <2>. QED
    BY <1>5, <2>1, <2>2, <2>3
<1>6. S \in SUBSET Layers
  BY <1>2
<1>7. {y} \subseteq S
  BY <1>2
<1>. HIDE DEF S, G
<1>8. Closure({y}, G) \subseteq S
  BY <1>5, <1>6, <1>7, ClosureLeast
<1>. QED
  BY <1>8 DEF S, G

\* Links that each close no cycle keep a graph acyclic.
LEMMA AddEdges ==
  ASSUME NEW E \in SUBSET Link, NEW F \in SUBSET Link, ~Cyclic(E),
         \A m \in F : m[1] \notin Closure({m[2]}, E \cup F)
  PROVE  ~Cyclic(E \cup F)
<1>. DEFINE G == E \cup F
<1>. SUFFICES ASSUME NEW k \in G, k[1] \in Closure({k[2]}, G)
              PROVE  FALSE
  BY DEF Cyclic
<1>1. G \in SUBSET Link /\ \A m \in G : m[1] \in Layers /\ m[2] \in Layers
  BY DEF Link
<1>2. k \in E /\ k[1] \notin Closure({k[2]}, E)
  BY DEF Cyclic
<1>3. PICK m \in F : m[1] \in Closure({k[2]}, G) /\ k[1] \in Closure({m[2]}, G)
  BY <1>1, <1>2, EdgeSplit
<1>4. k[2] \in Closure({m[2]}, G)
  BY <1>1, <1>3, ClosureHolds
<1>5. m[1] \in Closure({m[2]}, G)
  BY <1>1, <1>3, <1>4, ClosureTrans
<1>. QED
  BY <1>5

\* So does one link into a layer that does not reach back.
LEMMA AddEdge ==
  ASSUME NEW E \in SUBSET Link, ~Cyclic(E), NEW m \in Link, m[1] \notin Closure({m[2]}, E)
  PROVE  ~Cyclic(E \cup {m})
<1>. DEFINE C == Closure({m[2]}, E)
            G == E \cup {m}
<1>1. m[2] \in Layers /\ C \in SUBSET Layers /\ {m[2]} \subseteq C
  BY ClosureHolds DEF Link
<1>2. \A k \in G : k[1] \in C => k[2] \in C
  BY ClosureHolds DEF Link
<1>. HIDE DEF C, G
<1>3. Closure({m[2]}, G) \subseteq C
  BY <1>1, <1>2, ClosureLeast
<1>4. {m} \in SUBSET Link /\ \A k \in {m} : k[1] \notin Closure({k[2]}, E \cup {m})
  BY <1>3 DEF C, G
<1>. QED
  BY <1>4, AddEdges

\* Fewer links close no new cycle.
LEMMA FewerEdges ==
  ASSUME NEW E \in SUBSET Link, NEW D \in SUBSET E, ~Cyclic(E)
  PROVE  ~Cyclic(D)
<1>. SUFFICES ASSUME NEW k \in D, k[1] \in Closure({k[2]}, D)
              PROVE  FALSE
  BY DEF Cyclic
<1>1. k[2] \in Layers /\ k[2] \in Closure({k[2]}, E)
  BY ClosureHolds DEF Link
<1>2. Closure({k[2]}, D) \subseteq Closure({k[2]}, E)
  BY <1>1, ClosureTrans
<1>. QED
  BY <1>2 DEF Cyclic

-----------------------------------------------------------------------------
(* The inductive invariant. *)

\* An invoke that was leased is presented by an accepted layer.
LeaseAccepted ==
  \A c \in Completions : (Present(c) /\ Lease[c] # NoLayer) => Lease[c] \in Accepted

\* Whoever presents an action it has not authored, that action was accepted.
ShownAccepted == \A k \in shown : k[2] \in Accepted

\* Only an accepted layer becomes the current, and a current is never taken away.
CurrentAccepted ==
  \A c \in Completions :
    /\ state[c].current # NoLayer => state[c].current \in Accepted
    /\ \A i \in 1..Len(revs[c]) : revs[c][i].current # NoLayer => state[c].current # NoLayer

\* A published presentation replaced an earlier revision than the present one.
ReplacedBelow == \A c \in Completions : replaced[c] < presentation

\* The layer graph, and the rows of the completions.
LayerInv == /\ LeaseAccepted /\ ShownAccepted /\ CurrentAccepted
            /\ AcceptedClosed /\ AcceptedExpandAcyclic /\ EverCurrentReachable
RowsInv == /\ ReplacedBelow /\ NoLostPresentation /\ SubmitNotStale /\ DarkCompletionFlat
           /\ OutputIsFinal /\ NoStrandedDraft /\ EveryRevisionProjected

GraphInv == Inv /\ LayerInv /\ RowsInv

-----------------------------------------------------------------------------
(* What a publication accepts. *)

\* A walk accepts drafts of its completion only, and every link of an accepted draft
\* leads to an accepted layer.
LEMMA Walked ==
  ASSUME TypeOK, NEW c \in Completions, NEW A, NEW G, WalkAllowed(c, A, G),
         Publish(PlanLayers(A))
  PROVE  /\ PlanLayers(A) \subseteq OwnDrafts(c)
         /\ Accepted' = Accepted \cup PlanLayers(A)
         /\ \A l \in Layers \ PlanLayers(A) : layerState'[l] = layerState[l]
         /\ \A k \in From(PlanLayers(A), links) : k[2] \in Accepted'
         /\ \A a \in A : a[1] \in Layers => a[1] \in Accepted'
<1>. DEFINE L == PlanLayers(A)
            R == { a[1] : a \in A }
            D == From(In("draft"), links)
<1>1. Visited(A) = Closure(R, D) /\ L = Visited(A) \cap In("draft")
      /\ Visited(A) \subseteq Accepted \cup OwnDrafts(c)
  BY DEF Visited, PlanLayers, WalkAllowed
<1>2. L \subseteq OwnDrafts(c)
  BY <1>1, CompletionAssumption DEF OwnDrafts, Accepted, In, Own
<1>3. \A l \in Layers : layerState'[l] = IF l \in L THEN "accepted" ELSE layerState[l]
  BY DEF Publish
<1>4. L \subseteq Layers
  BY <1>1 DEF In
<1>. HIDE DEF L
<1>5. Accepted' = Accepted \cup L
  BY <1>3, <1>4 DEF Accepted, In
<1>6. Visited(A) \subseteq Accepted'
  BY <1>1, <1>5 DEF OwnDrafts
<1>7. ASSUME NEW k \in From(L, links) PROVE k[2] \in Accepted'
  <2>1. k \in D /\ k[1] \in Closure(R, D) /\ k[2] \in Layers
    BY <1>1, <1>7 DEF From, TypeOK, Link
  <2>2. k[2] \in Closure(R, D)
    BY <2>1, ClosureHolds
  <2>. QED
    BY <1>1, <1>6, <2>2
<1>8. ASSUME NEW a \in A, a[1] \in Layers PROVE a[1] \in Accepted'
  <2>1. a[1] \in R \cap Layers
    BY <1>8
  <2>2. a[1] \in Closure(R, D)
    BY <2>1, ClosureHolds
  <2>. QED
    BY <1>1, <1>6, <2>2
<1>. QED
  BY <1>2, <1>3, <1>5, <1>7, <1>8 DEF L

\* Accepted layers expand into accepted layers only, so drafts whose own links close no
\* cycle close none when they are accepted.
LEMMA AcceptedAcyclic ==
  ASSUME TypeOK, ShownAccepted, AcceptedClosed, AcceptedExpandAcyclic, NEW L \in SUBSET Layers,
         L \cap Accepted = {}, ~Cyclic(Expands(From(L, links)))
  PROVE  ~Cyclic(Expands(From(Accepted \cup L, Presented)))
<1>. DEFINE E == Expands(From(Accepted, Presented))
            EL == Expands(From(L, links))
            G == Expands(From(Accepted \cup L, Presented))
<1>. SUFFICES ASSUME NEW k \in G, k[1] \in Closure({k[2]}, G)
              PROVE  FALSE
  BY DEF Cyclic
<1>1. \A m \in G : m \in Link /\ m[1] \in Layers /\ m[2] \in Layers
  BY DEF Expands, From, Presented, TypeOK, Link
<1>2. \A m \in G : m[1] \in Accepted => m \in E /\ m[2] \in Accepted
  BY DEF Expands, From, AcceptedClosed
<1>3. \A m \in G : m[1] \notin Accepted => m[1] \in L /\ (m \in EL \/ m[2] \in Accepted)
  BY DEF Expands, From, Presented, ShownAccepted
<1>4. Accepted \in SUBSET Layers
  BY DEF Accepted, In
<1>5. ~Cyclic(E) /\ ~Cyclic(EL)
  BY DEF AcceptedExpandAcyclic
<1>. HIDE DEF E, EL, G
<1>6. ASSUME k[2] \in Accepted
      PROVE  k[1] \in Accepted /\ k[1] \in Closure({k[2]}, E)
  <2>1. ASSUME NEW S \in SUBSET Layers, {k[2]} \subseteq S, \A m \in E : m[1] \in S => m[2] \in S
        PROVE  k[1] \in S \cap Accepted
    <3>. DEFINE T == S \cap Accepted
    <3>1. T \in SUBSET Layers /\ {k[2]} \subseteq T
      BY <1>6, <2>1
    <3>2. \A m \in G : m[1] \in T => m[2] \in T
      BY <1>2, <2>1
    <3>. HIDE DEF T
    <3>3. Closure({k[2]}, G) \subseteq T
      BY <3>1, <3>2, ClosureLeast
    <3>. QED
      BY <3>3 DEF T
  <2>2. k[1] \in Accepted
    <3>1. {k[2]} \subseteq Accepted /\ \A m \in G : m[1] \in Accepted => m[2] \in Accepted
      BY <1>2, <1>6
    <3>2. Closure({k[2]}, G) \subseteq Accepted
      BY <1>4, <3>1, ClosureLeast
    <3>. QED
      BY <3>2
  <2>3. k[1] \in Closure({k[2]}, E)
    BY <1>1, <2>1 DEF Closure
  <2>. QED
    BY <2>2, <2>3
<1>7. CASE k[2] \in Accepted
  BY <1>2, <1>5, <1>6, <1>7 DEF Cyclic
<1>8. CASE k[2] \notin Accepted
  <2>1. k \in EL /\ k[1] \in L
    BY <1>2, <1>3, <1>8
  <2>2. ASSUME NEW S \in SUBSET Layers, {k[2]} \subseteq S, \A m \in EL : m[1] \in S => m[2] \in S
        PROVE  k[1] \in S
    <3>. DEFINE T == S \cup Accepted
    <3>1. T \in SUBSET Layers /\ {k[2]} \subseteq T
      BY <1>4, <2>2
    <3>2. \A m \in G : m[1] \in T => m[2] \in T
      BY <1>2, <1>3, <2>2
    <3>. HIDE DEF T
    <3>3. Closure({k[2]}, G) \subseteq T
      BY <3>1, <3>2, ClosureLeast
    <3>. QED
      BY <2>1, <3>3 DEF T
  <2>3. k[1] \in Closure({k[2]}, EL)
    BY <1>1, <2>2 DEF Closure
  <2>. QED
    BY <1>5, <2>1, <2>3 DEF Cyclic
<1>. QED
  BY <1>7, <1>8

-----------------------------------------------------------------------------
(* Currents. *)

\* Every layer that was ever the current of d is reached from an accepted current.
CurrentOf(d) ==
  /\ state[d].current # NoLayer => state[d].current \in Accepted
  /\ \A i \in 1..Len(revs[d]) : revs[d][i].current # NoLayer =>
       state[d].current # NoLayer /\ Reachable(state[d].current, revs[d][i].current)

\* The two properties of the currents, completion by completion.
LEMMA Currents ==
  (CurrentAccepted /\ EverCurrentReachable) <=> \A d \in Completions : CurrentOf(d)
BY DEF CurrentAccepted, EverCurrentReachable, CurrentOf

\* What an accepted layer reaches, it goes on reaching while accepted layers keep
\* their links.
LEMMA ReachKept ==
  ASSUME TypeOK, TypeOK', AcceptedClosed, From(Accepted, Presented) \subseteq Presented',
         NEW a \in Accepted, NEW b \in Closure({a}, Presented)
  PROVE  b \in Closure({a}, Presented')
<1>1. ASSUME NEW S \in SUBSET Layers, {a} \subseteq S, \A k \in Presented' : k[1] \in S => k[2] \in S
      PROVE  b \in S
  <2>. DEFINE T == S \cap Accepted
  <2>1. T \in SUBSET Layers /\ {a} \subseteq T
    BY <1>1
  <2>2. \A k \in Presented : k[1] \in T => k[2] \in T
    BY <1>1 DEF From, AcceptedClosed
  <2>. HIDE DEF T
  <2>3. Closure({a}, Presented) \subseteq T
    BY <2>1, <2>2, ClosureLeast
  <2>. QED
    BY <2>3 DEF T
<1>2. b \in Layers
  BY ClosureHolds
<1>. QED
  BY <1>1, <1>2 DEF Closure

\* A completion that is not written keeps its currents reachable.
LEMMA CurrentKept ==
  ASSUME TypeOK, TypeOK', AcceptedClosed, Accepted \subseteq Accepted',
         From(Accepted, Presented) \subseteq Presented',
         NEW d \in Completions, CurrentOf(d), state'[d] = state[d], revs'[d] = revs[d]
  PROVE  CurrentOf(d)'
<1>1. state'[d].current # NoLayer => state'[d].current \in Accepted'
  BY DEF CurrentOf
<1>2. ASSUME NEW i \in 1..Len(revs[d]), revs[d][i].current # NoLayer
      PROVE  state[d].current # NoLayer /\ revs[d][i].current \in Closure({state[d].current}, Presented')
  <2>1. state[d].current \in Accepted /\ revs[d][i].current \in Closure({state[d].current}, Presented)
    BY <1>2 DEF CurrentOf, Reachable
  <2>2. PICK a \in Accepted : a = state[d].current
    BY <2>1
  <2>3. PICK b \in Closure({a}, Presented) : b = revs[d][i].current
    BY <2>1, <2>2
  <2>4. b \in Closure({a}, Presented')
    BY ReachKept
  <2>. QED
    BY <1>2, <2>2, <2>3, <2>4 DEF CurrentOf
<1>. QED
  BY <1>1, <1>2 DEF CurrentOf, Reachable

\* append_revision puts its layer, or the current it keeps, in front of every earlier
\* current.
LEMMA CurrentMoved ==
  ASSUME TypeOK, TypeOK', Presented \subseteq Presented', NEW c \in Completions, CurrentOf(c),
         NEW author, NEW key, NEW expected, NEW lifecycle, NEW last,
         NEW layer \in Layers \cup {NoLayer},
         Record(c, author, key, expected, lifecycle, layer, last),
         layer # NoLayer => layer \in Accepted',
         state[c].current # NoLayer => layer # NoLayer /\ Reachable(layer, state[c].current)
  PROVE  CurrentOf(c)'
<1>. DEFINE row == [rev |-> expected + 1, current |-> layer, lifecycle |-> lifecycle,
                    key |-> key, author |-> author]
            n == Len(revs[c])
<1>1. revs[c] \in Seq(RevisionRow) /\ n \in Nat /\ revs'[c] = Append(revs[c], row)
  BY DEF Record, TypeOK
<1>2. Len(revs'[c]) = n + 1 /\ revs'[c][n + 1] = row /\ \A i \in 1..n : revs'[c][i] = revs[c][i]
  BY <1>1
<1>3. state'[c].current = layer
  BY DEF Record, TypeOK, StateRow
<1>4. row.current = layer
  OBVIOUS
<1>5. Presented' \in SUBSET Link /\ Presented \in SUBSET Presented'
  BY DEF Presented, TypeOK
<1>. HIDE DEF row, n
<1>6. ASSUME NEW i \in 1..Len(revs'[c]), revs'[c][i].current # NoLayer
      PROVE  layer # NoLayer /\ revs'[c][i].current \in Closure({layer}, Presented')
  <2>1. CASE i = n + 1
    <3>1. layer \in Layers /\ revs'[c][i].current = layer
      BY <1>2, <1>4, <1>6, <2>1
    <3>2. {layer} \cap Layers \subseteq Closure({layer}, Presented')
      BY ClosureHolds
    <3>. QED
      BY <3>1, <3>2, CompletionAssumption
  <2>2. CASE i \in 1..n
    <3>1. revs'[c][i] = revs[c][i]
      BY <1>2, <2>2
    <3>7. revs[c][i].current # NoLayer /\ i \in 1..Len(revs[c])
      BY <1>6, <2>2, <3>1 DEF n
    <3>2. /\ state[c].current # NoLayer
          /\ revs[c][i].current \in Closure({state[c].current}, Presented)
      BY <3>7 DEF CurrentOf, Reachable
    <3>3. layer # NoLayer /\ layer \in Layers /\ state[c].current \in Closure({layer}, Presented)
      BY <3>2 DEF Reachable
    <3>4. {layer} \subseteq Closure({layer}, Presented')
      BY <3>3, ClosureHolds
    <3>5. Closure({layer}, Presented) \subseteq Closure({layer}, Presented')
      BY <1>5, <3>4, ClosureTrans
    <3>8. {state[c].current} \in SUBSET Closure({layer}, Presented')
      BY <3>3, <3>5
    <3>6. Closure({state[c].current}, Presented) \subseteq Closure({layer}, Presented')
      BY <1>5, <3>8, ClosureTrans
    <3>. QED
      BY <3>1, <3>2, <3>3, <3>6
  <2>. QED
    BY <1>1, <1>2, <2>1, <2>2 DEF n
<1>. QED
  BY <1>3, <1>6 DEF CurrentOf, Reachable

-----------------------------------------------------------------------------
(* The layer graph, step by step. *)

\* The part of the invariant about layers and actions alone.
LinkInv == ShownAccepted /\ AcceptedClosed /\ AcceptedExpandAcyclic

\* A step that accepts nothing and leaves the accepted layers' actions alone.
LayersKept ==
  /\ Accepted' = Accepted
  /\ From(Accepted, Presented)' = From(Accepted, Presented)
  /\ \A k \in shown' : k[2] \in Accepted

\* It keeps the layer graph closed and acyclic.
LEMMA LinksKept ==
  ASSUME LinkInv, LayersKept
  PROVE  /\ LinkInv' /\ Accepted \subseteq Accepted'
         /\ From(Accepted, Presented) \subseteq Presented'
<1>1. ShownAccepted'
  BY DEF LayersKept, ShownAccepted
<1>2. AcceptedClosed' /\ AcceptedExpandAcyclic'
  BY DEF LayersKept, LinkInv, AcceptedClosed, AcceptedExpandAcyclic
<1>3. From(Accepted, Presented)' \subseteq Presented'
  BY DEF From
<1>. QED
  BY <1>1, <1>2, <1>3 DEF LinkInv, LayersKept

\* A draft write leaves every accepted layer and its actions alone.
LEMMA DraftLayers ==
  ASSUME TypeOK, LinkInv, NEW c \in Completions, NEW e \in Nat, AuthorDraft(c, e)
  PROVE  /\ LayersKept
         /\ From(Accepted, shown) \subseteq shown'
         /\ \A l \in Layers : Owner[l] # c => layerState'[l] = layerState[l]
         /\ \A d \in Completions : d # c => root'[d] = root[d] /\ staged'[d] = staged[d]
         /\ Active(c) /\ GateFree(c)
         /\ UNCHANGED <<config, current_row, authority, output, resolution, presentation,
                        replaced, submit>>
<1>. DEFINE Goal == /\ LayersKept
                    /\ From(Accepted, shown) \subseteq shown'
                    /\ \A l \in Layers : Owner[l] # c => layerState'[l] = layerState[l]
                    /\ \A d \in Completions : d # c => root'[d] = root[d] /\ staged'[d] = staged[d]
                    /\ Active(c) /\ GateFree(c)
                    /\ UNCHANGED <<config, current_row, authority, output, resolution,
                                   presentation, replaced, submit>>
<1>1. ASSUME NEW l \in Own(c), NEW K \in SUBSET From(Accepted, Presented), SubmitLayer(c, e, l, K)
      PROVE  Goal
  <2>1. l \in Layers /\ Owner[l] = c /\ layerState[l] \in {"absent", "draft"}
    BY <1>1 DEF SubmitLayer, Own
  <2>2. layerState' = [layerState EXCEPT ![l] = "draft"]
    BY <1>1 DEF SubmitLayer
  <2>3. Accepted' = Accepted /\ l \notin Accepted
    BY <2>1, <2>2 DEF Accepted, In, TypeOK
  <2>4. shown' = From(Layers \ {l}, shown) \cup { <<l, k[2], k[3]>> : k \in K } /\ links' = links
    BY <1>1 DEF SubmitLayer
  <2>5. \A k \in K : k[2] \in Accepted
    BY DEF LinkInv, AcceptedClosed
  <2>6. \A k \in shown' : k[2] \in Accepted
    BY <2>4, <2>5 DEF LinkInv, ShownAccepted, From
  <2>7. \A k \in Link : k[1] \in Accepted => (k \in shown' <=> k \in shown)
    BY <2>3, <2>4 DEF From, Accepted, In
  <2>8. shown' \subseteq Link /\ shown \subseteq Link
    <3>1. TypeOK'
      BY <1>1, DraftType DEF AuthorDraft
    <3>. QED
      BY <3>1 DEF TypeOK
  <2>9. From(Accepted, Presented)' = From(Accepted, Presented)
    BY <2>3, <2>4, <2>7, <2>8 DEF From, Presented
  <2>10. From(Accepted, shown) \subseteq shown'
    BY <2>7, <2>8 DEF From
  <2>. QED
    BY <1>1, <2>1, <2>2, <2>3, <2>6, <2>9, <2>10
    DEF SubmitLayer, LayersKept, Writable, Authorized, TypeOK
<1>2. ASSUME UNCHANGED <<layerState, shown>>,
             From(Accepted, links') = From(Accepted, links)
      PROVE  LayersKept /\ From(Accepted, shown) \subseteq shown'
  BY <1>2 DEF LayersKept, LinkInv, ShownAccepted, From, Presented, Accepted, In
<1>3. ASSUME NEW l \in Own(c), DiscardLayer(c, e, l) PROVE Goal
  <2>1. l \in Layers /\ Owner[l] = c /\ layerState[l] = "draft"
        /\ layerState' = [layerState EXCEPT ![l] = "stopped"] /\ UNCHANGED <<links, shown>>
    BY <1>3 DEF DiscardLayer, Own, OwnDrafts, In
  <2>2. Accepted' = Accepted
    BY <2>1 DEF Accepted, In, TypeOK
  <2>3. LayersKept /\ From(Accepted, shown) \subseteq shown'
    BY <2>1, <2>2 DEF LayersKept, LinkInv, ShownAccepted, From, Presented
  <2>. QED
    BY <1>3, <2>1, <2>3 DEF DiscardLayer, Writable, Authorized, TypeOK
<1>4. ASSUME NEW l \in Own(c), SetRoot(c, e, l) PROVE Goal
  <2>1. LayersKept /\ From(Accepted, shown) \subseteq shown'
    BY <1>2, <1>4 DEF SetRoot
  <2>. QED
    BY <1>4, <2>1 DEF SetRoot, Writable, Authorized, TypeOK
<1>5. ASSUME NEW k \in Candidates, NEW old \in SUBSET links, AddAction(c, e, k, old)
      PROVE  Goal
  <2>1. k[1] \notin Accepted /\ \A m \in old : m[1] \notin Accepted
    BY <1>5 DEF AddAction, OwnDrafts, Accepted, In, From
  <2>2. links' = (links \ old) \cup {k} /\ UNCHANGED <<layerState, shown>>
    BY <1>5 DEF AddAction
  <2>3. From(Accepted, links') = From(Accepted, links)
    BY <2>1, <2>2 DEF From
  <2>4. LayersKept /\ From(Accepted, shown) \subseteq shown'
    BY <1>2, <2>2, <2>3
  <2>. QED
    BY <1>5, <2>4 DEF AddAction, Writable, Authorized
<1>6. ASSUME NEW k \in Candidates, NEW old \in SUBSET attached[c], AttachAction(c, e, k, old)
      PROVE  Goal
  <2>1. LayersKept /\ From(Accepted, shown) \subseteq shown'
    BY <1>2, <1>6 DEF AttachAction
  <2>. QED
    BY <1>6, <2>1 DEF AttachAction, Writable, Authorized
<1>7. ASSUME NEW n \in 0..presentation, StagePresentation(c, e, n) PROVE Goal
  <2>1. LayersKept /\ From(Accepted, shown) \subseteq shown'
    BY <1>2, <1>7 DEF StagePresentation
  <2>. QED
    BY <1>7, <2>1 DEF StagePresentation, Writable, Authorized, TypeOK
<1>. QED
  BY <1>1, <1>3, <1>4, <1>5, <1>6, <1>7 DEF AuthorDraft

-----------------------------------------------------------------------------
(* The rows of a completion, and the projection. *)

\* What the invariant says of one completion's rows.
RowOf(d) ==
  /\ (state[d].lifecycle = "succeeded") <=> (output[d] # NoLayer)
  /\ state[d].final = output[d]
  /\ output[d] # NoLayer =>
       /\ output[d] = state[d].current /\ output[d] \in Accepted
       /\ Lease[d] # NoLayer => <<Lease[d], output[d], "expand">> \in shown
  /\ resolution[d] = IF Lease[d] = NoLayer THEN NoLayer ELSE output[d]
  /\ state[d].lifecycle = "succeeded" => OwnDrafts(d) = {}
  /\ (Present(d) /\ ~state[d].temporal) =>
       /\ Len(revs[d]) <= 2
       /\ \A i \in 2..Len(revs[d]) :
            revs[d][i].key = LegacyKey /\ revs[d][i].lifecycle = "succeeded"
  /\ submit[d] # Idle =>
       Active(d) /\ state[d].head = submit[d].expected /\ root[d] = submit[d].layer

\* Four properties, completion by completion.
LEMMA Rows ==
  (OutputIsFinal /\ NoStrandedDraft /\ DarkCompletionFlat /\ SubmitNotStale)
    <=> \A d \in Completions : RowOf(d)
BY DEF OutputIsFinal, NoStrandedDraft, DarkCompletionFlat, SubmitNotStale, RowOf

\* A completion whose rows are not written keeps them in agreement.
LEMMA RowKept ==
  ASSUME LeaseAccepted, NEW d \in Completions, RowOf(d),
         state'[d] = state[d], revs'[d] = revs[d], output'[d] = output[d],
         resolution'[d] = resolution[d],
         Accepted \subseteq Accepted', From(Accepted, shown) \subseteq shown',
         state[d].lifecycle = "succeeded" => OwnDrafts(d)' \subseteq OwnDrafts(d),
         submit'[d] # Idle =>
           Active(d) /\ state[d].head = submit'[d].expected /\ root'[d] = submit'[d].layer
  PROVE  RowOf(d)'
<1>1. output[d] # NoLayer => /\ output[d] = state[d].current /\ output[d] \in Accepted'
                             /\ Lease[d] # NoLayer => <<Lease[d], output[d], "expand">> \in shown'
  <2>. SUFFICES ASSUME output[d] # NoLayer, Lease[d] # NoLayer
                PROVE  <<Lease[d], output[d], "expand">> \in shown'
    BY DEF RowOf
  <2>1. <<Lease[d], output[d], "expand">> \in shown /\ Lease[d] \in Accepted
    BY DEF RowOf, LeaseAccepted, Present
  <2>. QED
    BY <2>1 DEF From
<1>2. (state[d].lifecycle = "succeeded") <=> (output[d] # NoLayer)
  BY DEF RowOf
<1>3. state[d].final = output[d] /\ resolution[d] = IF Lease[d] = NoLayer THEN NoLayer ELSE output[d]
  BY DEF RowOf
<1>4. state[d].lifecycle = "succeeded" => OwnDrafts(d)' = {}
  BY DEF RowOf
<1>5. (Present(d) /\ ~state[d].temporal) =>
       /\ Len(revs[d]) <= 2
       /\ \A i \in 2..Len(revs[d]) :
            revs[d][i].key = LegacyKey /\ revs[d][i].lifecycle = "succeeded"
  BY DEF RowOf
<1>. QED
  BY <1>1, <1>2, <1>3, <1>4, <1>5 DEF RowOf, Present, Active

\* append_projection announces the revision just appended, and nothing else changes.
LEMMA ProjectedMore ==
  ASSUME TypeOK, TypeOK', EveryRevisionProjected, NEW c \in Completions,
         outbox' = Append(outbox, <<c, Len(revs[c])>>),
         Len(revs'[c]) = Len(revs[c]) + 1,
         \A d \in Completions : d # c => revs'[d] = revs[d]
  PROVE  EveryRevisionProjected'
<1>. DEFINE n == Len(outbox)
            r == Len(revs[c])
<1>1. outbox \in Seq(Completions \X Nat) /\ n \in Nat /\ r \in Nat
      /\ \A d \in Completions : Len(revs[d]) \in Nat /\ Len(revs'[d]) \in Nat
  <2>1. outbox \in Seq(Completions \X Nat) /\ n \in Nat
    BY DEF TypeOK
  <2>2. \A d \in Completions : revs[d] \in Seq(RevisionRow) /\ revs'[d] \in Seq(RevisionRow)
    BY DEF TypeOK
  <2>. QED
    BY <2>1, <2>2
<1>2. /\ Len(outbox') = n + 1 /\ outbox'[n + 1] = <<c, r>>
      /\ \A p \in 1..n : outbox'[p] = outbox[p] /\ outbox[p] \in Completions \X Nat
  BY <1>1
<1>3. \A p \in 1..(n + 1) : p \in 1..n \/ p = n + 1
  BY <1>1
<1>. HIDE DEF n, r
<1>4. \A p \in 1..n : /\ outbox[p][1] \in Completions /\ outbox[p][2] \in Nat
                      /\ outbox[p][2] < Len(revs[outbox[p][1]])
  BY <1>2 DEF EveryRevisionProjected, n
<1>5. ASSUME NEW d \in Completions, NEW v \in 0..(Len(revs'[d]) - 1)
      PROVE  \E p \in 1..(n + 1) : outbox'[p] = <<d, v>>
  <2>1. CASE d = c /\ v = r
    BY <1>1, <1>2, <2>1
  <2>2. CASE ~(d = c /\ v = r)
    <3>1. v \in 0..(Len(revs[d]) - 1)
      BY <1>1, <2>2 DEF r
    <3>2. PICK p \in 1..n : outbox[p] = <<d, v>>
      BY <3>1 DEF EveryRevisionProjected, n
    <3>3. p \in 1..(n + 1) /\ outbox'[p] = outbox[p]
      BY <1>1, <1>2
    <3>. QED
      BY <3>2, <3>3
  <2>. QED
    BY <2>1, <2>2
<1>6. ASSUME NEW p \in 1..(n + 1) PROVE outbox'[p][2] < Len(revs'[outbox'[p][1]])
  <2>1. CASE p = n + 1
    BY <1>1, <1>2, <2>1 DEF r
  <2>2. CASE p \in 1..n
    <3>1. outbox'[p] = outbox[p] /\ outbox[p][2] < Len(revs[outbox[p][1]])
          /\ outbox[p][1] \in Completions /\ outbox[p][2] \in Nat
      BY <1>2, <1>4, <2>2
    <3>2. \A d \in Completions : Len(revs[d]) \in Nat /\ Len(revs'[d]) \in Nat
                                 /\ Len(revs[d]) <= Len(revs'[d])
      BY <1>1 DEF r
    <3>3. \A v, x, y \in Nat : (v < x /\ x <= y) => v < y
      OBVIOUS
    <3>. QED
      BY <3>1, <3>2, <3>3
  <2>. QED
    BY <1>3, <2>1, <2>2
<1>7. ASSUME NEW p \in 1..(n + 1), NEW q \in 1..(n + 1), p < q, outbox'[p][1] = outbox'[q][1]
      PROVE  outbox'[p][2] < outbox'[q][2]
  <2>1. p \in 1..n /\ outbox'[p] = outbox[p]
    BY <1>1, <1>2, <1>7
  <2>2. CASE q \in 1..n
    BY <1>2, <1>7, <2>1, <2>2 DEF EveryRevisionProjected, n
  <2>3. CASE q = n + 1
    <3>1. outbox'[q][2] = r /\ outbox'[q][1] = c
      BY <1>2, <2>3
    <3>. QED
      BY <1>4, <1>7, <2>1, <3>1 DEF r
  <2>. QED
    BY <1>3, <2>2, <2>3
<1>. QED
  BY <1>2, <1>5, <1>6, <1>7 DEF EveryRevisionProjected

\* The same when nothing is appended.
LEMMA ProjectedKept ==
  ASSUME EveryRevisionProjected, UNCHANGED <<outbox, revs>>
  PROVE  EveryRevisionProjected'
BY DEF EveryRevisionProjected

\* What a transition that starts from the head it expected writes to its rows.
LEMMA Recorded ==
  ASSUME GraphInv, TypeOK', NEW c \in Completions, NEW author, NEW key, NEW expected \in Nat,
         NEW lifecycle, NEW layer, NEW last, Fresh(c, key, expected),
         Record(c, author, key, expected, lifecycle, layer, last)
  PROVE  /\ EveryRevisionProjected'
         /\ Active(c) /\ Present(c) /\ Len(revs[c]) = expected + 1
         /\ state'[c].lifecycle = lifecycle /\ state'[c].current = layer /\ state'[c].final = last
         /\ state'[c].temporal <=> state[c].temporal
         /\ Len(revs'[c]) = expected + 2 /\ revs'[c][expected + 2].key = key
         /\ revs'[c][expected + 2].lifecycle = lifecycle
         /\ revs[c][expected + 1].lifecycle = "active"
         /\ \A d \in Completions : d # c => state'[d] = state[d] /\ revs'[d] = revs[d]
<1>1. TypeOK /\ HistoryConsistent /\ EveryRevisionProjected
  BY DEF GraphInv, Inv, RowsInv
<1>2. Active(c) /\ Present(c) /\ state[c].head = expected /\ Len(revs[c]) = expected + 1
      /\ revs[c][expected + 1].lifecycle = "active"
  BY <1>1 DEF Fresh, Active, Present, HistoryConsistent
<1>3. /\ state'[c].lifecycle = lifecycle /\ state'[c].current = layer /\ state'[c].final = last
      /\ state'[c].temporal = state[c].temporal
      /\ \A d \in Completions : d # c => state'[d] = state[d] /\ revs'[d] = revs[d]
  BY <1>1 DEF Record, TypeOK, StateRow
<1>. DEFINE row == [rev |-> expected + 1, current |-> layer, lifecycle |-> lifecycle,
                    key |-> key, author |-> author]
<1>4. revs'[c] = Append(revs[c], row) /\ revs[c] \in Seq(RevisionRow)
  BY <1>1 DEF Record, TypeOK
<1>5. row.key = key /\ row.lifecycle = lifecycle
  OBVIOUS
<1>. HIDE DEF row
<1>6. Len(revs'[c]) = expected + 2 /\ revs'[c][expected + 2] = row
  BY <1>2, <1>4
<1>7. outbox' = Append(outbox, <<c, Len(revs[c])>>)
  BY <1>2 DEF Record
<1>8. EveryRevisionProjected'
  BY <1>1, <1>2, <1>3, <1>6, <1>7, ProjectedMore
<1>. QED
  BY <1>2, <1>3, <1>5, <1>6, <1>8

-----------------------------------------------------------------------------
(* Steps. *)

\* What a step may never do to accepted layers, and to a completion that ended.
Grows ==
  /\ Accepted \subseteq Accepted'
  /\ From(Accepted, Presented) \subseteq Presented'

Frozen ==
  \A c \in Completions : (Present(c) /\ ~Active(c)) =>
    /\ state'[c] = state[c] /\ revs'[c] = revs[c] /\ output'[c] = output[c]
    /\ \A l \in Own(c) : layerState'[l] = layerState[l]

\* The revisions that presentations replaced.
PresentInv == ReplacedBelow /\ NoLostPresentation

\* The parts of the invariant, completion by completion.
LEMMA GraphParts ==
  ASSUME GraphInv
  PROVE  /\ TypeOK /\ HistoryConsistent /\ RowInv /\ LinkInv /\ LeaseAccepted /\ PresentInv
         /\ EveryRevisionProjected /\ \A d \in Completions : CurrentOf(d) /\ RowOf(d)
BY Currents, Rows DEF GraphInv, LayerInv, RowsInv, Inv, LinkInv, PresentInv

\* The same parts, of the next state.
LEMMA GraphPartsNext ==
  ASSUME LinkInv', LeaseAccepted', PresentInv', EveryRevisionProjected',
         \A d \in Completions : CurrentOf(d)' /\ RowOf(d)'
  PROVE  LayerInv' /\ RowsInv'
<1>1. CurrentAccepted' /\ EverCurrentReachable'
  BY DEF CurrentAccepted, EverCurrentReachable, CurrentOf
<1>2. OutputIsFinal' /\ NoStrandedDraft' /\ DarkCompletionFlat' /\ SubmitNotStale'
  BY DEF OutputIsFinal, NoStrandedDraft, DarkCompletionFlat, SubmitNotStale, RowOf
<1>. QED
  BY <1>1, <1>2 DEF LayerInv, RowsInv, LinkInv, PresentInv

\* A step that writes no rows of completions, and publishes nothing.
LEMMA UnwrittenStep ==
  ASSUME GraphInv, TypeOK', LayersKept, From(Accepted, shown) \subseteq shown',
         UNCHANGED <<state, revs, outbox, output, resolution, presentation, replaced>>,
         \A d \in Completions : (Present(d) /\ ~Active(d)) =>
           \A l \in Own(d) : layerState'[l] = layerState[l],
         \A d \in Completions : submit'[d] # Idle =>
           Active(d) /\ state[d].head = submit'[d].expected /\ root'[d] = submit'[d].layer
  PROVE  LayerInv' /\ RowsInv' /\ Grows /\ Frozen
<1>1. LinkInv' /\ Grows
  BY GraphParts, LinksKept DEF Grows
<1>2. LeaseAccepted'
  BY GraphParts DEF LeaseAccepted, LayersKept, Present
<1>3. PresentInv' /\ EveryRevisionProjected'
  BY GraphParts, ProjectedKept DEF PresentInv, ReplacedBelow, NoLostPresentation
<1>4. ASSUME NEW d \in Completions PROVE CurrentOf(d)' /\ RowOf(d)'
  <2>1. CurrentOf(d)'
    BY <1>1, GraphParts, CurrentKept DEF Grows, LinkInv
  <2>2. state[d].lifecycle = "succeeded" => OwnDrafts(d)' \subseteq OwnDrafts(d)
    BY DEF Present, Active, OwnDrafts, In, Own
  <2>. QED
    BY <1>1, <2>1, <2>2, GraphParts, RowKept DEF Grows
<1>5. Frozen
  BY DEF Frozen
<1>. QED
  BY <1>1, <1>2, <1>3, <1>4, <1>5, GraphPartsNext

\* Draft writes.
LEMMA DraftStep ==
  ASSUME GraphInv, TypeOK', NEW c \in Completions, NEW e \in Nat, AuthorDraft(c, e)
  PROVE  LayerInv' /\ RowsInv' /\ Grows /\ Frozen
<1>1. /\ LayersKept
      /\ From(Accepted, shown) \subseteq shown'
      /\ \A l \in Layers : Owner[l] # c => layerState'[l] = layerState[l]
      /\ \A d \in Completions : d # c => root'[d] = root[d] /\ staged'[d] = staged[d]
      /\ Active(c) /\ GateFree(c)
      /\ UNCHANGED <<config, current_row, authority, output, resolution, presentation,
                     replaced, submit>>
  BY GraphParts, DraftLayers
<1>2. \A d \in Completions : (Present(d) /\ ~Active(d)) =>
        \A l \in Own(d) : layerState'[l] = layerState[l]
  BY <1>1 DEF Own
<1>3. \A d \in Completions : submit'[d] # Idle =>
        Active(d) /\ state[d].head = submit'[d].expected /\ root'[d] = submit'[d].layer
  BY <1>1, GraphParts DEF RowOf, GateFree
<1>. QED
  BY <1>1, <1>2, <1>3, UnwrittenStep

\* Authority, the reads and the drops of flat submits, and restarts.
LEMMA QuietStep ==
  ASSUME GraphInv, TypeOK', UNCHANGED <<current_row, drafts, results>>,
         \A d \in Completions : submit'[d] # Idle =>
           Active(d) /\ state[d].head = submit'[d].expected /\ root[d] = submit'[d].layer
  PROVE  LayerInv' /\ RowsInv' /\ Grows /\ Frozen
<1>1. LayersKept /\ From(Accepted, shown) \subseteq shown'
  BY GraphParts DEF LayersKept, From, Accepted, In, Presented, LinkInv, ShownAccepted
<1>. QED
  BY <1>1, UnwrittenStep

\* initialize
LEMMA InitializeStep ==
  ASSUME GraphInv, TypeOK', NEW c \in Completions, Initialize(c)
  PROVE  LayerInv' /\ RowsInv' /\ Grows /\ Frozen
<1>1. /\ UNCHANGED <<config, authority, drafts, results, submit>>
      /\ \A d \in Completions : d # c => state'[d] = state[d] /\ revs'[d] = revs[d]
      /\ ~Present(c)
      /\ Lease[c] = NoLayer \/ Lease[c] \in Accepted
  BY GraphParts DEF Initialize, TypeOK, Present
<1>2. /\ state'[c] = [lifecycle |-> "active", head |-> 0, current |-> NoLayer, final |-> NoLayer,
                      temporal |-> config]
      /\ revs[c] = <<>> /\ outbox' = Append(outbox, <<c, 0>>)
      /\ revs'[c] = <<[rev |-> 0, current |-> NoLayer, lifecycle |-> "active",
                       key |-> "initial", author |-> 0]>>
  BY <1>1, GraphParts DEF Initialize, TypeOK, RowInv
<1>3. /\ Len(revs[c]) = 0 /\ Len(revs'[c]) = 1
      /\ \A i \in 1..Len(revs'[c]) : revs'[c][i].current = NoLayer
  BY <1>2
<1>4. LayersKept /\ From(Accepted, shown) \subseteq shown'
  BY <1>1, GraphParts DEF LayersKept, From, Accepted, In, Presented, LinkInv, ShownAccepted
<1>5. LinkInv' /\ Grows
  BY <1>4, GraphParts, LinksKept DEF Grows
<1>6. LeaseAccepted'
  BY <1>1, <1>4, GraphParts DEF LeaseAccepted, LayersKept, Present
<1>7. PresentInv'
  BY <1>1, GraphParts DEF PresentInv, ReplacedBelow, NoLostPresentation
<1>8. EveryRevisionProjected'
  <2>1. outbox' = Append(outbox, <<c, Len(revs[c])>>) /\ Len(revs'[c]) = Len(revs[c]) + 1
    BY <1>2, <1>3
  <2>. QED
    BY <1>1, <2>1, GraphParts, ProjectedMore
<1>9. ASSUME NEW d \in Completions, d # c PROVE CurrentOf(d)' /\ RowOf(d)'
  <2>1. CurrentOf(d)'
    BY <1>1, <1>5, <1>9, GraphParts, CurrentKept DEF Grows, LinkInv
  <2>2. OwnDrafts(d)' = OwnDrafts(d)
    BY <1>1 DEF OwnDrafts, In, Own
  <2>3. submit'[d] # Idle =>
          Active(d) /\ state[d].head = submit'[d].expected /\ root'[d] = submit'[d].layer
    BY <1>1, GraphParts DEF RowOf
  <2>. QED
    BY <1>1, <1>4, <1>5, <1>9, <2>1, <2>2, <2>3, GraphParts, RowKept DEF Grows
<1>10. CurrentOf(c)'
  BY <1>2, <1>3 DEF CurrentOf
<1>11. RowOf(c)'
  <2>1. output[c] = NoLayer /\ resolution[c] = NoLayer /\ submit[c] = Idle
    BY <1>1, GraphParts DEF RowOf, Present, Active
  <2>. QED
    BY <1>1, <1>2, <1>3, <2>1 DEF RowOf, Present, Active
<1>12. Frozen
  BY <1>1 DEF Frozen
<1>. QED
  BY <1>5, <1>6, <1>7, <1>8, <1>9, <1>10, <1>11, <1>12, GraphPartsNext

\* A transition of c that accepts the drafts L of c and appends a revision.
LEMMA WrittenStep ==
  ASSUME GraphInv, TypeOK', NEW c \in Completions, NEW L \in SUBSET OwnDrafts(c),
         NEW author, NEW key, NEW expected \in Nat, NEW lifecycle, NEW last,
         NEW layer \in Layers \cup {NoLayer},
         Fresh(c, key, expected), Record(c, author, key, expected, lifecycle, layer, last),
         Accepted' = Accepted \cup L,
         \A l \in Layers \ L : layerState'[l] = layerState[l],
         links' = links, shown \subseteq shown',
         \A d \in Completions : d # c =>
           /\ output'[d] = output[d] /\ resolution'[d] = resolution[d]
           /\ submit'[d] = submit[d] /\ root'[d] = root[d],
         layer # NoLayer => layer \in Accepted',
         state[c].current # NoLayer => layer # NoLayer /\ Reachable(layer, state[c].current),
         LinkInv', PresentInv', RowOf(c)'
  PROVE  LayerInv' /\ RowsInv' /\ Grows /\ Frozen
<1>1. /\ EveryRevisionProjected' /\ Active(c) /\ Present(c)
      /\ \A d \in Completions : d # c => state'[d] = state[d] /\ revs'[d] = revs[d]
  BY Recorded
<1>2. Presented \subseteq Presented'
  BY DEF Presented
<1>3. Grows /\ From(Accepted, shown) \subseteq shown'
  BY <1>2 DEF Grows, From
<1>4. LeaseAccepted'
  BY <1>1, GraphParts DEF LeaseAccepted, Present
<1>5. \A d \in Completions : d # c => \A l \in Own(d) : layerState'[l] = layerState[l]
  BY DEF OwnDrafts, Own
<1>6. ASSUME NEW d \in Completions, d # c PROVE CurrentOf(d)' /\ RowOf(d)'
  <2>1. CurrentOf(d)'
    BY <1>1, <1>3, <1>6, GraphParts, CurrentKept DEF Grows, LinkInv
  <2>2. OwnDrafts(d)' = OwnDrafts(d)
    BY <1>5, <1>6 DEF OwnDrafts, In, Own
  <2>3. submit'[d] # Idle =>
          Active(d) /\ state[d].head = submit'[d].expected /\ root'[d] = submit'[d].layer
    BY <1>6, GraphParts DEF RowOf
  <2>. QED
    BY <1>1, <1>3, <1>6, <2>1, <2>2, <2>3, GraphParts, RowKept DEF Grows
<1>7. CurrentOf(c)'
  BY <1>2, GraphParts, CurrentMoved
<1>8. Frozen
  BY <1>1, <1>5 DEF Frozen
<1>. QED
  BY <1>1, <1>3, <1>4, <1>6, <1>7, <1>8, GraphPartsNext

\* A layer reaches itself.
LEMMA ReachSelf ==
  ASSUME NEW l \in Layers
  PROVE  Reachable(l, l)
BY ClosureHolds DEF Reachable

\* Advance
LEMMA AdvanceStep ==
  ASSUME GraphInv, TypeOK', NEW c \in Completions, NEW e \in Nat, NEW key \in Keys,
         NEW expected \in Nat, NEW l \in Own(c), Advance(c, e, key, expected, l)
  PROVE  LayerInv' /\ RowsInv' /\ Grows /\ Frozen
<1>. DEFINE A == {<<l, "expand">>}
            L == PlanLayers(A)
<1>1. /\ Fresh(c, key, expected) /\ Record(c, e, key, expected, "active", l, NoLayer)
      /\ WalkAllowed(c, A, {}) /\ Publish(L) /\ KeepsAccess(state[c].current, l)
      /\ state[c].temporal /\ GateFree(c)
      /\ UNCHANGED <<config, authority, links, shown, attached, root, results, submit>>
  BY DEF Advance, BuildCurrent, TemporalWriter, Writable
<1>2. l \in Layers
  BY DEF Own
<1>3. /\ L \subseteq OwnDrafts(c) /\ Accepted' = Accepted \cup L
      /\ \A k \in Layers \ L : layerState'[k] = layerState[k]
      /\ \A k \in From(L, links) : k[2] \in Accepted'
      /\ l \in Accepted'
  <2>1. \A a \in A : a[1] \in Layers => a[1] \in Accepted'
    BY <1>1, GraphParts, Walked
  <2>2. l \in Accepted'
    BY <1>2, <2>1
  <2>. QED
    BY <1>1, <2>2, GraphParts, Walked
<1>4. LinkInv'
  <2>1. ShownAccepted'
    BY <1>1, <1>3, GraphParts DEF LinkInv, ShownAccepted
  <2>2. AcceptedClosed'
    BY <1>1, <1>3, <2>1, GraphParts DEF LinkInv, AcceptedClosed, ShownAccepted, From, Presented
  <2>3. ~Cyclic(Expands(From(L, links)))
    BY <1>1 DEF WalkAllowed
  <2>4. L \in SUBSET Layers /\ L \cap Accepted = {}
    BY <1>3 DEF OwnDrafts, Accepted, In
  <2>5. ~Cyclic(Expands(From(Accepted \cup L, Presented)))
    BY <2>3, <2>4, GraphParts, AcceptedAcyclic DEF LinkInv
  <2>6. AcceptedExpandAcyclic'
    BY <1>1, <1>3, <2>5 DEF AcceptedExpandAcyclic, Presented
  <2>. QED
    BY <2>1, <2>2, <2>6 DEF LinkInv
<1>5. PresentInv'
  BY <1>1, GraphParts DEF PresentInv, ReplacedBelow, NoLostPresentation
<1>6. /\ Active(c) /\ Present(c)
      /\ state'[c].lifecycle = "active" /\ state'[c].final = NoLayer
      /\ state'[c].temporal
  BY <1>1, Recorded
<1>7. output[c] = NoLayer /\ resolution[c] = NoLayer /\ submit[c] = Idle
  BY <1>1, <1>6, GraphParts DEF RowOf, Active, GateFree
<1>8. RowOf(c)'
  BY <1>1, <1>6, <1>7 DEF RowOf, Present, Active
<1>9. state[c].current # NoLayer => l # NoLayer /\ Reachable(l, state[c].current)
  BY <1>1, <1>2, CompletionAssumption DEF KeepsAccess
<1>. QED
  BY <1>1, <1>2, <1>3, <1>4, <1>5, <1>8, <1>9, WrittenStep

\* Stop and Fail
LEMMA EndStep ==
  ASSUME GraphInv, TypeOK', NEW c \in Completions, NEW author \in Nat, NEW key \in Keys,
         NEW expected \in Nat, NEW lifecycle \in {"stopped", "failed"}, GateFree(c),
         state[c].temporal, EndEffect(c, author, key, expected, lifecycle)
  PROVE  LayerInv' /\ RowsInv' /\ Grows /\ Frozen
<1>1. /\ Fresh(c, key, expected)
      /\ Record(c, author, key, expected, lifecycle, state[c].current, NoLayer)
      /\ UNCHANGED <<config, authority, drafts, output, resolution, presentation, replaced, submit>>
  BY DEF EndEffect
<1>2. LinkInv' /\ Accepted' = Accepted
  BY <1>1, GraphParts DEF LinkInv, ShownAccepted, AcceptedClosed, AcceptedExpandAcyclic,
                          From, Presented, Accepted, In
<1>3. PresentInv'
  BY <1>1, GraphParts DEF PresentInv, ReplacedBelow, NoLostPresentation
<1>4. /\ Active(c) /\ Present(c)
      /\ state'[c].lifecycle = lifecycle /\ state'[c].final = NoLayer
      /\ state'[c].temporal
  BY <1>1, Recorded
<1>5. output[c] = NoLayer /\ resolution[c] = NoLayer /\ submit[c] = Idle
  BY <1>1, <1>4, GraphParts DEF RowOf, Active, GateFree
<1>6. RowOf(c)'
  BY <1>1, <1>4, <1>5 DEF RowOf, Present, Active
<1>7. state[c].current \in Layers \cup {NoLayer}
  BY GraphParts DEF TypeOK, StateRow
<1>8. state[c].current # NoLayer => Reachable(state[c].current, state[c].current)
  BY <1>7, ReachSelf
<1>9. state[c].current # NoLayer => state[c].current \in Accepted'
  BY <1>2, GraphParts DEF CurrentOf
<1>10. PICK layer \in Layers \cup {NoLayer} : layer = state[c].current
  BY <1>7
<1>11. Record(c, author, key, expected, lifecycle, layer, NoLayer)
  BY <1>1, <1>10
<1>12. {} \in SUBSET OwnDrafts(c) /\ Accepted' = Accepted \cup {}
  BY <1>2
<1>. QED
  BY <1>1, <1>2, <1>3, <1>6, <1>8, <1>9, <1>10, <1>11, <1>12, WrittenStep

\* A Return accepts its layer and the target of every attached addition.
LEMMA ReturnAccepts ==
  ASSUME TypeOK, NEW c \in Completions, NEW l \in Layers, root[c] = l,
         WalkAllowed(c, ReturnWalk(c), ReturnRegistered(c)), Publish(PlanLayers(ReturnWalk(c)))
  PROVE  l \in Accepted' /\ \A k \in attached[c] : k[2] \in Accepted'
<1>. DEFINE W == ReturnWalk(c)
<1>1. /\ Accepted \subseteq Accepted'
      /\ \A a \in W : a[1] \in Layers => a[1] \in Accepted'
  BY Walked
<1>2. l \in Accepted'
  <2>1. l \notin Accepted => <<l, "expand">> \in W
    BY DEF ReturnWalk
  <2>. QED
    BY <1>1, <2>1
<1>3. ASSUME NEW k \in attached[c] PROVE k[2] \in Accepted'
  <2>1. k[2] \in Layers
    BY DEF TypeOK, Link
  <2>2. CASE <<k[2], k[3]>> = <<root[c], "reference">>
    BY <1>2, <2>2
  <2>3. CASE <<k[2], k[3]>> # <<root[c], "reference">> /\ k[2] \notin Accepted
    <3>1. <<k[2], k[3]>> \in AttachedArrivals(c)
      BY <2>3 DEF AttachedArrivals
    <3>2. <<k[2], k[3]>> \in W
      BY <2>3, <3>1 DEF ReturnWalk
    <3>. QED
      BY <1>1, <2>1, <3>2
  <2>. QED
    BY <1>1, <2>2, <2>3
<1>. QED
  BY <1>2, <1>3

\* Neither the attached additions nor the answered invoke closes an expand cycle.
LEMMA ReturnAcyclic ==
  ASSUME TypeOK, LinkInv, NEW c \in Completions, NEW l \in Layers, NEW L \in SUBSET Layers,
         L \cap Accepted = {}, ~Cyclic(Expands(From(L, links))),
         AttachedAcyclic(c, L), LeaseAcyclic(c, l, L),
         Accepted' = Accepted \cup L, links' = links,
         shown' = shown \cup attached[c] \cup { <<s, l, "expand">> : s \in {Lease[c]} \ {NoLayer} }
  PROVE  AcceptedExpandAcyclic'
<1>. DEFINE E == Expands(From(Accepted \cup L, Presented))
            F == Expands(attached[c])
            G == Expands(From(Accepted \cup L, Presented) \cup attached[c])
            H == Expands(From(Accepted, Presented))'
            m == <<Lease[c], l, "expand">>
<1>1. ~Cyclic(E)
  BY AcceptedAcyclic DEF LinkInv
<1>2. E \in SUBSET Link /\ F \in SUBSET Link /\ G = E \cup F
  BY DEF Expands, From, Presented, TypeOK
<1>3. \A k \in F : k[1] \notin Closure({k[2]}, E \cup F)
  BY <1>2 DEF AttachedAcyclic
<1>4. ~Cyclic(G)
  <2>. HIDE DEF E, F, G
  <2>. QED
    BY <1>1, <1>2, <1>3, AddEdges
<1>5. H \subseteq G \cup (IF Lease[c] = NoLayer THEN {} ELSE {m})
  BY DEF Expands, From, Presented
<1>6. CASE Lease[c] = NoLayer
  <2>1. H \in SUBSET G /\ G \in SUBSET Link
    BY <1>2, <1>5, <1>6
  <2>. HIDE DEF G, H
  <2>2. ~Cyclic(H)
    BY <1>4, <2>1, FewerEdges
  <2>. QED
    BY <2>2 DEF AcceptedExpandAcyclic, H
<1>7. CASE Lease[c] # NoLayer
  <2>1. m \in Link /\ m[1] = Lease[c] /\ m[2] = l
    BY <1>7, CompletionAssumption DEF Link, Relations
  <2>2. m[1] \notin Closure({m[2]}, G)
    BY <1>7, <2>1 DEF LeaseAcyclic
  <2>3. H \in SUBSET (G \cup {m}) /\ G \in SUBSET Link /\ G \cup {m} \in SUBSET Link
    BY <1>2, <1>5, <1>7, <2>1
  <2>. HIDE DEF G, H, m
  <2>4. ~Cyclic(G \cup {m})
    BY <1>4, <2>1, <2>2, <2>3, AddEdge
  <2>5. ~Cyclic(H)
    BY <2>3, <2>4, FewerEdges
  <2>. QED
    BY <2>5 DEF AcceptedExpandAcyclic, H
<1>. QED
  BY <1>6, <1>7

\* Return, by a broker or by a flat submit.
LEMMA ReturnStep ==
  ASSUME GraphInv, TypeOK', NEW c \in Completions, NEW author \in Nat, NEW key \in Keys,
         NEW expected \in Nat, NEW l \in Layers, ReturnEffect(c, author, key, expected, l),
         submit' = [submit EXCEPT ![c] = Idle], state[c].temporal \/ key = LegacyKey
  PROVE  LayerInv' /\ RowsInv' /\ Grows /\ Frozen
<1>. DEFINE L == PlanLayers(ReturnWalk(c))
            answer == { <<s, l, "expand">> : s \in {Lease[c]} \ {NoLayer} }
<1>1. /\ Fresh(c, key, expected) /\ Record(c, author, key, expected, "succeeded", l, l)
      /\ WalkAllowed(c, ReturnWalk(c), ReturnRegistered(c)) /\ Publish(L)
      /\ KeepsAccess(state[c].current, l) /\ root[c] = l
      /\ AttachedAcyclic(c, L) /\ LeaseAcyclic(c, l, L)
      /\ OwnDrafts(c) \subseteq L /\ staged[c] \in {NotStaged, presentation}
      /\ shown' = shown \cup attached[c] \cup answer
      /\ UNCHANGED <<config, authority, links, root>>
  BY DEF ReturnEffect, BuildReturn, ReturnAllowed
<1>2. /\ output' = [output EXCEPT ![c] = l]
      /\ resolution' = [resolution EXCEPT ![c] = IF Lease[c] = NoLayer THEN NoLayer ELSE l]
      /\ presentation' = IF staged[c] = NotStaged THEN presentation ELSE presentation + 1
      /\ replaced' = [replaced EXCEPT ![c] = staged[c]]
  BY DEF ReturnEffect
<1>3. /\ L \subseteq OwnDrafts(c) /\ Accepted' = Accepted \cup L
      /\ \A k \in Layers \ L : layerState'[k] = layerState[k]
      /\ \A k \in From(L, links) : k[2] \in Accepted'
  BY <1>1, GraphParts, Walked
<1>4. l \in Accepted' /\ \A k \in attached[c] : k[2] \in Accepted'
  BY <1>1, GraphParts, ReturnAccepts
<1>5. L \in SUBSET Layers /\ L \cap Accepted = {}
  BY <1>3 DEF OwnDrafts, Accepted, In
<1>6. ~Cyclic(Expands(From(L, links)))
  BY <1>1 DEF WalkAllowed
<1>. HIDE DEF L
<1>7. LinkInv'
  <2>1. ShownAccepted'
    <3>1. \A k \in answer : k[2] \in Accepted'
      BY <1>4
    <3>2. \A k \in shown : k[2] \in Accepted'
      BY <1>3, GraphParts DEF LinkInv, ShownAccepted
    <3>. QED
      BY <1>1, <1>4, <3>1, <3>2 DEF ShownAccepted
  <2>2. AcceptedClosed'
    <3>1. \A k \in From(Accepted, links) : k[2] \in Accepted'
      BY <1>3, GraphParts DEF LinkInv, AcceptedClosed, From, Presented
    <3>2. \A k \in From(Accepted', links) : k[2] \in Accepted'
      BY <1>3, <3>1 DEF From
    <3>. QED
      BY <1>1, <2>1, <3>2 DEF AcceptedClosed, ShownAccepted, From, Presented
  <2>3. AcceptedExpandAcyclic'
    BY <1>1, <1>3, <1>5, <1>6, GraphParts, ReturnAcyclic
  <2>. QED
    BY <2>1, <2>2, <2>3 DEF LinkInv
<1>8. /\ Active(c) /\ Present(c) /\ Len(revs[c]) = expected + 1
      /\ state'[c].lifecycle = "succeeded" /\ state'[c].current = l /\ state'[c].final = l
      /\ state'[c].temporal <=> state[c].temporal
      /\ Len(revs'[c]) = expected + 2 /\ revs'[c][expected + 2].key = key
      /\ revs'[c][expected + 2].lifecycle = "succeeded"
      /\ revs[c][expected + 1].lifecycle = "active"
  BY <1>1, Recorded
<1>9. PresentInv'
  <2>1. /\ presentation \in Nat /\ staged[c] \in Nat \cup {-1}
        /\ \A d \in Completions : replaced[d] \in Nat \cup {-1} /\ replaced[d] < presentation
    BY GraphParts DEF TypeOK, PresentInv, ReplacedBelow, NotStaged
  <2>2. /\ replaced'[c] = staged[c] /\ \A d \in Completions : d # c => replaced'[d] = replaced[d]
    BY <1>2, GraphParts DEF TypeOK
  <2>3. CASE staged[c] = NotStaged
    BY <1>2, <2>1, <2>2, <2>3, GraphParts
    DEF PresentInv, ReplacedBelow, NoLostPresentation, NotStaged
  <2>4. CASE staged[c] # NotStaged
    <3>1. presentation' = presentation + 1 /\ staged[c] = presentation
      BY <1>1, <1>2, <2>4
    <3>2. ReplacedBelow'
      BY <2>1, <2>2, <3>1 DEF ReplacedBelow
    <3>3. \A d \in Completions : d # c => replaced'[d] # replaced'[c]
      BY <2>1, <2>2, <3>1
    <3>4. \A d, e \in Completions : (d # e /\ d # c /\ e # c /\ replaced'[d] # NotStaged)
                                      => replaced'[d] # replaced'[e]
      BY <2>2, GraphParts DEF PresentInv, NoLostPresentation
    <3>5. NoLostPresentation'
      BY <3>3, <3>4 DEF NoLostPresentation
    <3>. QED
      BY <3>2, <3>5 DEF PresentInv
  <2>. QED
    BY <2>3, <2>4
<1>10. RowOf(c)'
  <2>1. l # NoLayer
    BY CompletionAssumption
  <2>2. output'[c] = l /\ resolution'[c] = (IF Lease[c] = NoLayer THEN NoLayer ELSE l)
        /\ submit'[c] = Idle
    BY <1>2, GraphParts DEF TypeOK
  <2>3. Lease[c] # NoLayer => <<Lease[c], l, "expand">> \in shown'
    BY <1>1
  <2>4. OwnDrafts(c)' = {}
    BY <1>1, <1>3 DEF OwnDrafts, In, Accepted, Own
  <2>5. ~state[c].temporal => expected = 0 /\ key = LegacyKey
    <3>. SUFFICES ASSUME ~state[c].temporal PROVE expected = 0
      OBVIOUS
    <3>1. \A i \in 2..Len(revs[c]) : revs[c][i].lifecycle = "succeeded"
      BY <1>8, GraphParts DEF RowOf
    <3>2. expected + 1 \notin 2..Len(revs[c])
      BY <1>8, <3>1
    <3>. QED
      BY <1>8, <3>2
  <2>6. ~state'[c].temporal =>
          /\ Len(revs'[c]) <= 2
          /\ \A i \in 2..Len(revs'[c]) :
               revs'[c][i].key = LegacyKey /\ revs'[c][i].lifecycle = "succeeded"
    <3>. SUFFICES ASSUME ~state'[c].temporal
                  PROVE  /\ Len(revs'[c]) <= 2
                         /\ \A i \in 2..Len(revs'[c]) :
                              revs'[c][i].key = LegacyKey /\ revs'[c][i].lifecycle = "succeeded"
      OBVIOUS
    <3>1. expected = 0 /\ key = LegacyKey
      BY <1>8, <2>5
    <3>2. Len(revs'[c]) = 2 /\ revs'[c][2].key = LegacyKey /\ revs'[c][2].lifecycle = "succeeded"
      BY <1>8, <3>1
    <3>. QED
      BY <3>2
  <2>. QED
    BY <1>4, <1>8, <2>1, <2>2, <2>3, <2>4, <2>6 DEF RowOf, Present, Active
<1>11. \A d \in Completions : d # c =>
         /\ output'[d] = output[d] /\ resolution'[d] = resolution[d]
         /\ submit'[d] = submit[d] /\ root'[d] = root[d]
  BY <1>1, <1>2, GraphParts DEF TypeOK
<1>12. state[c].current # NoLayer => l # NoLayer /\ Reachable(l, state[c].current)
  BY <1>1, CompletionAssumption DEF KeepsAccess
<1>13. l \in Layers \cup {NoLayer} /\ shown \subseteq shown' /\ links' = links
       /\ L \in SUBSET OwnDrafts(c)
  BY <1>1, <1>3
<1>. QED
  BY <1>1, <1>3, <1>4, <1>7, <1>9, <1>10, <1>11, <1>12, <1>13, WrittenStep

-----------------------------------------------------------------------------
(* The invariant and the theorems. *)

\* Every step keeps the layer graph and the rows, and never takes back what was
\* accepted or ended.
LEMMA GraphStep ==
  ASSUME GraphInv, [Next]_vars
  PROVE  GraphInv' /\ Grows /\ Frozen
<1>. DEFINE Goal == LayerInv' /\ RowsInv' /\ Grows /\ Frozen
<1>. HIDE DEF Goal
<1>. USE CompletionAssumption
<1>1. Inv'
  <2>1. TypeOK'
    BY TypeStep DEF GraphInv, Inv
  <2>2. (RowInv /\ HistoryConsistent /\ OneRevisionPerOperation /\ AuthorsInOrder)'
    BY HistoryStep DEF GraphInv
  <2>. QED
    BY <2>1, <2>2 DEF Inv
<1>2. TypeOK' /\ TypeOK
  BY <1>1, GraphParts DEF Inv
<1>3. \A d \in Completions : submit[d] # Idle =>
        Active(d) /\ state[d].head = submit[d].expected /\ root[d] = submit[d].layer
  BY GraphParts DEF RowOf
<1>15. ASSUME UNCHANGED <<current_row, drafts, results, submit>> PROVE Goal
  BY <1>2, <1>3, <1>15, QuietStep DEF Goal
<1>4. ASSUME NEW c \in Completions, Initialize(c) PROVE Goal
  BY <1>2, <1>4, InitializeStep DEF Goal
<1>5. ASSUME NEW c \in Completions, ActivateAuthority(c) \/ CutoverAuthority(c) PROVE Goal
  <2>1. UNCHANGED <<current_row, drafts, results, submit>>
    BY <1>5 DEF ActivateAuthority, CutoverAuthority
  <2>. QED
    BY <1>2, <1>3, <2>1, QuietStep DEF Goal
<1>6. ASSUME NEW c \in Completions, NEW e \in 1..MaxEpoch, AuthorDraft(c, e) PROVE Goal
  BY <1>2, <1>6, DraftStep DEF Goal
<1>7. ASSUME NEW c \in Completions, NEW e \in 1..MaxEpoch, BrokerTransition(c, e) PROVE Goal
  <2>1. PICK key \in Keys, expected \in 0..MaxHead :
          \/ \E l \in Own(c) : Advance(c, e, key, expected, l)
          \/ \E l \in Own(c) : Return(c, e, key, expected, l)
          \/ BrokerStop(c, e, key, expected)
    BY <1>7 DEF BrokerTransition
  <2>2. expected \in Nat /\ e \in Nat
    OBVIOUS
  <2>3. ASSUME NEW l \in Own(c), Advance(c, e, key, expected, l) PROVE Goal
    BY <1>2, <2>2, <2>3, AdvanceStep DEF Goal
  <2>4. ASSUME NEW l \in Own(c), Return(c, e, key, expected, l) PROVE Goal
    <3>1. ReturnEffect(c, e, key, expected, l) /\ state[c].temporal /\ submit[c] = Idle
          /\ UNCHANGED submit /\ l \in Layers
      BY <2>4 DEF Return, TemporalWriter, Writable, GateFree, Own
    <3>2. submit' = [submit EXCEPT ![c] = Idle]
      BY <1>2, <3>1 DEF TypeOK
    <3>. QED
      BY <1>2, <2>2, <3>1, <3>2, ReturnStep DEF Goal
  <2>5. CASE BrokerStop(c, e, key, expected)
    BY <1>2, <2>2, <2>5, EndStep DEF Goal, BrokerStop, Writable, TemporalWriter
  <2>. QED
    BY <2>1, <2>3, <2>4, <2>5
<1>8. ASSUME NEW c \in Completions, NEW e \in 1..MaxEpoch, SubmitRead(c, e) PROVE Goal
  <2>1. /\ Active(c) /\ UNCHANGED <<current_row, drafts, results>>
        /\ submit' = [submit EXCEPT ![c] =
             [epoch |-> e, layer |-> root[c], expected |-> state[c].head]]
    BY <1>8 DEF SubmitRead, Writable, Authorized
  <2>2. \A d \in Completions : submit'[d] # Idle =>
          Active(d) /\ state[d].head = submit'[d].expected /\ root[d] = submit'[d].layer
    BY <1>2, <1>3, <2>1 DEF TypeOK
  <2>. QED
    BY <1>2, <2>1, <2>2, QuietStep DEF Goal
<1>9. ASSUME NEW c \in Completions, NEW key \in Keys, NEW expected \in 0..MaxHead,
             NEW lifecycle \in {"stopped", "failed"}, ControlEnd(c, key, expected, lifecycle)
      PROVE  Goal
  BY <1>2, <1>9, EndStep DEF Goal, ControlEnd, TemporalWriter
<1>10. ASSUME NEW c \in Completions, SubmitReturn(c) PROVE Goal
  <2>1. /\ submit[c].epoch \in Nat /\ submit[c].expected \in Nat
        /\ submit[c].layer \in Layers \cup {NoLayer}
    BY <1>2 DEF TypeOK
  <2>2. /\ ReturnEffect(c, submit[c].epoch, LegacyKey, submit[c].expected, submit[c].layer)
        /\ submit' = [submit EXCEPT ![c] = Idle]
    BY <1>10 DEF SubmitReturn
  <2>3. submit[c].layer \in Layers
    BY <2>1, <2>2 DEF ReturnEffect, BuildReturn, ReturnAllowed
  <2>. QED
    BY <1>2, <2>1, <2>2, <2>3, ReturnStep DEF Goal
<1>11. ASSUME NEW c \in Completions, SubmitDropped(c) PROVE Goal
  <2>1. UNCHANGED <<current_row, drafts, results>> /\ submit' = [submit EXCEPT ![c] = Idle]
    BY <1>11 DEF SubmitDropped
  <2>2. \A d \in Completions : submit'[d] # Idle =>
          Active(d) /\ state[d].head = submit'[d].expected /\ root[d] = submit'[d].layer
    BY <1>2, <1>3, <2>1 DEF TypeOK
  <2>. QED
    BY <1>2, <2>1, <2>2, QuietStep DEF Goal
<1>12. ASSUME NEW flag \in Flags, ServerRestart(flag) PROVE Goal
  <2>1. UNCHANGED <<current_row, drafts, results>> /\ \A d \in Completions : submit'[d] = Idle
    BY <1>12 DEF ServerRestart
  <2>. QED
    BY <1>2, <2>1, QuietStep DEF Goal
<1>13. ASSUME UNCHANGED vars PROVE Goal
  BY <1>13, <1>15
<1>14. Goal
  BY <1>4, <1>5, <1>6, <1>7, <1>8, <1>9, <1>10, <1>11, <1>12, <1>13 DEF Next
<1>. QED
  BY <1>1, <1>14 DEF GraphInv, Goal

\* The empty tables satisfy the invariant.
LEMMA GraphInit == Init => GraphInv
<1>. SUFFICES ASSUME Init PROVE GraphInv
  OBVIOUS
<1>1. Inv
  BY InitInv
<1>2. /\ \A c \in Completions : ~Present(c) /\ ~Active(c) /\ revs[c] = <<>>
      /\ outbox = <<>> /\ links = {} /\ shown = {} /\ Accepted = {} /\ submit = [c \in Completions |-> Idle]
  BY DEF Init, Present, Active, Accepted, In
<1>3. 1..Len(outbox) = {} /\ \A c \in Completions : Len(revs[c]) = 0
  BY <1>2
<1>4. LinkInv
  BY <1>2 DEF LinkInv, ShownAccepted, AcceptedClosed, AcceptedExpandAcyclic, Cyclic, Expands,
              From, Presented
<1>5. LeaseAccepted /\ CurrentAccepted /\ EverCurrentReachable
  BY <1>2, <1>3 DEF LeaseAccepted, CurrentAccepted, EverCurrentReachable, Init
<1>6. ReplacedBelow /\ NoLostPresentation
  BY DEF ReplacedBelow, NoLostPresentation, Init, NotStaged
<1>7. EveryRevisionProjected
  BY <1>3 DEF EveryRevisionProjected
<1>8. DarkCompletionFlat /\ SubmitNotStale
  BY <1>2 DEF DarkCompletionFlat, SubmitNotStale
<1>9. OutputIsFinal /\ NoStrandedDraft
  BY DEF OutputIsFinal, NoStrandedDraft, Init
<1>. QED
  BY <1>1, <1>4, <1>5, <1>6, <1>7, <1>8, <1>9 DEF GraphInv, LayerInv, RowsInv, LinkInv

\* The inductive invariant holds in every reachable state.
LEMMA GraphInvariant == Spec => []GraphInv
<1>1. GraphInv /\ [Next]_vars => GraphInv'
  BY GraphStep
<1>. QED
  BY <1>1, GraphInit, PTL DEF Spec

\* Whatever is published in between, every layer that was ever a completion's current
\* can be navigated to from its present one (require_accessibility).
THEOREM CurrentsStayReachable == Spec => []EverCurrentReachable
<1>1. GraphInv => EverCurrentReachable
  BY DEF GraphInv, LayerInv
<1>. QED
  BY <1>1, GraphInvariant, PTL

\* An accepted layer presents accepted layers only: the walk of CompletionPlan, the
\* additions and the answered invokes never publish a link to anything else.
THEOREM AcceptedGraphClosed == Spec => []AcceptedClosed
<1>1. GraphInv => AcceptedClosed
  BY DEF GraphInv, LayerInv
<1>. QED
  BY <1>1, GraphInvariant, PTL

\* Accepted layers never expand into themselves, whichever completions extend each
\* other's layers and in whichever order they return.
THEOREM AcceptedGraphAcyclic == Spec => []AcceptedExpandAcyclic
<1>1. GraphInv => AcceptedExpandAcyclic
  BY DEF GraphInv, LayerInv
<1>. QED
  BY <1>1, GraphInvariant, PTL

\* Output, final layer, current and answered invoke agree.
THEOREM OutputsAgree == Spec => []OutputIsFinal
<1>1. GraphInv => OutputIsFinal
  BY DEF GraphInv, RowsInv
<1>. QED
  BY <1>1, GraphInvariant, PTL

\* A completion that returned left no draft behind.
THEOREM NoDraftLeftBehind == Spec => []NoStrandedDraft
<1>1. GraphInv => NoStrandedDraft
  BY DEF GraphInv, RowsInv
<1>. QED
  BY <1>1, GraphInvariant, PTL

\* A completion created dark is written by one flat submit only, whatever the server's
\* flag becomes.
THEOREM DarkStaysFlat == Spec => []DarkCompletionFlat
<1>1. GraphInv => DarkCompletionFlat
  BY DEF GraphInv, RowsInv
<1>. QED
  BY <1>1, GraphInvariant, PTL

\* No presentation of the shared node is silently overwritten.
THEOREM NoPresentationLost == Spec => []NoLostPresentation
<1>1. GraphInv => NoLostPresentation
  BY DEF GraphInv, RowsInv
<1>. QED
  BY <1>1, GraphInvariant, PTL

\* What a flat submit read in its first transaction still holds in its second.
THEOREM SubmitsNotStale == Spec => []SubmitNotStale
<1>1. GraphInv => SubmitNotStale
  BY DEF GraphInv, RowsInv
<1>. QED
  BY <1>1, GraphInvariant, PTL

\* The outbox announces every revision once, in order, and none early.
THEOREM RevisionsProjected == Spec => []EveryRevisionProjected
<1>1. GraphInv => EveryRevisionProjected
  BY DEF GraphInv, RowsInv
<1>. QED
  BY <1>1, GraphInvariant, PTL

\* A completion that ended, and the layers it owns, never change again.
THEOREM EndsAreFrozen == Spec => TerminalFrozen
<1>1. GraphInv /\ [Next]_vars => [\A c \in Completions : (Present(c) /\ ~Active(c)) =>
        /\ state'[c] = state[c] /\ revs'[c] = revs[c] /\ output'[c] = output[c]
        /\ \A l \in Own(c) : layerState'[l] = layerState[l]]_vars
  BY GraphStep DEF Frozen
<1>. QED
  BY <1>1, GraphInvariant, PTL DEF Spec, TerminalFrozen

\* An accepted layer stays accepted and keeps every link it presents.
THEOREM AcceptedOnlyGrows == Spec => AcceptedGrows
<1>1. GraphInv /\ [Next]_vars => [/\ Accepted \subseteq Accepted'
                                  /\ From(Accepted, Presented) \subseteq Presented']_vars
  BY GraphStep DEF Grows
<1>. QED
  BY <1>1, GraphInvariant, PTL DEF Spec, AcceptedGrows
-----------------------------------------------------------------------------
(* The tables implement the completion log. *)

\* No epoch is activated beyond the bound.
EpochBounded == \A c \in Completions : epoch[c] <= MaxEpoch

\* Activation and cutover raise an epoch by one, below the bound.
LEMMA EpochStep ==
  ASSUME TypeOK, EpochBounded, [Next]_vars
  PROVE  EpochBounded'
<1>. USE CompletionAssumption
<1>1. ASSUME NEW c \in Completions, ActivateAuthority(c) \/ CutoverAuthority(c)
      PROVE  EpochBounded'
  <2>1. epoch' = [epoch EXCEPT ![c] = @ + 1] /\ epoch[c] < MaxEpoch
    BY <1>1 DEF ActivateAuthority, CutoverAuthority
  <2>. QED
    BY <2>1 DEF EpochBounded, TypeOK
<1>2. ASSUME UNCHANGED epoch PROVE EpochBounded'
  BY <1>2 DEF EpochBounded
<1>3. ASSUME NEW c \in Completions, NEW e \in 1..MaxEpoch, AuthorDraft(c, e) PROVE UNCHANGED epoch
  BY <1>3 DEF AuthorDraft, SubmitLayer, DiscardLayer, SetRoot, AddAction, AttachAction,
              StagePresentation, authority
<1>4. ASSUME NEW c \in Completions, NEW e \in 1..MaxEpoch, BrokerTransition(c, e)
      PROVE  UNCHANGED epoch
  BY <1>4 DEF BrokerTransition, Advance, Return, ReturnEffect, BrokerStop, EndEffect, authority
<1>5. ASSUME NEW c \in Completions,
             \/ Initialize(c)
             \/ \E e \in 1..MaxEpoch : SubmitRead(c, e)
             \/ \E key \in Keys, expected \in 0..MaxHead, lifecycle \in {"stopped", "failed"} :
                  ControlEnd(c, key, expected, lifecycle)
             \/ SubmitReturn(c)
             \/ SubmitDropped(c)
      PROVE  UNCHANGED epoch
  BY <1>5 DEF Initialize, SubmitRead, ControlEnd, EndEffect, SubmitReturn, ReturnEffect,
              SubmitDropped, authority
<1>6. ASSUME NEW flag \in Flags, ServerRestart(flag) PROVE UNCHANGED epoch
  BY <1>6 DEF ServerRestart
<1>7. CASE UNCHANGED vars
  BY <1>2, <1>7 DEF vars, authority
<1>. QED
  BY <1>1, <1>2, <1>3, <1>4, <1>5, <1>6, <1>7 DEF Next

\* A fresh transition, by the broker of the present epoch or by trusted control, is
\* one the log admits.
LEMMA LogAdmits ==
  ASSUME GraphInv, NEW c \in Completions, NEW author \in Nat, NEW key \in Keys,
         NEW expected \in Nat, Fresh(c, key, expected), author # 0 => author = epoch[c]
  PROVE  /\ Log!Admits(c, author, key)
         /\ Log!Last(c).current = state[c].current
         /\ Len(revs[c]) = expected + 1
<1>1. /\ Present(c) /\ state[c].lifecycle = "active" /\ state[c].head = expected
      /\ \A i \in 1..Len(revs[c]) : revs[c][i].key # key
  BY DEF Fresh, Active, Present
<1>2. /\ Len(revs[c]) = expected + 1
      /\ revs[c][Len(revs[c])].current = state[c].current
      /\ revs[c][Len(revs[c])].lifecycle = "active"
  BY <1>1, GraphParts DEF HistoryConsistent
<1>3. Log!Open(c)
  BY <1>2 DEF Log!Open, Log!Last
<1>4. \A i \in 1..Len(revs[c]) : author # 0 => revs[c][i].author <= author
  BY GraphParts DEF RowInv
<1>. QED
  BY <1>1, <1>2, <1>3, <1>4 DEF Log!Admits, Log!Last

\* Recording a revision extends the log and announces it on the feed.
LEMMA LogExtends ==
  ASSUME TypeOK, NEW c \in Completions, NEW author, NEW key, NEW expected \in Nat,
         NEW lifecycle, NEW layer, NEW last, Len(revs[c]) = expected + 1,
         Record(c, author, key, expected, lifecycle, layer, last)
  PROVE  Log!Extend(c, author, key, layer, lifecycle)
BY DEF Record, Log!Extend, TypeOK

\* The log's view of who owns a layer is the tables'.
LEMMA LogOwn == \A c : Log!Own(c) = Own(c)
BY DEF Log!Own, Own

\* An Advance of the present broker is an Advance of the log.
LEMMA AdvanceLogged ==
  ASSUME GraphInv, NEW c \in Completions, NEW e \in 1..MaxEpoch, NEW key \in Keys,
         NEW expected \in 0..MaxHead, NEW l \in Own(c), Advance(c, e, key, expected, l)
  PROVE  Log!Next
<1>. USE CompletionAssumption
<1>. DEFINE L == PlanLayers({<<l, "expand">>})
<1>1. /\ e = epoch[c] /\ Fresh(c, key, expected) /\ l \notin Accepted
      /\ WalkAllowed(c, {<<l, "expand">>}, {}) /\ Publish(L)
      /\ Record(c, e, key, expected, "active", l, NoLayer)
  BY DEF Advance, Writable, Authorized, BuildCurrent
<1>2. TypeOK /\ l \in Layers /\ expected \in Nat /\ e \in Nat
  BY GraphParts DEF Own
<1>3. /\ L \subseteq OwnDrafts(c) /\ Accepted' = Accepted \cup L
      /\ \A a \in {<<l, "expand">>} : a[1] \in Layers => a[1] \in Accepted'
  BY <1>1, <1>2, Walked
<1>. HIDE DEF L
<1>4. l \in L \ Accepted /\ L \subseteq Own(c) /\ L \in SUBSET Layers
  BY <1>1, <1>2, <1>3 DEF OwnDrafts, Own
<1>5. Log!Admits(c, e, key) /\ Len(revs[c]) = expected + 1
  BY <1>1, <1>2, LogAdmits
<1>6. Log!Extend(c, e, key, l, "active")
  BY <1>1, <1>2, <1>5, LogExtends
<1>7. Log!Advance(c, e, key, l, L)
  BY <1>3, <1>4, <1>5, <1>6, LogOwn DEF Log!Advance
<1>8. e \in 0..MaxEpoch
  BY <1>2
<1>. QED
  BY <1>2, <1>4, <1>7, <1>8 DEF Log!Next

\* A Return, of a transition request or of the second transaction of a flat submit,
\* is a Return of the log.
LEMMA ReturnLogged ==
  ASSUME GraphInv, NEW c \in Completions, NEW e \in 1..MaxEpoch, e = epoch[c],
         NEW key \in Keys, NEW expected \in Nat, NEW l \in Layers,
         ReturnEffect(c, e, key, expected, l)
  PROVE  Log!Next
<1>. USE CompletionAssumption
<1>. DEFINE L == PlanLayers(ReturnWalk(c))
<1>1. /\ Fresh(c, key, expected) /\ root[c] = l
      /\ l \in Accepted => Owner[l] = c /\ state[c].current = l
      /\ WalkAllowed(c, ReturnWalk(c), ReturnRegistered(c)) /\ Publish(L)
      /\ Record(c, e, key, expected, "succeeded", l, l)
  BY DEF ReturnEffect, BuildReturn, ReturnAllowed
<1>2. TypeOK /\ e \in Nat
  BY GraphParts
<1>3. L \subseteq OwnDrafts(c) /\ Accepted' = Accepted \cup L
  BY <1>1, <1>2, Walked
<1>4. l \in Accepted'
  BY <1>1, <1>2, ReturnAccepts
<1>. HIDE DEF L
<1>5. L \subseteq Own(c) /\ L \in SUBSET Layers
  BY <1>3 DEF OwnDrafts, Own
<1>6. /\ Log!Admits(c, e, key) /\ Log!Last(c).current = state[c].current
      /\ Len(revs[c]) = expected + 1
  BY <1>1, <1>2, LogAdmits
<1>7. Log!Extend(c, e, key, l, "succeeded")
  BY <1>1, <1>2, <1>6, LogExtends
<1>8. l \in (L \ Accepted) \cup ({Log!Last(c).current} \cap Accepted)
  BY <1>1, <1>3, <1>4, <1>6
<1>9. l \in Own(c)
  BY <1>1, <1>3, <1>4, <1>5 DEF Own
<1>10. Log!Return(c, e, key, l, L)
  BY <1>3, <1>5, <1>6, <1>7, <1>8, <1>9, LogOwn DEF Log!Return
<1>11. e \in 0..MaxEpoch
  BY <1>2
<1>. QED
  BY <1>5, <1>10, <1>11 DEF Log!Next

\* A Stop or a Fail, of the present broker or of trusted control, ends the log.
LEMMA EndLogged ==
  ASSUME GraphInv, NEW c \in Completions, NEW author \in 0..MaxEpoch,
         author # 0 => author = epoch[c], NEW key \in Keys, NEW expected \in Nat,
         NEW lifecycle \in {"stopped", "failed"}, EndEffect(c, author, key, expected, lifecycle)
  PROVE  Log!Next
<1>. USE CompletionAssumption
<1>1. /\ Fresh(c, key, expected) /\ UNCHANGED layerState
      /\ Record(c, author, key, expected, lifecycle, state[c].current, NoLayer)
  BY DEF EndEffect, drafts
<1>2. TypeOK /\ author \in Nat
  BY GraphParts
<1>3. /\ Log!Admits(c, author, key) /\ Log!Last(c).current = state[c].current
      /\ Len(revs[c]) = expected + 1
  BY <1>1, <1>2, LogAdmits
<1>4. Log!Extend(c, author, key, Log!Last(c).current, lifecycle)
  BY <1>1, <1>2, <1>3, LogExtends
<1>5. UNCHANGED Accepted
  BY <1>1 DEF Accepted, In
<1>6. Log!End(c, author, key, lifecycle)
  BY <1>3, <1>4, <1>5 DEF Log!End
<1>. QED
  BY <1>6 DEF Log!Next

\* Creating a completion starts its log.
LEMMA StartLogged ==
  ASSUME GraphInv, NEW c \in Completions, Initialize(c)
  PROVE  Log!Next
<1>1. /\ ~Present(c) /\ UNCHANGED layerState
      /\ revs' = [revs EXCEPT ![c] = <<[rev |-> 0, current |-> NoLayer,
           lifecycle |-> "active", key |-> "initial", author |-> 0]>>]
      /\ outbox' = Append(outbox, <<c, 0>>)
  BY DEF Initialize, Present, drafts
<1>2. revs[c] = <<>> /\ TypeOK
  BY <1>1, GraphParts DEF RowInv
<1>3. Len(revs[c]) = 0
  BY <1>2
<1>4. Append(revs[c], [rev |-> 0, current |-> NoLayer, lifecycle |-> "active",
                       key |-> "initial", author |-> 0])
        = <<[rev |-> 0, current |-> NoLayer, lifecycle |-> "active",
             key |-> "initial", author |-> 0]>>
  BY <1>2
<1>5. Log!Extend(c, 0, "initial", NoLayer, "active")
  BY <1>1, <1>2, <1>3, <1>4 DEF Log!Extend, TypeOK
<1>6. UNCHANGED Accepted
  BY <1>1 DEF Accepted, In
<1>. QED
  BY <1>2, <1>5, <1>6 DEF Log!Next, Log!Start

\* Every step of the tables is a step of the log or changes nothing a reader sees.
LEMMA LogStep ==
  ASSUME GraphInv, EpochBounded, [Next]_vars
  PROVE  [Log!Next]_Log!vars
<1>. USE CompletionAssumption
<1>. DEFINE Goal == Log!Next \/ UNCHANGED <<revs, outbox, Accepted>>
<1>1. TypeOK /\ LinkInv
  BY GraphParts
<1>2. ASSUME UNCHANGED <<current_row, drafts>> PROVE Goal
  BY <1>2 DEF Accepted, In, current_row, drafts
<1>3. ASSUME NEW c \in Completions, ActivateAuthority(c) \/ CutoverAuthority(c) PROVE Goal
  BY <1>2, <1>3 DEF ActivateAuthority, CutoverAuthority
<1>4. ASSUME NEW c \in Completions, NEW e \in 1..MaxEpoch, AuthorDraft(c, e) PROVE Goal
  <2>1. LayersKept /\ UNCHANGED current_row
    BY <1>1, <1>4, DraftLayers
  <2>. QED
    BY <2>1 DEF LayersKept, current_row
<1>5. ASSUME NEW c \in Completions, NEW e \in 1..MaxEpoch, BrokerTransition(c, e) PROVE Goal
  <2>1. PICK key \in Keys, expected \in 0..MaxHead :
          \/ \E l \in Own(c) : Advance(c, e, key, expected, l)
          \/ \E l \in Own(c) : Return(c, e, key, expected, l)
          \/ BrokerStop(c, e, key, expected)
    BY <1>5 DEF BrokerTransition
  <2>2. expected \in Nat /\ e \in 0..MaxEpoch
    OBVIOUS
  <2>3. ASSUME NEW l \in Own(c), Advance(c, e, key, expected, l) PROVE Goal
    BY <2>3, AdvanceLogged
  <2>4. ASSUME NEW l \in Own(c), Return(c, e, key, expected, l) PROVE Goal
    <3>1. ReturnEffect(c, e, key, expected, l) /\ e = epoch[c] /\ l \in Layers
      BY <2>4 DEF Return, Writable, Authorized, Own
    <3>. QED
      BY <2>2, <3>1, ReturnLogged
  <2>5. ASSUME BrokerStop(c, e, key, expected) PROVE Goal
    <3>1. EndEffect(c, e, key, expected, "stopped") /\ e = epoch[c]
      BY <2>5 DEF BrokerStop, Writable, Authorized
    <3>. QED
      BY <2>2, <3>1, EndLogged
  <2>. QED
    BY <2>1, <2>3, <2>4, <2>5
<1>6. ASSUME NEW c \in Completions, NEW e \in 1..MaxEpoch, SubmitRead(c, e) PROVE Goal
  BY <1>2, <1>6 DEF SubmitRead
<1>7. ASSUME NEW c \in Completions, NEW key \in Keys, NEW expected \in 0..MaxHead,
             NEW lifecycle \in {"stopped", "failed"}, ControlEnd(c, key, expected, lifecycle)
      PROVE  Goal
  <2>1. EndEffect(c, 0, key, expected, lifecycle)
    BY <1>7 DEF ControlEnd
  <2>2. 0 \in 0..MaxEpoch /\ expected \in Nat
    OBVIOUS
  <2>. QED
    BY <2>1, <2>2, EndLogged
<1>8. ASSUME NEW c \in Completions, SubmitReturn(c) PROVE Goal
  <2>1. /\ ReturnEffect(c, submit[c].epoch, LegacyKey, submit[c].expected, submit[c].layer)
        /\ submit[c].epoch = epoch[c] /\ submit[c].epoch \in 1..issued[c]
    BY <1>8 DEF SubmitReturn, Authorized
  <2>2. /\ submit[c].expected \in Nat /\ submit[c].layer \in Layers \cup {NoLayer}
        /\ issued[c] \in Nat
    BY <1>1 DEF TypeOK
  <2>3. submit[c].layer \in Layers
    BY <2>1, <2>2 DEF ReturnEffect, BuildReturn, ReturnAllowed
  <2>4. submit[c].epoch \in 1..MaxEpoch
    BY <2>1, <2>2 DEF EpochBounded
  <2>. QED
    BY <2>1, <2>2, <2>3, <2>4, ReturnLogged
<1>9. ASSUME NEW c \in Completions, SubmitDropped(c) PROVE Goal
  BY <1>2, <1>9 DEF SubmitDropped
<1>10. ASSUME NEW flag \in Flags, ServerRestart(flag) PROVE Goal
  BY <1>2, <1>10 DEF ServerRestart
<1>11. ASSUME UNCHANGED vars PROVE Goal
  BY <1>2, <1>11 DEF vars
<1>12. ASSUME NEW c \in Completions, Initialize(c) PROVE Goal
  BY <1>12, StartLogged
<1>13. Goal
  BY <1>3, <1>4, <1>5, <1>6, <1>7, <1>8, <1>9, <1>10, <1>11, <1>12 DEF Next
<1>. QED
  BY <1>13 DEF Log!vars

\* The tables implement the completion log: whatever drafts, delayed brokers, flat
\* submits and restarts do, a reader sees one append-only log per completion, announced
\* in the step that appends, with every current published by then.
THEOREM TablesImplementLog == Spec => ImplementsCompletionLog
<1>1. Init => Log!Init
  BY DEF Init, Log!Init, Accepted, In
<1>2. Init => EpochBounded
  BY CompletionAssumption DEF Init, EpochBounded
<1>3. GraphInv /\ EpochBounded /\ [Next]_vars => EpochBounded'
  BY GraphParts, EpochStep
<1>4. GraphInv /\ EpochBounded /\ [Next]_vars => [Log!Next]_Log!vars
  BY LogStep
<1>. QED
  BY <1>1, <1>2, <1>3, <1>4, GraphInvariant, PTL DEF Spec, ImplementsCompletionLog, Log!Spec
=============================================================================
