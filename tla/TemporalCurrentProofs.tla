------------------------ MODULE TemporalCurrentProofs ------------------------
(* Proofs about TemporalCurrent, for every set of completions, layers, keys,  *)
(* leases, contracts and links, and every bound.                              *)
EXTENDS TemporalCurrent, TLAPS

USE DEF current_row, authority, drafts, results, vars

-----------------------------------------------------------------------------
(* The inductive invariant. *)

\* A completion without a row has no revisions; no broker wrote with an epoch that
\* was not yet given out.
RowInv ==
  \A c \in Completions :
    /\ ~Present(c) => revs[c] = <<>>
    /\ \A i \in 1..Len(revs[c]) : revs[c][i].author <= epoch[c]

Inv == TypeOK /\ RowInv /\ HistoryConsistent /\ OneRevisionPerOperation /\ AuthorsInOrder

-----------------------------------------------------------------------------
(* Type correctness. *)

\* Everything the transitions write to the completion's own rows.
RowType ==
  /\ state \in [Completions -> StateRow]
  /\ revs \in [Completions -> Seq(RevisionRow)]
  /\ outbox \in Seq(Completions \X Nat)

\* move_head keeps the type of a completion_states row.
LEMMA StateRows ==
  ASSUME NEW r \in StateRow, NEW head \in Nat, NEW lifecycle \in Lifecycles,
         NEW layer \in Layers \cup {NoLayer}, NEW last \in Layers \cup {NoLayer}
  PROVE  [r EXCEPT !.head = head, !.lifecycle = lifecycle,
                   !.current = layer, !.final = last] \in StateRow
  BY DEF StateRow

\* append_revision, move_head and append_projection keep the types.
LEMMA RecordType ==
  ASSUME TypeOK, NEW c \in Completions, NEW author \in Nat, NEW key \in Keys,
         NEW expected \in Nat, NEW lifecycle \in Lifecycles,
         NEW layer \in Layers \cup {NoLayer}, NEW last \in Layers \cup {NoLayer},
         Record(c, author, key, expected, lifecycle, layer, last)
  PROVE  RowType'
<1>1. [rev |-> expected + 1, current |-> layer, lifecycle |-> lifecycle,
       key |-> key, author |-> author] \in RevisionRow
  BY DEF RevisionRow
<1>2. [state[c] EXCEPT !.head = expected + 1, !.lifecycle = lifecycle,
                       !.current = layer, !.final = last] \in StateRow
  <2>1. state[c] \in StateRow
    BY DEF TypeOK
  <2>2. expected + 1 \in Nat
    OBVIOUS
  <2>. QED
    BY <2>1, <2>2, StateRows
<1>3. revs' \in [Completions -> Seq(RevisionRow)]
  BY <1>1 DEF Record, TypeOK
<1>4. state' \in [Completions -> StateRow]
  BY <1>2 DEF Record, TypeOK
<1>5. outbox' \in Seq(Completions \X Nat)
  BY DEF Record, TypeOK
<1>. QED
  BY <1>3, <1>4, <1>5 DEF RowType

\* The empty tables have their types.
LEMMA InitType == Init => TypeOK
<1>. SUFFICES ASSUME Init PROVE TypeOK
  OBVIOUS
<1>1. state \in [Completions -> StateRow]
  BY DEF Init, StateRow
<1>2. submit \in [Completions -> [epoch : Nat, layer : Layers \cup {NoLayer}, expected : Nat]]
  BY DEF Init, Idle
<1>3. revs \in [Completions -> Seq(RevisionRow)] /\ outbox \in Seq(Completions \X Nat)
  BY DEF Init
<1>. QED
  BY <1>1, <1>2, <1>3, CompletionAssumption DEF Init, TypeOK, NotStaged

\* Draft writes touch layers, actions and the staged presentation only.
LEMMA DraftType ==
  ASSUME TypeOK, NEW c \in Completions, NEW e \in Nat, AuthorDraft(c, e)
  PROVE  TypeOK'
<1>. USE CompletionAssumption DEF TypeOK
<1>1. ASSUME NEW l \in Own(c), NEW K \in SUBSET From(Accepted, Presented), SubmitLayer(c, e, l, K)
      PROVE  TypeOK'
  <2>1. l \in Layers /\ K \subseteq Link
    BY DEF Own, From, Presented
  <2>2. { <<l, k[2], k[3]>> : k \in K } \subseteq Link
    <3>1. \A k \in Link : k[2] \in Layers /\ k[3] \in Relations
      BY DEF Link
    <3>2. \A k \in K : <<l, k[2], k[3]>> \in Link
      BY <2>1, <3>1 DEF Link
    <3>. QED
      BY <3>2
  <2>3. shown' \subseteq Link
    BY <1>1, <2>2 DEF SubmitLayer, From
  <2>. QED
    BY <1>1, <2>1, <2>3 DEF SubmitLayer
<1>2. ASSUME NEW l \in Own(c), DiscardLayer(c, e, l) PROVE TypeOK'
  BY <1>2 DEF DiscardLayer, Own
<1>3. ASSUME NEW l \in Own(c), SetRoot(c, e, l) PROVE TypeOK'
  BY <1>3 DEF SetRoot, Own
<1>4. ASSUME NEW k \in Candidates, NEW old \in SUBSET links, AddAction(c, e, k, old) PROVE TypeOK'
  BY <1>4 DEF AddAction
<1>5. ASSUME NEW k \in Candidates, NEW old \in SUBSET attached[c], AttachAction(c, e, k, old)
      PROVE  TypeOK'
  BY <1>5 DEF AttachAction
<1>6. ASSUME NEW n \in 0..presentation, StagePresentation(c, e, n) PROVE TypeOK'
  BY <1>6 DEF StagePresentation
<1>. QED
  BY <1>1, <1>2, <1>3, <1>4, <1>5, <1>6 DEF AuthorDraft

\* What a Return writes, its Record apart.
LEMMA ReturnType ==
  ASSUME TypeOK, NEW c \in Completions, NEW author \in Nat, NEW key \in Keys,
         NEW expected \in Nat, NEW l \in Layers, ReturnEffect(c, author, key, expected, l)
  PROVE  /\ RowType' /\ UNCHANGED <<config, authority>>
         /\ layerState' \in [Layers -> {"absent", "draft", "accepted", "stopped"}]
         /\ links' \subseteq Link /\ shown' \subseteq Link
         /\ attached' \in [Completions -> SUBSET Link]
         /\ root' \in [Completions -> Layers \cup {NoLayer}]
         /\ output' \in [Completions -> Layers \cup {NoLayer}]
         /\ resolution' \in [Completions -> Layers \cup {NoLayer}]
         /\ presentation' \in Nat
         /\ staged' \in [Completions -> Nat \cup {NotStaged}]
         /\ replaced' \in [Completions -> Nat \cup {NotStaged}]
<1>1. RowType'
  <2>1. Record(c, author, key, expected, "succeeded", l, l)
    BY DEF ReturnEffect
  <2>. QED
    BY <2>1, RecordType DEF Lifecycles
<1>2. shown' \subseteq Link
  <2>1. { <<s, l, "expand">> : s \in {Lease[c]} \ {NoLayer} } \subseteq Link
    BY CompletionAssumption DEF Link, Relations
  <2>2. shown \subseteq Link /\ attached[c] \subseteq Link
    BY DEF TypeOK
  <2>. QED
    BY <2>1, <2>2 DEF ReturnEffect
<1>3. layerState' \in [Layers -> {"absent", "draft", "accepted", "stopped"}]
  BY DEF ReturnEffect, Publish, TypeOK
<1>4. /\ attached' \in [Completions -> SUBSET Link]
      /\ output' \in [Completions -> Layers \cup {NoLayer}]
      /\ resolution' \in [Completions -> Layers \cup {NoLayer}]
  BY DEF ReturnEffect, TypeOK
<1>5. /\ presentation' \in Nat
      /\ staged' \in [Completions -> Nat \cup {NotStaged}]
      /\ replaced' \in [Completions -> Nat \cup {NotStaged}]
  BY DEF ReturnEffect, TypeOK
<1>6. UNCHANGED <<config, authority, links, root>>
  BY DEF ReturnEffect
<1>. QED
  BY <1>1, <1>2, <1>3, <1>4, <1>5, <1>6 DEF TypeOK

\* What Stop and Fail write.
LEMMA EndType ==
  ASSUME TypeOK, NEW c \in Completions, NEW author \in Nat, NEW key \in Keys,
         NEW expected \in Nat, NEW lifecycle \in {"stopped", "failed"},
         EndEffect(c, author, key, expected, lifecycle)
  PROVE  TypeOK'
<1>1. RowType'
  <2>1. Record(c, author, key, expected, lifecycle, state[c].current, NoLayer)
    BY DEF EndEffect
  <2>2. state[c].current \in Layers \cup {NoLayer} /\ lifecycle \in Lifecycles
    BY DEF TypeOK, StateRow, Lifecycles
  <2>. QED
    BY <2>1, <2>2, RecordType
<1>2. staged' \in [Completions -> Nat \cup {NotStaged}]
  BY DEF EndEffect, TypeOK
<1>. QED
  BY <1>1, <1>2 DEF EndEffect, TypeOK, RowType

\* A broker's transition keeps the types.
LEMMA TransitionType ==
  ASSUME TypeOK, NEW c \in Completions, NEW e \in Nat, BrokerTransition(c, e)
  PROVE  TypeOK'
<1>1. PICK key \in Keys, expected \in 0..MaxHead :
        \/ \E l \in Own(c) : Advance(c, e, key, expected, l)
        \/ \E l \in Own(c) : Return(c, e, key, expected, l)
        \/ BrokerStop(c, e, key, expected)
  BY DEF BrokerTransition
<1>2. expected \in Nat
  BY <1>1, CompletionAssumption
<1>3. ASSUME NEW l \in Own(c), Advance(c, e, key, expected, l) PROVE TypeOK'
  <2>1. l \in Layers
    BY DEF Own
  <2>2. RowType'
    <3>1. Record(c, e, key, expected, "active", l, NoLayer)
      BY <1>3 DEF Advance
    <3>. QED
      BY <1>2, <2>1, <3>1, RecordType DEF Lifecycles
  <2>3. layerState' \in [Layers -> {"absent", "draft", "accepted", "stopped"}]
    BY <1>3 DEF Advance, Publish, TypeOK
  <2>. QED
    BY <1>3, <2>2, <2>3 DEF Advance, TypeOK, RowType
<1>4. ASSUME NEW l \in Own(c), Return(c, e, key, expected, l) PROVE TypeOK'
  <2>1. l \in Layers
    BY DEF Own
  <2>2. ReturnEffect(c, e, key, expected, l) /\ UNCHANGED submit
    BY <1>4 DEF Return
  <2>. QED
    BY <1>2, <2>1, <2>2, ReturnType DEF TypeOK, RowType
<1>5. CASE BrokerStop(c, e, key, expected)
  BY <1>2, <1>5, EndType DEF BrokerStop
<1>. QED
  BY <1>1, <1>3, <1>4, <1>5

\* Every step keeps the types.
LEMMA TypeStep ==
  ASSUME TypeOK, [Next]_vars
  PROVE  TypeOK'
<1>. USE CompletionAssumption
<1>1. ASSUME NEW c \in Completions, Initialize(c) PROVE TypeOK'
  <2>1. state' \in [Completions -> StateRow]
    BY <1>1 DEF Initialize, TypeOK, StateRow, Lifecycles
  <2>2. revs' \in [Completions -> Seq(RevisionRow)]
    <3>1. [rev |-> 0, current |-> NoLayer, lifecycle |-> "active", key |-> "initial",
           author |-> 0] \in RevisionRow
      BY DEF RevisionRow, Lifecycles
    <3>. QED
      BY <1>1, <3>1 DEF Initialize, TypeOK
  <2>3. outbox' \in Seq(Completions \X Nat)
    BY <1>1 DEF Initialize, TypeOK
  <2>. QED
    BY <1>1, <2>1, <2>2, <2>3 DEF Initialize, TypeOK
<1>12. ASSUME NEW c \in Completions, epoch' = [epoch EXCEPT ![c] = @ + 1]
       PROVE  epoch' \in [Completions -> Nat] /\ epoch[c] + 1 \in Nat
  BY <1>12 DEF TypeOK
<1>2. ASSUME NEW c \in Completions, ActivateAuthority(c) PROVE TypeOK'
  <2>1. epoch' \in [Completions -> Nat] /\ epoch[c] + 1 \in Nat
    BY <1>2, <1>12 DEF ActivateAuthority
  <2>2. issued' \in [Completions -> Nat]
    BY <1>2, <2>1 DEF ActivateAuthority, TypeOK
  <2>. QED
    BY <1>2, <2>1, <2>2 DEF ActivateAuthority, TypeOK
<1>11. ASSUME NEW c \in Completions, CutoverAuthority(c) PROVE TypeOK'
  <2>1. epoch' \in [Completions -> Nat]
    BY <1>11, <1>12 DEF CutoverAuthority
  <2>. QED
    BY <1>11, <2>1 DEF CutoverAuthority, TypeOK
<1>3. ASSUME NEW c \in Completions, NEW e \in 1..MaxEpoch,
             AuthorDraft(c, e) \/ BrokerTransition(c, e)
      PROVE  TypeOK'
  BY <1>3, DraftType, TransitionType
<1>4. ASSUME NEW c \in Completions, NEW e \in 1..MaxEpoch, SubmitRead(c, e) PROVE TypeOK'
  <2>1. [epoch |-> e, layer |-> root[c], expected |-> state[c].head]
          \in [epoch : Nat, layer : Layers \cup {NoLayer}, expected : Nat]
    BY DEF TypeOK, StateRow
  <2>. QED
    BY <1>4, <2>1 DEF SubmitRead, TypeOK
<1>5. ASSUME NEW c \in Completions, NEW key \in Keys, NEW expected \in 0..MaxHead,
             NEW lifecycle \in {"stopped", "failed"}, ControlEnd(c, key, expected, lifecycle)
      PROVE  TypeOK'
  BY <1>5, EndType DEF ControlEnd
<1>6. Idle \in [epoch : Nat, layer : Layers \cup {NoLayer}, expected : Nat]
  BY DEF Idle
<1>7. ASSUME NEW c \in Completions, SubmitReturn(c) PROVE TypeOK'
  <2>1. /\ submit[c].epoch \in Nat /\ submit[c].expected \in Nat
        /\ submit[c].layer \in Layers \cup {NoLayer}
    BY DEF TypeOK
  <2>2. /\ ReturnEffect(c, submit[c].epoch, LegacyKey, submit[c].expected, submit[c].layer)
        /\ submit' = [submit EXCEPT ![c] = Idle]
    BY <1>7 DEF SubmitReturn
  <2>3. submit[c].layer \in Layers
    BY <2>1, <2>2 DEF ReturnEffect, BuildReturn, ReturnAllowed
  <2>. QED
    BY <1>6, <2>1, <2>2, <2>3, ReturnType DEF TypeOK, RowType
<1>8. ASSUME NEW c \in Completions, SubmitDropped(c) PROVE TypeOK'
  BY <1>6, <1>8 DEF SubmitDropped, TypeOK
<1>9. ASSUME NEW flag \in Flags, ServerRestart(flag) PROVE TypeOK'
  BY <1>6, <1>9 DEF ServerRestart, TypeOK
<1>10. CASE UNCHANGED vars
  BY <1>10 DEF TypeOK
<1>. QED
  BY <1>1, <1>2, <1>3, <1>4, <1>5, <1>7, <1>8, <1>9, <1>10, <1>11 DEF Next

-----------------------------------------------------------------------------
(* The revision history. *)

\* One more revision, at the head the request expected and under a new key, written
\* by trusted control or by the newest generation.
LEMMA RecordHistory ==
  ASSUME Inv, NEW c \in Completions, NEW author \in {0, epoch[c]}, NEW key \in Keys,
         NEW expected \in Nat, NEW lifecycle \in Lifecycles,
         NEW layer \in Layers \cup {NoLayer}, NEW last \in Layers \cup {NoLayer},
         Fresh(c, key, expected), UNCHANGED epoch,
         Record(c, author, key, expected, lifecycle, layer, last)
  PROVE  (RowInv /\ HistoryConsistent /\ OneRevisionPerOperation /\ AuthorsInOrder)'
<1>. DEFINE row == [rev |-> expected + 1, current |-> layer, lifecycle |-> lifecycle,
                    key |-> key, author |-> author]
            n == Len(revs[c])
<1>. USE DEF Inv, Present, Active
<1>1. /\ Present(c) /\ state[c].head = expected /\ n = expected + 1
      /\ state[c].lifecycle = "active"
  BY DEF Fresh, HistoryConsistent, TypeOK, StateRow
<1>2. revs[c] \in Seq(RevisionRow) /\ n \in Nat
  BY DEF TypeOK
<1>3. /\ revs' = [revs EXCEPT ![c] = Append(revs[c], row)]
      /\ \A d \in Completions : d # c => revs'[d] = revs[d] /\ state'[d] = state[d]
  BY DEF Record, TypeOK
<1>4. revs'[c] = Append(revs[c], row)
  BY <1>3 DEF TypeOK
<1>5. /\ Len(revs'[c]) = n + 1 /\ revs'[c][n + 1] = row
      /\ \A i \in 1..n : revs'[c][i] = revs[c][i]
  BY <1>2, <1>4
<1>6. /\ state'[c].head = expected + 1 /\ state'[c].lifecycle = lifecycle
      /\ state'[c].current = layer
  BY DEF Record, TypeOK, StateRow
<1>7. \A i \in 1..n : revs[c][i].author \in Nat /\ revs[c][i].author <= epoch[c]
  <2>1. \A i \in 1..n : revs[c][i] \in RevisionRow
    BY <1>2
  <2>. QED
    BY <2>1 DEF RowInv, RevisionRow
<1>8. epoch[c] \in Nat /\ lifecycle # "absent"
  BY DEF TypeOK, Lifecycles
<1>9. /\ row.rev = expected + 1 /\ row.current = layer /\ row.lifecycle = lifecycle
      /\ row.key = key /\ row.author = author
  OBVIOUS
<1>10. \A i \in 1..Len(revs'[c]) : i \in 1..n \/ i = n + 1
  BY <1>2, <1>5
<1>. HIDE DEF row, n
<1>11. RowInv'
  <2>1. \A i \in 1..Len(revs'[c]) : revs'[c][i].author <= epoch[c]
    <3>. SUFFICES ASSUME NEW i \in 1..Len(revs'[c]) PROVE revs'[c][i].author <= epoch[c]
      OBVIOUS
    <3>1. CASE i \in 1..n
      BY <1>5, <1>7, <3>1
    <3>2. CASE i = n + 1
      BY <1>5, <1>8, <1>9, <3>2
    <3>. QED
      BY <1>10, <3>1, <3>2
  <2>. QED
    BY <1>3, <1>6, <1>8, <2>1 DEF RowInv
<1>12. HistoryConsistent'
  <2>1. revs[c][n].lifecycle = "active"
    BY <1>1 DEF HistoryConsistent
  <2>2. \A i \in 1..n : revs[c][i].rev = i - 1 /\ (i < n => revs[c][i].lifecycle = "active")
    BY <1>1 DEF HistoryConsistent
  <2>3. \A i \in 1..n : revs[c][i].lifecycle = "active"
    BY <1>2, <2>1, <2>2
  <2>4. \A i \in 1..Len(revs'[c]) :
          /\ revs'[c][i].rev = i - 1
          /\ i < Len(revs'[c]) => revs'[c][i].lifecycle = "active"
    <3>. SUFFICES ASSUME NEW i \in 1..Len(revs'[c])
                  PROVE  /\ revs'[c][i].rev = i - 1
                         /\ i < Len(revs'[c]) => revs'[c][i].lifecycle = "active"
      OBVIOUS
    <3>1. CASE i \in 1..n
      BY <1>5, <2>2, <2>3, <3>1
    <3>2. CASE i = n + 1
      <4>1. revs'[c][i].rev = i - 1
        BY <1>1, <1>2, <1>5, <1>9, <3>2
      <4>. QED
        BY <1>2, <1>5, <3>2, <4>1
    <3>. QED
      BY <1>10, <3>1, <3>2
  <2>5. /\ Len(revs'[c]) = state'[c].head + 1
        /\ revs'[c][Len(revs'[c])].current = state'[c].current
        /\ revs'[c][Len(revs'[c])].lifecycle = state'[c].lifecycle
    BY <1>1, <1>2, <1>5, <1>6, <1>9
  <2>. QED
    BY <1>3, <2>4, <2>5 DEF HistoryConsistent
<1>13. OneRevisionPerOperation'
  <2>1. \A i \in 1..n : revs[c][i].key # key
    BY DEF Fresh, n
  <2>2. \A i, j \in 1..n : revs[c][i].key = revs[c][j].key => i = j
    BY DEF OneRevisionPerOperation, n
  <2>3. revs'[c][n + 1].key = key
    BY <1>5, <1>9
  <2>4. \A i \in 1..n : revs'[c][i].key = revs[c][i].key
    BY <1>5
  <2>5. \A i, j \in 1..Len(revs'[c]) : revs'[c][i].key = revs'[c][j].key => i = j
    <3>. SUFFICES ASSUME NEW i \in 1..Len(revs'[c]), NEW j \in 1..Len(revs'[c]),
                         revs'[c][i].key = revs'[c][j].key
                  PROVE  i = j
      OBVIOUS
    <3>1. CASE i \in 1..n /\ j \in 1..n
      BY <2>2, <2>4, <3>1
    <3>2. CASE i \in 1..n /\ j = n + 1
      BY <2>1, <2>3, <2>4, <3>2
    <3>3. CASE i = n + 1 /\ j \in 1..n
      BY <2>1, <2>3, <2>4, <3>3
    <3>. QED
      BY <1>10, <3>1, <3>2, <3>3
  <2>. QED
    BY <1>3, <2>5 DEF OneRevisionPerOperation
<1>14. AuthorsInOrder'
  <2>1. \A i, j \in 1..n : (i < j /\ revs[c][i].author # 0 /\ revs[c][j].author # 0)
                             => revs[c][i].author <= revs[c][j].author
    BY DEF AuthorsInOrder, n
  <2>2. \A i, j \in 1..Len(revs'[c]) :
          (i < j /\ revs'[c][i].author # 0 /\ revs'[c][j].author # 0)
            => revs'[c][i].author <= revs'[c][j].author
    <3>. SUFFICES ASSUME NEW i \in 1..Len(revs'[c]), NEW j \in 1..Len(revs'[c]),
                         i < j, revs'[c][i].author # 0, revs'[c][j].author # 0
                  PROVE  revs'[c][i].author <= revs'[c][j].author
      OBVIOUS
    <3>1. i \in 1..n
      BY <1>2, <1>5
    <3>2. revs'[c][i].author = revs[c][i].author
      BY <1>5, <3>1
    <3>3. CASE j \in 1..n
      <4>1. revs'[c][j].author = revs[c][j].author
        BY <1>5, <3>3
      <4>. QED
        BY <2>1, <3>1, <3>2, <3>3, <4>1
    <3>4. CASE j = n + 1
      <4>1. revs'[c][j].author = author
        BY <1>5, <1>9, <3>4
      <4>. QED
        BY <1>7, <3>1, <3>2, <4>1
    <3>. QED
      BY <1>10, <3>3, <3>4
  <2>. QED
    BY <1>3, <2>2 DEF AuthorsInOrder
<1>. QED
  BY <1>11, <1>12, <1>13, <1>14

\* A step that appends no revision and lowers no epoch.
LEMMA QuietHistory ==
  ASSUME Inv, UNCHANGED <<state, revs>>,
         \A c \in Completions : epoch'[c] \in Nat /\ epoch[c] <= epoch'[c]
  PROVE  (RowInv /\ HistoryConsistent /\ OneRevisionPerOperation /\ AuthorsInOrder)'
<1>. USE DEF Inv, Present
<1>1. RowInv'
  <2>. SUFFICES ASSUME NEW c \in Completions, NEW i \in 1..Len(revs[c])
                PROVE  revs[c][i].author <= epoch'[c]
    BY DEF RowInv
  <2>1. revs[c][i] \in RevisionRow
    BY DEF TypeOK
  <2>2. revs[c][i].author \in Nat /\ revs[c][i].author <= epoch[c] /\ epoch[c] \in Nat
    BY <2>1 DEF RowInv, RevisionRow, TypeOK
  <2>. QED
    BY <2>2
<1>2. HistoryConsistent' /\ OneRevisionPerOperation' /\ AuthorsInOrder'
  BY DEF HistoryConsistent, OneRevisionPerOperation, AuthorsInOrder
<1>. QED
  BY <1>1, <1>2

\* A step that leaves the rows and the epochs alone.
LEMMA IdleHistory ==
  ASSUME Inv, UNCHANGED <<state, revs, epoch>>
  PROVE  (RowInv /\ HistoryConsistent /\ OneRevisionPerOperation /\ AuthorsInOrder)'
<1>1. \A c \in Completions : epoch'[c] \in Nat /\ epoch[c] <= epoch'[c]
  BY DEF Inv, TypeOK
<1>. QED
  BY <1>1, QuietHistory

\* initialize writes revision 0 of a completion that had none.
LEMMA InitializeHistory ==
  ASSUME Inv, NEW c \in Completions, Initialize(c)
  PROVE  (RowInv /\ HistoryConsistent /\ OneRevisionPerOperation /\ AuthorsInOrder)'
<1>. DEFINE row == [rev |-> 0, current |-> NoLayer, lifecycle |-> "active",
                    key |-> "initial", author |-> 0]
<1>. USE DEF Inv, Present
<1>1. /\ revs' = [revs EXCEPT ![c] = <<row>>] /\ epoch' = epoch
      /\ \A d \in Completions : d # c => revs'[d] = revs[d] /\ state'[d] = state[d]
  BY DEF Initialize, TypeOK
<1>2. revs'[c] = <<row>>
  BY <1>1 DEF TypeOK
<1>3. /\ Len(revs'[c]) = 1 /\ revs'[c][1] = row
      /\ \A i \in 1..Len(revs'[c]) : i = 1
  BY <1>2
<1>4. /\ state'[c].head = 0 /\ state'[c].lifecycle = "active" /\ state'[c].current = NoLayer
  BY DEF Initialize, TypeOK
<1>5. /\ row.rev = 0 /\ row.current = NoLayer /\ row.lifecycle = "active" /\ row.author = 0
  OBVIOUS
<1>6. epoch[c] \in Nat
  BY DEF TypeOK
<1>. HIDE DEF row
<1>7. RowInv'
  <2>1. \A i \in 1..Len(revs'[c]) : revs'[c][i].author <= epoch[c]
    BY <1>3, <1>5, <1>6
  <2>. QED
    BY <1>1, <1>4, <2>1 DEF RowInv
<1>8. HistoryConsistent'
  <2>1. /\ Len(revs'[c]) = state'[c].head + 1
        /\ \A i \in 1..Len(revs'[c]) :
             /\ revs'[c][i].rev = i - 1
             /\ i < Len(revs'[c]) => revs'[c][i].lifecycle = "active"
        /\ revs'[c][Len(revs'[c])].current = state'[c].current
        /\ revs'[c][Len(revs'[c])].lifecycle = state'[c].lifecycle
    BY <1>3, <1>4, <1>5
  <2>. QED
    BY <1>1, <2>1 DEF HistoryConsistent
<1>9. OneRevisionPerOperation'
  BY <1>1, <1>3 DEF OneRevisionPerOperation
<1>10. AuthorsInOrder'
  BY <1>1, <1>3 DEF AuthorsInOrder
<1>. QED
  BY <1>7, <1>8, <1>9, <1>10

\* Every step keeps the revision history in order.
LEMMA HistoryStep ==
  ASSUME Inv, [Next]_vars
  PROVE  (RowInv /\ HistoryConsistent /\ OneRevisionPerOperation /\ AuthorsInOrder)'
<1>. DEFINE Goal == (RowInv /\ HistoryConsistent /\ OneRevisionPerOperation /\ AuthorsInOrder)'
<1>. HIDE DEF Goal
<1>. SUFFICES Goal
  BY DEF Goal
<1>. USE CompletionAssumption
<1>1. ASSUME NEW c \in Completions, Initialize(c) PROVE Goal
  BY <1>1, InitializeHistory DEF Goal
<1>2. ASSUME NEW c \in Completions, ActivateAuthority(c) \/ CutoverAuthority(c) PROVE Goal
  <2>1. epoch' = [epoch EXCEPT ![c] = @ + 1] /\ UNCHANGED <<state, revs>>
    BY <1>2 DEF ActivateAuthority, CutoverAuthority
  <2>2. \A d \in Completions : epoch'[d] \in Nat /\ epoch[d] <= epoch'[d]
    BY <2>1 DEF Inv, TypeOK
  <2>. QED
    BY <2>1, <2>2, QuietHistory DEF Goal
<1>3. ASSUME NEW c \in Completions, NEW e \in 1..MaxEpoch, AuthorDraft(c, e) PROVE Goal
  <2>1. UNCHANGED <<state, revs, epoch>>
    BY <1>3 DEF AuthorDraft, SubmitLayer, DiscardLayer, SetRoot, AddAction, AttachAction,
                StagePresentation
  <2>. QED
    BY <2>1, IdleHistory DEF Goal
<1>4. ASSUME NEW c \in Completions, NEW author \in {0, epoch[c]}, NEW key \in Keys,
             NEW expected \in Nat, NEW l \in Layers,
             ReturnEffect(c, author, key, expected, l)
      PROVE  Goal
  <2>1. /\ Fresh(c, key, expected) /\ UNCHANGED epoch
        /\ Record(c, author, key, expected, "succeeded", l, l)
    BY <1>4 DEF ReturnEffect
  <2>. QED
    BY <2>1, RecordHistory DEF Lifecycles, Goal
<1>5. ASSUME NEW c \in Completions, NEW author \in {0, epoch[c]}, NEW key \in Keys,
             NEW expected \in Nat, NEW lifecycle \in {"stopped", "failed"},
             EndEffect(c, author, key, expected, lifecycle)
      PROVE  Goal
  <2>1. /\ Fresh(c, key, expected) /\ UNCHANGED epoch
        /\ Record(c, author, key, expected, lifecycle, state[c].current, NoLayer)
    BY <1>5 DEF EndEffect
  <2>2. state[c].current \in Layers \cup {NoLayer} /\ lifecycle \in Lifecycles
    BY DEF Inv, TypeOK, StateRow, Lifecycles
  <2>. QED
    BY <2>1, <2>2, RecordHistory DEF Goal
<1>6. ASSUME NEW c \in Completions, NEW e \in 1..MaxEpoch, BrokerTransition(c, e) PROVE Goal
  <2>1. PICK key \in Keys, expected \in 0..MaxHead :
          \/ \E l \in Own(c) : Advance(c, e, key, expected, l)
          \/ \E l \in Own(c) : Return(c, e, key, expected, l)
          \/ BrokerStop(c, e, key, expected)
    BY <1>6 DEF BrokerTransition
  <2>2. e \in {0, epoch[c]} /\ expected \in Nat
    <3>1. Authorized(c, e)
      BY <2>1 DEF Advance, Return, BrokerStop, Writable
    <3>. QED
      BY <3>1 DEF Authorized
  <2>3. ASSUME NEW l \in Own(c), Advance(c, e, key, expected, l) PROVE Goal
    <3>1. l \in Layers
      BY DEF Own
    <3>2. /\ Fresh(c, key, expected) /\ UNCHANGED epoch
          /\ Record(c, e, key, expected, "active", l, NoLayer)
      BY <2>3 DEF Advance
    <3>. QED
      BY <2>2, <3>1, <3>2, RecordHistory DEF Lifecycles, Goal
  <2>4. ASSUME NEW l \in Own(c), Return(c, e, key, expected, l) PROVE Goal
    <3>1. l \in Layers /\ ReturnEffect(c, e, key, expected, l)
      BY <2>4 DEF Own, Return
    <3>. QED
      BY <1>4, <2>2, <3>1
  <2>5. CASE BrokerStop(c, e, key, expected)
    BY <1>5, <2>2, <2>5 DEF BrokerStop
  <2>. QED
    BY <2>1, <2>3, <2>4, <2>5
<1>7. ASSUME NEW c \in Completions, NEW key \in Keys, NEW expected \in 0..MaxHead,
             NEW lifecycle \in {"stopped", "failed"}, ControlEnd(c, key, expected, lifecycle)
      PROVE  Goal
  BY <1>5, <1>7 DEF ControlEnd
<1>8. ASSUME NEW c \in Completions, SubmitReturn(c) PROVE Goal
  <2>1. /\ submit[c].epoch = epoch[c] /\ submit[c].expected \in Nat
        /\ submit[c].layer \in Layers \cup {NoLayer}
    BY <1>8 DEF SubmitReturn, Authorized, Inv, TypeOK
  <2>2. ReturnEffect(c, submit[c].epoch, LegacyKey, submit[c].expected, submit[c].layer)
    BY <1>8 DEF SubmitReturn
  <2>3. submit[c].layer \in Layers
    BY <2>1, <2>2 DEF ReturnEffect, BuildReturn, ReturnAllowed
  <2>. QED
    BY <1>4, <2>1, <2>2, <2>3
<1>9. ASSUME UNCHANGED <<state, revs, epoch>> PROVE Goal
  BY <1>9, IdleHistory DEF Goal
<1>10. ASSUME NEW c \in Completions, NEW e \in 1..MaxEpoch, SubmitRead(c, e) PROVE Goal
  BY <1>9, <1>10 DEF SubmitRead
<1>11. ASSUME NEW c \in Completions, SubmitDropped(c) PROVE Goal
  BY <1>9, <1>11 DEF SubmitDropped
<1>12. ASSUME NEW flag \in Flags, ServerRestart(flag) PROVE Goal
  BY <1>9, <1>12 DEF ServerRestart
<1>13. CASE UNCHANGED vars
  BY <1>9, <1>13
<1>. QED
  BY <1>1, <1>2, <1>3, <1>6, <1>7, <1>8, <1>10, <1>11, <1>12, <1>13 DEF Next

-----------------------------------------------------------------------------
(* Theorems. *)

\* The empty tables satisfy the invariant.
LEMMA InitInv == Init => Inv
<1>. SUFFICES ASSUME Init PROVE Inv
  OBVIOUS
<1>1. TypeOK
  BY InitType
<1>2. \A c \in Completions : ~Present(c) /\ revs[c] = <<>>
  BY DEF Init, Present
<1>3. \A c \in Completions : 1..Len(revs[c]) = {}
  BY <1>2
<1>. QED
  BY <1>1, <1>2, <1>3
  DEF Inv, RowInv, HistoryConsistent, OneRevisionPerOperation, AuthorsInOrder

\* The inductive invariant holds in every reachable state.
LEMMA Invariant == Spec => []Inv
<1>1. Inv /\ [Next]_vars => Inv'
  <2>. SUFFICES ASSUME Inv, [Next]_vars PROVE Inv'
    OBVIOUS
  <2>1. TypeOK'
    BY TypeStep DEF Inv
  <2>2. (RowInv /\ HistoryConsistent /\ OneRevisionPerOperation /\ AuthorsInOrder)'
    BY HistoryStep
  <2>. QED
    BY <2>1, <2>2 DEF Inv
<1>. QED
  BY <1>1, InitInv, PTL DEF Spec

\* The completion tables keep their column types, whatever is written to them.
THEOREM TypeCorrect == Spec => []TypeOK
<1>1. Inv => TypeOK
  BY DEF Inv
<1>. QED
  BY <1>1, Invariant, PTL

\* completion_states is always the last current_revisions row, the revisions have
\* no gap and none follows a terminal one, for any number of completions, retries,
\* brokers and restarts.
THEOREM HistoryIsConsistent == Spec => []HistoryConsistent
<1>1. Inv => HistoryConsistent
  BY DEF Inv
<1>. QED
  BY <1>1, Invariant, PTL

\* An operation key is committed at most once in a completion.
THEOREM OperationsCommitOnce == Spec => []OneRevisionPerOperation
<1>1. Inv => OneRevisionPerOperation
  BY DEF Inv
<1>. QED
  BY <1>1, Invariant, PTL

\* No broker generation writes after a newer one has written.
THEOREM GenerationsInOrder == Spec => []AuthorsInOrder
<1>1. Inv => AuthorsInOrder
  BY DEF Inv
<1>. QED
  BY <1>1, Invariant, PTL
=============================================================================
