----------------------- MODULE ChildObservationProofs -----------------------
(***************************************************************************)
(* What a parent sees of its children, for every number of children, page  *)
(* limit and failure limit: FeedExact and ChangesMoveForward.              *)
(***************************************************************************)
EXTENDS ChildObservation, SelectionProofs

Currents == [revision : Nat, lifecycle : Lifecycles]
OutboxRecord == [child : Kids, revision : Nat, lifecycle : Lifecycles]
Revisions == Nat \union {None}
RequestSteps == Open \union {"none", "answered", "failed"}

\* The types of the graph, of the broker and of the client.
ChildTypeOK ==
  /\ current \in [Kids -> Currents]
  /\ outbox \in Seq(OutboxRecord)
  /\ observer \in [Kids -> [pc : {"none", "reading", "settling", "done"},
                            cursor : Nat, failures : Nat]]
  /\ channel \in [Kids -> [open : BOOLEAN, revision : Revisions, lifecycle : Lifecycles]]
  /\ request \in [Kids -> [pc : RequestSteps, after : Revisions, current : Currents]]
  /\ watch \in [collecting : BOOLEAN, seen : [Kids -> Revisions], ended : SUBSET Kids]
  /\ delivered \in [Kids -> Seq(Nat)]
  /\ watched \subseteq Kids /\ extras \in Nat

CursorBound == \A c \in Kids : observer[c].cursor <= Len(outbox)

\* cur is a current the child had.
Recorded(c, cur) ==
  \/ cur = Initial
  \/ \E n \in DOMAIN outbox : /\ outbox[n].child = c /\ outbox[n].revision = cur.revision
                              /\ outbox[n].lifecycle = cur.lifecycle

\* cur was read: it is the child's current or an earlier, active one.
Was(c, cur) ==
  /\ Recorded(c, cur)
  /\ cur = current[c] \/ (cur.revision < current[c].revision /\ cur.lifecycle = "active")

\* What a watched child reported last and has been asked since.
WatchOf(c) ==
  /\ c \notin watch.ended =>
       \/ watch.seen[c] < current[c].revision
       \/ watch.seen[c] = current[c].revision /\ current[c].lifecycle = "active"
  /\ c \in watch.ended => request[c].pc = "none"
  /\ request[c].pc \in Open \union {"answered"} => request[c].after = watch.seen[c]
  /\ request[c].pc = "answered" => request[c].current.revision > watch.seen[c]
  /\ request[c].pc = "fetching" => current[c].lifecycle = "succeeded"

WatchInv == \A c \in watched : WatchOf(c)

ReadInv ==
  \A c \in Kids : Was(c, request[c].current) /\ Was(c, current[c])
                  /\ (current[c] = Initial \/ current[c].revision > 0)

ChildInv == ChildTypeOK /\ CursorBound /\ FeedExact /\ ReadInv /\ WatchInv

\* The facts about the constants and records that the steps use.
LEMMA Kinds ==
  /\ Initial \in Currents /\ Initial.revision = 0 /\ Initial.lifecycle = "active"
  /\ None = -1 /\ Idle.pc = "none" /\ Idle.after = None /\ Idle.current = Initial
  /\ Idle \in [pc : RequestSteps, after : Revisions, current : Currents]
BY DEF Initial, Currents, Lifecycles, None, Idle, Fresh, RequestSteps, Revisions

LEMMA ChildInitially ==
  ASSUME ChildInit
  PROVE  ChildInv
<1> USE Kinds, ObservationAssumption
<1>1. ChildTypeOK
  BY DEF ChildInit, ChildTypeOK, Lifecycles, RequestSteps, Open, Revisions, Fresh
<1>2. CursorBound
  BY DEF ChildInit, CursorBound
<1>3. FeedExact
  <2> SUFFICES ASSUME NEW c \in Kids
               PROVE  LET events == Ascending(observer[c].cursor, Of(c))
                      IN  delivered[c] = [i \in DOMAIN events |-> outbox[events[i]].revision]
    BY DEF FeedExact
  <2> DEFINE events == Ascending(0, Of(c))
  <2>1. events \in Seq(Nat) /\ Members(events) = Of(c) \intersect (1 .. 0)
    BY AscendingIs
  <2> HIDE DEF events
  <2>2. DOMAIN events = {}
    <3>1. Members(events) = {}
      BY <2>1
    <3>2. \A k \in DOMAIN events : events[k] \in Members(events)
      BY DEF Members
    <3>. QED
      BY <3>1, <3>2
  <2>3. observer[c].cursor = 0 /\ delivered[c] = << >>
    BY DEF ChildInit
  <2>. QED
    BY <2>2, <2>3 DEF events
<1>4. ReadInv
  BY DEF ChildInit, ReadInv, Was, Recorded, Fresh
<1>5. WatchInv
  BY DEF ChildInit, WatchInv, WatchOf, Open, Fresh
<1>. QED
  BY <1>1, <1>2, <1>3, <1>4, <1>5 DEF ChildInv

RequestRecord == [pc : RequestSteps, after : Revisions, current : Currents]

\* What was a current stays one while the child's current moves on.
LEMMA WasKept ==
  ASSUME ChildTypeOK, ReadInv, NEW c \in Kids, NEW l \in Lifecycles, Moved(c, l)
  PROVE  /\ current' \in [Kids -> Currents]
         /\ outbox' \in Seq(OutboxRecord)
         /\ Len(outbox') = Len(outbox) + 1
         /\ \A n \in DOMAIN outbox : outbox'[n] = outbox[n] /\ n \in DOMAIN outbox'
         /\ \A d \in Kids, cur \in Currents : Was(d, cur) => Was(d, cur)'
         /\ \A d \in Kids : Was(d, current[d])'
         /\ current[c].lifecycle = "active" /\ current'[c].revision = current[c].revision + 1
         /\ \A d \in Kids \ {c} : current'[d] = current[d]
         /\ \A d \in Kids : current'[d] = Initial \/ current'[d].revision > 0
<1> DEFINE next == [revision |-> current[c].revision + 1, lifecycle |-> l]
           e == [child |-> c, revision |-> next.revision, lifecycle |-> l]
<1>1. /\ current[c].lifecycle = "active" /\ current' = [current EXCEPT ![c] = next]
      /\ outbox' = Append(outbox, e)
  BY DEF Moved
<1>2. current[c] \in Currents /\ next \in Currents
      /\ e \in OutboxRecord
  BY DEF ChildTypeOK, Currents, OutboxRecord
<1>3. /\ current' \in [Kids -> Currents] /\ current'[c] = next
      /\ \A d \in Kids \ {c} : current'[d] = current[d]
  BY <1>1, <1>2 DEF ChildTypeOK
<1>4. /\ outbox' \in Seq(OutboxRecord)
      /\ Len(outbox') = Len(outbox) + 1 /\ outbox'[Len(outbox) + 1] = e
      /\ DOMAIN outbox = 1 .. Len(outbox) /\ DOMAIN outbox' = 1 .. Len(outbox) + 1
      /\ Len(outbox) \in Nat
      /\ \A n \in DOMAIN outbox : outbox'[n] = outbox[n] /\ n \in DOMAIN outbox'
  <2> HIDE DEF e
  <2>1. outbox \in Seq(OutboxRecord)
    BY DEF ChildTypeOK
  <2>. QED
    BY <1>1, <1>2, <2>1
<1>5. \A d \in Kids, cur \in Currents : Recorded(d, cur) => Recorded(d, cur)'
  BY <1>4 DEF Recorded
<1>6. \A d \in Kids, cur \in Currents : Was(d, cur) => Was(d, cur)'
  <2> SUFFICES ASSUME NEW d \in Kids, NEW cur \in Currents, Was(d, cur) PROVE Was(d, cur)'
    OBVIOUS
  <2>1. Recorded(d, cur)'
    BY <1>5 DEF Was
  <2>2. CASE d = c
    BY <2>1, <2>2, <1>1, <1>2, <1>3 DEF Was, Currents
  <2>3. CASE d # c
    BY <2>1, <2>3, <1>3 DEF Was
  <2>. QED
    BY <2>2, <2>3
<1>7. ASSUME NEW d \in Kids PROVE Was(d, current[d])'
  <2>1. CASE d = c
    <3>1. Len(outbox) + 1 \in DOMAIN outbox'
      BY <1>4
    <3>2. Recorded(c, current[c])'
      BY <3>1, <1>3, <1>4 DEF Recorded
    <3>. QED
      BY <2>1, <3>2 DEF Was
  <2>2. CASE d # c
    <3>1. current'[d] = current[d] /\ current[d] \in Currents /\ Was(d, current[d])
      BY <2>2, <1>3 DEF ReadInv, ChildTypeOK
    <3>. QED
      BY <3>1, <1>5 DEF Was
  <2>. QED
    BY <2>1, <2>2
<1>8. ASSUME NEW d \in Kids PROVE current'[d] = Initial \/ current'[d].revision > 0
  BY <1>2, <1>3 DEF ReadInv, Currents
<1>. QED
  BY <1>1, <1>3, <1>4, <1>6, <1>7, <1>8

\* A commit of a child: no cursor has passed it, and every reader is still behind it.
LEMMA MovedStep ==
  ASSUME ChildInv, NEW c \in Kids, NEW l \in Lifecycles, Moved(c, l),
         \A d \in Kids : observer'[d].cursor = observer[d].cursor,
         UNCHANGED <<delivered, request, watch, watched>>
  PROVE  CursorBound' /\ FeedExact' /\ ReadInv' /\ WatchInv'
<1> USE DEF ChildInv
<1>1. CursorBound'
  <2> SUFFICES ASSUME NEW d \in Kids PROVE observer[d].cursor <= Len(outbox) + 1
    BY WasKept DEF CursorBound
  <2>1. observer[d].cursor \in Nat /\ Len(outbox) \in Nat /\ observer[d].cursor <= Len(outbox)
    BY DEF CursorBound, ChildTypeOK
  <2>. QED
    BY <2>1
<1>2. FeedExact'
  <2> SUFFICES ASSUME NEW d \in Kids
               PROVE  (LET events == Ascending(observer[d].cursor, Of(d))
                       IN  delivered[d] = [i \in DOMAIN events |-> outbox[events[i]].revision])'
    BY DEF FeedExact
  <2> DEFINE N == observer[d].cursor
             events == Ascending(N, Of(d))
  <2>1. N \in Nat /\ N <= Len(outbox) /\ observer'[d].cursor = N
    BY DEF ChildTypeOK, CursorBound
  <2>2. DOMAIN outbox = 1 .. Len(outbox) /\ DOMAIN outbox' = 1 .. Len(outbox) + 1 /\ Len(outbox) \in Nat
    BY WasKept DEF ChildTypeOK
  <2>3. Of(d) \intersect (1 .. N) = Of(d)' \intersect (1 .. N)
    BY <2>1, <2>2, WasKept DEF Of
  <2>4. Ascending(N, Of(d)') = events
    <3> HIDE DEF N
    <3>. QED
      BY <2>1, <2>3, AscendingSame
  <2>5. Members(events) = Of(d) \intersect (1 .. N)
    <3> HIDE DEF N
    <3>. QED
      BY <2>1, AscendingIs
  <2>6. delivered[d] = [i \in DOMAIN events |-> outbox[events[i]].revision]
    BY DEF FeedExact
  <2> HIDE DEF events, N
  <2>7. \A i \in DOMAIN events : events[i] \in DOMAIN outbox
    BY <2>5 DEF Members, Of
  <2>8. delivered[d] = [i \in DOMAIN events |-> outbox'[events[i]].revision]
    BY <2>6, <2>7, WasKept
  <2>. QED
    BY <2>1, <2>4, <2>8
<1>3. ReadInv'
  <2> SUFFICES ASSUME NEW d \in Kids PROVE Was(d, request[d].current)'
    BY WasKept DEF ReadInv
  <2>1. request[d].current \in Currents /\ Was(d, request[d].current) /\ request' = request
    BY DEF ReadInv, ChildTypeOK
  <2>2. ASSUME NEW cur \in Currents, cur = request[d].current PROVE Was(d, cur)'
    BY <2>1, <2>2, WasKept
  <2>. QED
    BY <2>1, <2>2 DEF Was, Recorded
<1>4. WatchInv'
  <2> SUFFICES ASSUME NEW d \in watched PROVE WatchOf(d)'
    BY DEF WatchInv
  <2>1. d \in Kids /\ WatchOf(d)
    BY DEF ChildTypeOK, WatchInv
  <2>2. CASE d # c
    BY <2>1, <2>2, WasKept DEF WatchOf
  <2>3. CASE d = c
    <3>1. watch.seen[c] \in Int /\ current[c].revision \in Nat
      BY DEF ChildTypeOK, Currents, Revisions, None
    <3>. QED
      BY <2>1, <2>3, <3>1, WasKept DEF WatchOf
  <2>. QED
    BY <2>2, <2>3
<1>. QED
  BY <1>1, <1>2, <1>3, <1>4

\* A step that neither commits, publishes nor moves a cursor.
LEMMA FeedKept ==
  ASSUME FeedExact, UNCHANGED <<outbox, delivered>>,
         \A d \in Kids : observer'[d].cursor = observer[d].cursor
  PROVE  FeedExact'
<1> SUFFICES ASSUME NEW d \in Kids
             PROVE  (LET events == Ascending(observer[d].cursor, Of(d))
                     IN  delivered[d] = [i \in DOMAIN events |-> outbox[events[i]].revision])'
  BY DEF FeedExact
<1> DEFINE events == Ascending(observer[d].cursor, Of(d))
<1>1. Of(d)' = Of(d)
  BY DEF Of
<1>2. delivered[d] = [i \in DOMAIN events |-> outbox[events[i]].revision]
  BY DEF FeedExact
<1>3. Ascending(observer'[d].cursor, Of(d)') = events
  BY <1>1
<1> HIDE DEF events
<1>. QED
  BY <1>2, <1>3

\* A step of one request, to r.
LEMMA RequestStep ==
  ASSUME ChildInv, NEW c \in Kids, NEW r \in RequestRecord, Was(c, r.current),
         request' = [request EXCEPT ![c] = r], UNCHANGED <<graphVars, launches, brokerVars, watch>>,
         extras' \in Nat,
         c \in watched =>
           /\ c \notin watch.ended
           /\ r.pc \in Open \union {"answered"} => r.after = watch.seen[c]
           /\ r.pc = "answered" => r.current.revision > watch.seen[c]
           /\ r.pc = "fetching" => current[c].lifecycle = "succeeded"
  PROVE  ChildInv'
<1> USE DEF graphVars, launches, brokerVars
<1>1. /\ request' \in [Kids -> RequestRecord] /\ request'[c] = r
      /\ \A d \in Kids \ {c} : request'[d] = request[d]
  BY DEF ChildInv, ChildTypeOK, RequestRecord
<1>2. ChildTypeOK' /\ CursorBound'
  BY <1>1 DEF ChildInv, ChildTypeOK, CursorBound, RequestRecord
<1>3. FeedExact'
  BY FeedKept DEF ChildInv
<1>4. ReadInv'
  BY <1>1 DEF ChildInv, ReadInv, Was, Recorded
<1>5. WatchInv'
  <2> SUFFICES ASSUME NEW d \in watched PROVE WatchOf(d)'
    BY DEF WatchInv
  <2>1. d \in Kids /\ WatchOf(d)
    BY DEF ChildInv, ChildTypeOK, WatchInv
  <2>2. CASE d # c
    BY <2>1, <2>2, <1>1 DEF WatchOf
  <2>3. CASE d = c
    BY <2>1, <2>3, <1>1 DEF WatchOf
  <2>. QED
    BY <2>2, <2>3
<1>. QED
  BY <1>2, <1>3, <1>4, <1>5 DEF ChildInv

\* Goes is a step of one request that keeps what it asked for.
LEMMA GoesStep ==
  ASSUME ChildInv, NEW c \in Kids, NEW pc \in RequestSteps, NEW cur \in Currents, Was(c, cur),
         Goes(c, pc, cur), UNCHANGED <<graphVars, launches, brokerVars, watch>>, extras' \in Nat,
         request[c].pc \in Open,
         c \in watched =>
           /\ pc = "answered" => cur.revision > watch.seen[c]
           /\ pc = "fetching" => current[c].lifecycle = "succeeded"
  PROVE  ChildInv'
<1> DEFINE r == [pc |-> pc, after |-> request[c].after, current |-> cur]
<1>1. request[c] \in RequestRecord
  BY DEF ChildInv, ChildTypeOK, RequestRecord
<1>2. r \in RequestRecord
  BY <1>1 DEF RequestRecord
<1>3. request' = [request EXCEPT ![c] = r]
  BY DEF Goes
<1>4. c \in watched => c \notin watch.ended /\ request[c].after = watch.seen[c]
  BY DEF ChildInv, WatchInv, WatchOf, Open
<1> HIDE DEF r
<1>5. r.pc = pc /\ r.after = request[c].after /\ r.current = cur
  BY DEF r
<1>. QED
  BY <1>2, <1>3, <1>4, <1>5, RequestStep

\* An answer with a current the child had is handled.
LEMMA AnswersStep ==
  ASSUME ChildInv, NEW c \in Kids, NEW cur \in Currents, Was(c, cur), Answers(c, cur),
         UNCHANGED <<graphVars, launches, brokerVars, watch, extras>>, request[c].pc \in Open
  PROVE  ChildInv'
<1>1. /\ Was(c, Initial) /\ Initial \in Currents /\ extras' \in Nat
      /\ "fetching" \in RequestSteps /\ "answered" \in RequestSteps /\ "asked" \in RequestSteps
  <2>1. current[c] \in Currents /\ (current[c] = Initial \/ current[c].revision > 0)
    BY DEF ChildInv, ChildTypeOK, ReadInv
  <2>2. Was(c, Initial)
    BY <2>1, Kinds DEF Was, Recorded
  <2>. QED
    BY <2>2, Kinds DEF RequestSteps, Open, ChildInv, ChildTypeOK
<1>2. /\ cur.lifecycle # "active" => cur = current[c]
      /\ cur.revision \in Nat /\ watch.seen[c] \in Int
  BY DEF Was, Currents, ChildInv, ChildTypeOK, Revisions, None
<1>3. c \in watched => /\ c \notin watch.ended /\ request[c].after = watch.seen[c]
                       /\ \/ watch.seen[c] < current[c].revision
                          \/ watch.seen[c] = current[c].revision /\ current[c].lifecycle = "active"
  BY DEF ChildInv, WatchInv, WatchOf, Open
<1>4. CASE c \in watched
  <2>1. NextAnswered(c, cur)
    BY <1>4 DEF Answers
  <2>2. CASE cur.lifecycle = "succeeded"
    <3>1. Goes(c, "fetching", Initial) /\ current[c].lifecycle = "succeeded"
      BY <2>1, <2>2, <1>2 DEF NextAnswered
    <3>. QED
      BY <3>1, <1>1, GoesStep
  <2>3. CASE cur.lifecycle = "failed"
    <3>1. Goes(c, "answered", cur) /\ cur.revision > watch.seen[c]
      BY <2>1, <2>3, <1>2, <1>3, <1>4 DEF NextAnswered
    <3>. QED
      BY <3>1, <1>1, GoesStep
  <2>4. CASE cur.lifecycle = "active" /\ cur.revision > request[c].after
    <3>1. Goes(c, "answered", cur) /\ cur.revision > watch.seen[c]
      BY <2>1, <2>4, <1>3, <1>4 DEF NextAnswered
    <3>. QED
      BY <3>1, <1>1, GoesStep
  <2>5. CASE cur.lifecycle = "active" /\ ~(cur.revision > request[c].after)
    <3>1. Goes(c, "asked", Initial)
      BY <2>1, <2>5 DEF NextAnswered
    <3>. QED
      BY <3>1, <1>1, GoesStep
  <2>6. cur.lifecycle \in {"active", "succeeded", "failed"}
    BY DEF Currents, Lifecycles
  <2>. QED
    BY <2>2, <2>3, <2>4, <2>5, <2>6
<1>5. CASE c \notin watched
  <2>1. ResultAnswered(c, cur)
    BY <1>5 DEF Answers
  <2>2. CASE cur.lifecycle = "active"
    <3> DEFINE r == Fresh("asked", cur.revision)
    <3>1. request' = [request EXCEPT ![c] = r]
      BY <2>1, <2>2 DEF ResultAnswered
    <3>2. r \in RequestRecord /\ r.current = Initial
      BY <1>1, <1>2 DEF Fresh, RequestRecord, Revisions
    <3> HIDE DEF r
    <3>. QED
      BY <1>1, <1>5, <3>1, <3>2, RequestStep
  <2>3. CASE cur.lifecycle # "active"
    <3>1. Goes(c, "answered", cur)
      BY <2>1, <2>3 DEF ResultAnswered
    <3>. QED
      BY <3>1, <1>1, <1>5, GoesStep
  <2>. QED
    BY <2>2, <2>3
<1>. QED
  BY <1>4, <1>5

\* Publishing a page: what it holds continues what was delivered.
LEMMA PageDelivered ==
  ASSUME ChildInv, NEW c \in Kids, NEW page, page = Page(c, observer[c].cursor)
  PROVE  /\ page.cursor \in Nat /\ page.cursor <= Len(outbox)
         /\ page.events # << >> => Last(page.events) \in DOMAIN outbox
         /\ LET events == Ascending(page.cursor, Of(c))
                more == [i \in DOMAIN page.events |-> outbox[page.events[i]].revision]
            IN  /\ delivered[c] \o more = [i \in DOMAIN events |-> outbox[events[i]].revision]
                /\ delivered[c] \o more \in Seq(Nat)
<1> DEFINE M == observer[c].cursor
           P == Of(c)
           Q == {n \in P : n > M}
           rest == Ascending(Len(outbox), Q)
           k == Min({PageLimit, Len(rest)})
           more == [i \in DOMAIN page.events |-> outbox[page.events[i]].revision]
           old == Ascending(M, P)
           new == Ascending(page.cursor, P)
<1>1. /\ M \in Nat /\ M <= Len(outbox) /\ Len(outbox) \in Nat /\ DOMAIN outbox = 1 .. Len(outbox)
      /\ \A n \in DOMAIN outbox : outbox[n].revision \in Nat
      /\ PageLimit \in Nat \ {0} /\ delivered[c] \in Seq(Nat)
  <2>1. outbox \in Seq(OutboxRecord) /\ delivered[c] \in Seq(Nat) /\ M \in Nat /\ M <= Len(outbox)
    BY DEF ChildInv, ChildTypeOK, CursorBound
  <2>2. /\ Len(outbox) \in Nat /\ DOMAIN outbox = 1 .. Len(outbox)
        /\ \A n \in DOMAIN outbox : outbox[n] \in OutboxRecord
    BY <2>1
  <2>. QED
    BY <2>1, <2>2, ObservationAssumption DEF OutboxRecord
<1>2. P \subseteq DOMAIN outbox
  BY DEF Of
<1>3. old \in Seq(Nat) /\ rest \in Seq(Nat)
  <2> HIDE DEF Q, M, P
  <2>1. Ascending(Len(outbox), Q) \in Seq(Nat)
    BY <1>1, AscendingIs
  <2>2. Ascending(M, P) \in Seq(Nat)
    BY <1>1, AscendingIs
  <2>. QED
    BY <2>1, <2>2
<1>4. delivered[c] = [i \in DOMAIN old |-> outbox[old[i]].revision]
  BY DEF ChildInv, FeedExact
<1>5. /\ page.events = SubSeq(rest, 1, k)
      /\ page.cursor = IF page.events = << >> THEN M ELSE Last(page.events)
  BY DEF Page, After
<1> HIDE DEF P, M, rest, old
<1>6. CASE Len(rest) = 0
  <2>1. k = 0
    <3>1. \A x \in {PageLimit, Len(rest)} : 0 <= x
      BY <1>1, <1>6
    <3>. QED
      BY <1>6, <3>1 DEF Min
  <2>2. page.events = << >>
    BY <1>3, <1>5, <2>1
  <2>3. page.cursor = M /\ new = old
    BY <1>5, <2>2 DEF old
  <2>4. more = << >>
    BY <2>2
  <2>5. delivered[c] \o more = delivered[c]
    BY <1>1, <2>4, ConcatEmptySeq
  <2>. QED
    BY <1>1, <1>4, <2>2, <2>3, <2>5 DEF P
<1>7. CASE Len(rest) # 0
  <2>1. k \in 1 .. Len(rest)
    <3>1. Len(rest) \in Nat
      BY <1>3
    <3>2. \E x \in {PageLimit, Len(rest)} : \A y \in {PageLimit, Len(rest)} : x <= y
      BY <1>1, <3>1
    <3>3. k \in {PageLimit, Len(rest)} /\ \A y \in {PageLimit, Len(rest)} : k <= y
      BY <3>2 DEF Min
    <3>. QED
      BY <1>1, <1>7, <3>1, <3>3
  <2> HIDE DEF k
  <2>2. /\ rest[k] \in P /\ rest[k] \in M + 1 .. Len(outbox)
        /\ Ascending(rest[k], P) = Ascending(M, P) \o SubSeq(rest, 1, k)
    <3>1. rest = Ascending(Len(outbox), Q)
      BY DEF rest
    <3>2. Q = {n \in P : n > M}
      OBVIOUS
    <3> HIDE DEF Q
    <3>3. Continues(M, Len(outbox), P, rest, k)
      BY <1>1, <2>1, <3>1, <3>2, AscendingFrom
    <3>. QED
      BY <3>3 DEF Continues
  <2>3. /\ page.events \in Seq(Nat) /\ Len(page.events) = k /\ DOMAIN page.events = 1 .. k
        /\ \A i \in 1 .. k : page.events[i] = rest[i]
    <3>1. k \in 0 .. Len(rest)
      BY <2>1
    <3>. QED
      BY <1>3, <1>5, <3>1, Prefix
  <2>4. /\ page.events # << >> /\ Last(page.events) = rest[k] /\ page.cursor = rest[k]
        /\ rest[k] \in Nat /\ rest[k] \in DOMAIN outbox
    <3>1. page.events # << >> /\ page.events[Len(page.events)] = rest[k]
      BY <2>1, <2>3
    <3>2. page.cursor = rest[k] /\ Last(page.events) = rest[k]
      BY <1>5, <3>1 DEF Last
    <3>3. rest[k] \in Nat /\ rest[k] \in DOMAIN outbox
      BY <1>1, <2>2
    <3>. QED
      BY <3>1, <3>2, <3>3
  <2>5. new = old \o page.events
    BY <1>5, <2>2, <2>4 DEF old
  <2>6. \A i \in DOMAIN old : old[i] \in DOMAIN outbox
    <3>1. Members(old) = P \intersect (1 .. M)
      BY <1>1, AscendingIs DEF old
    <3>. QED
      BY <3>1, <1>2 DEF Members
  <2>7. \A i \in 1 .. k : page.events[i] \in DOMAIN outbox
    <3> TAKE i \in 1 .. k
    <3>1. i \in 1 .. Len(rest)
      BY <2>1
    <3>2. rest[i] \in P
      <4>1. rest = Ascending(Len(outbox), Q) /\ Q = {n \in P : n > M}
        BY DEF rest
      <4> HIDE DEF Q
      <4>2. Continues(M, Len(outbox), P, rest, i)
        BY <1>1, <3>1, <4>1, AscendingFrom
      <4>. QED
        BY <4>2 DEF Continues
    <3>. QED
      BY <1>2, <2>3, <3>2
  <2> DEFINE D == DOMAIN outbox
             g == [n \in D |-> outbox[n].revision]
  <2>8. old \in Seq(D) /\ page.events \in Seq(D) /\ g \in [D -> Nat]
    <3>1. old \in Seq(D)
      BY <1>3, <2>6
    <3>2. page.events \in Seq(D)
      BY <2>3, <2>7
    <3>. QED
      BY <1>1, <3>1, <3>2
  <2> HIDE DEF D, new
  <2>9. /\ Mapped(g, old) \o Mapped(g, page.events) = Mapped(g, new)
        /\ Mapped(g, new) \in Seq(Nat)
    <3> HIDE DEF g
    <3>1. MapsOver(g, Nat, old, page.events)
      BY <2>8, MapConcat
    <3>. QED
      BY <2>5, <3>1 DEF MapsOver
  <2>10. new \in Seq(D)
    BY <2>5, <2>8, ConcatProperties
  <2>11. delivered[c] = Mapped(g, old) /\ more = Mapped(g, page.events)
    BY <1>4, <2>8 DEF Mapped
  <2>12. Mapped(g, new) = [i \in DOMAIN new |-> outbox[new[i]].revision]
    <3>1. \A i \in DOMAIN new : new[i] \in D
      BY <2>10
    <3>. QED
      BY <3>1 DEF Mapped
  <2> HIDE DEF g
  <2>13. /\ delivered[c] \o more = [i \in DOMAIN new |-> outbox[new[i]].revision]
         /\ delivered[c] \o more \in Seq(Nat)
    BY <2>9, <2>11, <2>12
  <2>14. page.cursor \in Nat /\ page.cursor <= Len(outbox) /\ Last(page.events) \in DOMAIN outbox
    BY <1>1, <2>4
  <2>. QED
    BY <2>13, <2>14 DEF new, P
<1>. QED
  BY <1>6, <1>7

\* The graph moves.
LEMMA MovesStep ==
  ASSUME ChildInv, NEW c \in Kids, NEW l \in Lifecycles, ChildMoves(c, l)
  PROVE  ChildInv'
<1>1. /\ Moved(c, l) /\ UNCHANGED <<launches, brokerVars, clientVars>>
      /\ extras' = extras \/ extras' = extras + 1
  BY DEF ChildMoves, Extra
<1>2. UNCHANGED <<observer, channel, delivered, request, watch, watched>>
  BY <1>1 DEF launches, brokerVars, clientVars
<1>3. CursorBound' /\ FeedExact' /\ ReadInv' /\ WatchInv'
  BY <1>1, <1>2, MovedStep
<1>4. current' \in [Kids -> Currents] /\ outbox' \in Seq(OutboxRecord)
  BY <1>1, WasKept DEF ChildInv
<1>5. ChildTypeOK'
  BY <1>1, <1>2, <1>4 DEF ChildInv, ChildTypeOK
<1>. QED
  BY <1>3, <1>5 DEF ChildInv

\* A page is read and published.
LEMMA ReadsStep ==
  ASSUME ChildInv, NEW c \in Kids, ObserverReads(c)
  PROVE  ChildInv'
<1> DEFINE page == Page(c, observer[c].cursor)
           more == [i \in DOMAIN page.events |-> outbox[page.events[i]].revision]
           next == [pc |-> IF current[c].lifecycle = "active" THEN "reading" ELSE "settling",
                    cursor |-> page.cursor,
                    failures |-> IF current[c].lifecycle = "active" THEN 0 ELSE observer[c].failures]
           events == Ascending(page.cursor, Of(c))
<1>1. /\ observer' = [observer EXCEPT ![c] = next]
      /\ delivered' = [delivered EXCEPT ![c] = delivered[c] \o more]
      /\ \/ channel' = channel
         \/ /\ page.events # << >>
            /\ channel' = [channel EXCEPT ![c] = [open |-> channel[c].open,
                              revision |-> outbox[Last(page.events)].revision,
                              lifecycle |-> outbox[Last(page.events)].lifecycle]]
      /\ UNCHANGED <<graphVars, launches, clientVars, extras>>
  BY DEF ObserverReads, Publishes
<1>2. /\ page.cursor \in Nat /\ page.cursor <= Len(outbox)
      /\ page.events # << >> => Last(page.events) \in DOMAIN outbox
      /\ delivered[c] \o more = [i \in DOMAIN events |-> outbox[events[i]].revision]
      /\ delivered[c] \o more \in Seq(Nat)
  BY PageDelivered
<1> HIDE DEF page, more, events
<1>3. UNCHANGED <<current, outbox, request, watch, watched, extras>>
  BY <1>1 DEF graphVars, launches, clientVars
<1>4. /\ next \in [pc : {"none", "reading", "settling", "done"}, cursor : Nat, failures : Nat]
      /\ next.cursor = page.cursor
  BY <1>2 DEF ChildInv, ChildTypeOK
<1> HIDE DEF next
<1>5. /\ observer'[c].cursor = page.cursor /\ delivered'[c] = delivered[c] \o more
      /\ \A d \in Kids \ {c} : observer'[d] = observer[d] /\ delivered'[d] = delivered[d]
  BY <1>1, <1>4 DEF ChildInv, ChildTypeOK
<1>6. ChildTypeOK'
  <2>1. delivered' \in [Kids -> Seq(Nat)]
    BY <1>1, <1>2 DEF ChildInv, ChildTypeOK
  <2>2. channel' \in [Kids -> [open : BOOLEAN, revision : Revisions, lifecycle : Lifecycles]]
    <3>1. CASE page.events # << >>
      <4>1. outbox[Last(page.events)] \in OutboxRecord
        BY <3>1, <1>2 DEF ChildInv, ChildTypeOK
      <4> DEFINE last == outbox[Last(page.events)]
                 ch == [open |-> channel[c].open, revision |-> last.revision,
                        lifecycle |-> last.lifecycle]
      <4>2. channel[c].open \in BOOLEAN
        BY DEF ChildInv, ChildTypeOK
      <4>3. ch \in [open : BOOLEAN, revision : Revisions, lifecycle : Lifecycles]
        <5> HIDE DEF last
        <5>1. last \in OutboxRecord
          BY <4>1 DEF last
        <5>. QED
          BY <4>2, <5>1 DEF OutboxRecord, Revisions
      <4>4. channel' = channel \/ channel' = [channel EXCEPT ![c] = ch]
        BY <1>1
      <4> HIDE DEF ch
      <4>. QED
        BY <4>3, <4>4 DEF ChildInv, ChildTypeOK
    <3>2. CASE page.events = << >>
      BY <1>1, <3>2 DEF ChildInv, ChildTypeOK
    <3>. QED
      BY <3>1, <3>2
  <2>3. observer' \in [Kids -> [pc : {"none", "reading", "settling", "done"},
                                cursor : Nat, failures : Nat]]
    BY <1>1, <1>4 DEF ChildInv, ChildTypeOK
  <2>. QED
    BY <1>3, <2>1, <2>2, <2>3 DEF ChildInv, ChildTypeOK
<1>7. CursorBound'
  BY <1>2, <1>3, <1>5 DEF ChildInv, CursorBound
<1>8. FeedExact'
  <2> SUFFICES ASSUME NEW d \in Kids
               PROVE  (LET ev == Ascending(observer[d].cursor, Of(d))
                       IN  delivered[d] = [i \in DOMAIN ev |-> outbox[ev[i]].revision])'
    BY DEF FeedExact
  <2>1. Of(d)' = Of(d)
    BY <1>3 DEF Of
  <2>2. CASE d = c
    BY <2>1, <2>2, <1>2, <1>3, <1>5 DEF events
  <2>3. CASE d # c
    <3> DEFINE ev == Ascending(observer[d].cursor, Of(d))
    <3>1. delivered[d] = [i \in DOMAIN ev |-> outbox[ev[i]].revision]
      BY DEF ChildInv, FeedExact
    <3>2. Ascending(observer'[d].cursor, Of(d)') = ev /\ delivered'[d] = delivered[d]
      BY <2>1, <2>3, <1>5
    <3> HIDE DEF ev
    <3>. QED
      BY <3>1, <3>2, <1>3
  <2>. QED
    BY <2>2, <2>3
<1>9. ReadInv'
  BY <1>3 DEF ChildInv, ReadInv, Was, Recorded
<1>10. WatchInv'
  BY <1>3 DEF ChildInv, WatchInv, WatchOf
<1>. QED
  BY <1>6, <1>7, <1>8, <1>9, <1>10 DEF ChildInv

\* A step that leaves graph, cursors, requests and watch as they are.
LEMMA QuietStep ==
  ASSUME ChildInv, ChildTypeOK', \A d \in Kids : observer'[d].cursor = observer[d].cursor,
         UNCHANGED <<current, outbox, delivered, request, watch, watched>>
  PROVE  ChildInv'
<1>1. CursorBound'
  BY DEF ChildInv, CursorBound
<1>2. FeedExact'
  BY FeedKept DEF ChildInv
<1>3. ReadInv'
  BY DEF ChildInv, ReadInv, Was, Recorded
<1>4. WatchInv'
  BY DEF ChildInv, WatchInv, WatchOf
<1>. QED
  BY <1>1, <1>2, <1>3, <1>4 DEF ChildInv

\* A read fails, and may fail the child.
LEMMA FailsStep ==
  ASSUME ChildInv, NEW c \in Kids, ObserverFails(c)
  PROVE  ChildInv'
<1> DEFINE f == (observer[c].failures + 1) % FailureLimit
<1>1. /\ observer' = [observer EXCEPT ![c].failures = f] /\ extras' = extras + 1
      /\ Moved(c, "failed") \/ UNCHANGED graphVars
      /\ UNCHANGED <<launches, channel, delivered, clientVars>>
  BY DEF ObserverFails, Extra
<1>2. UNCHANGED <<channel, delivered, request, watch, watched>>
  BY <1>1 DEF launches, clientVars
<1>3. f \in Nat
  BY ObservationAssumption DEF ChildInv, ChildTypeOK
<1> HIDE DEF f
<1>4. /\ observer' \in [Kids -> [pc : {"none", "reading", "settling", "done"},
                                  cursor : Nat, failures : Nat]]
      /\ \A d \in Kids : observer'[d].cursor = observer[d].cursor
  BY <1>1, <1>3 DEF ChildInv, ChildTypeOK
<1>5. CASE Moved(c, "failed")
  <2>0. "failed" \in Lifecycles
    BY DEF Lifecycles
  <2>1. CursorBound' /\ FeedExact' /\ ReadInv' /\ WatchInv'
    BY <1>2, <1>4, <1>5, <2>0, MovedStep
  <2>2. current' \in [Kids -> Currents] /\ outbox' \in Seq(OutboxRecord)
    BY <1>5, <2>0, WasKept DEF ChildInv
  <2>3. ChildTypeOK'
    BY <1>1, <1>2, <1>4, <2>2 DEF ChildInv, ChildTypeOK
  <2>. QED
    BY <2>1, <2>3 DEF ChildInv
<1>6. CASE UNCHANGED graphVars
  <2>1. UNCHANGED <<current, outbox>>
    BY <1>6 DEF graphVars
  <2>2. ChildTypeOK'
    BY <1>1, <1>2, <1>4, <2>1 DEF ChildInv, ChildTypeOK
  <2>. QED
    BY <1>2, <1>4, <2>1, <2>2, QuietStep
<1>. QED
  BY <1>1, <1>5, <1>6

\* The observer ends or reads again.
LEMMA SettlesStep ==
  ASSUME ChildInv, NEW c \in Kids, NEW ok \in BOOLEAN, ObserverSettles(c, ok)
  PROVE  ChildInv'
<1>1. /\ observer' = [observer EXCEPT ![c].pc = IF ok THEN "done" ELSE "reading"]
      /\ channel' = channel \/ channel' = [channel EXCEPT ![c].open = FALSE]
      /\ extras' = extras \/ extras' = extras + 1
      /\ UNCHANGED <<graphVars, launches, delivered, clientVars>>
  BY DEF ObserverSettles, Forget, Extra
<1>2. UNCHANGED <<current, outbox, delivered, request, watch, watched>>
  BY <1>1 DEF graphVars, launches, clientVars
<1>3. /\ observer' \in [Kids -> [pc : {"none", "reading", "settling", "done"},
                                  cursor : Nat, failures : Nat]]
      /\ \A d \in Kids : observer'[d].cursor = observer[d].cursor
  <2> DEFINE q == IF ok THEN "done" ELSE "reading"
  <2>1. q \in {"none", "reading", "settling", "done"} /\ observer' = [observer EXCEPT ![c].pc = q]
    BY <1>1
  <2> HIDE DEF q
  <2> DEFINE O == [pc : {"none", "reading", "settling", "done"}, cursor : Nat, failures : Nat]
             o == [observer[c] EXCEPT !.pc = q]
  <2>2. observer \in [Kids -> O]
    BY DEF ChildInv, ChildTypeOK
  <2>3. observer[c] \in O
    BY <2>2
  <2>4. o \in O /\ o.cursor = observer[c].cursor
    BY <2>1, <2>3
  <2>5. observer' = [observer EXCEPT ![c] = o]
    BY <2>1
  <2> HIDE DEF O, o
  <2>6. observer' \in [Kids -> O] /\ observer'[c] = o /\ \A d \in Kids \ {c} : observer'[d] = observer[d]
    BY <2>2, <2>4, <2>5
  <2>7. \A d \in Kids : observer'[d].cursor = observer[d].cursor
    BY <2>4, <2>6
  <2>. QED
    BY <2>6, <2>7 DEF O
<1>4. channel' \in [Kids -> [open : BOOLEAN, revision : Revisions, lifecycle : Lifecycles]]
  <2> DEFINE C == [open : BOOLEAN, revision : Revisions, lifecycle : Lifecycles]
             ch == [channel[c] EXCEPT !.open = FALSE]
  <2>1. channel \in [Kids -> C]
    BY DEF ChildInv, ChildTypeOK
  <2>2. ch \in C
    <3>1. channel[c] \in C
      BY <2>1
    <3>. QED
      BY <3>1
  <2>3. channel' = channel \/ channel' = [channel EXCEPT ![c] = ch]
    BY <1>1
  <2> HIDE DEF C, ch
  <2>4. channel' \in [Kids -> C]
    BY <2>1, <2>2, <2>3
  <2>. QED
    BY <2>4 DEF C
<1>6. extras' \in Nat
  BY <1>1 DEF ChildInv, ChildTypeOK
<1>5. ChildTypeOK'
  BY <1>2, <1>3, <1>4, <1>6 DEF ChildInv, ChildTypeOK
<1>. QED
  BY <1>2, <1>3, <1>5, QuietStep

\* The server's and the client's handling of a request.
LEMMA RequestGoesOnStep ==
  ASSUME ChildInv, NEW c \in Kids, RequestGoesOn(c) \/ HoldElapses(c) \/ RequestFails(c)
  PROVE  ChildInv'
<1>1. /\ current[c] \in Currents /\ Was(c, current[c]) /\ extras \in Nat
      /\ request[c].current \in Currents /\ Was(c, request[c].current)
  BY DEF ChildInv, ChildTypeOK, ReadInv
<1>2. /\ \A p \in Open : p \in RequestSteps
      /\ "answered" \in RequestSteps /\ "failed" \in RequestSteps
      /\ {"asked", "read", "holding", "sleeping", "fetching"} = Open
  BY DEF RequestSteps, Open
<1>3. ASSUME ServerReads(c) PROVE ChildInv'
  <2>1. /\ request[c].pc \in Open /\ Goes(c, "read", current[c])
        /\ UNCHANGED <<graphVars, launches, brokerVars, watch, extras>>
    BY <1>2, <1>3 DEF ServerReads
  <2>. QED
    BY <2>1, <1>1, <1>2, GoesStep
<1>4. ASSUME ServerHolds(c) PROVE ChildInv'
  <2>1. /\ request[c].pc \in Open /\ UNCHANGED <<graphVars, launches, brokerVars, watch, extras>>
        /\ \/ Answers(c, request[c].current)
           \/ Goes(c, "holding", request[c].current)
           \/ Goes(c, "sleeping", request[c].current)
    BY <1>4 DEF ServerHolds, Open
  <2>2. CASE Answers(c, request[c].current)
    BY <2>1, <2>2, <1>1, AnswersStep
  <2>3. CASE Goes(c, "holding", request[c].current)
    BY <2>1, <2>3, <1>1, <1>2, GoesStep
  <2>4. CASE Goes(c, "sleeping", request[c].current)
    BY <2>1, <2>4, <1>1, <1>2, GoesStep
  <2>. QED
    BY <2>1, <2>2, <2>3, <2>4
<1>5. ASSUME HoldWakes(c) PROVE ChildInv'
  BY <1>1, <1>2, <1>5, AnswersStep DEF HoldWakes
<1>6. ASSUME HoldEnds(c) \/ HoldElapses(c) PROVE ChildInv'
  BY <1>1, <1>2, <1>6, AnswersStep DEF HoldEnds, HoldElapses
<1>7. ASSUME FetchCurrent(c) PROVE ChildInv'
  <2>1. /\ request[c].pc \in Open /\ UNCHANGED <<graphVars, launches, brokerVars, watch, extras>>
        /\ Goes(c, "answered", current[c]) /\ request[c].pc = "fetching"
    BY <1>7, <1>2 DEF FetchCurrent
  <2>2. c \in watched => current[c].revision > watch.seen[c]
    <3> HAVE c \in watched
    <3>1. WatchOf(c)
      BY DEF ChildInv, WatchInv
    <3>2. watch.seen[c] \in Int /\ current[c].revision \in Int
      BY DEF ChildInv, ChildTypeOK, Currents, Revisions, None
    <3>. QED
      BY <2>1, <3>1, <3>2 DEF WatchOf
  <2>. QED
    BY <2>1, <2>2, <1>1, <1>2, GoesStep
<1>8. ASSUME RequestFails(c) PROVE ChildInv'
  <2> DEFINE r == Fresh("failed", None)
  <2>1. /\ request[c].pc \in Open /\ request' = [request EXCEPT ![c] = r]
        /\ UNCHANGED <<graphVars, launches, brokerVars, watch>>
        /\ extras' = extras \/ extras' = extras + 1
    BY <1>8 DEF RequestFails, Extra
  <2>2. r \in RequestRecord /\ r.pc = "failed" /\ r.current = Initial
    BY <1>2, Kinds DEF Fresh, RequestRecord, Revisions
  <2>3. Was(c, Initial)
    <3>1. current[c] = Initial \/ current[c].revision > 0
      BY DEF ChildInv, ReadInv
    <3>. QED
      BY <3>1, Kinds DEF Was, Recorded
  <2>4. c \in watched => c \notin watch.ended
    BY <2>1 DEF ChildInv, WatchInv, WatchOf, Open
  <2>5. "failed" \notin Open \union {"answered"} /\ extras' \in Nat
    BY <1>1, <2>1 DEF Open
  <2> HIDE DEF r
  <2>. QED
    BY <2>1, <2>2, <2>3, <2>4, <2>5, RequestStep
<1>. QED
  BY <1>3, <1>4, <1>5, <1>6, <1>7, <1>8 DEF RequestGoesOn

\* collect asks the children that are neither ended nor pending.
LEMMA AsksStep ==
  ASSUME ChildInv, CollectAsks
  PROVE  ChildInv'
<1> DEFINE ask == {c \in watched \ watch.ended : request[c].pc = "none"}
<1>1. /\ watch' = [watch EXCEPT !.collecting = TRUE]
      /\ request' = [c \in Kids |-> IF c \in ask THEN Fresh("asked", watch.seen[c]) ELSE request[c]]
      /\ UNCHANGED <<current, outbox, watched, observer, channel, delivered, extras>>
  BY DEF CollectAsks, graphVars, launches, brokerVars
<1>2. watch' \in [collecting : BOOLEAN, seen : [Kids -> Revisions], ended : SUBSET Kids]
      /\ watch'.seen = watch.seen /\ watch'.ended = watch.ended
  BY <1>1 DEF ChildInv, ChildTypeOK
<1>3. request' \in [Kids -> RequestRecord]
  <2> SUFFICES ASSUME NEW c \in Kids PROVE Fresh("asked", watch.seen[c]) \in RequestRecord
    BY <1>1 DEF ChildInv, ChildTypeOK, RequestRecord
  <2>1. watch.seen[c] \in Revisions
    BY DEF ChildInv, ChildTypeOK
  <2>. QED
    BY <2>1, Kinds DEF Fresh, RequestRecord, RequestSteps, Open
<1>4. ChildTypeOK' /\ CursorBound'
  BY <1>1, <1>2, <1>3 DEF ChildInv, ChildTypeOK, CursorBound, RequestRecord
<1>5. FeedExact'
  BY <1>1, FeedKept DEF ChildInv
<1>6. ReadInv'
  <2> SUFFICES ASSUME NEW c \in Kids PROVE Was(c, request[c].current)'
    BY <1>1 DEF ChildInv, ReadInv, Was, Recorded
  <2>1. CASE request'[c] = request[c]
    BY <1>1, <2>1 DEF ChildInv, ReadInv, Was, Recorded
  <2>2. CASE request'[c].current = Initial
    <3>1. current[c] = Initial \/ current[c].revision > 0
      BY DEF ChildInv, ReadInv
    <3>. QED
      BY <1>1, <2>2, <3>1, Kinds DEF Was, Recorded
  <2>. QED
    BY <1>1, <2>1, <2>2 DEF Fresh
<1>7. WatchInv'
  <2> SUFFICES ASSUME NEW c \in watched PROVE WatchOf(c)'
    BY <1>1 DEF WatchInv
  <2>1. c \in Kids /\ WatchOf(c)
    BY DEF ChildInv, ChildTypeOK, WatchInv
  <2>2. CASE c \in ask
    <3>1. request'[c].pc = "asked" /\ request'[c].after = watch.seen[c] /\ c \notin watch.ended
      BY <1>1, <2>1, <2>2 DEF Fresh
    <3>. QED
      BY <2>1, <3>1, <1>1, <1>2 DEF WatchOf
  <2>3. CASE c \notin ask
    <3>1. request'[c] = request[c]
      BY <1>1, <2>1, <2>3
    <3>. QED
      BY <2>1, <3>1, <1>1, <1>2 DEF WatchOf
  <2>. QED
    BY <2>2, <2>3
<1>. QED
  BY <1>4, <1>5, <1>6, <1>7 DEF ChildInv

\* collect reports what was answered, and the errors end their child's watch.
LEMMA ReportsStep ==
  ASSUME ChildInv, CollectReports
  PROVE  ChildInv'
<1> DEFINE answered == {c \in watched : request[c].pc = "answered"}
           failed == {c \in watched : request[c].pc = "failed"}
           seen == [c \in Kids |-> IF c \in answered THEN request[c].current.revision
                                    ELSE watch.seen[c]]
           ended == watch.ended \cup failed
                     \cup {c \in answered : request[c].current.lifecycle # "active"}
<1>1. /\ watch' = [collecting |-> FALSE, seen |-> seen, ended |-> ended]
      /\ request' = [c \in Kids |-> IF c \in answered \cup failed THEN Idle ELSE request[c]]
      /\ UNCHANGED <<current, outbox, watched, observer, channel, delivered, extras>>
  BY DEF CollectReports, graphVars, launches, brokerVars
<1>2. seen \in [Kids -> Revisions] /\ ended \in SUBSET Kids
  BY DEF ChildInv, ChildTypeOK, Currents, Revisions
<1>3. request' \in [Kids -> RequestRecord]
  BY <1>1, Kinds DEF ChildInv, ChildTypeOK, RequestRecord
<1>4. ChildTypeOK' /\ CursorBound'
  BY <1>1, <1>2, <1>3 DEF ChildInv, ChildTypeOK, CursorBound, RequestRecord
<1>5. FeedExact'
  BY <1>1, FeedKept DEF ChildInv
<1>6. ReadInv'
  <2> SUFFICES ASSUME NEW c \in Kids PROVE Was(c, request[c].current)'
    BY <1>1 DEF ChildInv, ReadInv, Was, Recorded
  <2>1. CASE request'[c] = request[c]
    BY <1>1, <2>1 DEF ChildInv, ReadInv, Was, Recorded
  <2>2. CASE request'[c].current = Initial
    <3>1. current[c] = Initial \/ current[c].revision > 0
      BY DEF ChildInv, ReadInv
    <3>. QED
      BY <1>1, <2>2, <3>1, Kinds DEF Was, Recorded
  <2>. QED
    BY <1>1, <2>1, <2>2, Kinds
<1>7. WatchInv'
  <2> SUFFICES ASSUME NEW c \in watched PROVE WatchOf(c)'
    BY <1>1 DEF WatchInv
  <2>1. c \in Kids /\ WatchOf(c) /\ Was(c, request[c].current)
    BY DEF ChildInv, ChildTypeOK, WatchInv, ReadInv
  <2>2. watch'.seen[c] = seen[c] /\ watch'.ended = ended /\ current' = current
    BY <1>1
  <2>3. CASE c \in answered
    <3>1. request'[c].pc = "none" /\ seen[c] = request[c].current.revision
      BY <1>1, <2>1, <2>3, Kinds
    <3>2. c \notin ended => request[c].current.lifecycle = "active"
      BY <2>3
    <3> HIDE DEF seen, ended
    <3>. QED
      BY <2>1, <2>2, <3>1, <3>2 DEF WatchOf, Was, Open
  <2>4. CASE c \in failed
    <3>1. request'[c].pc = "none" /\ c \in ended
      BY <1>1, <2>1, <2>4, Kinds
    <3> HIDE DEF seen, ended
    <3>. QED
      BY <2>1, <2>2, <3>1 DEF WatchOf, Open
  <2>5. CASE c \notin answered \cup failed
    <3>1. request'[c] = request[c] /\ seen[c] = watch.seen[c] /\ (c \in ended <=> c \in watch.ended)
      BY <1>1, <2>1, <2>5
    <3> HIDE DEF seen, ended
    <3>. QED
      BY <2>1, <2>2, <3>1 DEF WatchOf
  <2>. QED
    BY <2>3, <2>4, <2>5
<1>. QED
  BY <1>4, <1>5, <1>6, <1>7 DEF ChildInv

\* Every step of the observation keeps the invariant.
LEMMA ChildStep ==
  ASSUME ChildInv, [ChildNext]_childVars
  PROVE  ChildInv'
<1>1. CASE UNCHANGED childVars
  <2>1. UNCHANGED <<current, outbox, watched, refused, observer, channel, delivered,
                    request, watch, extras>>
    BY <1>1 DEF childVars, graphVars, launches, brokerVars, clientVars
  <2>2. ChildTypeOK'
    BY <2>1 DEF ChildInv, ChildTypeOK
  <2>. QED
    BY <2>1, <2>2, QuietStep
<1>2. ASSUME NEW c \in Kids, NEW l \in Lifecycles, ChildMoves(c, l) PROVE ChildInv'
  BY <1>2, MovesStep
<1>3. ASSUME NEW c \in Kids, ServerGoesOn(c) PROVE ChildInv'
  BY <1>3, ReadsStep, SettlesStep DEF ServerGoesOn
<1>4. ASSUME NEW c \in Kids, ObserverFails(c) PROVE ChildInv'
  BY <1>4, FailsStep
<1>5. ASSUME NEW c \in Kids, ObserverSettles(c, FALSE) PROVE ChildInv'
  BY <1>5, SettlesStep
<1>6. ASSUME NEW c \in Kids, RequestGoesOn(c) \/ HoldElapses(c) \/ RequestFails(c)
      PROVE  ChildInv'
  BY <1>6, RequestGoesOnStep
<1>7. CASE CollectAsks
  BY <1>7, AsksStep
<1>8. CASE CollectReports
  BY <1>8, ReportsStep
<1>. QED
  BY <1>1, <1>2, <1>3, <1>4, <1>5, <1>6, <1>7, <1>8 DEF ChildNext

\* The invariant of the observation: cursors inside the outbox, an exact feed, requests that
\* hold currents the child had, and a watch behind what it has been asked for.
THEOREM ObservationInvariant == ChildSpec => []ChildInv
<1>1. ChildInit => ChildInv
  BY ChildInitially
<1>2. ChildInv /\ [ChildNext]_childVars => ChildInv'
  BY ChildStep
<1>. QED
  BY <1>1, <1>2, PTL DEF ChildSpec

\* Each observer publishes the events of its child up to its cursor, each once and in order,
\* for every page limit and however outboxes interleave (projection_page).
THEOREM FeedsAreExact == ChildSpec => []FeedExact
<1>1. ChildInv => FeedExact
  BY DEF ChildInv
<1>. QED
  BY <1>1, ObservationInvariant, PTL

\* Each change the watch reports is a current the child had, past the one reported before,
\* and none follows an end (watchCompletions).
THEOREM WatchMovesForward == ChildSpec => ChangesMoveForward
<1> DEFINE Forward ==
      \A c \in watched : (request[c].pc = "answered" /\ request'[c].pc = "none") =>
        LET reported == request[c].current IN
        /\ c \notin watch.ended /\ reported.revision > watch.seen[c]
        /\ \/ reported = Initial
           \/ \E n \in DOMAIN outbox :
                /\ outbox[n].child = c /\ outbox[n].revision = reported.revision
                /\ outbox[n].lifecycle = reported.lifecycle
<1>1. ChildInv => Forward
  <2> SUFFICES ASSUME ChildInv, NEW c \in watched, request[c].pc = "answered"
               PROVE  /\ c \notin watch.ended /\ request[c].current.revision > watch.seen[c]
                      /\ Recorded(c, request[c].current)
    BY DEF Recorded
  <2>1. c \in Kids /\ WatchOf(c) /\ Was(c, request[c].current)
    BY DEF ChildInv, ChildTypeOK, WatchInv, ReadInv
  <2>. QED
    BY <2>1 DEF WatchOf, Was
<1>2. ChildInv /\ [ChildNext]_childVars => [Forward]_childVars
  BY <1>1
<1>. QED
  BY <1>2, ObservationInvariant, PTL DEF ChildSpec, ChangesMoveForward
=============================================================================
