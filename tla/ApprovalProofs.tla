--------------------------- MODULE ApprovalProofs ---------------------------
(***************************************************************************)
(* The approval coordinator keeps its invariants for every set of          *)
(* interactions, calls and requests and every bound, alone and composed    *)
(* with the product's observers and decision route.                        *)
(***************************************************************************)
EXTENDS ApprovalObservation, SelectionProofs

\* Every request kept as pending is kept once, and its call is active.
PendingInv == Distinct(pending) /\ \A r \in ToSet(pending) : CallOf[r] \in active

\* A decision ends its request, and only approve_always makes a grant.
DecidedInv ==
  /\ \A r \in Requests : decided[r] # "none" => promise[r] \in Outcomes
  /\ \A g \in ToSet(grants) : decided[g] = "approve_always"

\* The inductive invariant of the coordinator.
CoordinatorInv ==
  /\ TypeOK /\ PendingInv /\ DecidedInv /\ NoOrphanedRequest
  /\ ReviewedOnly /\ StreamTellsTheTruth /\ BacklogBounded

(***************************************************************************)
(* Sequences.                                                              *)
(***************************************************************************)
\* Keep has the members of s in S, repeats none that s does not, and is not longer.
LEMMA KeepSet ==
  ASSUME NEW T, NEW s \in Seq(T), NEW S
  PROVE  /\ Keep(s, S) \in Seq(T)
         /\ ToSet(Keep(s, S)) = ToSet(s) \intersect S
         /\ Distinct(s) => Distinct(Keep(s, S))
         /\ Len(Keep(s, S)) <= Len(s)
<1>1. /\ Keep(s, S) \in Seq(T) /\ Members(Keep(s, S)) = Members(s) \intersect S
      /\ Distinct(s) => Distinct(Keep(s, S))
  BY KeepMembers
<1>2. ToSet(Keep(s, S)) = Members(Keep(s, S)) /\ ToSet(s) = Members(s)
  BY DEF ToSet, Members
<1>3. Len(Keep(s, S)) <= Len(s)
  <2>1. PICK at \in Seq(Nat) : KeptAt(at, s, S)
    BY KeepAt
  <2>2. DOMAIN at = DOMAIN Keep(s, S) /\ Increasing(at) /\ Members(at) \subseteq DOMAIN s
    BY <2>1 DEF KeptAt
  <2>3. Distinct(at)
    <3> SUFFICES ASSUME NEW j \in DOMAIN at, NEW k \in DOMAIN at, at[j] = at[k] PROVE j = k
      BY DEF Distinct
    <3>1. j \in Nat /\ k \in Nat /\ at[j] \in Nat /\ at[k] \in Nat
      OBVIOUS
    <3>2. ~(j < k) /\ ~(k < j)
      BY <2>2, <3>1 DEF Increasing
    <3>. QED
      BY <3>1, <3>2
  <2>4. IsFiniteSet(Members(at)) /\ Cardinality(Members(at)) = Len(at)
    BY <2>3, DistinctLen
  <2>5. Len(s) \in Nat /\ DOMAIN s = 1 .. Len(s) /\ Len(at) = Len(Keep(s, S))
    <3> DEFINE t == Keep(s, S)
    <3> HIDE DEF t
    <3>1. t \in Seq(T) /\ DOMAIN at = DOMAIN t
      BY <1>1, <2>2 DEF t
    <3>2. Len(at) = Len(t)
      BY <3>1
    <3>. QED
      BY <3>2 DEF t
  <2>6. IsFiniteSet(1 .. Len(s)) /\ Cardinality(1 .. Len(s)) = Len(s)
    <3> DEFINE n == Len(s)
    <3>1. n \in Int /\ 1 \in Int /\ n >= 0
      OBVIOUS
    <3> HIDE DEF n
    <3>2. IsFiniteSet(1 .. n) /\ Cardinality(1 .. n) = IF 1 > n THEN 0 ELSE n - 1 + 1
      BY <3>1, FS_Interval
    <3>3. Cardinality(1 .. n) = n
      BY <3>1, <3>2
    <3>. QED
      BY <3>2, <3>3 DEF n
  <2>7. Cardinality(Members(at)) <= Cardinality(1 .. Len(s))
    BY <2>2, <2>5, <2>6, FS_Subset
  <2>. QED
    BY <2>4, <2>5, <2>6, <2>7
<1>. QED
  BY <1>1, <1>2, <1>3

\* When every member belongs to S, nothing goes.
LEMMA KeepWhole ==
  ASSUME NEW T, NEW s \in Seq(T), NEW S, ToSet(s) \subseteq S
  PROVE  Keep(s, S) = s
<1>1. Members(s) \subseteq S
  BY DEF ToSet, Members
<1>. QED
  BY <1>1, KeepAll

\* The members of a sequence are finitely many, and none when it is empty.
LEMMA ToSetFacts ==
  ASSUME NEW T, NEW s \in Seq(T)
  PROVE  /\ ToSet(s) \subseteq T /\ IsFiniteSet(ToSet(s))
         /\ s = <<>> <=> ToSet(s) = {}
         /\ Distinct(s) => Cardinality(ToSet(s)) = Len(s)
<1>1. Len(s) \in Nat /\ DOMAIN s = 1 .. Len(s) /\ \A k \in DOMAIN s : s[k] \in T
  OBVIOUS
<1>2. ToSet(s) \subseteq T
  BY <1>1 DEF ToSet
<1>3. IsFiniteSet(ToSet(s))
  <2>1. IsFiniteSet(1 .. Len(s))
    BY <1>1, FS_Interval
  <2>2. s \in Surjection(1 .. Len(s), ToSet(s))
    BY <1>1 DEF ToSet, Surjection
  <2>. QED
    BY <2>1, <2>2, FS_Surjection
<1>4. s = <<>> <=> ToSet(s) = {}
  <2>1. ASSUME s # <<>> PROVE ToSet(s) # {}
    <3>1. 1 \in DOMAIN s
      BY <1>1, <2>1
    <3>. QED
      BY <3>1 DEF ToSet
  <2>2. ToSet(<<>>) = {}
    BY DEF ToSet
  <2>. QED
    BY <2>1, <2>2
<1>5. ASSUME Distinct(s) PROVE Cardinality(ToSet(s)) = Len(s)
  <2>1. ToSet(s) = Members(s)
    BY DEF ToSet, Members
  <2>. QED
    BY <1>5, <2>1, DistinctLen
<1>. QED
  BY <1>2, <1>3, <1>4, <1>5

\* A sequence followed by another has the members of both, the first ones first.
LEMMA ConcatSet ==
  ASSUME NEW T, NEW a \in Seq(T), NEW b \in Seq(T)
  PROVE  /\ a \o b \in Seq(T) /\ Len(a \o b) = Len(a) + Len(b)
         /\ ToSet(a \o b) = ToSet(a) \union ToSet(b)
         /\ \A k \in DOMAIN a : k \in DOMAIN (a \o b) /\ (a \o b)[k] = a[k]
         /\ \A k \in DOMAIN (a \o b) : k \notin DOMAIN a =>
              k - Len(a) \in DOMAIN b /\ (a \o b)[k] = b[k - Len(a)]
<1> DEFINE ab == a \o b
<1>1. /\ Len(a) \in Nat /\ Len(b) \in Nat /\ DOMAIN a = 1 .. Len(a) /\ DOMAIN b = 1 .. Len(b)
  OBVIOUS
<1>2. /\ ab \in Seq(T) /\ Len(ab) = Len(a) + Len(b)
      /\ \A i \in 1 .. Len(a) + Len(b) : ab[i] = IF i <= Len(a) THEN a[i] ELSE b[i - Len(a)]
  BY ConcatProperties
<1> HIDE DEF ab
<1>3. DOMAIN ab = 1 .. Len(a) + Len(b)
  BY <1>1, <1>2
<1>4. /\ \A k \in DOMAIN a : k \in DOMAIN ab /\ ab[k] = a[k]
      /\ \A k \in DOMAIN ab : k \notin DOMAIN a => k - Len(a) \in DOMAIN b /\ ab[k] = b[k - Len(a)]
  BY <1>1, <1>2, <1>3
<1>5. \A k \in DOMAIN b : k + Len(a) \in DOMAIN ab /\ ab[k + Len(a)] = b[k]
  <2> TAKE k \in DOMAIN b
  <2>1. k + Len(a) \in 1 .. Len(a) + Len(b) /\ ~(k + Len(a) <= Len(a)) /\ (k + Len(a)) - Len(a) = k
    BY <1>1
  <2>. QED
    BY <1>2, <1>3, <2>1
<1>6. ToSet(ab) = ToSet(a) \union ToSet(b)
  BY <1>4, <1>5 DEF ToSet
<1>. QED
  BY <1>2, <1>4, <1>6 DEF ab

\* The newest m members of a sequence.
LEMMA NewestFacts ==
  ASSUME NEW T, NEW s \in Seq(T), NEW m \in Nat
  PROVE  /\ Newest(s, m) \in Seq(T) /\ Len(Newest(s, m)) <= m
         /\ ToSet(Newest(s, m)) \subseteq ToSet(s)
<1>1. Len(s) \in Nat /\ DOMAIN s = 1 .. Len(s)
  OBVIOUS
<1>2. CASE Len(s) <= m
  BY <1>2 DEF Newest
<1>3. CASE ~(Len(s) <= m)
  <2> DEFINE i == Len(s) - m + 1
             j == Len(s)
             t == SubSeq(s, i, j)
  <2>1. Newest(s, m) = t
    BY <1>3 DEF Newest
  <2>2. i \in Int /\ j \in Int /\ \A n \in i .. j : n \in DOMAIN s
    BY <1>1, <1>3
  <2>3. \A n \in i .. j : s[n] \in T
    BY <2>2
  <2>4. i <= j + 1 /\ j - i + 1 = m
    BY <1>1, <1>3
  <2> HIDE DEF i, j
  <2>5. /\ t \in Seq(T) /\ Len(t) = IF i <= j THEN j - i + 1 ELSE 0
        /\ \A n \in 1 .. j - i + 1 : t[n] = s[i + n - 1]
    <3> HIDE DEF t
    <3>. QED
      BY <2>2, <2>3, SubSeqProperties DEF t
  <2> HIDE DEF t
  <2>6. Len(t) <= m
    BY <2>2, <2>4, <2>5
  <2>7. \A n \in DOMAIN t : t[n] \in ToSet(s)
    <3> TAKE n \in DOMAIN t
    <3>1. n \in 1 .. j - i + 1 /\ i + n - 1 \in i .. j
      BY <2>2, <2>5
    <3>2. i + n - 1 \in DOMAIN s /\ t[n] = s[i + n - 1]
      BY <2>2, <2>5, <3>1
    <3>. QED
      BY <3>2 DEF ToSet
  <2>. QED
    BY <2>1, <2>5, <2>6, <2>7 DEF ToSet
<1>. QED
  BY <1>2, <1>3

(***************************************************************************)
(* Events, pending requests and places.                                    *)
(***************************************************************************)
\* The events a stream may hold.
LEMMA EventFacts ==
  /\ \A r \in Requests : Requested(r) \in EventSet
  /\ \A r \in Requests, o \in Outcomes, by \in Requests \union {NoRequest} :
       Resolved(r, o, by) \in EventSet
  /\ \A r, o, by : /\ Resolved(r, o, by).type = "resolved" /\ Resolved(r, o, by).request = r
                   /\ Resolved(r, o, by).outcome = o /\ Resolved(r, o, by).by = by
  /\ \A r : Requested(r).type = "requested" /\ Requested(r).request = r
  /\ \A e \in EventSet : /\ e.request \in Requests
                         /\ e.type = "resolved" => e.outcome \in Outcomes
<1>1. \A e \in EventSet : /\ e.request \in Requests
                          /\ e.type = "resolved" => e.outcome \in Outcomes
  <2> TAKE e \in EventSet
  <2>1. CASE \E r \in Requests : e = Requested(r)
    BY <2>1 DEF Requested
  <2>2. CASE \E r \in Requests, o \in Outcomes, by \in Requests \union {NoRequest} :
               e = Resolved(r, o, by)
    BY <2>2 DEF Resolved
  <2>. QED
    BY <2>1, <2>2 DEF EventSet
<1>2. \A r \in Requests : Requested(r) \in EventSet
  BY DEF EventSet
<1>3. \A r \in Requests, o \in Outcomes, by \in Requests \union {NoRequest} :
        Resolved(r, o, by) \in EventSet
  <2> TAKE r \in Requests, o \in Outcomes, by \in Requests \union {NoRequest}
  <2> DEFINE R == {Resolved(q, p, b) : q \in Requests, p \in Outcomes, b \in Requests \union {NoRequest}}
  <2>1. Resolved(r, o, by) \in R
    OBVIOUS
  <2>2. R \subseteq EventSet
    BY DEF EventSet
  <2>. QED
    BY <2>1, <2>2
<1>4. \A r, o, by : /\ Resolved(r, o, by).type = "resolved" /\ Resolved(r, o, by).request = r
                   /\ Resolved(r, o, by).outcome = o /\ Resolved(r, o, by).by = by
  BY DEF Resolved
<1>5. \A r : Requested(r).type = "requested" /\ Requested(r).request = r
  BY DEF Requested
<1>. QED
  BY <1>1, <1>2, <1>3, <1>4, <1>5

\* The requests that are pending are finitely many, and an idle interaction has none.
LEMMA PendingFacts ==
  ASSUME TypeOK
  PROVE  /\ pending \in Seq(Requests) /\ ToSet(pending) \subseteq Requests
         /\ \A r \in Requests : IOf(r) \in Interactions /\ CallOf[r] \in Calls
         /\ \A i : IsFiniteSet({r \in ToSet(pending) : IOf(r) = i}) /\ PendingCount(i) \in Nat
         /\ \A i : Idle(i) => \A r \in ToSet(pending) : IOf(r) # i
<1>1. pending \in Seq(Requests)
  BY DEF TypeOK
<1>2. ToSet(pending) \subseteq Requests /\ IsFiniteSet(ToSet(pending))
  BY <1>1, ToSetFacts
<1>3. \A r \in Requests : IOf(r) \in Interactions /\ CallOf[r] \in Calls
  BY CoordinatorAssumption DEF IOf
<1>4. ASSUME NEW i
      PROVE  /\ IsFiniteSet({r \in ToSet(pending) : IOf(r) = i}) /\ PendingCount(i) \in Nat
             /\ Idle(i) => \A r \in ToSet(pending) : IOf(r) # i
  <2> DEFINE S == {r \in ToSet(pending) : IOf(r) = i}
  <2>1. S \subseteq ToSet(pending)
    OBVIOUS
  <2> HIDE DEF S
  <2>2. IsFiniteSet(S) /\ Cardinality(S) \in Nat
    BY <1>2, <2>1, FS_Subset, FS_CardinalityType
  <2>3. Cardinality(S) = 0 => S = {}
    BY <2>2, FS_EmptySet
  <2>. QED
    BY <2>2, <2>3 DEF S, PendingCount, Idle
<1>. QED
  BY <1>1, <1>2, <1>3, <1>4

\* A place is an interaction with a position of its stream.
LEMMA PlacesIn ==
  ASSUME NEW strs
  PROVE  \A p : p \in Places(strs) <=>
                 \E i \in Interactions : \E k \in DOMAIN strs[i] : p = <<i, k>>
BY DEF Places

\* Streams within their bound have finitely many places.
LEMMA PlacesFinite ==
  ASSUME NEW strs, \A i \in Interactions : strs[i] \in Seq(EventSet) /\ Len(strs[i]) <= MaxStream
  PROVE  IsFiniteSet(Places(strs)) /\ Retained(strs) \in Nat
<1> DEFINE B == Interactions \X (1 .. MaxStream)
<1>1. MaxStream \in Int /\ 1 \in Int /\ IsFiniteSet(Interactions)
  BY CoordinatorAssumption
<1>2. IsFiniteSet(B)
  <2>1. IsFiniteSet(1 .. MaxStream)
    BY <1>1, FS_Interval
  <2>. QED
    BY <1>1, <2>1, FS_Product
<1>3. ASSUME NEW p \in Places(strs) PROVE p \in B
  <2>1. PICK i \in Interactions : \E k \in DOMAIN strs[i] : p = <<i, k>>
    BY <1>3, PlacesIn
  <2>2. PICK k \in DOMAIN strs[i] : p = <<i, k>>
    BY <2>1
  <2>3. k \in 1 .. Len(strs[i]) /\ Len(strs[i]) \in Nat /\ Len(strs[i]) <= MaxStream
    OBVIOUS
  <2>4. k \in 1 .. MaxStream
    BY <1>1, <2>3
  <2>. QED
    BY <2>2, <2>4
<1> HIDE DEF B
<1>4. IsFiniteSet(Places(strs))
  BY <1>2, <1>3, FS_Subset
<1>. QED
  BY <1>4, FS_CardinalityType DEF Retained

\* Streams with no places but those of others and of N retain at most as many more as N has.
LEMMA RetainedStep ==
  ASSUME NEW strs, NEW strs2, IsFiniteSet(Places(strs)), NEW N, IsFiniteSet(N),
         Places(strs2) \subseteq Places(strs) \union N
  PROVE  /\ IsFiniteSet(Places(strs2)) /\ Retained(strs2) \in Nat /\ Cardinality(N) \in Nat
         /\ Retained(strs2) <= Retained(strs) + Cardinality(N)
<1> DEFINE P == Places(strs)
           Q == Places(strs2)
           U == P \union N
<1> HIDE DEF P, Q
<1>1. IsFiniteSet(P) /\ Q \subseteq U
  BY DEF P, Q
<1>2. IsFiniteSet(U) /\ Cardinality(U) = Cardinality(P) + Cardinality(N) - Cardinality(P \intersect N)
  BY <1>1, FS_Union
<1>3. IsFiniteSet(P \intersect N)
  BY <1>1, FS_Subset
<1> HIDE DEF U
<1>4. /\ Cardinality(P) \in Nat /\ Cardinality(N) \in Nat /\ Cardinality(P \intersect N) \in Nat
      /\ Cardinality(U) \in Nat
  BY <1>1, <1>2, <1>3, FS_CardinalityType
<1>5. IsFiniteSet(Q) /\ Cardinality(Q) <= Cardinality(U) /\ Cardinality(Q) \in Nat
  BY <1>1, <1>2, FS_Subset, FS_CardinalityType
<1>. QED
  BY <1>2, <1>4, <1>5 DEF Retained, P, Q

\* What a stream says at position k, as promises stand.
EventOK(s, k, prom, i) ==
  /\ IOf(s[k].request) = i
  /\ s[k].type = "resolved" =>
       /\ s[k].outcome = prom[s[k].request]
       /\ \E j \in 1 .. k - 1 : s[j] = Requested(s[k].request)

\* Promises that were kept stay as they are.
KeepsOutcomes(prom, prom2) == \A r \in Requests : prom[r] \in Outcomes => prom2[r] = prom[r]

\* An extension of a stream still says what the stream said.
LEMMA TruthExtends ==
  ASSUME NEW s \in Seq(EventSet), NEW s2, NEW prom, NEW prom2, KeepsOutcomes(prom, prom2),
         NEW i, \A k \in DOMAIN s : s2[k] = s[k], NEW k \in DOMAIN s, EventOK(s, k, prom, i)
  PROVE  EventOK(s2, k, prom2, i)
<1>1. DOMAIN s = 1 .. Len(s) /\ Len(s) \in Nat /\ s2[k] = s[k] /\ s[k] \in EventSet
  OBVIOUS
<1>2. s[k].request \in Requests /\ (s[k].type = "resolved" => s[k].outcome \in Outcomes)
  BY <1>1, EventFacts
<1>3. \A j \in 1 .. k - 1 : s2[j] = s[j]
  BY <1>1
<1>. QED
  BY <1>1, <1>2, <1>3 DEF EventOK, KeepsOutcomes

\* StreamTellsTheTruth, position by position.
LEMMA TruthIs ==
  StreamTellsTheTruth <=>
    /\ \A r \in ToSet(pending) : Requested(r) \in ToSet(streams[IOf(r)])
    /\ \A i \in Interactions : \A k \in DOMAIN streams[i] : EventOK(streams[i], k, promise, i)
BY DEF StreamTellsTheTruth, EventOK

(***************************************************************************)
(* Dropping idle streams.                                                  *)
(***************************************************************************)
\* The streams and the order they were made in.
StreamShape ==
  /\ streams \in [Interactions -> Seq(EventSet)]
  /\ order \in Seq(Interactions) /\ IsInjective(order)
  /\ ToSet(order) = {i \in Interactions : streams[i] # <<>>} /\ stale \subseteq ToSet(order)

\* What is left without some streams is no more than there was.
LEMMA WithoutFacts ==
  ASSUME TypeOK, BacklogBounded, NEW is
  PROVE  /\ Without(is) \in [Interactions -> Seq(EventSet)]
         /\ \A i \in Interactions : Without(is)[i] = IF i \in is THEN <<>> ELSE streams[i]
         /\ \A i \in Interactions : Len(streams[i]) \in Nat /\ Len(streams[i]) <= MaxStream
         /\ IsFiniteSet(Places(streams)) /\ Retained(streams) \in Nat
         /\ IsFiniteSet(Places(Without(is))) /\ Retained(Without(is)) \in Nat
         /\ Retained(Without(is)) <= Retained(streams)
<1>1. streams \in [Interactions -> Seq(EventSet)]
  BY DEF TypeOK
<1>2. ASSUME NEW i \in Interactions PROVE Len(streams[i]) \in Nat /\ Len(streams[i]) <= MaxStream
  <2>1. Len(streams[i]) + PendingCount(i) <= MaxStream
    BY DEF BacklogBounded
  <2>2. PendingCount(i) \in Nat /\ Len(streams[i]) \in Nat /\ MaxStream \in Nat
    <3>1. PendingCount(i) \in Nat
      BY PendingFacts
    <3>2. Len(streams[i]) \in Nat
      BY <1>1
    <3>3. MaxStream \in Nat
      BY CoordinatorAssumption
    <3>. QED
      BY <3>1, <3>2, <3>3
  <2>. QED
    BY <2>1, <2>2
<1>3. IsFiniteSet(Places(streams)) /\ Retained(streams) \in Nat
  BY <1>1, <1>2, PlacesFinite
<1>4. /\ Without(is) \in [Interactions -> Seq(EventSet)]
      /\ \A i \in Interactions : Without(is)[i] = IF i \in is THEN <<>> ELSE streams[i]
  BY <1>1 DEF Without
<1>5. ASSUME NEW p \in Places(Without(is)) PROVE p \in Places(streams)
  <2>1. PICK i \in Interactions : \E k \in DOMAIN Without(is)[i] : p = <<i, k>>
    BY <1>5, PlacesIn
  <2>2. Without(is)[i] = streams[i]
    BY <2>1, <1>4
  <2>. QED
    BY <2>1, <2>2, PlacesIn
<1>6. IsFiniteSet(Places(Without(is))) /\ Retained(Without(is)) \in Nat
      /\ Retained(Without(is)) <= Retained(streams)
  <2>1. Places(Without(is)) \subseteq Places(streams)
    BY <1>5
  <2>. QED
    BY <1>3, <2>1, FS_Subset, FS_CardinalityType DEF Retained
<1>. QED
  BY <1>1, <1>2, <1>3, <1>4, <1>6

\* Dropping idle streams keeps the shape, the bounds and the truth of the rest.
LEMMA DropKeeps ==
  ASSUME TypeOK, BacklogBounded, StreamTellsTheTruth, NEW is, \A i \in is : Idle(i),
         DropStreams(is), pending' = pending, KeepsOutcomes(promise, promise')
  PROVE  StreamShape' /\ BacklogBounded' /\ StreamTellsTheTruth'
<1>1. streams' = Without(is) /\ order' = Keep(order, Interactions \ is) /\ stale' = stale \ is
  BY DEF DropStreams
<1>2. /\ Without(is) \in [Interactions -> Seq(EventSet)]
      /\ \A i \in Interactions : Without(is)[i] = IF i \in is THEN <<>> ELSE streams[i]
      /\ \A i \in Interactions : Len(streams[i]) \in Nat /\ Len(streams[i]) <= MaxStream
      /\ Retained(streams) \in Nat /\ Retained(Without(is)) \in Nat
      /\ Retained(Without(is)) <= Retained(streams)
  BY WithoutFacts
<1>3. StreamShape'
  <2>1. /\ order \in Seq(Interactions) /\ Distinct(order)
        /\ ToSet(order) = {i \in Interactions : streams[i] # <<>>} /\ stale \subseteq ToSet(order)
    BY DEF TypeOK, IsInjective, Distinct
  <2> DEFINE S == Interactions \ is
  <2> HIDE DEF S
  <2>2. /\ Keep(order, S) \in Seq(Interactions) /\ Distinct(Keep(order, S))
        /\ ToSet(Keep(order, S)) = ToSet(order) \intersect S
    BY <2>1, KeepSet
  <2>3. order' = Keep(order, S)
    BY <1>1 DEF S
  <2>4. ToSet(order') = {i \in Interactions : streams'[i] # <<>>}
    BY <1>1, <1>2, <2>1, <2>2, <2>3 DEF S
  <2>5. stale' \subseteq ToSet(order')
    BY <1>1, <2>1, <2>2, <2>3 DEF S
  <2>6. IsInjective(order')
    BY <2>2, <2>3 DEF IsInjective, Distinct
  <2>. QED
    BY <1>1, <1>2, <2>2, <2>3, <2>4, <2>5, <2>6 DEF StreamShape
<1>4. BacklogBounded'
  <2>1. ASSUME NEW i \in Interactions PROVE (Len(streams[i]) + PendingCount(i) <= MaxStream)'
    <3>1. PendingCount(i)' = PendingCount(i) /\ PendingCount(i) \in Nat /\ MaxStream \in Nat
      BY PendingFacts, CoordinatorAssumption DEF PendingCount
    <3>2. Len(streams[i]) + PendingCount(i) <= MaxStream
      BY DEF BacklogBounded
    <3>3. Len(streams'[i]) \in Nat /\ Len(streams'[i]) <= Len(streams[i])
      <4>1. CASE i \in is
        BY <4>1, <1>1, <1>2
      <4>2. CASE i \notin is
        BY <4>2, <1>1, <1>2
      <4>. QED
        BY <4>1, <4>2
    <3>4. Len(streams[i]) \in Nat
      BY <1>2
    <3>. QED
      BY <3>1, <3>2, <3>3, <3>4
  <2>2. (Retained(streams) + Len(pending) <= MaxSession)'
    <3>1. Retained(streams) + Len(pending) <= MaxSession /\ Len(pending) \in Nat /\ MaxSession \in Nat
      BY CoordinatorAssumption, PendingFacts DEF BacklogBounded
    <3>2. Retained(streams)' = Retained(Without(is))
      BY <1>1 DEF Retained, Places
    <3>. QED
      BY <1>2, <3>1, <3>2
  <2>. QED
    BY <2>1, <2>2 DEF BacklogBounded
<1>5. StreamTellsTheTruth'
  <2>1. ASSUME NEW r \in ToSet(pending') PROVE Requested(r) \in ToSet(streams'[IOf(r)])
    <3>1. r \in ToSet(pending) /\ IOf(r) \in Interactions /\ IOf(r) \notin is
      BY <2>1, PendingFacts
    <3>2. Requested(r) \in ToSet(streams[IOf(r)]) /\ streams'[IOf(r)] = streams[IOf(r)]
      BY <1>1, <1>2, <3>1, TruthIs
    <3>. QED
      BY <3>2
  <2>2. ASSUME NEW i \in Interactions, NEW k \in DOMAIN streams'[i]
        PROVE  EventOK(streams'[i], k, promise', i)
    <3>1. streams'[i] = streams[i]
      BY <1>1, <1>2
    <3>2. EventOK(streams[i], k, promise, i) /\ streams[i] \in Seq(EventSet)
      BY <3>1, TruthIs DEF TypeOK
    <3>. QED
      BY <3>1, <3>2, TruthExtends
  <2>. QED
    BY <2>1, <2>2 DEF StreamTellsTheTruth, EventOK
<1>. QED
  BY <1>3, <1>4, <1>5

(***************************************************************************)
(* Ending pending requests.                                                *)
(***************************************************************************)
\* The requests of rs that belong to interaction i, and the events they end with.
EndedOf(rs, i) == Keep(rs, {r \in Requests : IOf(r) = i})
EndEvents(rs, o, by, i) == [k \in DOMAIN EndedOf(rs, i) |-> Resolved(EndedOf(rs, i)[k], o, by)]

\* Each request of an interaction gets one event in the interaction's stream.
LEMMA EndFacts ==
  ASSUME NEW rs \in Seq(Requests), Distinct(rs), NEW o \in Outcomes,
         NEW by \in Requests \union {NoRequest}, NEW i
  PROVE  /\ EndedOf(rs, i) \in Seq(Requests) /\ Distinct(EndedOf(rs, i))
         /\ ToSet(EndedOf(rs, i)) = {r \in ToSet(rs) : IOf(r) = i}
         /\ EndEvents(rs, o, by, i) \in Seq(EventSet)
         /\ Len(EndEvents(rs, o, by, i)) = Len(EndedOf(rs, i))
         /\ DOMAIN EndEvents(rs, o, by, i) = DOMAIN EndedOf(rs, i)
         /\ \A k \in DOMAIN EndedOf(rs, i) :
              /\ EndEvents(rs, o, by, i)[k] = Resolved(EndedOf(rs, i)[k], o, by)
              /\ EndedOf(rs, i)[k] \in ToSet(rs) /\ IOf(EndedOf(rs, i)[k]) = i
<1> DEFINE S == {r \in Requests : IOf(r) = i}
           s == EndedOf(rs, i)
           e == EndEvents(rs, o, by, i)
<1>1. s \in Seq(Requests) /\ ToSet(s) = ToSet(rs) \intersect S /\ Distinct(s)
  <2> HIDE DEF S
  <2>1. s = Keep(rs, S)
    BY DEF EndedOf, S
  <2>. QED
    BY <2>1, KeepSet
<1>2. ToSet(rs) \subseteq Requests
  BY ToSetFacts
<1>3. ToSet(s) = {r \in ToSet(rs) : IOf(r) = i}
  BY <1>1, <1>2
<1>4. e = [k \in DOMAIN s |-> Resolved(s[k], o, by)]
  BY DEF EndEvents
<1> HIDE DEF s, e
<1>5. DOMAIN s = 1 .. Len(s) /\ Len(s) \in Nat /\ \A k \in DOMAIN s : s[k] \in Requests
  BY <1>1
<1>6. \A k \in DOMAIN s : Resolved(s[k], o, by) \in EventSet
  BY <1>5, EventFacts
<1>7. e \in [1 .. Len(s) -> EventSet]
  BY <1>4, <1>5, <1>6
<1>8. e \in Seq(EventSet) /\ Len(e) = Len(s)
  BY <1>5, <1>7, IntervalSeq
<1>9. \A k \in DOMAIN s : s[k] \in ToSet(rs) /\ IOf(s[k]) = i
  <2> TAKE k \in DOMAIN s
  <2>1. s[k] \in ToSet(s)
    BY DEF ToSet
  <2>. QED
    BY <2>1, <1>3
<1>. QED
  BY <1>1, <1>3, <1>4, <1>8, <1>9 DEF s, e

\* A set counts as many as a part of it and the rest.
LEMMA CountParts ==
  ASSUME NEW A, IsFiniteSet(A), NEW B, B \subseteq A
  PROVE  /\ Cardinality(A \ B) \in Nat /\ Cardinality(B) \in Nat /\ Cardinality(A) \in Nat
         /\ Cardinality(A \ B) + Cardinality(B) = Cardinality(A)
<1>1. A \intersect B = B /\ IsFiniteSet(B)
  BY FS_Subset
<1>2. IsFiniteSet(A \ B) /\ Cardinality(A \ B) = Cardinality(A) - Cardinality(A \intersect B)
  BY FS_Difference
<1>3. Cardinality(A \ B) \in Nat /\ Cardinality(B) \in Nat /\ Cardinality(A) \in Nat
  BY <1>1, <1>2, FS_CardinalityType
<1>. QED
  BY <1>1, <1>2, <1>3

\* How the stream of i grows when rs end: by the ends of its own requests.
FinishedStream(rs, o, by, i) ==
  /\ streams[i] \in Seq(EventSet) /\ Len(streams[i]) \in Nat
  /\ DOMAIN streams[i] = 1 .. Len(streams[i])
  /\ streams'[i] \in Seq(EventSet)
  /\ Len(streams'[i]) = Len(streams[i]) + Len(EndedOf(rs, i))
  /\ ToSet(streams[i]) \subseteq ToSet(streams'[i])
  /\ \A k \in DOMAIN streams[i] : streams'[i][k] = streams[i][k]
  /\ \A k \in DOMAIN streams'[i] : k \notin DOMAIN streams[i] =>
       /\ k - Len(streams[i]) \in DOMAIN EndedOf(rs, i)
       /\ streams'[i][k] = Resolved(EndedOf(rs, i)[k - Len(streams[i])], o, by)

\* What Finish does to one stream: it grows by the ends of the interaction's requests.
LEMMA FinishStreams ==
  ASSUME TypeOK, NEW rs \in Seq(Requests), Distinct(rs), NEW o \in Outcomes,
         NEW by \in Requests \union {NoRequest}, Finish(rs, o, by), NEW i \in Interactions
  PROVE  FinishedStream(rs, o, by, i)
<1> DEFINE a == streams[i]
           b == EndEvents(rs, o, by, i)
<1>1. a \in Seq(EventSet) /\ streams'[i] = a \o b
  BY DEF TypeOK, Finish, EndEvents, EndedOf
<1> HIDE DEF a
<1>2. /\ b \in Seq(EventSet) /\ Len(b) = Len(EndedOf(rs, i)) /\ DOMAIN b = DOMAIN EndedOf(rs, i)
      /\ \A k \in DOMAIN EndedOf(rs, i) : b[k] = Resolved(EndedOf(rs, i)[k], o, by)
  BY EndFacts
<1> HIDE DEF b
<1>3. /\ a \o b \in Seq(EventSet) /\ Len(a \o b) = Len(a) + Len(b)
      /\ ToSet(a \o b) = ToSet(a) \union ToSet(b)
      /\ \A k \in DOMAIN a : k \in DOMAIN (a \o b) /\ (a \o b)[k] = a[k]
      /\ \A k \in DOMAIN (a \o b) : k \notin DOMAIN a =>
           k - Len(a) \in DOMAIN b /\ (a \o b)[k] = b[k - Len(a)]
  BY <1>1, <1>2, ConcatSet
<1>4. Len(a) \in Nat /\ DOMAIN a = 1 .. Len(a)
  BY <1>1
<1>. QED
  BY <1>1, <1>2, <1>3, <1>4 DEF a, FinishedStream

\* What Finish leaves: requests that end stop being pending and each makes one event.
LEMMA FinishKeeps ==
  ASSUME CoordinatorInv, NEW rs \in Seq(Requests), Distinct(rs), ToSet(rs) \subseteq ToSet(pending),
         NEW o \in Outcomes, NEW by \in Requests \union {NoRequest}, Finish(rs, o, by)
  PROVE  /\ pending' \in Seq(Requests) /\ Distinct(pending')
         /\ ToSet(pending') = ToSet(pending) \ ToSet(rs)
         /\ terminal' \in Seq(Requests) /\ Len(terminal') <= MaxTombstones
         /\ promise' \in [Requests -> Outcomes \union {"none", "open", "refused"}]
         /\ authority' \in [Requests -> Requests \union {NoRequest}]
         /\ \A r \in Requests : /\ promise'[r] = IF r \in ToSet(rs) THEN o ELSE promise[r]
                                /\ authority'[r] = IF r \in ToSet(rs) THEN by ELSE authority[r]
         /\ StreamShape' /\ BacklogBounded' /\ StreamTellsTheTruth'
<1> USE DEF CoordinatorInv
<1>1. /\ pending' = Keep(pending, Requests \ ToSet(rs))
      /\ terminal' = Tombstones(terminal, rs)
      /\ streams' = [i \in Interactions |-> streams[i] \o EndEvents(rs, o, by, i)]
      /\ stale' = {i \in stale : EndedOf(rs, i) = <<>>}
      /\ promise' = [r \in Requests |-> IF r \in ToSet(rs) THEN o ELSE promise[r]]
      /\ authority' = [r \in Requests |-> IF r \in ToSet(rs) THEN by ELSE authority[r]]
      /\ order' = order
  BY DEF Finish, EndedOf, EndEvents
<1>2. /\ pending \in Seq(Requests) /\ terminal \in Seq(Requests) /\ Distinct(pending)
      /\ streams \in [Interactions -> Seq(EventSet)]
      /\ promise \in [Requests -> Outcomes \union {"none", "open", "refused"}]
      /\ authority \in [Requests -> Requests \union {NoRequest}]
      /\ ToSet(pending) \subseteq Requests /\ ToSet(rs) \subseteq Requests
      /\ IsFiniteSet(ToSet(pending)) /\ IsFiniteSet(ToSet(rs))
      /\ Cardinality(ToSet(rs)) = Len(rs) /\ Cardinality(ToSet(pending)) = Len(pending)
  <2>1. /\ pending \in Seq(Requests) /\ terminal \in Seq(Requests) /\ Distinct(pending)
        /\ streams \in [Interactions -> Seq(EventSet)]
        /\ promise \in [Requests -> Outcomes \union {"none", "open", "refused"}]
        /\ authority \in [Requests -> Requests \union {NoRequest}]
    BY DEF TypeOK, PendingInv
  <2>. QED
    BY <2>1, ToSetFacts
<1>3. /\ pending' \in Seq(Requests) /\ Distinct(pending') /\ ToSet(pending') = ToSet(pending) \ ToSet(rs)
  <2> DEFINE S == Requests \ ToSet(rs)
  <2> HIDE DEF S
  <2>1. /\ Keep(pending, S) \in Seq(Requests) /\ Distinct(Keep(pending, S))
        /\ ToSet(Keep(pending, S)) = ToSet(pending) \intersect S
    BY <1>2, KeepSet
  <2>2. pending' = Keep(pending, S)
    BY <1>1 DEF S
  <2>3. ToSet(pending) \intersect S = ToSet(pending) \ ToSet(rs)
    BY <1>2 DEF S
  <2>. QED
    BY <2>1, <2>2, <2>3
<1>4. terminal' \in Seq(Requests) /\ Len(terminal') <= MaxTombstones
  <2> DEFINE all == terminal \o rs
  <2>1. all \in Seq(Requests) /\ MaxTombstones \in Nat
    BY <1>2, CoordinatorAssumption
  <2>2. terminal' = Newest(all, MaxTombstones)
    BY <1>1 DEF Tombstones
  <2> HIDE DEF all
  <2>. QED
    BY <2>1, <2>2, NewestFacts
<1>5. \A r \in ToSet(rs) : promise[r] = "open" /\ Requested(r) \in ToSet(streams[IOf(r)])
  <2> TAKE r \in ToSet(rs)
  <2>1. r \in ToSet(pending) /\ r \in Requests /\ CallOf[r] \in active
    BY <1>2 DEF PendingInv
  <2>. QED
    BY <2>1 DEF NoOrphanedRequest, StreamTellsTheTruth
<1>6. KeepsOutcomes(promise, promise')
  BY <1>1, <1>5 DEF KeepsOutcomes, Outcomes
<1>7. ASSUME NEW i \in Interactions
      PROVE  /\ streams[i] \in Seq(EventSet) /\ Len(streams[i]) \in Nat
             /\ DOMAIN streams[i] = 1 .. Len(streams[i])
             /\ streams'[i] \in Seq(EventSet)
             /\ Len(streams'[i]) = Len(streams[i]) + Len(EndedOf(rs, i))
             /\ ToSet(streams[i]) \subseteq ToSet(streams'[i])
             /\ \A k \in DOMAIN streams[i] : streams'[i][k] = streams[i][k]
             /\ \A k \in DOMAIN streams'[i] : k \notin DOMAIN streams[i] =>
                  /\ k - Len(streams[i]) \in DOMAIN EndedOf(rs, i)
                  /\ streams'[i][k] = Resolved(EndedOf(rs, i)[k - Len(streams[i])], o, by)
  <2>1. FinishedStream(rs, o, by, i)
    BY FinishStreams
  <2>. QED
    BY <2>1 DEF FinishedStream
<1>8. StreamShape'
  <2>1. streams' \in [Interactions -> Seq(EventSet)]
    BY <1>1, <1>7
  <2>2. ASSUME NEW i \in Interactions PROVE streams'[i] # <<>> <=> streams[i] # <<>>
    <3>1. CASE EndedOf(rs, i) = <<>>
      <4>1. Len(streams'[i]) = Len(streams[i])
        BY <3>1, <1>7
      <4>. QED
        BY <4>1, <1>7
    <3>2. CASE EndedOf(rs, i) # <<>>
      <4>1. EndedOf(rs, i) \in Seq(Requests) /\ ToSet(EndedOf(rs, i)) = {r \in ToSet(rs) : IOf(r) = i}
        BY EndFacts
      <4>2. PICK r \in ToSet(rs) : IOf(r) = i
        BY <3>2, <4>1, ToSetFacts
      <4>3. Requested(r) \in ToSet(streams[i]) /\ Requested(r) \in ToSet(streams'[i])
        BY <4>2, <1>5, <1>7
      <4>. QED
        BY <4>3, <1>7, ToSetFacts
    <3>. QED
      BY <3>1, <3>2
  <2>. QED
    BY <1>1, <2>1, <2>2 DEF StreamShape, TypeOK
<1>9. StreamTellsTheTruth'
  <2>1. ASSUME NEW r \in ToSet(pending') PROVE Requested(r) \in ToSet(streams'[IOf(r)])
    <3>1. r \in ToSet(pending) /\ IOf(r) \in Interactions
      BY <2>1, <1>3, PendingFacts
    <3>2. Requested(r) \in ToSet(streams[IOf(r)])
      BY <3>1 DEF StreamTellsTheTruth
    <3>. QED
      BY <3>1, <3>2, <1>7
  <2>2. ASSUME NEW i \in Interactions, NEW k \in DOMAIN streams'[i]
        PROVE  EventOK(streams'[i], k, promise', i)
    <3>1. CASE k \in DOMAIN streams[i]
      <4>1. EventOK(streams[i], k, promise, i)
        BY <3>1, TruthIs
      <4>. QED
        BY <3>1, <4>1, <1>6, <1>7, TruthExtends
    <3>2. CASE k \notin DOMAIN streams[i]
      <4> DEFINE q == EndedOf(rs, i)[k - Len(streams[i])]
      <4>1. k - Len(streams[i]) \in DOMAIN EndedOf(rs, i) /\ streams'[i][k] = Resolved(q, o, by)
        BY <3>2, <1>7
      <4>2. q \in ToSet(rs) /\ IOf(q) = i
        BY <4>1, EndFacts
      <4> HIDE DEF q
      <4>3. /\ streams'[i][k].type = "resolved" /\ streams'[i][k].request = q
            /\ streams'[i][k].outcome = o
        BY <4>1, EventFacts
      <4>4. Requested(q) \in ToSet(streams[i]) /\ promise'[q] = o
        BY <4>2, <1>1, <1>2, <1>5
      <4>5. PICK j \in DOMAIN streams[i] : streams[i][j] = Requested(q)
        BY <4>4 DEF ToSet
      <4>6. j \in 1 .. k - 1 /\ streams'[i][j] = Requested(q)
        <5>1. /\ Len(streams[i]) \in Nat /\ DOMAIN streams[i] = 1 .. Len(streams[i])
              /\ streams'[i] \in Seq(EventSet)
          BY <1>7
        <5>2. k \in Nat /\ k >= 1
          BY <5>1
        <5>3. j \in 1 .. k - 1
          BY <5>1, <5>2, <3>2
        <5>. QED
          BY <5>3, <4>5, <1>7
      <4>. QED
        BY <4>2, <4>3, <4>4, <4>6 DEF EventOK
    <3>. QED
      BY <3>1, <3>2
  <2>. QED
    BY <2>1, <2>2 DEF StreamTellsTheTruth, EventOK
<1>10. BacklogBounded'
  <2>1. ASSUME NEW i \in Interactions PROVE (Len(streams[i]) + PendingCount(i) <= MaxStream)'
    <3> DEFINE A == {r \in ToSet(pending) : IOf(r) = i}
               B == {r \in ToSet(rs) : IOf(r) = i}
    <3>1. IsFiniteSet(A) /\ B \subseteq A /\ {r \in ToSet(pending') : IOf(r) = i} = A \ B
      BY <1>3, PendingFacts
    <3>2. PendingCount(i)' = Cardinality(A \ B) /\ PendingCount(i) = Cardinality(A)
      BY <3>1 DEF PendingCount
    <3>3. Len(EndedOf(rs, i)) = Cardinality(B)
      <4>1. EndedOf(rs, i) \in Seq(Requests) /\ Distinct(EndedOf(rs, i)) /\ ToSet(EndedOf(rs, i)) = B
        BY EndFacts
      <4> HIDE DEF B
      <4>. QED
        BY <4>1, ToSetFacts
    <3> HIDE DEF A, B
    <3>4. /\ Cardinality(A \ B) \in Nat /\ Cardinality(B) \in Nat /\ Cardinality(A) \in Nat
          /\ Cardinality(A \ B) + Cardinality(B) = Cardinality(A)
      BY <3>1, CountParts
    <3>5. Len(streams[i]) + PendingCount(i) <= MaxStream
      BY DEF BacklogBounded
    <3>6. Len(streams'[i]) = Len(streams[i]) + Cardinality(B) /\ Len(streams[i]) \in Nat
      BY <3>3, <1>7
    <3>7. MaxStream \in Nat
      BY CoordinatorAssumption
    <3>. QED
      BY <3>2, <3>4, <3>5, <3>6, <3>7
  <2>2. (Retained(streams) + Len(pending) <= MaxSession)'
    <3> DEFINE N == {p \in Places(streams') : p \notin Places(streams)}
               f == [p \in N |-> EndedOf(rs, p[1])[p[2] - Len(streams[p[1]])]]
    <3>1. ASSUME NEW p \in N
          PROVE  \E i \in Interactions, k \in Int :
                   /\ p = <<i, k>> /\ k \notin DOMAIN streams[i]
                   /\ k - Len(streams[i]) \in DOMAIN EndedOf(rs, i)
                   /\ f[p] = EndedOf(rs, i)[k - Len(streams[i])]
      <4>1. PICK i \in Interactions : \E k \in DOMAIN streams'[i] : p = <<i, k>>
        BY <3>1, PlacesIn
      <4>2. PICK k \in DOMAIN streams'[i] : p = <<i, k>>
        BY <4>1
      <4>3. k \notin DOMAIN streams[i]
        BY <3>1, <4>2, PlacesIn
      <4>4. k - Len(streams[i]) \in DOMAIN EndedOf(rs, i)
        BY <4>3, <1>7
      <4>5. k \in Int
        BY <1>7
      <4>. QED
        BY <3>1, <4>2, <4>3, <4>4, <4>5
    <3>2. f \in Injection(N, ToSet(rs))
      <4>1. ASSUME NEW p \in N PROVE f[p] \in ToSet(rs)
        <5> HIDE DEF f, N
        <5>. QED
          BY <3>1, <4>1, EndFacts
      <4>2. ASSUME NEW p \in N, NEW q \in N, f[p] = f[q] PROVE p = q
        <5> HIDE DEF f, N
        <5>1. PICK i \in Interactions, k \in Int :
                /\ p = <<i, k>> /\ k \notin DOMAIN streams[i]
                /\ k - Len(streams[i]) \in DOMAIN EndedOf(rs, i)
                /\ f[p] = EndedOf(rs, i)[k - Len(streams[i])]
          BY <3>1
        <5>2. PICK j \in Interactions, m \in Int :
                /\ q = <<j, m>> /\ m \notin DOMAIN streams[j]
                /\ m - Len(streams[j]) \in DOMAIN EndedOf(rs, j)
                /\ f[q] = EndedOf(rs, j)[m - Len(streams[j])]
          BY <3>1
        <5>3. i = j
          <6>1. IOf(f[p]) = i
            BY <5>1, EndFacts
          <6>2. IOf(f[q]) = j
            BY <5>2, EndFacts
          <6>. QED
            BY <6>1, <6>2, <4>2
        <5>4. k - Len(streams[i]) = m - Len(streams[i])
          <6>1. Distinct(EndedOf(rs, i))
            BY EndFacts
          <6>. QED
            BY <6>1, <5>1, <5>2, <5>3, <4>2 DEF Distinct
        <5>5. k \in Int /\ m \in Int /\ Len(streams[i]) \in Int
          BY <5>3, <1>7
        <5>. QED
          BY <5>1, <5>2, <5>3, <5>4, <5>5
      <4>3. f \in [N -> ToSet(rs)]
        <5>1. f = [p \in N |-> f[p]]
          OBVIOUS
        <5> HIDE DEF f, N
        <5>. QED
          BY <5>1, <4>1
      <4> HIDE DEF f, N
      <4>. QED
        BY <4>2, <4>3 DEF Injection, IsInjective
    <3>3. Places(streams') \subseteq Places(streams) \union N
      OBVIOUS
    <3> HIDE DEF f, N
    <3>4. IsFiniteSet(N) /\ Cardinality(N) <= Cardinality(ToSet(rs))
      BY <3>2, <1>2, FS_Injection
    <3>5. IsFiniteSet(Places(streams)) /\ Retained(streams) \in Nat
      BY WithoutFacts
    <3>6. /\ Retained(streams') \in Nat /\ Cardinality(N) \in Nat
          /\ Retained(streams') <= Retained(streams) + Cardinality(N)
      BY <3>3, <3>4, <3>5, RetainedStep
    <3>7. /\ Cardinality(ToSet(pending) \ ToSet(rs)) \in Nat /\ Cardinality(ToSet(rs)) \in Nat
          /\ Cardinality(ToSet(pending)) \in Nat
          /\ Cardinality(ToSet(pending) \ ToSet(rs)) + Cardinality(ToSet(rs)) = Cardinality(ToSet(pending))
      BY <1>2, CountParts
    <3>8. Len(pending') = Cardinality(ToSet(pending) \ ToSet(rs))
      BY <1>3, ToSetFacts
    <3>9. Retained(streams) + Len(pending) <= MaxSession
      BY DEF BacklogBounded
    <3>10. MaxSession \in Nat
      BY CoordinatorAssumption
    <3>11. Retained(streams') + Len(pending') <= MaxSession
      BY <1>2, <3>4, <3>5, <3>6, <3>7, <3>8, <3>9, <3>10
    <3>. QED
      BY <3>11 DEF Retained, Places
  <2>. QED
    BY <2>1, <2>2 DEF BacklogBounded
<1>11. /\ promise' \in [Requests -> Outcomes \union {"none", "open", "refused"}]
       /\ authority' \in [Requests -> Requests \union {NoRequest}]
       /\ \A r \in Requests : /\ promise'[r] = IF r \in ToSet(rs) THEN o ELSE promise[r]
                              /\ authority'[r] = IF r \in ToSet(rs) THEN by ELSE authority[r]
  BY <1>1, <1>2
<1>. QED
  BY <1>3, <1>4, <1>8, <1>9, <1>10, <1>11

(***************************************************************************)
(* Storing a request.                                                      *)
(***************************************************************************)
\* A session drops only streams of other interactions, and only idle ones.
LEMMA AbandonedIdle ==
  ASSUME TypeOK, NEW i
  PROVE  \A j \in Abandoned(i) : j # i /\ Idle(j) /\ j \in stale
<1> DEFINE S == {j \in stale : j # i /\ Idle(j)}
           old == Keep(order, S)
<1>1. ToSet(old) \subseteq S
  <2>1. order \in Seq(Interactions)
    BY DEF TypeOK
  <2> HIDE DEF S
  <2>. QED
    BY <2>1, KeepSet
<1>2. \A j \in Abandoned(i) : j \in ToSet(old)
  BY DEF Abandoned, ToSet
<1>. QED
  BY <1>1, <1>2

\* The grants that cover a request, how it ends, and by whose decision.
Covering(r)    == Keep(grants, {g \in Requests : Matches(r, g)})
Ends(r, early) == IF early # "none" THEN early
                  ELSE IF Covering(r) # <<>> THEN "approved" ELSE "open"
EndedBy(r, early) == IF early = "none" /\ Covering(r) # <<>> THEN Covering(r)[1] ELSE NoRequest

\* A request that is approved at once has a grant that covers it.
LEMMA EndsFacts ==
  ASSUME TypeOK, DecidedInv, NEW r \in Requests, NEW early \in {"none", "expired", "aborted"}
  PROVE  /\ Ends(r, early) \in {"open", "approved", "expired", "aborted"}
         /\ EndedBy(r, early) \in Requests \union {NoRequest}
         /\ Ends(r, early) = "approved" =>
              /\ EndedBy(r, early) # NoRequest /\ Scope[r] \subseteq Scope[EndedBy(r, early)]
              /\ decided[EndedBy(r, early)] = "approve_always"
<1> DEFINE S == {g \in Requests : Matches(r, g)}
           found == Keep(grants, S)
<1>1. found \in Seq(Requests) /\ ToSet(found) = ToSet(grants) \intersect S
  <2>1. grants \in Seq(Requests)
    BY DEF TypeOK
  <2> HIDE DEF S
  <2>. QED
    BY <2>1, KeepSet
<1>2. ASSUME found # <<>>
      PROVE  /\ found[1] \in Requests /\ found[1] # NoRequest /\ Scope[r] \subseteq Scope[found[1]]
             /\ decided[found[1]] = "approve_always"
  <2>1. found[1] \in ToSet(found)
    <3> HIDE DEF found
    <3>1. 1 \in DOMAIN found
      BY <1>1, <1>2
    <3>. QED
      BY <3>1 DEF ToSet
  <2>2. found[1] \in ToSet(grants) /\ found[1] \in S
    BY <1>1, <2>1
  <2>. QED
    BY <2>2, CoordinatorAssumption DEF Matches, DecidedInv
<1>3. Covering(r) = found
  BY DEF Covering
<1> HIDE DEF found
<1>. QED
  BY <1>2, <1>3 DEF Ends, EndedBy

\* The events a stored request adds to its stream.
NewEvents(r, early) ==
  IF Ends(r, early) = "open" THEN <<Requested(r)>>
  ELSE <<Requested(r), Resolved(r, Ends(r, early), EndedBy(r, early))>>

\* How the stream of i grows from old to s when r is stored with the events new.
StoredStream(r, early, i, new, old, s) ==
  /\ new \in Seq(EventSet) /\ Len(new) \in {1, 2} /\ (Len(new) = 1 <=> Ends(r, early) = "open")
  /\ DOMAIN new = 1 .. Len(new) /\ new[1] = Requested(r)
  /\ Len(new) = 2 => new[2] = Resolved(r, Ends(r, early), EndedBy(r, early))
  /\ old \in Seq(EventSet) /\ Len(old) \in Nat /\ DOMAIN old = 1 .. Len(old)
  /\ s \in Seq(EventSet) /\ Len(s) = Len(old) + Len(new) /\ DOMAIN s = 1 .. Len(s)
  /\ ToSet(s) = ToSet(old) \union ToSet(new)
  /\ \A k \in DOMAIN old : s[k] = old[k]
  /\ \A k \in DOMAIN s : k \notin DOMAIN old => k - Len(old) \in DOMAIN new /\ s[k] = new[k - Len(old)]
  /\ s[Len(old) + 1] = Requested(r)
  /\ \A j \in Interactions : j # i => streams'[j] = Without(Abandoned(i))[j]

\* What Store does to the streams.
LEMMA StoreStreams ==
  ASSUME TypeOK, DecidedInv, NEW r \in Requests, NEW early \in {"none", "expired", "aborted"},
         Store(r, early), NEW new, new = NewEvents(r, early), NEW i, i = IOf(r),
         NEW old, old = streams[i], NEW s, s = streams'[i]
  PROVE  StoredStream(r, early, i, new, old, s)
<1> DEFINE ends == Ends(r, early)
           by == EndedBy(r, early)
<1>1. /\ streams' = [j \in Interactions |-> IF j # i THEN Without(Abandoned(i))[j] ELSE streams[i] \o new]
      /\ streams \in [Interactions -> Seq(EventSet)] /\ i \in Interactions
  BY PendingFacts DEF Store, Ends, EndedBy, Covering, NewEvents, TypeOK
<1>2. ends \in {"open", "approved", "expired", "aborted"} /\ by \in Requests \union {NoRequest}
  BY EndsFacts
<1>3. new = IF ends = "open" THEN <<Requested(r)>> ELSE <<Requested(r), Resolved(r, ends, by)>>
  BY DEF NewEvents
<1> HIDE DEF ends, by
<1>9. /\ new \in Seq(EventSet) /\ Len(new) \in {1, 2} /\ (Len(new) = 1 <=> ends = "open")
      /\ DOMAIN new = 1 .. Len(new) /\ new[1] = Requested(r)
      /\ Len(new) = 2 => new[2] = Resolved(r, ends, by)
  <2>1. Requested(r) \in EventSet
    BY EventFacts
  <2>2. CASE ends = "open"
    BY <2>1, <2>2, <1>3
  <2>3. CASE ends # "open"
    <3>1. ends \in Outcomes
      BY <1>2, <2>3 DEF Outcomes
    <3>2. Resolved(r, ends, by) \in EventSet
      BY <3>1, <1>2, EventFacts
    <3>. QED
      BY <2>1, <2>3, <3>2, <1>3
  <2>. QED
    BY <2>2, <2>3
<1>11. /\ old \in Seq(EventSet) /\ Len(old) \in Nat /\ DOMAIN old = 1 .. Len(old)
       /\ s \in Seq(EventSet) /\ Len(s) = Len(old) + Len(new) /\ DOMAIN s = 1 .. Len(s)
       /\ ToSet(s) = ToSet(old) \union ToSet(new)
       /\ \A k \in DOMAIN old : s[k] = old[k]
       /\ \A k \in DOMAIN s : k \notin DOMAIN old => k - Len(old) \in DOMAIN new /\ s[k] = new[k - Len(old)]
       /\ s[Len(old) + 1] = Requested(r)
  <2>1. old \in Seq(EventSet) /\ s = old \o new
    BY <1>1
  <2>2. /\ s \in Seq(EventSet) /\ Len(s) = Len(old) + Len(new)
        /\ ToSet(s) = ToSet(old) \union ToSet(new)
        /\ \A k \in DOMAIN old : s[k] = old[k]
        /\ \A k \in DOMAIN s : k \notin DOMAIN old => k - Len(old) \in DOMAIN new /\ s[k] = new[k - Len(old)]
    BY <1>9, <2>1, ConcatSet
  <2>3. /\ Len(old) \in Nat /\ DOMAIN old = 1 .. Len(old) /\ DOMAIN s = 1 .. Len(s)
    BY <2>1, <2>2
  <2>4. /\ Len(old) + 1 \in DOMAIN s /\ Len(old) + 1 \notin DOMAIN old
        /\ (Len(old) + 1) - Len(old) = 1
    BY <1>9, <2>2, <2>3
  <2>5. s[Len(old) + 1] = Requested(r)
    BY <1>9, <2>2, <2>4
  <2>. QED
    BY <2>1, <2>2, <2>3, <2>5
<1>12. \A j \in Interactions : j # i => streams'[j] = Without(Abandoned(i))[j]
  BY <1>1
<1>. QED
  BY <1>9, <1>11, <1>12 DEF ends, by, StoredStream

\* Sets of one and of two.
LEMMA SmallSets ==
  ASSUME NEW x, NEW y
  PROVE  /\ IsFiniteSet({x}) /\ Cardinality({x}) = 1
         /\ IsFiniteSet({x, y}) /\ Cardinality({x, y}) <= 2
<1>1. IsFiniteSet({x}) /\ Cardinality({x}) = 1
  BY FS_Singleton
<1>2. {x, y} = {x} \union {y}
  OBVIOUS
<1>3. /\ IsFiniteSet({x} \union {y})
      /\ Cardinality({x} \union {y}) = IF y \in {x} THEN Cardinality({x}) ELSE Cardinality({x}) + 1
  BY <1>1, FS_AddElement
<1>. QED
  BY <1>1, <1>2, <1>3

\* A request that fits is stored, with its end when it has one already.
LEMMA StoreKeeps ==
  ASSUME CoordinatorInv, NEW r \in Requests, NEW early \in {"none", "expired", "aborted"},
         promise[r] = "none", CallOf[r] \in active, ~StreamFull(r), Fits(Abandoned(IOf(r))),
         Store(r, early)
  PROVE  CoordinatorInv'
<1> USE DEF CoordinatorInv
<1> DEFINE i == IOf(r)
           dropped == Abandoned(i)
           ends == Ends(r, early)
           by == EndedBy(r, early)
           new == NewEvents(r, early)
           kept == ForgetTerminal(terminal, dropped)
           rest == Keep(order, Interactions \ dropped)
<1>1. /\ pending' = IF ends = "open" THEN Append(pending, r) ELSE pending
      /\ terminal' = IF ends = "open" THEN kept ELSE Tombstones(kept, <<r>>)
      /\ streams' = [j \in Interactions |-> IF j # i THEN Without(dropped)[j] ELSE streams[i] \o new]
      /\ order' = IF i \in ToSet(rest) THEN rest ELSE Append(rest, i)
      /\ stale' = stale \ (dropped \union {i})
      /\ promise' = [promise EXCEPT ![r] = ends]
      /\ authority' = [authority EXCEPT ![r] = by]
      /\ UNCHANGED <<closed, begun, active, grants, decided>>
  BY DEF Store, Ends, EndedBy, Covering, NewEvents
<1>2. /\ ends \in {"open", "approved", "expired", "aborted"} /\ by \in Requests \union {NoRequest}
      /\ ends = "approved" => /\ by # NoRequest /\ Scope[r] \subseteq Scope[by]
                              /\ decided[by] = "approve_always"
  BY EndsFacts
<1>3. \A j \in dropped : j # i /\ Idle(j)
  BY AbandonedIdle
<1>4. Retained(Without(dropped)) + Len(pending) + 2 <= MaxSession
  BY DEF Fits
<1> HIDE DEF ends, by, dropped
<1>5. /\ pending \in Seq(Requests) /\ ToSet(pending) \subseteq Requests /\ Distinct(pending)
      /\ r \notin ToSet(pending) /\ i \in Interactions
  <2>1. pending \in Seq(Requests) /\ ToSet(pending) \subseteq Requests /\ i \in Interactions
    BY PendingFacts
  <2>. QED
    BY <2>1 DEF PendingInv, NoOrphanedRequest
<1> HIDE DEF i
<1>6. /\ pending' \in Seq(Requests) /\ Distinct(pending')
      /\ ToSet(pending') = IF ends = "open" THEN ToSet(pending) \union {r} ELSE ToSet(pending)
      /\ Len(pending') = IF ends = "open" THEN Len(pending) + 1 ELSE Len(pending)
  <2>1. CASE ends # "open"
    BY <2>1, <1>1, <1>5
  <2>2. CASE ends = "open"
    <3> DEFINE t == Append(pending, r)
    <3>1. /\ t \in Seq(Requests) /\ Len(t) = Len(pending) + 1 /\ DOMAIN t = 1 .. Len(pending) + 1
          /\ Len(pending) \in Nat /\ DOMAIN pending = 1 .. Len(pending)
          /\ t[Len(pending) + 1] = r /\ \A k \in DOMAIN pending : t[k] = pending[k]
      BY <1>5
    <3> HIDE DEF t
    <3>2. \A k \in DOMAIN t : k \in DOMAIN pending \/ k = Len(pending) + 1
      BY <3>1
    <3>3. \A k \in DOMAIN pending : k \in DOMAIN t
      BY <3>1
    <3>4. Len(pending) + 1 \in DOMAIN t
      BY <3>1
    <3>5. ToSet(t) = ToSet(pending) \union {r}
      BY <3>1, <3>2, <3>3, <3>4 DEF ToSet
    <3>6. \A k \in DOMAIN pending : pending[k] # r
      BY <1>5 DEF ToSet
    <3>7. Distinct(t)
      BY <1>5, <3>1, <3>2, <3>6 DEF Distinct
    <3>8. pending' = t
      BY <1>1, <2>2 DEF t
    <3>. QED
      BY <2>2, <3>1, <3>5, <3>7, <3>8
  <2>. QED
    BY <2>1, <2>2
<1>7. /\ promise \in [Requests -> Outcomes \union {"none", "open", "refused"}]
      /\ authority \in [Requests -> Requests \union {NoRequest}]
      /\ streams \in [Interactions -> Seq(EventSet)] /\ terminal \in Seq(Requests)
      /\ Len(terminal) <= MaxTombstones
  BY DEF TypeOK
<1>8. /\ promise' \in [Requests -> Outcomes \union {"none", "open", "refused"}]
      /\ authority' \in [Requests -> Requests \union {NoRequest}]
      /\ promise'[r] = ends /\ authority'[r] = by
      /\ \A q \in Requests : q # r => promise'[q] = promise[q] /\ authority'[q] = authority[q]
      /\ KeepsOutcomes(promise, promise')
  <2>1. ends \in Outcomes \union {"none", "open", "refused"}
    BY <1>2 DEF Outcomes
  <2>. QED
    BY <1>1, <1>2, <1>7, <2>1 DEF KeepsOutcomes, Outcomes
<1> HIDE DEF new
<1> DEFINE old == streams[i]
           s == streams'[i]
<1> HIDE DEF old, s
<1>9. /\ new \in Seq(EventSet) /\ Len(new) \in {1, 2} /\ (Len(new) = 1 <=> ends = "open")
      /\ DOMAIN new = 1 .. Len(new) /\ new[1] = Requested(r)
      /\ Len(new) = 2 => new[2] = Resolved(r, ends, by)
  <2>1. StoredStream(r, early, i, new, old, s)
    BY StoreStreams DEF new, i, old, s
  <2>. QED
    BY <2>1 DEF StoredStream, ends, by
<1>10. /\ Without(dropped) \in [Interactions -> Seq(EventSet)]
       /\ \A j \in Interactions : Without(dropped)[j] = IF j \in dropped THEN <<>> ELSE streams[j]
       /\ \A j \in Interactions : Len(streams[j]) \in Nat /\ Len(streams[j]) <= MaxStream
       /\ IsFiniteSet(Places(Without(dropped))) /\ Retained(Without(dropped)) \in Nat
  BY WithoutFacts
<1>11. /\ old \in Seq(EventSet) /\ Len(old) \in Nat /\ DOMAIN old = 1 .. Len(old)
       /\ s \in Seq(EventSet) /\ Len(s) = Len(old) + Len(new) /\ DOMAIN s = 1 .. Len(s)
       /\ ToSet(s) = ToSet(old) \union ToSet(new)
       /\ \A k \in DOMAIN old : s[k] = old[k]
       /\ \A k \in DOMAIN s : k \notin DOMAIN old => k - Len(old) \in DOMAIN new /\ s[k] = new[k - Len(old)]
       /\ s[Len(old) + 1] = Requested(r)
  <2>1. StoredStream(r, early, i, new, old, s)
    BY StoreStreams DEF new, i, old, s
  <2>. QED
    BY <2>1 DEF StoredStream
<1>12. \A j \in Interactions : j # i => streams'[j] = Without(dropped)[j]
  BY <1>1
<1>13. StreamShape'
  <2>1. /\ order \in Seq(Interactions) /\ Distinct(order)
        /\ ToSet(order) = {j \in Interactions : streams[j] # <<>>} /\ stale \subseteq ToSet(order)
    BY DEF TypeOK, IsInjective, Distinct
  <2> DEFINE S == Interactions \ dropped
  <2>2. /\ rest \in Seq(Interactions) /\ Distinct(rest)
        /\ ToSet(rest) = ToSet(order) \intersect S
    <3> HIDE DEF S
    <3>1. rest = Keep(order, S)
      BY DEF S
    <3>. QED
      BY <2>1, <3>1, KeepSet
  <2> HIDE DEF rest
  <2>3. order' \in Seq(Interactions) /\ Distinct(order') /\ ToSet(order') = ToSet(rest) \union {i}
    <3>1. CASE i \in ToSet(rest)
      BY <3>1, <2>2, <1>1
    <3>2. CASE i \notin ToSet(rest)
      <4> DEFINE t == Append(rest, i)
      <4>1. /\ t \in Seq(Interactions) /\ DOMAIN t = 1 .. Len(rest) + 1
            /\ Len(rest) \in Nat /\ DOMAIN rest = 1 .. Len(rest)
            /\ t[Len(rest) + 1] = i /\ \A k \in DOMAIN rest : t[k] = rest[k]
        BY <1>5, <2>2
      <4> HIDE DEF t
      <4>2. \A k \in DOMAIN t : k \in DOMAIN rest \/ k = Len(rest) + 1
        BY <4>1
      <4>3. (\A k \in DOMAIN rest : k \in DOMAIN t) /\ Len(rest) + 1 \in DOMAIN t
        BY <4>1
      <4>4. ToSet(t) = ToSet(rest) \union {i}
        BY <4>1, <4>2, <4>3 DEF ToSet
      <4>5. \A k \in DOMAIN rest : rest[k] # i
        BY <3>2 DEF ToSet
      <4>6. Distinct(t)
        BY <2>2, <4>1, <4>2, <4>5 DEF Distinct
      <4>7. order' = t
        BY <1>1, <3>2 DEF t
      <4>. QED
        BY <4>1, <4>4, <4>6, <4>7
    <3>. QED
      BY <3>1, <3>2
  <2>4. streams' \in [Interactions -> Seq(EventSet)]
    <3>1. \A j \in Interactions : streams'[j] \in Seq(EventSet)
      BY <1>10, <1>11, <1>12 DEF s
    <3>2. streams' = [j \in Interactions |-> streams'[j]]
      BY <1>1
    <3>. QED
      BY <3>1, <3>2
  <2>5. streams'[i] # <<>>
    <3>1. Len(s) > 0
      BY <1>9, <1>11
    <3>. QED
      BY <3>1 DEF s
  <2>6. ToSet(order') = {j \in Interactions : streams'[j] # <<>>}
    BY <1>3, <1>5, <1>10, <1>12, <2>1, <2>2, <2>3, <2>5
  <2>7. stale' \subseteq ToSet(order')
    BY <1>1, <2>1, <2>2, <2>3
  <2>8. IsInjective(order')
    BY <2>3 DEF IsInjective, Distinct
  <2>. QED
    BY <2>3, <2>4, <2>6, <2>7, <2>8 DEF StreamShape
<1>14. StreamTellsTheTruth'
  <2>1. ASSUME NEW q \in ToSet(pending') PROVE Requested(q) \in ToSet(streams'[IOf(q)])
    <3>1. CASE q = r
      <4>1. new[1] \in ToSet(new)
        BY <1>9 DEF ToSet
      <4>. QED
        BY <3>1, <4>1, <1>9, <1>11 DEF s, i
    <3>2. CASE q # r
      <4>1. q \in ToSet(pending) /\ IOf(q) \in Interactions
        BY <2>1, <3>2, <1>6, PendingFacts
      <4>2. Requested(q) \in ToSet(streams[IOf(q)]) /\ IOf(q) \notin dropped
        BY <4>1, <1>3, PendingFacts DEF StreamTellsTheTruth
      <4>3. CASE IOf(q) = i
        BY <4>2, <4>3, <1>11 DEF s, old
      <4>4. CASE IOf(q) # i
        BY <4>1, <4>2, <4>4, <1>10, <1>12
      <4>. QED
        BY <4>3, <4>4
    <3>. QED
      BY <3>1, <3>2
  <2>2. ASSUME NEW j \in Interactions, NEW k \in DOMAIN streams'[j]
        PROVE  EventOK(streams'[j], k, promise', j)
    <3>1. CASE j # i
      <4>1. streams'[j] = streams[j]
        BY <3>1, <1>10, <1>12
      <4>2. EventOK(streams[j], k, promise, j) /\ streams[j] \in Seq(EventSet)
        BY <4>1, <1>7, TruthIs
      <4>. QED
        BY <4>1, <4>2, <1>8, TruthExtends
    <3>2. CASE j = i /\ k \in DOMAIN old
      <4>1. EventOK(old, k, promise, i)
        BY <3>2, TruthIs DEF old
      <4>2. EventOK(s, k, promise', i)
        BY <3>2, <4>1, <1>8, <1>11, TruthExtends
      <4>. QED
        BY <3>2, <4>2 DEF s
    <3>3. CASE j = i /\ k \notin DOMAIN old
      <4>1. k \in DOMAIN s /\ k - Len(old) \in DOMAIN new /\ s[k] = new[k - Len(old)]
        BY <3>3, <1>11 DEF s
      <4>2. k \in Nat /\ (k = Len(old) + 1 \/ (k = Len(old) + 2 /\ Len(new) = 2))
        BY <4>1, <1>9, <1>11
      <4>3. CASE k = Len(old) + 1
        <5>1. s[k] = Requested(r)
          BY <4>3, <1>11
        <5>2. s[k].request = r /\ s[k].type = "requested"
          BY <5>1, EventFacts
        <5>3. EventOK(s, k, promise', i)
          BY <5>2 DEF EventOK, i
        <5>. QED
          BY <3>3, <5>3 DEF s
      <4>4. CASE k = Len(old) + 2 /\ Len(new) = 2
        <5>1. k - Len(old) = 2 /\ Len(old) + 1 \in 1 .. k - 1
          BY <4>4, <1>11
        <5>2. s[k] = Resolved(r, ends, by)
          BY <4>1, <4>4, <5>1, <1>9
        <5>3. s[k].request = r /\ s[k].outcome = ends
          BY <5>2, EventFacts
        <5>4. \E m \in 1 .. k - 1 : s[m] = Requested(r)
          BY <5>1, <1>11
        <5>5. EventOK(s, k, promise', i)
          BY <5>3, <5>4, <1>8 DEF EventOK, i
        <5>. QED
          BY <3>3, <5>5 DEF s
      <4>. QED
        BY <4>2, <4>3, <4>4
    <3>. QED
      BY <3>1, <3>2, <3>3
  <2>. QED
    BY <2>1, <2>2 DEF StreamTellsTheTruth, EventOK
<1>15. BacklogBounded'
  <2>1. ASSUME NEW j \in Interactions PROVE (Len(streams[j]) + PendingCount(j) <= MaxStream)'
    <3>0. MaxStream \in Nat /\ PendingCount(j) \in Nat
      BY PendingFacts, CoordinatorAssumption
    <3>1. CASE j # i
      <4>1. {q \in ToSet(pending') : IOf(q) = j} = {q \in ToSet(pending) : IOf(q) = j}
        BY <3>1, <1>6 DEF i
      <4>2. PendingCount(j)' = PendingCount(j)
        BY <4>1 DEF PendingCount
      <4>3. Len(streams[j]) + PendingCount(j) <= MaxStream
        BY DEF BacklogBounded
      <4>4. Len(streams'[j]) \in Nat /\ Len(streams'[j]) <= Len(streams[j]) /\ Len(streams[j]) \in Nat
        <5>1. streams'[j] = IF j \in dropped THEN <<>> ELSE streams[j]
          BY <3>1, <1>10, <1>12
        <5>2. Len(streams[j]) \in Nat
          BY <1>10
        <5>. QED
          BY <5>1, <5>2
      <4>. QED
        BY <3>0, <4>2, <4>3, <4>4
    <3>2. CASE j = i
      <4> DEFINE A == {q \in ToSet(pending) : IOf(q) = i}
                 B == {q \in ToSet(pending') : IOf(q) = i}
      <4>1. IsFiniteSet(A) /\ PendingCount(i) = Cardinality(A) /\ PendingCount(i)' = Cardinality(B)
        BY PendingFacts DEF PendingCount
      <4>2. B = IF ends = "open" THEN A \union {r} ELSE A
        BY <1>6 DEF i
      <4> HIDE DEF A, B
      <4>3. Cardinality(A \union {r}) = IF r \in A THEN Cardinality(A) ELSE Cardinality(A) + 1
        BY <4>1, FS_AddElement
      <4>4. Cardinality(A) \in Nat
        BY <4>1, FS_CardinalityType
      <4>5. Cardinality(B) + Len(new) <= Cardinality(A) + 2 /\ Cardinality(B) \in Nat
        BY <4>2, <4>3, <4>4, <1>9
      <4>6. ~(Len(old) + Cardinality(A) + 2 > MaxStream)
        BY <4>1 DEF StreamFull, old, i
      <4>7. Len(s) + Cardinality(B) <= MaxStream
        BY <3>0, <4>4, <4>5, <4>6, <1>9, <1>11
      <4>. QED
        BY <3>2, <4>1, <4>7 DEF s
    <3>. QED
      BY <3>1, <3>2
  <2>2. (Retained(streams) + Len(pending) <= MaxSession)'
    <3> DEFINE x == <<i, Len(old) + 1>>
               y == <<i, Len(old) + 2>>
               N == IF ends = "open" THEN {x} ELSE {x, y}
    <3>1. IsFiniteSet(N) /\ Cardinality(N) <= Len(new) /\ Cardinality(N) \in Nat
      <4>1. IsFiniteSet(N)
        <5> HIDE DEF x, y
        <5>. QED
          BY SmallSets
      <4>2. Cardinality(N) \in Nat
        <5> HIDE DEF N
        <5>. QED
          BY <4>1, FS_CardinalityType
      <4>3. Cardinality(N) <= Len(new)
        <5>1. CASE ends = "open"
          <6> HIDE DEF x, y
          <6>1. Cardinality(N) = 1
            BY <5>1, SmallSets
          <6>2. Len(new) = 1
            BY <5>1, <1>9
          <6>. QED
            BY <6>1, <6>2
        <5>2. CASE ends # "open"
          <6> HIDE DEF x, y
          <6>1. Cardinality(N) <= 2
            BY <5>2, SmallSets
          <6>2. Len(new) = 2
            BY <5>2, <1>9
          <6>. QED
            BY <6>1, <6>2
        <5>. QED
          BY <5>1, <5>2
      <4>. QED
        BY <4>1, <4>2, <4>3
    <3>2. ASSUME NEW p \in Places(streams') PROVE p \in Places(Without(dropped)) \union N
      <4>1. PICK j \in Interactions : \E k \in DOMAIN streams'[j] : p = <<j, k>>
        BY <3>2, PlacesIn
      <4>2. PICK k \in DOMAIN streams'[j] : p = <<j, k>>
        BY <4>1
      <4>3. CASE j # i
        <5>1. streams'[j] = Without(dropped)[j]
          BY <4>3, <1>12
        <5>. QED
          BY <4>2, <5>1, PlacesIn
      <4>4. CASE j = i /\ k \in DOMAIN old
        <5>1. Without(dropped)[i] = old
          BY <1>3, <1>5, <1>10 DEF old
        <5>. QED
          BY <4>2, <4>4, <5>1, PlacesIn
      <4>5. CASE j = i /\ k \notin DOMAIN old
        <5>1. k \in DOMAIN s /\ k - Len(old) \in DOMAIN new
          BY <4>5, <1>11 DEF s
        <5>2. k = Len(old) + 1 \/ (k = Len(old) + 2 /\ Len(new) = 2)
          BY <5>1, <1>9, <1>11
        <5>3. Len(new) = 2 => ends # "open"
          BY <1>9
        <5>. QED
          BY <4>2, <4>5, <5>2, <5>3
      <4>. QED
        BY <4>3, <4>4, <4>5
    <3> HIDE DEF N
    <3>3. Retained(streams') \in Nat /\ Retained(streams') <= Retained(Without(dropped)) + Cardinality(N)
      BY <3>1, <3>2, <1>10, RetainedStep
    <3>4. Len(pending) \in Nat /\ MaxSession \in Nat
      BY <1>5, CoordinatorAssumption
    <3>5. Len(pending') + Len(new) <= Len(pending) + 2 /\ Len(pending') \in Nat /\ Len(new) \in Nat
      BY <1>6, <1>9, <3>4
    <3>6. Retained(streams') + Len(pending') <= MaxSession
      BY <1>4, <1>10, <3>1, <3>3, <3>4, <3>5
    <3>. QED
      BY <3>6 DEF Retained, Places
  <2>. QED
    BY <2>1, <2>2 DEF BacklogBounded
<1>16. terminal' \in Seq(Requests) /\ Len(terminal') <= MaxTombstones
  <2> DEFINE S == {q \in Requests : IOf(q) \notin dropped}
  <2>1. kept = Keep(terminal, S)
    BY DEF ForgetTerminal
  <2> HIDE DEF S
  <2>2. kept \in Seq(Requests) /\ Len(kept) <= Len(terminal)
    BY <2>1, <1>7, KeepSet
  <2>3. MaxTombstones \in Nat
    BY CoordinatorAssumption
  <2> HIDE DEF kept
  <2>4. CASE ends = "open"
    <3>1. Len(kept) \in Nat /\ Len(terminal) \in Nat
      BY <1>7, <2>2
    <3>2. Len(kept) <= MaxTombstones
      BY <3>1, <1>7, <2>2, <2>3
    <3>. QED
      BY <2>2, <2>4, <3>2, <1>1
  <2>5. CASE ends # "open"
    <3> DEFINE all == kept \o <<r>>
    <3>1. all \in Seq(Requests)
      BY <2>2
    <3>2. terminal' = Newest(all, MaxTombstones)
      BY <1>1, <2>5 DEF Tombstones
    <3> HIDE DEF all
    <3>. QED
      BY <3>1, <3>2, <2>3, NewestFacts
  <2>. QED
    BY <2>4, <2>5
<1>17. TypeOK'
  BY <1>1, <1>6, <1>8, <1>13, <1>16 DEF TypeOK, StreamShape
<1>18. PendingInv'
  BY <1>1, <1>6 DEF PendingInv
<1>19. DecidedInv'
  BY <1>1, <1>8 DEF DecidedInv, Outcomes
<1>20. NoOrphanedRequest'
  <2> SUFFICES ASSUME NEW q \in Requests
               PROVE  promise'[q] = "open" <=> q \in ToSet(pending') /\ CallOf[q] \in active
    BY <1>1 DEF NoOrphanedRequest
  <2>1. CASE q = r
    BY <2>1, <1>5, <1>6, <1>8
  <2>2. CASE q # r
    BY <2>2, <1>6, <1>8 DEF NoOrphanedRequest
  <2>. QED
    BY <2>1, <2>2
<1>21. ReviewedOnly'
  <2> SUFFICES ASSUME NEW q \in Requests, promise'[q] = "approved"
               PROVE  /\ authority'[q] # NoRequest /\ Scope[q] \subseteq Scope[authority'[q]]
                      /\ decided[authority'[q]] \in IF authority'[q] = q THEN {"approve_once", "approve_always"}
                                                    ELSE {"approve_always"}
    BY <1>1 DEF ReviewedOnly
  <2>1. CASE q = r
    BY <2>1, <1>2, <1>8
  <2>2. CASE q # r
    BY <2>2, <1>8 DEF ReviewedOnly
  <2>. QED
    BY <2>1, <2>2
<1>. QED
  BY <1>14, <1>15, <1>17, <1>18, <1>19, <1>20, <1>21

(***************************************************************************)
(* How a step of the coordinator moves the streams, as its observers need  *)
(* to know it.                                                             *)
(***************************************************************************)
\* An event made by a user's decision on its own request says what was decided.
ByUser(e, dec) ==
  e.type = "resolved" /\ e.by = e.request =>
    dec[e.request] # "none" /\ (e.outcome = "denied" <=> dec[e.request] = "deny")

\* Events and promises belong to calls that began, and no stream in use is stale.
CallsInv ==
  /\ \A i \in Interactions : \A k \in DOMAIN streams[i] :
       CallOf[streams[i][k].request] \in begun /\ ByUser(streams[i][k], decided)
  /\ \A r \in Requests : promise[r] # "none" => CallOf[r] \in begun
  /\ \A i \in stale : ~InteractionActive(i)

\* A stream that is not dropped only gets events of active calls, and is then not stale.
GrownStream(i) ==
  /\ Len(streams[i]) <= Len(streams'[i])
  /\ \A k \in DOMAIN streams[i] : streams'[i][k] = streams[i][k]
  /\ \A k \in DOMAIN streams'[i] : k \notin DOMAIN streams[i] =>
       CallOf[streams'[i][k].request] \in active /\ ByUser(streams'[i][k], decided')
  /\ i \in stale' => streams'[i] = streams[i]

\* s has the end of r past position n.
EndsPast(s, n, r) == \E k \in DOMAIN s : k > n /\ s[k].type = "resolved" /\ s[k].request = r

\* A promise is kept once, and its end then goes to the stream.
GrownPromise(r, is) ==
  /\ promise[r] \in Outcomes => promise'[r] = promise[r]
  /\ promise'[r] # promise[r] => CallOf[r] \in begun
  /\ promise'[r] \in Outcomes /\ promise[r] \notin Outcomes /\ CallOf[r] \notin Unobserved =>
       /\ CallOf[r] \in active /\ IOf(r) \notin is
       /\ EndsPast(streams'[IOf(r)], Len(streams[IOf(r)]), r)
  /\ decided[r] # "none" => decided'[r] = decided[r]

Grown(is) ==
  /\ \A i \in Interactions : IF i \in is THEN streams'[i] = <<>> ELSE GrownStream(i)
  /\ stale' \subseteq stale \ is
  /\ \A r \in Requests : GrownPromise(r, is)

\* A stream that does not change has grown, unless it became stale.
LEMMA SameGrown == ASSUME NEW i, streams'[i] = streams[i], TypeOK, i \in Interactions PROVE GrownStream(i)
<1>1. streams[i] \in Seq(EventSet)
  BY DEF TypeOK
<1>2. Len(streams[i]) \in Nat
  BY <1>1
<1>. QED
  BY <1>2 DEF GrownStream

\* Idle streams go and nothing is appended.
LEMMA DropGrown ==
  ASSUME CoordinatorInv, NEW is, DropStreams(is), decided' = decided,
         \A r \in Requests : promise'[r] = promise[r] \/
           (promise[r] = "none" /\ promise'[r] = "refused" /\ CallOf[r] \in begun)
  PROVE  Grown(is)
<1>1. TypeOK /\ BacklogBounded
  BY DEF CoordinatorInv
<1>2. streams' = Without(is) /\ stale' = stale \ is
  BY DEF DropStreams
<1>3. \A i \in Interactions : Without(is)[i] = IF i \in is THEN <<>> ELSE streams[i]
  BY <1>1, WithoutFacts
<1>4. \A i \in Interactions : IF i \in is THEN streams'[i] = <<>> ELSE GrownStream(i)
  BY <1>1, <1>2, <1>3, SameGrown
<1>5. \A r \in Requests : GrownPromise(r, is)
  BY DEF GrownPromise, Outcomes
<1>. QED
  BY <1>2, <1>4, <1>5 DEF Grown

\* Requests that end have their ends appended.
LEMMA FinishGrown ==
  ASSUME CoordinatorInv, NEW rs \in Seq(Requests), Distinct(rs), ToSet(rs) \subseteq ToSet(pending),
         NEW o \in Outcomes, NEW by \in Requests \union {NoRequest}, Finish(rs, o, by),
         \A r \in Requests : decided[r] # "none" => decided'[r] = decided[r],
         by \in ToSet(rs) => decided'[by] # "none" /\ (o = "denied" <=> decided'[by] = "deny")
  PROVE  Grown({})
<1>1. /\ TypeOK /\ PendingInv /\ NoOrphanedRequest /\ active \subseteq begun
      /\ ToSet(pending) \subseteq Requests
      /\ \A r \in Requests : IOf(r) \in Interactions
  <2>1. TypeOK
    BY DEF CoordinatorInv
  <2>2. ToSet(pending) \subseteq Requests /\ \A r \in Requests : IOf(r) \in Interactions
    BY <2>1, PendingFacts
  <2>. QED
    BY <2>2 DEF CoordinatorInv, TypeOK
<1>2. \A r \in ToSet(rs) : CallOf[r] \in active /\ promise[r] = "open" /\ r \in Requests
  BY <1>1 DEF PendingInv, NoOrphanedRequest
<1>3. /\ stale' = {i \in stale : EndedOf(rs, i) = <<>>}
      /\ promise' = [r \in Requests |-> IF r \in ToSet(rs) THEN o ELSE promise[r]]
  BY DEF Finish, EndedOf
<1>4. ASSUME NEW i \in Interactions
      PROVE  /\ streams[i] \in Seq(EventSet) /\ Len(streams[i]) \in Nat
             /\ DOMAIN streams[i] = 1 .. Len(streams[i])
             /\ streams'[i] \in Seq(EventSet)
             /\ Len(streams'[i]) = Len(streams[i]) + Len(EndedOf(rs, i))
             /\ \A k \in DOMAIN streams[i] : streams'[i][k] = streams[i][k]
             /\ \A k \in DOMAIN streams'[i] : k \notin DOMAIN streams[i] =>
                  /\ k - Len(streams[i]) \in DOMAIN EndedOf(rs, i)
                  /\ streams'[i][k] = Resolved(EndedOf(rs, i)[k - Len(streams[i])], o, by)
             /\ EndedOf(rs, i) \in Seq(Requests) /\ Len(EndedOf(rs, i)) \in Nat
             /\ DOMAIN EndedOf(rs, i) = 1 .. Len(EndedOf(rs, i))
  <2>1. FinishedStream(rs, o, by, i)
    BY <1>1, FinishStreams
  <2>2. EndedOf(rs, i) \in Seq(Requests)
    BY EndFacts
  <2>3. Len(EndedOf(rs, i)) \in Nat /\ DOMAIN EndedOf(rs, i) = 1 .. Len(EndedOf(rs, i))
    BY <2>2
  <2>. QED
    BY <2>1, <2>2, <2>3 DEF FinishedStream
<1>5. ASSUME NEW i \in Interactions PROVE GrownStream(i)
  <2>1. Len(streams[i]) <= Len(streams'[i])
    BY <1>4
  <2>2. ASSUME NEW k \in DOMAIN streams'[i], k \notin DOMAIN streams[i]
        PROVE  CallOf[streams'[i][k].request] \in active /\ ByUser(streams'[i][k], decided')
    <3> DEFINE q == EndedOf(rs, i)[k - Len(streams[i])]
    <3>1. k - Len(streams[i]) \in DOMAIN EndedOf(rs, i) /\ streams'[i][k] = Resolved(q, o, by)
      BY <2>2, <1>4
    <3>2. q \in ToSet(rs)
      BY <3>1, EndFacts
    <3> HIDE DEF q
    <3>3. /\ streams'[i][k].request = q /\ streams'[i][k].outcome = o /\ streams'[i][k].by = by
      BY <3>1, EventFacts
    <3>. QED
      BY <3>2, <3>3, <1>2 DEF ByUser
  <2>3. ASSUME i \in stale' PROVE streams'[i] = streams[i]
    <3>1. Len(EndedOf(rs, i)) = 0
      BY <2>3, <1>3
    <3>2. Len(streams'[i]) = Len(streams[i])
      BY <3>1, <1>4
    <3>. QED
      BY <3>2, <1>4, SeqEqual
  <2>. QED
    BY <2>1, <2>2, <2>3, <1>4 DEF GrownStream
<1>6. ASSUME NEW r \in Requests PROVE GrownPromise(r, {})
  <2>1. promise'[r] = IF r \in ToSet(rs) THEN o ELSE promise[r]
    BY <1>3
  <2>2. CASE r \notin ToSet(rs)
    BY <2>1, <2>2 DEF GrownPromise
  <2>3. CASE r \in ToSet(rs)
    <3> DEFINE i == IOf(r)
    <3>1. i \in Interactions /\ r \in ToSet(EndedOf(rs, i))
      <4>1. i \in Interactions
        BY <1>1
      <4>2. ToSet(EndedOf(rs, i)) = {q \in ToSet(rs) : IOf(q) = i}
        BY EndFacts
      <4>. QED
        BY <4>1, <4>2, <2>3
    <3> HIDE DEF i
    <3>2. PICK m \in DOMAIN EndedOf(rs, i) : EndedOf(rs, i)[m] = r
      BY <3>1 DEF ToSet
    <3> DEFINE k == Len(streams[i]) + m
    <3>3. k \in DOMAIN streams'[i] /\ k \notin DOMAIN streams[i] /\ k - Len(streams[i]) = m /\ k > Len(streams[i])
      <4>1. m \in Nat /\ m >= 1 /\ m <= Len(EndedOf(rs, i)) /\ Len(streams[i]) \in Nat
        BY <3>1, <3>2, <1>4
      <4>2. DOMAIN streams'[i] = 1 .. Len(streams[i]) + Len(EndedOf(rs, i))
        BY <3>1, <1>4
      <4>3. DOMAIN streams[i] = 1 .. Len(streams[i])
        BY <3>1, <1>4
      <4>4. Len(EndedOf(rs, i)) \in Nat
        BY <3>1, <1>4
      <4>. QED
        BY <4>1, <4>2, <4>3, <4>4
    <3> HIDE DEF k
    <3>4. streams'[i][k] = Resolved(r, o, by)
      BY <3>1, <3>2, <3>3, <1>4
    <3>5. EndsPast(streams'[i], Len(streams[i]), r)
      BY <3>3, <3>4, EventFacts DEF EndsPast
    <3>6. promise[r] = "open" /\ promise[r] \notin Outcomes /\ CallOf[r] \in active /\ CallOf[r] \in begun
      BY <2>3, <1>1, <1>2 DEF Outcomes
    <3>. QED
      BY <3>5, <3>6 DEF GrownPromise, i
  <2>. QED
    BY <2>2, <2>3
<1>7. stale' \subseteq stale
  BY <1>3
<1>. QED
  BY <1>5, <1>6, <1>7 DEF Grown

\* A stored request grows its stream, and drops abandoned ones.
LEMMA StoreGrown ==
  ASSUME CoordinatorInv, NEW r \in Requests, NEW early \in {"none", "expired", "aborted"},
         promise[r] = "none", CallOf[r] \in active, Store(r, early)
  PROVE  Grown(Abandoned(IOf(r)))
<1> DEFINE i == IOf(r)
           dropped == Abandoned(i)
           ends == Ends(r, early)
           by == EndedBy(r, early)
           new == NewEvents(r, early)
           old == streams[i]
           s == streams'[i]
<1>1. /\ TypeOK /\ DecidedInv /\ BacklogBounded /\ active \subseteq begun
      /\ promise \in [Requests -> Outcomes \union {"none", "open", "refused"}]
  BY DEF CoordinatorInv, TypeOK
<1>2. /\ stale' = stale \ (dropped \union {i}) /\ promise' = [promise EXCEPT ![r] = ends]
      /\ decided' = decided
  BY DEF Store, Ends, EndedBy, Covering
<1>3. /\ ends \in {"open", "approved", "expired", "aborted"}
      /\ ends = "approved" => decided[by] = "approve_always"
      /\ ends # "approved" => by = NoRequest
  <2>1. /\ ends \in {"open", "approved", "expired", "aborted"}
        /\ ends = "approved" => decided[by] = "approve_always"
    BY <1>1, EndsFacts
  <2>2. ends # "approved" => by = NoRequest
    BY DEF Ends, EndedBy
  <2>. QED
    BY <2>1, <2>2
<1>4. i \in Interactions /\ \A j \in dropped : j # i
  BY <1>1, PendingFacts, AbandonedIdle
<1>5. StoredStream(r, early, i, new, old, s)
  BY <1>1, StoreStreams
<1>6. \A j \in Interactions : Without(dropped)[j] = IF j \in dropped THEN <<>> ELSE streams[j]
  BY <1>1, WithoutFacts
<1> HIDE DEF i, dropped, ends, by, new, old, s
<1>7. by # r
  BY <1>1, <1>3, CoordinatorAssumption DEF DecidedInv, Outcomes
<1>8. \A j \in Interactions : j # i => streams'[j] = Without(dropped)[j]
  BY <1>5 DEF StoredStream, dropped
<1>9. /\ Len(old) \in Nat /\ Len(new) \in {1, 2} /\ Len(s) = Len(old) + Len(new)
      /\ DOMAIN old = 1 .. Len(old) /\ DOMAIN s = 1 .. Len(s) /\ DOMAIN new = 1 .. Len(new)
      /\ \A k \in DOMAIN old : s[k] = old[k]
      /\ \A k \in DOMAIN s : k \notin DOMAIN old => k - Len(old) \in DOMAIN new /\ s[k] = new[k - Len(old)]
      /\ new[1] = Requested(r) /\ (Len(new) = 1 <=> ends = "open")
      /\ Len(new) = 2 => new[2] = Resolved(r, ends, by)
  BY <1>5 DEF StoredStream, ends, by
<1>10. ASSUME NEW k \in DOMAIN s, k \notin DOMAIN old
       PROVE  s[k].request = r /\ CallOf[s[k].request] \in active /\ ByUser(s[k], decided')
  <2>1. k - Len(old) \in {1, 2} /\ k - Len(old) \in 1 .. Len(new) /\ s[k] = new[k - Len(old)]
    BY <1>9, <1>10
  <2>2. CASE k - Len(old) = 1
    <3>1. s[k].request = r /\ s[k].type = "requested"
      BY <2>1, <2>2, <1>9, EventFacts
    <3>. QED
      BY <3>1 DEF ByUser
  <2>3. CASE k - Len(old) = 2
    <3>1. Len(new) = 2
      BY <2>1, <2>3, <1>9
    <3>2. s[k].request = r /\ s[k].by = by
      BY <3>1, <2>1, <2>3, <1>9, EventFacts
    <3>. QED
      BY <3>2, <1>7 DEF ByUser
  <2>. QED
    BY <2>1, <2>2, <2>3
<1>11. GrownStream(i)
  <2>1. Len(old) <= Len(s)
    BY <1>9
  <2>2. i \notin stale'
    BY <1>2
  <2>. QED
    BY <2>1, <2>2, <1>9, <1>10 DEF GrownStream, old, s
<1>12. \A j \in Interactions : IF j \in dropped THEN streams'[j] = <<>> ELSE GrownStream(j)
  <2> TAKE j \in Interactions
  <2>1. CASE j = i
    BY <2>1, <1>4, <1>11
  <2>2. CASE j # i
    BY <2>2, <1>1, <1>6, <1>8, SameGrown
  <2>. QED
    BY <2>1, <2>2
<1>13. ASSUME NEW q \in Requests PROVE GrownPromise(q, dropped)
  <2>1. CASE q # r
    <3>1. promise'[q] = promise[q]
      BY <2>1, <1>1, <1>2
    <3>. QED
      BY <3>1, <1>2 DEF GrownPromise
  <2>2. CASE q = r
    <3>1. promise'[r] = ends /\ CallOf[r] \in begun /\ promise[r] \notin Outcomes
      BY <1>1, <1>2 DEF Outcomes
    <3>2. ASSUME ends \in Outcomes PROVE EndsPast(s, Len(old), r)
      <4>1. Len(new) = 2
        BY <3>2, <1>9 DEF Outcomes
      <4>2. /\ Len(old) + 2 \in DOMAIN s /\ Len(old) + 2 \notin DOMAIN old /\ Len(old) + 2 > Len(old)
            /\ (Len(old) + 2) - Len(old) = 2
        BY <4>1, <1>9
      <4>3. s[Len(old) + 2] = Resolved(r, ends, by)
        BY <4>1, <4>2, <1>9
      <4>. QED
        BY <4>2, <4>3, EventFacts DEF EndsPast
    <3>. QED
      BY <2>2, <3>1, <3>2, <1>2, <1>4 DEF GrownPromise, s, old, i
  <2>. QED
    BY <2>1, <2>2
<1>14. stale' \subseteq stale \ dropped
  BY <1>2
<1>. QED
  BY <1>12, <1>13, <1>14 DEF Grown, dropped, i
(***************************************************************************)
(* The steps of the coordinator.                                           *)
(***************************************************************************)
\* A coordinator that was just made.
LEMMA CoordinatorInit == Init => CoordinatorInv
<1> SUFFICES ASSUME Init PROVE CoordinatorInv
  OBVIOUS
<1> USE CoordinatorAssumption DEF Init
<1>1. ToSet(<<>>) = {}
  BY DEF ToSet
<1>2. TypeOK
  <2>1. <<>> \in Seq(Requests) /\ <<>> \in Seq(EventSet) /\ <<>> \in Seq(Interactions) /\ Len(<<>>) = 0
    OBVIOUS
  <2>2. IsInjective(<<>>)
    BY DEF IsInjective
  <2>3. MaxTombstones >= 0 /\ MaxGrants >= 0
    OBVIOUS
  <2>4. ToSet(order) = {i \in Interactions : streams[i] # <<>>} /\ stale \subseteq ToSet(order)
    BY <1>1
  <2>. QED
    BY <2>1, <2>2, <2>3, <2>4 DEF TypeOK
<1>3. PendingInv /\ DecidedInv /\ NoOrphanedRequest /\ ReviewedOnly /\ StreamTellsTheTruth
  BY <1>1 DEF PendingInv, DecidedInv, NoOrphanedRequest, ReviewedOnly, StreamTellsTheTruth, Distinct
<1>4. BacklogBounded
  <2>1. \A i \in Interactions : PendingCount(i) = 0
    BY <1>1, FS_EmptySet DEF PendingCount
  <2>2. Places(streams) = {}
    BY PlacesIn
  <2>3. Retained(streams) = 0
    BY <2>2, FS_EmptySet DEF Retained
  <2>. QED
    BY <2>1, <2>3 DEF BacklogBounded
<1>. QED
  BY <1>2, <1>3, <1>4 DEF CoordinatorInv

\* Dropping idle streams, with the tombstones of their requests, keeps the invariant.
LEMMA DropInv ==
  ASSUME CoordinatorInv, NEW is, \A i \in is : Idle(i), DropStreams(is),
         terminal' = terminal \/ terminal' = ForgetTerminal(terminal, is),
         begun' \subseteq Calls, active' \subseteq begun', active \subseteq active',
         \A r \in Requests : promise'[r] = promise[r] \/ (promise[r] = "none" /\ promise'[r] = "refused"),
         promise' \in [Requests -> Outcomes \union {"none", "open", "refused"}],
         UNCHANGED <<closed, pending, grants, authority, decided>>
  PROVE  CoordinatorInv'
<1> USE DEF CoordinatorInv
<1>1. KeepsOutcomes(promise, promise')
  BY DEF KeepsOutcomes, Outcomes
<1>2. StreamShape' /\ BacklogBounded' /\ StreamTellsTheTruth'
  BY <1>1, DropKeeps
<1>3. terminal' \in Seq(Requests) /\ Len(terminal') <= MaxTombstones
  <2>1. terminal \in Seq(Requests) /\ Len(terminal) <= MaxTombstones
    BY DEF TypeOK
  <2> DEFINE S == {q \in Requests : IOf(q) \notin is}
  <2>2. ForgetTerminal(terminal, is) = Keep(terminal, S)
    BY DEF ForgetTerminal
  <2> HIDE DEF S
  <2>3. Keep(terminal, S) \in Seq(Requests) /\ Len(Keep(terminal, S)) <= Len(terminal)
    BY <2>1, KeepSet
  <2>4. Len(Keep(terminal, S)) \in Nat /\ Len(terminal) \in Nat /\ MaxTombstones \in Nat
    <3>1. MaxTombstones \in Nat
      BY CoordinatorAssumption
    <3> DEFINE t == Keep(terminal, S)
    <3> HIDE DEF t
    <3>2. t \in Seq(Requests)
      BY <2>3 DEF t
    <3>3. Len(t) \in Nat /\ Len(terminal) \in Nat
      BY <3>2, <2>1
    <3>. QED
      BY <3>1, <3>3 DEF t
  <2>5. Len(Keep(terminal, S)) <= MaxTombstones
    BY <2>1, <2>3, <2>4
  <2>. QED
    BY <2>1, <2>2, <2>3, <2>5
<1>4. TypeOK'
  BY <1>2, <1>3 DEF TypeOK, StreamShape
<1>5. PendingInv' /\ DecidedInv' /\ ReviewedOnly'
  BY DEF PendingInv, DecidedInv, ReviewedOnly, Outcomes
<1>6. NoOrphanedRequest'
  BY DEF NoOrphanedRequest, PendingInv
<1>. QED
  BY <1>2, <1>4, <1>5, <1>6

\* Ending pending requests keeps the invariant when the calls of the others stay active,
\* and when a request is approved only by a decision with its scope.
LEMMA FinishInv ==
  ASSUME CoordinatorInv, NEW rs \in Seq(Requests), Distinct(rs), ToSet(rs) \subseteq ToSet(pending),
         NEW o \in Outcomes, NEW by \in Requests \union {NoRequest}, Finish(rs, o, by),
         closed' \in BOOLEAN, begun' = begun, active' \subseteq active,
         \A r \in ToSet(pending) \ ToSet(rs) : CallOf[r] \in active',
         decided' \in [Requests -> Decisions \union {"none"}],
         \A r \in Requests : decided'[r] = decided[r] \/ r \in ToSet(rs),
         grants' \in Seq(Requests), Len(grants') <= MaxGrants,
         \A g \in ToSet(grants') : decided'[g] = "approve_always",
         \A r \in ToSet(rs) : o = "approved" =>
           /\ by # NoRequest /\ Scope[r] \subseteq Scope[by]
           /\ decided'[by] \in IF by = r THEN {"approve_once", "approve_always"}
                               ELSE {"approve_always"}
  PROVE  CoordinatorInv'
<1> USE DEF CoordinatorInv
<1>1. /\ pending' \in Seq(Requests) /\ Distinct(pending')
      /\ ToSet(pending') = ToSet(pending) \ ToSet(rs)
      /\ terminal' \in Seq(Requests) /\ Len(terminal') <= MaxTombstones
      /\ promise' \in [Requests -> Outcomes \union {"none", "open", "refused"}]
      /\ authority' \in [Requests -> Requests \union {NoRequest}]
      /\ \A r \in Requests : /\ promise'[r] = IF r \in ToSet(rs) THEN o ELSE promise[r]
                             /\ authority'[r] = IF r \in ToSet(rs) THEN by ELSE authority[r]
      /\ StreamShape' /\ BacklogBounded' /\ StreamTellsTheTruth'
  BY FinishKeeps
<1>2. TypeOK'
  BY <1>1 DEF TypeOK, StreamShape
<1>3. PendingInv'
  BY <1>1 DEF PendingInv
<1>4. o # "none" /\ o # "open"
  BY DEF Outcomes
<1>5. DecidedInv'
  BY <1>1, <1>4 DEF DecidedInv
<1>6. ASSUME NEW r \in Requests
      PROVE  promise'[r] = "open" <=> r \in ToSet(pending') /\ CallOf[r] \in active'
  <2>1. promise[r] = "open" <=> r \in ToSet(pending)
    BY DEF NoOrphanedRequest, PendingInv
  <2>. QED
    BY <1>1, <1>4, <2>1
<1>7. ASSUME NEW r \in Requests, promise'[r] = "approved"
      PROVE  /\ authority'[r] # NoRequest /\ Scope[r] \subseteq Scope[authority'[r]]
             /\ decided'[authority'[r]] \in IF authority'[r] = r THEN {"approve_once", "approve_always"}
                                            ELSE {"approve_always"}
  <2>1. CASE r \in ToSet(rs)
    BY <2>1, <1>1, <1>7
  <2>2. CASE r \notin ToSet(rs)
    <3> DEFINE s == authority[r]
    <3>1. /\ promise[r] = "approved" /\ authority'[r] = s /\ s \in Requests \union {NoRequest}
      BY <2>2, <1>1, <1>7 DEF TypeOK
    <3>2. /\ s # NoRequest /\ Scope[r] \subseteq Scope[s]
          /\ decided[s] \in IF s = r THEN {"approve_once", "approve_always"} ELSE {"approve_always"}
      BY <3>1 DEF ReviewedOnly
    <3>3. decided[s] # "none" /\ s \in Requests
      BY <3>1, <3>2
    <3>4. promise[s] # "open"
      BY <3>3 DEF DecidedInv, Outcomes
    <3>5. s \notin ToSet(rs)
      BY <3>3, <3>4 DEF NoOrphanedRequest, PendingInv
    <3>6. decided'[s] = decided[s]
      BY <3>3, <3>5
    <3> HIDE DEF s
    <3>. QED
      BY <3>1, <3>2, <3>6
  <2>. QED
    BY <2>1, <2>2
<1>8. NoOrphanedRequest' /\ ReviewedOnly'
  BY <1>6, <1>7 DEF NoOrphanedRequest, ReviewedOnly
<1>. QED
  BY <1>1, <1>2, <1>3, <1>5, <1>8

\* The streams that the begin of c resets.
Reset(c) == IF c \notin Unobserved /\ Idle(InteractionOf[c]) THEN {InteractionOf[c]} ELSE {}

\* A completion begins; a stream nobody uses is reset.
LEMMA BeginStep ==
  ASSUME CoordinatorInv, NEW c \in Calls, BeginCompletion(c)
  PROVE  CoordinatorInv' /\ Grown(Reset(c))
<1>1. /\ TypeOK /\ promise \in [Requests -> Outcomes \union {"none", "open", "refused"}]
      /\ begun \subseteq Calls /\ active \subseteq begun
  BY DEF CoordinatorInv, TypeOK
<1>2. /\ begun' = begun \union {c}
      /\ UNCHANGED <<closed, pending, terminal, grants, promise, authority, decided>>
  BY DEF BeginCompletion
<1>3. CASE c \in Unobserved
  <2>1. UNCHANGED <<active, streams, order, stale>>
    BY <1>3 DEF BeginCompletion
  <2>2. TypeOK'
    BY <1>1, <1>2, <2>1 DEF TypeOK
  <2>3. (PendingInv /\ DecidedInv /\ NoOrphanedRequest /\ ReviewedOnly /\ StreamTellsTheTruth /\ BacklogBounded)'
    BY <1>2, <2>1 DEF CoordinatorInv, PendingInv, DecidedInv, NoOrphanedRequest, ReviewedOnly,
                      StreamTellsTheTruth, BacklogBounded, PendingCount, Retained, Places
  <2>4. Grown({})
    <3>1. \A i \in Interactions : GrownStream(i)
      BY <1>1, <2>1, SameGrown
    <3>2. \A r \in Requests : GrownPromise(r, {})
      BY <1>2 DEF GrownPromise
    <3>. QED
      BY <2>1, <3>1, <3>2 DEF Grown
  <2>. QED
    BY <1>3, <2>2, <2>3, <2>4 DEF CoordinatorInv, Reset
<1>4. CASE c \notin Unobserved
  <2> DEFINE is == IF Idle(InteractionOf[c]) THEN {InteractionOf[c]} ELSE {}
  <2>1. active' = active \union {c} /\ DropStreams(is)
    BY <1>4 DEF BeginCompletion
  <2>2. \A i \in is : Idle(i)
    OBVIOUS
  <2>3. begun' \subseteq Calls /\ active' \subseteq begun' /\ active \subseteq active'
    BY <1>1, <1>2, <2>1
  <2>4. is = Reset(c)
    BY <1>4 DEF Reset
  <2> HIDE DEF is
  <2>5. CoordinatorInv'
    BY <1>1, <1>2, <2>1, <2>2, <2>3, DropInv
  <2>6. Grown(is)
    BY <1>2, <2>1, DropGrown
  <2>. QED
    BY <2>4, <2>5, <2>6
<1>. QED
  BY <1>3, <1>4

\* A completion ends, and its requests with it.
LEMMA EndStep ==
  ASSUME CoordinatorInv, NEW c \in Calls, NEW o \in {"cancelled", "aborted"}, EndCompletion(c, o)
  PROVE  CoordinatorInv' /\ Grown({})
<1> DEFINE S == {r \in Requests : CallOf[r] = c}
           rs == Keep(pending, S)
<1>1. /\ TypeOK /\ PendingInv /\ DecidedInv /\ pending \in Seq(Requests) /\ Distinct(pending)
      /\ closed \in BOOLEAN /\ decided \in [Requests -> Decisions \union {"none"}]
      /\ grants \in Seq(Requests) /\ Len(grants) <= MaxGrants
      /\ \A g \in ToSet(grants) : decided[g] = "approve_always"
  BY DEF CoordinatorInv, TypeOK, PendingInv, DecidedInv
<1>2. /\ active' = active \ {c} /\ Finish(rs, o, NoRequest)
      /\ UNCHANGED <<closed, begun, grants, decided>>
  BY DEF EndCompletion, PendingOf
<1>3. rs \in Seq(Requests) /\ Distinct(rs) /\ ToSet(rs) = ToSet(pending) \intersect S
  <2> HIDE DEF S
  <2>. QED
    BY <1>1, KeepSet
<1>4. ToSet(pending) \subseteq Requests
  BY <1>1, ToSetFacts
<1>5. \A r \in ToSet(pending) \ ToSet(rs) : CallOf[r] \in active'
  BY <1>1, <1>2, <1>3, <1>4 DEF PendingInv
<1>6. o \in Outcomes /\ o # "approved" /\ NoRequest \in Requests \union {NoRequest}
  BY DEF Outcomes
<1>7. ToSet(rs) \subseteq ToSet(pending)
  BY <1>3
<1> HIDE DEF rs
<1>8. /\ closed' \in BOOLEAN /\ begun' = begun /\ active' \subseteq active
      /\ decided' \in [Requests -> Decisions \union {"none"}]
      /\ \A r \in Requests : decided'[r] = decided[r] \/ r \in ToSet(rs)
      /\ grants' \in Seq(Requests) /\ Len(grants') <= MaxGrants
      /\ \A g \in ToSet(grants') : decided'[g] = "approve_always"
  BY <1>1, <1>2
<1>9. CoordinatorInv'
  BY <1>2, <1>3, <1>5, <1>6, <1>7, <1>8, FinishInv
<1>10. NoRequest \notin ToSet(rs)
  BY <1>4, <1>7, CoordinatorAssumption
<1>11. Grown({})
  BY <1>2, <1>3, <1>6, <1>7, <1>10, FinishGrown
<1>. QED
  BY <1>9, <1>11

\* The session closes, and everything pending with it.
LEMMA CloseStep == ASSUME CoordinatorInv, CloseSession PROVE CoordinatorInv' /\ Grown({})
<1>1. /\ TypeOK /\ PendingInv /\ pending \in Seq(Requests) /\ Distinct(pending)
      /\ decided \in [Requests -> Decisions \union {"none"}]
  BY DEF CoordinatorInv, TypeOK, PendingInv
<1>2. /\ closed' = TRUE /\ active' = {} /\ Finish(pending, "aborted", NoRequest)
      /\ grants' = <<>> /\ UNCHANGED <<begun, decided>>
  BY DEF CloseSession
<1>3. "aborted" \in Outcomes /\ NoRequest \in Requests \union {NoRequest}
  BY DEF Outcomes
<1>4. <<>> \in Seq(Requests) /\ Len(<<>>) = 0 /\ ToSet(<<>>) = {}
  BY DEF ToSet
<1>5. Len(grants') <= MaxGrants
  BY <1>2, <1>4, CoordinatorAssumption
<1>6. /\ closed' \in BOOLEAN /\ begun' = begun /\ active' \subseteq active
      /\ decided' \in [Requests -> Decisions \union {"none"}]
      /\ \A r \in Requests : decided'[r] = decided[r] \/ r \in ToSet(pending)
      /\ grants' \in Seq(Requests)
      /\ \A g \in ToSet(grants') : decided'[g] = "approve_always"
  BY <1>1, <1>2, <1>4
<1>7. CoordinatorInv'
  BY <1>1, <1>2, <1>3, <1>5, <1>6, FinishInv
<1>8. NoRequest \notin ToSet(pending)
  BY <1>1, ToSetFacts, CoordinatorAssumption
<1>9. Grown({})
  BY <1>1, <1>2, <1>3, <1>8, FinishGrown
<1>. QED
  BY <1>7, <1>9

\* The provider asks: the request is stored or refused.
LEMMA RequestStep ==
  ASSUME CoordinatorInv, NEW r \in Requests, NEW early \in {"none", "expired", "aborted"},
         Request(r, early)
  PROVE  CoordinatorInv' /\ \E is : is \subseteq stale /\ Grown(is)
<1>1. /\ TypeOK /\ promise \in [Requests -> Outcomes \union {"none", "open", "refused"}]
      /\ begun \subseteq Calls /\ active \subseteq begun
  BY DEF CoordinatorInv, TypeOK
<1>2. ASSUME NEW is, \A i \in is : Idle(i), Refuse(r, is) PROVE CoordinatorInv' /\ Grown(is)
  <2>1. /\ promise' = [promise EXCEPT ![r] = "refused"] /\ DropStreams(is)
        /\ terminal' = ForgetTerminal(terminal, is)
        /\ UNCHANGED <<closed, begun, active, pending, grants, authority, decided>>
    BY <1>2 DEF Refuse
  <2>2. promise[r] = "none" /\ CallOf[r] \in begun
    BY <1>1 DEF Request
  <2>3. /\ promise' \in [Requests -> Outcomes \union {"none", "open", "refused"}]
        /\ \A q \in Requests : promise'[q] = promise[q] \/ (promise[q] = "none" /\ promise'[q] = "refused")
    BY <1>1, <2>1, <2>2
  <2>4. begun' \subseteq Calls /\ active' \subseteq begun' /\ active \subseteq active'
    BY <1>1, <2>1
  <2>5. CoordinatorInv'
    BY <1>2, <2>1, <2>3, <2>4, DropInv
  <2>6. \A q \in Requests : promise'[q] = promise[q] \/
          (promise[q] = "none" /\ promise'[q] = "refused" /\ CallOf[q] \in begun)
    BY <1>1, <2>1, <2>2
  <2>7. Grown(is)
    BY <2>1, <2>6, DropGrown
  <2>. QED
    BY <2>5, <2>7
<1>3. CASE Refuse(r, {})
  BY <1>2, <1>3
<1>4. CASE Refuse(r, Abandoned(IOf(r)))
  <2>1. \A i \in Abandoned(IOf(r)) : Idle(i) /\ i \in stale
    BY <1>1, AbandonedIdle
  <2>. QED
    BY <1>2, <1>4, <2>1
<1>5. CASE ~StreamFull(r) /\ Fits(Abandoned(IOf(r))) /\ Store(r, early)
  <2>1. promise[r] = "none" /\ CallOf[r] \in active
    BY DEF Request
  <2>2. CoordinatorInv'
    BY <1>5, <2>1, StoreKeeps
  <2>3. Grown(Abandoned(IOf(r)))
    BY <1>5, <2>1, StoreGrown
  <2>4. Abandoned(IOf(r)) \subseteq stale
    BY <1>1, AbandonedIdle
  <2>. QED
    BY <2>2, <2>3, <2>4
<1>. QED
  BY <1>3, <1>4, <1>5 DEF Request

\* A request of an ended or unobserved call changes only its promise.
LEMMA RefusedStep ==
  ASSUME CoordinatorInv, NEW r \in Requests, RequestInactive(r) \/ RequestUnobserved(r)
  PROVE  CoordinatorInv' /\ Grown({})
<1> USE DEF CoordinatorInv
<1>1. PICK x \in {"refused", "aborted"} : promise' = [promise EXCEPT ![r] = x]
  BY DEF RequestInactive, RequestUnobserved
<1>2. /\ promise[r] = "none"
      /\ UNCHANGED <<closed, begun, active, pending, terminal, grants, streams, order, stale, authority, decided>>
  BY DEF RequestInactive, RequestUnobserved
<1>3. promise \in [Requests -> Outcomes \union {"none", "open", "refused"}]
  BY DEF TypeOK
<1>4. /\ promise' \in [Requests -> Outcomes \union {"none", "open", "refused"}]
      /\ promise'[r] = x /\ \A q \in Requests : q # r => promise'[q] = promise[q]
  BY <1>1, <1>3 DEF Outcomes
<1>5. TypeOK'
  BY <1>2, <1>4 DEF TypeOK
<1>6. PendingInv' /\ BacklogBounded'
  BY <1>2 DEF PendingInv, BacklogBounded, PendingCount, Retained, Places
<1>7. DecidedInv' /\ ReviewedOnly'
  BY <1>2, <1>4 DEF DecidedInv, ReviewedOnly, Outcomes
<1>8. NoOrphanedRequest'
  BY <1>2, <1>4 DEF NoOrphanedRequest
<1>9. StreamTellsTheTruth'
  <2>1. KeepsOutcomes(promise, promise')
    BY <1>2, <1>4 DEF KeepsOutcomes, Outcomes
  <2>2. ASSUME NEW i \in Interactions, NEW k \in DOMAIN streams[i]
        PROVE  EventOK(streams[i], k, promise', i)
    <3>1. EventOK(streams[i], k, promise, i) /\ streams[i] \in Seq(EventSet)
      BY TruthIs DEF TypeOK
    <3>. QED
      BY <2>1, <3>1, TruthExtends
  <2>3. \A q \in ToSet(pending) : Requested(q) \in ToSet(streams[IOf(q)])
    BY DEF StreamTellsTheTruth
  <2>. QED
    BY <1>2, <2>2, <2>3 DEF StreamTellsTheTruth, EventOK
<1>10. Grown({})
  <2>1. \A i \in Interactions : GrownStream(i)
    BY <1>2, SameGrown
  <2>2. CallOf[r] \in begun /\ (x = "aborted" => CallOf[r] \in Unobserved)
    <3>1. CASE RequestInactive(r)
      BY <3>1, <1>1, <1>3 DEF RequestInactive
    <3>2. CASE RequestUnobserved(r)
      BY <3>2 DEF RequestUnobserved
    <3>. QED
      BY <3>1, <3>2
  <2>3. \A q \in Requests : GrownPromise(q, {})
    BY <1>2, <1>4, <2>2 DEF GrownPromise, Outcomes
  <2>. QED
    BY <1>2, <2>1, <2>3 DEF Grown
<1>. QED
  BY <1>5, <1>6, <1>7, <1>8, <1>9, <1>10

\* One request and those a decision on it covers are pending, each once.
LEMMA CoveredFacts ==
  ASSUME CoordinatorInv, NEW r \in ToSet(pending), NEW S, r \notin S
  PROVE  /\ <<r>> \o Keep(pending, S) \in Seq(Requests) /\ Distinct(<<r>> \o Keep(pending, S))
         /\ ToSet(<<r>> \o Keep(pending, S)) = {r} \union (ToSet(pending) \intersect S)
<1> DEFINE a == <<r>>
           b == Keep(pending, S)
           ab == a \o b
<1>1. pending \in Seq(Requests) /\ Distinct(pending)
  BY DEF CoordinatorInv, TypeOK, PendingInv
<1>2. b \in Seq(Requests) /\ Distinct(b) /\ ToSet(b) = ToSet(pending) \intersect S
  BY <1>1, KeepSet
<1>3. r \in Requests
  BY <1>1, ToSetFacts
<1>4. a \in Seq(Requests) /\ Len(a) = 1 /\ DOMAIN a = {1} /\ a[1] = r /\ ToSet(a) = {r}
  BY <1>3 DEF ToSet
<1> HIDE DEF a, b
<1>5. /\ ab \in Seq(Requests) /\ ToSet(ab) = ToSet(a) \union ToSet(b)
      /\ \A k \in DOMAIN a : k \in DOMAIN ab /\ ab[k] = a[k]
      /\ \A k \in DOMAIN ab : k \notin DOMAIN a => k - Len(a) \in DOMAIN b /\ ab[k] = b[k - Len(a)]
  BY <1>2, <1>4, ConcatSet
<1> HIDE DEF ab
<1>6. \A k \in DOMAIN b : b[k] # r
  <2> TAKE k \in DOMAIN b
  <2>1. b[k] \in ToSet(b)
    BY DEF ToSet
  <2>. QED
    BY <1>2, <2>1
<1>7. Distinct(ab)
  <2> SUFFICES ASSUME NEW j \in DOMAIN ab, NEW k \in DOMAIN ab, ab[j] = ab[k] PROVE j = k
    BY DEF Distinct
  <2>1. j \in Int /\ k \in Int
    BY <1>5
  <2>2. CASE j = 1
    BY <2>2, <1>4, <1>5, <1>6
  <2>3. CASE k = 1
    BY <2>3, <1>4, <1>5, <1>6
  <2>4. CASE j # 1 /\ k # 1
    <3>1. /\ j - 1 \in DOMAIN b /\ ab[j] = b[j - 1]
          /\ k - 1 \in DOMAIN b /\ ab[k] = b[k - 1]
      BY <2>4, <1>4, <1>5
    <3>2. j - 1 = k - 1
      BY <3>1, <1>2 DEF Distinct
    <3>. QED
      BY <2>1, <3>2
  <2>. QED
    BY <2>2, <2>3, <2>4
<1>. QED
  BY <1>2, <1>4, <1>5, <1>7 DEF a, b, ab

\* A provider's signal ends one request.
LEMMA AbortStep ==
  ASSUME CoordinatorInv, NEW r \in Requests, NEW o \in {"expired", "aborted"}, ProviderAbort(r, o)
  PROVE  CoordinatorInv' /\ Grown({})
<1> DEFINE rs == <<r>>
<1>1. /\ TypeOK /\ PendingInv /\ closed \in BOOLEAN
      /\ decided \in [Requests -> Decisions \union {"none"}]
      /\ grants \in Seq(Requests) /\ Len(grants) <= MaxGrants
      /\ \A g \in ToSet(grants) : decided[g] = "approve_always"
  BY DEF CoordinatorInv, TypeOK, PendingInv, DecidedInv
<1>2. /\ r \in ToSet(pending) /\ Finish(rs, o, NoRequest)
      /\ UNCHANGED <<closed, begun, active, grants, decided>>
  BY DEF ProviderAbort
<1>3. rs \in Seq(Requests) /\ Distinct(rs) /\ ToSet(rs) \subseteq ToSet(pending)
  BY <1>2 DEF ToSet, Distinct
<1>4. o \in Outcomes /\ o # "approved" /\ NoRequest \in Requests \union {NoRequest}
  BY DEF Outcomes
<1> HIDE DEF rs
<1>5. /\ closed' \in BOOLEAN /\ begun' = begun /\ active' \subseteq active
      /\ \A q \in ToSet(pending) \ ToSet(rs) : CallOf[q] \in active'
      /\ decided' \in [Requests -> Decisions \union {"none"}]
      /\ \A q \in Requests : decided'[q] = decided[q] \/ q \in ToSet(rs)
      /\ grants' \in Seq(Requests) /\ Len(grants') <= MaxGrants
      /\ \A g \in ToSet(grants') : decided'[g] = "approve_always"
  BY <1>1, <1>2 DEF PendingInv
<1>6. CoordinatorInv'
  BY <1>2, <1>3, <1>4, <1>5, FinishInv
<1>7. NoRequest \notin ToSet(rs)
  BY <1>3, ToSetFacts, CoordinatorAssumption
<1>8. Grown({})
  BY <1>2, <1>3, <1>4, <1>7, FinishGrown
<1>. QED
  BY <1>6, <1>8

\* A user decides: a session-wide approval ends every request it covers.
LEMMA DecideStep ==
  ASSUME CoordinatorInv, NEW r \in Requests, NEW d \in Decisions, Decide(r, d)
  PROVE  CoordinatorInv' /\ Grown({})
<1> DEFINE S == IF d = "approve_always" THEN {q \in Requests \ {r} : Matches(q, r)} ELSE {}
           rs == <<r>> \o Keep(pending, S)
           o == IF d = "deny" THEN "denied" ELSE "approved"
<1>1. /\ TypeOK /\ PendingInv /\ DecidedInv /\ NoOrphanedRequest
      /\ closed \in BOOLEAN /\ pending \in Seq(Requests)
      /\ decided \in [Requests -> Decisions \union {"none"}]
      /\ grants \in Seq(Requests) /\ Len(grants) <= MaxGrants
      /\ \A g \in ToSet(grants) : decided[g] = "approve_always"
  BY DEF CoordinatorInv, TypeOK, PendingInv, DecidedInv
<1>2. /\ r \in ToSet(pending) /\ decided' = [decided EXCEPT ![r] = d]
      /\ grants' = IF d = "approve_always" THEN Newest(Append(grants, r), MaxGrants) ELSE grants
      /\ UNCHANGED <<closed, begun, active>>
  BY DEF Decide
<1>3. Finish(rs, o, r)
  <2>1. CASE d = "approve_always"
    BY <2>1 DEF Decide
  <2>2. CASE d # "approve_always"
    <3>1. Finish(<<r>> \o <<>>, o, r)
      BY <2>2 DEF Decide
    <3>2. Keep(pending, {}) = <<>>
      <4>1. Keep(pending, {}) \in Seq(Requests) /\ ToSet(Keep(pending, {})) = ToSet(pending) \intersect {}
        BY <1>1, KeepSet
      <4>. QED
        BY <4>1, ToSetFacts
    <3>3. S = {}
      BY <2>2
    <3>. QED
      BY <3>1, <3>2, <3>3
  <2>. QED
    BY <2>1, <2>2
<1>4. /\ rs \in Seq(Requests) /\ Distinct(rs) /\ ToSet(rs) = {r} \union (ToSet(pending) \intersect S)
  <2>1. r \notin S
    OBVIOUS
  <2> HIDE DEF S
  <2>. QED
    BY <1>2, <2>1, CoveredFacts
<1>5. ToSet(rs) \subseteq ToSet(pending)
  BY <1>2, <1>4
<1>6. o \in Outcomes /\ r \in Requests \union {NoRequest}
  BY DEF Outcomes
<1>7. /\ decided' \in [Requests -> Decisions \union {"none"}] /\ decided'[r] = d
      /\ \A q \in Requests : q # r => decided'[q] = decided[q]
  BY <1>1, <1>2
<1>8. \A q \in Requests : decided'[q] = decided[q] \/ q \in ToSet(rs)
  BY <1>4, <1>7
<1>9. \A q \in ToSet(rs) : o = "approved" =>
        /\ r # NoRequest /\ Scope[q] \subseteq Scope[r]
        /\ decided'[r] \in IF r = q THEN {"approve_once", "approve_always"} ELSE {"approve_always"}
  <2> SUFFICES ASSUME NEW q \in ToSet(rs), o = "approved"
               PROVE  /\ r # NoRequest /\ Scope[q] \subseteq Scope[r]
                      /\ decided'[r] \in IF r = q THEN {"approve_once", "approve_always"} ELSE {"approve_always"}
    OBVIOUS
  <2>1. r # NoRequest
    BY CoordinatorAssumption
  <2>2. CASE q = r
    BY <2>1, <2>2, <1>7 DEF Decisions
  <2>3. CASE q # r
    <3>1. q \in S
      BY <2>3, <1>4
    <3>2. d = "approve_always" /\ Matches(q, r)
      BY <3>1
    <3>. QED
      BY <2>1, <2>3, <3>2, <1>7 DEF Matches
  <2>. QED
    BY <2>2, <2>3
<1>10. \A g \in ToSet(grants) : decided'[g] = "approve_always" /\ g # r
  <2> TAKE g \in ToSet(grants)
  <2>1. g \in Requests /\ decided[g] = "approve_always"
    BY <1>1, ToSetFacts
  <2>2. promise[g] # "open" /\ promise[r] = "open"
    BY <1>1, <1>2, <2>1 DEF DecidedInv, NoOrphanedRequest, PendingInv, Outcomes
  <2>. QED
    BY <2>1, <2>2, <1>7
<1>11. /\ grants' \in Seq(Requests) /\ Len(grants') <= MaxGrants
       /\ \A g \in ToSet(grants') : decided'[g] = "approve_always"
  <2>1. CASE d = "approve_always"
    <3> DEFINE t == Append(grants, r)
    <3>1. t \in Seq(Requests) /\ \A k \in DOMAIN t : t[k] = r \/ \E m \in DOMAIN grants : t[k] = grants[m]
      BY <1>1
    <3>2. MaxGrants \in Nat /\ grants' = Newest(t, MaxGrants)
      BY <1>2, <2>1, CoordinatorAssumption
    <3> HIDE DEF t
    <3>3. grants' \in Seq(Requests) /\ Len(grants') <= MaxGrants /\ ToSet(grants') \subseteq ToSet(t)
      BY <3>1, <3>2, NewestFacts
    <3>4. \A g \in ToSet(t) : g = r \/ g \in ToSet(grants)
      BY <3>1 DEF ToSet
    <3>. QED
      BY <2>1, <3>3, <3>4, <1>7, <1>10
  <2>2. CASE d # "approve_always"
    BY <2>2, <1>1, <1>2, <1>10
  <2>. QED
    BY <2>1, <2>2
<1>13. /\ \A q \in Requests : decided[q] # "none" => decided'[q] = decided[q]
       /\ r \in ToSet(rs) => decided'[r] # "none" /\ (o = "denied" <=> decided'[r] = "deny")
  <2>1. decided[r] = "none"
    BY <1>1, <1>2 DEF DecidedInv, NoOrphanedRequest, PendingInv, Outcomes
  <2>. QED
    BY <2>1, <1>7 DEF Decisions
<1> HIDE DEF rs, o
<1>12. /\ closed' \in BOOLEAN /\ begun' = begun /\ active' \subseteq active
       /\ \A q \in ToSet(pending) \ ToSet(rs) : CallOf[q] \in active'
  BY <1>1, <1>2 DEF PendingInv
<1>14. CoordinatorInv'
  BY <1>3, <1>4, <1>5, <1>6, <1>7, <1>8, <1>9, <1>11, <1>12, FinishInv
<1>15. Grown({})
  BY <1>3, <1>4, <1>5, <1>6, <1>13, FinishGrown
<1>. QED
  BY <1>14, <1>15

\* The streams that a poll of i drops.
Acked(i, after) == IF Acknowledges(i, after) THEN {i} ELSE {}

\* A poll: an acknowledged, idle stream is dropped.
LEMMA SnapshotStep ==
  ASSUME CoordinatorInv, NEW i, NEW after, Snapshot(i, after)
  PROVE  CoordinatorInv' /\ Grown(Acked(i, after))
<1> DEFINE is == Acked(i, after)
<1>1. /\ promise \in [Requests -> Outcomes \union {"none", "open", "refused"}]
      /\ begun \subseteq Calls /\ active \subseteq begun
  BY DEF CoordinatorInv, TypeOK
<1>2. /\ DropStreams(is) /\ terminal' = ForgetTerminal(terminal, is)
      /\ UNCHANGED <<closed, begun, active, pending, grants, promise, authority, decided>>
  BY DEF Snapshot, Acked
<1>3. \A j \in is : Idle(j)
  BY DEF Acknowledges, Acked
<1> HIDE DEF is
<1>4. begun' \subseteq Calls /\ active' \subseteq begun' /\ active \subseteq active'
  BY <1>1, <1>2
<1>5. CoordinatorInv'
  BY <1>1, <1>2, <1>3, <1>4, DropInv
<1>6. Grown(is)
  BY <1>2, DropGrown
<1>. QED
  BY <1>5, <1>6 DEF is

\* Time passes for an idle stream.
LEMMA GraceStep == ASSUME CoordinatorInv, NEW i \in Interactions, GraceElapses(i) PROVE CoordinatorInv'
<1> USE DEF CoordinatorInv
<1>1. /\ streams[i] # <<>> /\ stale' = stale \union {i}
      /\ UNCHANGED <<closed, begun, active, pending, terminal, grants, streams, order,
                     promise, authority, decided>>
  BY DEF GraceElapses
<1>2. i \in ToSet(order)
  BY <1>1 DEF TypeOK
<1>3. TypeOK'
  BY <1>1, <1>2 DEF TypeOK
<1>4. (PendingInv /\ DecidedInv /\ NoOrphanedRequest /\ ReviewedOnly /\ StreamTellsTheTruth /\ BacklogBounded)'
  BY <1>1 DEF PendingInv, DecidedInv, NoOrphanedRequest, ReviewedOnly,
              StreamTellsTheTruth, BacklogBounded, PendingCount, Retained, Places
<1>. QED
  BY <1>3, <1>4

\* Every step of the coordinator keeps the invariant.
LEMMA CoordinatorStep == CoordinatorInv /\ [CoordinatorNext]_coordinator => CoordinatorInv'
<1> SUFFICES ASSUME CoordinatorInv, [CoordinatorNext]_coordinator PROVE CoordinatorInv'
  OBVIOUS
<1>1. CASE \E c \in Calls : BeginCompletion(c)
  BY <1>1, BeginStep
<1>2. CASE \E c \in Calls, o \in {"cancelled", "aborted"} : EndCompletion(c, o)
  BY <1>2, EndStep
<1>3. CASE \E r \in Requests, e \in {"none", "expired", "aborted"} : Request(r, e)
  BY <1>3, RequestStep
<1>4. CASE \E r \in Requests : RequestInactive(r) \/ RequestUnobserved(r)
  BY <1>4, RefusedStep
<1>5. CASE \E r \in Requests, o \in {"expired", "aborted"} : ProviderAbort(r, o)
  BY <1>5, AbortStep
<1>6. CASE \E r \in Requests, d \in Decisions : Decide(r, d)
  BY <1>6, DecideStep
<1>7. CASE \E i \in Interactions : \E after \in 0 .. MaxStream : Snapshot(i, after)
  BY <1>7, SnapshotStep
<1>8. CASE \E i \in Interactions : GraceElapses(i)
  BY <1>8, GraceStep
<1>9. CASE CloseSession
  BY <1>9, CloseStep
<1>10. CASE UNCHANGED coordinator
  BY <1>10 DEF coordinator, CoordinatorInv, TypeOK, PendingInv, DecidedInv, NoOrphanedRequest,
       ReviewedOnly, StreamTellsTheTruth, BacklogBounded, PendingCount, Retained, Places
<1>. QED
  BY <1>1, <1>2, <1>3, <1>4, <1>5, <1>6, <1>7, <1>8, <1>9, <1>10 DEF CoordinatorNext

\* The coordinator keeps its inductive invariant.
THEOREM CoordinatorInvariant == CoordinatorSpec => []CoordinatorInv
BY CoordinatorInit, CoordinatorStep, PTL DEF CoordinatorSpec

\* Every field of HarnessApprovalCoordinator keeps its type, and tombstones and grants
\* their bounds.
THEOREM CoordinatorTypeCorrect == CoordinatorSpec => []TypeOK
<1>1. CoordinatorInv => TypeOK
  BY DEF CoordinatorInv
<1>. QED
  BY <1>1, CoordinatorInvariant, PTL

\* NoOrphanedRequest: no provider waits on a request whose completion ended or whose
\* session closed, and a request it waits on is one a decision can still reach.
THEOREM NothingOrphaned == CoordinatorSpec => []NoOrphanedRequest
<1>1. CoordinatorInv => NoOrphanedRequest
  BY DEF CoordinatorInv
<1>. QED
  BY <1>1, CoordinatorInvariant, PTL

\* BacklogBounded: the bounds on a stream and on the session always leave room for the
\* terminal events that are owed.
THEOREM BacklogWithinBounds == CoordinatorSpec => []BacklogBounded
<1>1. CoordinatorInv => BacklogBounded
  BY DEF CoordinatorInv
<1>. QED
  BY <1>1, CoordinatorInvariant, PTL

\* ReviewedOnly: no request is approved but by a user's decision on it, or on one with
\* its scope for the whole session.
THEOREM OnlyReviewedProceed == CoordinatorSpec => []ReviewedOnly
<1>1. CoordinatorInv => ReviewedOnly
  BY DEF CoordinatorInv
<1>. QED
  BY <1>1, CoordinatorInvariant, PTL

\* StreamTellsTheTruth: every stream, from its start, has each pending request and no end
\* but after its request and as the provider saw it.
THEOREM StreamsAreTrue == CoordinatorSpec => []StreamTellsTheTruth
<1>1. CoordinatorInv => StreamTellsTheTruth
  BY DEF CoordinatorInv
<1>. QED
  BY <1>1, CoordinatorInvariant, PTL

(***************************************************************************)
(* The composition: every step of it is a step of the coordinator, or none *)
(* of the coordinator's state moves.                                       *)
(***************************************************************************)
\* A poll with any cursor is a poll of the coordinator, or drops nothing.
LEMMA SnapshotNext ==
  ASSUME CoordinatorInv, NEW i \in Interactions, NEW after, Snapshot(i, after)
  PROVE  [CoordinatorNext]_coordinator
<1>1. /\ TypeOK /\ BacklogBounded /\ streams \in [Interactions -> Seq(EventSet)]
      /\ order \in Seq(Interactions) /\ terminal \in Seq(Requests)
  BY DEF CoordinatorInv, TypeOK
<1>2. Len(streams[i]) \in Nat /\ Len(streams[i]) <= MaxStream /\ MaxStream \in Nat
  BY <1>1, WithoutFacts, CoordinatorAssumption
<1>3. CASE Acknowledges(i, after)
  <2>1. after \in 0 .. MaxStream
    BY <1>2, <1>3 DEF Acknowledges
  <2>. QED
    BY <2>1 DEF CoordinatorNext
<1>4. CASE ~Acknowledges(i, after)
  <2>1. /\ DropStreams({}) /\ terminal' = ForgetTerminal(terminal, {})
        /\ UNCHANGED <<closed, begun, active, pending, grants, promise, authority, decided>>
    BY <1>4 DEF Snapshot
  <2>2. streams' = streams
    BY <2>1, <1>1 DEF DropStreams, Without
  <2>3. order' = order
    <3>1. order' = Keep(order, Interactions \ {}) /\ ToSet(order) \subseteq Interactions \ {}
      BY <2>1, <1>1, ToSetFacts DEF DropStreams
    <3>. QED
      BY <3>1, <1>1, KeepWhole
  <2>4. terminal' = terminal
    <3> DEFINE S == {r \in Requests : IOf(r) \notin {}}
    <3>1. terminal' = Keep(terminal, S) /\ ToSet(terminal) \subseteq S
      BY <2>1, <1>1, ToSetFacts DEF ForgetTerminal
    <3> HIDE DEF S
    <3>. QED
      BY <3>1, <1>1, KeepWhole
  <2>5. stale' = stale
    BY <2>1 DEF DropStreams
  <2>. QED
    BY <2>1, <2>2, <2>3, <2>4, <2>5 DEF coordinator
<1>. QED
  BY <1>3, <1>4

\* Each step of the composition as the coordinator sees it.
LEMMA CoordinatorSees ==
  ASSUME CoordinatorInv, [ObservationNext]_allVars
  PROVE  [CoordinatorNext]_coordinator
<1>1. ASSUME NEW c \in Calls, \/ StartRun(c) \/ Begin(c) \/ TurnEnds(c) \/ AnswerCut(c) \/ Cancel(c)
      PROVE  [CoordinatorNext]_coordinator
  <2>1. UNCHANGED coordinator \/ BeginCompletion(c)
          \/ EndCompletion(c, "aborted") \/ EndCompletion(c, "cancelled")
    BY <1>1 DEF StartRun, Begin, TurnEnds, AnswerCut, Cancel
  <2>. QED
    BY <2>1 DEF CoordinatorNext
<1>2. ASSUME NEW c \in Calls, FailRun(c) PROVE [CoordinatorNext]_coordinator
  <2>1. UNCHANGED coordinator \/ EndCompletion(c, "cancelled")
    BY <1>2 DEF FailRun
  <2>. QED
    BY <2>1 DEF CoordinatorNext
<1>3. ASSUME NEW c \in Calls, Poll(c) \/ PollLost(c) \/ FinalPoll(c) \/ FinalPollLost(c) \/ AckPoll(c)
      PROVE  [CoordinatorNext]_coordinator
  <2>1. InteractionOf[c] \in Interactions
    BY CoordinatorAssumption
  <2>2. Snapshot(InteractionOf[c], observer[c].cursor) \/ FailRun(c)
    BY <1>3 DEF Poll, PollLost, FinalPoll, FinalPollLost, AckPoll
  <2>. QED
    BY <2>1, <2>2, <1>2, SnapshotNext
<1>4. ASSUME NEW c \in Calls, \/ PersistForeign(c) \/ PersistRequest(c) \/ PersistResolution(c)
                              \/ ReadApproval(c) \/ CheckDecision(c)
      PROVE  [CoordinatorNext]_coordinator
  <2>1. UNCHANGED coordinator \/ FailRun(c)
    BY <1>4 DEF PersistForeign, PersistRequest, PersistResolution, ReadApproval, CheckDecision, Resolves
  <2>. QED
    BY <2>1, <1>2
<1>5. ASSUME NEW r \in Requests, NEW d \in Decisions,
             SubmitDecision(r, d) \/ HostDecides(r, d) \/ LateDecision(r, d)
      PROVE  [CoordinatorNext]_coordinator
  <2>1. UNCHANGED coordinator \/ Decide(r, d)
    BY <1>5 DEF SubmitDecision, HostDecides, LateDecision
  <2>. QED
    BY <2>1 DEF CoordinatorNext
<1>6. ASSUME NEW r \in Requests, HostRefused(r) \/ LostAnswer(r) \/ RecordAnswer(r)
      PROVE  UNCHANGED coordinator
  BY <1>6 DEF HostRefused, LostAnswer, RecordAnswer
<1>7. CASE Provider
  BY <1>7 DEF Provider, CoordinatorNext
<1>8. ASSUME NEW i \in Interactions, Stop(i) \/ Time(i) PROVE [CoordinatorNext]_coordinator
  <2>1. UNCHANGED coordinator \/ GraceElapses(i)
    BY <1>8 DEF Stop, Time
  <2>. QED
    BY <2>1 DEF CoordinatorNext
<1>9. CASE CloseSession /\ UNCHANGED product
  BY <1>9 DEF CoordinatorNext
<1>10. CASE UNCHANGED allVars
  BY <1>10 DEF allVars
<1>. QED
  BY <1>1, <1>3, <1>4, <1>5, <1>6, <1>7, <1>8, <1>9, <1>10 DEF ObservationNext

\* The coordinator's invariant in the composition.
THEOREM CoordinatorHolds == ObservationSpec => []CoordinatorInv
<1>1. ObservationInit => CoordinatorInv
  BY CoordinatorInit DEF ObservationInit
<1>2. CoordinatorInv /\ [ObservationNext]_allVars => CoordinatorInv'
  BY CoordinatorSees, CoordinatorStep
<1>. QED
  BY <1>1, <1>2, PTL DEF ObservationSpec

(***************************************************************************)
(* What an observer reads.                                                 *)
(***************************************************************************)
RecStates == Outcomes \union {"none", "open"}
RowStates == {"idle", "running", "waiting", "accepted", "stopped", "failed"}

\* Recorded outcomes are final, and nothing recorded is forgotten.
Advances(rc, rc2) ==
  \A r \in Requests : /\ rc[r] \in Outcomes => rc2[r] = rc[r]
                      /\ rc[r] # "none" => rc2[r] # "none"

\* The events after a cursor.
LEMMA AfterFacts ==
  ASSUME NEW s \in Seq(EventSet), NEW m \in Nat
  PROVE  LET es == SubSeq(s, m + 1, Len(s)) IN
           /\ es \in Seq(EventSet)
           /\ \A k \in DOMAIN es : k + m \in DOMAIN s /\ es[k] = s[k + m]
           /\ \A k \in DOMAIN s : k > m => k - m \in DOMAIN es /\ es[k - m] = s[k]
           /\ (es = <<>>) => Len(s) <= m
<1> DEFINE i == m + 1
           j == Len(s)
           es == SubSeq(s, i, j)
<1>1. i \in Int /\ j \in Nat /\ DOMAIN s = 1 .. j /\ i = m + 1
  OBVIOUS
<1>2. \A n \in i .. j : s[n] \in EventSet
  BY <1>1
<1> HIDE DEF i, j
<1>3. /\ es \in Seq(EventSet) /\ Len(es) = IF i <= j THEN j - i + 1 ELSE 0
      /\ \A n \in 1 .. j - i + 1 : es[n] = s[i + n - 1]
  <2> HIDE DEF es
  <2>. QED
    BY <1>1, <1>2, SubSeqProperties DEF es
<1> HIDE DEF es
<1>4. DOMAIN es = 1 .. Len(es) /\ Len(es) \in Nat
  BY <1>3
<1>5. ASSUME NEW k \in DOMAIN es PROVE k + m \in DOMAIN s /\ es[k] = s[k + m]
  <2> DEFINE l == Len(es)
  <2>1. k \in 1 .. l /\ l \in Nat /\ (l = IF i <= j THEN j - i + 1 ELSE 0)
    BY <1>3, <1>4
  <2> HIDE DEF l
  <2>2. k \in 1 .. j - i + 1 /\ i + k - 1 = k + m /\ k + m \in 1 .. j
    BY <2>1, <1>1
  <2>3. es[k] = s[i + k - 1]
    BY <2>2, <1>3
  <2>. QED
    BY <2>2, <2>3, <1>1
<1>6. ASSUME NEW k \in DOMAIN s, k > m PROVE k - m \in DOMAIN es /\ es[k - m] = s[k]
  <2>1. k - m \in 1 .. j - i + 1 /\ i + (k - m) - 1 = k /\ i <= j
    BY <1>1, <1>6
  <2>2. k - m \in DOMAIN es
    BY <2>1, <1>3, <1>4
  <2>3. es[k - m] = s[i + (k - m) - 1]
    BY <2>1, <1>3
  <2>. QED
    BY <2>1, <2>2, <2>3
<1>7. ASSUME es = <<>> PROVE j <= m
  BY <1>1, <1>3, <1>7
<1>. QED
  BY <1>3, <1>5, <1>6, <1>7 DEF es, i, j

\* An item that an observer of interaction i may have to persist: of a call that began, as
\* its provider saw it, and made by a user only when the user decided so.
Sound(i, e) ==
  /\ CallOf[e.request] \in begun /\ InteractionOf[CallOf[e.request]] = i
  /\ e.type = "resolved" => e.outcome = promise[e.request]
  /\ ByUser(e, decided)

\* A snapshot has sound items only, every event past the cursor among them.
LEMMA ItemsFacts ==
  ASSUME CoordinatorInv, CallsInv, NEW i \in Interactions, NEW after \in Nat
  PROVE  LET items == Items(i, after) IN
           /\ items \in Seq(EventSet)
           /\ \A k \in DOMAIN items : Sound(i, items[k])
           /\ \A r : EndsPast(streams[i], after, r) => EndsPast(items, 0, r)
           /\ items = <<>> => Len(streams[i]) <= after
<1> DEFINE S == {r \in Requests : IOf(r) = i}
           s == streams[i]
           es == SubSeq(s, after + 1, Len(s))
           still == Keep(pending, S)
           ps == [k \in DOMAIN still |-> Requested(still[k])]
<1>1. s \in Seq(EventSet) /\ pending \in Seq(Requests) /\ active \subseteq begun
  BY DEF CoordinatorInv, TypeOK
<1>2. /\ es \in Seq(EventSet)
      /\ \A k \in DOMAIN es : k + after \in DOMAIN s /\ es[k] = s[k + after]
      /\ \A k \in DOMAIN s : k > after => k - after \in DOMAIN es /\ es[k - after] = s[k]
      /\ (es = <<>>) => Len(s) <= after
  <2> HIDE DEF s
  <2>. QED
    BY <1>1, AfterFacts
<1>3. \A k \in DOMAIN s : Sound(i, s[k])
  BY DEF CoordinatorInv, StreamTellsTheTruth, CallsInv, IOf, Sound
<1>4. still \in Seq(Requests) /\ ToSet(still) = ToSet(pending) \intersect S
  <2> HIDE DEF S
  <2>. QED
    BY <1>1, KeepSet
<1> HIDE DEF still
<1>5. \A k \in DOMAIN still : still[k] \in Requests /\ Sound(i, Requested(still[k]))
  <2> SUFFICES ASSUME NEW k \in DOMAIN still PROVE still[k] \in Requests /\ Sound(i, Requested(still[k]))
    OBVIOUS
  <2>1. still[k] \in ToSet(pending) /\ still[k] \in S
    BY <1>4 DEF ToSet
  <2>2. CallOf[still[k]] \in begun /\ InteractionOf[CallOf[still[k]]] = i
    BY <2>1, <1>1 DEF CoordinatorInv, PendingInv, IOf
  <2>. QED
    BY <2>1, <2>2, EventFacts DEF Sound, ByUser
<1>6. ps \in Seq(EventSet)
  <2>1. DOMAIN still = 1 .. Len(still) /\ Len(still) \in Nat
    BY <1>4
  <2>2. \A k \in 1 .. Len(still) : Requested(still[k]) \in EventSet
    BY <2>1, <1>5 DEF EventSet
  <2>. QED
    BY <2>1, <2>2
<1>7. \A k \in DOMAIN ps : Sound(i, ps[k])
  BY <1>5
<1>8. Items(i, after) = es \o ps
  BY DEF Items, EventsAfter, still
<1> HIDE DEF ps, es, s, S
<1> DEFINE items == es \o ps
<1>9. /\ items \in Seq(EventSet) /\ Len(items) = Len(es) + Len(ps)
      /\ Len(es) \in Nat /\ Len(ps) \in Nat
      /\ DOMAIN es = 1 .. Len(es) /\ DOMAIN ps = 1 .. Len(ps) /\ DOMAIN items = 1 .. Len(items)
      /\ \A k \in 1 .. Len(es) + Len(ps) : items[k] = IF k <= Len(es) THEN es[k] ELSE ps[k - Len(es)]
  BY <1>2, <1>6
<1> HIDE DEF items
<1>10. \A k \in DOMAIN items : Sound(i, items[k])
  <2> TAKE k \in DOMAIN items
  <2>1. CASE k <= Len(es)
    <3>1. k \in DOMAIN es /\ items[k] = es[k]
      BY <2>1, <1>9
    <3>. QED
      BY <3>1, <1>2, <1>3
  <2>2. CASE ~(k <= Len(es))
    <3>1. k - Len(es) \in DOMAIN ps /\ items[k] = ps[k - Len(es)]
      BY <2>2, <1>9
    <3>. QED
      BY <3>1, <1>7
  <2>. QED
    BY <2>1, <2>2
<1>11. ASSUME NEW r, EndsPast(s, after, r) PROVE EndsPast(items, 0, r)
  <2>1. PICK k \in DOMAIN s : k > after /\ s[k].type = "resolved" /\ s[k].request = r
    BY <1>11 DEF EndsPast
  <2>2. k - after \in DOMAIN es /\ es[k - after] = s[k]
    BY <2>1, <1>2
  <2>3. k - after \in DOMAIN items /\ items[k - after] = s[k] /\ k - after > 0
    BY <2>2, <1>9
  <2>. QED
    BY <2>1, <2>3 DEF EndsPast
<1>12. ASSUME items = <<>> PROVE Len(s) <= after
  <2>1. Len(es) = 0
    BY <1>9, <1>12
  <2>2. es = <<>>
    BY <2>1, <1>2
  <2>. QED
    BY <2>2, <1>2
<1>. QED
  BY <1>8, <1>9, <1>10, <1>11, <1>12 DEF items, s

(***************************************************************************)
(* The inductive invariant of the composition.                             *)
(***************************************************************************)
\* The product's tables and the state of its observers and routes.
ObserverSteps == Live \union {"none", "done", "failed"}

ObserverSet ==
  [pc : ObserverSteps, cursor : Nat, call : Calls \union {NoCall},
   todo : Seq(EventSet), then : {"polling", "ack"}]

ProductTypeOK ==
  /\ observer \in [Calls -> ObserverSet]
  /\ rec \in [Requests -> RecStates]
  /\ row \in [Interactions -> RowStates]
  /\ decision \in [Requests -> Decisions \union {"none"}]
  /\ route \in [Requests -> [pc : {"idle", "sent", "answered", "refused"},
                             again : BOOLEAN, sent : Decisions \union {"none"}]]
  /\ late \subseteq Requests \X Decisions

\* A decision, sent, late or made, is about a recorded request, and as long as that is
\* open it is the decision the product retains.  A first call that was not answered and
\* not lost is the only one there was.
DecisionOf(r) ==
  /\ decided[r] # "none" \/ route[r].pc # "idle" => rec[r] # "none"
  /\ route[r].pc = "answered" => decided[r] # "none"
  /\ route[r].pc = "sent" => route[r].sent \in Decisions
  /\ rec[r] = "open" =>
       /\ decided[r] # "none" => decision[r] = decided[r]
       /\ route[r].pc = "sent" => decision[r] = route[r].sent
       /\ \A d \in Decisions : <<r, d>> \in late => decision[r] = d
       /\ route[r].pc \in {"sent", "refused"} /\ ~route[r].again =>
            decided[r] = "none" /\ \A d \in Decisions : <<r, d>> \notin late

DecisionInv ==
  \A r \in Requests : DecisionOf(r) /\ (rec[r] = "none" => \A d \in Decisions : <<r, d>> \notin late)

\* One observer at a time reads an interaction.
OneReader ==
  \A c, d \in Calls :
    observer[c].pc \in Live /\ observer[d].pc \in Live /\ InteractionOf[c] = InteractionOf[d] => c = d

\* An observer that read no other attempt's events.
ReadsOwn(c) ==
  /\ observer[c].call \in {NoCall, c}
  /\ \A k \in DOMAIN observer[c].todo : CallOf[observer[c].todo[k].request] = c

\* An observer persists sound items, and looks up a decision only for the resolution by
\* the user that it is at.
TodoOf(c) ==
  LET o == observer[c]
  IN  /\ o.todo # <<>> <=> o.pc \in {"persisting", "checking"}
      /\ \A k \in DOMAIN o.todo : Sound(InteractionOf[c], o.todo[k])
      /\ o.pc = "checking" =>
           /\ o.todo[1].type = "resolved" /\ o.todo[1].by = o.todo[1].request
           /\ o.call \in {NoCall, CallOf[o.todo[1].request]}

\* How an observer stands to its call and to the stream of its interaction.
ObserverOf(c) ==
  LET o == observer[c]
      i == InteractionOf[c]
  IN  /\ o.pc = "none" => o.cursor = 0 /\ o.call = NoCall /\ o.then = "polling"
      /\ o.pc = "ack" \/ o.then = "ack" => c \in returned \union cut
      /\ o.pc = "done" => c \in returned
      /\ c \in returned => c \in begun \ active
      /\ o.pc # "none" => c \notin Unobserved
      /\ c \in begun \ Unobserved => o.pc # "none"
      /\ o.call = NoCall /\ o.todo = <<>> => o.cursor = 0
      /\ o.call = c => c \in begun
      /\ o.pc \in Live /\ ReadsOwn(c) /\ c \in active => o.cursor <= Len(streams[i])
      /\ o.pc \in Live /\ c \in begun /\ i \in stale => Len(streams[i]) <= o.cursor

\* What an observer has not recorded of its own call is ahead of it.
SeenOf(c) ==
  observer[c].pc \in Live /\ ReadsOwn(c) =>
    \A r \in Requests : CallOf[r] = c /\ promise[r] \in Outcomes =>
      \/ rec[r] = promise[r] \/ EndsPast(observer[c].todo, 0, r)
      \/ EndsPast(streams[InteractionOf[c]], observer[c].cursor, r)

DoneOf(c) ==
  observer[c].pc = "done" /\ observer[c].call \in {NoCall, c} =>
    \A r \in Requests : CallOf[r] = c /\ promise[r] \in Outcomes => rec[r] = promise[r]

Stands(c) == ObserverOf(c) /\ TodoOf(c) /\ SeenOf(c) /\ DoneOf(c)

ObservationInv ==
  /\ CoordinatorInv /\ CallsInv /\ ProductTypeOK /\ DecisionInv /\ RecordedAsApplied /\ OneReader
  /\ NoUnanswerableWait
  /\ \A c \in Calls : Stands(c)

\* The fields of an observer.
LEMMA ObserverType ==
  ASSUME ProductTypeOK, NEW c \in Calls
  PROVE  /\ observer[c].pc \in ObserverSteps /\ observer[c].cursor \in Nat
         /\ observer[c].call \in Calls \union {NoCall} /\ observer[c].todo \in Seq(EventSet)
         /\ observer[c].then \in {"polling", "ack"} /\ InteractionOf[c] \in Interactions
BY CoordinatorAssumption DEF ProductTypeOK, ObserverSet

(***************************************************************************)
(* How a step of the composition moves the coordinator.                    *)
(***************************************************************************)
\* A call begins only under an observer, and a stream is dropped only when its
\* interaction is idle and whoever still reads it read it all.
Moves(is) ==
  /\ Grown(is)
  /\ begun \subseteq begun' /\ active' \subseteq active \union (begun' \ begun)
  /\ \A c \in begun' \ begun : c \in Unobserved \/ (observer[c].pc \in Live /\ c \in active')
  /\ \A i \in is : ~InteractionActive(i)
  /\ \A i \in stale' : \A c \in active' : InteractionOf[c] # i
  /\ \A c \in Calls : observer[c].pc \in Live /\ c \in begun /\ InteractionOf[c] \in is =>
       Len(streams[InteractionOf[c]]) <= observer[c].cursor

\* Nothing of the coordinator moves.
LEMMA StillGrown ==
  ASSUME CoordinatorInv, UNCHANGED coordinator
  PROVE  Grown({}) /\ begun' = begun /\ active' \subseteq active
<1>1. /\ streams' = streams /\ stale' = stale /\ promise' = promise /\ decided' = decided
      /\ begun' = begun /\ active' = active /\ TypeOK
  BY DEF coordinator, CoordinatorInv
<1>2. \A i \in Interactions : GrownStream(i)
  BY <1>1, SameGrown
<1>3. \A r \in Requests : GrownPromise(r, {})
  BY <1>1 DEF GrownPromise
<1>. QED
  BY <1>1, <1>2, <1>3 DEF Grown

\* No call begins and no stream goes.
LEMMA EndMoves ==
  ASSUME CallsInv, Grown({}), begun' = begun, active' \subseteq active
  PROVE  Moves({})
<1>1. \A i \in stale' : \A c \in active' : InteractionOf[c] # i
  BY DEF Grown, CallsInv, InteractionActive
<1>. QED
  BY <1>1 DEF Moves

\* A request may drop stale streams, which their observers have read.
LEMMA StaleMoves ==
  ASSUME CallsInv, \A c \in Calls : ObserverOf(c),
         NEW is, is \subseteq stale, Grown(is), begun' = begun, active' = active
  PROVE  Moves(is)
<1>1. \A i \in stale' : \A c \in active' : InteractionOf[c] # i
  BY DEF Grown, CallsInv, InteractionActive
<1>2. \A i \in is : ~InteractionActive(i)
  BY DEF CallsInv
<1>3. \A c \in Calls : observer[c].pc \in Live /\ c \in begun /\ InteractionOf[c] \in is =>
        Len(streams[InteractionOf[c]]) <= observer[c].cursor
  BY DEF ObserverOf
<1>. QED
  BY <1>1, <1>2, <1>3 DEF Moves

\* The observer of an interaction polls it, and loses at most what it has read.
LEMMA PollMoves ==
  ASSUME CoordinatorInv, CallsInv, ProductTypeOK, OneReader, NEW c \in Calls,
         observer[c].pc \in Live, Snapshot(InteractionOf[c], observer[c].cursor)
  PROVE  /\ Moves(Acked(InteractionOf[c], observer[c].cursor))
         /\ promise' = promise /\ begun' = begun /\ active' = active /\ decided' = decided
<1> DEFINE i == InteractionOf[c]
           is == Acked(i, observer[c].cursor)
<1>1. /\ begun' = begun /\ active' = active /\ promise' = promise /\ decided' = decided
  BY DEF Snapshot
<1>2. Grown(is)
  BY SnapshotStep
<1>3. \A j \in stale' : \A d \in active' : InteractionOf[d] # j
  BY <1>1, <1>2 DEF Grown, CallsInv, InteractionActive
<1>4. \A j \in is : j = i /\ ~InteractionActive(j) /\ observer[c].cursor = Len(streams[i])
  BY DEF Acked, Acknowledges, Idle
<1>5. observer[c].cursor \in Nat
  BY ObserverType
<1>6. ASSUME NEW d \in Calls, observer[d].pc \in Live, InteractionOf[d] \in is
      PROVE  Len(streams[InteractionOf[d]]) <= observer[d].cursor
  <2>1. d = c
    BY <1>4, <1>6 DEF OneReader
  <2>. QED
    BY <2>1, <1>4, <1>5, <1>6
<1> HIDE DEF is
<1>7. Moves(is)
  BY <1>1, <1>2, <1>3, <1>4, <1>6 DEF Moves
<1>. QED
  BY <1>1, <1>7 DEF is

\* A call begins under its observer, whose interaction nobody else reads.
LEMMA BeginMoves ==
  ASSUME CoordinatorInv, CallsInv, OneReader, NEW c \in Calls, \A d \in Calls : ObserverOf(d),
         c \in Unobserved \/ observer[c].pc \in Live, BeginCompletion(c)
  PROVE  Moves(Reset(c)) /\ decided' = decided
<1> DEFINE i == InteractionOf[c]
<1>1. Grown(Reset(c))
  BY BeginStep
<1>2. /\ c \notin begun /\ begun' = begun \union {c} /\ decided' = decided
      /\ active' = IF c \in Unobserved THEN active ELSE active \union {c}
  BY DEF BeginCompletion
<1>3. \A j \in Reset(c) : j = i /\ c \notin Unobserved /\ ~InteractionActive(j)
  BY DEF Reset, Idle
<1>4. active' \subseteq active \union (begun' \ begun)
  BY <1>2
<1>5. \A d \in begun' \ begun : d \in Unobserved \/ (observer[d].pc \in Live /\ d \in active')
  BY <1>2
<1>6. ASSUME NEW j \in stale', NEW d \in active' PROVE InteractionOf[d] # j
  <2>1. j \in stale /\ j \notin Reset(c)
    BY <1>1, <1>6 DEF Grown
  <2>2. ~InteractionActive(j)
    BY <2>1 DEF CallsInv
  <2>3. CASE d \in active
    BY <2>2, <2>3 DEF InteractionActive
  <2>4. CASE d = c /\ c \notin Unobserved
    <3>1. ASSUME i = j PROVE FALSE
      <4>1. \A r \in ToSet(pending) : IOf(r) # j
        BY <2>2 DEF CoordinatorInv, PendingInv, InteractionActive, IOf
      <4>2. {r \in ToSet(pending) : IOf(r) = j} = {}
        BY <4>1
      <4>3. PendingCount(j) = 0
        BY <4>2, FS_EmptySet DEF PendingCount
      <4>. QED
        BY <2>1, <2>2, <2>4, <3>1, <4>3 DEF Reset, Idle
    <3>. QED
      BY <2>4, <3>1
  <2>. QED
    BY <2>3, <2>4, <1>2
<1>7. ASSUME NEW d \in Calls, observer[d].pc \in Live, d \in begun, InteractionOf[d] \in Reset(c)
      PROVE  FALSE
  <2>1. observer[c].pc \in Live /\ InteractionOf[d] = i
    BY <1>3, <1>7 DEF Live
  <2>. QED
    BY <2>1, <1>2, <1>7 DEF OneReader
<1>. QED
  BY <1>1, <1>2, <1>3, <1>4, <1>5, <1>6, <1>7 DEF Moves

(***************************************************************************)
(* What such a move keeps.                                                 *)
(***************************************************************************)
\* Events and promises stay with calls that began, and decisions with their events.
LEMMA CallsKept ==
  ASSUME CoordinatorInv, CallsInv, NEW is, Moves(is), TypeOK'
  PROVE  CallsInv'
<1>1. /\ Grown(is) /\ begun \subseteq begun' /\ active \subseteq begun
      /\ streams \in [Interactions -> Seq(EventSet)]
  BY DEF Moves, CoordinatorInv, TypeOK
<1>2. ASSUME NEW i \in Interactions, NEW k \in DOMAIN streams'[i]
      PROVE  CallOf[streams'[i][k].request] \in begun' /\ ByUser(streams'[i][k], decided')
  <2>1. CASE i \in is
    <3>1. streams'[i] = <<>>
      BY <1>1, <2>1 DEF Grown
    <3>. QED
      BY <1>2, <3>1
  <2>2. CASE i \notin is
    <3>1. GrownStream(i)
      BY <1>1, <2>2 DEF Grown
    <3>2. CASE k \in DOMAIN streams[i]
      <4> DEFINE e == streams[i][k]
      <4>1. streams'[i][k] = e
        BY <3>1, <3>2 DEF GrownStream
      <4>2. e.request \in Requests
        <5>1. e \in EventSet
          BY <1>1, <3>2
        <5>. QED
          BY <5>1, EventFacts
      <4>3. CallOf[e.request] \in begun /\ ByUser(e, decided)
        BY <3>2 DEF CallsInv
      <4>4. decided[e.request] # "none" => decided'[e.request] = decided[e.request]
        BY <1>1, <4>2 DEF Grown, GrownPromise
      <4> HIDE DEF e
      <4>5. ByUser(e, decided')
        BY <4>3, <4>4 DEF ByUser
      <4>. QED
        BY <1>1, <4>1, <4>3, <4>5
    <3>3. CASE k \notin DOMAIN streams[i]
      <4>1. CallOf[streams'[i][k].request] \in active /\ ByUser(streams'[i][k], decided')
        BY <3>1, <3>3 DEF GrownStream
      <4>. QED
        BY <1>1, <4>1
    <3>. QED
      BY <3>2, <3>3
  <2>. QED
    BY <2>1, <2>2
<1>3. \A r \in Requests : promise'[r] # "none" => CallOf[r] \in begun'
  BY <1>1 DEF Grown, GrownPromise, CallsInv
<1>4. \A i \in stale' : ~\E c \in active' : InteractionOf[c] = i
  BY DEF Moves
<1>. QED
  BY <1>2, <1>3, <1>4 DEF CallsInv, InteractionActive

\* What the database records stays what the provider saw.
LEMMA AppliedKept ==
  ASSUME RecordedAsApplied, NEW is, Grown(is),
         \A r \in Requests : rec'[r] \in Outcomes \ {"aborted"} => rec'[r] \in {rec[r], promise[r]}
  PROVE  RecordedAsApplied'
BY DEF RecordedAsApplied, Grown, GrownPromise, Outcomes

\* What was sound to persist stays so.
LEMMA SoundKept ==
  ASSUME CoordinatorInv, NEW is, Moves(is), NEW i, NEW e \in EventSet, Sound(i, e)
  PROVE  Sound(i, e)'
<1>1. Grown(is) /\ begun \subseteq begun'
  BY DEF Moves
<1>2. e.request \in Requests /\ (e.type = "resolved" => e.outcome \in Outcomes)
  BY EventFacts
<1>3. /\ promise[e.request] \in Outcomes => promise'[e.request] = promise[e.request]
      /\ decided[e.request] # "none" => decided'[e.request] = decided[e.request]
  BY <1>1, <1>2 DEF Grown, GrownPromise
<1>. QED
  BY <1>1, <1>2, <1>3 DEF Sound, ByUser

\* An observer that does nothing in a step, though its completion may return or be cut off.
Rests(c) ==
  /\ observer'[c] = observer[c]
  /\ c \in returned => c \in returned'
  /\ c \in returned' => c \in returned \/ c \in begun \ active'
  /\ c \in cut => c \in cut'

\* What a resting observer has ahead of it stays there.
LEMMA ObserverRests ==
  ASSUME ObservationInv, NEW is, Moves(is), NEW c \in Calls, Rests(c), TypeOK',
         CallsInv', Advances(rec, rec')
  PROVE  Stands(c)'
<1> DEFINE o == observer[c]
           i == InteractionOf[c]
<1>1. /\ CoordinatorInv /\ CallsInv /\ ProductTypeOK /\ ObserverOf(c) /\ TodoOf(c) /\ SeenOf(c) /\ DoneOf(c)
  BY DEF ObservationInv, Stands
<1>2. /\ Grown(is) /\ begun \subseteq begun' /\ active' \subseteq active \union (begun' \ begun)
      /\ \A d \in begun' \ begun : d \in Unobserved \/ (observer[d].pc \in Live /\ d \in active')
      /\ ~InteractionActive(i) \/ i \notin is
      /\ o.pc \in Live /\ c \in begun /\ i \in is => Len(streams[i]) <= o.cursor
  BY DEF Moves
<1>3. /\ o.pc \in ObserverSteps /\ o.cursor \in Nat /\ o.todo \in Seq(EventSet)
      /\ i \in Interactions
  BY <1>1, ObserverType
<1>4. Len(streams[i]) \in Nat /\ Len(streams'[i]) \in Nat
  <2>1. streams[i] \in Seq(EventSet) /\ streams'[i] \in Seq(EventSet)
    BY <1>1, <1>3 DEF CoordinatorInv, TypeOK
  <2>. QED
    BY <2>1
<1>5. /\ observer'[c] = o /\ (c \in returned => c \in returned') /\ (c \in cut => c \in cut')
      /\ c \in returned' => c \in returned \/ c \in begun \ active'
      /\ ReadsOwn(c)' <=> ReadsOwn(c)
  BY DEF Rests, ReadsOwn
<1>6. /\ o.pc = "none" => o.cursor = 0 /\ o.call = NoCall /\ o.then = "polling"
      /\ o.pc = "ack" \/ o.then = "ack" => c \in returned \union cut
      /\ o.pc = "done" => c \in returned
      /\ c \in returned => c \in begun \ active
      /\ o.pc # "none" => c \notin Unobserved
      /\ c \in begun \ Unobserved => o.pc # "none"
      /\ o.call = NoCall /\ o.todo = <<>> => o.cursor = 0
      /\ o.call = c => c \in begun
      /\ o.pc \in Live /\ ReadsOwn(c) /\ c \in active => o.cursor <= Len(streams[i])
      /\ o.pc \in Live /\ c \in begun /\ i \in stale => Len(streams[i]) <= o.cursor
  BY <1>1 DEF ObserverOf
<1>7. ReadsOwn(c) /\ c \notin begun => o.cursor = 0
  <2> SUFFICES ASSUME ReadsOwn(c), c \notin begun PROVE o.cursor = 0
    OBVIOUS
  <2>1. o.call = NoCall
    BY <1>6 DEF ReadsOwn
  <2>2. \A k \in DOMAIN o.todo : CallOf[o.todo[k].request] = c /\ CallOf[o.todo[k].request] \in begun
    BY <1>1 DEF ReadsOwn, TodoOf, Sound
  <2>3. o.todo = <<>>
    BY <2>2, <1>3
  <2>. QED
    BY <2>1, <2>3, <1>6
<1>8. TodoOf(c)'
  <2>1. \A k \in DOMAIN o.todo : o.todo[k] \in EventSet /\ Sound(i, o.todo[k])
    BY <1>1, <1>3 DEF TodoOf
  <2>2. ASSUME NEW e \in EventSet, Sound(i, e) PROVE Sound(i, e)'
    BY <1>1, <2>2, SoundKept
  <2>3. ASSUME NEW k \in DOMAIN o.todo PROVE Sound(i, o.todo[k])'
    <3>1. PICK e \in EventSet : e = o.todo[k] /\ Sound(i, e)
      BY <2>1
    <3>2. Sound(i, e)' /\ observer'[c].todo[k] = e
      BY <2>2, <3>1, <1>5
    <3>. QED
      BY <3>2
  <2>. QED
    BY <2>3, <1>1, <1>5 DEF TodoOf
<1> HIDE DEF o
<1>9. i \notin is => Len(streams[i]) <= Len(streams'[i])
  BY <1>2, <1>3 DEF Grown, GrownStream
<1>10. ASSUME o.pc \in Live, ReadsOwn(c), c \in active' PROVE o.cursor <= Len(streams'[i])
  <2>1. CASE c \in active
    <3>1. i \notin is
      BY <2>1, <1>2 DEF InteractionActive
    <3>. QED
      BY <2>1, <3>1, <1>3, <1>4, <1>6, <1>9, <1>10
  <2>2. CASE c \notin active
    <3>1. c \notin begun
      BY <2>2, <1>2, <1>10
    <3>. QED
      BY <3>1, <1>4, <1>7, <1>10
  <2>. QED
    BY <2>1, <2>2
<1>11. ASSUME o.pc \in Live, c \in begun', i \in stale' PROVE Len(streams'[i]) <= o.cursor
  <2>1. c \notin Unobserved
    BY <1>6, <1>11 DEF Live
  <2>2. c \notin active'
    BY <1>11 DEF Moves
  <2>3. c \in begun
    BY <2>1, <2>2, <1>2, <1>11
  <2>4. i \in stale /\ streams'[i] = streams[i]
    BY <1>2, <1>3, <1>11 DEF Grown, GrownStream
  <2>. QED
    BY <2>3, <2>4, <1>6, <1>11
<1>12. c \in begun' \ Unobserved => o.pc # "none"
  BY <1>2, <1>6 DEF o, Live
<1>13. c \in returned' => c \in begun' \ active'
  BY <1>2, <1>5, <1>6
<1>14. ObserverOf(c)'
  <2>1. /\ o.pc = "done" => c \in returned'
        /\ o.pc = "ack" \/ o.then = "ack" => c \in returned' \union cut'
        /\ o.call = c => c \in begun'
    BY <1>2, <1>5, <1>6
  <2>. QED
    BY <2>1, <1>5, <1>6, <1>10, <1>11, <1>12, <1>13 DEF ObserverOf
<1>15. ASSUME NEW r \in Requests, CallOf[r] = c, promise'[r] \in Outcomes, promise[r] \notin Outcomes,
              c \notin Unobserved
       PROVE  c \in active /\ i \notin is /\ EndsPast(streams'[i], Len(streams[i]), r)
  BY <1>2, <1>15 DEF Grown, GrownPromise, IOf
<1>16. \A r \in Requests : promise[r] \in Outcomes => promise'[r] = promise[r]
  BY <1>2 DEF Grown, GrownPromise
<1>17. \A r \in Requests : rec[r] \in Outcomes => rec'[r] = rec[r]
  BY DEF Advances
<1>18. DoneOf(c)'
  <2> SUFFICES ASSUME o.pc = "done", o.call \in {NoCall, c}, NEW r \in Requests, CallOf[r] = c,
                      promise'[r] \in Outcomes
               PROVE  rec'[r] = promise'[r]
    BY <1>5 DEF DoneOf
  <2>1. c \notin active /\ c \notin Unobserved
    BY <1>6
  <2>2. promise[r] \in Outcomes
    BY <2>1, <1>15
  <2>3. rec[r] = promise[r]
    BY <2>2, <1>1 DEF DoneOf, o
  <2>. QED
    BY <2>2, <2>3, <1>16, <1>17
<1>19. SeenOf(c)'
  <2> SUFFICES ASSUME o.pc \in Live, ReadsOwn(c), NEW r \in Requests, CallOf[r] = c,
                      promise'[r] \in Outcomes
               PROVE  \/ rec'[r] = promise'[r] \/ EndsPast(o.todo, 0, r)
                      \/ EndsPast(streams'[i], o.cursor, r)
    BY <1>5 DEF SeenOf
  <2>1. c \notin Unobserved
    BY <1>6 DEF Live
  <2>2. CASE promise[r] \notin Outcomes
    <3>1. c \in active /\ EndsPast(streams'[i], Len(streams[i]), r)
      BY <2>1, <2>2, <1>15
    <3>2. o.cursor <= Len(streams[i])
      BY <3>1, <1>6
    <3>3. PICK k \in DOMAIN streams'[i] : k > Len(streams[i]) /\ streams'[i][k].type = "resolved" /\ streams'[i][k].request = r
      BY <3>1 DEF EndsPast
    <3>4. k > o.cursor
      <4>1. k \in Int
        <5>1. streams'[i] \in Seq(EventSet)
          BY <1>3 DEF TypeOK
        <5>. QED
          BY <5>1
      <4>. QED
        BY <4>1, <3>2, <3>3, <1>3, <1>4
    <3>. QED
      BY <3>3, <3>4 DEF EndsPast
  <2>3. CASE promise[r] \in Outcomes /\ rec[r] = promise[r]
    BY <2>3, <1>16, <1>17
  <2>4. CASE promise[r] \in Outcomes /\ EndsPast(streams[i], o.cursor, r)
    <3>1. PICK k \in DOMAIN streams[i] : k > o.cursor /\ streams[i][k].type = "resolved" /\ streams[i][k].request = r
      BY <2>4 DEF EndsPast
    <3>2. k \in 1 .. Len(streams[i])
      <4>1. streams[i] \in Seq(EventSet)
        BY <1>1, <1>3 DEF CoordinatorInv, TypeOK
      <4>. QED
        BY <4>1
    <3>3. c \in begun
      <4>1. promise[r] # "none"
        BY <2>4 DEF Outcomes
      <4>. QED
        BY <4>1, <1>1 DEF CallsInv
    <3>4. i \notin is
      <4>1. ~(Len(streams[i]) <= o.cursor)
        BY <3>1, <3>2, <1>3, <1>4
      <4>. QED
        BY <4>1, <3>3, <1>2 DEF o
    <3>5. streams'[i][k] = streams[i][k] /\ Len(streams[i]) <= Len(streams'[i])
      BY <3>4, <1>2, <1>3 DEF Grown, GrownStream
    <3>6. k \in DOMAIN streams'[i]
      <4>1. streams'[i] \in Seq(EventSet)
        BY <1>3 DEF TypeOK
      <4>. QED
        BY <4>1, <3>2, <3>5, <1>4
    <3>. QED
      BY <3>1, <3>5, <3>6 DEF EndsPast
  <2>5. promise[r] \in Outcomes =>
          rec[r] = promise[r] \/ EndsPast(o.todo, 0, r) \/ EndsPast(streams[i], o.cursor, r)
    BY <1>1 DEF SeenOf, o
  <2>. QED
    BY <2>2, <2>3, <2>4, <2>5
<1>. QED
  BY <1>8, <1>14, <1>18, <1>19 DEF Stands

\* A step of the composition in which all observers but those of X rest.
LEMMA Composes ==
  ASSUME ObservationInv, CoordinatorInv', NEW is, Moves(is), Advances(rec, rec'),
         \A r \in Requests : rec'[r] \in Outcomes \ {"aborted"} => rec'[r] \in {rec[r], promise[r]},
         ProductTypeOK', DecisionInv', OneReader', NoUnanswerableWait',
         NEW X, \A c \in Calls \ X : Rests(c),
         CallsInv' => \A c \in Calls \intersect X : Stands(c)'
  PROVE  ObservationInv'
<1>1. CoordinatorInv /\ CallsInv /\ RecordedAsApplied /\ TypeOK'
  BY DEF ObservationInv, CoordinatorInv
<1>2. CallsInv'
  BY <1>1, CallsKept
<1>3. RecordedAsApplied'
  BY <1>1, AppliedKept DEF Moves
<1>4. \A c \in Calls : Stands(c)'
  <2> TAKE c \in Calls
  <2>1. CASE c \in X
    BY <2>1, <1>2
  <2>2. CASE c \notin X
    BY <2>2, <1>1, <1>2, ObserverRests
  <2>. QED
    BY <2>1, <2>2
<1>. QED
  BY <1>2, <1>3, <1>4 DEF ObservationInv

\* Steps that leave the product's state alone but for a completion that returns or is cut
\* off, and make no decision.
LEMMA HostOnly ==
  ASSUME ObservationInv, CoordinatorInv', NEW is, Moves(is), decided' = decided,
         UNCHANGED <<observer, rec, row, decision, route, late>>, cut \subseteq cut',
         returned' = returned \/ \E c \in begun \ active' : returned' = returned \union {c}
  PROVE  ObservationInv'
<1>1. /\ observer' = observer /\ rec' = rec /\ row' = row /\ decision' = decision
      /\ route' = route /\ late' = late
  OBVIOUS
<1>2. Advances(rec, rec')
  BY <1>1 DEF Advances
<1>3. ProductTypeOK' /\ DecisionInv' /\ OneReader' /\ NoUnanswerableWait'
  BY <1>1 DEF ObservationInv, ProductTypeOK, DecisionInv, DecisionOf, OneReader, NoUnanswerableWait,
              OpenRecords
<1> DEFINE X == {}
<1>4. /\ \A c \in Calls \ X : Rests(c)
      /\ \A c \in Calls \intersect X : Stands(c)'
  BY <1>1 DEF Rests
<1>5. \A r \in Requests : rec'[r] \in Outcomes \ {"aborted"} => rec'[r] \in {rec[r], promise[r]}
  BY <1>1
<1> HIDE DEF X
<1>. QED
  BY <1>2, <1>3, <1>4, <1>5, Composes

\* A call begins.
LEMMA BeginKeeps ==
  ASSUME ObservationInv, NEW c \in Calls, Begin(c) PROVE ObservationInv'
<1>1. BeginCompletion(c) /\ UNCHANGED product /\ (c \in Unobserved \/ observer[c].pc \in Live)
  BY DEF Begin
<1>2. CoordinatorInv'
  BY <1>1, BeginStep DEF ObservationInv
<1>3. Moves(Reset(c)) /\ decided' = decided
  BY <1>1, BeginMoves DEF ObservationInv, Stands
<1>. QED
  BY <1>1, <1>2, <1>3, HostOnly DEF product, records, routes, runs

\* A stop, a provider or the closing session ends requests, or a provider asks.
LEMMA CancelKeeps ==
  ASSUME ObservationInv, NEW c \in Calls, Cancel(c) PROVE ObservationInv'
<1>1. EndCompletion(c, "cancelled") /\ UNCHANGED product /\ CoordinatorInv /\ CallsInv
  BY DEF Cancel, ObservationInv
<1>2. CoordinatorInv' /\ Grown({})
  BY <1>1, EndStep
<1>3. begun' = begun /\ active' \subseteq active /\ decided' = decided
  BY <1>1 DEF EndCompletion
<1>4. Moves({})
  BY <1>1, <1>2, <1>3, EndMoves
<1>. QED
  BY <1>1, <1>2, <1>3, <1>4, HostOnly DEF product, records, routes, runs

\* A close of the session keeps what observers rely on.
LEMMA CloseKeeps ==
  ASSUME ObservationInv, CloseSession, UNCHANGED product PROVE ObservationInv'
<1>1. CoordinatorInv /\ CallsInv
  BY DEF ObservationInv
<1>2. CoordinatorInv' /\ Grown({})
  BY <1>1, CloseStep
<1>3. begun' = begun /\ active' \subseteq active /\ decided' = decided
  BY DEF CloseSession
<1>4. Moves({})
  BY <1>1, <1>2, <1>3, EndMoves
<1>. QED
  BY <1>2, <1>3, <1>4, HostOnly DEF product, records, routes, runs

\* A step of a provider, its turn ending included, keeps what observers rely on.
LEMMA ProviderKeeps ==
  ASSUME ObservationInv, Provider PROVE ObservationInv'
<1>1. UNCHANGED product /\ CoordinatorInv /\ CallsInv /\ \A c \in Calls : ObserverOf(c)
  BY DEF Provider, ObservationInv, Stands
<1>2. ASSUME NEW r \in Requests, NEW e \in {"none", "expired", "aborted"}, Request(r, e)
      PROVE  ObservationInv'
  <2>1. CoordinatorInv'
    BY <1>1, <1>2, RequestStep
  <2>2. PICK is : is \subseteq stale /\ Grown(is)
    BY <1>1, <1>2, RequestStep
  <2>3. begun' = begun /\ active' = active /\ decided' = decided
    BY <1>2 DEF Request, Refuse, Store
  <2>4. Moves(is)
    BY <1>1, <2>2, <2>3, StaleMoves
  <2>. QED
    BY <1>1, <2>1, <2>3, <2>4, HostOnly DEF product, records, routes, runs
<1>3. ASSUME NEW r \in Requests, RequestInactive(r) \/ RequestUnobserved(r)
      PROVE  ObservationInv'
  <2>1. CoordinatorInv' /\ Grown({})
    BY <1>1, <1>3, RefusedStep
  <2>2. begun' = begun /\ active' = active /\ decided' = decided
    BY <1>3 DEF RequestInactive, RequestUnobserved
  <2>3. Moves({})
    BY <1>1, <2>1, <2>2, EndMoves
  <2>. QED
    BY <1>1, <2>1, <2>2, <2>3, HostOnly DEF product, records, routes, runs
<1>4. ASSUME NEW r \in Requests, NEW o \in {"expired", "aborted"}, ProviderAbort(r, o)
      PROVE  ObservationInv'
  <2>1. CoordinatorInv' /\ Grown({})
    BY <1>1, <1>4, AbortStep
  <2>2. begun' = begun /\ active' = active /\ decided' = decided
    BY <1>4 DEF ProviderAbort
  <2>3. Moves({})
    BY <1>1, <2>1, <2>2, EndMoves
  <2>. QED
    BY <1>1, <2>1, <2>2, <2>3, HostOnly DEF product, records, routes, runs
<1>. QED
  BY <1>2, <1>3, <1>4 DEF Provider

\* A stream becomes stale only when whoever reads it read it all.
LEMMA TimeKeeps ==
  ASSUME ObservationInv, NEW i \in Interactions, Time(i) PROVE ObservationInv'
<1>1. /\ GraceElapses(i) /\ UNCHANGED product
      /\ \A c \in Calls : InteractionOf[c] = i /\ observer[c].pc \in Live => observer[c].cursor = Len(streams[i])
  BY DEF Time
<1>2. /\ Idle(i) /\ stale' = stale \union {i}
      /\ UNCHANGED <<closed, begun, active, pending, terminal, grants, streams, order,
                     promise, authority, decided>>
  BY <1>1 DEF GraceElapses
<1>3. /\ observer' = observer /\ returned' = returned /\ cut' = cut /\ rec' = rec /\ row' = row
      /\ decision' = decision /\ route' = route /\ late' = late
  BY <1>1 DEF product, records, routes, runs
<1>4. CoordinatorInv'
  BY <1>1, GraceStep DEF ObservationInv
<1>5. CallsInv'
  BY <1>2 DEF ObservationInv, CallsInv, Idle, InteractionActive
<1>6. (ProductTypeOK /\ DecisionInv /\ OneReader /\ RecordedAsApplied /\ NoUnanswerableWait)'
  BY <1>2, <1>3 DEF ObservationInv, ProductTypeOK, DecisionInv, DecisionOf, OneReader, RecordedAsApplied,
                    NoUnanswerableWait, OpenRecords
<1>7. ASSUME NEW c \in Calls PROVE ObserverOf(c)'
  <2>1. ObserverOf(c) /\ InteractionOf[c] \in Interactions /\ observer[c].cursor \in Nat
    BY ObserverType DEF ObservationInv, Stands
  <2>2. Len(streams[InteractionOf[c]]) \in Nat
    <3>1. streams[InteractionOf[c]] \in Seq(EventSet)
      BY <2>1 DEF ObservationInv, CoordinatorInv, TypeOK
    <3>. QED
      BY <3>1
  <2>3. observer[c].pc \in Live /\ c \in begun /\ InteractionOf[c] \in stale' =>
          Len(streams[InteractionOf[c]]) <= observer[c].cursor
    BY <1>1, <1>2, <2>1, <2>2 DEF ObserverOf
  <2>. QED
    BY <2>1, <2>3, <1>2, <1>3 DEF ObserverOf, ReadsOwn
<1>8. \A c \in Calls : TodoOf(c)' /\ SeenOf(c)' /\ DoneOf(c)'
  BY <1>2, <1>3 DEF ObservationInv, Stands, TodoOf, Sound, SeenOf, DoneOf, ReadsOwn
<1>. QED
  BY <1>4, <1>5, <1>6, <1>7, <1>8 DEF ObservationInv, Stands

\* A turn ends and its answer returns to the product.
LEMMA TurnKeeps ==
  ASSUME ObservationInv, NEW c \in Calls, TurnEnds(c) PROVE ObservationInv'
<1>1. /\ c \in begun /\ returned' = returned \union {c}
      /\ UNCHANGED <<observer, rec, row, decision, route, late, cut>>
      /\ CoordinatorInv /\ CallsInv
  BY DEF TurnEnds, ObservationInv, records, routes
<1>2. /\ CoordinatorInv' /\ Grown({}) /\ begun' = begun /\ active' \subseteq active \ {c} /\ decided' = decided
  <2>1. CASE EndCompletion(c, "aborted")
    BY <2>1, <1>1, EndStep DEF EndCompletion
  <2>2. CASE c \notin active /\ UNCHANGED coordinator
    <3>1. Grown({}) /\ begun' = begun /\ active' \subseteq active /\ decided' = decided
      BY <2>2, <1>1, StillGrown DEF coordinator
    <3>2. CoordinatorInv'
      BY <2>2, <1>1, CoordinatorStep
    <3>. QED
      BY <2>2, <3>1, <3>2
  <2>. QED
    BY <2>1, <2>2 DEF TurnEnds
<1>3. Moves({})
  BY <1>1, <1>2, EndMoves
<1>. QED
  BY <1>1, <1>2, <1>3, HostOnly

\* The completion's answer is lost, or a stop is requested: nothing else moves.
LEMMA CutKeeps ==
  ASSUME ObservationInv, (\E c \in Calls : AnswerCut(c)) \/ (\E i \in Interactions : Stop(i))
  PROVE  ObservationInv'
<1>1. /\ UNCHANGED coordinator /\ UNCHANGED <<observer, returned, rec, row, decision, route, late>>
      /\ cut \subseteq cut' /\ CoordinatorInv /\ CallsInv
  BY DEF AnswerCut, Stop, ObservationInv, records, routes
<1>2. CoordinatorInv' /\ Moves({}) /\ decided' = decided
  BY <1>1, StillGrown, EndMoves, CoordinatorStep DEF coordinator
<1>. QED
  BY <1>1, <1>2, HostOnly

\* A run starts when no other attempt of its interaction is read, so none waits.
LEMMA StartKeeps ==
  ASSUME ObservationInv, NEW c \in Calls, StartRun(c) PROVE ObservationInv'
<1> DEFINE i == InteractionOf[c]
           o == observer'[c]
<1>1. /\ c \notin Unobserved /\ observer[c].pc = "none"
      /\ observer' = [observer EXCEPT ![c].pc = "polling"] /\ row' = [row EXCEPT ![i] = "running"]
      /\ \A d \in Calls : InteractionOf[d] = i => observer[d].pc \notin Live
      /\ UNCHANGED coordinator
      /\ UNCHANGED <<returned, cut, rec, decision, route, late>>
  BY DEF StartRun, routes
<1>2. /\ CoordinatorInv /\ CallsInv /\ ProductTypeOK /\ DecisionInv /\ OneReader
      /\ ObserverOf(c) /\ TodoOf(c) /\ NoUnanswerableWait
      /\ streams' = streams /\ stale' = stale /\ begun' = begun /\ active' = active
      /\ promise' = promise /\ decided' = decided
  BY <1>1 DEF ObservationInv, Stands, coordinator
<1>3. CoordinatorInv' /\ Moves({})
  BY <1>1, <1>2, StillGrown, EndMoves, CoordinatorStep
<1>4. observer[c].todo = <<>> /\ observer[c].cursor = 0 /\ observer[c].call = NoCall
      /\ observer[c].then = "polling" /\ c \notin begun
  BY <1>1, <1>2 DEF ObserverOf, TodoOf
<1>5. /\ o.pc = "polling" /\ o.todo = <<>> /\ o.cursor = 0 /\ o.call = NoCall /\ o.then = "polling"
      /\ observer' \in [Calls -> ObserverSet]
      /\ \A d \in Calls : d # c => observer'[d] = observer[d]
  <2>1. observer \in [Calls -> ObserverSet] /\ observer[c] \in ObserverSet
    BY <1>2 DEF ProductTypeOK
  <2>2. [observer[c] EXCEPT !.pc = "polling"] \in ObserverSet
    BY <2>1 DEF ObserverSet, ObserverSteps, Live
  <2>3. observer' = [observer EXCEPT ![c] = [observer[c] EXCEPT !.pc = "polling"]]
    BY <1>1
  <2>4. [observer[c] EXCEPT !.pc = "polling"].pc = "polling"
    BY <2>1 DEF ObserverSet
  <2>5. LET w == [observer[c] EXCEPT !.pc = "polling"] IN
          w.todo = observer[c].todo /\ w.cursor = observer[c].cursor
            /\ w.call = observer[c].call /\ w.then = observer[c].then
    BY <2>1 DEF ObserverSet
  <2>. QED
    BY <1>4, <2>1, <2>2, <2>3, <2>4, <2>5
<1>6. i \in Interactions /\ NoCall # c
  BY CoordinatorAssumption, ObservationAssumption
<1>7. ProductTypeOK'
  BY <1>1, <1>2, <1>5, <1>6 DEF ProductTypeOK, RowStates
<1>8. DecisionInv'
  BY <1>1, <1>2 DEF DecisionInv, DecisionOf
<1> HIDE DEF o
<1>9. OneReader'
  BY <1>1, <1>2, <1>5 DEF OneReader
<1>10. NoUnanswerableWait'
  <2>1. OpenRecords(rec, i) = {} /\ \A j \in Interactions : OpenRecords(rec', j) = OpenRecords(rec, j)
    BY <1>1, <1>2, <1>6 DEF NoUnanswerableWait, OpenRecords
  <2>2. \A j \in Interactions : row'[j] = "waiting" => row[j] = "waiting"
    BY <1>1, <1>2, <1>6 DEF ProductTypeOK
  <2>3. \A j \in Interactions : OpenRecords(rec, j) # {} =>
          \E d \in Calls : InteractionOf[d] = j /\ observer'[d].pc \in Live
    BY <1>1, <1>2, <1>5 DEF NoUnanswerableWait, Live
  <2>. QED
    BY <1>2, <2>1, <2>2, <2>3 DEF NoUnanswerableWait
<1>11. Len(streams[i]) \in Nat
  <2>1. streams[i] \in Seq(EventSet)
    BY <1>2, <1>6 DEF CoordinatorInv, TypeOK
  <2>. QED
    BY <2>1
<1>12. ObserverOf(c)' /\ TodoOf(c)'
  BY <1>1, <1>2, <1>4, <1>5, <1>6, <1>11 DEF o, ObserverOf, TodoOf, ReadsOwn
<1>13. SeenOf(c)' /\ DoneOf(c)'
  <2>1. \A r \in Requests : CallOf[r] = c => promise[r] \notin Outcomes
    BY <1>2, <1>4 DEF CallsInv, Outcomes
  <2>. QED
    BY <2>1, <1>2 DEF SeenOf, DoneOf
<1>14. Advances(rec, rec')
  BY <1>1 DEF Advances
<1> DEFINE X == {c}
<1>15. \A d \in Calls \ X : Rests(d)
  BY <1>1, <1>5 DEF Rests
<1>16. \A d \in Calls \intersect X : Stands(d)'
  BY <1>12, <1>13 DEF Stands
<1> HIDE DEF X
<1>17. \A r \in Requests : rec'[r] \in Outcomes \ {"aborted"} => rec'[r] \in {rec[r], promise[r]}
  BY <1>1
<1>. QED
  BY <1>3, <1>7, <1>8, <1>9, <1>10, <1>14, <1>15, <1>16, <1>17, Composes

(***************************************************************************)
(* The decision route.                                                     *)
(***************************************************************************)
\* A step that is about the decision on one request.
LEMMA DecisionElse ==
  ASSUME DecisionInv, NEW r \in Requests, DecisionOf(r)',
         rec'[r] = "none" => \A d \in Decisions : <<r, d>> \notin late',
         \A q \in Requests : q # r =>
           /\ rec'[q] = rec[q] /\ decision'[q] = decision[q] /\ route'[q] = route[q] /\ decided'[q] = decided[q]
           /\ \A d \in Decisions : <<q, d>> \in late' => <<q, d>> \in late
  PROVE  DecisionInv'
<1> SUFFICES ASSUME NEW q \in Requests, q # r
             PROVE  DecisionOf(q)' /\ (rec'[q] = "none" => \A d \in Decisions : <<q, d>> \notin late')
  BY DEF DecisionInv
<1>1. DecisionOf(q) /\ (rec[q] = "none" => \A d \in Decisions : <<q, d>> \notin late)
  BY DEF DecisionInv
<1>2. /\ rec'[q] = rec[q] /\ decision'[q] = decision[q] /\ route'[q] = route[q] /\ decided'[q] = decided[q]
      /\ \A d \in Decisions : <<q, d>> \in late' => <<q, d>> \in late
  OBVIOUS
<1>. QED
  BY <1>1, <1>2 DEF DecisionOf

\* Records move forwards, and a decision is released only when its outcome is recorded.
LEMMA DecisionAdvances ==
  ASSUME DecisionInv, rec \in [Requests -> RecStates], Advances(rec, rec'),
         UNCHANGED <<route, late, decided>>,
         \A r \in Requests : rec'[r] = "open" => decision'[r] = decision[r]
  PROVE  DecisionInv'
<1> SUFFICES ASSUME NEW r \in Requests
             PROVE  DecisionOf(r)' /\ (rec'[r] = "none" => \A d \in Decisions : <<r, d>> \notin late')
  BY DEF DecisionInv
<1>1. DecisionOf(r) /\ (rec[r] = "none" => \A d \in Decisions : <<r, d>> \notin late)
  BY DEF DecisionInv
<1>2. /\ rec[r] # "none" => rec'[r] # "none"
      /\ rec'[r] = "open" => rec[r] \in {"none", "open"} /\ decision'[r] = decision[r]
  BY DEF Advances, RecStates, Outcomes
<1>3. route' = route /\ late' = late /\ decided' = decided
  OBVIOUS
<1>4. DecisionOf(r)'
  <2>1. CASE rec[r] = "none"
    <3>1. decided[r] = "none" /\ route[r].pc = "idle"
      BY <2>1, <1>1 DEF DecisionOf
    <3>. QED
      BY <2>1, <3>1, <1>1, <1>3 DEF DecisionOf
  <2>2. CASE rec[r] # "none"
    BY <2>2, <1>1, <1>2, <1>3 DEF DecisionOf
  <2>. QED
    BY <2>1, <2>2
<1>. QED
  BY <1>1, <1>2, <1>3, <1>4

\* A recorded resolution moves its request forwards, and leaves its interaction waiting
\* only when another request of it is open.
LEMMA ResolutionFacts ==
  ASSUME NoUnanswerableWait, ProductTypeOK, NEW r \in Requests, NEW o \in Outcomes,
         RecordResolution(r, o), ~ResolutionRefused(r, o),
         \A c \in Calls : observer[c].pc \in Live => observer'[c].pc \in Live
  PROVE  /\ rec' \in [Requests -> RecStates] /\ row' \in [Interactions -> RowStates]
         /\ Advances(rec, rec') /\ rec'[r] = o /\ (rec' = rec \/ rec[r] = "open")
         /\ \A q \in Requests : q # r => rec'[q] = rec[q]
         /\ NoUnanswerableWait'
<1> DEFINE i == IOf(r)
           left == OpenRecords(rec, i) \ {r}
<1>1. /\ rec \in [Requests -> RecStates] /\ row \in [Interactions -> RowStates] /\ i \in Interactions
      /\ rec[r] \in {"open", o} /\ o \in RecStates /\ o # "open"
  BY CoordinatorAssumption DEF ProductTypeOK, ResolutionRefused, IOf, RecStates, Outcomes
<1>2. CASE rec[r] = o
  <2>1. rec' = rec /\ row' = row
    BY <1>2 DEF RecordResolution, records
  <2>2. NoUnanswerableWait'
    BY <2>1 DEF NoUnanswerableWait, OpenRecords
  <2>. QED
    BY <1>1, <1>2, <2>1, <2>2 DEF Advances
<1>3. CASE rec[r] # o
  <2>1. rec' = [rec EXCEPT ![r] = o] /\ row' = [row EXCEPT ![i] = RowAfter(r, o)] /\ rec[r] = "open"
    BY <1>1, <1>3 DEF RecordResolution
  <2>2. /\ RowAfter(r, o) \in RowStates
        /\ RowAfter(r, o) = "waiting" => left # {}
    <3>1. row[i] \in RowStates
      BY <1>1
    <3> HIDE DEF left
    <3>. QED
      BY <3>1 DEF RowAfter, RowStates, Outcomes, left, i
  <2>3. /\ \A j \in Interactions : OpenRecords(rec', j) \subseteq OpenRecords(rec, j)
        /\ left \subseteq OpenRecords(rec', i)
        /\ \A j \in Interactions : j # i => OpenRecords(rec', j) = OpenRecords(rec, j)
    BY <1>1, <2>1 DEF OpenRecords
  <2> HIDE DEF left
  <2>4. NoUnanswerableWait'
    <3>1. \A j \in Interactions : row'[j] = "waiting" => OpenRecords(rec', j) # {}
      BY <1>1, <2>1, <2>2, <2>3 DEF NoUnanswerableWait
    <3>2. \A j \in Interactions : OpenRecords(rec', j) # {} =>
            \E c \in Calls : InteractionOf[c] = j /\ observer'[c].pc \in Live
      BY <2>3 DEF NoUnanswerableWait
    <3>. QED
      BY <3>1, <3>2 DEF NoUnanswerableWait
  <2>. QED
    BY <1>1, <2>1, <2>2, <2>4 DEF Advances, Outcomes
<1>. QED
  BY <1>2, <1>3

\* Whoever waits goes on waiting.
LEMMA StillWaits ==
  ASSUME NoUnanswerableWait, UNCHANGED <<observer, rec, row>> PROVE NoUnanswerableWait'
BY DEF NoUnanswerableWait, OpenRecords

\* Steps of the decision route: no observer moves.
LEMMA RouteOnly ==
  ASSUME ObservationInv, CoordinatorInv', Grown({}), begun' = begun, active' \subseteq active,
         UNCHANGED <<observer, returned, cut>>, NoUnanswerableWait', Advances(rec, rec'),
         \A r \in Requests : rec'[r] \in Outcomes \ {"aborted"} => rec'[r] \in {rec[r], promise[r]},
         ProductTypeOK', DecisionInv'
  PROVE  ObservationInv'
<1>1. OneReader' /\ Moves({})
  BY EndMoves DEF ObservationInv, OneReader
<1> DEFINE X == {}
<1>2. /\ \A c \in Calls \ X : Rests(c)
      /\ \A c \in Calls \intersect X : Stands(c)'
  BY DEF Rests
<1> HIDE DEF X
<1>. QED
  BY <1>1, <1>2, Composes

\* A decision is submitted: the only one, or the retained one again.
LEMMA SubmitKeeps ==
  ASSUME ObservationInv, NEW r \in Requests, NEW d \in Decisions, SubmitDecision(r, d)
  PROVE  ObservationInv'
<1> DEFINE w == [pc |-> "sent", again |-> decision[r] # "none", sent |-> d]
<1>1. /\ rec[r] = "open" /\ route[r].pc = "idle" /\ decision[r] \in {"none", d}
      /\ decision' = [decision EXCEPT ![r] = d] /\ route' = [route EXCEPT ![r] = w]
      /\ UNCHANGED coordinator /\ UNCHANGED <<observer, returned, cut, rec, row, late>>
  BY DEF SubmitDecision, records, runs
<1>2. CoordinatorInv /\ ProductTypeOK /\ DecisionInv /\ decided' = decided
  BY <1>1 DEF ObservationInv, coordinator
<1>3. CoordinatorInv' /\ Grown({}) /\ begun' = begun /\ active' \subseteq active
  BY <1>1, <1>2, StillGrown, CoordinatorStep
<1>4. /\ w.pc = "sent" /\ w.sent = d /\ (w.again <=> decision[r] # "none")
      /\ w \in [pc : {"idle", "sent", "answered", "refused"}, again : BOOLEAN, sent : Decisions \union {"none"}]
  OBVIOUS
<1> HIDE DEF w
<1>5. ProductTypeOK'
  BY <1>1, <1>2, <1>4 DEF ProductTypeOK
<1>6. /\ route'[r] = w /\ decision'[r] = d
      /\ \A q \in Requests : q # r => route'[q] = route[q] /\ decision'[q] = decision[q]
  BY <1>1, <1>2 DEF ProductTypeOK
<1>7. /\ decided[r] # "none" => decision[r] = decided[r]
      /\ \A e \in Decisions : <<r, e>> \in late => decision[r] = e
  BY <1>1, <1>2 DEF DecisionInv, DecisionOf
<1>8. "none" \notin Decisions
  BY DEF Decisions
<1>9. DecisionOf(r)'
  BY <1>1, <1>2, <1>4, <1>6, <1>7, <1>8 DEF DecisionOf
<1>10. DecisionInv'
  BY <1>1, <1>2, <1>6, <1>9, DecisionElse
<1>11. Advances(rec, rec')
  BY <1>1 DEF Advances
<1>. QED
  BY <1>1, <1>3, <1>5, <1>10, <1>11, RouteOnly, StillWaits DEF ObservationInv

\* A decision reaches the coordinator, which applies it or, when r is not pending, refuses it.
LEMMA ReachesHost ==
  ASSUME ObservationInv, NEW r \in Requests, NEW d \in Decisions,
         Decide(r, d) \/ (r \notin ToSet(pending) /\ UNCHANGED coordinator)
  PROVE  /\ CoordinatorInv' /\ Grown({}) /\ begun' = begun /\ active' \subseteq active
         /\ decided' = decided \/ (decided' = [decided EXCEPT ![r] = d])
         /\ Decide(r, d) => decided'[r] = d
         /\ ~Decide(r, d) => decided' = decided
         /\ decided \in [Requests -> Decisions \union {"none"}]
<1>1. CoordinatorInv /\ decided \in [Requests -> Decisions \union {"none"}]
  BY DEF ObservationInv, CoordinatorInv, TypeOK
<1>2. CASE Decide(r, d)
  <2>1. CoordinatorInv' /\ Grown({})
    BY <1>1, <1>2, DecideStep
  <2>2. begun' = begun /\ active' = active /\ decided' = [decided EXCEPT ![r] = d]
    BY <1>2 DEF Decide
  <2>. QED
    BY <1>1, <1>2, <2>1, <2>2
<1>3. CASE ~Decide(r, d) /\ UNCHANGED coordinator
  <2>1. CoordinatorInv' /\ Grown({}) /\ begun' = begun /\ active' \subseteq active
    BY <1>1, <1>3, StillGrown, CoordinatorStep
  <2>2. decided' = decided
    BY <1>3 DEF coordinator
  <2>. QED
    BY <1>1, <1>3, <2>1, <2>2
<1>. QED
  BY <1>2, <1>3

\* The host answers the route's call.
LEMMA HostKeeps ==
  ASSUME ObservationInv, NEW r \in Requests, NEW d \in Decisions, HostDecides(r, d)
  PROVE  ObservationInv'
<1>1. /\ route[r].pc = "sent" /\ d = route[r].sent
      /\ UNCHANGED <<observer, returned, cut, rec, row, decision, late>>
      /\ Decide(r, d) \/ (r \notin ToSet(pending) /\ UNCHANGED coordinator)
  BY DEF HostDecides, records, runs
<1>2. PICK pc \in {"answered", "refused"} :
        /\ pc = "answered" => Decide(r, d)
        /\ pc = "refused" => r \notin ToSet(pending)
        /\ route' = [route EXCEPT ![r] = [pc |-> pc, again |-> route[r].again, sent |-> route[r].sent]]
  BY DEF HostDecides, Answers
<1>3. /\ CoordinatorInv' /\ Grown({}) /\ begun' = begun /\ active' \subseteq active
      /\ decided' = decided \/ (decided' = [decided EXCEPT ![r] = d])
      /\ Decide(r, d) => decided'[r] = d
      /\ ~Decide(r, d) => decided' = decided
      /\ decided \in [Requests -> Decisions \union {"none"}]
  BY <1>1, ReachesHost
<1>4. CoordinatorInv /\ ProductTypeOK /\ DecisionInv
  BY DEF ObservationInv
<1> DEFINE w == [pc |-> pc, again |-> route[r].again, sent |-> route[r].sent]
<1>5. /\ w.pc = pc /\ w.sent = d /\ (w.again <=> route[r].again)
      /\ w \in [pc : {"idle", "sent", "answered", "refused"}, again : BOOLEAN, sent : Decisions \union {"none"}]
  BY <1>1, <1>4 DEF ProductTypeOK
<1> HIDE DEF w
<1>6. ProductTypeOK'
  BY <1>1, <1>2, <1>4, <1>5 DEF ProductTypeOK, w
<1>7. /\ route'[r] = w /\ \A q \in Requests : q # r => route'[q] = route[q] /\ decided'[q] = decided[q]
  BY <1>2, <1>3, <1>4 DEF ProductTypeOK, w
<1>8. pc = "refused" => decided' = decided
  BY <1>2, <1>3 DEF Decide
<1>9. pc = "answered" => decided'[r] = d
  BY <1>2, <1>3
<1>10. DecisionOf(r) /\ rec[r] # "none" /\ "none" \notin Decisions
  BY <1>1, <1>4 DEF DecisionInv, DecisionOf, Decisions
<1>11. DecisionOf(r)'
  <2>1. CASE pc = "refused"
    BY <2>1, <1>1, <1>5, <1>7, <1>8, <1>10 DEF DecisionOf
  <2>2. CASE pc = "answered"
    BY <2>2, <1>1, <1>5, <1>7, <1>9, <1>10 DEF DecisionOf
  <2>. QED
    BY <2>1, <2>2
<1>12. DecisionInv'
  BY <1>1, <1>4, <1>7, <1>10, <1>11, DecisionElse
<1>13. Advances(rec, rec')
  BY <1>1 DEF Advances
<1>. QED
  BY <1>1, <1>3, <1>6, <1>12, <1>13, RouteOnly, StillWaits DEF ObservationInv

\* A call that was given up on reaches the host after all.
LEMMA LateKeeps ==
  ASSUME ObservationInv, NEW r \in Requests, NEW d \in Decisions, LateDecision(r, d)
  PROVE  ObservationInv'
<1>1. /\ <<r, d>> \in late /\ late' = late \ {<<r, d>>}
      /\ UNCHANGED <<observer, returned, cut, rec, row, decision, route>>
      /\ Decide(r, d) \/ (r \notin ToSet(pending) /\ UNCHANGED coordinator)
  BY DEF LateDecision, records, runs
<1>2. /\ CoordinatorInv' /\ Grown({}) /\ begun' = begun /\ active' \subseteq active
      /\ decided' = decided \/ (decided' = [decided EXCEPT ![r] = d])
      /\ decided \in [Requests -> Decisions \union {"none"}]
  BY <1>1, ReachesHost
<1>3. ProductTypeOK /\ DecisionInv
  BY DEF ObservationInv
<1>4. ProductTypeOK'
  BY <1>1, <1>3 DEF ProductTypeOK
<1>5. /\ \A q \in Requests : q # r => decided'[q] = decided[q]
      /\ decided'[r] \in {decided[r], d}
  BY <1>2
<1>6. DecisionOf(r) /\ rec[r] # "none" /\ "none" \notin Decisions
  BY <1>1, <1>3 DEF DecisionInv, Decisions
<1>7. DecisionOf(r)'
  BY <1>1, <1>5, <1>6 DEF DecisionOf
<1>8. DecisionInv'
  BY <1>1, <1>3, <1>5, <1>6, <1>7, DecisionElse
<1>9. Advances(rec, rec')
  BY <1>1 DEF Advances
<1>. QED
  BY <1>1, <1>2, <1>4, <1>8, <1>9, RouteOnly, StillWaits DEF ObservationInv

\* Nothing is recorded, or the end of r as its provider saw it.
ReleasesOnly(r) ==
  /\ NoUnanswerableWait'
  /\ rec' \in [Requests -> RecStates] /\ row' \in [Interactions -> RowStates]
  /\ Advances(rec, rec')
  /\ rec' = rec \/ (rec[r] = "open" /\ rec'[r] = promise[r] /\ promise[r] \in Outcomes)
  /\ \A q \in Requests : q # r => rec'[q] = rec[q]

\* A step that records nothing.
LEMMA StillReleases ==
  ASSUME NoUnanswerableWait, ProductTypeOK, UNCHANGED <<observer, rec, row>>, NEW r \in Requests
  PROVE  ReleasesOnly(r)
BY StillWaits DEF ReleasesOnly, ProductTypeOK, Advances

\* The route ends its call: what it held is released when nothing can come of it.
LEMMA ReleaseKeeps ==
  ASSUME ObservationInv, NEW r \in Requests, NEW keep \in BOOLEAN, Release(r, keep),
         UNCHANGED coordinator, UNCHANGED <<observer, returned, cut>>,
         ReleasesOnly(r),
         late' = late \/ (route[r].pc = "sent" /\ late' = late \union {<<r, route[r].sent>>}),
         late' # late => keep,
         ~keep /\ rec'[r] = "open" => decided[r] = "none" /\ \A d \in Decisions : <<r, d>> \notin late
  PROVE  ObservationInv'
<1>1. CoordinatorInv /\ ProductTypeOK /\ DecisionInv /\ decided' = decided
  BY DEF ObservationInv, coordinator
<1>2. CoordinatorInv' /\ Grown({}) /\ begun' = begun /\ active' \subseteq active
  BY <1>1, StillGrown, CoordinatorStep
<1> USE DEF ReleasesOnly
<1>3. /\ route' = [route EXCEPT ![r] = NoRoute]
      /\ decision' = IF keep THEN decision ELSE [decision EXCEPT ![r] = "none"]
  BY DEF Release
<1>4. /\ NoRoute.pc = "idle"
      /\ NoRoute \in [pc : {"idle", "sent", "answered", "refused"}, again : BOOLEAN, sent : Decisions \union {"none"}]
  BY DEF NoRoute
<1>5. DecisionOf(r) /\ (rec[r] = "none" => \A d \in Decisions : <<r, d>> \notin late)
  BY <1>1 DEF DecisionInv
<1>6. late' # late => route[r].pc = "sent" /\ route[r].sent \in Decisions /\ late' = late \union {<<r, route[r].sent>>}
  BY <1>5 DEF DecisionOf
<1>7. late' \subseteq Requests \X Decisions
  BY <1>1, <1>6 DEF ProductTypeOK
<1>8. rec' \in [Requests -> RecStates] /\ row' \in [Interactions -> RowStates] /\ Advances(rec, rec')
  OBVIOUS
<1>9. /\ decision' \in [Requests -> Decisions \union {"none"}] /\ (keep => decision' = decision)
      /\ \A q \in Requests : q # r => decision'[q] = decision[q]
  BY <1>1, <1>3 DEF ProductTypeOK
<1>10. ProductTypeOK'
  BY <1>1, <1>3, <1>4, <1>7, <1>8, <1>9 DEF ProductTypeOK
<1>11. route'[r] = NoRoute /\ \A q \in Requests : q # r => route'[q] = route[q] /\ rec'[q] = rec[q]
  BY <1>1, <1>3 DEF ProductTypeOK
<1>12. rec[r] # "none" => rec'[r] # "none"
  BY <1>8 DEF Advances
<1>13. rec'[r] = "open" => rec[r] = "open" /\ rec' = rec
  BY <1>1 DEF ProductTypeOK, Outcomes
<1>14. DecisionOf(r)'
  <2>1. decided'[r] # "none" => rec'[r] # "none"
    BY <1>1, <1>5, <1>12 DEF DecisionOf
  <2>2. ASSUME rec'[r] = "open"
        PROVE  /\ decided'[r] # "none" => decision'[r] = decided'[r]
               /\ \A d \in Decisions : <<r, d>> \in late' => decision'[r] = d
    <3>1. CASE keep
      <4>1. decision'[r] = decision[r] /\ rec[r] = "open"
        BY <3>1, <1>9, <1>13, <2>2
      <4>2. route[r].pc = "sent" => decision[r] = route[r].sent
        BY <4>1, <1>5 DEF DecisionOf
      <4>. QED
        BY <4>1, <4>2, <1>1, <1>5, <1>6 DEF DecisionOf
    <3>2. CASE ~keep
      BY <2>2, <3>2, <1>1
    <3>. QED
      BY <3>1, <3>2
  <2>. QED
    BY <2>1, <2>2, <1>4, <1>11 DEF DecisionOf
<1>15. rec'[r] = "none" => \A d \in Decisions : <<r, d>> \notin late'
  <2> SUFFICES ASSUME rec'[r] = "none" PROVE \A d \in Decisions : <<r, d>> \notin late'
    OBVIOUS
  <2>1. rec[r] = "none"
    BY <1>12
  <2>2. route[r].pc = "idle"
    BY <2>1, <1>5 DEF DecisionOf
  <2>. QED
    BY <2>1, <2>2, <1>5, <1>6
<1>16. DecisionInv'
  <2>1. \A q \in Requests : q # r => \A d \in Decisions : <<q, d>> \in late' => <<q, d>> \in late
    BY <1>6
  <2>. QED
    BY <2>1, <1>1, <1>9, <1>11, <1>14, <1>15, DecisionElse
<1>17. \A q \in Requests : rec'[q] \in Outcomes \ {"aborted"} => rec'[q] \in {rec[q], promise[q]}
  BY <1>1 DEF ProductTypeOK
<1>. QED
  BY <1>2, <1>8, <1>10, <1>16, <1>17, RouteOnly

\* A decision the host refused is forgotten, and nothing it authorized is lost.
LEMMA RefusedKeeps ==
  ASSUME ObservationInv, NEW r \in Requests, HostRefused(r) PROVE ObservationInv'
<1> DEFINE keep == route[r].again
<1>1. /\ route[r].pc = "refused" /\ Release(r, keep) /\ UNCHANGED coordinator
      /\ UNCHANGED <<observer, returned, cut, rec, row>> /\ late' = late
  BY DEF HostRefused, records, runs
<1>2. keep \in BOOLEAN
  BY DEF ObservationInv, ProductTypeOK
<1>3. ~keep /\ rec[r] = "open" => decided[r] = "none" /\ \A d \in Decisions : <<r, d>> \notin late
  BY <1>1 DEF ObservationInv, DecisionInv, DecisionOf
<1>4. ReleasesOnly(r)
  BY <1>1, StillReleases DEF ObservationInv
<1> HIDE DEF keep
<1>. QED
  BY <1>1, <1>2, <1>3, <1>4, ReleaseKeeps DEF ReleasesOnly

\* A decision whose answer is lost stays retained, for its event may still come.
LEMMA LostKeeps ==
  ASSUME ObservationInv, NEW r \in Requests, LostAnswer(r) PROVE ObservationInv'
<1>1. /\ Release(r, TRUE) /\ UNCHANGED coordinator /\ UNCHANGED <<observer, returned, cut, rec, row>>
      /\ late' = late \/ (route[r].pc = "sent" /\ late' = late \union {<<r, route[r].sent>>})
  BY DEF LostAnswer, records, runs
<1>2. ReleasesOnly(r)
  BY <1>1, StillReleases DEF ObservationInv
<1>. QED
  BY <1>1, <1>2, ReleaseKeeps DEF ReleasesOnly

\* The answer is recorded; it is what the provider saw, whoever recorded it first.
LEMMA AnswerKeeps ==
  ASSUME ObservationInv, NEW r \in Requests, RecordAnswer(r) PROVE ObservationInv'
<1> DEFINE o == promise[r]
           refused == ResolutionRefused(r, o)
<1>1. /\ route[r].pc = "answered" /\ Release(r, refused)
      /\ IF refused THEN UNCHANGED records ELSE RecordResolution(r, o)
      /\ UNCHANGED coordinator /\ UNCHANGED <<observer, returned, cut>> /\ late' = late
  BY DEF RecordAnswer, runs
<1>2. o \in Outcomes /\ NoUnanswerableWait /\ ProductTypeOK
  BY <1>1 DEF ObservationInv, DecisionInv, DecisionOf, CoordinatorInv, DecidedInv
<1>3. refused \in BOOLEAN
  BY DEF ResolutionRefused
<1>4. CASE refused
  <2>1. ReleasesOnly(r)
    BY <1>1, <1>2, <1>4, StillReleases DEF records
  <2>2. rec' = rec
    BY <1>1, <1>4 DEF records
  <2>. QED
    BY <1>1, <1>3, <1>4, <2>1, <2>2, ReleaseKeeps
<1>5. CASE ~refused
  <2>1. /\ rec' \in [Requests -> RecStates] /\ row' \in [Interactions -> RowStates]
        /\ Advances(rec, rec') /\ rec'[r] = o /\ (rec' = rec \/ rec[r] = "open")
        /\ \A q \in Requests : q # r => rec'[q] = rec[q]
        /\ NoUnanswerableWait'
    BY <1>1, <1>2, <1>5, ResolutionFacts
  <2>2. ReleasesOnly(r) /\ rec'[r] # "open"
    BY <1>2, <2>1 DEF ReleasesOnly, Outcomes
  <2>. QED
    BY <1>1, <1>3, <1>5, <2>2, ReleaseKeeps
<1>. QED
  BY <1>4, <1>5

(***************************************************************************)
(* The observers.                                                          *)
(***************************************************************************)
\* The observer of c comes to stand at o; everything but c's own standing follows.
LEMMA ReaderMoves ==
  ASSUME ObservationInv, CoordinatorInv', NEW is, Moves(is), NEW c \in Calls, observer[c].pc \in Live,
         NEW o \in ObserverSet, observer' = [observer EXCEPT ![c] = o],
         rec' \in [Requests -> RecStates], row' \in [Interactions -> RowStates], Advances(rec, rec'),
         \A r \in Requests : rec'[r] \in Outcomes \ {"aborted"} => rec'[r] \in {rec[r], promise[r]},
         \A r \in Requests : rec'[r] = "open" => decision'[r] = decision[r],
         decision' \in [Requests -> Decisions \union {"none"}],
         UNCHANGED <<returned, cut, route, late, decided>>, NoUnanswerableWait',
         CallsInv' => Stands(c)'
  PROVE  ObservationInv'
<1>1. ProductTypeOK /\ DecisionInv /\ OneReader
  BY DEF ObservationInv
<1>2. ProductTypeOK'
  BY <1>1 DEF ProductTypeOK
<1>3. observer'[c] = o /\ \A d \in Calls : d # c => observer'[d] = observer[d]
  BY <1>1 DEF ProductTypeOK
<1>4. DecisionInv'
  BY <1>1, DecisionAdvances DEF ProductTypeOK
<1>5. OneReader'
  <2>1. \A d \in Calls : observer'[d].pc \in Live => observer[d].pc \in Live
    BY <1>3
  <2>. QED
    BY <2>1, <1>1 DEF OneReader
<1> DEFINE X == {c}
<1>6. \A d \in Calls \ X : Rests(d)
  BY <1>3 DEF Rests
<1>7. CallsInv' => \A d \in Calls \intersect X : Stands(d)'
  OBVIOUS
<1> HIDE DEF X
<1>. QED
  BY <1>2, <1>4, <1>5, <1>6, <1>7, Composes

\* A run that is over records as aborted what it left open, and then is not done; one that
\* is done had read everything.
LEMMA SettleKeeps ==
  ASSUME ObservationInv, CoordinatorInv', NEW is, Moves(is), NEW c \in Calls, observer[c].pc \in Live,
         NEW result \in {"done", "failed"}, Settle(c, result),
         UNCHANGED <<returned, cut, decision, route, late, decided>>,
         result = "done" =>
           /\ observer[c].pc = "ack" /\ c \in returned /\ promise' = promise
           /\ Len(streams[InteractionOf[c]]) <= observer[c].cursor
  PROVE  ObservationInv'
<1> DEFINE i == InteractionOf[c]
           open == OpenRecords(rec, i)
           pc == IF open = {} THEN result ELSE "failed"
           o == [pc |-> pc, cursor |-> 0, call |-> observer[c].call, todo |-> <<>>, then |-> "polling"]
<1>1. /\ CoordinatorInv /\ ProductTypeOK /\ OneReader /\ NoUnanswerableWait
      /\ ObserverOf(c) /\ TodoOf(c) /\ SeenOf(c)
  BY DEF ObservationInv, Stands
<1>2. /\ observer[c].pc \in ObserverSteps /\ observer[c].cursor \in Nat
      /\ observer[c].call \in Calls \union {NoCall} /\ i \in Interactions
  BY <1>1, ObserverType
<1>3. /\ observer' = [observer EXCEPT ![c] = Ended(c, pc)]
      /\ rec' = [r \in Requests |-> IF r \in open THEN "aborted" ELSE rec[r]]
      /\ \E end \in {"accepted", "failed", "stopped"} :
           row' = [row EXCEPT ![i] = IF @ = "waiting" THEN "failed" ELSE IF @ = "running" THEN end ELSE @]
  BY DEF Settle
<1>4. /\ pc \in {"done", "failed"}
      /\ pc = "done" => result = "done" /\ open = {}
  OBVIOUS
<1> HIDE DEF pc
<1>5. Ended(c, pc) = o
  BY DEF Ended
<1>6. /\ o \in ObserverSet /\ o.pc = pc /\ o.cursor = 0 /\ o.call = observer[c].call /\ o.todo = <<>>
      /\ o.then = "polling"
  <2>1. <<>> \in Seq(EventSet)
    OBVIOUS
  <2>. QED
    BY <1>2, <1>4, <2>1 DEF ObserverSet, ObserverSteps
<1> HIDE DEF o
<1>7. observer' = [observer EXCEPT ![c] = o]
  BY <1>3, <1>5
<1>8. observer'[c] = o /\ \A d \in Calls : d # c => observer'[d] = observer[d]
  BY <1>1, <1>7 DEF ProductTypeOK
<1>9. /\ rec' \in [Requests -> RecStates]
      /\ \A r \in Requests : rec'[r] = rec[r] \/ (rec[r] = "open" /\ rec'[r] = "aborted")
      /\ open = {} => rec' = rec
  BY <1>1, <1>3 DEF ProductTypeOK, OpenRecords, RecStates, Outcomes
<1>10. Advances(rec, rec')
  BY <1>9 DEF Advances, Outcomes
<1>11. /\ row' \in [Interactions -> RowStates] /\ row'[i] # "waiting"
       /\ \A j \in Interactions : j # i => row'[j] = row[j]
  BY <1>1, <1>2, <1>3 DEF ProductTypeOK, RowStates
<1>12. NoUnanswerableWait'
  <2>1. OpenRecords(rec', i) = {}
    BY <1>3 DEF OpenRecords
  <2>2. \A j \in Interactions : j # i => OpenRecords(rec', j) = OpenRecords(rec, j)
    BY <1>3 DEF OpenRecords
  <2>3. \A d \in Calls : InteractionOf[d] # i => observer'[d] = observer[d]
    BY <1>8
  <2> HIDE DEF i
  <2>. QED
    BY <2>1, <2>2, <2>3, <1>1, <1>11 DEF NoUnanswerableWait
<1>13. /\ c \notin Unobserved /\ (c \in returned => c \in begun \ active)
       /\ observer[c].call = c => c \in begun
  BY <1>1 DEF ObserverOf, Live
<1>14. begun \subseteq begun' /\ active' \subseteq active \union (begun' \ begun)
  BY DEF Moves
<1>15. ObserverOf(c)' /\ TodoOf(c)' /\ SeenOf(c)'
  <2>1. pc \notin Live /\ pc \notin {"none", "ack", "persisting", "checking"}
    BY <1>4 DEF Live
  <2>2. DOMAIN o.todo = {}
    BY <1>6
  <2>3. c \in returned' => c \in begun' \ active'
    BY <1>13, <1>14
  <2>4. pc = "done" => c \in returned'
    BY <1>4
  <2>5. ObserverOf(c)'
    BY <1>6, <1>8, <1>13, <1>14, <2>1, <2>3, <2>4 DEF ObserverOf
  <2>. QED
    BY <1>6, <1>8, <2>1, <2>2, <2>5 DEF TodoOf, SeenOf
<1>16. DoneOf(c)'
  <2> SUFFICES ASSUME pc = "done", observer[c].call \in {NoCall, c}, NEW r \in Requests, CallOf[r] = c,
                      promise'[r] \in Outcomes
               PROVE  rec'[r] = promise'[r]
    BY <1>6, <1>8 DEF DoneOf
  <2>1. /\ observer[c].pc = "ack" /\ promise' = promise /\ rec' = rec
        /\ Len(streams[i]) <= observer[c].cursor
    BY <1>4, <1>9
  <2>2. observer[c].todo = <<>>
    BY <2>1, <1>1 DEF TodoOf
  <2>3. ReadsOwn(c) /\ ~EndsPast(observer[c].todo, 0, r)
    BY <2>2 DEF ReadsOwn, EndsPast
  <2>4. ~EndsPast(streams[i], observer[c].cursor, r)
    <3> SUFFICES ASSUME NEW k \in DOMAIN streams[i], k > observer[c].cursor PROVE FALSE
      BY DEF EndsPast
    <3>1. streams[i] \in Seq(EventSet)
      BY <1>1, <1>2 DEF CoordinatorInv, TypeOK
    <3>2. k \in 1 .. Len(streams[i]) /\ Len(streams[i]) \in Nat
      BY <3>1
    <3>. QED
      BY <2>1, <3>2, <1>2
  <2>. QED
    BY <2>1, <2>3, <2>4, <1>1 DEF SeenOf
<1>17. /\ \A r \in Requests : rec'[r] \in Outcomes \ {"aborted"} => rec'[r] \in {rec[r], promise[r]}
       /\ \A r \in Requests : rec'[r] = "open" => decision'[r] = decision[r]
       /\ decision' \in [Requests -> Decisions \union {"none"}]
  BY <1>1, <1>9 DEF ProductTypeOK
<1>. QED
  BY <1>6, <1>7, <1>9, <1>10, <1>11, <1>12, <1>15, <1>16, <1>17, ReaderMoves DEF Stands

\* An observer gives up, and cancels a completion that runs on unless that call is lost too.
LEMMA FailRunKeeps ==
  ASSUME ObservationInv, NEW c \in Calls, observer[c].pc \in Live, FailRun(c) PROVE ObservationInv'
<1>1. /\ Settle(c, "failed") /\ UNCHANGED <<returned, cut, decision, route, late>>
      /\ UNCHANGED coordinator \/ EndCompletion(c, "cancelled")
      /\ CoordinatorInv /\ CallsInv
  BY DEF FailRun, runs, routes, ObservationInv
<1>2. CoordinatorInv' /\ Grown({}) /\ begun' = begun /\ active' \subseteq active /\ decided' = decided
  <2>1. CASE EndCompletion(c, "cancelled")
    BY <2>1, <1>1, EndStep DEF EndCompletion
  <2>2. CASE UNCHANGED coordinator
    BY <2>2, <1>1, StillGrown, CoordinatorStep DEF coordinator
  <2>. QED
    BY <1>1, <2>1, <2>2
<1>3. Moves({})
  BY <1>1, <1>2, EndMoves
<1>4. "failed" \in {"done", "failed"} /\ "failed" # "done"
  OBVIOUS
<1>. QED
  BY <1>1, <1>2, <1>3, <1>4, SettleKeeps

\* An observer takes a snapshot: what its stream has past the cursor is now its to persist.
LEMMA ReadsKeeps ==
  ASSUME ObservationInv, NEW c \in Calls, observer[c].pc = "polling",
         Snapshot(InteractionOf[c], observer[c].cursor),
         NEW then \in {"polling", "ack"}, then = "ack" => c \in returned \union cut,
         Reads(c, then), UNCHANGED <<returned, cut, rec, row, decision, route, late>>
  PROVE  ObservationInv'
<1> DEFINE i == InteractionOf[c]
           is == Acked(i, observer[c].cursor)
           items == Items(i, observer[c].cursor)
           pc == IF items = <<>> THEN then ELSE "persisting"
           o == [pc |-> pc, cursor |-> Len(streams[i]), call |-> observer[c].call,
                 todo |-> items, then |-> then]
<1>1. /\ CoordinatorInv /\ CallsInv /\ ProductTypeOK /\ OneReader /\ NoUnanswerableWait
      /\ ObserverOf(c) /\ TodoOf(c) /\ SeenOf(c) /\ observer[c].pc \in Live
  BY DEF ObservationInv, Stands, Live
<1>2. /\ Moves(is) /\ promise' = promise /\ begun' = begun /\ active' = active /\ decided' = decided
      /\ CoordinatorInv'
  BY <1>1, PollMoves, SnapshotStep
<1>3. /\ observer[c].cursor \in Nat /\ observer[c].call \in Calls \union {NoCall} /\ i \in Interactions
      /\ observer[c].todo = <<>>
  BY <1>1, ObserverType DEF TodoOf
<1>4. /\ items \in Seq(EventSet)
      /\ \A k \in DOMAIN items : Sound(i, items[k])
      /\ \A r : EndsPast(streams[i], observer[c].cursor, r) => EndsPast(items, 0, r)
      /\ items = <<>> => Len(streams[i]) <= observer[c].cursor
  BY <1>1, <1>3, ItemsFacts
<1>5. Len(streams[i]) \in Nat /\ Len(streams'[i]) \in Nat
  <2>1. streams[i] \in Seq(EventSet) /\ streams'[i] \in Seq(EventSet)
    BY <1>1, <1>2, <1>3 DEF CoordinatorInv, TypeOK
  <2>. QED
    BY <2>1
<1>6. observer' = [observer EXCEPT ![c] = o]
  BY DEF Reads
<1> HIDE DEF items, is
<1>7. pc \in {"polling", "ack", "persisting"} /\ pc \in Live /\ (pc = "persisting" <=> items # <<>>)
      /\ (pc = "ack" => then = "ack")
  BY DEF Live
<1> HIDE DEF pc
<1>8. /\ o \in ObserverSet /\ o.pc = pc /\ o.cursor = Len(streams[i]) /\ o.call = observer[c].call
      /\ o.todo = items /\ o.then = then
  BY <1>3, <1>4, <1>5, <1>7 DEF ObserverSet, ObserverSteps
<1> HIDE DEF o
<1>9. observer'[c] = o /\ \A d \in Calls : d # c => observer'[d] = observer[d]
  BY <1>1, <1>6 DEF ProductTypeOK
<1>10. NoUnanswerableWait'
  <2>1. \A d \in Calls : observer[d].pc \in Live => observer'[d].pc \in Live
    BY <1>7, <1>8, <1>9
  <2>. QED
    BY <2>1, <1>1 DEF NoUnanswerableWait, OpenRecords
<1>11. /\ c \notin Unobserved /\ (c \in returned => c \in begun \ active)
       /\ observer[c].call = c => c \in begun
       /\ observer[c].call = NoCall => observer[c].cursor = 0
  BY <1>1, <1>3 DEF ObserverOf, Live
<1>12. /\ Grown(is) /\ (i \in is => ~InteractionActive(i))
  BY <1>2 DEF Moves
<1>13. TodoOf(c)'
  <2>1. ASSUME NEW k \in DOMAIN items
        PROVE  LET e == items[k] IN
                 /\ CallOf[e.request] \in begun' /\ InteractionOf[CallOf[e.request]] = i
                 /\ e.type = "resolved" => e.outcome = promise'[e.request]
                 /\ ByUser(e, decided')
    BY <1>2, <1>4 DEF Sound
  <2>. QED
    BY <2>1, <1>7, <1>8, <1>9 DEF TodoOf, Sound
<1>14. ASSUME c \in active' PROVE Len(streams[i]) <= Len(streams'[i])
  <2>1. i \notin is
    BY <1>2, <1>12, <1>14 DEF InteractionActive
  <2>. QED
    BY <2>1, <1>3, <1>12 DEF Grown, GrownStream
<1>15. ASSUME i \in stale' PROVE streams'[i] = streams[i]
  BY <1>3, <1>12, <1>15 DEF Grown, GrownStream
<1>16. observer[c].call = NoCall /\ items = <<>> => Len(streams[i]) = 0
  BY <1>4, <1>5, <1>11
<1>17. Len(streams[i]) <= Len(streams[i])
  BY <1>5
<1>18. ObserverOf(c)'
  BY <1>2, <1>7, <1>8, <1>9, <1>11, <1>14, <1>15, <1>16, <1>17 DEF ObserverOf, ReadsOwn
<1>19. SeenOf(c)' /\ DoneOf(c)'
  <2>1. DoneOf(c)'
    BY <1>7, <1>8, <1>9 DEF DoneOf
  <2>2. ASSUME ReadsOwn(c)', NEW r \in Requests, CallOf[r] = c, promise[r] \in Outcomes
        PROVE  rec[r] = promise[r] \/ EndsPast(items, 0, r)
    <3>1. ReadsOwn(c) /\ ~EndsPast(observer[c].todo, 0, r)
      BY <2>2, <1>3, <1>8, <1>9 DEF ReadsOwn, EndsPast
    <3>. QED
      BY <3>1, <2>2, <1>1, <1>4 DEF SeenOf
  <2>3. SeenOf(c)'
    BY <2>2, <1>2, <1>8, <1>9 DEF SeenOf
  <2>. QED
    BY <2>1, <2>3
<1>20. Advances(rec, rec')
  BY DEF Advances
<1>21. /\ \A r \in Requests : rec'[r] \in Outcomes \ {"aborted"} => rec'[r] \in {rec[r], promise[r]}
       /\ \A r \in Requests : rec'[r] = "open" => decision'[r] = decision[r]
       /\ decision' \in [Requests -> Decisions \union {"none"}]
       /\ rec' \in [Requests -> RecStates] /\ row' \in [Interactions -> RowStates]
  BY <1>1 DEF ProductTypeOK
<1>. QED
  BY <1>1, <1>2, <1>6, <1>8, <1>10, <1>13, <1>18, <1>19, <1>20, <1>21, ReaderMoves DEF Stands

\* The first item of a sequence, and the rest.
LEMMA TailFacts ==
  ASSUME NEW s \in Seq(EventSet), s # <<>>
  PROVE  /\ Head(s) = s[1] /\ s[1] \in EventSet /\ 1 \in DOMAIN s
         /\ Tail(s) \in Seq(EventSet) /\ (Len(s) = 1 <=> Tail(s) = <<>>)
         /\ \A k \in DOMAIN Tail(s) : k + 1 \in DOMAIN s /\ Tail(s)[k] = s[k + 1]
         /\ \A k \in DOMAIN s : k > 1 => k - 1 \in DOMAIN Tail(s) /\ k - 1 > 0 /\ Tail(s)[k - 1] = s[k]
<1>1. Len(s) \in Nat /\ Len(s) # 0 /\ DOMAIN s = 1 .. Len(s)
  OBVIOUS
<1>2. Tail(s) \in Seq(EventSet) /\ Len(Tail(s)) = Len(s) - 1
  BY <1>1
<1>3. DOMAIN Tail(s) = 1 .. Len(s) - 1
  BY <1>1, <1>2
<1>4. \A k \in 1 .. Len(s) - 1 : Tail(s)[k] = s[k + 1]
  BY <1>1
<1> DEFINE t == Tail(s)
<1>5. t \in Seq(EventSet) /\ Len(t) = Len(s) - 1
  BY <1>2
<1> HIDE DEF t
<1>6. Len(s) = 1 <=> t = <<>>
  <2>1. ASSUME Len(s) = 1 PROVE t = <<>>
    <3>1. Len(t) = 0
      BY <1>5, <2>1
    <3>. QED
      BY <1>5, <3>1
  <2>2. ASSUME t = <<>> PROVE Len(s) = 1
    <3>1. Len(t) = 0
      BY <2>2
    <3>2. Len(s) \in Nat /\ 0 = Len(s) - 1
      BY <1>1, <1>5, <3>1
    <3>. QED
      BY <3>2
  <2>. QED
    BY <2>1, <2>2
<1>7. Head(s) = s[1] /\ s[1] \in EventSet /\ 1 \in DOMAIN s
  BY <1>1
<1>8. ASSUME NEW k \in DOMAIN t PROVE k + 1 \in DOMAIN s /\ t[k] = s[k + 1]
  BY <1>1, <1>3, <1>4 DEF t
<1>9. ASSUME NEW k \in DOMAIN s, k > 1 PROVE k - 1 \in DOMAIN t /\ k - 1 > 0 /\ t[k - 1] = s[k]
  <2>1. k - 1 \in 1 .. Len(s) - 1 /\ (k - 1) + 1 = k /\ k - 1 > 0
    BY <1>1, <1>9
  <2>. QED
    BY <2>1, <1>3, <1>4 DEF t
<1>. QED
  BY <1>5, <1>6, <1>7, <1>8, <1>9 DEF t

\* An observer takes the item it is at: what it recorded of it is what its provider saw.
LEMMA TakesKeeps ==
  ASSUME ObservationInv, NEW c \in Calls, observer[c].pc \in {"persisting", "checking"},
         Correlated(c), Takes(c), UNCHANGED coordinator, UNCHANGED <<returned, cut, route, late>>,
         rec' \in [Requests -> RecStates], row' \in [Interactions -> RowStates], Advances(rec, rec'),
         NoUnanswerableWait', \A r \in Requests : rec'[r] \in Outcomes => rec'[r] \in {rec[r], promise[r]},
         Item(c).type = "resolved" => rec'[Item(c).request] = promise[Item(c).request],
         \A r \in Requests : rec'[r] = "open" => decision'[r] = decision[r],
         decision' \in [Requests -> Decisions \union {"none"}]
  PROVE  ObservationInv'
<1> DEFINE i == InteractionOf[c]
           todo == observer[c].todo
           tail == Tail(todo)
           pc == IF Len(todo) = 1 THEN observer[c].then ELSE "persisting"
           call == CallOf[todo[1].request]
           o == [pc |-> pc, cursor |-> observer[c].cursor, call |-> call,
                 todo |-> tail, then |-> observer[c].then]
<1>1. /\ CoordinatorInv /\ CallsInv /\ ProductTypeOK /\ observer \in [Calls -> ObserverSet]
      /\ ObserverOf(c) /\ TodoOf(c) /\ SeenOf(c) /\ observer[c].pc \in Live
      /\ coordinator' = coordinator
  BY DEF ObservationInv, Stands, Live, ProductTypeOK
<1>2. /\ CoordinatorInv' /\ Moves({}) /\ streams' = streams /\ stale' = stale /\ begun' = begun
      /\ active' = active /\ promise' = promise /\ decided' = decided
  BY <1>1, StillGrown, EndMoves, CoordinatorStep DEF coordinator
<1>3. /\ observer[c].cursor \in Nat /\ observer[c].call \in Calls \union {NoCall} /\ i \in Interactions
      /\ observer[c].then \in {"polling", "ack"} /\ todo \in Seq(EventSet) /\ todo # <<>>
  BY <1>1, ObserverType DEF TodoOf
<1>4. \A k \in DOMAIN todo : Sound(i, todo[k])
  BY <1>1 DEF TodoOf
<1>5. Item(c) = Head(todo) /\ observer[c].call \in {NoCall, CallOf[Head(todo).request]}
  BY DEF Item, Correlated
<1>6. observer' = [observer EXCEPT ![c] =
        [pc |-> pc, cursor |-> observer[c].cursor, call |-> CallOf[Head(todo).request],
         todo |-> tail, then |-> observer[c].then]]
  BY <1>5 DEF Takes
<1> HIDE DEF todo, tail
<1>7. /\ Head(todo) = todo[1] /\ todo[1] \in EventSet /\ 1 \in DOMAIN todo
      /\ tail \in Seq(EventSet) /\ (Len(todo) = 1 <=> tail = <<>>)
      /\ \A k \in DOMAIN tail : k + 1 \in DOMAIN todo /\ tail[k] = todo[k + 1]
      /\ \A k \in DOMAIN todo : k > 1 => k - 1 \in DOMAIN tail /\ k - 1 > 0 /\ tail[k - 1] = todo[k]
  BY <1>3, TailFacts DEF tail
<1>8. pc \in {"polling", "ack", "persisting"} /\ pc \in Live /\ (pc = "persisting" <=> tail # <<>>)
      /\ (pc = "ack" => observer[c].then = "ack")
  BY <1>3, <1>7 DEF Live
<1> HIDE DEF pc
<1>9. call \in Calls /\ todo[1].request \in Requests
  BY <1>7, EventFacts, CoordinatorAssumption
<1>10. call \in begun /\ InteractionOf[call] = i
  BY <1>4, <1>7 DEF Sound
<1> HIDE DEF call
<1>11. /\ o \in ObserverSet /\ o.pc = pc /\ o.cursor = observer[c].cursor /\ o.call = call
       /\ o.todo = tail /\ o.then = observer[c].then
  BY <1>3, <1>7, <1>8, <1>9 DEF ObserverSet, ObserverSteps
<1>12. observer' = [observer EXCEPT ![c] = o]
  <2>1. CallOf[Head(todo).request] = call
    BY <1>7 DEF call
  <2>. QED
    BY <1>6, <2>1
<1> HIDE DEF o
<1>13. observer'[c] = o /\ \A d \in Calls : d # c => observer'[d] = observer[d]
  BY <1>1, <1>12
<1>14. /\ c \notin Unobserved /\ (c \in returned => c \in begun \ active) /\ NoCall # c /\ NoCall # call
       /\ observer[c].then = "ack" => c \in returned \union cut
       /\ observer[c].pc \in Live /\ ReadsOwn(c) /\ c \in active => observer[c].cursor <= Len(streams[i])
       /\ observer[c].pc \in Live /\ c \in begun /\ i \in stale => Len(streams[i]) <= observer[c].cursor
  BY <1>1, <1>9, ObservationAssumption DEF ObserverOf, Live
<1>15. ASSUME ReadsOwn(c)' PROVE ReadsOwn(c)
  <2>1. call = c /\ \A k \in DOMAIN tail : CallOf[tail[k].request] = c
    BY <1>11, <1>13, <1>14, <1>15 DEF ReadsOwn
  <2>2. observer[c].call \in {NoCall, c}
    BY <2>1, <1>5, <1>7 DEF call
  <2>3. ASSUME NEW k \in DOMAIN todo PROVE CallOf[todo[k].request] = c
    <3>1. k = 1 \/ k > 1
      BY <1>3
    <3>2. CASE k = 1
      BY <2>1, <3>2 DEF call
    <3>3. CASE k > 1
      BY <2>1, <3>3, <1>7
    <3>. QED
      BY <3>1, <3>2, <3>3
  <2>. QED
    BY <2>2, <2>3 DEF ReadsOwn, todo
<1>16. TodoOf(c)'
  <2>1. ASSUME NEW k \in DOMAIN tail
        PROVE  LET e == tail[k] IN
                 /\ CallOf[e.request] \in begun' /\ InteractionOf[CallOf[e.request]] = i
                 /\ e.type = "resolved" => e.outcome = promise'[e.request]
                 /\ ByUser(e, decided')
    BY <1>2, <1>4, <1>7 DEF Sound
  <2>. QED
    BY <2>1, <1>8, <1>11, <1>13 DEF TodoOf, Sound
<1>17. ObserverOf(c)'
  BY <1>1, <1>2, <1>8, <1>10, <1>11, <1>13, <1>14, <1>15 DEF ObserverOf
<1>18. DoneOf(c)'
  BY <1>8, <1>11, <1>13 DEF DoneOf
<1>19. ASSUME NEW r \in Requests, EndsPast(todo, 0, r)
       PROVE  rec'[r] = promise[r] \/ EndsPast(tail, 0, r)
  <2>1. PICK k \in DOMAIN todo : todo[k].type = "resolved" /\ todo[k].request = r
    BY <1>19 DEF EndsPast
  <2>2. k = 1 \/ k > 1
    BY <1>3
  <2>3. CASE k = 1
    BY <2>1, <2>3, <1>5, <1>7
  <2>4. CASE k > 1
    BY <2>1, <2>4, <1>7 DEF EndsPast
  <2>. QED
    BY <2>2, <2>3, <2>4
<1>20. SeenOf(c)'
  <2>1. ASSUME ReadsOwn(c)', NEW r \in Requests, CallOf[r] = c, promise[r] \in Outcomes
        PROVE  \/ rec'[r] = promise[r] \/ EndsPast(tail, 0, r)
               \/ EndsPast(streams[i], observer[c].cursor, r)
    <3>1. rec[r] = promise[r] \/ EndsPast(todo, 0, r) \/ EndsPast(streams[i], observer[c].cursor, r)
      BY <1>1, <1>15, <2>1 DEF SeenOf, todo
    <3>2. rec[r] = promise[r] => rec'[r] = promise[r]
      BY <2>1 DEF Advances
    <3>. QED
      BY <3>1, <3>2, <1>19
  <2>. QED
    BY <2>1, <1>2, <1>11, <1>13 DEF SeenOf
<1>21. \A r \in Requests : rec'[r] \in Outcomes \ {"aborted"} => rec'[r] \in {rec[r], promise[r]}
  OBVIOUS
<1>. QED
  BY <1>1, <1>2, <1>11, <1>12, <1>16, <1>17, <1>18, <1>20, <1>21, ReaderMoves DEF Stands


\* The item an observer is at.
LEMMA ItemFacts ==
  ASSUME ObservationInv, NEW c \in Calls, observer[c].pc \in {"persisting", "checking"}
  PROVE  /\ Item(c) = observer[c].todo[1] /\ Item(c).request \in Requests
         /\ IOf(Item(c).request) = InteractionOf[c] /\ ByUser(Item(c), decided)
         /\ Item(c).type = "resolved" =>
              Item(c).outcome \in Outcomes /\ Item(c).outcome = promise[Item(c).request]
<1> DEFINE todo == observer[c].todo
<1>1. /\ ProductTypeOK /\ todo # <<>> /\ \A k \in DOMAIN todo : Sound(InteractionOf[c], todo[k])
  BY DEF ObservationInv, Stands, TodoOf
<1>2. todo \in Seq(EventSet)
  BY <1>1, ObserverType
<1> HIDE DEF todo
<1>3. Head(todo) = todo[1] /\ todo[1] \in EventSet /\ 1 \in DOMAIN todo
  BY <1>1, <1>2, TailFacts
<1>4. Item(c) = todo[1]
  BY <1>3 DEF Item, todo
<1> DEFINE e == todo[1]
<1>5. e \in EventSet /\ Sound(InteractionOf[c], e)
  BY <1>1, <1>3
<1> HIDE DEF e
<1>6. e.request \in Requests /\ (e.type = "resolved" => e.outcome \in Outcomes)
  BY <1>5, EventFacts
<1>. QED
  BY <1>4, <1>5, <1>6 DEF Sound, IOf, e, todo

\* An observer that takes an item goes on.
LEMMA TakesLive ==
  ASSUME ProductTypeOK, NEW c \in Calls, Takes(c)
  PROVE  \A d \in Calls : observer[d].pc \in Live => observer'[d].pc \in Live
<1>1. observer[c].then \in {"polling", "ack"} /\ observer \in [Calls -> ObserverSet]
  BY ObserverType DEF ProductTypeOK
<1> DEFINE pc == IF Len(observer[c].todo) = 1 THEN observer[c].then ELSE "persisting"
           o == [pc |-> pc, cursor |-> observer[c].cursor, call |-> CallOf[Item(c).request],
                 todo |-> Tail(observer[c].todo), then |-> observer[c].then]
<1>2. observer' = [observer EXCEPT ![c] = o]
  BY DEF Takes
<1>3. pc \in Live
  BY <1>1 DEF Live
<1> HIDE DEF pc
<1>4. o.pc = pc
  OBVIOUS
<1> HIDE DEF o
<1>5. observer'[c].pc \in Live /\ \A d \in Calls : d # c => observer'[d] = observer[d]
  BY <1>1, <1>2, <1>3, <1>4
<1>. QED
  BY <1>5

\* A request is recorded, and its interaction waits, or the observer gives up.
LEMMA PersistRequestKeeps ==
  ASSUME ObservationInv, NEW c \in Calls, PersistRequest(c) PROVE ObservationInv'
<1> DEFINE r == Item(c).request
           i == IOf(r)
<1>1. observer[c].pc = "persisting" /\ Item(c).type = "requested" /\ Correlated(c)
  BY DEF PersistRequest
<1>2. CASE FailRun(c)
  BY <1>1, <1>2, FailRunKeeps DEF Live
<1>3. CASE /\ ~RequestRefused(r) /\ RecordRequest(r) /\ Takes(c)
           /\ UNCHANGED <<coordinator, runs, routes, faults>>
  <2>1. ProductTypeOK /\ NoUnanswerableWait
    BY DEF ObservationInv
  <2>2. r \in Requests /\ i = InteractionOf[c] /\ i \in Interactions
    BY <1>1, ItemFacts, CoordinatorAssumption
  <2>3. /\ rec \in [Requests -> RecStates] /\ row \in [Interactions -> RowStates]
        /\ decision \in [Requests -> Decisions \union {"none"}]
    BY <2>1 DEF ProductTypeOK
  <2>4. /\ UNCHANGED coordinator /\ UNCHANGED <<returned, cut, route, late>> /\ decision' = decision
    BY <1>3 DEF runs, routes
  <2>5. \A d \in Calls : observer[d].pc \in Live => observer'[d].pc \in Live
    BY <1>3, <2>1, TakesLive
  <2>6. \/ rec[r] # "none" /\ rec' = rec /\ row' = row
        \/ /\ rec[r] = "none" /\ rec' = [rec EXCEPT ![r] = "open"]
           /\ row' = [row EXCEPT ![i] = "waiting"]
    BY <1>3 DEF RecordRequest, records
  <2>7. "open" \in RecStates /\ "waiting" \in RowStates /\ "open" \notin Outcomes
    BY DEF RecStates, RowStates, Outcomes
  <2> HIDE DEF r, i
  <2>8. /\ rec' \in [Requests -> RecStates] /\ row' \in [Interactions -> RowStates]
        /\ Advances(rec, rec') /\ \A q \in Requests : rec'[q] \in Outcomes => rec'[q] = rec[q]
    BY <2>2, <2>3, <2>6, <2>7 DEF Advances, Outcomes
  <2>9. NoUnanswerableWait'
    <3>1. CASE rec' = rec /\ row' = row
      BY <3>1, <2>1, <2>5 DEF NoUnanswerableWait, OpenRecords
    <3>2. CASE rec' = [rec EXCEPT ![r] = "open"] /\ row' = [row EXCEPT ![i] = "waiting"]
      <4>1. /\ r \in OpenRecords(rec', i)
            /\ \A j \in Interactions : j # i => OpenRecords(rec', j) = OpenRecords(rec, j)
        BY <3>2, <2>2, <2>3 DEF OpenRecords, i
      <4>2. \A j \in Interactions : row'[j] = "waiting" => OpenRecords(rec', j) # {}
        BY <3>2, <4>1, <2>1, <2>2, <2>3 DEF NoUnanswerableWait
      <4>3. observer'[c].pc \in Live
        BY <1>1, <2>5 DEF Live
      <4>4. \A j \in Interactions : OpenRecords(rec', j) # {} =>
              \E d \in Calls : InteractionOf[d] = j /\ observer'[d].pc \in Live
        BY <4>1, <4>3, <2>1, <2>2, <2>5 DEF NoUnanswerableWait
      <4>. QED
        BY <4>2, <4>4 DEF NoUnanswerableWait
    <3>. QED
      BY <2>6, <3>1, <3>2
  <2>. QED
    BY <1>1, <1>3, <2>3, <2>4, <2>8, <2>9, TakesKeeps
<1>. QED
  BY <1>2, <1>3 DEF PersistRequest

\* A resolution is recorded as its provider saw it, or the observer gives up.
LEMMA ResolvesKeeps ==
  ASSUME ObservationInv, NEW c \in Calls, observer[c].pc \in {"persisting", "checking"},
         Item(c).type = "resolved", Correlated(c), Resolves(c)
  PROVE  ObservationInv'
<1> DEFINE r == Item(c).request
           o == Item(c).outcome
<1>1. CASE FailRun(c)
  BY <1>1, FailRunKeeps DEF Live
<1>2. CASE /\ ~ResolutionRefused(r, o) /\ RecordResolution(r, o) /\ Takes(c)
           /\ decision' = [decision EXCEPT ![r] = "none"]
           /\ UNCHANGED <<coordinator, runs, route, late, faults>>
  <2>1. ProductTypeOK /\ NoUnanswerableWait /\ decision \in [Requests -> Decisions \union {"none"}]
    BY DEF ObservationInv, ProductTypeOK
  <2>2. r \in Requests /\ o \in Outcomes /\ o = promise[r]
    BY ItemFacts
  <2> HIDE DEF r, o
  <2>3. UNCHANGED coordinator /\ UNCHANGED <<returned, cut, route, late>>
    BY <1>2 DEF runs
  <2>4. \A d \in Calls : observer[d].pc \in Live => observer'[d].pc \in Live
    BY <1>2, <2>1, TakesLive
  <2>5. /\ rec' \in [Requests -> RecStates] /\ row' \in [Interactions -> RowStates]
        /\ Advances(rec, rec') /\ rec'[r] = o /\ \A q \in Requests : q # r => rec'[q] = rec[q]
        /\ NoUnanswerableWait'
    BY <1>2, <2>1, <2>2, <2>4, ResolutionFacts
  <2>6. /\ \A q \in Requests : rec'[q] \in Outcomes => rec'[q] \in {rec[q], promise[q]}
        /\ rec'[r] = promise[r] /\ rec'[r] # "open"
    BY <2>2, <2>5 DEF Outcomes
  <2>7. /\ \A q \in Requests : rec'[q] = "open" => decision'[q] = decision[q]
        /\ decision' \in [Requests -> Decisions \union {"none"}]
    BY <1>2, <2>1, <2>2, <2>6
  <2>. QED
    BY <1>2, <2>3, <2>5, <2>6, <2>7, TakesKeeps DEF r
<1>. QED
  BY <1>1, <1>2 DEF Resolves

\* An observer that reads an approval is at a resolution by the user.
LEMMA ReadApprovalKeeps ==
  ASSUME ObservationInv, NEW c \in Calls, ReadApproval(c) PROVE ObservationInv'
<1> DEFINE b == observer[c]
           o == [pc |-> "checking", cursor |-> b.cursor, call |-> b.call, todo |-> b.todo, then |-> b.then]
<1>1. /\ b.pc = "persisting" /\ Item(c).type = "resolved" /\ Correlated(c) /\ NeedsDecision(c)
      /\ observer' = [observer EXCEPT ![c].pc = "checking"]
      /\ UNCHANGED coordinator /\ UNCHANGED <<returned, cut, rec, row, decision, route, late>>
  BY DEF ReadApproval, records, runs, routes
<1>2. /\ CoordinatorInv /\ CallsInv /\ ProductTypeOK /\ NoUnanswerableWait /\ b \in ObserverSet
      /\ observer \in [Calls -> ObserverSet]
      /\ ObserverOf(c) /\ TodoOf(c) /\ SeenOf(c) /\ b.pc \in Live /\ coordinator' = coordinator
  BY <1>1 DEF ObservationInv, Stands, Live, ProductTypeOK
<1>3. /\ CoordinatorInv' /\ Moves({}) /\ streams' = streams /\ stale' = stale /\ begun' = begun
      /\ active' = active /\ promise' = promise /\ decided' = decided
  BY <1>2, StillGrown, EndMoves, CoordinatorStep DEF coordinator
<1>4. [b EXCEPT !.pc = "checking"] = o
  BY <1>2 DEF ObserverSet
<1>5. observer' = [observer EXCEPT ![c] = o]
  BY <1>1, <1>4
<1>6. /\ o \in ObserverSet /\ o.pc = "checking" /\ o.cursor = b.cursor /\ o.call = b.call
      /\ o.todo = b.todo /\ o.then = b.then
  BY <1>2 DEF ObserverSet, ObserverSteps, Live
<1> HIDE DEF o
<1>7. observer'[c] = o /\ \A d \in Calls : d # c => observer'[d] = observer[d]
  BY <1>2, <1>5
<1>8. /\ b.todo # <<>> /\ \A k \in DOMAIN b.todo : Sound(InteractionOf[c], b.todo[k])
      /\ Item(c) = b.todo[1]
  BY <1>1, <1>2, ItemFacts DEF TodoOf
<1>9. /\ b.todo[1].type = "resolved" /\ b.todo[1].by = b.todo[1].request
      /\ b.call \in {NoCall, CallOf[b.todo[1].request]}
  BY <1>1, <1>8 DEF NeedsDecision, Correlated
<1>10. ReadsOwn(c)' <=> ReadsOwn(c)
  BY <1>6, <1>7 DEF ReadsOwn
<1>11. ObserverOf(c)'
  BY <1>1, <1>2, <1>3, <1>6, <1>7, <1>8, <1>10 DEF ObserverOf, Live
<1>12. TodoOf(c)'
  BY <1>3, <1>6, <1>7, <1>8, <1>9 DEF TodoOf, Sound
<1>13. SeenOf(c)' /\ DoneOf(c)'
  BY <1>1, <1>2, <1>3, <1>6, <1>7, <1>10 DEF SeenOf, DoneOf
<1>14. NoUnanswerableWait'
  <2>1. \A d \in Calls : observer[d].pc \in Live => observer'[d].pc \in Live
    BY <1>6, <1>7 DEF Live
  <2>. QED
    BY <2>1, <1>1, <1>2 DEF NoUnanswerableWait, OpenRecords
<1>15. /\ rec' \in [Requests -> RecStates] /\ row' \in [Interactions -> RowStates] /\ Advances(rec, rec')
       /\ \A r \in Requests : rec'[r] \in Outcomes \ {"aborted"} => rec'[r] \in {rec[r], promise[r]}
       /\ \A r \in Requests : rec'[r] = "open" => decision'[r] = decision[r]
       /\ decision' \in [Requests -> Decisions \union {"none"}]
  BY <1>1, <1>2 DEF ProductTypeOK, Advances
<1>. QED
  BY <1>1, <1>2, <1>3, <1>5, <1>6, <1>11, <1>12, <1>13, <1>14, <1>15, ReaderMoves DEF Stands

\* The steps in which an observer persists what it read.
LEMMA PersistKeeps ==
  ASSUME ObservationInv, NEW c \in Calls,
         \/ PersistForeign(c) \/ PersistRequest(c) \/ PersistResolution(c)
         \/ ReadApproval(c) \/ CheckDecision(c)
  PROVE  ObservationInv'
<1>1. CASE PersistForeign(c)
  BY <1>1, FailRunKeeps DEF PersistForeign, Live
<1>2. CASE PersistRequest(c)
  BY <1>2, PersistRequestKeeps
<1>3. CASE PersistResolution(c)
  BY <1>3, ResolvesKeeps DEF PersistResolution
<1>4. CASE ReadApproval(c)
  BY <1>4, ReadApprovalKeeps
<1>5. CASE CheckDecision(c)
  <2>1. observer[c].pc = "checking" /\ (Resolves(c) \/ FailRun(c))
    BY <1>5 DEF CheckDecision
  <2>2. Item(c).type = "resolved" /\ Correlated(c)
    <3>1. TodoOf(c) /\ Item(c) = observer[c].todo[1]
      BY <2>1, ItemFacts DEF ObservationInv, Stands
    <3>. QED
      BY <2>1, <3>1 DEF TodoOf, Correlated
  <2>3. CASE Resolves(c)
    BY <2>1, <2>2, <2>3, ResolvesKeeps
  <2>4. CASE FailRun(c)
    BY <2>1, <2>4, FailRunKeeps DEF Live
  <2>. QED
    BY <2>1, <2>3, <2>4
<1>. QED
  BY <1>1, <1>2, <1>3, <1>4, <1>5

\* A tick of the observer's interval.
LEMMA PollKeeps ==
  ASSUME ObservationInv, NEW c \in Calls, Poll(c) PROVE ObservationInv'
<1>1. observer[c].pc = "polling"
  BY DEF Poll
<1>2. CASE FailRun(c)
  BY <1>1, <1>2, FailRunKeeps DEF Live
<1>3. CASE /\ Snapshot(InteractionOf[c], observer[c].cursor) /\ Reads(c, "polling")
           /\ UNCHANGED <<records, runs, routes, faults>>
  <2>1. UNCHANGED <<returned, cut, rec, row, decision, route, late>>
    BY <1>3 DEF records, runs, routes
  <2>2. "polling" \in {"polling", "ack"} /\ "polling" # "ack"
    OBVIOUS
  <2>. QED
    BY <1>1, <1>3, <2>1, <2>2, ReadsKeeps
<1>. QED
  BY <1>2, <1>3 DEF Poll

\* An answer to a poll is lost.
LEMMA PollLostKeeps ==
  ASSUME ObservationInv, NEW c \in Calls, PollLost(c) PROVE ObservationInv'
<1> DEFINE is == Acked(InteractionOf[c], observer[c].cursor)
<1>1. /\ observer[c].pc \in Live /\ Snapshot(InteractionOf[c], observer[c].cursor)
      /\ UNCHANGED <<observer, rec, row, decision, route, late>> /\ returned' = returned /\ cut' = cut
  BY DEF PollLost, Live, records, runs, routes
<1>2. Moves(is) /\ decided' = decided /\ CoordinatorInv'
  BY <1>1, PollMoves, SnapshotStep DEF ObservationInv
<1> HIDE DEF is
<1>. QED
  BY <1>1, <1>2, HostOnly

\* The last events are read, or their reconciliation fails.
LEMMA FinalKeeps ==
  ASSUME ObservationInv, NEW c \in Calls, FinalPoll(c) \/ FinalPollLost(c) PROVE ObservationInv'
<1> DEFINE i == InteractionOf[c]
           is == Acked(i, observer[c].cursor)
<1>1. /\ observer[c].pc \in Live /\ Snapshot(i, observer[c].cursor)
      /\ UNCHANGED <<returned, cut, decision, route, late>>
  BY DEF FinalPoll, FinalPollLost, Live, runs, routes
<1>2. Moves(is) /\ decided' = decided /\ CoordinatorInv'
  BY <1>1, PollMoves, SnapshotStep DEF ObservationInv
<1>3. CASE Settle(c, "failed")
  <2>1. "failed" \in {"done", "failed"} /\ "failed" # "done"
    OBVIOUS
  <2> HIDE DEF is
  <2>. QED
    BY <1>1, <1>2, <1>3, <2>1, SettleKeeps
<1>4. CASE FinalPoll(c) /\ Reads(c, "ack") /\ UNCHANGED records
  <2>1. observer[c].pc = "polling" /\ c \in returned \union cut /\ UNCHANGED <<rec, row>>
    BY <1>4 DEF FinalPoll, records
  <2>2. "ack" \in {"polling", "ack"}
    OBVIOUS
  <2>. QED
    BY <1>1, <1>4, <2>1, <2>2, ReadsKeeps
<1>. QED
  BY <1>3, <1>4 DEF FinalPoll, FinalPollLost

\* The second answer: a run is done only when its completion returned and nothing is past
\* its cursor.
LEMMA AckKeeps ==
  ASSUME ObservationInv, NEW c \in Calls, AckPoll(c) PROVE ObservationInv'
<1> DEFINE i == InteractionOf[c]
           is == Acked(i, observer[c].cursor)
           result == IF FinalAcknowledgement(c) /\ c \notin cut THEN "done" ELSE "failed"
<1>1. /\ observer[c].pc = "ack" /\ observer[c].pc \in Live /\ Snapshot(i, observer[c].cursor)
      /\ UNCHANGED <<returned, cut, decision, route, late>> /\ Settle(c, result)
  BY DEF AckPoll, Live, runs, routes
<1>2. Moves(is) /\ decided' = decided /\ promise' = promise /\ CoordinatorInv'
  BY <1>1, PollMoves, SnapshotStep DEF ObservationInv
<1>3. c \in returned \union cut
  BY <1>1 DEF ObservationInv, Stands, ObserverOf
<1>4. ASSUME FinalAcknowledgement(c) PROVE Len(streams[i]) <= observer[c].cursor
  <2> DEFINE s == streams[i]
             m == observer[c].cursor
  <2>1. s \in Seq(EventSet) /\ m \in Nat
    BY CoordinatorAssumption, ObserverType DEF ObservationInv, CoordinatorInv, TypeOK
  <2>2. SubSeq(s, m + 1, Len(s)) = <<>>
    BY <1>4 DEF FinalAcknowledgement, EventsAfter
  <2> HIDE DEF s, m
  <2>3. Len(s) <= m
    BY <2>1, <2>2, AfterFacts
  <2>. QED
    BY <2>3 DEF s, m
<1>5. /\ result \in {"done", "failed"}
      /\ result = "done" => c \in returned /\ Len(streams[i]) <= observer[c].cursor
  BY <1>3, <1>4
<1> HIDE DEF is, result
<1>. QED
  BY <1>1, <1>2, <1>5, SettleKeeps

(***************************************************************************)
(* The invariant of the composition, and what follows from it.             *)
(***************************************************************************)
\* The composition starts in its invariant.
LEMMA ObservationStarts == ObservationInit => ObservationInv
<1> SUFFICES ASSUME ObservationInit PROVE ObservationInv
  OBVIOUS
<1>1. /\ Init /\ observer = [c \in Calls |-> NoObserver] /\ returned = {} /\ cut = {}
      /\ rec = [r \in Requests |-> "none"] /\ row = [i \in Interactions |-> "idle"]
      /\ decision = [r \in Requests |-> "none"] /\ route = [r \in Requests |-> NoRoute] /\ late = {}
  BY DEF ObservationInit
<1>2. /\ begun = {} /\ stale = {} /\ streams = [i \in Interactions |-> <<>>]
      /\ promise = [r \in Requests |-> "none"] /\ decided = [r \in Requests |-> "none"]
  BY <1>1 DEF Init
<1>3. CoordinatorInv
  BY <1>1, CoordinatorInit
<1>4. CallsInv
  BY <1>2 DEF CallsInv
<1>5. /\ NoObserver \in ObserverSet /\ NoObserver.pc = "none" /\ NoObserver.cursor = 0
      /\ NoObserver.call = NoCall /\ NoObserver.todo = <<>> /\ NoObserver.then = "polling"
  <2>1. <<>> \in Seq(EventSet)
    OBVIOUS
  <2>. QED
    BY <2>1 DEF NoObserver, ObserverSet, ObserverSteps
<1>6. ProductTypeOK
  BY <1>1, <1>5 DEF ProductTypeOK, RecStates, RowStates, NoRoute
<1>7. DecisionInv
  BY <1>1, <1>2 DEF DecisionInv, DecisionOf, NoRoute
<1>8. RecordedAsApplied
  BY <1>1 DEF RecordedAsApplied, Outcomes
<1>9. \A c \in Calls : observer[c] = NoObserver /\ NoCall # c
  BY <1>1, ObservationAssumption
<1>10. OneReader
  BY <1>5, <1>9 DEF OneReader, Live
<1>11. NoUnanswerableWait
  BY <1>1 DEF NoUnanswerableWait, OpenRecords
<1>12. \A c \in Calls : ObserverOf(c) /\ SeenOf(c) /\ DoneOf(c)
  BY <1>1, <1>2, <1>5, <1>9 DEF ObserverOf, SeenOf, DoneOf, Live
<1>13. \A c \in Calls : TodoOf(c)
  <2>1. DOMAIN <<>> = {}
    OBVIOUS
  <2>. QED
    BY <1>5, <1>9, <2>1 DEF TodoOf
<1>. QED
  BY <1>3, <1>4, <1>6, <1>7, <1>8, <1>10, <1>11, <1>12, <1>13 DEF ObservationInv, Stands

\* Every step of the composition keeps its invariant.
LEMMA ObservationStep == ObservationInv /\ [ObservationNext]_allVars => ObservationInv'
<1> SUFFICES ASSUME ObservationInv, [ObservationNext]_allVars PROVE ObservationInv'
  OBVIOUS
<1>1. ASSUME NEW c \in Calls,
             \/ StartRun(c) \/ Begin(c) \/ TurnEnds(c) \/ AnswerCut(c) \/ Cancel(c)
             \/ Poll(c) \/ PollLost(c) \/ FinalPoll(c) \/ FinalPollLost(c) \/ AckPoll(c)
      PROVE  ObservationInv'
  BY <1>1, StartKeeps, BeginKeeps, TurnKeeps, CutKeeps, CancelKeeps, PollKeeps, PollLostKeeps,
     FinalKeeps, AckKeeps
<1>2. ASSUME NEW c \in Calls,
             \/ PersistForeign(c) \/ PersistRequest(c) \/ PersistResolution(c)
             \/ ReadApproval(c) \/ CheckDecision(c)
      PROVE  ObservationInv'
  BY <1>2, PersistKeeps
<1>3. ASSUME NEW r \in Requests,
             \/ \E d \in Decisions : SubmitDecision(r, d) \/ HostDecides(r, d) \/ LateDecision(r, d)
             \/ HostRefused(r) \/ LostAnswer(r) \/ RecordAnswer(r)
      PROVE  ObservationInv'
  BY <1>3, SubmitKeeps, HostKeeps, LateKeeps, RefusedKeeps, LostKeeps, AnswerKeeps
<1>4. CASE Provider
  BY <1>4, ProviderKeeps
<1>5. ASSUME NEW i \in Interactions, Stop(i) \/ Time(i) PROVE ObservationInv'
  BY <1>5, CutKeeps, TimeKeeps
<1>6. CASE CloseSession /\ UNCHANGED product
  BY <1>6, CloseKeeps
<1>7. CASE UNCHANGED allVars
  <2>1. UNCHANGED coordinator /\ UNCHANGED product
    BY <1>7 DEF allVars
  <2>2. CoordinatorInv /\ CallsInv
    BY DEF ObservationInv
  <2>3. CoordinatorInv' /\ Moves({}) /\ decided' = decided
    BY <2>1, <2>2, StillGrown, EndMoves, CoordinatorStep DEF coordinator
  <2>. QED
    BY <2>1, <2>3, HostOnly DEF product, records, routes, runs
<1>. QED
  BY <1>1, <1>2, <1>3, <1>4, <1>5, <1>6, <1>7 DEF ObservationNext

\* The composition keeps its inductive invariant.
THEOREM ObservationInvariant == ObservationSpec => []ObservationInv
BY ObservationStarts, ObservationStep, PTL DEF ObservationSpec

\* RecordedAsApplied: whatever answers are lost, polls retried and runs abandoned, the
\* database never claims an outcome that the provider did not see.
THEOREM RecordsAreTrue == ObservationSpec => []RecordedAsApplied
<1>1. ObservationInv => RecordedAsApplied
  BY DEF ObservationInv
<1>. QED
  BY <1>1, ObservationInvariant, PTL

\* RefusedOnlyIfRecorded: an observer between its read of an approval and its lookup of the
\* decision finds the product's own decision, unless the answer was recorded in between.
THEOREM ResolutionsAuthorized == ObservationSpec => []RefusedOnlyIfRecorded
<1>1. ASSUME ObservationInv PROVE RefusedOnlyIfRecorded
  <2> SUFFICES ASSUME NEW c \in Calls, observer[c].pc = "checking", rec[Item(c).request] = "open"
               PROVE  Authorized(c)
    BY DEF RefusedOnlyIfRecorded
  <2> DEFINE e == Item(c)
  <2>1. e = observer[c].todo[1] /\ e.request \in Requests /\ ByUser(e, decided)
    BY <1>1, ItemFacts
  <2>2. e.type = "resolved" /\ e.by = e.request
    BY <1>1, <2>1 DEF ObservationInv, Stands, TodoOf
  <2>3. decided[e.request] # "none" => decision[e.request] = decided[e.request]
    BY <1>1, <2>1 DEF ObservationInv, DecisionInv, DecisionOf
  <2>. QED
    BY <2>1, <2>2, <2>3 DEF ByUser, Authorized
<1>. QED
  BY <1>1, ObservationInvariant, PTL

\* NoUnanswerableWait: an interaction waits only for a request that is still open, and while
\* one is open some run observes it.
THEOREM WaitsAreAnswerable == ObservationSpec => []NoUnanswerableWait
<1>1. ObservationInv => NoUnanswerableWait
  BY DEF ObservationInv
<1>. QED
  BY <1>1, ObservationInvariant, PTL

\* DoneSawEverything: a run that succeeds recorded every request of its completion, with
\* the outcome its provider saw, for every schedule of polls, stops and lost answers.
THEOREM DoneRunsSawEverything == ObservationSpec => []DoneSawEverything
<1>1. ObservationInv => DoneSawEverything
  BY DEF ObservationInv, DoneSawEverything, Stands, DoneOf
<1>. QED
  BY <1>1, ObservationInvariant, PTL

(***************************************************************************)
(* How far a call can leak.                                                *)
(***************************************************************************)
\* An observer takes only calls of the interaction it reads.
TakesOwnInteraction ==
  \A c \in Calls : observer[c].call # NoCall => InteractionOf[observer[c].call] = InteractionOf[c]

\* No interaction is attempted twice.
OneAttempt == \A c, d \in Calls : InteractionOf[c] = InteractionOf[d] => c = d

\* An observer keeps the call it took, or takes one of its interaction.
LEMMA TakesOwn ==
  ASSUME TakesOwnInteraction, ProductTypeOK, NEW c \in Calls, NEW o,
         observer' = [observer EXCEPT ![c] = o],
         o.call = observer[c].call \/ InteractionOf[o.call] = InteractionOf[c]
  PROVE  TakesOwnInteraction'
<1>1. observer'[c] = o /\ \A d \in Calls : d # c => observer'[d] = observer[d]
  BY DEF ProductTypeOK
<1>2. o.call # NoCall => InteractionOf[o.call] = InteractionOf[c]
  BY DEF TakesOwnInteraction
<1>. QED
  BY <1>1, <1>2 DEF TakesOwnInteraction

\* The steps that move an observer keep it to its interaction.
LEMMA ObserverTakesOwn ==
  ASSUME ObservationInv, TakesOwnInteraction, NEW c \in Calls,
         \/ \E result \in {"done", "failed"} : Settle(c, result)
         \/ \E then \in {"polling", "ack"} : Reads(c, then)
         \/ observer[c].pc \in {"persisting", "checking"} /\ Takes(c)
         \/ ReadApproval(c) \/ StartRun(c)
  PROVE  TakesOwnInteraction'
<1>1. ProductTypeOK /\ observer[c] \in ObserverSet
  BY DEF ObservationInv, ProductTypeOK
<1>2. CASE \E result \in {"done", "failed"} : Settle(c, result)
  <2>1. PICK result : observer' = [observer EXCEPT ![c] = Ended(c, result)]
    BY <1>2 DEF Settle
  <2>2. Ended(c, result).call = observer[c].call
    BY DEF Ended
  <2>. QED
    BY <1>1, <2>1, <2>2, TakesOwn
<1>3. CASE \E then \in {"polling", "ack"} : Reads(c, then)
  <2>1. PICK then, pc, items, m : observer' = [observer EXCEPT ![c] =
          [pc |-> pc, cursor |-> m, call |-> observer[c].call, todo |-> items, then |-> then]]
    BY <1>3 DEF Reads
  <2> DEFINE o == [pc |-> pc, cursor |-> m, call |-> observer[c].call, todo |-> items, then |-> then]
  <2>2. o.call = observer[c].call
    OBVIOUS
  <2> HIDE DEF o
  <2>. QED
    BY <1>1, <2>1, <2>2, TakesOwn DEF o
<1>4. CASE observer[c].pc \in {"persisting", "checking"} /\ Takes(c)
  <2> DEFINE call == CallOf[Item(c).request]
  <2>1. InteractionOf[call] = InteractionOf[c]
    BY <1>4, ItemFacts DEF IOf
  <2> HIDE DEF call
  <2>2. PICK then, pc, items, m : observer' = [observer EXCEPT ![c] =
          [pc |-> pc, cursor |-> m, call |-> call, todo |-> items, then |-> then]]
    BY <1>4 DEF Takes, call
  <2> DEFINE o == [pc |-> pc, cursor |-> m, call |-> call, todo |-> items, then |-> then]
  <2>3. o.call = call
    OBVIOUS
  <2> HIDE DEF o
  <2>. QED
    BY <1>1, <2>1, <2>2, <2>3, TakesOwn DEF o
<1>5. CASE ReadApproval(c) \/ StartRun(c)
  <2>1. PICK pc : observer' = [observer EXCEPT ![c] = [observer[c] EXCEPT !.pc = pc]]
    BY <1>5 DEF ReadApproval, StartRun
  <2>2. [observer[c] EXCEPT !.pc = pc].call = observer[c].call
    BY <1>1 DEF ObserverSet
  <2>. QED
    BY <1>1, <2>1, <2>2, TakesOwn
<1>. QED
  BY <1>2, <1>3, <1>4, <1>5

\* Every step of the composition keeps every observer to its interaction.
LEMMA TakesOwnStep ==
  ASSUME ObservationInv, TakesOwnInteraction, [ObservationNext]_allVars
  PROVE  TakesOwnInteraction'
<1>1. CASE observer' = observer
  BY <1>1 DEF TakesOwnInteraction
<1>2. ASSUME NEW c \in Calls,
             \/ StartRun(c) \/ Poll(c) \/ FinalPoll(c) \/ FinalPollLost(c) \/ AckPoll(c)
      PROVE  TakesOwnInteraction'
  <2>1. \/ \E result \in {"done", "failed"} : Settle(c, result)
        \/ \E then \in {"polling", "ack"} : Reads(c, then)
        \/ StartRun(c)
    BY <1>2 DEF Poll, FinalPoll, FinalPollLost, AckPoll, FailRun
  <2>. QED
    BY <2>1, ObserverTakesOwn
<1>3. ASSUME NEW c \in Calls,
             \/ PersistForeign(c) \/ PersistRequest(c) \/ PersistResolution(c)
             \/ ReadApproval(c) \/ CheckDecision(c)
      PROVE  TakesOwnInteraction'
  <2>1. \/ \E result \in {"done", "failed"} : Settle(c, result)
        \/ observer[c].pc \in {"persisting", "checking"} /\ Takes(c)
        \/ ReadApproval(c)
    BY <1>3 DEF PersistForeign, PersistRequest, PersistResolution, CheckDecision, Resolves, FailRun
  <2>. QED
    BY <2>1, ObserverTakesOwn
<1>4. ASSUME NEW c \in Calls, Begin(c) \/ TurnEnds(c) \/ AnswerCut(c) \/ Cancel(c) \/ PollLost(c)
      PROVE  observer' = observer
  BY <1>4 DEF Begin, TurnEnds, AnswerCut, Cancel, PollLost, product
<1>5. ASSUME NEW r \in Requests,
             \/ \E d \in Decisions : SubmitDecision(r, d) \/ HostDecides(r, d) \/ LateDecision(r, d)
             \/ HostRefused(r) \/ LostAnswer(r) \/ RecordAnswer(r)
      PROVE  observer' = observer
  BY <1>5 DEF SubmitDecision, HostDecides, LateDecision, HostRefused, LostAnswer, RecordAnswer
<1>6. Provider \/ (\E i \in Interactions : Stop(i) \/ Time(i)) \/ (CloseSession /\ UNCHANGED product)
        \/ UNCHANGED allVars => observer' = observer
  BY DEF Provider, Stop, Time, product, allVars
<1>. QED
  BY <1>1, <1>2, <1>3, <1>4, <1>5, <1>6 DEF ObservationNext

\* An earlier attempt's call leaks at most into another attempt of the same interaction:
\* whatever streams are kept, dropped or read twice, persist_approval_snapshot never takes a
\* call of another interaction as its complete_call_id.
THEOREM LeaksStayInInteraction == ObservationSpec => []TakesOwnInteraction
<1>1. ObservationInit => TakesOwnInteraction
  BY DEF ObservationInit, NoObserver, TakesOwnInteraction
<1>2. ObservationInv /\ TakesOwnInteraction /\ [ObservationNext]_allVars => TakesOwnInteraction'
  BY TakesOwnStep
<1>. QED
  BY <1>1, <1>2, ObservationInvariant, PTL DEF ObservationSpec

\* NoLeakedCall, the promise that a retried run breaks, holds as long as no interaction is
\* attempted twice: the leak needs a second attempt.
THEOREM NoLeakWithoutRetry ==
  ASSUME OneAttempt
  PROVE  ObservationSpec => []NoLeakedCall
<1>1. ASSUME ObservationInv, TakesOwnInteraction PROVE NoLeakedCall
  <2> SUFFICES ASSUME NEW c \in Calls, observer[c].call # NoCall PROVE observer[c].call = c
    BY DEF NoLeakedCall
  <2>1. observer[c].call \in Calls
    BY <1>1, ObserverType DEF ObservationInv
  <2>. QED
    BY <1>1, <2>1 DEF TakesOwnInteraction, OneAttempt
<1>. QED
  BY <1>1, ObservationInvariant, LeaksStayInInteraction, PTL

\* Without retries, every run that succeeds recorded every request of its completion.
THEOREM EveryDoneRunSawEverything ==
  ASSUME OneAttempt
  PROVE  ObservationSpec => [](\A c \in Calls : observer[c].pc = "done" =>
           \A r \in Requests : CallOf[r] = c /\ promise[r] \in Outcomes => rec[r] = promise[r])
<1>1. NoLeakedCall /\ DoneSawEverything =>
        \A c \in Calls : observer[c].pc = "done" =>
          \A r \in Requests : CallOf[r] = c /\ promise[r] \in Outcomes => rec[r] = promise[r]
  BY DEF NoLeakedCall, DoneSawEverything
<1>. QED
  BY <1>1, NoLeakWithoutRetry, DoneRunsSawEverything, PTL
=============================================================================
