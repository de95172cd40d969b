--------------------------- MODULE SelectionProofs ---------------------------
EXTENDS Selections, FiniteSets, FiniteSetTheorems, SequenceTheorems, WellFoundedInduction, TLAPS

\* Induction over the naturals for a set, from the least number that is not in it.
LEMMA SetInduction ==
  ASSUME NEW S, 0 \in S, \A n \in Nat : n \in S => n + 1 \in S
  PROVE  \A n \in Nat : n \in S
<1> DEFINE T == Nat \ S
           R == OpToRel(<, Nat)
<1>1. SUFFICES ASSUME T # {} PROVE FALSE
  OBVIOUS
<1>2. IsWellFoundedOn(R, Nat)
  BY NatLessThanWellFounded
<1>3. \A x, y \in Nat : x < y => <<x, y>> \in R
  BY DEF OpToRel
<1>4. PICK x \in T : \A y \in T : ~(<<y, x>> \in R)
  <2> HIDE DEF R, T
  <2> T \subseteq Nat
    BY DEF T
  <2> QED
    BY <1>1, <1>2, WFMin
<1>5. x # 0 /\ x \in Nat
  OBVIOUS
<1>6. x - 1 \in Nat /\ x - 1 < x
  BY <1>5
<1>7. x - 1 \notin T
  BY <1>3, <1>4, <1>5, <1>6
<1>8. x - 1 \in S /\ (x - 1) + 1 = x
  BY <1>5, <1>6, <1>7
<1>. QED
  BY <1>6, <1>8

\* The first k members of a sequence.
LEMMA Prefix ==
  ASSUME NEW T, NEW s \in Seq(T), NEW k \in 0 .. Len(s)
  PROVE  /\ SubSeq(s, 1, k) \in Seq(T) /\ Len(SubSeq(s, 1, k)) = k
         /\ DOMAIN SubSeq(s, 1, k) = 1 .. k
         /\ \A i \in 1 .. k : SubSeq(s, 1, k)[i] = s[i]
<1> DEFINE p == SubSeq(s, 1, k)
<1>1. k \in Nat /\ Len(s) \in Nat /\ \A i \in 1 .. k : s[i] \in T
  <2>1. k \in Nat /\ Len(s) \in Nat /\ DOMAIN s = 1 .. Len(s) /\ k <= Len(s)
    OBVIOUS
  <2>. QED
    BY <2>1
<1>2. /\ p \in Seq(T) /\ Len(p) = IF 1 <= k THEN k - 1 + 1 ELSE 0
      /\ \A i \in 1 .. k - 1 + 1 : p[i] = s[1 + i - 1]
  <2> HIDE DEF p
  <2>. QED
    BY <1>1, SubSeqProperties DEF p
<1>3. k - 1 + 1 = k /\ (~(1 <= k) => k = 0) /\ \A i \in 1 .. k : 1 + i - 1 = i
  BY <1>1
<1> HIDE DEF p
<1>4. Len(p) = k /\ \A i \in 1 .. k : p[i] = s[i]
  BY <1>2, <1>3
<1>. QED
  BY <1>2, <1>4 DEF p

\* The values of a function at the members of a sequence.
Mapped(g, s) == [i \in DOMAIN s |-> g[s[i]]]

MapsOver(g, T, a, b) ==
  /\ Mapped(g, a) \o Mapped(g, b) = Mapped(g, a \o b)
  /\ Mapped(g, a \o b) \in Seq(T) /\ Mapped(g, b) \in Seq(T)

\* A function on an interval from 1 is a sequence.
LEMMA IntervalSeq ==
  ASSUME NEW T, NEW n \in Nat, NEW f \in [1 .. n -> T]
  PROVE  f \in Seq(T) /\ Len(f) = n
OBVIOUS

\* They may be taken before or after a concatenation.
LEMMA MapConcat ==
  ASSUME NEW D, NEW T, NEW g \in [D -> T], NEW a \in Seq(D), NEW b \in Seq(D)
  PROVE  MapsOver(g, T, a, b)
<1> DEFINE ab == a \o b
           ga == Mapped(g, a)
           gb == Mapped(g, b)
           gab == Mapped(g, ab)
<1>1. /\ Len(a) \in Nat /\ Len(b) \in Nat /\ DOMAIN a = 1 .. Len(a) /\ DOMAIN b = 1 .. Len(b)
      /\ \A i \in 1 .. Len(a) : a[i] \in D
      /\ \A i \in 1 .. Len(b) : b[i] \in D
  OBVIOUS
<1>2. /\ ab \in Seq(D) /\ Len(ab) = Len(a) + Len(b)
      /\ \A i \in 1 .. Len(a) + Len(b) : ab[i] = IF i <= Len(a) THEN a[i] ELSE b[i - Len(a)]
  BY ConcatProperties
<1> HIDE DEF ab
<1>3. DOMAIN ab = 1 .. Len(a) + Len(b) /\ \A i \in DOMAIN ab : ab[i] \in D
  BY <1>1, <1>2
<1>4. ga \in Seq(T) /\ Len(ga) = Len(a)
  <2>1. ga \in [1 .. Len(a) -> T]
    BY <1>1 DEF Mapped
  <2> HIDE DEF ga
  <2>. QED
    BY <1>1, <2>1, IntervalSeq
<1>5. gb \in Seq(T) /\ Len(gb) = Len(b)
  <2>1. gb \in [1 .. Len(b) -> T]
    BY <1>1 DEF Mapped
  <2> HIDE DEF gb
  <2>. QED
    BY <1>1, <2>1, IntervalSeq
<1>6. gab \in Seq(T) /\ Len(gab) = Len(a) + Len(b)
  <2>1. gab \in [1 .. Len(a) + Len(b) -> T]
    BY <1>3 DEF Mapped
  <2>. QED
    BY <1>1, <2>1
<1>7. /\ \A i \in 1 .. Len(a) : ga[i] = g[a[i]]
      /\ \A i \in 1 .. Len(b) : gb[i] = g[b[i]]
      /\ \A i \in 1 .. Len(a) + Len(b) : gab[i] = g[ab[i]]
  BY <1>1, <1>3 DEF Mapped
<1> HIDE DEF ga, gb, gab
<1> DEFINE gg == ga \o gb
<1>8. /\ gg \in Seq(T) /\ Len(gg) = Len(ga) + Len(gb)
      /\ \A i \in 1 .. Len(ga) + Len(gb) :
           gg[i] = IF i <= Len(ga) THEN ga[i] ELSE gb[i - Len(ga)]
  BY <1>4, <1>5, ConcatProperties
<1> HIDE DEF gg
<1>9. ASSUME NEW i \in 1 .. Len(a) + Len(b) PROVE gg[i] = gab[i]
  <2>1. CASE i <= Len(a)
    <3>1. i \in 1 .. Len(a)
      BY <2>1, <1>1
    <3>2. gg[i] = ga[i] /\ ab[i] = a[i]
      BY <2>1, <1>2, <1>4, <1>5, <1>8
    <3>. QED
      BY <3>1, <3>2, <1>7
  <2>2. CASE ~(i <= Len(a))
    <3>1. i - Len(a) \in 1 .. Len(b)
      BY <2>2, <1>1
    <3>2. gg[i] = gb[i - Len(a)] /\ ab[i] = b[i - Len(a)]
      BY <2>2, <1>2, <1>4, <1>5, <1>8
    <3>. QED
      BY <3>1, <3>2, <1>7
  <2>. QED
    BY <2>1, <2>2
<1>10. gg = gab
  BY <1>4, <1>5, <1>6, <1>8, <1>9, SeqEqual
<1>. QED
  BY <1>5, <1>6, <1>10 DEF ga, gb, gab, gg, ab, MapsOver

\* The sequence of numbers increases.
Increasing(s) == \A j, k \in DOMAIN s : j < k => s[j] < s[k]

Members(s) == {s[k] : k \in DOMAIN s}

\* A member of both, with the same members before it, is not later in the second.
LEMMA IncreasingNext ==
  ASSUME NEW a \in Seq(Nat), NEW b \in Seq(Nat), Increasing(a), Increasing(b),
         Members(a) \subseteq Members(b), NEW k \in DOMAIN a,
         \A j \in DOMAIN b : j < k => j \in DOMAIN a /\ a[j] = b[j]
  PROVE  k \in DOMAIN b /\ b[k] <= a[k]
<1>1. PICK j \in DOMAIN b : b[j] = a[k]
  BY DEF Members
<1>2. /\ DOMAIN a = 1 .. Len(a) /\ DOMAIN b = 1 .. Len(b)
      /\ Len(a) \in Nat /\ Len(b) \in Nat /\ j \in Nat /\ k \in Nat
  OBVIOUS
<1>3. a[k] \in Nat /\ b[j] \in Nat
  OBVIOUS
<1>4. ~(j < k)
  <2> SUFFICES ASSUME j < k PROVE FALSE
    OBVIOUS
  <2>1. j \in DOMAIN a /\ a[j] = b[j]
    OBVIOUS
  <2>2. a[j] < a[k]
    BY <2>1 DEF Increasing
  <2>. QED
    BY <1>1, <1>3, <2>1, <2>2
<1>5. k \in DOMAIN b
  BY <1>2, <1>4
<1>6. b[k] = b[j] \/ b[k] < b[j]
  <2>1. CASE k = j
    BY <2>1
  <2>2. CASE k < j
    BY <2>2, <1>5 DEF Increasing
  <2>. QED
    BY <2>1, <2>2, <1>2, <1>4
<1>7. b[k] \in Nat
  BY <1>5
<1>. QED
  BY <1>1, <1>3, <1>5, <1>6, <1>7

\* Two increasing sequences with the same members are the same.
LEMMA IncreasingUnique ==
  ASSUME NEW a \in Seq(Nat), NEW b \in Seq(Nat), Increasing(a), Increasing(b),
         Members(a) = Members(b)
  PROVE  a = b
<1> DEFINE Same(k) == k \in DOMAIN a \/ k \in DOMAIN b =>
                        k \in DOMAIN a /\ k \in DOMAIN b /\ a[k] = b[k]
           S == {n \in Nat : \A k \in 1 .. n : Same(k)}
<1>1. 0 \in S
  OBVIOUS
<1>2. ASSUME NEW n \in Nat, n \in S PROVE n + 1 \in S
  <2>1. \A j \in 1 .. n : Same(j)
    BY <1>2
  <2>2. /\ \A j \in DOMAIN b : j < n + 1 => j \in DOMAIN a /\ a[j] = b[j]
        /\ \A j \in DOMAIN a : j < n + 1 => j \in DOMAIN b /\ b[j] = a[j]
    BY <2>1
  <2>3. n + 1 \in DOMAIN a => n + 1 \in DOMAIN b /\ b[n + 1] <= a[n + 1]
    BY <2>2, IncreasingNext
  <2>4. n + 1 \in DOMAIN b => n + 1 \in DOMAIN a /\ a[n + 1] <= b[n + 1]
    BY <2>2, IncreasingNext
  <2>5. n + 1 \in DOMAIN a /\ n + 1 \in DOMAIN b => a[n + 1] \in Nat /\ b[n + 1] \in Nat
    OBVIOUS
  <2>6. Same(n + 1)
    BY <2>3, <2>4, <2>5
  <2>. QED
    BY <2>1, <2>6
<1>3. \A n \in Nat : n \in S
  <2> HIDE DEF S
  <2> QED
    BY <1>1, <1>2, SetInduction
<1>4. ASSUME NEW k \in Nat, k # 0 PROVE Same(k)
  <2>1. k \in 1 .. k
    BY <1>4
  <2>2. \A j \in 1 .. k : Same(j)
    BY <1>3
  <2> HIDE DEF Same
  <2>. QED
    BY <2>1, <2>2
<1>5. \A k \in Nat : k # 0 => (k \in DOMAIN a <=> k \in DOMAIN b)
  BY <1>4
<1>6. DOMAIN a \subseteq Nat \ {0} /\ DOMAIN b \subseteq Nat \ {0}
  OBVIOUS
<1>7. DOMAIN a = DOMAIN b
  BY <1>5, <1>6
<1>8. \A k \in DOMAIN a : a[k] = b[k]
  BY <1>4, <1>6
<1>9. Len(a) = Len(b)
  BY <1>7
<1>. QED
  BY <1>8, <1>9

\* The recursive function of Ascending exists, and so satisfies its definition.
LEMMA AscendingRec ==
  ASSUME NEW S, NEW N \in Nat
  PROVE  \E f : /\ f = [m \in 0 .. N |-> IF m = 0 THEN << >>
                            ELSE IF m \in S THEN Append(f[m - 1], m) ELSE f[m - 1]]
                /\ Ascending(N, S) = f[N]
<1> DEFINE Is(f, n) == f = [m \in 0 .. n |-> IF m = 0 THEN << >>
                            ELSE IF m \in S THEN Append(f[m - 1], m) ELSE f[m - 1]]
           T == {n \in Nat : \E f : Is(f, n)}
<1>1. 0 \in T
  <2>1. Is([m \in 0 .. 0 |-> << >>], 0)
    OBVIOUS
  <2>. QED
    BY <2>1
<1>2. ASSUME NEW n \in Nat, n \in T PROVE n + 1 \in T
  <2>1. PICK f : Is(f, n)
    BY <1>2
  <2> DEFINE g == [m \in 0 .. n + 1 |-> IF m <= n THEN f[m]
                     ELSE IF m \in S THEN Append(f[m - 1], m) ELSE f[m - 1]]
  <2>2. \A m \in 0 .. n + 1 :
          g[m] = IF m = 0 THEN << >> ELSE IF m \in S THEN Append(g[m - 1], m) ELSE g[m - 1]
    <3> TAKE m \in 0 .. n + 1
    <3>1. CASE m = 0
      BY <3>1, <2>1
    <3>2. CASE m # 0 /\ m <= n
      <4>1. m \in 0 .. n /\ m - 1 \in 0 .. n /\ m - 1 \in 0 .. n + 1 /\ m - 1 <= n
        BY <3>2
      <4>2. g[m] = f[m] /\ g[m - 1] = f[m - 1]
        BY <3>2, <4>1
      <4>3. f[m] = IF m \in S THEN Append(f[m - 1], m) ELSE f[m - 1]
        BY <3>2, <4>1, <2>1
      <4>. QED
        BY <3>2, <4>2, <4>3
    <3>3. CASE m = n + 1
      BY <3>3, <2>1
    <3>. QED
      BY <3>1, <3>2, <3>3
  <2>3. Is(g, n + 1)
    BY <2>2
  <2> HIDE DEF g, Is
  <2>4. \E h : Is(h, n + 1)
    BY <2>3
  <2>. QED
    BY <2>4
<1>3. \A n \in Nat : n \in T
  <2> HIDE DEF T
  <2> QED
    BY <1>1, <1>2, SetInduction
<1>4. \E f : Is(f, N)
  BY <1>3
<1>5. Is(CHOOSE f : Is(f, N), N)
  <2> HIDE DEF Is
  <2> QED
    BY <1>4
<1>6. Ascending(N, S) = (CHOOSE f : Is(f, N))[N]
  BY DEF Ascending
<1>. QED
  BY <1>5, <1>6
\* What Ascending is: the increasing sequence of the members of S up to n.
LEMMA AscendingIs ==
  ASSUME NEW S, NEW N \in Nat
  PROVE  /\ Ascending(N, S) \in Seq(Nat) /\ Increasing(Ascending(N, S))
         /\ Members(Ascending(N, S)) = S \intersect (1 .. N)
<1>1. PICK f : /\ f = [m \in 0 .. N |-> IF m = 0 THEN << >>
                            ELSE IF m \in S THEN Append(f[m - 1], m) ELSE f[m - 1]]
               /\ Ascending(N, S) = f[N]
  BY AscendingRec
<1> DEFINE Good(n) == f[n] \in Seq(Nat) /\ Increasing(f[n])
                      /\ Members(f[n]) = S \intersect (1 .. n)
           T == {n \in Nat : n <= N => Good(n)}
<1>2. 0 \in T
  <2>1. f[0] = << >>
    BY <1>1
  <2>2. << >> \in Seq(Nat) /\ Increasing(<< >>) /\ Members(<< >>) = {}
    BY DEF Increasing, Members
  <2>3. S \intersect (1 .. 0) = {}
    OBVIOUS
  <2>. QED
    BY <2>1, <2>2, <2>3
<1>3. ASSUME NEW n \in Nat, n \in T PROVE n + 1 \in T
  <2> SUFFICES ASSUME n + 1 <= N PROVE Good(n + 1)
    OBVIOUS
  <2>1. f[n + 1] = IF n + 1 \in S THEN Append(f[n], n + 1) ELSE f[n]
    <3>1. n + 1 \in 0 .. N /\ n + 1 # 0 /\ (n + 1) - 1 = n
      OBVIOUS
    <3>. QED
      BY <1>1, <3>1
  <2>2. Good(n)
    BY <1>3
  <2>3. CASE n + 1 \notin S
    <3>1. S \intersect (1 .. n + 1) = S \intersect (1 .. n)
      BY <2>3
    <3>. QED
      BY <2>1, <2>2, <2>3, <3>1
  <2>4. CASE n + 1 \in S
    <3> DEFINE s == f[n]
               t == Append(s, n + 1)
    <3>1. s \in Seq(Nat) /\ f[n + 1] = t /\ t \in Seq(Nat)
      BY <2>1, <2>2, <2>4
    <3> HIDE DEF s
    <3>2. /\ DOMAIN s = 1 .. Len(s) /\ Len(s) \in Nat /\ DOMAIN t = 1 .. Len(s) + 1
          /\ t[Len(s) + 1] = n + 1 /\ \A k \in DOMAIN s : t[k] = s[k]
      BY <3>1
    <3>3. \A k \in DOMAIN s : s[k] \in S \intersect (1 .. n)
      BY <2>2 DEF Members, s
    <3>4. Increasing(t)
      <4> SUFFICES ASSUME NEW j \in DOMAIN t, NEW k \in DOMAIN t, j < k PROVE t[j] < t[k]
        BY DEF Increasing
      <4>1. j \in DOMAIN s
        BY <3>2
      <4>2. CASE k \in DOMAIN s
        <5>1. s[j] < s[k]
          BY <4>1, <4>2, <2>2 DEF Increasing, s
        <5>. QED
          BY <4>1, <4>2, <5>1, <3>2
      <4>3. CASE k = Len(s) + 1
        BY <4>1, <4>3, <3>2, <3>3
      <4>. QED
        BY <4>2, <4>3, <3>2
    <3>5. Members(s) = S \intersect (1 .. n)
      BY <2>2 DEF s
    <3>6. Members(t) = Members(s) \union {n + 1}
      BY <3>2 DEF Members
    <3>7. Members(t) = S \intersect (1 .. n + 1)
      BY <3>5, <3>6, <2>4
    <3>. QED
      BY <3>1, <3>4, <3>7
  <2>. QED
    BY <2>3, <2>4
<1>4. \A n \in Nat : n \in T
  <2> HIDE DEF T
  <2> QED
    BY <1>2, <1>3, SetInduction
<1>5. Good(N)
  BY <1>4
<1>. QED
  BY <1>1, <1>5
\* Only the members up to n count.
LEMMA AscendingSame ==
  ASSUME NEW N \in Nat, NEW P, NEW Q, P \intersect (1 .. N) = Q \intersect (1 .. N)
  PROVE  Ascending(N, P) = Ascending(N, Q)
<1>1. Members(Ascending(N, P)) = Members(Ascending(N, Q))
  BY AscendingIs
<1>. QED
  BY <1>1, AscendingIs, IncreasingUnique

\* The k-th of rest is a member of P past M, and as far as that rest continues the members up to M.
Continues(M, N, P, rest, k) ==
  /\ rest \in Seq(Nat) /\ rest[k] \in P /\ rest[k] \in M + 1 .. N
  /\ Ascending(rest[k], P) = Ascending(M, P) \o SubSeq(rest, 1, k)

\* So do the numbers past M.
LEMMA AscendingFrom ==
  ASSUME NEW M \in Nat, NEW N \in Nat, NEW P, NEW Q, Q = {n \in P : n > M},
         NEW rest, rest = Ascending(N, Q), NEW k \in 1 .. Len(rest)
  PROVE  Continues(M, N, P, rest, k)
<1> DEFINE a == Ascending(M, P)
           b == SubSeq(rest, 1, k)
           m == rest[k]
           ab == a \o b
<1>1. rest \in Seq(Nat) /\ Increasing(rest) /\ Members(rest) = Q \intersect (1 .. N)
  BY AscendingIs
<1>2. a \in Seq(Nat) /\ Increasing(a) /\ Members(a) = P \intersect (1 .. M)
  BY AscendingIs
<1> HIDE DEF a
<1>3. /\ DOMAIN rest = 1 .. Len(rest) /\ Len(rest) \in Nat
      /\ DOMAIN a = 1 .. Len(a) /\ Len(a) \in Nat /\ k \in DOMAIN rest
  BY <1>1, <1>2
<1>4. /\ \A j \in DOMAIN rest : rest[j] \in P /\ rest[j] \in M + 1 .. N
      /\ \A n \in P : n \in M + 1 .. N => \E j \in DOMAIN rest : rest[j] = n
  <2>1. ASSUME NEW j \in DOMAIN rest PROVE rest[j] \in P /\ rest[j] \in M + 1 .. N
    <3>1. rest[j] \in Q \intersect (1 .. N)
      BY <1>1 DEF Members
    <3>. QED
      BY <3>1
  <2>2. ASSUME NEW n \in P, n \in M + 1 .. N PROVE \E j \in DOMAIN rest : rest[j] = n
    <3>1. n \in Q \intersect (1 .. N)
      BY <2>2
    <3>. QED
      BY <3>1, <1>1 DEF Members
  <2>. QED
    BY <2>1, <2>2
<1>5. /\ b \in Seq(Nat) /\ Len(b) = k /\ \A j \in 1 .. k : b[j] = rest[j]
  <2>0. k \in Nat /\ 1 <= k /\ k <= Len(rest)
    BY <1>3
  <2>1. k \in Int /\ 1 <= k /\ \A j \in 1 .. k : rest[j] \in Nat
    <3>1. \A j \in DOMAIN rest : rest[j] \in Nat
      BY <1>1
    <3>2. \A j \in 1 .. k : j \in DOMAIN rest
      BY <2>0, <1>3
    <3>. QED
      BY <2>0, <3>1, <3>2
  <2>2. /\ b \in Seq(Nat) /\ Len(b) = IF 1 <= k THEN k - 1 + 1 ELSE 0
        /\ \A j \in 1 .. k - 1 + 1 : b[j] = rest[1 + j - 1]
    <3> HIDE DEF b
    <3>. QED
      BY <2>1, SubSeqProperties DEF b
  <2>3. k - 1 + 1 = k /\ \A j \in 1 .. k : 1 + j - 1 = j
    BY <2>1
  <2>. QED
    BY <2>1, <2>2, <2>3
<1> HIDE DEF b
<1>6. m \in Nat /\ m \in P /\ m \in M + 1 .. N
  BY <1>3, <1>4
<1>7. /\ ab \in Seq(Nat) /\ DOMAIN ab = 1 .. Len(a) + k
      /\ \A j \in 1 .. Len(a) : ab[j] = a[j]
      /\ \A j \in 1 .. k : ab[Len(a) + j] = rest[j]
  BY <1>2, <1>3, <1>5
<1> HIDE DEF ab
<1>8. \A j \in 1 .. Len(a) : a[j] \in P \intersect (1 .. M)
  BY <1>2, <1>3 DEF Members
<1>9. Increasing(ab)
  <2> SUFFICES ASSUME NEW i \in 1 .. Len(a) + k, NEW j \in 1 .. Len(a) + k, i < j
               PROVE  ab[i] < ab[j]
    BY <1>7 DEF Increasing
  <2>1. CASE j <= Len(a)
    <3>1. i \in DOMAIN a /\ j \in DOMAIN a
      BY <2>1, <1>3
    <3>. QED
      BY <1>2, <1>3, <1>7, <3>1 DEF Increasing
  <2>2. CASE i <= Len(a) /\ j > Len(a)
    <3>1. j - Len(a) \in 1 .. k /\ j = Len(a) + (j - Len(a)) /\ i \in 1 .. Len(a)
      BY <2>2, <1>3
    <3>2. ab[i] = a[i] /\ ab[j] = rest[j - Len(a)]
      BY <1>7, <3>1
    <3>3. a[i] \in 1 .. M /\ rest[j - Len(a)] \in M + 1 .. N
      BY <1>4, <1>8, <1>3, <3>1
    <3>. QED
      BY <3>2, <3>3
  <2>3. CASE i > Len(a)
    <3>1. /\ j - Len(a) \in 1 .. k /\ j = Len(a) + (j - Len(a))
          /\ i - Len(a) \in 1 .. k /\ i = Len(a) + (i - Len(a)) /\ i - Len(a) < j - Len(a)
      BY <2>3, <1>3
    <3>2. ab[i] = rest[i - Len(a)] /\ ab[j] = rest[j - Len(a)]
      BY <1>7, <3>1
    <3>3. rest[i - Len(a)] < rest[j - Len(a)]
      <4>1. i - Len(a) \in DOMAIN rest /\ j - Len(a) \in DOMAIN rest
        BY <1>3, <3>1
      <4>. QED
        BY <1>1, <3>1, <4>1 DEF Increasing
    <3>. QED
      BY <3>2, <3>3
  <2>. QED
    BY <1>3, <2>1, <2>2, <2>3
<1>10. Members(ab) = P \intersect (1 .. m)
  <2>1. ASSUME NEW j \in 1 .. Len(a) + k PROVE ab[j] \in P \intersect (1 .. m)
    <3>1. CASE j <= Len(a)
      BY <3>1, <1>3, <1>6, <1>7, <1>8
    <3>2. CASE j > Len(a)
      <4>1. j - Len(a) \in 1 .. k /\ j = Len(a) + (j - Len(a))
        BY <3>2, <1>3
      <4>2. ab[j] = rest[j - Len(a)]
        BY <1>7, <4>1
      <4>3. rest[j - Len(a)] \in P /\ rest[j - Len(a)] \in M + 1 .. N
        BY <1>3, <1>4, <4>1
      <4>4. rest[j - Len(a)] <= m
        <5>1. CASE j - Len(a) = k
          BY <5>1, <1>6
        <5>2. CASE j - Len(a) < k
          <6>1. j - Len(a) \in DOMAIN rest /\ k \in DOMAIN rest
            BY <1>3, <4>1
          <6>2. rest[j - Len(a)] < rest[k]
            BY <5>2, <1>1, <6>1 DEF Increasing
          <6>. QED
            BY <6>2, <4>3, <1>6
        <5>. QED
          BY <5>1, <5>2, <4>1
      <4>. QED
        BY <4>2, <4>3, <4>4, <1>6
    <3>. QED
      BY <3>1, <3>2, <1>3
  <2>2. ASSUME NEW n \in P \intersect (1 .. m)
        PROVE  \E j \in 1 .. Len(a) + k : ab[j] = n
    <3>1. CASE n <= M
      <4>1. n \in Members(a)
        BY <3>1, <1>2
      <4>2. PICK j \in DOMAIN a : a[j] = n
        BY <4>1 DEF Members
      <4>. QED
        BY <4>2, <1>3, <1>7
    <3>2. CASE n > M
      <4>1. n \in M + 1 .. N
        BY <3>2, <1>6
      <4>2. PICK j \in DOMAIN rest : rest[j] = n
        BY <4>1, <1>4
      <4>3. j <= k
        <5> SUFFICES ASSUME k < j PROVE FALSE
          BY <1>3
        <5>1. m < n
          BY <4>2, <1>1, <1>3 DEF Increasing
        <5>. QED
          BY <5>1, <1>6
      <4>4. Len(a) + j \in 1 .. Len(a) + k /\ j \in 1 .. k
        BY <4>2, <4>3, <1>3
      <4>. QED
        BY <4>2, <4>4, <1>7
    <3>. QED
      BY <3>1, <3>2
  <2>3. Members(ab) = {ab[j] : j \in 1 .. Len(a) + k}
    BY <1>7 DEF Members
  <2> HIDE DEF m
  <2>. QED
    BY <2>1, <2>2, <2>3
<1>11. Ascending(m, P) = ab
  <2> HIDE DEF m
  <2>. QED
    BY <1>6, <1>7, <1>9, <1>10, AscendingIs, IncreasingUnique
<1>. QED
  BY <1>1, <1>6, <1>11 DEF a, b, ab, Continues

\* at are the positions of the members of s that Keep takes.
KeptAt(at, s, S) ==
  /\ DOMAIN at = DOMAIN Keep(s, S) /\ Increasing(at)
  /\ Members(at) = {n \in DOMAIN s : s[n] \in S}
  /\ \A k \in DOMAIN at : Keep(s, S)[k] = s[at[k]]

\* What Keep is: the members of s in S, taken at increasing positions.
LEMMA KeepAt ==
  ASSUME NEW T, NEW s \in Seq(T), NEW S
  PROVE  Keep(s, S) \in Seq(T) /\ \E at \in Seq(Nat) : KeptAt(at, s, S)
<1> DEFINE P == {n \in DOMAIN s : s[n] \in S}
           at == Ascending(Len(s), P)
<1>1. Keep(s, S) = [k \in DOMAIN at |-> s[at[k]]]
  BY DEF Keep
<1>2. Len(s) \in Nat /\ DOMAIN s = 1 .. Len(s)
  OBVIOUS
<1>3. at \in Seq(Nat) /\ Increasing(at) /\ Members(at) = P \intersect (1 .. Len(s))
  <2> HIDE DEF P
  <2>. QED
    BY <1>2, AscendingIs
<1>4. Members(at) = P
  BY <1>2, <1>3
<1> HIDE DEF at
<1>5. \A k \in DOMAIN at : at[k] \in DOMAIN s
  BY <1>4 DEF Members
<1>6. DOMAIN at = 1 .. Len(at) /\ Len(at) \in Nat
  BY <1>3
<1>7. Keep(s, S) \in Seq(T)
  <2>1. Keep(s, S) \in [1 .. Len(at) -> T]
    BY <1>1, <1>5, <1>6
  <2>. QED
    BY <2>1, <1>6
<1>8. KeptAt(at, s, S)
  BY <1>1, <1>3, <1>4 DEF KeptAt
<1>. QED
  BY <1>3, <1>7, <1>8

\* Each member once.
Distinct(s) == \A j, k \in DOMAIN s : s[j] = s[k] => j = k

\* Keep has the members of s in S, and repeats none that s does not.
LEMMA KeepMembers ==
  ASSUME NEW T, NEW s \in Seq(T), NEW S
  PROVE  /\ Keep(s, S) \in Seq(T)
         /\ Members(Keep(s, S)) = Members(s) \intersect S
         /\ Distinct(s) => Distinct(Keep(s, S))
<1>0. PICK at \in Seq(Nat) : KeptAt(at, s, S)
  BY KeepAt
<1>1. /\ DOMAIN at = DOMAIN Keep(s, S) /\ Increasing(at)
      /\ Members(at) = {n \in DOMAIN s : s[n] \in S}
      /\ \A k \in DOMAIN at : Keep(s, S)[k] = s[at[k]]
  BY <1>0 DEF KeptAt
<1>2. \A k \in DOMAIN at : at[k] \in DOMAIN s /\ s[at[k]] \in S
  BY <1>1 DEF Members
<1>3. \A n \in DOMAIN s : s[n] \in S => \E k \in DOMAIN at : at[k] = n
  <2> TAKE n \in DOMAIN s
  <2> HAVE s[n] \in S
  <2>1. n \in Members(at)
    BY <1>1
  <2>. QED
    BY <2>1 DEF Members
<1>4. Members(Keep(s, S)) = Members(s) \intersect S
  <2>1. Members(Keep(s, S)) \subseteq Members(s) \intersect S
    BY <1>1, <1>2 DEF Members
  <2>2. ASSUME NEW x \in Members(s) \intersect S PROVE x \in Members(Keep(s, S))
    <3>1. PICK n \in DOMAIN s : s[n] = x
      BY DEF Members
    <3>2. PICK k \in DOMAIN at : at[k] = n
      BY <1>3, <3>1
    <3>. QED
      BY <1>1, <3>1, <3>2 DEF Members
  <2>. QED
    BY <2>1, <2>2
<1>5. ASSUME Distinct(s) PROVE Distinct(Keep(s, S))
  <2> SUFFICES ASSUME NEW j \in DOMAIN at, NEW k \in DOMAIN at, s[at[j]] = s[at[k]]
               PROVE  j = k
    BY <1>1 DEF Distinct
  <2>1. at[j] = at[k]
    BY <1>2, <1>5 DEF Distinct
  <2>2. j \in Nat /\ k \in Nat /\ at[j] \in Nat /\ at[k] \in Nat
    OBVIOUS
  <2>3. ~(j < k) /\ ~(k < j)
    BY <1>1, <2>1, <2>2 DEF Increasing
  <2>. QED
    BY <2>2, <2>3
<1>. QED
  BY <1>4, <1>5, KeepAt

\* When every member belongs to S, nothing goes.
LEMMA KeepAll ==
  ASSUME NEW T, NEW s \in Seq(T), NEW S, Members(s) \subseteq S
  PROVE  Keep(s, S) = s
<1>0. PICK at \in Seq(Nat) : KeptAt(at, s, S)
  BY KeepAt
<1>1. /\ DOMAIN at = DOMAIN Keep(s, S) /\ Increasing(at)
      /\ Members(at) = {n \in DOMAIN s : s[n] \in S}
      /\ \A k \in DOMAIN at : Keep(s, S)[k] = s[at[k]]
  BY <1>0 DEF KeptAt
<1> DEFINE id == [n \in 1 .. Len(s) |-> n]
<1>2. Len(s) \in Nat /\ DOMAIN s = 1 .. Len(s)
  OBVIOUS
<1>3. id \in Seq(Nat) /\ Increasing(id) /\ Members(id) = DOMAIN s
  <2>1. id \in [1 .. Len(s) -> Nat]
    OBVIOUS
  <2>. QED
    BY <1>2, <2>1 DEF Increasing, Members
<1>4. Members(at) = DOMAIN s
  BY <1>1 DEF Members
<1>5. at = id
  <2> HIDE DEF id
  <2>. QED
    BY <1>1, <1>3, <1>4, IncreasingUnique
<1>6. Keep(s, S) \in Seq(T)
  BY KeepAt
<1>7. Len(Keep(s, S)) = Len(s) /\ \A k \in 1 .. Len(s) : Keep(s, S)[k] = s[k]
  BY <1>1, <1>2, <1>5, <1>6
<1>. QED
  BY <1>6, <1>7

\* A sequence without repetitions is as long as the set of its members is large.
LEMMA DistinctLen ==
  ASSUME NEW T, NEW s \in Seq(T), Distinct(s)
  PROVE  IsFiniteSet(Members(s)) /\ Cardinality(Members(s)) = Len(s)
<1>1. Len(s) \in Nat /\ DOMAIN s = 1 .. Len(s)
  OBVIOUS
<1>2. s \in Bijection(1 .. Len(s), Members(s))
  BY <1>1 DEF Distinct, Members, Bijection, Injection, Surjection, IsInjective
<1>3. IsFiniteSet(1 .. Len(s)) /\ Cardinality(1 .. Len(s)) = Len(s)
  BY <1>1, FS_Interval
<1>4. ExistsBijection(1 .. Len(s), Members(s))
  BY <1>2 DEF ExistsBijection
<1>. QED
  BY <1>3, <1>4, FS_Bijection
=============================================================================
