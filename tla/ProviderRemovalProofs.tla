----------------------- MODULE ProviderRemovalProofs -----------------------
(* Proofs about execution leases and provider removal, for every set of       *)
(* leases, providers and deliveries.                                          *)
EXTENDS ProviderRemoval, TLAPS

-----------------------------------------------------------------------------
(* The inductive invariant. *)

\* The providers that count a lease.
Counted(l) == {p \in Providers : l \in leased[p]}

\* An entry whose providers must all count its lease: claimed by a run, or free to be.
Whole(a) == a.state = "claimed" \/ (a.state = "admitted" /\ ~a.requested)

\* What an entry of lease l says about the providers C that count the lease: they are
\* held; the release loop has yet to call them while one runs; and when none runs, they
\* are the acquired ones of an admission, all of a whole entry, and none of any other.
EntryInv(a, l, C) ==
  /\ a.state = "none" => a = NoEntry
  /\ a.held \cup a.todo \subseteq ProvidersOf[l] /\ C \subseteq a.held
  /\ a.tracked => a.state \in {"admitted", "claimed", "settled", "released"}
  /\ a.state \in {"admitted", "claimed", "settled"} => a.tracked
  /\ a.waiting # {} => a.state \in {"refused", "admitted", "settled"} /\ C \subseteq a.todo
  /\ Whole(a) => a.waiting = {} /\ C = ProvidersOf[l]
  /\ (a.state = "admitted" /\ ~a.requested) => a.timer = "release"
  /\ a.state = "acquiring" => C = a.held /\ a.held \cup a.todo = ProvidersOf[l] /\ ~a.requested
  /\ (a.waiting = {} /\ ~Whole(a) /\ a.state # "acquiring") => C = {}
  /\ (a.timer \in {"ack", "expire"} \/ a.acks # {}) => a.state = "released"

LeaseInv == \A l \in Leases : EntryInv(access[l], l, Counted(l))

\* A run that claimed its lease and has not settled it.
HoldsLease(n) == run[n].pc \in {"claimed", "native", "ending"}

\* A claimed lease is held by exactly one run, which starts its turn once; a lease that
\* paid for a turn can never be claimed again.
RunInv ==
  /\ \A n \in Runs : HoldsLease(n) => access[LeaseOf[n]].state = "claimed"
  /\ \A m, n \in Runs : (HoldsLease(m) /\ HoldsLease(n) /\ LeaseOf[m] = LeaseOf[n]) => m = n
  /\ \A l \in Leases : access[l].state = "claimed" => \E n \in Runs : LeaseOf[n] = l /\ HoldsLease(n)
  /\ \A n \in Runs : run[n].pc = "claimed" => starts[LeaseOf[n]] = 0
  /\ \A l \in Leases : starts[l] # 0 =>
       starts[l] = 1 /\ access[l].state \notin {"none", "acquiring", "refused", "admitted"}

\* A tombstoned provider counts no lease.
CountInv == \A p \in Providers : lifecycle[p] = "tombstoned" => leased[p] = {}

LeaseInvariant == RemovalTypeOK /\ LeaseInv /\ RunInv /\ CountInv

-----------------------------------------------------------------------------
(* Entries. *)

\* What a release may start from: everything that counts the lease is held, and is
\* still to be called when a release already runs.
Releasable(a, l, C) ==
  /\ a.held \cup a.todo \subseteq ProvidersOf[l] /\ C \subseteq a.held
  /\ a.state \in {"admitted", "settled", "released"}
  /\ a.state = "admitted" => a.requested
  /\ a.state # "released" => a.tracked
  /\ a.waiting # {} => a.state # "released" /\ C \subseteq a.todo
  /\ a.state = "released" => C = {}
  /\ (a.timer \in {"ack", "expire"} \/ a.acks # {}) => a.state = "released"

\* acknowledgeReleasedExecution starts on a released entry.
LEMMA StartAckEntry ==
  ASSUME NEW l \in Leases, NEW a \in Entry, NEW C, EntryInv(a, l, C),
         a.state = "released", NEW who \in {"owner", "host"}
  PROVE  /\ StartAck(a, l, who) \in Entry
         /\ EntryInv(StartAck(a, l, who), l, C)
         /\ StartAck(a, l, who).state = "released"
<1>. DEFINE acks == a.acks \cup ({who} \X ProvidersOf[l])
            b == [a EXCEPT !.timer = "none", !.acks = acks]
<1>1. acks \in SUBSET ({"owner", "host"} \X Providers)
  BY LeaseAssumption DEF Entry
<1>. HIDE DEF acks
<1>2. b \in Entry
  BY <1>1 DEF Entry
<1>3. /\ b.state = "released" /\ b.held = a.held /\ b.todo = a.todo /\ b.tracked = a.tracked
      /\ b.waiting = a.waiting /\ b.timer = "none"
  BY DEF Entry
<1>4. EntryInv(b, l, C)
  BY <1>3 DEF EntryInv, Whole
<1>. QED
  BY <1>2, <1>3, <1>4 DEF StartAck, acks

\* releaseHeldExecution joins or starts the release of such an entry.
LEMMA StartReleaseEntry ==
  ASSUME NEW l \in Leases, NEW a \in Entry, NEW C, Releasable(a, l, C),
         NEW who \in {"owner", "host", "close"}
  PROVE  /\ StartRelease(a, l, who) \in Entry
         /\ EntryInv(StartRelease(a, l, who), l, C)
         /\ StartRelease(a, l, who).state = a.state
<1>1. CASE a.state = "released"
  <2>1. EntryInv(a, l, C)
    BY <1>1 DEF EntryInv, Releasable, Whole
  <2>. QED
    BY <1>1, <2>1, StartAckEntry DEF StartRelease
<1>2. CASE a.state # "released"
  <2>. DEFINE todo == IF a.waiting = {} THEN a.held ELSE a.todo
              waiting == a.waiting \cup {who}
              b == [a EXCEPT !.timer = "none", !.todo = todo, !.waiting = waiting]
  <2>1. todo \in SUBSET Providers /\ todo \subseteq ProvidersOf[l] /\ C \subseteq todo
    BY DEF Entry, Releasable
  <2>2. waiting \in SUBSET {"owner", "host", "close", "rollback"} /\ waiting # {}
    BY DEF Entry
  <2>. HIDE DEF todo, waiting
  <2>3. b \in Entry
    BY <2>1, <2>2 DEF Entry
  <2>4. /\ b.state = a.state /\ b.held = a.held /\ b.todo = todo /\ b.tracked = a.tracked
        /\ b.waiting = waiting /\ b.timer = "none" /\ b.acks = a.acks
        /\ b.requested = a.requested
    BY DEF Entry
  <2>5. EntryInv(b, l, C)
    BY <1>2, <2>1, <2>2, <2>4 DEF EntryInv, Whole, Releasable
  <2>. QED
    BY <1>2, <2>3, <2>4, <2>5 DEF StartRelease, todo, waiting
<1>. QED
  BY <1>1, <1>2

\* The releasePromise resolves when nobody counts the lease any more.
LEMMA AfterReleaseEntry ==
  ASSUME NEW l \in Leases, NEW a \in Entry, a.held \cup a.todo \subseteq ProvidersOf[l]
  PROVE  /\ AfterRelease(a, l) \in Entry
         /\ EntryInv(AfterRelease(a, l), l, {})
         /\ AfterRelease(a, l).state = "released"
<1>. DEFINE next == {w \in a.waiting : w = "owner" \/ (w = "host" /\ a.tracked /\ a.owner)}
            acks == next \X ProvidersOf[l]
            timer == IF "host" \in a.waiting /\ a.tracked /\ ~a.owner /\ "close" \notin a.waiting
                     THEN "expire" ELSE "none"
            b == [a EXCEPT !.state = "released", !.waiting = {}, !.acks = acks, !.timer = timer]
<1>1. acks \in SUBSET ({"owner", "host"} \X Providers) /\ timer \in {"expire", "none"}
  BY LeaseAssumption DEF Entry
<1>2. AfterRelease(a, l) = b
  BY DEF AfterRelease
<1>. HIDE DEF acks, timer
<1>3. b \in Entry
  BY <1>1 DEF Entry
<1>4. /\ b.state = "released" /\ b.held = a.held /\ b.todo = a.todo /\ b.tracked = a.tracked
      /\ b.waiting = {}
  BY DEF Entry
<1>5. EntryInv(b, l, {})
  BY <1>4 DEF EntryInv, Whole
<1>. QED
  BY <1>2, <1>3, <1>4, <1>5

\* It rejects: every provider was called, and counts the lease no more.
LEMMA AfterFailureEntry ==
  ASSUME NEW l \in Leases, NEW a \in Entry, a.held \cup a.todo \subseteq ProvidersOf[l],
         a.state = "settled" \/ (a.state = "admitted" /\ a.requested), a.tracked, a.acks = {}
  PROVE  /\ AfterFailure(a) \in Entry
         /\ EntryInv(AfterFailure(a), l, {})
         /\ AfterFailure(a).state = a.state
<1>. DEFINE timer == IF a.tracked /\ ~hostClosed THEN "release" ELSE "none"
            b == [a EXCEPT !.waiting = {}, !.timer = timer]
<1>1. timer \in {"release", "none"}
  OBVIOUS
<1>2. AfterFailure(a) = b
  BY DEF AfterFailure
<1>. HIDE DEF timer
<1>3. b \in Entry
  BY <1>1 DEF Entry
<1>4. /\ b.state = a.state /\ b.held = a.held /\ b.todo = a.todo /\ b.tracked = a.tracked
      /\ b.waiting = {} /\ b.timer = timer /\ b.acks = a.acks /\ b.requested = a.requested
  BY DEF Entry
<1>5. EntryInv(b, l, {})
  BY <1>1, <1>4 DEF EntryInv, Whole
<1>. QED
  BY <1>2, <1>3, <1>4, <1>5

-----------------------------------------------------------------------------
(* What a step leaves alone. *)

\* The types of the host's runs, and of the parties around it.
RunTypeOK ==
  /\ hostClosing \in {"no", "waiting", "done"}
  /\ run \in [Runs -> [pc : Ongoing \cup {"none", "joined", "ended"},
                       aborted : BOOLEAN, forced : BOOLEAN]]
  /\ native \in [Runs -> {"none", "running", "ended"}]
  /\ starts \in [Leases -> Nat]

DesktopTypeOK ==
  /\ lifecycle \in [Providers -> {"active", "removal_pending", "tombstoned"}]
  /\ leased \in [Providers -> SUBSET Leases]
  /\ attempt \in [Leases -> {"none", "running", "rejected", "ended", "settled"}]
  /\ faulted \subseteq Providers
  /\ leaseFaults \in 0 .. MaxLeaseFaults /\ boots \in 0 .. MaxBoots

\* The parts of the invariant.
LEMMA Parts ==
  LeaseInvariant <=> /\ access \in [Leases -> Entry] /\ RunTypeOK /\ DesktopTypeOK
                     /\ LeaseInv /\ RunInv /\ CountInv
BY DEF LeaseInvariant, RemovalTypeOK, HostTypeOK, RunTypeOK, DesktopTypeOK, LeaseInv, EntryInv

\* The same in the next state.
LEMMA PartsNext ==
  ASSUME (access \in [Leases -> Entry])', RunTypeOK', DesktopTypeOK', LeaseInv', RunInv', CountInv'
  PROVE  LeaseInvariant'
BY DEF LeaseInvariant, RemovalTypeOK, HostTypeOK, RunTypeOK, DesktopTypeOK, LeaseInv, EntryInv

\* A step of one lease leaves the other entries alone.
LEMMA OneEntry ==
  ASSUME access \in [Leases -> Entry], LeaseInv, NEW l \in Leases, NEW b \in Entry,
         EntryInv(b, l, Counted(l)'), access' = [access EXCEPT ![l] = b],
         \A k \in Leases \ {l} : Counted(k)' = Counted(k)
  PROVE  (access \in [Leases -> Entry])' /\ LeaseInv'
<1>1. (access \in [Leases -> Entry])'
  OBVIOUS
<1>2. ASSUME NEW k \in Leases
      PROVE  EntryInv(access[k], k, Counted(k))'
  <2>1. CASE k = l
    <3>1. access'[k] = b
      BY <2>1
    <3>2. EntryInv(access'[k], k, Counted(k)')
      BY <2>1, <3>1
    <3>. QED
      BY <3>2 DEF EntryInv, Whole
  <2>2. CASE k # l
    <3>1. access'[k] = access[k] /\ Counted(k)' = Counted(k) /\ EntryInv(access[k], k, Counted(k))
      BY <2>2 DEF LeaseInv
    <3>2. EntryInv(access'[k], k, Counted(k)')
      BY <3>1
    <3>. QED
      BY <3>2 DEF EntryInv, Whole
  <2>. QED
    BY <2>1, <2>2
<1>. QED
  BY <1>1, <1>2 DEF LeaseInv

\* States of an entry that no run has claimed yet.
Early == {"none", "acquiring", "refused", "admitted"}

\* A step that neither claims a lease nor settles one keeps the runs' part.
LEMMA RunsKept ==
  ASSUME access \in [Leases -> Entry], RunTypeOK, RunInv, NEW l \in Leases, NEW b \in Entry,
         access' = [access EXCEPT ![l] = b], UNCHANGED starts,
         \A n \in Runs : run'[n].pc = run[n].pc,
         b.state = "claimed" <=> access[l].state = "claimed",
         b.state \in Early => access[l].state \in Early
  PROVE  RunInv'
<1>1. \A k \in Leases : access'[k].state = "claimed" <=> access[k].state = "claimed"
  OBVIOUS
<1>2. \A k \in Leases : access'[k].state \in Early => access[k].state \in Early
  OBVIOUS
<1>3. \A n \in Runs : HoldsLease(n)' <=> HoldsLease(n)
  BY DEF HoldsLease
<1>4. \A n \in Runs : LeaseOf[n] \in Leases
  BY LeaseAssumption
<1>. QED
  BY <1>1, <1>2, <1>3, <1>4 DEF RunInv, Early

\* A step that leaves the entries and the counts alone.
LEMMA EntriesKept ==
  ASSUME access \in [Leases -> Entry], LeaseInv, UNCHANGED <<access, leased>>
  PROVE  (access \in [Leases -> Entry])' /\ LeaseInv'
BY DEF LeaseInv, EntryInv, Counted, Whole

\* A step of the host alone leaves the parties around it alone.
LEMMA DesktopKept ==
  ASSUME DesktopTypeOK, CountInv, UNCHANGED desktop
  PROVE  /\ DesktopTypeOK' /\ CountInv'
         /\ \A k \in Leases : Counted(k)' = Counted(k)
BY DEF DesktopTypeOK, CountInv, desktop, Counted

\* #finalizeDrainedRemoval tombstones only a provider that counts no lease.
LEMMA FinalizeKeeps ==
  ASSUME DesktopTypeOK, CountInv, NEW ps \in SUBSET Providers, NEW ok \in BOOLEAN,
         leased' \in [Providers -> SUBSET Leases],
         \A p \in Providers : leased'[p] \subseteq leased[p],
         FinalizeDrained(ps, leased', ok)
  PROVE  /\ lifecycle' \in [Providers -> {"active", "removal_pending", "tombstoned"}]
         /\ faulted' \subseteq Providers
         /\ leaseFaults' \in 0 .. MaxLeaseFaults
         /\ CountInv'
<1>. DEFINE drained == {p \in ps : Drained(p, leased')}
<1>1. UNCHANGED lifecycle \/ Finalized(drained)
  BY DEF FinalizeDrained
<1>2. \A p \in Providers : \/ lifecycle'[p] = lifecycle[p]
                           \/ lifecycle'[p] = "tombstoned" /\ leased'[p] = {}
  BY <1>1 DEF Finalized, Drained, DesktopTypeOK
<1>3. lifecycle' \in [Providers -> {"active", "removal_pending", "tombstoned"}]
  BY <1>1 DEF Finalized, DesktopTypeOK
<1>4. CountInv'
  BY <1>2 DEF CountInv
<1>5. faulted' \subseteq Providers /\ leaseFaults' \in 0 .. MaxLeaseFaults
  BY RemovalAssumption DEF FinalizeDrained, DesktopTypeOK, LeaseFault
<1>. QED
  BY <1>3, <1>4, <1>5

-----------------------------------------------------------------------------
(* Admissions, timers and releases. *)

\* A lease nothing is known of.
LEMMA NoEntryIsEntry == NoEntry \in Entry
BY DEF NoEntry, Entry

\* A step that changes one entry, leaves the runs alone, and changes the counts of no
\* other lease.
OneLease(l, b) ==
  /\ access' = [access EXCEPT ![l] = b]
  /\ UNCHANGED <<hostClosing, starts, native>>
  /\ \A n \in Runs : run'[n].pc = run[n].pc
  /\ (run \in [Runs -> [pc : Ongoing \cup {"none", "joined", "ended"},
                        aborted : BOOLEAN, forced : BOOLEAN]])'
  /\ b.state = "claimed" <=> access[l].state = "claimed"
  /\ b.state \in Early => access[l].state \in Early

\* It keeps the invariant when the new entry and the new counts do.
LEMMA LeaseStep ==
  ASSUME LeaseInvariant, NEW l \in Leases, NEW b \in Entry, OneLease(l, b),
         EntryInv(b, l, Counted(l)'), DesktopTypeOK', CountInv',
         \A k \in Leases \ {l} : Counted(k)' = Counted(k)
  PROVE  LeaseInvariant'
<1>1. /\ access \in [Leases -> Entry] /\ RunTypeOK /\ LeaseInv /\ RunInv
  BY Parts
<1>2. (access \in [Leases -> Entry])' /\ LeaseInv'
  BY <1>1, OneEntry DEF OneLease
<1>3. RunInv'
  BY <1>1, RunsKept DEF OneLease
<1>4. RunTypeOK'
  BY <1>1 DEF OneLease, RunTypeOK
<1>. QED
  BY <1>2, <1>3, <1>4, PartsNext

\* Such a step of the host alone.
LEMMA HostLeaseStep ==
  ASSUME LeaseInvariant, NEW l \in Leases, NEW b \in Entry, EntryInv(b, l, Counted(l)),
         access' = [access EXCEPT ![l] = b], UNCHANGED <<hostClosing, run, native, starts>>,
         b.state = "claimed" <=> access[l].state = "claimed",
         b.state \in Early => access[l].state \in Early,
         UNCHANGED desktop
  PROVE  LeaseInvariant'
<1>1. DesktopTypeOK' /\ CountInv' /\ \A k \in Leases : Counted(k)' = Counted(k)
  BY Parts, DesktopKept
<1>2. OneLease(l, b)
  BY Parts DEF OneLease, RunTypeOK
<1>3. EntryInv(b, l, Counted(l)')
  BY <1>1
<1>. QED
  BY <1>1, <1>2, <1>3, LeaseStep

\* A lease is admitted when nothing is known of it.
LEMMA AdmitStep ==
  ASSUME LeaseInvariant, NEW l \in Leases, Admit(l), UNCHANGED desktop
  PROVE  LeaseInvariant'
<1>. DEFINE b == [access[l] EXCEPT !.state = "acquiring", !.todo = ProvidersOf[l]]
<1>1. access[l] = NoEntry /\ Counted(l) = {}
  BY Parts DEF LeaseInv, Admit, EntryInv, Whole, NoEntry
<1>2. b \in Entry
  BY <1>1, NoEntryIsEntry, LeaseAssumption DEF Entry
<1>3. EntryInv(b, l, Counted(l)) /\ b.state = "acquiring"
  BY <1>1 DEF EntryInv, Whole, NoEntry
<1>. QED
  BY <1>1, <1>2, <1>3, HostLeaseStep DEF Admit, Early, NoEntry

\* A refused admission releases exactly what it acquired.
LEMMA LeaseRefusedStep ==
  ASSUME LeaseInvariant, NEW l \in Leases, AcquireRefused(l)
  PROVE  LeaseInvariant'
<1>. DEFINE a == access[l]
            waiting == IF a.held = {} THEN {} ELSE {"rollback"}
            b == [a EXCEPT !.state = "refused", !.todo = a.held, !.waiting = waiting]
<1>1. a \in Entry /\ EntryInv(a, l, Counted(l)) /\ a.state = "acquiring"
  BY Parts DEF LeaseInv, AcquireRefused, AdmissionFails
<1>2. waiting \in SUBSET {"owner", "host", "close", "rollback"} /\ (waiting = {} => a.held = {})
  OBVIOUS
<1>3. access' = [access EXCEPT ![l] = b] /\ UNCHANGED <<hostClosing, run, native, starts>>
  BY DEF AcquireRefused, AdmissionFails
<1>. HIDE DEF waiting
<1>4. b \in Entry
  BY <1>1, <1>2 DEF Entry
<1>5. /\ b.state = "refused" /\ b.held = a.held /\ b.todo = a.held /\ b.tracked = a.tracked
      /\ b.waiting = waiting /\ b.timer = a.timer /\ b.acks = a.acks
  BY <1>1 DEF Entry
<1>6. EntryInv(b, l, Counted(l))
  BY <1>1, <1>2, <1>5 DEF EntryInv, Whole
<1>. QED
  BY <1>1, <1>3, <1>4, <1>5, <1>6, HostLeaseStep DEF AcquireRefused, Early

\* A provider that is being removed is never acquired.
LEMMA AcquireStep ==
  ASSUME LeaseInvariant, NEW l \in Leases, NEW p \in Providers, Acquire(l, p)
  PROVE  LeaseInvariant'
<1>. DEFINE a == access[l]
            b == [a EXCEPT !.todo = @ \ {p}, !.held = @ \cup {p}]
            c == [b EXCEPT !.state = "admitted", !.tracked = TRUE, !.timer = "release"]
            C == Counted(l)
<1>1. a \in Entry /\ EntryInv(a, l, C) /\ a.state = "acquiring" /\ p \in a.todo
  BY Parts DEF LeaseInv, Acquire, Acquired, IsFirst
<1>2. Counted(l)' = C \cup {p} /\ \A k \in Leases \ {l} : Counted(k)' = Counted(k)
  BY Parts DEF Acquire, Counted, DesktopTypeOK
<1>3. DesktopTypeOK' /\ CountInv'
  BY Parts DEF Acquire, DesktopTypeOK, CountInv
<1>4. b \in Entry /\ c \in Entry
  BY <1>1 DEF Entry
<1>5. /\ b.state = "acquiring" /\ b.held = a.held \cup {p} /\ b.todo = a.todo \ {p}
      /\ b.tracked = a.tracked /\ b.waiting = a.waiting /\ b.timer = a.timer /\ b.acks = a.acks
      /\ b.requested = a.requested
  BY <1>1 DEF Entry
<1>6. /\ c.state = "admitted" /\ c.held = a.held \cup {p} /\ c.todo = a.todo \ {p}
      /\ c.tracked = TRUE /\ c.waiting = a.waiting /\ c.timer = "release" /\ c.acks = a.acks
      /\ c.requested = a.requested
  BY <1>1 DEF Entry
<1>7. UNCHANGED <<hostClosing, starts, native, run>>
  BY DEF Acquire, Acquired
<1>8. C = a.held /\ a.held \cup a.todo = ProvidersOf[l] /\ ~a.requested /\ a.waiting = {}
      /\ a.acks = {} /\ a.timer \notin {"ack", "expire"} /\ ~a.tracked
  BY <1>1 DEF EntryInv
<1>. HIDE DEF a, b, c, C
<1>9. CASE b.todo # {}
  <2>1. access' = [access EXCEPT ![l] = b]
    BY <1>9 DEF Acquire, Acquired, a, b
  <2>2. EntryInv(b, l, C \cup {p})
    BY <1>1, <1>5, <1>8 DEF EntryInv, Whole
  <2>3. OneLease(l, b)
    BY <2>1, <1>1, <1>5, <1>7, Parts DEF OneLease, RunTypeOK, Early, a
  <2>. QED
    BY <2>2, <2>3, <1>2, <1>3, <1>4, LeaseStep
<1>10. CASE b.todo = {}
  <2>1. access' = [access EXCEPT ![l] = c]
    BY <1>10 DEF Acquire, Acquired, a, b, c
  <2>2. EntryInv(c, l, C \cup {p})
    BY <1>10, <1>1, <1>5, <1>6, <1>8 DEF EntryInv, Whole
  <2>3. OneLease(l, c)
    BY <2>1, <1>1, <1>6, <1>7, Parts DEF OneLease, RunTypeOK, Early, a
  <2>. QED
    BY <2>2, <2>3, <1>2, <1>3, <1>4, LeaseStep
<1>. QED
  BY <1>9, <1>10

\* A release may start from any entry that is not claimed once it is requested.
LEMMA ReleaseRequested ==
  ASSUME NEW l \in Leases, NEW a \in Entry, NEW C, EntryInv(a, l, C), NEW b \in Entry,
         a.state \in {"admitted", "settled", "released"},
         b.held = a.held, b.todo = a.todo, b.state = a.state, b.tracked = a.tracked,
         b.waiting = a.waiting, b.acks = a.acks, b.timer \in {a.timer, "none"},
         a.state = "admitted" => b.requested
  PROVE  Releasable(b, l, C)
BY DEF EntryInv, Releasable, Whole

\* releaseAfter
LEMMA ReleaseTimerStep ==
  ASSUME LeaseInvariant, NEW l \in Leases, ReleaseTimer(l), UNCHANGED desktop
  PROVE  LeaseInvariant'
<1>. DEFINE e == access[l]
            a == [e EXCEPT !.timer = "none"]
            b == [a EXCEPT !.requested = TRUE]
            C == Counted(l)
<1>1. e \in Entry /\ EntryInv(e, l, C)
  BY Parts DEF LeaseInv
<1>2. a \in Entry /\ b \in Entry
  BY <1>1 DEF Entry
<1>3. /\ a.state = e.state /\ a.held = e.held /\ a.todo = e.todo /\ a.tracked = e.tracked
      /\ a.waiting = e.waiting /\ a.timer = "none" /\ a.acks = e.acks
      /\ a.requested = e.requested
  BY <1>1 DEF Entry
<1>4. /\ b.state = e.state /\ b.held = e.held /\ b.todo = e.todo /\ b.tracked = e.tracked
      /\ b.waiting = e.waiting /\ b.timer = "none" /\ b.acks = e.acks
      /\ b.requested = TRUE
  BY <1>1 DEF Entry
<1>5. UNCHANGED <<hostClosing, run, native, starts>>
  BY DEF ReleaseTimer
<1>6. access' = [access EXCEPT ![l] = IF ~a.tracked \/ a.state \in {"claimed", "released"}
                                      THEN a ELSE StartRelease(b, l, "host")]
  BY DEF ReleaseTimer
<1>. HIDE DEF a, b, C
<1>7. CASE ~a.tracked \/ a.state \in {"claimed", "released"}
  <2>1. a.state # "none"
    BY <1>1, <1>3, Parts DEF EntryInv, NoEntry, ReleaseTimer
  <2>2. EntryInv(a, l, C)
    BY <1>1, <1>3, <1>7, <2>1 DEF EntryInv, Whole
  <2>3. access' = [access EXCEPT ![l] = a]
    BY <1>6, <1>7
  <2>. QED
    BY <1>2, <1>3, <1>5, <2>2, <2>3, HostLeaseStep DEF C
<1>8. CASE ~(~a.tracked \/ a.state \in {"claimed", "released"})
  <2>. DEFINE d == StartRelease(b, l, "host")
  <2>1. e.state \in {"admitted", "settled", "released"}
    BY <1>1, <1>3, <1>8 DEF EntryInv
  <2>2. Releasable(b, l, C)
    BY <1>1, <1>2, <1>4, <2>1, ReleaseRequested
  <2>3. d \in Entry /\ EntryInv(d, l, C) /\ d.state = e.state
    BY <1>2, <1>4, <2>2, StartReleaseEntry
  <2>4. access' = [access EXCEPT ![l] = d]
    BY <1>6, <1>8
  <2>. HIDE DEF d
  <2>. QED
    BY <1>5, <2>3, <2>4, HostLeaseStep DEF C
<1>. QED
  BY <1>7, <1>8

\* retryAcknowledgement
LEMMA AckTimerStep ==
  ASSUME LeaseInvariant, NEW l \in Leases, AckTimer(l), UNCHANGED desktop
  PROVE  LeaseInvariant'
<1>. DEFINE e == access[l]
            a == [e EXCEPT !.timer = "none"]
            b == StartAck(e, l, "host")
            C == Counted(l)
<1>1. e \in Entry /\ EntryInv(e, l, C) /\ e.state = "released"
  BY Parts DEF LeaseInv, AckTimer, EntryInv
<1>2. b \in Entry /\ EntryInv(b, l, C) /\ b.state = "released"
  BY <1>1, StartAckEntry
<1>3. a \in Entry
  BY <1>1 DEF Entry
<1>4. /\ a.state = e.state /\ a.held = e.held /\ a.todo = e.todo /\ a.tracked = e.tracked
      /\ a.waiting = e.waiting /\ a.timer = "none" /\ a.acks = e.acks
      /\ a.requested = e.requested
  BY <1>1 DEF Entry
<1>5. EntryInv(a, l, C)
  BY <1>1, <1>4 DEF EntryInv, Whole
<1>6. UNCHANGED <<hostClosing, run, native, starts>>
  BY DEF AckTimer
<1>7. access' = [access EXCEPT ![l] = IF e.tracked THEN b ELSE a]
  BY DEF AckTimer
<1>. HIDE DEF a, b, C
<1>8. CASE e.tracked
  BY <1>8, <1>1, <1>2, <1>6, <1>7, HostLeaseStep DEF C
<1>9. CASE ~e.tracked
  BY <1>9, <1>1, <1>3, <1>4, <1>5, <1>6, <1>7, HostLeaseStep DEF C
<1>. QED
  BY <1>8, <1>9

\* expireUnacknowledged
LEMMA ExpireTimerStep ==
  ASSUME LeaseInvariant, NEW l \in Leases, ExpireTimer(l), UNCHANGED desktop
  PROVE  LeaseInvariant'
<1>. DEFINE e == access[l]
            known == e.tracked /\ e.owner
            b == [e EXCEPT !.timer = "none", !.tracked = known]
            C == Counted(l)
<1>1. e \in Entry /\ EntryInv(e, l, C) /\ e.state = "released"
  BY Parts DEF LeaseInv, ExpireTimer, EntryInv
<1>2. known \in BOOLEAN
  OBVIOUS
<1>3. access' = [access EXCEPT ![l] = b] /\ UNCHANGED <<hostClosing, run, native, starts>>
  BY DEF ExpireTimer
<1>. HIDE DEF known
<1>4. b \in Entry
  BY <1>1, <1>2 DEF Entry
<1>5. /\ b.state = e.state /\ b.held = e.held /\ b.todo = e.todo
      /\ b.waiting = e.waiting /\ b.timer = "none" /\ b.acks = e.acks
  BY <1>1 DEF Entry
<1>6. EntryInv(b, l, C)
  BY <1>1, <1>5 DEF EntryInv, Whole
<1>. QED
  BY <1>1, <1>3, <1>4, <1>5, <1>6, HostLeaseStep

\* release: the provider counts the lease no more, whether the call fails or not.
LEMMA ReleaseStep ==
  ASSUME LeaseInvariant, NEW l \in Leases, NEW p \in Providers, NEW ok \in BOOLEAN,
         ProviderReleases(l, p, ok)
  PROVE  LeaseInvariant'
<1>. DEFINE a == access[l]
            held == IF ok THEN a.held \ {p} ELSE a.held
            b == [a EXCEPT !.todo = @ \ {p}, !.held = held]
            C == Counted(l)
            d == IF b.todo # {} THEN b
                 ELSE IF b.state = "refused" THEN [b EXCEPT !.waiting = {}]
                 ELSE IF b.held = {} THEN AfterRelease(b, l) ELSE AfterFailure(b)
<1>1. a \in Entry /\ EntryInv(a, l, C) /\ a.waiting # {} /\ p \in a.todo
  BY Parts DEF LeaseInv, ProviderReleases, ReleaseOne, IsLast
<1>2. leased' = [leased EXCEPT ![p] = @ \ {l}]
  BY DEF ProviderReleases
<1>3. Counted(l)' = C \ {p} /\ \A k \in Leases \ {l} : Counted(k)' = Counted(k)
  BY <1>2, Parts DEF Counted, DesktopTypeOK
<1>4. DesktopTypeOK' /\ CountInv'
  <2>1. /\ leased' \in [Providers -> SUBSET Leases]
        /\ \A q \in Providers : leased'[q] \subseteq leased[q]
    BY <1>2, Parts DEF DesktopTypeOK
  <2>2. CASE l \in leased[p]
    <3>1. FinalizeDrained({p}, leased', ok)
      BY <1>2, <2>2 DEF ProviderReleases
    <3>. QED
      BY <2>1, <3>1, FinalizeKeeps, Parts DEF DesktopTypeOK, ProviderReleases
  <2>3. CASE l \notin leased[p]
    <3>1. UNCHANGED <<lifecycle, faulted, leaseFaults, attempt, boots>>
      BY <2>3 DEF ProviderReleases
    <3>. QED
      BY <2>1, <3>1, Parts DEF DesktopTypeOK, CountInv
  <2>. QED
    BY <2>2, <2>3
<1>5. access' = [access EXCEPT ![l] = d] /\ UNCHANGED <<hostClosing, run, native, starts>>
  BY DEF ProviderReleases, ReleaseOne
<1>6. /\ held \in SUBSET Providers /\ held \subseteq ProvidersOf[l]
      /\ C \ {p} \subseteq held
  BY <1>1 DEF Entry, EntryInv
<1>. HIDE DEF held
<1>7. b \in Entry
  BY <1>1, <1>6 DEF Entry
<1>8. /\ b.state = a.state /\ b.held = held /\ b.todo = a.todo \ {p} /\ b.tracked = a.tracked
      /\ b.waiting = a.waiting /\ b.timer = a.timer /\ b.acks = a.acks
      /\ b.requested = a.requested
  BY <1>1 DEF Entry
<1>9. /\ a.state = "refused" \/ a.state = "settled" \/ (a.state = "admitted" /\ a.requested)
      /\ a.state # "refused" => a.tracked
      /\ a.acks = {} /\ C \subseteq a.todo
  BY <1>1 DEF EntryInv, Whole
<1>10. d \in Entry /\ EntryInv(d, l, C \ {p}) /\ d.state \in {a.state, "released"}
  <2>1. CASE b.todo # {}
    <3>1. EntryInv(b, l, C \ {p})
      BY <1>1, <1>6, <1>8, <1>9 DEF EntryInv, Whole
    <3>. QED
      BY <2>1, <3>1, <1>7, <1>8
  <2>2. CASE b.todo = {} /\ b.state = "refused"
    <3>. DEFINE c == [b EXCEPT !.waiting = {}]
    <3>1. c \in Entry
      BY <1>7 DEF Entry
    <3>2. /\ c.state = "refused" /\ c.held = held /\ c.todo = {} /\ c.tracked = a.tracked
          /\ c.waiting = {} /\ c.timer = a.timer /\ c.acks = a.acks
      BY <1>7, <1>8, <2>2 DEF Entry
    <3>3. C \ {p} = {}
      BY <1>8, <1>9, <2>2
    <3>4. EntryInv(c, l, C \ {p})
      BY <1>1, <1>6, <1>8, <2>2, <3>2, <3>3 DEF EntryInv, Whole
    <3>. QED
      BY <2>2, <3>1, <3>2, <3>4, <1>8
  <2>3. CASE b.todo = {} /\ b.state # "refused"
    <3>1. C \ {p} = {} /\ b.held \cup b.todo \subseteq ProvidersOf[l]
      BY <1>6, <1>8, <1>9, <2>3
    <3>2. CASE b.held = {}
      BY <1>7, <2>3, <3>1, <3>2, AfterReleaseEntry
    <3>3. CASE b.held # {}
      <4>1. /\ b.state = "settled" \/ (b.state = "admitted" /\ b.requested)
            /\ b.tracked /\ b.acks = {}
        BY <1>8, <1>9, <2>3
      <4>2. /\ AfterFailure(b) \in Entry /\ EntryInv(AfterFailure(b), l, {})
            /\ AfterFailure(b).state = b.state
        BY <1>7, <3>1, <4>1, AfterFailureEntry
      <4>. QED
        BY <1>8, <2>3, <3>1, <3>3, <4>2
    <3>. QED
      BY <3>2, <3>3
  <2>. QED
    BY <2>1, <2>2, <2>3
<1>. HIDE DEF d, b
<1>11. OneLease(l, d)
  BY <1>5, <1>9, <1>10, Parts DEF OneLease, RunTypeOK, Early
<1>. QED
  BY <1>3, <1>4, <1>10, <1>11, LeaseStep

\* acknowledge: only a released lease is acknowledged, and nobody counts it.
LEMMA AcknowledgeStep ==
  ASSUME LeaseInvariant, NEW l \in Leases, NEW p \in Providers, NEW ok \in BOOLEAN,
         NEW who \in {"owner", "host"}, ProviderAcknowledges(l, who, p, ok)
  PROVE  LeaseInvariant'
<1>. DEFINE a == access[l]
            rest == {x \in a.acks : x[1] # who}
            left == a.acks \ {<<who, p>>}
            known == a.tracked /\ \E x \in left : x[1] = who
            timer == IF who = "host" /\ a.tracked /\ ~hostClosed THEN "ack" ELSE a.timer
            b == [a EXCEPT !.acks = left, !.tracked = known]
            c == [a EXCEPT !.acks = rest, !.timer = timer]
            C == Counted(l)
<1>1. a \in Entry /\ EntryInv(a, l, C) /\ a.acks # {}
  BY Parts DEF LeaseInv, ProviderAcknowledges, AcknowledgeOne, IsFirst
<1>2. a.state = "released" /\ C = {} /\ a.waiting = {} /\ a.held \cup a.todo \subseteq ProvidersOf[l]
  BY <1>1 DEF EntryInv, Whole
<1>3. UNCHANGED <<leased, boots>> /\ FinalizeDrained({p}, leased, ok)
  BY DEF ProviderAcknowledges, FinalizesOnAck
<1>4. attempt' \in [Leases -> {"none", "running", "rejected", "ended", "settled"}]
  BY Parts DEF ProviderAcknowledges, Answered, DesktopTypeOK
<1>5. DesktopTypeOK' /\ CountInv'
  BY <1>3, <1>4, FinalizeKeeps, Parts DEF DesktopTypeOK
<1>6. \A k \in Leases : Counted(k)' = Counted(k)
  BY <1>3 DEF Counted
<1>7. access' = [access EXCEPT ![l] = IF ok THEN b ELSE c]
      /\ UNCHANGED <<hostClosing, run, native, starts>>
  BY DEF ProviderAcknowledges, AcknowledgeOne
<1>8. /\ rest \in SUBSET ({"owner", "host"} \X Providers)
      /\ left \in SUBSET ({"owner", "host"} \X Providers)
      /\ known \in BOOLEAN /\ timer \in {"none", "release", "expire", "ack"}
  BY <1>1 DEF Entry
<1>. HIDE DEF rest, left, known, timer
<1>9. b \in Entry /\ c \in Entry
  BY <1>1, <1>8 DEF Entry
<1>10. /\ b.state = a.state /\ b.held = a.held /\ b.todo = a.todo /\ b.waiting = a.waiting
       /\ c.state = a.state /\ c.held = a.held /\ c.todo = a.todo /\ c.waiting = a.waiting
  BY <1>1 DEF Entry
<1>11. EntryInv(b, l, C) /\ EntryInv(c, l, C)
  BY <1>2, <1>10 DEF EntryInv, Whole
<1>. DEFINE d == IF ok THEN b ELSE c
<1>12. d \in Entry /\ EntryInv(d, l, C) /\ d.state = a.state
  BY <1>9, <1>10, <1>11
<1>. HIDE DEF b, c, d
<1>13. OneLease(l, d)
  BY <1>7, <1>12, Parts DEF OneLease, RunTypeOK, d
<1>. QED
  BY <1>5, <1>6, <1>12, <1>13, LeaseStep

-----------------------------------------------------------------------------
(* Runs. *)

\* A step of the runs alone that neither claims a lease nor settles one.
LEMMA RunStep ==
  ASSUME LeaseInvariant, UNCHANGED <<access, starts>>, RunTypeOK', UNCHANGED desktop,
         \A n \in Runs : HoldsLease(n)' <=> HoldsLease(n),
         \A n \in Runs : run'[n].pc = "claimed" => run[n].pc = "claimed"
  PROVE  LeaseInvariant'
<1>1. DesktopTypeOK' /\ CountInv'
  BY Parts, DesktopKept
<1>2. (access \in [Leases -> Entry])' /\ LeaseInv'
  BY Parts, EntriesKept DEF desktop
<1>3. RunInv'
  BY Parts DEF RunInv
<1>. QED
  BY <1>1, <1>2, <1>3, PartsNext

\* A step that rewrites one run.
LEMMA OneRun ==
  ASSUME RunTypeOK, NEW n \in Runs,
         NEW r \in [pc : Ongoing \cup {"none", "joined", "ended"}, aborted : BOOLEAN, forced : BOOLEAN],
         run' = [run EXCEPT ![n] = r], UNCHANGED <<hostClosing, starts>>,
         native' \in [Runs -> {"none", "running", "ended"}],
         r.pc \in {"claimed", "native", "ending"} <=> run[n].pc \in {"claimed", "native", "ending"},
         r.pc = "claimed" => run[n].pc = "claimed"
  PROVE  /\ RunTypeOK'
         /\ \A m \in Runs : HoldsLease(m)' <=> HoldsLease(m)
         /\ \A m \in Runs : run'[m].pc = "claimed" => run[m].pc = "claimed"
BY DEF RunTypeOK, HoldsLease

\* Deliveries, failed preparations, settled turns, force-stops and cancellations.
LEMMA RunSteps ==
  ASSUME LeaseInvariant, NEW n \in Runs, UNCHANGED desktop,
         \/ Deliver(n) \/ PrepareFails(n) \/ NativeEnds(n) \/ ForceStop(n) \/ GiveUp(n) \/ CancelRun(n)
  PROVE  LeaseInvariant'
<1>. DEFINE T == [pc : Ongoing \cup {"none", "joined", "ended"}, aborted : BOOLEAN, forced : BOOLEAN]
            Kept(r) == /\ run' = [run EXCEPT ![n] = r] /\ UNCHANGED <<hostClosing, access, starts>>
                       /\ native' \in [Runs -> {"none", "running", "ended"}]
                       /\ r.pc \in {"claimed", "native", "ending"}
                            <=> run[n].pc \in {"claimed", "native", "ending"}
                       /\ r.pc = "claimed" => run[n].pc = "claimed"
<1>1. RunTypeOK /\ run[n] \in T
  BY Parts DEF RunTypeOK
<1>2. \E r \in T : Kept(r)
  <2>1. CASE Deliver(n)
    <3>. DEFINE pc == IF \E m \in Runs : CompletionOf[m] = CompletionOf[n] /\ run[m].pc \in Ongoing
                      THEN "joined" ELSE "preparing"
                r == [run[n] EXCEPT !.pc = pc]
    <3>1. pc \in {"joined", "preparing"}
      OBVIOUS
    <3>2. run' = [run EXCEPT ![n] = r] /\ UNCHANGED <<hostClosing, access, native, starts>>
          /\ run[n].pc = "none"
      BY <2>1 DEF Deliver
    <3>. HIDE DEF pc
    <3>3. r \in T /\ r.pc = pc
      BY <1>1, <3>1 DEF Ongoing
    <3>4. Kept(r)
      BY <1>1, <3>1, <3>2, <3>3 DEF RunTypeOK
    <3>. QED
      BY <3>3, <3>4
  <2>2. CASE PrepareFails(n)
    <3>. DEFINE r == [run[n] EXCEPT !.pc = IF @ = "claimed" THEN "ending" ELSE "ended"]
    <3>1. r \in T /\ r.pc \in {"ending", "ended"} /\ (r.pc = "ending" <=> run[n].pc = "claimed")
      BY <1>1 DEF Ongoing
    <3>2. Kept(r)
      BY <1>1, <2>2, <3>1 DEF RunTypeOK, PrepareFails
    <3>. QED
      BY <3>1, <3>2
  <2>3. CASE NativeEnds(n)
    <3>. DEFINE r == [run[n] EXCEPT !.pc = IF @ = "native" THEN "ending" ELSE @]
    <3>1. r \in T /\ r.pc = IF run[n].pc = "native" THEN "ending" ELSE run[n].pc
      BY <1>1 DEF Ongoing
    <3>2. Kept(r)
      BY <1>1, <2>3, <3>1 DEF RunTypeOK, NativeEnds
    <3>. QED
      BY <3>1, <3>2
  <2>4. CASE ForceStop(n)
    <3>. DEFINE r == [run[n] EXCEPT !.forced = TRUE]
    <3>1. r \in T /\ r.pc = run[n].pc
      BY <1>1
    <3>2. Kept(r)
      BY <1>1, <2>4, <3>1 DEF RunTypeOK, ForceStop
    <3>. QED
      BY <3>1, <3>2
  <2>5. CASE GiveUp(n)
    <3>. DEFINE r == [run[n] EXCEPT !.pc = "ending"]
    <3>1. r \in T /\ r.pc = "ending"
      BY <1>1 DEF Ongoing
    <3>2. Kept(r)
      BY <1>1, <2>5, <3>1 DEF RunTypeOK, GiveUp
    <3>. QED
      BY <3>1, <3>2
  <2>6. CASE CancelRun(n)
    <3>. DEFINE r == [run[n] EXCEPT !.aborted = TRUE]
    <3>1. r \in T /\ r.pc = run[n].pc
      BY <1>1
    <3>2. Kept(r)
      BY <1>1, <2>6, <3>1 DEF RunTypeOK, CancelRun
    <3>. QED
      BY <3>1, <3>2
  <2>. QED
    BY <2>1, <2>2, <2>3, <2>4, <2>5, <2>6
<1>3. PICK r \in T : Kept(r)
  BY <1>2
<1>4. /\ RunTypeOK'
      /\ \A m \in Runs : HoldsLease(m)' <=> HoldsLease(m)
      /\ \A m \in Runs : run'[m].pc = "claimed" => run[m].pc = "claimed"
  BY <1>1, <1>3, OneRun
<1>. QED
  BY <1>3, <1>4, RunStep

\* A claimed lease pays for its first native turn.
LEMMA StartStep ==
  ASSUME LeaseInvariant, NEW n \in Runs, StartNative(n), UNCHANGED desktop
  PROVE  LeaseInvariant'
<1>1. DesktopTypeOK' /\ CountInv'
  BY Parts, DesktopKept
<1>2. (access \in [Leases -> Entry])' /\ LeaseInv'
  BY Parts, EntriesKept DEF desktop, StartNative
<1>3. RunTypeOK'
  <2>1. (starts \in [Leases -> Nat])'
    BY Parts, LeaseAssumption DEF RunTypeOK, StartNative
  <2>2. [run[n] EXCEPT !.pc = "native"] \in
          [pc : Ongoing \cup {"none", "joined", "ended"}, aborted : BOOLEAN, forced : BOOLEAN]
    BY Parts DEF RunTypeOK, Ongoing
  <2>. QED
    BY <2>1, <2>2, Parts DEF RunTypeOK, StartNative
<1>4. /\ run[n].pc = "claimed" /\ run'[n].pc = "native"
      /\ \A m \in Runs \ {n} : run'[m] = run[m]
  BY Parts DEF RunTypeOK, StartNative
<1>5. \A m \in Runs : HoldsLease(m)' <=> HoldsLease(m)
  BY <1>4 DEF HoldsLease
<1>6. LeaseOf[n] \in Leases /\ starts[LeaseOf[n]] = 0
  BY <1>4, Parts, LeaseAssumption DEF RunInv
<1>7. starts'[LeaseOf[n]] = 1 /\ \A l \in Leases \ {LeaseOf[n]} : starts'[l] = starts[l]
  BY <1>6, Parts DEF StartNative, RunTypeOK
<1>8. \A m \in Runs : run'[m].pc = "claimed" => LeaseOf[m] # LeaseOf[n]
  BY <1>4, Parts DEF RunInv, HoldsLease
<1>9. access[LeaseOf[n]].state = "claimed"
  BY <1>4, Parts DEF RunInv, HoldsLease
<1>10. RunInv'
  <2>1. UNCHANGED access /\ RunInv
    BY Parts DEF StartNative
  <2>2. \A m \in Runs : run'[m].pc = "claimed" => starts'[LeaseOf[m]] = 0
    BY <1>4, <1>7, <1>8, <2>1, LeaseAssumption DEF RunInv
  <2>3. \A l \in Leases : starts'[l] # 0 =>
          starts'[l] = 1 /\ access[l].state \notin {"none", "acquiring", "refused", "admitted"}
    BY <1>7, <1>9, <2>1 DEF RunInv
  <2>. QED
    BY <1>5, <2>1, <2>2, <2>3 DEF RunInv
<1>. QED
  BY <1>1, <1>2, <1>3, <1>10, PartsNext

\* Whoever claims a lease finds every provider counting it.
LEMMA ClaimStep ==
  ASSUME LeaseInvariant, NEW n \in Runs, Claim(n), UNCHANGED desktop
  PROVE  LeaseInvariant'
<1>. DEFINE l == LeaseOf[n]
            a == access[l]
            b == [a EXCEPT !.state = "claimed", !.timer = "none"]
<1>1. l \in Leases /\ a \in Entry /\ EntryInv(a, l, Counted(l)) /\ run[n].pc = "preparing"
  BY Parts, LeaseAssumption DEF LeaseInv, Claim
<1>2. CASE /\ Claimable(l) /\ run' = [run EXCEPT ![n].pc = "claimed"]
           /\ access' = [access EXCEPT ![l] = b]
  <2>1. b \in Entry
    BY <1>1 DEF Entry
  <2>2. /\ b.state = "claimed" /\ b.held = a.held /\ b.todo = a.todo /\ b.tracked = a.tracked
        /\ b.waiting = a.waiting /\ b.timer = "none" /\ b.acks = a.acks
    BY <1>1 DEF Entry
  <2>3. a.state = "admitted" /\ ~a.requested
    BY <1>2 DEF Claimable
  <2>4. EntryInv(b, l, Counted(l))
    BY <1>1, <2>2, <2>3 DEF EntryInv, Whole
  <2>5. DesktopTypeOK' /\ CountInv' /\ \A k \in Leases : Counted(k)' = Counted(k)
    BY Parts, DesktopKept
  <2>6. EntryInv(b, l, Counted(l)')
    BY <1>1, <2>4, <2>5
  <2>. HIDE DEF b
  <2>7. (access \in [Leases -> Entry])' /\ LeaseInv'
    BY <1>1, <1>2, <2>1, <2>5, <2>6, Parts, OneEntry
  <2>8. RunTypeOK'
    <3>1. [run[n] EXCEPT !.pc = "claimed"] \in
            [pc : Ongoing \cup {"none", "joined", "ended"}, aborted : BOOLEAN, forced : BOOLEAN]
      BY Parts DEF RunTypeOK, Ongoing
    <3>. QED
      BY <1>2, <3>1, Parts DEF RunTypeOK, Claim
  <2>9. /\ run'[n].pc = "claimed" /\ \A m \in Runs \ {n} : run'[m] = run[m]
        /\ UNCHANGED starts
    BY <1>2, Parts DEF RunTypeOK, Claim
  <2>10. /\ access'[l].state = "claimed"
         /\ \A k \in Leases \ {l} : access'[k] = access[k]
    BY <1>1, <1>2, <2>2, Parts
  <2>11. \A m \in Runs : HoldsLease(m) => LeaseOf[m] # l
    BY <2>3, Parts DEF RunInv
  <2>12. HoldsLease(n)' /\ \A m \in Runs \ {n} : HoldsLease(m)' <=> HoldsLease(m)
    BY <2>9 DEF HoldsLease
  <2>13. starts[l] = 0
    BY <1>1, <2>3, Parts DEF RunInv
  <2>14. RunInv'
    <3>1. \A m \in Runs : HoldsLease(m)' => access'[LeaseOf[m]].state = "claimed"
      BY <2>10, <2>11, <2>12, Parts, LeaseAssumption DEF RunInv
    <3>2. \A m, o \in Runs : (HoldsLease(m)' /\ HoldsLease(o)' /\ LeaseOf[m] = LeaseOf[o]) => m = o
      BY <2>11, <2>12, Parts DEF RunInv
    <3>3. \A k \in Leases : access'[k].state = "claimed" =>
             \E m \in Runs : LeaseOf[m] = k /\ HoldsLease(m)'
      <4>1. SUFFICES ASSUME NEW k \in Leases, access'[k].state = "claimed"
                     PROVE  \E m \in Runs : LeaseOf[m] = k /\ HoldsLease(m)'
        OBVIOUS
      <4>2. CASE k = l
        BY <4>2, <2>12
      <4>3. CASE k # l
        <5>1. PICK m \in Runs : LeaseOf[m] = k /\ HoldsLease(m)
          BY <4>1, <4>3, <2>10, Parts DEF RunInv
        <5>. QED
          BY <4>3, <5>1, <2>12
      <4>. QED
        BY <4>2, <4>3
    <3>4. \A m \in Runs : run'[m].pc = "claimed" => starts'[LeaseOf[m]] = 0
      BY <2>9, <2>13, Parts DEF RunInv
    <3>5. \A k \in Leases : starts'[k] # 0 =>
            starts'[k] = 1 /\ access'[k].state \notin {"none", "acquiring", "refused", "admitted"}
      BY <2>9, <2>10, Parts DEF RunInv
    <3>. QED
      BY <3>1, <3>2, <3>3, <3>4, <3>5 DEF RunInv
  <2>. QED
    BY <2>5, <2>7, <2>8, <2>14, PartsNext
<1>3. CASE run' = [run EXCEPT ![n].pc = "ended"] /\ UNCHANGED access
  <2>. DEFINE r == [run[n] EXCEPT !.pc = "ended"]
  <2>1. r \in [pc : Ongoing \cup {"none", "joined", "ended"}, aborted : BOOLEAN, forced : BOOLEAN]
        /\ r.pc = "ended" /\ run' = [run EXCEPT ![n] = r]
    BY <1>3, Parts DEF RunTypeOK
  <2>2. RunTypeOK /\ UNCHANGED <<hostClosing, starts>>
        /\ native' \in [Runs -> {"none", "running", "ended"}]
    BY Parts DEF RunTypeOK, Claim
  <2>. HIDE DEF r
  <2>3. /\ RunTypeOK'
        /\ \A m \in Runs : HoldsLease(m)' <=> HoldsLease(m)
        /\ \A m \in Runs : run'[m].pc = "claimed" => run[m].pc = "claimed"
    BY <1>1, <2>1, <2>2, OneRun
  <2>. QED
    BY <1>3, <2>2, <2>3, RunStep
<1>. QED
  BY <1>2, <1>3 DEF Claim

\* settleExecutionAccess: the one run that held the lease starts its release.
LEMMA SettleStep ==
  ASSUME LeaseInvariant, NEW n \in Runs, SettleAccess(n), UNCHANGED desktop
  PROVE  LeaseInvariant'
<1>. DEFINE l == LeaseOf[n]
            a == access[l]
            c == [a EXCEPT !.state = "settled"]
            b == StartRelease(c, l, "host")
<1>1. l \in Leases /\ a \in Entry /\ EntryInv(a, l, Counted(l)) /\ run[n].pc = "ending"
  BY Parts, LeaseAssumption DEF LeaseInv, SettleAccess
<1>2. a.state = "claimed"
  BY <1>1, Parts DEF RunInv, HoldsLease
<1>3. access' = [access EXCEPT ![l] = b] /\ run' = [run EXCEPT ![n].pc = "ended"]
  BY <1>2 DEF SettleAccess
<1>4. c \in Entry
  BY <1>1 DEF Entry
<1>5. /\ c.state = "settled" /\ c.held = a.held /\ c.todo = a.todo /\ c.tracked = a.tracked
      /\ c.waiting = a.waiting /\ c.timer = a.timer /\ c.acks = a.acks
  BY <1>1 DEF Entry
<1>6. Releasable(c, l, Counted(l))
  BY <1>1, <1>2, <1>5 DEF EntryInv, Whole, Releasable
<1>7. b \in Entry /\ EntryInv(b, l, Counted(l)) /\ b.state = "settled"
  BY <1>1, <1>4, <1>5, <1>6, StartReleaseEntry
<1>8. DesktopTypeOK' /\ CountInv' /\ \A k \in Leases : Counted(k)' = Counted(k)
  BY Parts, DesktopKept
<1>9. EntryInv(b, l, Counted(l)')
  BY <1>1, <1>7, <1>8
<1>. HIDE DEF b
<1>10. (access \in [Leases -> Entry])' /\ LeaseInv'
  BY <1>1, <1>3, <1>7, <1>8, <1>9, Parts, OneEntry
<1>11. RunTypeOK'
  <2>1. [run[n] EXCEPT !.pc = "ended"] \in
          [pc : Ongoing \cup {"none", "joined", "ended"}, aborted : BOOLEAN, forced : BOOLEAN]
    BY Parts DEF RunTypeOK
  <2>. QED
    BY <1>3, <2>1, Parts DEF RunTypeOK, SettleAccess
<1>12. /\ run'[n].pc = "ended" /\ \A m \in Runs \ {n} : run'[m] = run[m]
       /\ UNCHANGED starts
  BY <1>3, Parts DEF RunTypeOK, SettleAccess
<1>13. /\ access'[l].state = "settled"
       /\ \A k \in Leases \ {l} : access'[k] = access[k]
  BY <1>1, <1>3, <1>7, Parts
<1>14. \A m \in Runs \ {n} : HoldsLease(m) => LeaseOf[m] # l
  BY <1>1, Parts DEF RunInv, HoldsLease
<1>15. ~HoldsLease(n)' /\ \A m \in Runs \ {n} : HoldsLease(m)' <=> HoldsLease(m)
  BY <1>12 DEF HoldsLease
<1>16. RunInv'
  <2>1. \A m \in Runs : HoldsLease(m)' => access'[LeaseOf[m]].state = "claimed"
    BY <1>13, <1>14, <1>15, Parts, LeaseAssumption DEF RunInv
  <2>2. \A m, o \in Runs : (HoldsLease(m)' /\ HoldsLease(o)' /\ LeaseOf[m] = LeaseOf[o]) => m = o
    BY <1>15, Parts DEF RunInv
  <2>3. \A k \in Leases : access'[k].state = "claimed" =>
           \E m \in Runs : LeaseOf[m] = k /\ HoldsLease(m)'
    <3>1. SUFFICES ASSUME NEW k \in Leases, access'[k].state = "claimed"
                   PROVE  \E m \in Runs : LeaseOf[m] = k /\ HoldsLease(m)'
      OBVIOUS
    <3>2. k # l /\ access[k].state = "claimed"
      BY <3>1, <1>13
    <3>3. PICK m \in Runs : LeaseOf[m] = k /\ HoldsLease(m)
      BY <3>2, Parts DEF RunInv
    <3>. QED
      BY <3>2, <3>3, <1>15
  <2>4. \A m \in Runs : run'[m].pc = "claimed" => starts'[LeaseOf[m]] = 0
    BY <1>12, Parts DEF RunInv
  <2>5. \A k \in Leases : starts'[k] # 0 =>
          starts'[k] = 1 /\ access'[k].state \notin {"none", "acquiring", "refused", "admitted"}
    BY <1>12, <1>13, Parts DEF RunInv
  <2>. QED
    BY <2>1, <2>2, <2>3, <2>4, <2>5 DEF RunInv
<1>. QED
  BY <1>8, <1>10, <1>11, <1>16, PartsNext

-----------------------------------------------------------------------------
(* The owner, the closing host, and the provider service. *)

\* releaseProviderExecution: a claimed lease stays its turn's until that settles.
LEMMA OwnerStep ==
  ASSUME LeaseInvariant, NEW l \in Leases, OwnerReleases(l), DesktopTypeOK',
         UNCHANGED <<lifecycle, leased>>
  PROVE  LeaseInvariant'
<1>. DEFINE T == [pc : Ongoing \cup {"none", "joined", "ended"}, aborted : BOOLEAN, forced : BOOLEAN]
            e == access[l]
            a == [e EXCEPT !.owner = TRUE]
            b == [a EXCEPT !.requested = a.requested \/ a.state = "admitted"]
            C == Counted(l)
<1>1. e \in Entry /\ EntryInv(e, l, C) /\ a.tracked
  BY Parts DEF LeaseInv, OwnerReleases
<1>2. a \in Entry /\ b \in Entry
  BY <1>1 DEF Entry
<1>3. /\ a.state = e.state /\ a.held = e.held /\ a.todo = e.todo /\ a.tracked = e.tracked
      /\ a.waiting = e.waiting /\ a.timer = e.timer /\ a.acks = e.acks
      /\ a.requested = e.requested
  BY <1>1 DEF Entry
<1>4. /\ b.state = e.state /\ b.held = e.held /\ b.todo = e.todo /\ b.tracked = e.tracked
      /\ b.waiting = e.waiting /\ b.timer = e.timer /\ b.acks = e.acks
      /\ b.requested = (e.requested \/ e.state = "admitted")
  BY <1>1 DEF Entry
<1>5. CountInv' /\ \A k \in Leases : Counted(k)' = Counted(k)
  BY Parts DEF CountInv, Counted
<1>6. e.state \in {"admitted", "claimed", "settled", "released"}
  BY <1>1, <1>3 DEF EntryInv
<1>7. CASE a.state = "claimed"
  <2>1. EntryInv(a, l, C)
    BY <1>1, <1>3, <1>6 DEF EntryInv, Whole
  <2>2. /\ access' = [access EXCEPT ![l] = a]
        /\ run' = [n \in Runs |-> IF LeaseOf[n] = l /\ run[n].pc \in Ongoing \ {"preparing"}
                                  THEN [run[n] EXCEPT !.aborted = TRUE] ELSE run[n]]
        /\ UNCHANGED <<hostClosing, native, starts>>
    BY <1>7 DEF OwnerReleases
  <2>3. \A n \in Runs : /\ [run[n] EXCEPT !.aborted = TRUE] \in T
                        /\ [run[n] EXCEPT !.aborted = TRUE].pc = run[n].pc
                        /\ run[n] \in T
    BY Parts DEF RunTypeOK
  <2>4. run' \in [Runs -> T] /\ \A n \in Runs : run'[n].pc = run[n].pc
    BY <2>2, <2>3
  <2>. HIDE DEF a
  <2>5. OneLease(l, a)
    BY <1>3, <2>2, <2>4 DEF OneLease
  <2>6. EntryInv(a, l, Counted(l)')
    BY <2>1, <1>5
  <2>. QED
    BY <1>2, <1>5, <2>5, <2>6, LeaseStep
<1>8. CASE a.state # "claimed"
  <2>. DEFINE d == StartRelease(b, l, "owner")
  <2>1. Releasable(b, l, C)
    BY <1>1, <1>2, <1>3, <1>4, <1>6, <1>8, ReleaseRequested
  <2>2. d \in Entry /\ EntryInv(d, l, C) /\ d.state = e.state
    BY <1>2, <1>4, <2>1, StartReleaseEntry
  <2>3. access' = [access EXCEPT ![l] = d] /\ UNCHANGED <<run, hostClosing, native, starts>>
    BY <1>8 DEF OwnerReleases
  <2>. HIDE DEF d
  <2>4. OneLease(l, d)
    BY <2>2, <2>3, Parts DEF OneLease, RunTypeOK
  <2>5. EntryInv(d, l, Counted(l)')
    BY <2>2, <1>5
  <2>. QED
    BY <1>5, <2>2, <2>4, <2>5, LeaseStep
<1>. QED
  BY <1>7, <1>8

\* close
LEMMA LeaseCloseStep ==
  ASSUME LeaseInvariant, CloseHost, UNCHANGED desktop
  PROVE  LeaseInvariant'
<1>. DEFINE T == [pc : Ongoing \cup {"none", "joined", "ended"}, aborted : BOOLEAN, forced : BOOLEAN]
<1>1. \A n \in Runs : /\ [run[n] EXCEPT !.aborted = TRUE] \in T
                      /\ [run[n] EXCEPT !.aborted = TRUE].pc = run[n].pc
                      /\ run[n] \in T
  BY Parts DEF RunTypeOK
<1>2. run' \in [Runs -> T] /\ \A n \in Runs : run'[n].pc = run[n].pc
  BY <1>1 DEF CloseHost
<1>3. RunTypeOK'
  BY <1>2, Parts DEF RunTypeOK, CloseHost
<1>4. \A n \in Runs : HoldsLease(n)' <=> HoldsLease(n)
  BY <1>2 DEF HoldsLease
<1>. QED
  BY <1>2, <1>3, <1>4, RunStep DEF CloseHost

\* The closing host releases what no run has claimed.
LEMMA CloseReleasesStep ==
  ASSUME LeaseInvariant, CloseReleases, UNCHANGED desktop
  PROVE  LeaseInvariant'
<1>. DEFINE Released(l) == StartRelease([access[l] EXCEPT !.requested = TRUE], l, "close")
            Next(l) == IF access[l].tracked /\ access[l].state \in {"admitted", "settled"}
                       THEN Released(l) ELSE access[l]
<1>1. DesktopTypeOK' /\ CountInv' /\ \A k \in Leases : Counted(k)' = Counted(k)
  BY Parts, DesktopKept
<1>2. ASSUME NEW l \in Leases
      PROVE  /\ Next(l) \in Entry /\ EntryInv(Next(l), l, Counted(l))
             /\ Next(l).state = access[l].state
  <2>. DEFINE e == access[l]
              b == [e EXCEPT !.requested = TRUE]
  <2>1. e \in Entry /\ EntryInv(e, l, Counted(l))
    BY Parts DEF LeaseInv
  <2>2. b \in Entry
    BY <2>1 DEF Entry
  <2>3. /\ b.state = e.state /\ b.held = e.held /\ b.todo = e.todo /\ b.tracked = e.tracked
        /\ b.waiting = e.waiting /\ b.timer = e.timer /\ b.acks = e.acks
        /\ b.requested = TRUE
    BY <2>1 DEF Entry
  <2>4. CASE e.tracked /\ e.state \in {"admitted", "settled"}
    <3>1. Releasable(b, l, Counted(l))
      BY <2>1, <2>2, <2>3, <2>4, ReleaseRequested
    <3>. HIDE DEF b
    <3>2. /\ StartRelease(b, l, "close") \in Entry
          /\ EntryInv(StartRelease(b, l, "close"), l, Counted(l))
          /\ StartRelease(b, l, "close").state = b.state
      BY <2>2, <3>1, StartReleaseEntry
    <3>3. Next(l) = StartRelease(b, l, "close")
      BY <2>4 DEF b
    <3>. QED
      BY <2>3, <3>2, <3>3
  <2>5. CASE ~(e.tracked /\ e.state \in {"admitted", "settled"})
    BY <2>1, <2>5
  <2>. QED
    BY <2>4, <2>5
<1>3. access' = [l \in Leases |-> Next(l)]
  BY DEF CloseReleases
<1>. HIDE DEF Next
<1>4. (access \in [Leases -> Entry])' /\ \A l \in Leases : access'[l] = Next(l)
  BY <1>2, <1>3
<1>5. LeaseInv'
  <2>1. ASSUME NEW l \in Leases
        PROVE  EntryInv(access[l], l, Counted(l))'
    <3>1. EntryInv(access'[l], l, Counted(l)')
      BY <1>1, <1>2, <1>4
    <3>. QED
      BY <3>1 DEF EntryInv, Whole
  <2>. QED
    BY <2>1 DEF LeaseInv
<1>6. RunInv'
  <2>1. UNCHANGED <<run, starts>> /\ \A l \in Leases : access'[l].state = access[l].state
    BY <1>2, <1>4 DEF CloseReleases
  <2>2. \A n \in Runs : LeaseOf[n] \in Leases /\ (HoldsLease(n)' <=> HoldsLease(n))
    BY <2>1, LeaseAssumption DEF HoldsLease
  <2>. QED
    BY <2>1, <2>2, Parts DEF RunInv
<1>7. RunTypeOK'
  BY Parts DEF RunTypeOK, CloseReleases
<1>. QED
  BY <1>1, <1>4, <1>5, <1>6, <1>7, PartsNext

\* A restart forgets every lease and ends every turn.
LEMMA RestartStep ==
  ASSUME LeaseInvariant, Restart
  PROVE  LeaseInvariant'
<1>. DEFINE T == [pc : Ongoing \cup {"none", "joined", "ended"}, aborted : BOOLEAN, forced : BOOLEAN]
            lost == [NoEntry EXCEPT !.state = "lost"]
<1>1. lost \in Entry
  BY NoEntryIsEntry DEF Entry
<1>2. /\ lost.state = "lost" /\ lost.held = {} /\ lost.todo = {} /\ lost.tracked = FALSE
      /\ lost.waiting = {} /\ lost.timer = "none" /\ lost.acks = {}
  BY DEF NoEntry
<1>3. \A l \in Leases : access'[l] = lost /\ Counted(l)' = {}
  BY DEF Restart, Counted
<1>4. (access \in [Leases -> Entry])'
  BY <1>1 DEF Restart
<1>5. LeaseInv'
  <2>1. ASSUME NEW l \in Leases
        PROVE  EntryInv(access[l], l, Counted(l))'
    <3>1. EntryInv(lost, l, {})
      BY <1>2 DEF EntryInv, Whole
    <3>2. EntryInv(access'[l], l, Counted(l)')
      BY <1>3, <3>1
    <3>. QED
      BY <3>2 DEF EntryInv, Whole
  <2>. QED
    BY <2>1 DEF LeaseInv
<1>6. \A n \in Runs : run'[n].pc \notin Ongoing /\ run'[n] \in T
  <2>1. \A n \in Runs : run[n] \in T
    BY Parts DEF RunTypeOK
  <2>2. \A n \in Runs : run'[n] = [run[n] EXCEPT !.pc = IF @ \in Ongoing THEN "ended" ELSE @]
    BY DEF Restart
  <2>. QED
    BY <2>1, <2>2 DEF Ongoing
<1>7. RunTypeOK'
  <2>1. run' \in [Runs -> T]
    BY <1>6 DEF Restart
  <2>. QED
    BY <2>1, Parts DEF RunTypeOK, Restart
<1>8. RunInv'
  <2>1. \A n \in Runs : ~HoldsLease(n)' /\ run'[n].pc # "claimed"
    BY <1>6 DEF HoldsLease, Ongoing
  <2>2. \A l \in Leases : access'[l].state = "lost" /\ starts'[l] = starts[l]
    BY <1>2, <1>3 DEF Restart
  <2>. QED
    BY <2>1, <2>2, Parts DEF RunInv
<1>9. CountInv'
  BY DEF CountInv, Restart
<1>10. DesktopTypeOK'
  BY Parts, RemovalAssumption DEF DesktopTypeOK, Restart, Finalized
<1>. QED
  BY <1>4, <1>5, <1>7, <1>8, <1>9, <1>10, PartsNext

\* A step of the provider service or of the owner that leaves the host alone.
LEMMA DesktopStep ==
  ASSUME LeaseInvariant, UNCHANGED <<host, leased>>, DesktopTypeOK', CountInv'
  PROVE  LeaseInvariant'
<1>1. (access \in [Leases -> Entry])' /\ LeaseInv'
  BY Parts, EntriesKept DEF host
<1>2. RunTypeOK' /\ RunInv'
  BY Parts DEF RunTypeOK, RunInv, HoldsLease, host
<1>. QED
  BY <1>1, <1>2, PartsNext

\* remove
LEMMA RemoveStep ==
  ASSUME LeaseInvariant, NEW p \in Providers, NEW ok \in BOOLEAN, RemoveProvider(p, ok)
  PROVE  LeaseInvariant'
<1>1. /\ \/ lifecycle' = [lifecycle EXCEPT ![p] = "removal_pending"]
         \/ /\ lifecycle' = [[lifecycle EXCEPT ![p] = "removal_pending"] EXCEPT ![p] = "tombstoned"]
            /\ leased[p] = {}
      /\ UNCHANGED <<host, leased, attempt, boots>>
  BY DEF RemoveProvider
<1>2. /\ lifecycle' \in [Providers -> {"active", "removal_pending", "tombstoned"}]
      /\ lifecycle'[p] = "tombstoned" => leased[p] = {}
      /\ \A q \in Providers \ {p} : lifecycle'[q] = lifecycle[q]
  BY <1>1, Parts DEF DesktopTypeOK
<1>3. CountInv'
  BY <1>1, <1>2, Parts DEF CountInv
<1>4. faulted' \subseteq Providers /\ leaseFaults' \in 0 .. MaxLeaseFaults
  BY Parts, RemovalAssumption DEF RemoveProvider, LeaseFault, DesktopTypeOK
<1>5. DesktopTypeOK'
  BY <1>1, <1>2, <1>4, Parts DEF DesktopTypeOK
<1>. QED
  BY <1>1, <1>3, <1>5, DesktopStep

\* The attempt's record, and the release of a lease the host does not know.
LEMMA AttemptSteps ==
  ASSUME LeaseInvariant, NEW l \in Leases,
         RecordAttempt(l) \/ AttemptEnds(l) \/ \E ok \in BOOLEAN : ReleaseUnknown(l, ok)
  PROVE  LeaseInvariant'
<1>1. CASE RecordAttempt(l) \/ AttemptEnds(l)
  <2>1. UNCHANGED <<host, lifecycle, leased, faulted, leaseFaults, boots>>
    BY <1>1 DEF RecordAttempt, AttemptEnds
  <2>2. DesktopTypeOK' /\ CountInv'
    BY <1>1, <2>1, Parts DEF RecordAttempt, AttemptEnds, DesktopTypeOK, CountInv
  <2>. QED
    BY <2>1, <2>2, DesktopStep
<1>2. ASSUME NEW ok \in BOOLEAN, ReleaseUnknown(l, ok)
      PROVE  LeaseInvariant'
  <2>1. UNCHANGED <<host, leased, boots>> /\ FinalizeDrained(Providers, leased, ok)
    BY <1>2 DEF ReleaseUnknown
  <2>2. attempt' \in [Leases -> {"none", "running", "rejected", "ended", "settled"}]
    BY <1>2, Parts DEF ReleaseUnknown, Answered, DesktopTypeOK
  <2>3. DesktopTypeOK' /\ CountInv'
    BY <2>1, <2>2, FinalizeKeeps, Parts DEF DesktopTypeOK
  <2>. QED
    BY <2>1, <2>3, DesktopStep
<1>. QED
  BY <1>1, <1>2

-----------------------------------------------------------------------------
(* The theorems. *)

\* The invariant holds at first.
LEMMA LeaseInit == RemovalInit => LeaseInvariant
<1>. SUFFICES ASSUME RemovalInit PROVE LeaseInvariant
  OBVIOUS
<1>1. access \in [Leases -> Entry] /\ \A l \in Leases : access[l] = NoEntry
  BY NoEntryIsEntry DEF RemovalInit, HostInit
<1>2. DesktopTypeOK /\ CountInv
  BY RemovalAssumption DEF RemovalInit, DesktopTypeOK, CountInv
<1>3. LeaseInv
  <2>1. \A l \in Leases : Counted(l) = {}
    BY DEF RemovalInit, Counted
  <2>2. \A l \in Leases : EntryInv(NoEntry, l, {})
    BY DEF EntryInv, Whole, NoEntry
  <2>. QED
    BY <1>1, <2>1, <2>2 DEF LeaseInv
<1>4. RunTypeOK
  BY DEF RunTypeOK, RemovalInit, HostInit
<1>5. RunInv
  BY <1>1, LeaseAssumption DEF RunInv, HoldsLease, NoEntry, RemovalInit, HostInit
<1>. QED
  BY <1>1, <1>2, <1>3, <1>4, <1>5, Parts

\* Every step of the host, the provider service and the owner keeps it.
LEMMA LeaseNext ==
  ASSUME LeaseInvariant, [RemovalNext]_leaseVars
  PROVE  LeaseInvariant'
<1>1. CASE HostAlone
  <2>. UNCHANGED desktop
    BY <1>1 DEF HostAlone
  <2>1. CASE \E l \in Leases : Admit(l) \/ ReleaseTimer(l) \/ AckTimer(l) \/ ExpireTimer(l)
    BY <2>1, AdmitStep, ReleaseTimerStep, AckTimerStep, ExpireTimerStep
  <2>2. CASE \E n \in Runs :
               \/ Deliver(n) \/ Claim(n) \/ PrepareFails(n) \/ StartNative(n) \/ NativeEnds(n)
               \/ ForceStop(n) \/ GiveUp(n) \/ SettleAccess(n) \/ CancelRun(n)
    BY <2>2, RunSteps, ClaimStep, StartStep, SettleStep
  <2>3. CASE CloseHost
    BY <2>3, LeaseCloseStep
  <2>4. CASE CloseReleases
    BY <2>4, CloseReleasesStep
  <2>. QED
    BY <1>1, <2>1, <2>2, <2>3, <2>4 DEF HostAlone
<1>2. ASSUME NEW l \in Leases, NEW p \in Providers, NEW ok \in BOOLEAN,
             \/ ProviderReleases(l, p, ok)
             \/ \E who \in {"owner", "host"} : ProviderAcknowledges(l, who, p, ok)
             \/ Acquire(l, p)
      PROVE  LeaseInvariant'
  BY <1>2, ReleaseStep, AcknowledgeStep, AcquireStep
<1>3. ASSUME NEW l \in Leases, RejectAdmission(l) \/ ReleaseDebt(l)
      PROVE  LeaseInvariant'
  <2>1. OwnerReleases(l) /\ UNCHANGED <<lifecycle, leased, faulted, leaseFaults, boots>>
    BY <1>3 DEF RejectAdmission, ReleaseDebt
  <2>2. DesktopTypeOK'
    BY <1>3, <2>1, Parts DEF RejectAdmission, ReleaseDebt, Answered, DesktopTypeOK
  <2>. QED
    BY <2>1, <2>2, OwnerStep
<1>4. ASSUME NEW l \in Leases, AcquireRefused(l)
      PROVE  LeaseInvariant'
  BY <1>4, LeaseRefusedStep
<1>5. ASSUME NEW l \in Leases,
             RecordAttempt(l) \/ AttemptEnds(l) \/ \E ok \in BOOLEAN : ReleaseUnknown(l, ok)
      PROVE  LeaseInvariant'
  BY <1>5, AttemptSteps
<1>6. ASSUME NEW p \in Providers, NEW ok \in BOOLEAN, RemoveProvider(p, ok)
      PROVE  LeaseInvariant'
  BY <1>6, RemoveStep
<1>7. CASE Restart
  BY <1>7, RestartStep
<1>8. CASE UNCHANGED leaseVars
  <2>1. UNCHANGED <<host, leased>> /\ UNCHANGED desktop
    BY <1>8 DEF leaseVars, desktop
  <2>. QED
    BY <2>1, Parts, DesktopKept, DesktopStep
<1>9. CASE RemovalNext
  BY <1>9, <1>1, <1>2, <1>3, <1>4, <1>5, <1>6, <1>7 DEF RemovalNext
<1>. QED
  BY <1>8, <1>9

\* The host, the provider service and the owner keep their leases in step, in every
\* behaviour (host.ts, provider-definition-service.mjs).
THEOREM LeasesInStep == RemovalSpec => []LeaseInvariant
<1>1. LeaseInvariant /\ [RemovalNext]_leaseVars => LeaseInvariant'
  BY LeaseNext
<1>. QED
  BY LeaseInit, <1>1, PTL DEF RemovalSpec

\* Type correctness of the host's leases and of the parties around them.
THEOREM RemovalTypeCorrect == RemovalSpec => []RemovalTypeOK
<1>1. LeaseInvariant => RemovalTypeOK
  BY DEF LeaseInvariant
<1>. QED
  BY LeasesInStep, <1>1, PTL

\* While a turn the host has not given up on runs, each of its providers counts its
\* lease and is not tombstoned, whatever the owner, the user and the faults do.
THEOREM AccessHeld == RemovalSpec => []AccessHeldWhileTurnRuns
<1>1. LeaseInvariant => AccessHeldWhileTurnRuns
  <2>. SUFFICES ASSUME LeaseInvariant, NEW n \in Runs, run[n].pc \in {"claimed", "native"},
                       NEW p \in ProvidersOf[LeaseOf[n]]
                PROVE  LeaseOf[n] \in leased[p] /\ lifecycle[p] # "tombstoned"
    BY DEF AccessHeldWhileTurnRuns
  <2>. DEFINE l == LeaseOf[n]
  <2>1. l \in Leases /\ p \in Providers
    BY LeaseAssumption
  <2>2. access[l].state = "claimed"
    BY Parts DEF RunInv, HoldsLease
  <2>3. Counted(l) = ProvidersOf[l]
    BY <2>1, <2>2, Parts DEF LeaseInv, EntryInv, Whole
  <2>4. l \in leased[p]
    BY <2>3 DEF Counted
  <2>. QED
    BY <2>1, <2>4, Parts DEF CountInv
<1>. QED
  BY LeasesInStep, <1>1, PTL

\* However often a run is delivered, its lease pays for one native turn.
THEOREM OneTurn == RemovalSpec => []OneTurnPerLease
<1>1. LeaseInvariant => OneTurnPerLease
  BY Parts DEF OneTurnPerLease, RunInv, RunTypeOK
<1>. QED
  BY LeasesInStep, <1>1, PTL

\* A lease that is counted has somebody about to release it, until the host closes.
THEOREM NothingStranded == RemovalSpec => []NoStrandedLease
<1>1. LeaseInvariant => NoStrandedLease
  <2>. SUFFICES ASSUME LeaseInvariant, NEW l \in Leases, NEW p \in Providers, l \in leased[p]
                PROVE  LET a == access[l] IN
                         \/ a.state = "acquiring"
                         \/ a.waiting # {} /\ p \in a.todo
                         \/ a.tracked /\ a.timer = "release"
                         \/ a.tracked /\ a.state = "claimed"
                            /\ \E n \in Runs : LeaseOf[n] = l /\ run[n].pc \in Ongoing \ {"preparing"}
    BY DEF NoStrandedLease
  <2>1. EntryInv(access[l], l, Counted(l)) /\ p \in Counted(l)
    BY Parts DEF LeaseInv, Counted
  <2>2. CASE access[l].state = "claimed"
    <3>1. PICK n \in Runs : LeaseOf[n] = l /\ HoldsLease(n)
      BY <2>2, Parts DEF RunInv
    <3>. QED
      BY <2>1, <2>2, <3>1 DEF EntryInv, HoldsLease, Ongoing
  <2>3. CASE access[l].state # "claimed"
    BY <2>1, <2>3 DEF EntryInv, Whole
  <2>. QED
    BY <2>2, <2>3
<1>. QED
  BY LeasesInStep, <1>1, PTL
=============================================================================
