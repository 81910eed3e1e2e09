-------------------------- MODULE VtpHistoryProofs --------------------------
(***************************************************************************)
(* Theorems about what VtpBuffers remembers: entries that a release        *)
(* stepped over, references that were lost, and pages whose memory was     *)
(* unmapped while they were pinned.  They say what of a buffer's memory a  *)
(* release unmaps, and what the FPGA may still find of earlier memory.     *)
(*                                                                         *)
(* HistoryInv adds to BuffersInv what the histories are made of, and where *)
(* buffers start: the entries before a buffer's address, in the 2MB page   *)
(* of which it needs a part, are the ones that a release would step over.  *)
(***************************************************************************)
EXTENDS VtpBuffersProofs

-----------------------------------------------------------------------------
(* Entries that a release stepped over.                                    *)

\* A reference too many, which nobody will give back.
Spare(r) == Pinned(r) /\ pt[r].refs > Users(r)
SkippedSpare == \A r \in skipped : Spare(r)

LEMMA SpareQuiet ==
  ASSUME TypeOK, Shapes, NEW t \in Thread, Quiet(t), TypeOK', NEW r \in Region, Spare(r)
  PROVE  Spare(r)'
  <1>1. /\ pt' = pt /\ bufs' = bufs /\ \A u \in Thread \ {t} : thr'[u] = thr[u]
        /\ (Lo(t)' = Lo(t) /\ Hi(t)' = Hi(t)) \/ Hi(t)' <= Lo(t)'
    BY DEF Quiet
  <1>2. Pinned(r)' /\ pt'[r].refs = pt[r].refs /\ pt[r].refs \in Nat /\ pt[r].refs > Users(r)
    BY <1>1, EntryIs DEF Pinned, Spare
  <1>3. /\ Users(r) \in Nat /\ Users(r)' \in Nat
        /\ (Meets(r, Lo(t), Hi(t)) <=> Meets(r, Lo(t)', Hi(t)')) => Users(r)' = Users(r)
        /\ Meets(r, Lo(t), Hi(t)) /\ ~Meets(r, Lo(t)', Hi(t)') => Users(r)' = Users(r) - 1
    BY <1>1, UsersMove
  <1>4. Lo(t)' \in Nat /\ Hi(t)' \in Nat
    BY ThreadNext
  <1>5. Meets(r, Lo(t)', Hi(t)') => Meets(r, Lo(t), Hi(t))
    BY <1>1, <1>4 DEF Meets
  <1> QED BY <1>2, <1>3, <1>5 DEF Spare

LEMMA SparePin ==
  ASSUME TypeOK, Shapes, Disjoint, AllCovered, NEW t \in Thread, NEW e \in Region, PinStep(t, e),
         NEW r \in Region, Spare(r)
  PROVE  Spare(r)'
  <1>1. /\ Pinned(r)' /\ \A u \in Thread \ {t} : thr'[u] = thr[u]
        /\ r # e => pt'[r] = pt[r] /\ (Meets(r, Lo(t)', Hi(t)') <=> Meets(r, Lo(t), Hi(t)))
        /\ r = e => pt'[r].refs = pt[r].refs + 1
        /\ bufs' = bufs /\ pt[r].refs > Users(r) /\ pt[r].refs \in Nat
    BY PinStepIs, EntryIs DEF PinStep, Spare
  <1>2. /\ Users(r) \in Nat /\ Users(r)' \in Nat
        /\ (Meets(r, Lo(t), Hi(t)) <=> Meets(r, Lo(t)', Hi(t)')) => Users(r)' = Users(r)
        /\ ~Meets(r, Lo(t), Hi(t)) /\ Meets(r, Lo(t)', Hi(t)') => Users(r)' = Users(r) + 1
        /\ Meets(r, Lo(t), Hi(t)) /\ ~Meets(r, Lo(t)', Hi(t)') => Users(r)' = Users(r) - 1
    BY <1>1, UsersMove
  <1> QED BY <1>1, <1>2 DEF Spare

LEMMA SpareTrack ==
  ASSUME TypeOK, Shapes, NEW t \in Thread, Track(t), NEW r \in Region, Spare(r)
  PROVE  Spare(r)'
  <1>0. PICK d : d = Descriptor(t)
    OBVIOUS
  <1>1. /\ thr[t].pc = "pin" /\ thr[t].end <= thr[t].at /\ bufs' = BagAdd(bufs, d)
        /\ thr' = [thr EXCEPT ![t] = Idle] /\ pt' = pt /\ wedged' = wedged
        /\ d.start = thr[t].start /\ EndOf(d) = thr[t].vaddr + thr[t].len
    BY <1>0, TrackIs
  <1>2. thr'[t] = Idle /\ \A u \in Thread \ {t} : thr'[u] = thr[u]
    BY <1>1, ToIdle
  <1>3. Pinned(r)' /\ pt'[r] = pt[r] /\ pt[r].refs \in Nat /\ pt[r].refs > Users(r)
    BY <1>1, EntryIs DEF Pinned, Spare
  <1>4. PICK start, at, last : start = thr[t].start /\ at = thr[t].at /\ last = EndOf(d)
    OBVIOUS
  <1>5. start \in Nat /\ at \in Nat /\ last \in Nat /\ last <= at
    BY <1>1, <1>4, ThreadIs, CallIs
  <1>6. /\ Lo(t) = start /\ Hi(t) = at /\ Lo(t)' = 0 /\ Hi(t)' = 0
    BY <1>1, <1>2, <1>4, IdleAfter DEF Lo, Hi
  <1>7. ~Meets(r, Lo(t)', Hi(t)')
    BY <1>6 DEF Meets
  <1>8. Cardinality(Sharers(r)) \in Nat /\ Users(r) \in Nat
    BY UsersIs
  <1>9. CASE Meets(r, start, last)
    <2>1. Meets(r, start, at)
      BY <1>5, <1>9, RegionIs DEF Meets
    <2>2. Cardinality(Sharers(r)') = Cardinality(Sharers(r)) + 1
      BY <1>1, <1>4, <1>9, SharersAdd
    <2>3. Users(r)' = (Users(r) - 1) + 1
      BY <1>2, <1>6, <1>7, <2>1, <2>2, UsersChange
    <2> QED BY <1>3, <1>8, <2>3 DEF Spare
  <1>10. CASE ~Meets(r, start, last)
    <2>1. Cardinality(Sharers(r)') = Cardinality(Sharers(r)) + 0
      BY <1>1, <1>4, <1>8, <1>10, SharersAdd
    <2>2. Users(r)' = Users(r) + 0 \/ Users(r)' = (Users(r) - 1) + 0
      BY <1>2, <1>7, <2>1, UsersChange
    <2> QED BY <1>3, <1>8, <2>2 DEF Spare
  <1> QED BY <1>9, <1>10

LEMMA SpareRelease ==
  ASSUME TypeOK, Shapes, NEW t \in Thread, NEW h \in BagToSet(held), Release(t, h), NEW r \in Region, Spare(r)
  PROVE  Spare(r)'
  <1>1. PICK d \in BagToSet(bufs), me \in Activity :
            /\ thr[t].pc = "idle" /\ bufs' = BagRemove(bufs, d) /\ thr' = [thr EXCEPT ![t] = me]
            /\ me.pc = "remove" /\ me.at = d.start /\ me.end = EndOf(d) /\ pt' = pt
    BY ReleaseIs
  <1>2. thr'[t] = me /\ \A u \in Thread \ {t} : thr'[u] = thr[u]
    BY <1>1, ThreadMoves
  <1>3. Pinned(r)' /\ pt'[r] = pt[r] /\ pt[r].refs \in Nat /\ pt[r].refs > Users(r)
    BY <1>1, EntryIs DEF Pinned, Spare
  <1>4. Lo(t)' = d.start /\ Hi(t)' = EndOf(d) /\ ~Meets(r, Lo(t), Hi(t))
    BY <1>1, <1>2, IdleRange DEF Lo, Hi
  <1>5. Cardinality(Sharers(r)) \in Nat /\ Users(r) \in Nat
    BY UsersIs
  <1>6. CASE Meets(r, d.start, EndOf(d))
    <2>1. Cardinality(Sharers(r)') = Cardinality(Sharers(r)) + (0 - 1)
      BY <1>1, <1>5, <1>6, SharersRemove
    <2>2. Users(r)' = Users(r) + 1 + (0 - 1)
      BY <1>2, <1>4, <1>6, <2>1, UsersChange
    <2> QED BY <1>3, <1>5, <2>2 DEF Spare
  <1>7. CASE ~Meets(r, d.start, EndOf(d))
    <2>1. Cardinality(Sharers(r)') = Cardinality(Sharers(r)) + 0
      BY <1>1, <1>5, <1>7, SharersRemove
    <2>2. Users(r)' = Users(r) + 0
      BY <1>2, <1>4, <1>7, <2>1, UsersChange
    <2> QED BY <1>3, <1>5, <2>2 DEF Spare
  <1> QED BY <1>6, <1>7

LEMMA SpareRemove ==
  ASSUME TypeOK, Shapes, Disjoint, AllCovered, NEW t \in Thread, RemovePage(t), NEW s \in Region, Spare(s)
  PROVE  Spare(s)'
  <1>1. PICK r \in Region, me \in Activity : Taking(t, r, me) /\ (TakesOne(t, r, me) \/ TakesLast(t, r, me))
    BY RemovePageIs
  <1>2. /\ \A u \in Thread \ {t} : thr'[u] = thr[u]
        /\ Meets(r, Lo(t), Hi(t)) /\ ~Meets(r, Lo(t)', Hi(t)')
        /\ s # r => (Meets(s, Lo(t)', Hi(t)') => Meets(s, Lo(t), Hi(t)))
    BY <1>1, TakingRange DEF Spare
  <1>3. /\ s # r => pt'[s] = pt[s] /\ Pinned(s)'
        /\ s = r => pt'[s].refs = pt[s].refs - 1 /\ (Pinned(s)' <=> pt[s].refs # 1)
        /\ pt[s].refs \in Nat /\ pt[s].refs > Users(s) /\ bufs' = bufs
    <2>1. pt[s].refs \in Nat /\ pt[s].refs > Users(s) /\ Pinned(s) /\ bufs' = bufs
      BY <1>1, EntryIs DEF Spare, Taking
    <2> QED BY <1>1, <2>1, TakingPinned
  <1>4. /\ Users(s) \in Nat /\ Users(s)' \in Nat
        /\ (Meets(s, Lo(t), Hi(t)) <=> Meets(s, Lo(t)', Hi(t)')) => Users(s)' = Users(s)
        /\ Meets(s, Lo(t), Hi(t)) /\ ~Meets(s, Lo(t)', Hi(t)') => Users(s)' = Users(s) - 1
    BY <1>2, <1>3, UsersMove
  <1>5. CASE s = r
    <2>1. Users(s)' = Users(s) - 1
      BY <1>2, <1>4, <1>5
    <2> QED BY <1>3, <1>4, <1>5, <2>1 DEF Spare
  <1>6. CASE s # r
    BY <1>2, <1>3, <1>4, <1>6 DEF Spare
  <1> QED BY <1>5, <1>6

\* What a release steps over has a reference too many from then on.
LEMMA SteppedSpare ==
  ASSUME TypeOK, Shapes, Disjoint, AllCovered, Counts, NEW t \in Thread, NEW r \in Region, NEW me \in Activity,
         Taking(t, r, me), TakesOne(t, r, me) \/ TakesLast(t, r, me), NEW s \in Stepped(t, r)
  PROVE  Spare(s)'
  <1>1. s \in Region /\ Pinned(s)
    BY DEF Stepped, Left
  <1>2. /\ \A u \in Thread \ {t} : thr'[u] = thr[u]
        /\ s # r /\ Meets(s, Lo(t), Hi(t)) /\ ~Meets(s, Lo(t)', Hi(t)')
    BY <1>1, TakingRange
  <1>3. pt'[s] = pt[s] /\ Pinned(s)' /\ pt[s].refs >= Users(s) /\ pt[s].refs \in Nat /\ bufs' = bufs
    BY <1>1, <1>2, TakingPinned, CountsIs, EntryIs DEF Taking
  <1>4. Users(s) \in Nat /\ Users(s)' = Users(s) - 1
    BY <1>1, <1>2, <1>3, UsersMove
  <1> QED BY <1>3, <1>4 DEF Spare

\* What a step does to what was stepped over: it stays, and more may come.
SkippedKept == skipped \subseteq skipped' /\ \A r \in Region : Spare(r) => Spare(r)'

LEMMA SkippedQuiet ==
  ASSUME TypeOK, Shapes, TypeOK', NEW t \in Thread, Quiet(t), skipped' = skipped
  PROVE  SkippedKept
  BY SpareQuiet DEF SkippedKept

LEMMA RemoveSkipped ==
  ASSUME Core, SkippedSpare, NEW t \in Thread, NEW r \in Region, NEW me \in Activity,
         Taking(t, r, me), TakesOne(t, r, me) \/ TakesLast(t, r, me)
  PROVE  skipped' = skipped \union Stepped(t, r)
  <1> USE DEF Core
  <1>1. /\ skipped' = (IF pt[r].refs = 1 THEN skipped \ {r} ELSE skipped) \union Stepped(t, r)
        /\ bufs' = bufs
    BY DEF Taking
  <1>2. ASSUME r \in skipped PROVE pt[r].refs # 1
    <2>1. pt[r].refs > Users(r)
      BY <1>2 DEF SkippedSpare, Spare
    <2>2. \A u \in Thread \ {t} : thr'[u] = thr[u]
      BY TakingRange
    <2>3. Meets(r, Lo(t), Hi(t)) /\ ~Meets(r, Lo(t)', Hi(t)')
      BY TakingRange
    <2>4. Users(r) \in Nat /\ Users(r)' \in Nat /\ Users(r)' = Users(r) - 1
      BY <1>1, <2>2, <2>3, UsersMove
    <2> QED BY <2>1, <2>4
  <1> QED BY <1>1, <1>2

LEMMA SkippedStep ==
  ASSUME Core, Core', SkippedSpare, Next
  PROVE  SkippedKept
  <1> USE DEF Core
  <1>1. CASE \E r \in Region : UserMap(r) \/ UserUnmap(r)
    <2>1. UNCHANGED <<pt, bufs, thr, skipped>>
      BY <1>1 DEF UserMap, UserUnmap
    <2> QED BY <2>1 DEF SkippedKept, Spare, Pinned, Users, Sharing, InCall, Copies, Meets
  <1>2. ASSUME NEW t \in Thread, NEW n \in Lengths, NEW a \in Address, Prealloc(t, a, n) \/ Alloc(t, n, a)
        PROVE  SkippedKept
    <2>1. skipped' = skipped
      BY <1>2 DEF Prealloc, Alloc
    <2> QED BY <1>2, <2>1, PreallocQuiet, AllocQuiet, SkippedQuiet
  <1>3. ASSUME NEW t \in Thread, NEW h \in BagToSet(held), Release(t, h)
        PROVE  SkippedKept
    <2>1. skipped' = skipped
      BY <1>3 DEF Release
    <2> QED BY <1>3, <2>1, SpareRelease DEF SkippedKept
  <1>4. ASSUME NEW t \in Thread, PinFound(t) \/ PinNew(t, Large) \/ PinNew(t, Small)
        PROVE  SkippedKept
    <2>1. PICK e \in Region : PinStep(t, e)
      BY <1>4, PinFoundStep, PinNewStep
    <2>2. skipped' = skipped
      BY <2>1 DEF PinStep
    <2> QED BY <2>1, <2>2, SparePin DEF SkippedKept
  <1>5. ASSUME NEW t \in Thread, Track(t)
        PROVE  SkippedKept
    <2>1. skipped' = skipped
      BY <1>5 DEF Track
    <2> QED BY <1>5, <2>1, SpareTrack DEF SkippedKept
  <1>6. ASSUME NEW t \in Thread, RemovePage(t)
        PROVE  SkippedKept
    <2>1. PICK r \in Region, me \in Activity : Taking(t, r, me) /\ (TakesOne(t, r, me) \/ TakesLast(t, r, me))
      BY <1>6, RemovePageIs
    <2>2. skipped \subseteq skipped'
      BY <2>1, RemoveSkipped
    <2> QED BY <1>6, <2>2, SpareRemove DEF SkippedKept
  <1>7. ASSUME NEW t \in Thread,
               PrepareFails(t) \/ InvalPage(t) \/ InvalFails(t) \/ UnpinPage(t) \/ UnmapBuffer(t)
        PROVE  SkippedKept
    <2>1. skipped' = skipped
      BY <1>7 DEF PrepareFails, InvalPage, InvalFails, UnpinPage, UnmapBuffer
    <2>2. Quiet(t)
      BY <1>7, PrepareFailsQuiet, InvalPageQuiet, InvalFailsQuiet, UnpinPageQuiet, UnmapBufferQuiet
    <2> QED BY <2>1, <2>2, SkippedQuiet
  <1>8. \A t \in Thread : Call(t) => SkippedKept
    BY <1>4, <1>5, <1>6, <1>7 DEF Call
  <1>9. \A t \in Thread :
           (\E n \in Lengths : \E a \in Address : Prealloc(t, a, n) \/ Alloc(t, n, a))
           \/ (\E h \in BagToSet(held) : Release(t, h)) => SkippedKept
    BY <1>2, <1>3
  <1> QED BY <1>1, <1>8, <1>9 DEF Next

\* A page with such an entry keeps it.
LEMMA SeenStays ==
  ASSUME SkippedSpare, SkippedKept, NEW p \in Page, Seen(p)
  PROVE  Seen(p)'
  <1>1. p \in Address
    BY PageIs, AddressIs
  <1>2. PICK s \in Found(p) : s \in skipped
    BY DEF Seen
  <1>3. s \in Region /\ s.at <= p /\ p < s.at + s.size
    BY <1>1, <1>2, FoundIs
  <1>4. Pinned(s)' /\ s \in skipped'
    BY <1>2, <1>3 DEF SkippedSpare, SkippedKept, Spare
  <1>5. s \in Found(p)'
    BY <1>1, <1>3, <1>4, FoundNext
  <1> QED BY <1>4, <1>5 DEF Seen

LEMMA SkippedSame ==
  ASSUME Next
  PROVE  (\E t \in Thread : RemovePage(t)) \/ skipped' = skipped
  <1>1. ASSUME NEW r \in Region, UserMap(r) \/ UserUnmap(r) PROVE skipped' = skipped
    BY <1>1 DEF UserMap, UserUnmap
  <1>2. ASSUME NEW t \in Thread, NEW n \in Lengths, NEW a \in Address, Prealloc(t, a, n) \/ Alloc(t, n, a)
        PROVE  skipped' = skipped
    BY <1>2 DEF Prealloc, Alloc
  <1>3. ASSUME NEW t \in Thread, NEW h \in BagToSet(held), Release(t, h) PROVE skipped' = skipped
    BY <1>3 DEF Release
  <1>4. ASSUME NEW t \in Thread, PinFound(t) \/ PinNew(t, Large) \/ PinNew(t, Small) PROVE skipped' = skipped
    BY <1>4 DEF PinFound, PinNew
  <1>5. ASSUME NEW t \in Thread, \/ Track(t) \/ PrepareFails(t) \/ InvalPage(t) \/ InvalFails(t)
                                 \/ UnpinPage(t) \/ UnmapBuffer(t)
        PROVE  skipped' = skipped
    BY <1>5 DEF Track, PrepareFails, InvalPage, InvalFails, UnpinPage, UnmapBuffer
  <1>6. \A t \in Thread : Call(t) => RemovePage(t) \/ skipped' = skipped
    BY <1>4, <1>5 DEF Call
  <1> QED BY <1>1, <1>2, <1>3, <1>6 DEF Next

LEMMA SkippedSpareKept ==
  ASSUME Core, Core', SkippedSpare, Next
  PROVE  SkippedSpare'
  <1> USE DEF Core
  <1>1. SkippedKept
    BY SkippedStep
  <1>2. skipped \subseteq Region
    BY DEF TypeOK
  <1>3. CASE \E t \in Thread : RemovePage(t)
    <2>1. PICK t \in Thread : RemovePage(t)
      BY <1>3
    <2>2. PICK r \in Region, me \in Activity : Taking(t, r, me) /\ (TakesOne(t, r, me) \/ TakesLast(t, r, me))
      BY <2>1, RemovePageIs
    <2>3. skipped' = skipped \union Stepped(t, r)
      BY <2>2, RemoveSkipped
    <2>4. \A s \in Stepped(t, r) : Spare(s)'
      BY <2>2, SteppedSpare
    <2> QED BY <1>1, <1>2, <2>3, <2>4 DEF SkippedSpare, SkippedKept
  <1>4. CASE skipped' = skipped
    BY <1>1, <1>2, <1>4 DEF SkippedSpare, SkippedKept
  <1>5. (\E t \in Thread : RemovePage(t)) \/ skipped' = skipped
    BY SkippedSame
  <1> QED BY <1>3, <1>4, <1>5

\* Of a 2MB page a release steps over a first part: all that is found before an
\* entry that it stepped over was stepped over too.
SkippedFirst ==
    \A s \in skipped : \A p \in Page : Down(p, Large) = Down(s.at, Large) /\ p <= s.at => Seen(p)

LEMMA SteppedFirst ==
  ASSUME Core, SkippedSpare, NEW t \in Thread, NEW r \in Region, NEW me \in Activity,
         Taking(t, r, me), TakesOne(t, r, me) \/ TakesLast(t, r, me),
         NEW s \in Stepped(t, r), NEW p \in Page, Down(p, Large) = Down(s.at, Large), p <= s.at
  PROVE  Seen(p)'
  <1> USE DEF Core
  <1>0. PICK at, end, low : at = thr[t].at /\ end = thr[t].end /\ low = Lower(at + r.size, end)
    OBVIOUS
  <1>1. /\ s \in Region /\ Pinned(s) /\ Meets(s, r.at + r.size, low) /\ ~Meets(s, at + r.size, end)
        /\ Pinned(r) /\ r.at <= at /\ at < r.at + r.size /\ at < end
        /\ at \in Page /\ at \in Nat /\ end \in Nat /\ thr[t].pc = "remove"
    BY <1>0, ThreadIs DEF Stepped, Left, Taking
  <1>2. /\ r.at \in Nat /\ r.size \in Nat \ {0} /\ s.at \in Nat /\ s.size \in Nat \ {0}
        /\ Aligned(r.at, Small) /\ Aligned(r.at, r.size) /\ r.size \in {Small, Large}
        /\ Aligned(at, Small) /\ p \in Nat /\ p \in Address
    BY <1>1, RegionIs, PageIs, AddressIs
  <1>3. low \in Nat /\ low <= at + r.size /\ low <= end
    BY <1>0, <1>1, <1>2 DEF Lower
  <1>4. s.at < low /\ r.at + r.size < s.at + s.size /\ r.at + r.size < low
    BY <1>1 DEF Meets
  <1>5. r.size = Large /\ Large \in Nat \ {0}
    <2>1. ASSUME r.size = Small PROVE FALSE
      <3>1. r.at < at => r.at + Small <= at
        BY <1>1, <1>2, AlignedStep, Sizes
      <3> QED BY <1>1, <1>2, <1>3, <1>4, <2>1, <3>1
    <2> QED BY <1>2, <2>1, Sizes
  <1>6. r.at + Large <= s.at
    <2>1. r # s
      BY <1>2, <1>4
    <2> QED BY <1>1, <1>2, <1>4, <1>5, <2>1, Apart
  <1>7. r.at + Large <= p
    <2>1. /\ Down(s.at, Large) \in Nat /\ s.at < Down(s.at, Large) + Large /\ Aligned(Down(s.at, Large), Large)
          /\ Down(p, Large) <= p
      BY <1>2, <1>5, DownIs
    <2>2. Aligned(r.at + Large, Large) /\ r.at + Large \in Nat
      BY <1>2, <1>5, AlignedSum, AlignedBasics
    <2>3. Down(s.at, Large) < r.at + Large => Down(s.at, Large) + Large <= r.at + Large
      BY <1>5, <2>1, <2>2, AlignedStep
    <2> QED BY <1>2, <1>5, <1>6, <2>1, <2>2, <2>3
  <1>8. at <= p /\ p < end /\ p < low
    BY <1>1, <1>2, <1>3, <1>4, <1>5, <1>7
  <1>9. PICK q \in Region : Pinned(q) /\ q.at <= p /\ p < q.at + q.size
    <2>1. Covered(at, end)
      <3>1. Lo(t) = at /\ Hi(t) = end
        BY <1>0, <1>1 DEF Lo, Hi
      <3> QED BY <3>1 DEF AllCovered
    <2>2. end <= Units
      BY <1>0, <1>1, CallIs
    <2> QED BY <1>1, <1>2, <1>8, <2>1, <2>2, CoveredIs
  <1>10. q.at \in Nat /\ q.size \in Nat \ {0}
    BY RegionIs
  <1>11. q \in Stepped(t, r)
    <2>1. Meets(q, r.at + r.size, low)
      BY <1>2, <1>3, <1>4, <1>5, <1>7, <1>8, <1>9, <1>10 DEF Meets
    <2>2. ~Meets(q, at + r.size, end)
      <3>1. CASE q = s
        BY <1>1, <3>1
      <3>2. CASE q # s
        <4>1. q.at + q.size <= s.at \/ s.at + s.size <= q.at
          BY <1>1, <1>9, <3>2, Apart
        <4>2. q.at + q.size <= at + r.size
          BY <1>2, <1>3, <1>4, <1>9, <1>10, <4>1, <1>1
        <4> QED BY <1>1, <1>2, <1>10, <4>2 DEF Meets
      <3> QED BY <3>1, <3>2
    <2> QED BY <1>0, <1>9, <2>1, <2>2 DEF Stepped, Left
  <1>12. q # r /\ Pinned(q)'
    BY <1>2, <1>5, <1>7, <1>9, <1>11, TakingPinned
  <1>13. q \in skipped'
    BY <1>11, RemoveSkipped
  <1> QED BY <1>2, <1>9, <1>12, <1>13, FoundNext DEF Seen

LEMMA SkippedFirstKept ==
  ASSUME Core, Core', SkippedSpare, SkippedFirst, Next
  PROVE  SkippedFirst'
  <1> USE DEF Core
  <1>1. \A p \in Page : Seen(p) => Seen(p)'
    BY SkippedStep, SeenStays
  <1>2. ASSUME NEW s \in skipped, NEW p \in Page, Down(p, Large) = Down(s.at, Large), p <= s.at
        PROVE  Seen(p)'
    BY <1>1, <1>2 DEF SkippedFirst
  <1>3. ASSUME NEW s \in skipped', NEW p \in Page, Down(p, Large) = Down(s.at, Large), p <= s.at
        PROVE  Seen(p)'
    <2>1. CASE s \in skipped
      BY <1>2, <1>3, <2>1
    <2>2. CASE s \notin skipped
      <3>1. PICK t \in Thread : RemovePage(t)
        BY <1>3, <2>2, SkippedSame
      <3>2. PICK r \in Region, me \in Activity : Taking(t, r, me) /\ (TakesOne(t, r, me) \/ TakesLast(t, r, me))
        BY <3>1, RemovePageIs
      <3>3. s \in Stepped(t, r)
        BY <1>3, <2>2, <3>2, RemoveSkipped
      <3> QED BY <1>3, <3>2, <3>3, SteppedFirst
    <2> QED BY <2>1, <2>2
  <1> QED BY <1>3 DEF SkippedFirst

-----------------------------------------------------------------------------
(* Pages of hugetlbfs.                                                     *)

\* The parts of such a page are the user's, or they are MPF's.
HugeWhole ==
    \A r \in huge : \E o \in {"user", "mpf"} : \A p \in Pages(r.at, r.at + r.size) : mem[p] = o

\* When the pages keep their owners the new ones alone matter.
LEMMA HugeWholeKept ==
  ASSUME TypeOK, HugeWhole,
         \A r \in huge' : \/ r \in huge /\ \A p \in Pages(r.at, r.at + r.size) : mem'[p] = mem[p]
                          \/ \E o \in {"user", "mpf"} : \A p \in Pages(r.at, r.at + r.size) : mem'[p] = o
  PROVE  HugeWhole'
  BY DEF HugeWhole

LEMMA UnmappedHuge ==
  ASSUME TypeOK, HugeWhole, NEW from \in Nat, NEW end \in Nat, end <= Units, Unmapped(from, end)
  PROVE  HugeWhole'
  <1>1. ASSUME NEW r \in huge' PROVE r \in huge /\ \A p \in Pages(r.at, r.at + r.size) : mem'[p] = mem[p]
    <2>1. r \in huge /\ r \in Region /\ ~Meets(r, from, end)
      BY DEF Unmapped, TypeOK
    <2>2. ASSUME NEW p \in Pages(r.at, r.at + r.size) PROVE mem'[p] = mem[p]
      <3>1. p \in Page /\ r.at <= p /\ p < r.at + r.size
        BY <2>1, PagesOfRegion
      <3>2. p \in Nat /\ Aligned(p, Small) /\ r.at \in Nat /\ r.size \in Nat
        BY <2>1, <3>1, PageIs, RegionIs
      <3>3. p + Small <= r.at + r.size
        <4>1. ~(p + Small <= r.at)
          BY <3>1, <3>2, Sizes
        <4> QED BY <2>1, <3>1, <3>2, <4>1, PageWhole
      <3>4. p \notin Pages(from, end)
        <4>1. p \in Pages(from, end) => p < end /\ from < p + Small /\ from < end
          BY PagesTouched
        <4> QED BY <2>1, <3>1, <3>2, <3>3, <4>1, Sizes DEF Meets
      <3> QED BY <3>1, <3>4 DEF Unmapped
    <2> QED BY <2>1, <2>2
  <1> QED BY <1>1, HugeWholeKept

LEMMA HugeWholeUser ==
  ASSUME TypeOK, HugeWhole, NEW r \in Region, UserMap(r) \/ UserUnmap(r)
  PROVE  HugeWhole'
  <1>1. CASE UserMap(r)
    <2>1. /\ \A p \in Pages(r.at, r.at + r.size) : mem[p] = "free"
          /\ mem' = [p \in Page |-> IF p \in Span(r) THEN "user" ELSE mem[p]]
          /\ \A s \in huge' : s \in huge \/ s = r
      BY <1>1 DEF UserMap
    <2>2. \A p \in Page : p \in Span(r) <=> p \in Pages(r.at, r.at + r.size)
      BY RegionIs, PageIs, PagesOfRegion DEF Span
    <2>3. ASSUME NEW s \in huge, NEW p \in Pages(s.at, s.at + s.size) PROVE mem'[p] = mem[p]
      <3>1. p \in Page
        BY <2>3, PagesOfRegion DEF TypeOK
      <3>2. mem[p] # "free"
        BY <2>3 DEF HugeWhole
      <3> QED BY <2>1, <2>2, <3>1, <3>2
    <2>4. \A p \in Pages(r.at, r.at + r.size) : mem'[p] = "user"
      BY <2>1, <2>2, PagesOfRegion
    <2> QED BY <2>1, <2>3, <2>4, HugeWholeKept
  <1>2. CASE UserUnmap(r)
    BY <1>2, RegionIs, UnmappedHuge, Sizes DEF UserUnmap
  <1> QED BY <1>1, <1>2

LEMMA HugeWholeAlloc ==
  ASSUME TypeOK, HugeWhole, NEW t \in Thread, NEW n \in Lengths, NEW a \in Address, Alloc(t, n, a)
  PROVE  HugeWhole'
  <1>1. PICK end \in Nat :
            /\ a \in Nat /\ Aligned(a, Small) /\ end <= Units
            /\ \A p \in Pages(a, end) : mem[p] = "free"
            /\ mem' = [p \in Page |-> IF p \in Pages(a, end) THEN "mpf" ELSE mem[p]]
            /\ huge' \subseteq {s \in Region : s.size = Large}
            /\ \A r \in huge' : r \in huge \/ (a <= r.at /\ r.at + r.size <= end)
    BY AllocIs
  <1>2. ASSUME NEW r \in huge PROVE \A p \in Pages(r.at, r.at + r.size) : mem'[p] = mem[p]
    <2>1. \A p \in Pages(r.at, r.at + r.size) : p \in Page /\ mem[p] # "free"
      BY <1>2, PagesOfRegion DEF HugeWhole, TypeOK
    <2> QED BY <1>1, <2>1
  <1>3. ASSUME NEW r \in huge', a <= r.at, r.at + r.size <= end
        PROVE  \A p \in Pages(r.at, r.at + r.size) : mem'[p] = "mpf"
    <2>1. r \in Region /\ r.at \in Nat /\ r.size \in Nat
      BY <1>1, RegionIs
    <2>2. ASSUME NEW p \in Pages(r.at, r.at + r.size) PROVE p \in Page /\ p \in Pages(a, end)
      <3>1. p \in Page /\ p \in Nat /\ r.at <= p /\ p < r.at + r.size
        BY <2>1, <2>2, PagesOfRegion, PageIs
      <3> QED BY <1>1, <1>3, <2>1, <3>1, PagesIn
    <2> QED BY <1>1, <2>2
  <1> QED BY <1>1, <1>2, <1>3, HugeWholeKept

LEMMA HugeWholeStep ==
  ASSUME TypeOK, Shapes, HugeWhole, Next
  PROVE  HugeWhole'
  <1>1. ASSUME NEW t \in Thread, NEW n \in Lengths, NEW a \in Address, Prealloc(t, a, n) \/ Alloc(t, n, a)
        PROVE  HugeWhole'
    <2>1. CASE Prealloc(t, a, n)
      BY <2>1 DEF Prealloc, HugeWhole
    <2> QED BY <1>1, <2>1, HugeWholeAlloc
  <1>2. ASSUME NEW t \in Thread, UnmapBuffer(t) PROVE HugeWhole'
    <2>1. /\ thr[t].start + thr[t].len \in Nat /\ thr[t].start + thr[t].len <= thr[t].end
          /\ \/ UNCHANGED <<mem, huge>>
             \/ Unmapped(thr[t].start, thr[t].start + thr[t].len)
          /\ thr[t].pc \in {"unmap", "break"}
      BY <1>2, UnmapBufferIs
    <2>2. thr[t].start \in Nat /\ thr[t].start + thr[t].len <= Units
      BY <2>1, ThreadIs, CallIs, Sizes
    <2>3. CASE UNCHANGED <<mem, huge>>
      BY <2>3 DEF HugeWhole
    <2> QED BY <2>1, <2>2, <2>3, UnmappedHuge
  <1>3. ASSUME NEW t \in Thread, NEW h \in BagToSet(held), Release(t, h) PROVE UNCHANGED <<mem, huge>>
    BY <1>3 DEF Release
  <1>4. ASSUME NEW t \in Thread, PinFound(t) \/ PinNew(t, Large) \/ PinNew(t, Small) PROVE UNCHANGED <<mem, huge>>
    BY <1>4 DEF PinFound, PinNew
  <1>5. ASSUME NEW t \in Thread, \/ Track(t) \/ PrepareFails(t) \/ InvalPage(t) \/ InvalFails(t)
                                 \/ UnpinPage(t) \/ RemovePage(t)
        PROVE  UNCHANGED <<mem, huge>>
    BY <1>5 DEF Track, PrepareFails, InvalPage, InvalFails, UnpinPage, RemovePage
  <1>6. UNCHANGED <<mem, huge>> => HugeWhole'
    BY DEF HugeWhole
  <1>7. \A t \in Thread : Call(t) => HugeWhole'
    BY <1>2, <1>4, <1>5, <1>6 DEF Call
  <1> QED BY <1>1, <1>3, <1>6, <1>7, HugeWholeUser DEF Next

\* A page that a held buffer meets is in a buffer of the table.
LEMMA HeldInPage ==
  ASSUME TypeOK, Shapes, Dominated, NEW p \in Page, HeldIn(At(p, Small))
  PROVE  InBuffer(p)
  <1>1. p \in Address /\ p \in Nat /\ p < Units
    BY PageIs, AddressIs
  <1>2. PICK h \in BagToSet(held) : Meets(At(p, Small), h.vaddr, h.vaddr + h.len)
    BY DEF HeldIn
  <1>3. At(p, Small).at = p /\ At(p, Small).size = Small
    <2>1. At(p, Small).at = Down(p, Small) /\ At(p, Small).size = Small
      BY <1>1, AtIs
    <2>2. p = Down(p, Small)
      BY <1>1, PageIs, DownUnique, Sizes
    <2> QED BY <2>1, <2>2
  <1>4. PICK d \in BagToSet(bufs) : d.vaddr = h.vaddr /\ d.len >= h.len
    BY HeldDescribed
  <1>5. h.vaddr \in Nat /\ h.len \in Nat /\ h.vaddr + h.len \in Nat /\ h.vaddr + h.len <= Units
    BY <1>4, BufferIs, DescIs, DescShapeIs, Sizes DEF EndOf
  <1>6. p \in Pages(h.vaddr, h.vaddr + h.len)
    BY <1>1, <1>2, <1>3, <1>5, PagesTouched DEF Meets
  <1> QED BY <1>6, HeldInBuffer

-----------------------------------------------------------------------------
(* Where the buffers and the calls of a state come from.                   *)

LEMMA BufsFrom ==
  ASSUME TypeOK, Shapes, Next, NEW d \in BagToSet(bufs'), d \notin BagToSet(bufs)
  PROVE  \E t \in Thread : Track(t) /\ thr[t].pc = "pin" /\ d = Descriptor(t)
  <1>1. ASSUME NEW t \in Thread, NEW h \in BagToSet(held), Release(t, h) PROVE FALSE
    <2>1. PICK e \in BagToSet(bufs) : bufs' = BagRemove(bufs, e)
      BY <1>1, ReleaseIs
    <2> QED BY <2>1, BagsType, BagRemoveIs
  <1>2. bufs' # bufs
    OBVIOUS
  <1>3. ASSUME NEW t \in Thread, Track(t) PROVE thr[t].pc = "pin" /\ d = Descriptor(t)
    <2>1. thr[t].pc = "pin" /\ bufs' = BagAdd(bufs, Descriptor(t))
      BY <1>3, TrackIs
    <2> QED BY <2>1, BagsType, BagAddIs
  <1>4. ASSUME NEW r \in Region, UserMap(r) \/ UserUnmap(r) PROVE FALSE
    BY <1>2, <1>4 DEF UserMap, UserUnmap
  <1>5. ASSUME NEW t \in Thread, NEW n \in Lengths, NEW a \in Address, Prealloc(t, a, n) \/ Alloc(t, n, a) PROVE FALSE
    BY <1>2, <1>5 DEF Prealloc, Alloc
  <1>6. ASSUME NEW t \in Thread, PinFound(t) \/ PinNew(t, Large) \/ PinNew(t, Small) PROVE FALSE
    BY <1>2, <1>6 DEF PinFound, PinNew
  <1>7. ASSUME NEW t \in Thread, \/ PrepareFails(t) \/ InvalPage(t) \/ InvalFails(t)
                                 \/ UnpinPage(t) \/ RemovePage(t) \/ UnmapBuffer(t)
        PROVE  FALSE
    BY <1>2, <1>7 DEF PrepareFails, InvalPage, InvalFails, UnpinPage, RemovePage, UnmapBuffer
  <1>8. \A t \in Thread : Call(t) => Track(t)
    BY <1>6, <1>7 DEF Call
  <1> QED BY <1>1, <1>3, <1>4, <1>5, <1>8 DEF Next

\* A call that prepares began just now, or was preparing the same before.
SameCall(t) ==
    /\ thr[t].pc = "pin" /\ thr'[t].vaddr = thr[t].vaddr /\ thr'[t].start = thr[t].start
    /\ thr'[t].len = thr[t].len /\ thr'[t].end = thr[t].end /\ (thr'[t].alloc <=> thr[t].alloc)

LEMMA PinsFrom ==
  ASSUME Core, Next, NEW t \in Thread, thr'[t].pc = "pin"
  PROVE  \/ SameCall(t)
         \/ \E n \in Lengths : \E a \in Address : Prealloc(t, a, n) \/ Alloc(t, n, a)
  <1> USE DEF Core
  <1>1. thr'[t] = thr[t] => SameCall(t)
    BY DEF SameCall
  <1>2. ASSUME NEW r \in Region, UserMap(r) \/ UserUnmap(r) PROVE thr'[t] = thr[t]
    BY <1>2 DEF UserMap, UserUnmap
  <1>3. ASSUME NEW u \in Thread, NEW n \in Lengths, NEW a \in Address, Prealloc(u, a, n) \/ Alloc(u, n, a), u # t
        PROVE  thr'[t] = thr[t]
    BY <1>3, BeginMoves DEF Prealloc, Alloc
  <1>4. ASSUME NEW u \in Thread, NEW h \in BagToSet(held), Release(u, h) PROVE thr'[t] = thr[t]
    <2>1. PICK me \in Activity : me.pc = "remove" /\ thr' = [thr EXCEPT ![u] = me]
      BY <1>4, ReleaseIs
    <2> QED BY <2>1, ThreadMoves
  <1>5. ASSUME NEW u \in Thread, PinFound(u) \/ PinNew(u, Large) \/ PinNew(u, Small) PROVE SameCall(t)
    <2>1. PICK e \in Region : PinStep(u, e)
      BY <1>5, PinFoundStep, PinNewStep
    <2> QED BY <1>1, <2>1 DEF PinStep, SameCall
  <1>6. ASSUME NEW u \in Thread, Track(u) \/ PrepareFails(u) \/ UnmapBuffer(u) PROVE thr'[t] = thr[t]
    <2>1. thr' = [thr EXCEPT ![u] = Idle]
      BY <1>6 DEF Track, PrepareFails, UnmapBuffer
    <2> QED BY <2>1 DEF Idle, TypeOK
  <1>7. ASSUME NEW u \in Thread, RemovePage(u) PROVE thr'[t] = thr[t]
    <2>1. PICK r \in Region, me \in Activity : Taking(u, r, me) /\ (TakesOne(u, r, me) \/ TakesLast(u, r, me))
      BY <1>7, RemovePageIs
    <2>2. thr'[u] = me /\ \A w \in Thread \ {u} : thr'[w] = thr[w]
      BY <2>1, TakingRange
    <2>3. me.pc # "pin"
      BY <2>1 DEF TakesOne, TakesLast, AfterPage
    <2> QED BY <2>2, <2>3
  <1>8. ASSUME NEW u \in Thread, InvalPage(u) \/ InvalFails(u) \/ UnpinPage(u) PROVE thr'[t] = thr[t]
    <2>1. PICK pc \in {"unpin", "break", "remove", "unmap"} : Onward(u, pc) /\ thr[u].pc \in {"inval", "unpin"}
      BY <1>8, InvalPageIs, InvalFailsIs, UnpinPageIs
    <2> QED BY <2>1, OnwardRange
  <1>9. \A u \in Thread : Call(u) => SameCall(t)
    BY <1>1, <1>5, <1>6, <1>7, <1>8 DEF Call
  <1> QED BY <1>1, <1>2, <1>3, <1>4, <1>9 DEF Next

\* Memory that is the user's stays so until the user unmaps it.
LEMMA UserStays ==
  ASSUME Core, Owners, Next, NEW p \in Page, mem[p] = "user", mem'[p] # "user"
  PROVE  \E r \in Region : UserUnmap(r) /\ p \in Pages(r.at, r.at + r.size)
  <1> USE DEF Core
  <1>1. ASSUME NEW r \in Region, UserMap(r) PROVE FALSE
    BY <1>1 DEF UserMap
  <1>2. ASSUME NEW r \in Region, UserUnmap(r) PROVE p \in Pages(r.at, r.at + r.size)
    BY <1>2 DEF UserUnmap, Unmapped
  <1>3. mem' # mem
    OBVIOUS
  <1>4. ASSUME NEW t \in Thread, NEW n \in Lengths, NEW a \in Address, Prealloc(t, a, n) \/ Alloc(t, n, a) PROVE FALSE
    <2>1. Alloc(t, n, a)
      BY <1>3, <1>4 DEF Prealloc
    <2>2. PICK end \in Nat : /\ \A q \in Pages(a, end) : mem[q] = "free"
                             /\ mem' = [q \in Page |-> IF q \in Pages(a, end) THEN "mpf" ELSE mem[q]]
      BY <2>1, AllocIs
    <2> QED BY <2>2
  <1>5. ASSUME NEW t \in Thread, NEW h \in BagToSet(held), Release(t, h) PROVE FALSE
    BY <1>3, <1>5 DEF Release
  <1>6. ASSUME NEW t \in Thread, PinFound(t) \/ PinNew(t, Large) \/ PinNew(t, Small) PROVE FALSE
    BY <1>3, <1>6 DEF PinFound, PinNew
  <1>7. ASSUME NEW t \in Thread, \/ Track(t) \/ PrepareFails(t) \/ InvalPage(t) \/ InvalFails(t)
                                 \/ UnpinPage(t) \/ RemovePage(t)
        PROVE  FALSE
    BY <1>3, <1>7 DEF Track, PrepareFails, InvalPage, InvalFails, UnpinPage, RemovePage
  <1>8. ASSUME NEW t \in Thread, UnmapBuffer(t) PROVE FALSE
    BY <1>8, UnmappedIs
  <1>9. \A t \in Thread : Call(t) => FALSE
    BY <1>6, <1>7, <1>8 DEF Call
  <1> QED BY <1>1, <1>2, <1>4, <1>5, <1>9 DEF Next

\* New pages of hugetlbfs are mapped where nothing was.
LEMMA HugeNew ==
  ASSUME TypeOK, Next, NEW r \in huge', r \notin huge
  PROVE  r \in Region /\ \A p \in Pages(r.at, r.at + r.size) : mem[p] = "free"
  <1>1. ASSUME NEW s \in Region, UserMap(s) PROVE r = s /\ \A p \in Pages(r.at, r.at + r.size) : mem[p] = "free"
    BY <1>1 DEF UserMap
  <1>2. ASSUME NEW s \in Region, UserUnmap(s) PROVE FALSE
    BY <1>2 DEF UserUnmap, Unmapped
  <1>3. huge' # huge
    OBVIOUS
  <1>4. ASSUME NEW t \in Thread, NEW n \in Lengths, NEW a \in Address, Prealloc(t, a, n) \/ Alloc(t, n, a)
        PROVE  r \in Region /\ \A p \in Pages(r.at, r.at + r.size) : mem[p] = "free"
    <2>1. Alloc(t, n, a)
      BY <1>3, <1>4 DEF Prealloc
    <2>2. PICK end \in Nat : /\ a \in Nat /\ Aligned(a, Small) /\ end <= Units
                             /\ \A p \in Pages(a, end) : mem[p] = "free"
                             /\ huge' \subseteq {s \in Region : s.size = Large}
                             /\ \A s \in huge' : s \in huge \/ (a <= s.at /\ s.at + s.size <= end)
      BY <2>1, AllocIs
    <2>3. r \in Region /\ r.at \in Nat /\ r.size \in Nat /\ a <= r.at /\ r.at + r.size <= end
      BY <2>2, RegionIs
    <2>4. ASSUME NEW p \in Pages(r.at, r.at + r.size) PROVE p \in Pages(a, end)
      <3>1. p \in Page /\ p \in Nat /\ r.at <= p /\ p < r.at + r.size
        BY <2>3, <2>4, PagesOfRegion, PageIs
      <3> QED BY <2>2, <2>3, <3>1, PagesIn
    <2> QED BY <2>2, <2>3, <2>4
  <1>5. ASSUME NEW t \in Thread, NEW h \in BagToSet(held), Release(t, h) PROVE FALSE
    BY <1>3, <1>5 DEF Release
  <1>6. ASSUME NEW t \in Thread, PinFound(t) \/ PinNew(t, Large) \/ PinNew(t, Small) PROVE FALSE
    BY <1>3, <1>6 DEF PinFound, PinNew
  <1>7. ASSUME NEW t \in Thread, \/ Track(t) \/ PrepareFails(t) \/ InvalPage(t) \/ InvalFails(t)
                                 \/ UnpinPage(t) \/ RemovePage(t)
        PROVE  FALSE
    BY <1>3, <1>7 DEF Track, PrepareFails, InvalPage, InvalFails, UnpinPage, RemovePage
  <1>8. ASSUME NEW t \in Thread, UnmapBuffer(t) PROVE FALSE
    BY <1>3, <1>8 DEF UnmapBuffer, Unmapped
  <1>9. \A t \in Thread : Call(t) => FALSE
    BY <1>6, <1>7, <1>8 DEF Call
  <1> QED BY <1>1, <1>2, <1>4, <1>5, <1>9 DEF Next

-----------------------------------------------------------------------------
(* Where buffers start.                                                    *)

\* Inside a page of hugetlbfs a buffer starts at the page, unless the release
\* of another stepped over what is found at the buffer's address.
StartsLow(vaddr, start) ==
    At(vaddr, Large) \in huge => start <= Down(vaddr, Large) \/ Seen(Down(vaddr, Small))
HugeStarts ==
    /\ \A d \in BagToSet(bufs) : StartsLow(d.vaddr, d.start)
    /\ \A t \in Thread : thr[t].pc = "pin" => StartsLow(thr[t].vaddr, thr[t].start)

\* The first page that a buffer asks for.
LEMMA FirstIs ==
  ASSUME NEW a \in Address
  PROVE  /\ Down(a, Small) \in Page /\ Down(a, Small) \in Nat /\ Down(a, Small) \in Address
         /\ Down(a, Small) <= a /\ a < Down(a, Small) + Small
         /\ Down(a, Small) \in Pages(At(a, Large).at, At(a, Large).at + At(a, Large).size)
         /\ \A n \in Nat \ {0} : a + n <= Units => Down(a, Small) \in Pages(a, a + n)
  <1>1. a \in Nat /\ a < Units /\ Small \in Nat \ {0} /\ Large \in Nat \ {0}
    BY AddressIs, Sizes
  <1>2. /\ Down(a, Small) \in Nat /\ Down(a, Small) <= a /\ a < Down(a, Small) + Small
        /\ Aligned(Down(a, Small), Small)
    BY <1>1, DownIs
  <1>3. Down(a, Small) \in Page /\ Down(a, Small) \in Address
    BY <1>1, <1>2, PageIs, AddressIs, Sizes
  <1>4. Down(a, Small) \in Pages(At(a, Large).at, At(a, Large).at + At(a, Large).size)
    <2>1. /\ At(a, Large) \in Region /\ At(a, Large).size = Large
          /\ At(a, Large).at <= a /\ a < At(a, Large).at + Large
      BY AtIs
    <2>2. At(a, Large).at \in Nat /\ Aligned(At(a, Large).at, Small)
      BY <2>1, RegionIs
    <2>3. At(a, Large).at <= Down(a, Small)
      <3>1. Down(a, Small) < At(a, Large).at => Down(a, Small) + Small <= At(a, Large).at
        BY <1>1, <1>2, <2>2, AlignedStep
      <3> QED BY <1>1, <1>2, <2>1, <2>2, <3>1
    <2> QED BY <1>1, <1>2, <1>3, <2>1, <2>2, <2>3, PagesOfRegion
  <1>5. ASSUME NEW n \in Nat \ {0}, a + n <= Units PROVE Down(a, Small) \in Pages(a, a + n)
    BY <1>1, <1>2, <1>3, <1>5, PagesTouched
  <1> QED BY <1>2, <1>3, <1>4, <1>5

LEMMA StartsLowKept ==
  ASSUME TypeOK, Next, SkippedSpare, SkippedKept, NEW a \in Address, NEW start, StartsLow(a, start),
         mem[Down(a, Small)] # "free" \/ Seen(Down(a, Small))
  PROVE  StartsLow(a, start)'
  <1>1. Down(a, Small) \in Page /\ Down(a, Small) \in Pages(At(a, Large).at, At(a, Large).at + At(a, Large).size)
    BY FirstIs
  <1>2. Seen(Down(a, Small)) => Seen(Down(a, Small))'
    BY <1>1, SeenStays
  <1>3. At(a, Large) \in huge' => At(a, Large) \in huge \/ mem[Down(a, Small)] = "free"
    BY <1>1, HugeNew
  <1> QED BY <1>2, <1>3 DEF StartsLow

\* The first page of a buffer is mapped, as the user holds a buffer there.
LEMMA DescMapped ==
  ASSUME TypeOK, Shapes, Dominated, HeldMapped, ~wedged, NEW d \in BagToSet(bufs)
  PROVE  mem[Down(d.vaddr, Small)] # "free" \/ Seen(Down(d.vaddr, Small))
  <1>1. d.vaddr \in Address /\ d.vaddr \in Nat /\ d.len \in Nat \ {0}
    BY DescIs
  <1>2. PICK h \in BagToSet(held) : h.vaddr = d.vaddr
    BY HeldAtDesc
  <1>3. h.len \in Nat \ {0} /\ h.vaddr + h.len <= Units
    <2>1. PICK e \in BagToSet(bufs) : e.vaddr = h.vaddr /\ e.len >= h.len
      BY HeldDescribed
    <2>2. e.vaddr + e.len <= Units
      BY DescShapeIs DEF EndOf
    <2> QED BY <2>1, <2>2, BufferIs, DescIs, Sizes
  <1>4. Down(d.vaddr, Small) \in Pages(h.vaddr, h.vaddr + h.len)
    BY <1>1, <1>2, <1>3, FirstIs
  <1> QED BY <1>4 DEF HeldMapped, Seen

LEMMA PinMapped ==
  ASSUME TypeOK, Shapes, Owners, Prepared, NEW t \in Thread, thr[t].pc = "pin"
  PROVE  mem[Down(thr[t].vaddr, Small)] # "free" \/ Seen(Down(thr[t].vaddr, Small))
  <1>1. thr[t].vaddr \in Address /\ thr[t].len \in Nat \ {0} /\ thr[t].vaddr + thr[t].len <= Units
    BY ThreadIs, CallIs, Sizes
  <1>2. Down(thr[t].vaddr, Small) \in Pages(thr[t].vaddr, thr[t].vaddr + thr[t].len)
    BY <1>1, FirstIs
  <1> QED BY <1>2, ReadyMapped DEF Prepared

\* Where a call begins.
LEMMA BeginStarts ==
  ASSUME TypeOK, HugeWhole, NEW t \in Thread, NEW n \in Lengths, NEW a \in Address, Prealloc(t, a, n) \/ Alloc(t, n, a)
  PROVE  thr'[t].vaddr = a /\ \E start : start = thr'[t].start /\ StartsLow(a, start)'
  <1>1. CASE Prealloc(t, a, n)
    <2>1. PICK start : /\ start = Down(a, IF At(a, Large) \in huge THEN Large ELSE Small)
                       /\ Begin(t, a, n, start, a + n, FALSE) /\ huge' = huge
      BY <1>1 DEF Prealloc
    <2>2. thr'[t].vaddr = a /\ thr'[t].start = start
      <3>1. Begin(t, a, n, start, a + n, FALSE)
        BY <2>1
      <3> QED BY <3>1 DEF TypeOK, Begin, Idle
    <2>3. At(a, Large) \in huge => start <= Down(a, Large)
      BY <2>1, DownIs, AddressIs, Sizes
    <2> QED BY <2>1, <2>2, <2>3 DEF StartsLow
  <1>2. CASE Alloc(t, n, a)
    <2>1. PICK end \in Nat :
              /\ a \in Nat /\ n \in Nat \ {0} /\ a + n <= end /\ end <= Units /\ Aligned(a, Small)
              /\ Begin(t, a, n, a, end, TRUE)
              /\ \A p \in Pages(a, end) : mem[p] = "free"
              /\ \A r \in huge' : r \in huge \/ (a <= r.at /\ r.at + r.size <= end)
      BY <1>2, AllocIs
    <2>2. thr'[t].vaddr = a /\ thr'[t].start = a
      <3>1. Begin(t, a, n, a, end, TRUE)
        BY <2>1
      <3> QED BY <3>1 DEF TypeOK, Begin, Idle
    <2>3. ASSUME At(a, Large) \in huge PROVE FALSE
      <3>1. Down(a, Small) \in Pages(At(a, Large).at, At(a, Large).at + At(a, Large).size)
        BY FirstIs
      <3>2. mem[Down(a, Small)] # "free"
        BY <2>3, <3>1 DEF HugeWhole
      <3>3. Down(a, Small) \in Pages(a, a + n) /\ a + n \in Nat
        BY <2>1, FirstIs, Sizes
      <3>4. Pages(a, a + n) \subseteq Pages(a, end)
        BY <2>1, <3>3, PagesMono
      <3> QED BY <2>1, <3>2, <3>3, <3>4
    <2>4. At(a, Large) \in huge' => a <= Down(a, Large)
      BY <2>1, <2>3 DEF At
    <2> QED BY <2>2, <2>4 DEF StartsLow
  <1> QED BY <1>1, <1>2

LEMMA HugeStartsStep ==
  ASSUME Core, Core', Dominated, Owners, ~wedged, InUse, SkippedSpare, HugeWhole, HugeStarts, Next
  PROVE  HugeStarts'
  <1> USE DEF Core, InUse
  <1>1. SkippedKept
    BY SkippedStep
  <1>2. ASSUME NEW t \in Thread, thr[t].pc = "pin", NEW a, a = thr[t].vaddr, NEW start, start = thr[t].start
        PROVE  StartsLow(a, start)'
    <2>1. a \in Address
      BY <1>2, ThreadIs
    <2>2. mem[Down(a, Small)] # "free" \/ Seen(Down(a, Small))
      BY <1>2, PinMapped
    <2>3. StartsLow(a, start)
      BY <1>2 DEF HugeStarts
    <2> QED BY <1>1, <2>1, <2>2, <2>3, StartsLowKept
  <1>3. ASSUME NEW d \in BagToSet(bufs') PROVE StartsLow(d.vaddr, d.start)'
    <2>1. CASE d \in BagToSet(bufs)
      <3>1. PICK a, start : a \in Address /\ a = d.vaddr /\ start = d.start
        BY <2>1, DescIs
      <3>2. mem[Down(a, Small)] # "free" \/ Seen(Down(a, Small))
        BY <2>1, <3>1, DescMapped
      <3>3. StartsLow(a, start)
        BY <2>1, <3>1 DEF HugeStarts
      <3>4. StartsLow(a, start)'
        BY <1>1, <3>1, <3>2, <3>3, StartsLowKept
      <3> QED BY <3>1, <3>4
    <2>2. CASE d \notin BagToSet(bufs)
      <3>1. PICK t \in Thread : thr[t].pc = "pin" /\ d = Descriptor(t)
        BY <1>3, <2>2, BufsFrom
      <3>2. PICK a, start : a = d.vaddr /\ start = d.start
        OBVIOUS
      <3>3. a = thr[t].vaddr /\ start = thr[t].start
        BY <3>1, <3>2 DEF Descriptor
      <3>4. StartsLow(a, start)'
        BY <1>2, <3>1, <3>3
      <3> QED BY <3>2, <3>4
    <2> QED BY <2>1, <2>2
  <1>4. ASSUME NEW t \in Thread, thr'[t].pc = "pin"
        PROVE  \E a, start : a = thr'[t].vaddr /\ start = thr'[t].start /\ StartsLow(a, start)'
    <2>1. CASE SameCall(t)
      <3>1. PICK a, start : a = thr[t].vaddr /\ start = thr[t].start
        OBVIOUS
      <3>2. StartsLow(a, start)'
        BY <1>2, <2>1, <3>1 DEF SameCall
      <3> QED BY <2>1, <3>1, <3>2 DEF SameCall
    <2>2. CASE \E n \in Lengths : \E a \in Address : Prealloc(t, a, n) \/ Alloc(t, n, a)
      BY <2>2, BeginStarts
    <2> QED BY <1>4, <2>1, <2>2, PinsFrom
  <1>5. ASSUME NEW t \in Thread, thr'[t].pc = "pin" PROVE StartsLow(thr[t].vaddr, thr[t].start)'
    <2>1. PICK a, start : a = thr'[t].vaddr /\ start = thr'[t].start /\ StartsLow(a, start)'
      BY <1>4, <1>5
    <2> QED BY <2>1 DEF StartsLow, Seen, Found, At
  <1> QED BY <1>3, <1>5 DEF HugeStarts

\* Below the address that it prepares a call has memory of the user, or of a
\* buffer, or what a release stepped over.
Known(p) == mem[p] = "user" \/ (\E d \in BagToSet(bufs) : p \in DescLand(d)) \/ Seen(p)
StartsKnown ==
    \A t \in Thread : thr[t].pc = "pin" =>
        \A p \in Page : thr[t].start <= p /\ p < Down(thr[t].vaddr, Small) => Known(p)

\* What was stepped over at a page was stepped over before it in the same 2MB.
LEMMA SeenBefore ==
  ASSUME SkippedSpare, SkippedFirst, NEW p \in Page, NEW q \in Page, p <= q,
         Down(p, Large) = Down(q, Large), Seen(q)
  PROVE  Seen(p)
  <1>1. p \in Nat /\ q \in Nat /\ p \in Address /\ q \in Address /\ Large \in Nat \ {0}
    BY PageIs, AddressIs, Sizes
  <1>2. PICK s \in Found(q) : s \in skipped
    BY DEF Seen
  <1>3. s \in Region /\ Pinned(s) /\ s.at <= q /\ q < s.at + s.size /\ s.at \in Nat /\ s.size \in Nat
    BY <1>1, <1>2, FoundIs, RegionIs
  <1>4. CASE s.at <= p
    <2>1. s \in Found(p)
      BY <1>1, <1>3, <1>4, FoundIs
    <2> QED BY <1>2, <2>1 DEF Seen
  <1>5. CASE p < s.at
    <2>1. /\ Down(p, Large) \in Nat /\ Aligned(Down(p, Large), Large) /\ Down(p, Large) <= p
          /\ q < Down(p, Large) + Large
      BY <1>1, DownIs
    <2>2. Down(s.at, Large) = Down(p, Large)
      BY <1>1, <1>3, <1>5, <2>1, DownUnique
    <2> QED BY <1>1, <1>2, <1>3, <1>5, <2>2 DEF SkippedFirst
  <1> QED BY <1>1, <1>3, <1>4, <1>5

\* Memory in a page of hugetlbfs before one that the user holds.
LEMMA KnownBefore ==
  ASSUME TypeOK, Shapes, SkippedSpare, SkippedFirst, HugeStarts, NEW a \in Address, At(a, Large) \in huge,
         InBuffer(Down(a, Small)), NEW p \in Page, Down(a, Large) <= p, p < Down(a, Small)
  PROVE  Known(p)
  <1>1. PICK f, low : f = Down(a, Small) /\ low = Down(a, Large)
    OBVIOUS
  <1>2. /\ f \in Page /\ f \in Nat /\ f <= a /\ a < f + Small /\ Aligned(f, Small)
        /\ low \in Nat /\ low <= a /\ a < low + Large /\ Aligned(low, Large) /\ Aligned(low, Small)
        /\ p \in Nat /\ a \in Nat /\ Small \in Nat \ {0} /\ Large \in Nat \ {0}
    BY <1>1, FirstIs, DownIs, PageIs, AddressIs, Sizes, AlignedBasics
  <1>3. PICK d \in BagToSet(bufs) : f \in Pages(d.vaddr, EndOf(d)) /\ f \in DescLand(d)
    BY <1>1, InBufferIs
  <1>4. /\ d.vaddr \in Address /\ d.vaddr \in Nat /\ d.start \in Nat /\ EndOf(d) \in Nat /\ EndOf(d) <= Units
        /\ Aligned(d.start, Small) /\ d.start <= d.vaddr
    BY DescIs, DescShapeIs
  <1>5. d.vaddr < f + Small /\ f < EndOf(d)
    BY <1>3, <1>4, PagesTouched
  <1>6. CASE d.start <= p
    <2>1. p \in DescLand(d)
      BY <1>1, <1>2, <1>4, <1>5, <1>6, PagesIn DEF DescLand
    <2> QED BY <2>1 DEF Known
  <1>7. CASE p < d.start
    <2>1. f + Small <= low + Large
      <3>1. Aligned(low + Large, Small)
        BY <1>2, AlignedSum, AlignedBasics
      <3> QED BY <1>2, <3>1, AlignedStep
    <2>2. Down(d.vaddr, Large) = low
      BY <1>1, <1>2, <1>4, <1>5, <1>7, <2>1, DownUnique
    <2>3. At(d.vaddr, Large) \in huge
      BY <1>1, <2>2 DEF At
    <2>4. Seen(Down(d.vaddr, Small))
      BY <1>1, <1>2, <1>4, <1>7, <2>2, <2>3 DEF HugeStarts, StartsLow
    <2>5. PICK g \in Page : g = Down(d.vaddr, Small) /\ g \in Nat /\ g <= d.vaddr /\ d.vaddr < g + Small
      BY <1>4, FirstIs
    <2>6. d.start <= g
      BY <1>2, <1>4, <2>5, PageIs, AlignedStep
    <2>7. p <= g /\ g < low + Large
      BY <1>2, <1>4, <1>5, <1>7, <2>1, <2>5, <2>6
    <2>8. Down(p, Large) = low /\ Down(g, Large) = low
      BY <1>1, <1>2, <2>5, <2>7, DownUnique
    <2> QED BY <2>4, <2>5, <2>7, <2>8, SeenBefore DEF Known
  <1> QED BY <1>2, <1>4, <1>6, <1>7

LEMMA BeginKnown ==
  ASSUME TypeOK, Shapes, Dominated, SkippedSpare, SkippedFirst, HugeWhole, HugeStarts,
         NEW t \in Thread, NEW n \in Lengths, NEW a \in Address, Prealloc(t, a, n) \/ Alloc(t, n, a),
         NEW p \in Page, thr'[t].start <= p, p < Down(a, Small)
  PROVE  thr'[t].vaddr = a /\ Known(p) /\ UNCHANGED <<mem, bufs>>
  <1>1. /\ Down(a, Small) \in Page /\ Down(a, Small) \in Nat /\ Down(a, Small) <= a
        /\ Down(a, Small) \in Pages(At(a, Large).at, At(a, Large).at + At(a, Large).size)
        /\ n \in Nat \ {0} /\ a \in Nat /\ p \in Nat
    BY FirstIs, LengthIs, AddressIs, PageIs
  <1>2. CASE Prealloc(t, a, n)
    <2>1. PICK start : /\ start = Down(a, IF At(a, Large) \in huge THEN Large ELSE Small)
                       /\ Begin(t, a, n, start, a + n, FALSE) /\ a + n <= Units /\ UNCHANGED <<mem, bufs>>
                       /\ \A q \in Pages(a, a + n) : mem[q] = "user" \/ (mem[q] = "mpf" /\ HeldIn(At(q, Small)))
      BY <1>2 DEF Prealloc
    <2>2. thr'[t].vaddr = a /\ thr'[t].start = start
      <3>1. Begin(t, a, n, start, a + n, FALSE)
        BY <2>1
      <3> QED BY <3>1 DEF TypeOK, Begin, Idle
    <2>3. At(a, Large) \in huge /\ start = Down(a, Large)
      BY <1>1, <2>1, <2>2
    <2>4. Down(a, Small) \in Pages(a, a + n)
      BY <1>1, <2>1, FirstIs
    <2>5. mem[Down(a, Small)] = "user" \/ (mem[Down(a, Small)] # "user" /\ HeldIn(At(Down(a, Small), Small)))
      BY <2>1, <2>4
    <2>6. ASSUME mem[Down(a, Small)] = "user" PROVE Known(p)
      <3>1. PICK r : r = At(a, Large)
        OBVIOUS
      <3>2. r \in Region /\ r.at = Down(a, Large) /\ r.size = Large /\ a < r.at + r.size /\ r.at \in Nat
        BY <3>1, AtIs, RegionIs
      <3>3. p \in Pages(r.at, r.at + r.size)
        BY <1>1, <2>2, <2>3, <3>2, PagesOfRegion, Sizes
      <3>4. mem[p] = mem[Down(a, Small)]
        BY <1>1, <2>3, <3>1, <3>3 DEF HugeWhole
      <3> QED BY <2>6, <3>4 DEF Known
    <2>7. ASSUME HeldIn(At(Down(a, Small), Small)) PROVE Known(p)
      <3>1. InBuffer(Down(a, Small))
        BY <1>1, <2>7, HeldInPage
      <3> QED BY <2>2, <2>3, <3>1, KnownBefore
    <2> QED BY <2>1, <2>2, <2>5, <2>6, <2>7
  <1>3. CASE Alloc(t, n, a)
    <2>1. PICK end \in Nat : Begin(t, a, n, a, end, TRUE)
      BY <1>3, AllocIs
    <2>2. thr'[t].start = a
      <3>1. Begin(t, a, n, a, end, TRUE)
        BY <2>1
      <3> QED BY <3>1 DEF TypeOK, Begin, Idle
    <2> QED BY <1>1, <2>2
  <1> QED BY <1>2, <1>3

\* A descriptor leaves the table in the release of a buffer.
LEMMA BufsLeave ==
  ASSUME TypeOK, Shapes, Next, NEW d \in BagToSet(bufs), d \notin BagToSet(bufs')
  PROVE  \E t \in Thread : \E h \in BagToSet(held) : Release(t, h)
  <1>1. bufs' # bufs
    OBVIOUS
  <1>2. ASSUME NEW r \in Region, UserMap(r) \/ UserUnmap(r) PROVE FALSE
    BY <1>1, <1>2 DEF UserMap, UserUnmap
  <1>3. ASSUME NEW t \in Thread, NEW n \in Lengths, NEW a \in Address, Prealloc(t, a, n) \/ Alloc(t, n, a) PROVE FALSE
    BY <1>1, <1>3 DEF Prealloc, Alloc
  <1>4. ASSUME NEW t \in Thread, PinFound(t) \/ PinNew(t, Large) \/ PinNew(t, Small) PROVE FALSE
    BY <1>1, <1>4 DEF PinFound, PinNew
  <1>5. ASSUME NEW t \in Thread, Track(t) PROVE FALSE
    <2>1. bufs' = BagAdd(bufs, Descriptor(t))
      BY <1>5, TrackIs
    <2> QED BY <2>1, BagsType, BagAddIs
  <1>6. ASSUME NEW t \in Thread, \/ PrepareFails(t) \/ InvalPage(t) \/ InvalFails(t)
                                 \/ UnpinPage(t) \/ RemovePage(t) \/ UnmapBuffer(t)
        PROVE  FALSE
    BY <1>1, <1>6 DEF PrepareFails, InvalPage, InvalFails, UnpinPage, RemovePage, UnmapBuffer
  <1>7. \A t \in Thread : Call(t) => FALSE
    BY <1>4, <1>5, <1>6 DEF Call
  <1> QED BY <1>2, <1>3, <1>7 DEF Next

LEMMA StartsKnownStep ==
  ASSUME Core, Core', Dominated, Owners, SkippedSpare, SkippedFirst, HugeWhole, HugeStarts, StartsKnown, Next
  PROVE  StartsKnown'
  <1> USE DEF Core
  <1>1. SkippedKept
    BY SkippedStep
  <1>2. ASSUME NEW t \in Thread, SameCall(t), NEW p \in Page, thr[t].start <= p, p < Down(thr[t].vaddr, Small)
        PROVE  Known(p)'
    <2>1. Known(p) /\ thr[t].pc = "pin"
      BY <1>2 DEF StartsKnown, SameCall
    <2>2. /\ p \in Nat /\ p < thr[t].vaddr /\ thr[t].vaddr \in Nat /\ thr[t].start \in Nat /\ thr[t].len \in Nat \ {0}
          /\ thr[t].vaddr + thr[t].len <= thr[t].end /\ thr[t].end <= Units /\ thr[t].end \in Nat
      BY <1>2, <2>1, FirstIs, ThreadIs, CallIs, PageIs
    <2>3. CASE mem[p] = "user"
      <3>1. ASSUME mem'[p] # "user" PROVE FALSE
        <4>1. PICK r \in Region : UserUnmap(r) /\ p \in Pages(r.at, r.at + r.size)
          BY <2>3, <3>1, UserStays
        <4>2. r.at <= p /\ p < r.at + r.size /\ r.at \in Nat /\ r.size \in Nat
          BY <4>1, PagesOfRegion, RegionIs
        <4>3. Meets(r, thr[t].start, thr[t].vaddr + thr[t].len)
          BY <1>2, <2>2, <4>2 DEF Meets
        <4>4. BusyIn(r)
          BY <2>1, <4>3 DEF BusyIn, Busy
        <4> QED BY <4>1, <4>4 DEF UserUnmap
      <3> QED BY <3>1 DEF Known
    <2>4. CASE mem[p] # "user" /\ \E d \in BagToSet(bufs) : p \in DescLand(d)
      <3>1. PICK d \in BagToSet(bufs) : p \in DescLand(d)
        BY <2>4
      <3>2. ASSUME d \notin BagToSet(bufs') PROVE FALSE
        <4>1. PICK u \in Thread, h \in BagToSet(held) : Release(u, h)
          BY <3>2, BufsLeave
        <4>2. PICK e \in BagToSet(bufs) :
                  /\ \A w \in Working : \A q \in Pages(thr[w].start, thr[w].end) \intersect Pages(e.start, EndOf(e)) :
                        mem[q] = "user"
                  /\ bufs' = BagRemove(bufs, e)
          BY <4>1, ReleaseIs
        <4>3. e = d
          BY <3>2, <4>2, BagsType, BagRemoveIs
        <4>4. t \in Working
          BY <2>1 DEF Working
        <4>5. p \in Pages(thr[t].start, thr[t].end)
          BY <1>2, <2>1, <2>2, LandOfCall DEF Land
        <4> QED BY <2>4, <3>1, <4>2, <4>3, <4>4, <4>5 DEF DescLand
      <3>3. DescLand(d)' = DescLand(d)
        BY DEF DescLand, EndOf
      <3> QED BY <3>1, <3>2, <3>3 DEF Known
    <2>5. CASE Seen(p)
      BY <1>1, <2>5, SeenStays DEF Known
    <2> QED BY <2>1, <2>3, <2>4, <2>5 DEF Known
  <1>3. ASSUME NEW t \in Thread, NEW n \in Lengths, NEW a \in Address, Prealloc(t, a, n) \/ Alloc(t, n, a),
               NEW p \in Page, thr'[t].start <= p, p < Down(thr'[t].vaddr, Small)
        PROVE  Known(p)'
    <2>1. thr'[t].vaddr = a
      BY <1>3, BeginStarts
    <2>2. Known(p) /\ UNCHANGED <<mem, bufs>>
      BY <1>3, <2>1, BeginKnown
    <2>3. Seen(p) => Seen(p)'
      BY <1>1, SeenStays
    <2> QED BY <2>2, <2>3 DEF Known, DescLand, EndOf
  <1>4. ASSUME NEW t \in Thread, thr'[t].pc = "pin",
               NEW p \in Page, thr'[t].start <= p, p < Down(thr'[t].vaddr, Small)
        PROVE  Known(p)'
    BY <1>2, <1>3, <1>4, PinsFrom DEF SameCall
  <1> QED BY <1>4 DEF StartsKnown, Down

-----------------------------------------------------------------------------
(* What a release leaves pinned in memory of MPF.                          *)

\* Of the memory that a call may unmap nothing is pinned behind the call but
\* what it stepped over, and what is pinned as a 2MB page for a neighbour.
Passed(t) ==
    \A p \in Land(t) : p < thr[t].at => \A r \in Found(p) : r \in skipped \/ r.size = Large
LeftTaken == \A t \in Thread : thr[t].pc \in Removing /\ CallOwns(t) /\ ~thr[t].busy => Passed(t)

\* A call that removes began just now, takes a page, or goes on where it was.
SameRemoval(t) ==
    /\ thr[t].pc \in Removing /\ thr'[t].at = thr[t].at /\ thr'[t].end = thr[t].end
    /\ thr'[t].start = thr[t].start /\ thr'[t].vaddr = thr[t].vaddr /\ thr'[t].len = thr[t].len
    /\ (thr'[t].alloc <=> thr[t].alloc) /\ (thr'[t].busy <=> thr[t].busy)

LEMMA RemovalsFrom ==
  ASSUME Core, Next, NEW t \in Thread, thr'[t].pc \in Removing
  PROVE  SameRemoval(t) \/ RemovePage(t) \/ \E h \in BagToSet(held) : Release(t, h)
  <1> USE DEF Core
  <1>1. thr'[t] = thr[t] => SameRemoval(t)
    BY DEF SameRemoval
  <1>2. ASSUME NEW r \in Region, UserMap(r) \/ UserUnmap(r) PROVE thr'[t] = thr[t]
    BY <1>2 DEF UserMap, UserUnmap
  <1>3. ASSUME NEW u \in Thread, NEW n \in Lengths, NEW a \in Address, Prealloc(u, a, n) \/ Alloc(u, n, a)
        PROVE  thr'[t] = thr[t]
    <2>1. PICK start, end, alloc : Begin(u, a, n, start, end, alloc)
      BY <1>3 DEF Prealloc, Alloc
    <2>2. thr'[u].pc = "pin" /\ \A w \in Thread \ {u} : thr'[w] = thr[w]
      BY <2>1 DEF TypeOK, Begin, Idle
    <2> QED BY <2>2 DEF Removing
  <1>4. ASSUME NEW u \in Thread, NEW h \in BagToSet(held), Release(u, h), u # t PROVE thr'[t] = thr[t]
    <2>1. PICK me \in Activity : thr' = [thr EXCEPT ![u] = me]
      BY <1>4, ReleaseIs
    <2> QED BY <1>4, <2>1, ThreadMoves
  <1>5. ASSUME NEW u \in Thread, PinFound(u) \/ PinNew(u, Large) \/ PinNew(u, Small) PROVE thr'[t] = thr[t]
    <2>1. PICK e \in Region : PinStep(u, e)
      BY <1>5, PinFoundStep, PinNewStep
    <2> QED BY <2>1 DEF PinStep, Removing
  <1>6. ASSUME NEW u \in Thread, Track(u) \/ PrepareFails(u) \/ UnmapBuffer(u) PROVE thr'[t] = thr[t]
    <2>1. thr' = [thr EXCEPT ![u] = Idle]
      BY <1>6 DEF Track, PrepareFails, UnmapBuffer
    <2> QED BY <2>1 DEF Idle, TypeOK, Removing
  <1>7. ASSUME NEW u \in Thread, RemovePage(u), u # t PROVE thr'[t] = thr[t]
    <2>1. PICK r \in Region, me \in Activity : Taking(u, r, me) /\ (TakesOne(u, r, me) \/ TakesLast(u, r, me))
      BY <1>7, RemovePageIs
    <2> QED BY <1>7, <2>1, TakingRange
  <1>8. ASSUME NEW u \in Thread, InvalPage(u) \/ InvalFails(u) \/ UnpinPage(u) PROVE SameRemoval(t)
    <2>1. PICK pc \in {"unpin", "break", "remove", "unmap"} : Onward(u, pc) /\ thr[u].pc \in {"inval", "unpin"}
      BY <1>8, InvalPageIs, InvalFailsIs, UnpinPageIs
    <2>2. CASE u = t
      BY <2>1, <2>2, OnwardRange DEF SameRemoval, Removing
    <2>3. CASE u # t
      BY <1>1, <2>1, <2>3, OnwardRange
    <2> QED BY <2>2, <2>3
  <1>9. \A u \in Thread : Call(u) => SameRemoval(t) \/ RemovePage(t)
    BY <1>1, <1>5, <1>6, <1>7, <1>8 DEF Call
  <1> QED BY <1>1, <1>2, <1>3, <1>4, <1>9 DEF Next

\* Entries that a step makes.
LEMMA EntriesFrom ==
  ASSUME Core, Next
  PROVE  \/ \E t \in Thread : \E e \in Region : PinStep(t, e) /\ ~wedged
         \/ \E t \in Thread : RemovePage(t)
         \/ pt' = pt
  <1> USE DEF Core
  <1>1. ASSUME NEW r \in Region, UserMap(r) \/ UserUnmap(r) PROVE pt' = pt
    BY <1>1 DEF UserMap, UserUnmap
  <1>2. ASSUME NEW t \in Thread, NEW n \in Lengths, NEW a \in Address, Prealloc(t, a, n) \/ Alloc(t, n, a)
        PROVE  pt' = pt
    BY <1>2 DEF Prealloc, Alloc
  <1>3. ASSUME NEW t \in Thread, NEW h \in BagToSet(held), Release(t, h) PROVE pt' = pt
    BY <1>3 DEF Release
  <1>4. ASSUME NEW t \in Thread, PinFound(t) \/ PinNew(t, Large) \/ PinNew(t, Small)
        PROVE  \E e \in Region : PinStep(t, e) /\ ~wedged
    BY <1>4, PinFoundStep, PinNewStep DEF PinFound, PinNew, Pinning
  <1>5. ASSUME NEW t \in Thread, \/ Track(t) \/ PrepareFails(t) \/ InvalPage(t) \/ InvalFails(t)
                                 \/ UnpinPage(t) \/ UnmapBuffer(t)
        PROVE  pt' = pt
    BY <1>5 DEF Track, PrepareFails, InvalPage, InvalFails, UnpinPage, UnmapBuffer
  <1>6. \A t \in Thread : Call(t) => RemovePage(t) \/ pt' = pt \/ \E e \in Region : PinStep(t, e) /\ ~wedged
    BY <1>4, <1>5 DEF Call
  <1> QED BY <1>1, <1>2, <1>3, <1>6 DEF Next

LEMMA RemovalOwns ==
  ASSUME Core, Next, NEW t \in Thread, SameRemoval(t) \/ RemovePage(t), thr'[t].pc \in Removing, CallOwns(t)'
  PROVE  CallOwns(t)
  <1> USE DEF Core
  <1>1. ASSUME NEW u \in Thread, NEW e \in Region, PinStep(u, e), ~wedged PROVE CallOwns(t)
    BY <1>1, PinCallOwns
  <1>2. ASSUME NEW u \in Thread, RemovePage(u) PROVE CallOwns(t)
    BY <1>2, RemoveOwns
  <1>3. ASSUME pt' = pt, SameRemoval(t) PROVE CallOwns(t)
    <2>1. NoNewAlloc
      BY <1>3 DEF NoNewAlloc, Pinned
    <2>2. thr'[t].pc # "pin"
      BY DEF Removing
    <2> QED BY <1>3, <2>1, <2>2, CallOwnsLess DEF SameRemoval
  <1> QED BY <1>1, <1>2, <1>3, EntriesFrom

\* Nothing new is pinned as a small page in memory that a release may unmap.
LEMMA PinElsewhere ==
  ASSUME Core, Owners, Prepared, StartsKnown, NEW t \in Thread, NEW e \in Region, PinStep(t, e), ~Pinned(e),
         NEW u \in Thread, thr[u].pc \in Removing, CallOwns(u), NEW p \in Land(u), e.at <= p, p < e.at + e.size
  PROVE  e.size = Large
  <1> USE DEF Core
  <1> SUFFICES ASSUME e.size = Small PROVE FALSE
    BY RegionIs
  <1>1. /\ thr[t].pc = "pin" /\ thr[t].at < thr[t].end /\ thr[t].at < thr'[t].at /\ thr'[t].at \in Nat
        /\ e.at <= thr[t].at /\ thr'[t].at <= e.at + e.size /\ Found(e.at) = {}
    BY DEF PinStep
  <1>2. /\ thr[t].at \in Page /\ thr[t].at \in Nat /\ thr[t].at \in Address /\ Aligned(thr[t].at, Small)
        /\ thr[t].start <= thr[t].at /\ thr[t].start \in Nat /\ thr[t].end \in Nat /\ thr[t].end <= Units
        /\ thr[t].vaddr \in Nat /\ thr[t].len \in Nat \ {0} /\ thr[t].vaddr \in Address
        /\ thr[t].vaddr + thr[t].len <= thr[t].end
    BY <1>1, ThreadIs, CallIs
  <1>3. p \in Page /\ p \in Nat /\ Aligned(p, Small) /\ mem[p] = "mpf"
    BY LandOfCall, PageIs DEF Owners, Removing
  <1>4. e.at \in Nat /\ Aligned(e.at, Small) /\ Small \in Nat \ {0}
    BY RegionIs, Sizes
  <1>5. p = e.at /\ thr[t].at = e.at
    <2>1. \A x \in Nat : Aligned(x, Small) /\ e.at <= x /\ x < e.at + Small => ~(e.at < x)
      BY <1>4, AlignedStep
    <2> QED BY <1>1, <1>2, <1>3, <1>4, <2>1
  <1>6. p \in Land(t)
    BY <1>1, <1>2, <1>3, <1>5, LandOfCall
  <1>7. ~thr[t].alloc
    <2>1. u # t
      BY <1>1 DEF Removing
    <2> QED BY <1>1, <1>6, <2>1 DEF Owners, CallOwns
  <1>8. ~InBuffer(p) /\ ~Seen(p)
    BY <1>1, <1>5, InBufferFound DEF Seen
  <1>9. ASSUME NEW d \in BagToSet(bufs), p \in DescLand(d) PROVE FALSE
    BY <1>1, <1>5, <1>9 DEF AllCovered, Covered, DescLand
  <1>10. CASE p < Down(thr[t].vaddr, Small)
    <2>1. Known(p)
      BY <1>1, <1>2, <1>3, <1>5, <1>10 DEF StartsKnown
    <2> QED BY <1>3, <1>8, <1>9, <2>1 DEF Known
  <1>11. CASE ~(p < Down(thr[t].vaddr, Small))
    <2>1. Down(thr[t].vaddr, Small) \in Nat /\ thr[t].vaddr < Down(thr[t].vaddr, Small) + Small
      BY <1>2, FirstIs
    <2>2. thr[t].end = thr[t].vaddr + thr[t].len
      BY <1>1, <1>7 DEF Shapes, CallShape
    <2>3. p \in Pages(thr[t].vaddr, thr[t].vaddr + thr[t].len)
      BY <1>1, <1>2, <1>3, <1>4, <1>5, <1>11, <2>1, <2>2, PagesTouched
    <2> QED BY <1>1, <1>3, <1>7, <1>8, <2>3 DEF Prepared, Ready
  <1> QED BY <1>10, <1>11

\* What is found at a page of the call's memory in the next state.
LEMMA PassedRemove ==
  ASSUME Core, Core', SkippedSpare, LeftTaken, NEW t \in Thread, RemovePage(t), thr'[t].pc \in Removing,
         CallOwns(t), ~thr'[t].busy,
         NEW p \in Page, thr[t].start <= p, p < thr[t].end, p < thr'[t].at, NEW q \in Found(p)'
  PROVE  q \in skipped' \/ q.size = Large
  <1> USE DEF Core
  <1>1. PICK r \in Region, me \in Activity : Taking(t, r, me) /\ (TakesOne(t, r, me) \/ TakesLast(t, r, me))
    BY RemovePageIs
  <1>2. /\ thr'[t] = me /\ Lo(t) = thr[t].at /\ Hi(t) = thr[t].end /\ Lo(t)' = thr[t].at + r.size /\ Hi(t)' = thr[t].end
        /\ \A s \in Region \ {r} : Pinned(s) =>
              (Meets(s, Lo(t), Hi(t)) /\ ~Meets(s, Lo(t)', Hi(t)') <=> s \in Stepped(t, r))
    BY <1>1, TakingRange
  <1>3. TakesLast(t, r, me)
    BY <1>1, <1>2 DEF TakesOne
  <1>4. /\ thr[t].pc = "remove" /\ thr[t].at \in Page /\ thr'[t].at = thr[t].at + r.size /\ ~thr[t].busy
    BY <1>1, <1>2, <1>3 DEF Taking, TakesLast
  <1>5. skipped' = skipped \union Stepped(t, r)
    BY <1>1, RemoveSkipped
  <1>6. p \in Nat /\ p \in Address /\ Aligned(p, Small)
    BY PageIs, AddressIs
  <1>7. q \in Region /\ Pinned(q)' /\ q.at <= p /\ p < q.at + q.size
    BY <1>6, FoundNext
  <1>8. q # r /\ Pinned(q)
    <2>1. pt[r].refs = 1
      BY <1>3 DEF TakesLast
    <2> QED BY <1>1, <1>7, <2>1, TakingPinned
  <1>9. q \in Found(p)
    BY <1>6, <1>7, <1>8, FoundIs
  <1>10. CASE p < thr[t].at
    <2>1. p \in Land(t)
      BY <1>4, LandOfCall
    <2>2. Passed(t)
      BY <1>4 DEF LeftTaken, Removing
    <2> QED BY <1>5, <1>9, <1>10, <2>1, <2>2 DEF Passed
  <1>11. CASE thr[t].at <= p
    <2>1. thr[t].at \in Nat /\ thr[t].end \in Nat /\ Aligned(thr[t].at, Small) /\ r.size \in Nat /\ Aligned(r.size, Small)
          /\ q.at \in Nat /\ q.size \in {Small, Large} /\ Aligned(q.at, Small) /\ q.size \in Nat
      BY <1>4, <1>7, ThreadIs, CallIs, RegionIs
    <2>2. Meets(q, thr[t].at, thr[t].end)
      BY <1>6, <1>7, <1>11, <2>1 DEF Meets
    <2>3. CASE q \in Stepped(t, r)
      BY <1>5, <2>3
    <2>4. CASE Meets(q, thr[t].at + r.size, thr[t].end)
      <3>1. SUFFICES ASSUME q.size = Small PROVE FALSE
        BY <2>1
      <3>2. Aligned(thr[t].at + r.size, Small) /\ thr[t].at + r.size \in Nat /\ Small \in Nat \ {0}
        BY <2>1, AlignedSum, Sizes
      <3>3. p + Small <= thr[t].at + r.size
        BY <1>4, <1>6, <3>2, AlignedStep
      <3>4. thr[t].at + r.size < q.at + q.size
        BY <2>4 DEF Meets
      <3> QED BY <1>6, <1>7, <2>1, <3>1, <3>2, <3>3, <3>4
    <2> QED BY <1>2, <1>7, <1>8, <2>2, <2>3, <2>4
  <1> QED BY <1>4, <1>6, <1>10, <1>11, PageIs

LEMMA LeftTakenStep ==
  ASSUME Core, Core', Owners, ~wedged => Prepared /\ StartsKnown, SkippedSpare, LeftTaken, Next
  PROVE  LeftTaken'
  <1> USE DEF Core
  <1> SUFFICES ASSUME NEW t \in Thread, thr'[t].pc \in Removing, CallOwns(t)', ~thr'[t].busy,
                      NEW p \in Land(t)', p < thr'[t].at, NEW q \in Found(p)'
               PROVE  q \in skipped' \/ q.size = Large
    BY DEF LeftTaken, Passed
  <1>1. /\ thr'[t].start \in Nat /\ thr'[t].end \in Nat /\ thr'[t].end <= Units /\ Aligned(thr'[t].start, Small)
    <2>1. thr'[t].pc # "idle"
      BY DEF Removing
    <2>2. CallShape(thr[t])'
      BY DEF Shapes
    <2> QED BY <2>1, <2>2, ThreadNext DEF CallShape
  <1>2. p \in Page /\ p \in Nat /\ p \in Address /\ thr'[t].start <= p /\ p < thr'[t].end
    BY <1>1, PagesIn, PageIs, AddressIs DEF Land
  <1>3. CASE \E h \in BagToSet(held) : Release(t, h)
    <2>1. PICK me \in Activity : thr' = [thr EXCEPT ![t] = me] /\ \E d \in BagToSet(bufs) : me.at = d.start /\ me.start = d.start
      BY <1>3, ReleaseIs
    <2>2. thr'[t] = me
      BY <2>1, ThreadMoves
    <2> QED BY <1>1, <1>2, <2>1, <2>2, ThreadNext
  <1>4. CASE RemovePage(t)
    <2>1. CallOwns(t)
      BY <1>4, RemovalOwns
    <2>2. thr'[t].start = thr[t].start /\ thr'[t].end = thr[t].end
      <3>1. PICK r \in Region, me \in Activity : Taking(t, r, me) /\ (TakesOne(t, r, me) \/ TakesLast(t, r, me))
        BY <1>4, RemovePageIs
      <3> QED BY <3>1, TakingRange DEF Taking
    <2> QED BY <1>2, <1>4, <2>1, <2>2, PassedRemove
  <1>5. CASE SameRemoval(t)
    <2>1. CallOwns(t)
      BY <1>5, RemovalOwns
    <2>2. p \in Land(t) /\ p < thr[t].at /\ Passed(t) /\ thr[t].pc \in Removing
      BY <1>5, <2>1 DEF LeftTaken, SameRemoval, Land
    <2>3. q \in Region /\ Pinned(q)' /\ q.at <= p /\ p < q.at + q.size
      BY <1>2, FoundNext
    <2>4. skipped \subseteq skipped'
      BY SkippedStep DEF SkippedKept
    <2>5. CASE Pinned(q)
      <3>1. q \in Found(p)
        BY <1>2, <2>3, <2>5, FoundIs
      <3> QED BY <2>2, <2>4, <3>1 DEF Passed
    <2>6. CASE ~Pinned(q)
      <3>1. ASSUME NEW u \in Thread, NEW e \in Region, PinStep(u, e), ~wedged PROVE q.size = Large
        <4>1. q = e
          BY <2>3, <2>6, <3>1, PinStepIs
        <4> QED BY <2>1, <2>2, <2>3, <2>6, <3>1, <4>1, PinElsewhere
      <3>2. ASSUME NEW u \in Thread, RemovePage(u) PROVE FALSE
        <4>1. PICK r \in Region, me \in Activity : Taking(u, r, me) /\ (TakesOne(u, r, me) \/ TakesLast(u, r, me))
          BY <3>2, RemovePageIs
        <4>2. Pinned(r)
          BY <4>1 DEF Taking
        <4> QED BY <2>3, <2>6, <4>1, <4>2, TakingPinned
      <3>3. pt' # pt
        BY <2>3, <2>6 DEF Pinned
      <3> QED BY <3>1, <3>2, <3>3, EntriesFrom
    <2> QED BY <2>5, <2>6
  <1> QED BY <1>3, <1>4, <1>5, RemovalsFrom

-----------------------------------------------------------------------------
(* The entries of which a reference is lost.                               *)

\* They keep it so while they are in the table.
LEMMA LostStays ==
  ASSUME Core, Next, NEW r \in lost, r \in Region, Pinned(r)'
  PROVE  r \in lost'
  <1> USE DEF Core
  <1>1. CASE \E s \in Region : UserMap(s) \/ UserUnmap(s)
    BY <1>1 DEF UserMap, UserUnmap
  <1>2. ASSUME NEW t \in Thread, NEW n \in Lengths, NEW a \in Address, Prealloc(t, a, n) \/ Alloc(t, n, a)
        PROVE  r \in lost'
    BY <1>2 DEF Prealloc, Alloc
  <1>3. ASSUME NEW t \in Thread, NEW h \in BagToSet(held), Release(t, h) PROVE r \in lost'
    BY <1>3, ReleaseIs
  <1>4. ASSUME NEW t \in Thread, Call(t) PROVE r \in lost'
    <2>1. CASE RemovePage(t)
      <3>1. PICK q \in Region, me \in Activity : Taking(t, q, me) /\ (TakesOne(t, q, me) \/ TakesLast(t, q, me))
        BY <2>1, RemovePageIs
      <3>2. TakesLast(t, q, me) => r # q
        BY <3>1, TakingPinned DEF TakesLast
      <3> QED BY <3>1, <3>2 DEF TakesOne, TakesLast
    <2>2. CASE PinFound(t) \/ PinNew(t, Large) \/ PinNew(t, Small) \/ PrepareFails(t) \/ Track(t)
      BY <2>2 DEF PinFound, PinNew, PrepareFails, Track
    <2>3. CASE InvalPage(t) \/ InvalFails(t) \/ UnpinPage(t) \/ UnmapBuffer(t)
      BY <2>3 DEF InvalPage, InvalFails, UnpinPage, UnmapBuffer
    <2> QED BY <1>4, <2>1, <2>2, <2>3 DEF Call
  <1> QED BY <1>1, <1>2, <1>3, <1>4 DEF Next

\* A mutex that was left locked stays so, and the table as it is.
LEMMA WedgedStays ==
  ASSUME Core, Next, wedged
  PROVE  wedged' /\ pt' = pt /\ skipped' = skipped
  <1> USE DEF Core
  <1>1. wedged'
    <2>1. CASE \E s \in Region : UserMap(s) \/ UserUnmap(s)
      BY <2>1 DEF UserMap, UserUnmap
    <2>2. ASSUME NEW t \in Thread, NEW n \in Lengths, NEW a \in Address, Prealloc(t, a, n) \/ Alloc(t, n, a)
          PROVE  wedged'
      BY <2>2 DEF Prealloc, Alloc
    <2>3. ASSUME NEW t \in Thread, NEW h \in BagToSet(held), Release(t, h) PROVE wedged'
      BY <2>3, ReleaseIs
    <2>4. ASSUME NEW t \in Thread, Call(t) PROVE wedged'
      <3>1. CASE PinFound(t) \/ PinNew(t, Large) \/ PinNew(t, Small) \/ PrepareFails(t) \/ Track(t) \/ RemovePage(t)
        BY <3>1 DEF PinFound, PinNew, PrepareFails, Track, RemovePage
      <3>2. CASE InvalPage(t) \/ InvalFails(t) \/ UnpinPage(t) \/ UnmapBuffer(t)
        BY <3>2 DEF InvalPage, InvalFails, UnpinPage, UnmapBuffer
      <3> QED BY <2>4, <3>1, <3>2 DEF Call
    <2> QED BY <2>1, <2>2, <2>3, <2>4 DEF Next
  <1>2. \A t \in Thread : ~RemovePage(t)
    BY DEF RemovePage
  <1> QED BY <1>1, <1>2, EntriesFrom, SkippedSame

\* Only a failed CSR takes a release out of its loop.
LEMMA BreaksIs ==
  ASSUME Core, Next, NEW t \in Thread, thr'[t].pc = "break", thr[t].pc # "break"
  PROVE  InvalFails(t)
  <1> USE DEF Core
  <1>1. ASSUME NEW r \in Region, UserMap(r) \/ UserUnmap(r) PROVE FALSE
    BY <1>1 DEF UserMap, UserUnmap
  <1>2. ASSUME NEW u \in Thread, NEW n \in Lengths, NEW a \in Address, Prealloc(u, a, n) \/ Alloc(u, n, a)
        PROVE  FALSE
    <2>1. PICK start, end, alloc : Begin(u, a, n, start, end, alloc)
      BY <1>2 DEF Prealloc, Alloc
    <2> QED BY <2>1, BeginMoves
  <1>3. ASSUME NEW u \in Thread, NEW h \in BagToSet(held), Release(u, h) PROVE FALSE
    <2>1. PICK me \in Activity : thr' = [thr EXCEPT ![u] = me] /\ me.pc = "remove"
      BY <1>3, ReleaseIs
    <2> QED BY <2>1, ThreadMoves
  <1>4. ASSUME NEW u \in Thread, PinFound(u) \/ PinNew(u, Large) \/ PinNew(u, Small) PROVE FALSE
    <2>1. PICK e \in Region : PinStep(u, e)
      BY <1>4, PinFoundStep, PinNewStep
    <2> QED BY <2>1 DEF PinStep
  <1>5. ASSUME NEW u \in Thread, Track(u) \/ PrepareFails(u) \/ UnmapBuffer(u) PROVE FALSE
    <2>1. thr' = [thr EXCEPT ![u] = Idle]
      BY <1>5 DEF Track, PrepareFails, UnmapBuffer
    <2> QED BY <2>1 DEF Idle, TypeOK
  <1>6. ASSUME NEW u \in Thread, RemovePage(u) PROVE FALSE
    <2>1. PICK r \in Region, me \in Activity : Taking(u, r, me) /\ (TakesOne(u, r, me) \/ TakesLast(u, r, me))
      BY <1>6, RemovePageIs
    <2>2. me.pc # "break"
      BY <2>1 DEF TakesOne, TakesLast, AfterPage
    <2> QED BY <2>1, <2>2, TakingRange
  <1>7. ASSUME NEW u \in Thread, InvalPage(u) \/ UnpinPage(u) PROVE FALSE
    <2>1. PICK pc \in {"unpin", "remove", "unmap"} : Onward(u, pc) /\ thr[u].pc \in {"inval", "unpin"}
      BY <1>7, InvalPageIs, UnpinPageIs
    <2> QED BY <2>1, OnwardRange
  <1>8. ASSUME NEW u \in Thread, InvalFails(u) PROVE InvalFails(t)
    <2>1. Onward(u, "break") /\ thr[u].pc = "inval"
      BY <1>8, InvalFailsIs
    <2>2. \A w \in Thread \ {u} : thr'[w] = thr[w]
      BY <2>1, OnwardRange
    <2> QED BY <1>8, <2>2
  <1> QED BY <1>1, <1>2, <1>3, <1>4, <1>5, <1>6, <1>7, <1>8 DEF Next, Call

\* What a release leaves when a CSR fails is lost.
BrokenLost ==
    \A t \in Thread : thr[t].pc = "break" =>
        \A r \in Region : Pinned(r) /\ Meets(r, thr[t].at, thr[t].end) => r \in lost

LEMMA BrokenLostStep ==
  ASSUME Core, BrokenLost, Next
  PROVE  BrokenLost'
  <1> USE DEF Core
  <1> SUFFICES ASSUME NEW t \in Thread, thr'[t].pc = "break", NEW r \in Region, Pinned(r)',
                      Meets(r, thr'[t].at, thr'[t].end)
               PROVE  r \in lost'
    BY DEF BrokenLost, Meets
  <1>1. CASE thr[t].pc = "break"
    <2>1. wedged
      BY <1>1 DEF Shapes, CallShape
    <2>2. Pinned(r)
      BY <2>1, WedgedStays DEF Pinned
    <2>3. SameRemoval(t)
      <3>1. ~RemovePage(t) /\ \A h \in BagToSet(held) : ~Release(t, h)
        BY <1>1 DEF RemovePage, Release, Busy
      <3>2. thr'[t].pc \in Removing
        BY DEF Removing
      <3> QED BY <3>1, <3>2, RemovalsFrom
    <2>4. r \in lost
      BY <1>1, <2>2, <2>3 DEF BrokenLost, SameRemoval
    <2> QED BY <2>4, LostStays
  <1>2. CASE thr[t].pc # "break"
    <2>1. InvalFails(t)
      BY <1>2, BreaksIs
    <2>2. /\ Onward(t, "break") /\ thr[t].pc = "inval" /\ lost' = lost \union Left(thr[t].at, thr[t].end, 0, 0)
          /\ pt' = pt
      BY <2>1, InvalFailsIs
    <2>3. thr'[t].at = thr[t].at /\ thr'[t].end = thr[t].end
      BY <2>2, OnwardRange
    <2>4. Pinned(r) /\ ~Meets(r, 0, 0)
      BY <2>2 DEF Pinned, Meets
    <2> QED BY <2>2, <2>3, <2>4 DEF Left
  <1> QED BY <1>1, <1>2

\* Where buffers reach a page that has lost no reference, the user holds as many
\* as are described.
Answered ==
    \A r \in Region : Pinned(r) /\ r.size = Small /\ r \notin lost =>
        \A a \in Address : a <= r.at => Described(a, (r.at - a) + 1) <= Held(a, (r.at - a) + 1)

\* Nobody has a buffer at a page that is not pinned.
LEMMA DescribedNone ==
  ASSUME TypeOK, Shapes, AllCovered, NEW r \in Region, r.size = Small, Found(r.at) = {},
         NEW a \in Address, a <= r.at
  PROVE  Described(a, (r.at - a) + 1) = 0
  <1>1. r.at \in Nat /\ a \in Nat /\ r.at \in Page /\ (r.at - a) + 1 \in Nat
    BY RegionIs, PageIs, AddressIs
  <1>2. ASSUME NEW d \in BagToSet(bufs), d.vaddr = a, d.len >= (r.at - a) + 1 PROVE FALSE
    <2>1. DescShape(d) /\ d.start \in Nat /\ d.len \in Nat /\ EndOf(d) \in Nat /\ EndOf(d) = d.vaddr + d.len
      BY DescIs DEF Shapes, EndOf
    <2>2. r.at \in Pages(d.start, EndOf(d))
      BY <1>1, <1>2, <2>1, PagesIn DEF DescShape
    <2> QED BY <2>2 DEF AllCovered, Covered
  <1>3. Copies(bufs, {d \in BagToSet(bufs) : d.vaddr = a /\ d.len >= (r.at - a) + 1}) = {}
    BY <1>2, CopiesWithin
  <1> QED BY <1>3, FS_EmptySet DEF Described

LEMMA AnsweredTrack ==
  ASSUME TypeOK, Shapes, Answered, NEW t \in Thread, Track(t)
  PROVE  Answered'
  <1>1. pt' = pt /\ lost \subseteq lost'
    BY TrackIs
  <1>2. ASSUME NEW r \in Region, Pinned(r)', r.size = Small, r \notin lost', NEW a \in Address, a <= r.at
        PROVE  Described(a, (r.at - a) + 1)' <= Held(a, (r.at - a) + 1)'
    <2>1. PICK n : n = (r.at - a) + 1
      OBVIOUS
    <2>2. Described(a, n) <= Held(a, n)
      BY <1>1, <1>2, <2>1 DEF Answered, Pinned
    <2>3. Described(a, n)' <= Held(a, n)'
      BY <2>2, TrackCount
    <2> QED BY <2>1, <2>3
  <1> QED BY <1>2 DEF Answered

\* A release that takes the smaller of two buffers is known to leave the rest.
LEMMA AnsweredRelease ==
  ASSUME TypeOK, Shapes, Answered, NEW t \in Thread, NEW h \in BagToSet(held), Release(t, h)
  PROVE  Answered'
  <1>1. PICK d \in BagToSet(bufs) :
            /\ d.vaddr = h.vaddr /\ bufs' = BagRemove(bufs, d) /\ held' = BagRemove(held, h) /\ pt' = pt
            /\ lost' = lost \union Left(h.vaddr + d.len, h.vaddr + h.len, d.start, h.vaddr + d.len)
    BY ReleaseIs
  <1>2. h.len \in Nat /\ d.len \in Nat /\ h.vaddr \in Nat /\ d.start \in Nat
    BY BufferIs, DescIs
  <1>3. ASSUME NEW r \in Region, Pinned(r)', r.size = Small, r \notin lost', NEW a \in Address, a <= r.at
        PROVE  Described(a, (r.at - a) + 1)' <= Held(a, (r.at - a) + 1)'
    <2>1. PICK n : n = (r.at - a) + 1
      OBVIOUS
    <2>2. r.at \in Nat /\ a \in Nat /\ n \in Nat /\ r.size \in Nat \ {0}
      BY <1>3, <2>1, RegionIs, AddressIs
    <2>3. Described(a, n) <= Held(a, n)
      BY <1>1, <1>3, <2>1 DEF Answered, Pinned
    <2>4. h.vaddr = a /\ h.len >= n => d.len >= n
      <3> SUFFICES ASSUME h.vaddr = a, h.len >= n, ~(d.len >= n) PROVE FALSE
        OBVIOUS
      <3>1. Meets(r, h.vaddr + d.len, h.vaddr + h.len) /\ ~Meets(r, d.start, h.vaddr + d.len)
        BY <1>2, <2>1, <2>2 DEF Meets
      <3> QED BY <1>1, <1>3, <3>1 DEF Left, Pinned
    <2>5. Described(a, n)' <= Held(a, n)'
      BY <1>1, <1>2, <2>2, <2>3, <2>4, ReleaseCount
    <2> QED BY <2>1, <2>5
  <1> QED BY <1>3 DEF Answered

\* The other steps leave the buffers as they are.
LEMMA BuffersFrom ==
  ASSUME Next
  PROVE  \/ \E t \in Thread : Track(t)
         \/ \E t \in Thread : \E h \in BagToSet(held) : Release(t, h)
         \/ UNCHANGED <<bufs, held>>
  <1>1. CASE \E s \in Region : UserMap(s) \/ UserUnmap(s)
    BY <1>1 DEF UserMap, UserUnmap
  <1>2. ASSUME NEW t \in Thread, NEW n \in Lengths, NEW a \in Address, Prealloc(t, a, n) \/ Alloc(t, n, a)
        PROVE  UNCHANGED <<bufs, held>>
    BY <1>2 DEF Prealloc, Alloc
  <1>3. ASSUME NEW t \in Thread, Call(t) PROVE Track(t) \/ UNCHANGED <<bufs, held>>
    <2>1. CASE PinFound(t) \/ PinNew(t, Large) \/ PinNew(t, Small) \/ PrepareFails(t) \/ Track(t) \/ RemovePage(t)
      BY <2>1 DEF PinFound, PinNew, PrepareFails, RemovePage
    <2>2. CASE InvalPage(t) \/ InvalFails(t) \/ UnpinPage(t) \/ UnmapBuffer(t)
      BY <2>2 DEF InvalPage, InvalFails, UnpinPage, UnmapBuffer
    <2> QED BY <1>3, <2>1, <2>2 DEF Call
  <1> QED BY <1>1, <1>2, <1>3 DEF Next

LEMMA AnsweredStep ==
  ASSUME Core, Answered, Next
  PROVE  Answered'
  <1> USE DEF Core
  <1>1. ASSUME UNCHANGED <<bufs, held>> PROVE Answered'
    <2>1. ASSUME NEW r \in Region, Pinned(r)', r.size = Small, r \notin lost', NEW a \in Address, a <= r.at
          PROVE  Described(a, (r.at - a) + 1)' <= Held(a, (r.at - a) + 1)'
      <3>1. PICK n : n = (r.at - a) + 1
        OBVIOUS
      <3>2. Described(a, n)' = Described(a, n) /\ Held(a, n)' = Held(a, n)
        BY <1>1 DEF Described, Held
      <3>3. r \notin lost
        BY <2>1, LostStays
      <3>4. Described(a, n) <= Held(a, n)
        <4>1. CASE Pinned(r)
          BY <2>1, <3>1, <3>3, <4>1 DEF Answered
        <4>2. ASSUME ~Pinned(r), NEW t \in Thread, NEW e \in Region, PinStep(t, e) PROVE Described(a, n) = 0
          <5>1. r = e
            BY <2>1, <4>2, PinStepIs
          <5>2. Found(r.at) = {}
            BY <4>2, <5>1 DEF PinStep
          <5> QED BY <2>1, <3>1, <5>2, DescribedNone
        <4>3. ASSUME ~Pinned(r), NEW t \in Thread, RemovePage(t) PROVE FALSE
          <5>1. PICK q \in Region, me \in Activity : Taking(t, q, me) /\ (TakesOne(t, q, me) \/ TakesLast(t, q, me))
            BY <4>3, RemovePageIs
          <5>2. Pinned(q)
            BY <5>1 DEF Taking
          <5> QED BY <2>1, <4>3, <5>1, <5>2, TakingPinned
        <4>4. pt' = pt => Pinned(r)
          BY <2>1 DEF Pinned
        <4>5. Held(a, n) \in Nat
          BY HeldNat
        <4> QED BY <4>1, <4>2, <4>3, <4>4, <4>5, EntriesFrom
      <3> QED BY <3>1, <3>2, <3>4
    <2> QED BY <2>1 DEF Answered
  <1> QED BY <1>1, AnsweredTrack, AnsweredRelease, BuffersFrom

-----------------------------------------------------------------------------
(* Where buffers start before their address.                               *)

\* At the page of the address, of 4KB or of 2MB.
Rounded(vaddr, start) == start \in {Down(vaddr, Small), Down(vaddr, Large)}
StartsRounded ==
    /\ \A d \in BagToSet(bufs) : Rounded(d.vaddr, d.start)
    /\ \A t \in Thread : thr[t].pc = "pin" => Rounded(thr[t].vaddr, thr[t].start)

LEMMA BeginRounded ==
  ASSUME TypeOK, NEW t \in Thread, NEW n \in Lengths, NEW a \in Address, Prealloc(t, a, n) \/ Alloc(t, n, a)
  PROVE  Rounded(thr'[t].vaddr, thr'[t].start)
  <1>1. CASE Prealloc(t, a, n)
    <2>1. PICK start : /\ start = Down(a, IF At(a, Large) \in huge THEN Large ELSE Small)
                       /\ Begin(t, a, n, start, a + n, FALSE)
      BY <1>1 DEF Prealloc
    <2>2. thr'[t].vaddr = a /\ thr'[t].start = start
      <3>1. Begin(t, a, n, start, a + n, FALSE)
        BY <2>1
      <3> QED BY <3>1 DEF TypeOK, Begin, Idle
    <2>3. start \in {Down(a, Small), Down(a, Large)}
      BY <2>1
    <2> QED BY <2>2, <2>3 DEF Rounded
  <1>2. CASE Alloc(t, n, a)
    <2>1. PICK end : a \in Nat /\ Aligned(a, Small) /\ Begin(t, a, n, a, end, TRUE)
      BY <1>2, AllocIs
    <2>2. a < a + Small /\ Small \in Nat \ {0}
      BY <2>1, Sizes
    <2>3. a = Down(a, Small)
      BY <2>1, <2>2, DownUnique
    <2>4. thr'[t].vaddr = a /\ thr'[t].start = a
      <3>1. Begin(t, a, n, a, end, TRUE)
        BY <2>1
      <3> QED BY <3>1 DEF TypeOK, Begin, Idle
    <2> QED BY <2>3, <2>4 DEF Rounded
  <1> QED BY <1>1, <1>2

LEMMA StartsRoundedStep ==
  ASSUME Core, StartsRounded, Next
  PROVE  StartsRounded'
  <1> USE DEF Core
  <1>1. ASSUME NEW d \in BagToSet(bufs') PROVE Rounded(d.vaddr, d.start)
    <2>1. CASE d \in BagToSet(bufs)
      BY <2>1 DEF StartsRounded
    <2>2. CASE d \notin BagToSet(bufs)
      <3>1. PICK t \in Thread : thr[t].pc = "pin" /\ d = Descriptor(t)
        BY <1>1, <2>2, BufsFrom
      <3> QED BY <3>1 DEF StartsRounded, Descriptor
    <2> QED BY <2>1, <2>2
  <1>2. ASSUME NEW t \in Thread, thr'[t].pc = "pin" PROVE Rounded(thr'[t].vaddr, thr'[t].start)
    <2>1. CASE SameCall(t)
      BY <2>1 DEF SameCall, StartsRounded
    <2> QED BY <1>2, <2>1, PinsFrom, BeginRounded
  <1> QED BY <1>1, <1>2 DEF StartsRounded, Rounded

LEMMA SkippedLost ==
  ASSUME Core, SkippedSpare, NEW r \in skipped
  PROVE  r \in lost
  <1> USE DEF Core
  <1>1. r \in Region /\ Pinned(r) /\ pt[r].refs > Users(r)
    BY DEF SkippedSpare, Spare, TypeOK
  <1>2. Users(r) \in Nat /\ pt[r].refs \in Nat
    BY <1>1, UsersIs, EntryIs
  <1> QED BY <1>1, <1>2, CountsIs

\* The memory that the end of a release unmaps, and what is still found in it.
Unmapping(t) ==
    /\ UnmapBuffer(t) /\ thr[t].alloc /\ ~thr[t].busy /\ Unmapped(thr[t].start, thr[t].start + thr[t].len)
    /\ Whole(thr[t].start, thr[t].len)

LEMMA UnmapLeaves ==
  ASSUME Core, SkippedSpare, LeftTaken, BrokenLost, NEW t \in Thread, UnmapBuffer(t), thr[t].alloc, ~thr[t].busy,
         NEW p \in Pages(thr[t].start, thr[t].start + thr[t].len), NEW r \in Found(p)
  PROVE  /\ p \in Land(t) /\ CallOwns(t)
         /\ r \in lost \/ r.size = Large
         /\ ~wedged => r \in skipped \/ r.size = Large
  <1> USE DEF Core
  <1>1. /\ thr[t].pc \in {"unmap", "break"} /\ (thr[t].pc = "break" => wedged)
        /\ thr[t].start + thr[t].len \in Nat /\ thr[t].start + thr[t].len <= thr[t].end
    BY UnmapBufferIs
  <1>2. CallOwns(t) /\ Passed(t)
    BY <1>1 DEF CallOwns, Removing, LeftTaken
  <1>3. p \in Land(t)
    <2>1. Pages(thr[t].start, thr[t].start + thr[t].len) \subseteq Land(t)
      BY <1>1, PagesMono, ThreadIs DEF Land
    <2> QED BY <2>1
  <1>4. p \in Page /\ p \in Nat /\ p \in Address /\ thr[t].start <= p /\ p < thr[t].end
    BY <1>1, <1>3, LandOfCall, PageIs, AddressIs
  <1>5. thr[t].at \in Nat /\ thr[t].end \in Nat
    BY ThreadIs
  <1>6. CASE p < thr[t].at
    BY <1>2, <1>3, <1>6, SkippedLost DEF Passed
  <1>7. CASE thr[t].at <= p
    <2>1. thr[t].pc = "break"
      BY <1>1, <1>4, <1>5, <1>7 DEF Shapes, CallShape
    <2>2. r \in Region /\ Pinned(r) /\ r.at <= p /\ p < r.at + r.size
      BY <1>4, FoundIs
    <2>3. Meets(r, thr[t].at, thr[t].end)
      BY <1>4, <1>5, <1>7, <2>2, RegionIs DEF Meets
    <2> QED BY <1>1, <1>2, <1>3, <2>1, <2>2, <2>3 DEF BrokenLost
  <1> QED BY <1>2, <1>3, <1>4, <1>5, <1>6, <1>7

-----------------------------------------------------------------------------
(* Pages of hugetlbfs that leave the process.                              *)

LEMMA HugeLost ==
  ASSUME TypeOK, Next, NEW r \in huge, r \notin huge'
  PROVE  \/ \E s \in Region : UserUnmap(s) /\ Meets(r, s.at, s.at + s.size)
         \/ \E t \in Thread : Unmapping(t) /\ Meets(r, thr[t].start, thr[t].start + thr[t].len)
  <1>1. ASSUME NEW s \in Region, UserMap(s) PROVE FALSE
    BY <1>1 DEF UserMap
  <1>2. ASSUME NEW s \in Region, UserUnmap(s) PROVE Meets(r, s.at, s.at + s.size)
    BY <1>2 DEF UserUnmap, Unmapped
  <1>3. ASSUME NEW t \in Thread, NEW n \in Lengths, NEW a \in Address, Prealloc(t, a, n) \/ Alloc(t, n, a)
        PROVE  FALSE
    BY <1>3 DEF Prealloc, Alloc, MapMemory
  <1>4. ASSUME NEW t \in Thread, NEW h \in BagToSet(held), Release(t, h) PROVE FALSE
    BY <1>4 DEF Release
  <1>5. ASSUME NEW t \in Thread, Call(t)
        PROVE  Unmapping(t) /\ Meets(r, thr[t].start, thr[t].start + thr[t].len)
    <2>1. CASE PinFound(t) \/ PinNew(t, Large) \/ PinNew(t, Small) \/ PrepareFails(t) \/ Track(t) \/ RemovePage(t)
      BY <2>1 DEF PinFound, PinNew, PrepareFails, Track, RemovePage
    <2>2. CASE InvalPage(t) \/ InvalFails(t) \/ UnpinPage(t)
      BY <2>2 DEF InvalPage, InvalFails, UnpinPage
    <2>3. CASE UnmapBuffer(t)
      <3>1. /\ Unmaps(thr[t]) /\ Whole(thr[t].start, thr[t].len)
            /\ Unmapped(thr[t].start, thr[t].start + thr[t].len)
        BY <2>3 DEF UnmapBuffer
      <3>2. Meets(r, thr[t].start, thr[t].start + thr[t].len)
        BY <3>1 DEF Unmapped
      <3> QED BY <2>3, <3>1, <3>2 DEF Unmapping, Unmaps
    <2> QED BY <1>5, <2>1, <2>2, <2>3 DEF Call
  <1> QED BY <1>1, <1>2, <1>3, <1>4, <1>5 DEF Next

\* What munmap takes of such a page it takes whole.
LEMMA WholeIs ==
  ASSUME NEW r \in Region, r.size = Large, NEW from \in Nat, NEW size \in Nat, from % Large = 0, size % Large = 0,
         Meets(r, from, from + size)
  PROVE  from <= r.at /\ r.at + r.size <= from + size
  <1>1. r.at \in Nat /\ Aligned(r.at, Large) /\ Large \in Nat \ {0}
    BY RegionIs, Sizes
  <1>2. Down(from, Large) = from /\ Down(size, Large) = size
    BY <1>1 DEF Down
  <1>3. Aligned(from, Large) /\ Aligned(size, Large)
    BY <1>1, <1>2, DownIs
  <1>4. Aligned(from + size, Large)
    BY <1>1, <1>3, AlignedSum
  <1>5. from <= r.at
    <2> SUFFICES ASSUME r.at < from PROVE FALSE
      BY <1>1
    <2>1. r.at + Large <= from
      BY <1>1, <1>3, AlignedStep
    <2> QED BY <1>1, <2>1 DEF Meets
  <1>6. r.at + Large <= from + size
    <2>1. r.at < from + size
      BY DEF Meets
    <2> QED BY <1>1, <1>4, <2>1, AlignedStep
  <1> QED BY <1>5, <1>6

\* The user unmaps a page of hugetlbfs by itself.
LEMMA UserUnmapsHuge ==
  ASSUME TypeOK, NEW a \in Address, At(a, Large) \in huge, NEW s \in Region, UserUnmap(s),
         Meets(At(a, Large), s.at, s.at + s.size)
  PROVE  s.at <= a /\ a < s.at + s.size
  <1> DEFINE r == At(a, Large)
  <1>1. r \in Region /\ r.size = Large /\ r.at <= a /\ a < r.at + r.size
    BY AtIs
  <1>2. s.at \in Nat /\ s.at \in Address /\ s.size \in {Small, Large} /\ s.size \in Nat \ {0} /\ r.at \in Nat
        /\ Aligned(r.at, Large) /\ Large \in Nat \ {0} /\ Small < Large /\ Small \in Nat
    BY <1>1, RegionIs, Sizes
  <1>3. r.at < s.at + s.size /\ s.at < r.at + r.size
    BY DEF Meets
  <1>4. CASE s.size = Large
    <2>1. s = r
      BY <1>1, <1>2, <1>3, <1>4, Nested
    <2> QED BY <1>1, <2>1
  <1>5. CASE s.size = Small
    <2>1. r.at <= s.at
      <3> HIDE DEF r
      <3> QED BY <1>1, <1>2, <1>3, <1>5, Nested
    <2>2. r.at = Down(s.at, Large)
      BY <1>1, <1>2, <1>3, <2>1, DownUnique
    <2>3. At(s.at, Large) = r
      BY <1>1, <2>2, RegionIs DEF At
    <2>4. At(s.at, Large) \notin huge
      BY <1>2, <1>5 DEF UserUnmap
    <2> QED BY <2>3, <2>4
  <1> QED BY <1>2, <1>4, <1>5

\* The pages before a buffer's address are in a page of hugetlbfs that is still
\* there, or a release stepped over them, or they are lost.
HeadKept(vaddr, start) ==
    start < Down(vaddr, Small) =>
        \/ At(vaddr, Large) \in huge
        \/ Seen(Down(vaddr, Small))
        \/ /\ wedged
           /\ \A p \in Page : start <= p /\ p < Down(vaddr, Small) =>
                  \A r \in Found(p) : r \in lost \/ r.size = Large
HeadsKept ==
    /\ \A d \in BagToSet(bufs) : HeadKept(d.vaddr, d.start)
    /\ \A t \in Thread : thr[t].pc = "pin" => HeadKept(thr[t].vaddr, thr[t].start)

\* A page of hugetlbfs in which a buffer or a call has memory leaves only in a
\* release, which leaves of it what HeadKept allows.
LEMMA HeadUnmapped ==
  ASSUME Core, Owners, SkippedSpare, LeftTaken, BrokenLost, Next,
         NEW a \in Address, NEW start \in Nat, Rounded(a, start), start < Down(a, Small),
         At(a, Large) \in huge,
         NEW t \in Thread, Unmapping(t), Meets(At(a, Large), thr[t].start, thr[t].start + thr[t].len),
         ~wedged /\ mem[Down(a, Small)] = "mpf" => Seen(Down(a, Small)) \/ (InUse /\ InBuffer(Down(a, Small)))
  PROVE  HeadKept(a, start)'
  <1> USE DEF Core
  <1> DEFINE g == At(a, Large)
             f == Down(a, Small)
  <1>1. g \in Region /\ g.size = Large /\ g.at = Down(a, Large) /\ g.at <= a /\ a < g.at + g.size /\ g.at \in Nat
        /\ g.size \in Nat /\ a \in Nat
    BY AtIs, RegionIs, AddressIs
  <1>2. f \in Page /\ f \in Nat /\ f <= a /\ f \in Pages(g.at, g.at + g.size)
    BY FirstIs
  <1>3. start = g.at /\ Meets(g, thr[t].start, thr[t].start + thr[t].len)
    BY <1>1 DEF Rounded
  <1> HIDE DEF g, f
  <1>4. /\ thr[t].pc \in {"unmap", "break"} /\ (thr[t].pc = "break" => wedged)
        /\ thr[t].start + thr[t].len \in Nat /\ thr[t].start + thr[t].len <= thr[t].end
        /\ pt' = pt /\ skipped' = skipped
    BY UnmapBufferIs DEF Unmapping
  <1>5. thr[t].start \in Nat /\ thr[t].len \in Nat /\ thr[t].end \in Nat /\ Aligned(thr[t].start, Small)
        /\ thr[t].end <= Units /\ Units \in Nat
    BY <1>4, ThreadIs, CallIs, Sizes
  <1>6. thr[t].start <= g.at /\ g.at + g.size <= thr[t].start + thr[t].len
    <2>1. thr[t].start % Large = 0 /\ thr[t].len % Large = 0
      BY DEF Unmapping, Whole
    <2> QED BY <1>1, <1>3, <1>5, <2>1, WholeIs
  <1>7. ASSUME NEW p \in Page, g.at <= p, p < g.at + g.size
        PROVE  p \in Pages(thr[t].start, thr[t].start + thr[t].len)
    <2>1. p \in Nat /\ thr[t].start <= p /\ p < thr[t].start + thr[t].len /\ thr[t].start + thr[t].len <= Units
      BY <1>1, <1>4, <1>5, <1>6, <1>7, PageIs
    <2> QED BY <1>4, <1>5, <2>1, PagesIn
  <1>8. f \in Pages(thr[t].start, thr[t].start + thr[t].len)
    BY <1>1, <1>2, <1>7, PagesOfRegion
  <1>9. CASE ~wedged
    <2>1. mem[f] = "mpf" /\ mem'[f] = "free"
      <3>1. CallOwns(t)
        BY <1>4 DEF CallOwns, Removing, Unmapping
      <3>2. f \in Land(t)
        <4>1. Pages(thr[t].start, thr[t].start + thr[t].len) \subseteq Land(t)
          BY <1>4, PagesMono, ThreadIs DEF Land
        <4> QED BY <1>8, <4>1
      <3>3. mem[f] = "mpf"
        BY <3>1, <3>2 DEF Owners
      <3> QED BY <1>2, <1>8, <3>3 DEF Unmapping, Unmapped
    <2>2. Seen(f)'
      <3>1. CASE Seen(f)
        BY <1>4, <3>1 DEF Seen, Found, Pinned
      <3>2. CASE InUse /\ InBuffer(f)
        <4>1. UnmapBuffer(t)
          BY DEF Unmapping
        <4>2. mem'[f] # mem[f]
          BY <2>1
        <4> QED BY <1>2, <1>9, <3>2, <4>1, <4>2, UnmappedIs
      <3> QED BY <1>9, <2>1, <3>1, <3>2 DEF f
    <2> QED BY <2>2 DEF HeadKept, f
  <1>10. CASE wedged
    <2>1. wedged'
      BY <1>10, WedgedStays
    <2>2. ASSUME NEW p \in Page, start <= p, p < f, NEW r \in Found(p)' PROVE r \in lost' \/ r.size = Large
      <3>1. r \in Found(p)
        BY <1>4, <2>2 DEF Found, Pinned
      <3>2. p \in Pages(thr[t].start, thr[t].start + thr[t].len)
        <4>1. p \in Nat /\ g.at <= p /\ p < g.at + g.size
          BY <1>1, <1>2, <1>3, <2>2, PageIs
        <4> QED BY <1>7, <4>1
      <3>3. r \in lost \/ r.size = Large
        BY <3>1, <3>2, UnmapLeaves DEF Unmapping
      <3>4. p \in Address
        BY <2>2, PageIs, AddressIs
      <3>5. r \in Region /\ Pinned(r)'
        BY <2>2, <3>4, FoundNext
      <3> QED BY <3>3, <3>5, LostStays
    <2> QED BY <2>1, <2>2 DEF HeadKept, f
  <1> QED BY <1>9, <1>10

\* While the page of hugetlbfs stays, so does the rest.
LEMMA HeadStays ==
  ASSUME Core, SkippedSpare, SkippedKept, Next, NEW a \in Address, NEW start \in Nat, HeadKept(a, start),
         At(a, Large) \in huge => At(a, Large) \in huge'
  PROVE  HeadKept(a, start)'
  <1> USE DEF Core
  <1> SUFFICES ASSUME start < Down(a, Small), At(a, Large) \notin huge, ~Seen(Down(a, Small))
               PROVE  HeadKept(a, start)'
    <2>1. Down(a, Small) \in Page
      BY FirstIs
    <2>2. Seen(Down(a, Small)) => Seen(Down(a, Small))'
      BY <2>1, SeenStays
    <2> QED BY <2>2 DEF HeadKept
  <1>1. wedged /\ \A p \in Page : start <= p /\ p < Down(a, Small) => \A r \in Found(p) : r \in lost \/ r.size = Large
    BY DEF HeadKept
  <1>2. wedged' /\ pt' = pt
    BY <1>1, WedgedStays
  <1>3. ASSUME NEW p \in Page, start <= p, p < Down(a, Small), NEW r \in Found(p)' PROVE r \in lost' \/ r.size = Large
    <2>1. r \in Found(p)
      BY <1>2 DEF Found, Pinned
    <2>2. p \in Address
      BY PageIs, AddressIs
    <2>3. r \in Region /\ Pinned(r)'
      BY <2>2, FoundNext
    <2> QED BY <1>1, <1>3, <2>1, <2>3, LostStays
  <1> QED BY <1>2, <1>3 DEF HeadKept

\* A buffer, or a call that prepares one, before its address.
LEMMA HeadStep ==
  ASSUME Core, Owners, Dominated, ~wedged => InUse, SkippedSpare, SkippedKept, LeftTaken, BrokenLost, Next,
         NEW a \in Address, NEW start \in Nat, Rounded(a, start), HeadKept(a, start),
         \A s \in Region : UserUnmap(s) => ~(s.at <= a /\ a < s.at + s.size),
         start < Down(a, Small) /\ ~wedged /\ mem[Down(a, Small)] = "mpf" =>
             Seen(Down(a, Small)) \/ InBuffer(Down(a, Small))
  PROVE  HeadKept(a, start)'
  <1> USE DEF Core
  <1>1. CASE At(a, Large) \in huge => At(a, Large) \in huge'
    BY <1>1, HeadStays
  <1>2. CASE ~(start < Down(a, Small))
    BY <1>2 DEF HeadKept
  <1>3. ASSUME At(a, Large) \in huge, At(a, Large) \notin huge', start < Down(a, Small) PROVE HeadKept(a, start)'
    <2>1. ASSUME NEW s \in Region, UserUnmap(s), Meets(At(a, Large), s.at, s.at + s.size) PROVE FALSE
      BY <1>3, <2>1, UserUnmapsHuge
    <2>2. ASSUME NEW t \in Thread, Unmapping(t), Meets(At(a, Large), thr[t].start, thr[t].start + thr[t].len)
          PROVE  HeadKept(a, start)'
      BY <1>3, <2>2, HeadUnmapped
    <2> QED BY <1>3, <2>1, <2>2, HugeLost
  <1> QED BY <1>1, <1>2, <1>3

LEMMA DescHead ==
  ASSUME Core, Owners, Dominated, ~wedged => InUse, SkippedSpare, SkippedKept, LeftTaken, BrokenLost,
         StartsRounded, HeadsKept, Next, NEW d \in BagToSet(bufs), NEW a, NEW start, a = d.vaddr, start = d.start
  PROVE  HeadKept(a, start)'
  <1> USE DEF Core
  <1>1. a \in Address /\ a \in Nat /\ start \in Nat /\ Rounded(a, start) /\ HeadKept(a, start) /\ d.len \in Nat \ {0}
        /\ a + d.len <= Units
    BY DescIs, DescShapeIs DEF StartsRounded, HeadsKept, EndOf
  <1>2. ASSUME NEW s \in Region, UserUnmap(s), s.at <= a, a < s.at + s.size PROVE FALSE
    <2>1. PICK h \in BagToSet(held) : h.vaddr = a
      BY HeldAtDesc
    <2>2. h.len \in Nat \ {0}
      BY BufferIs
    <2>3. HeldIn(s)
      BY <1>1, <1>2, <2>1, <2>2, RegionIs DEF HeldIn, Meets
    <2> QED BY <1>2, <2>3 DEF UserUnmap
  <1>3. InBuffer(Down(a, Small))
    <2>1. Down(a, Small) \in Pages(d.vaddr, EndOf(d))
      BY <1>1, FirstIs DEF EndOf
    <2> QED BY <2>1 DEF InBuffer
  <1> QED BY <1>1, <1>2, <1>3, HeadStep

LEMMA CallHead ==
  ASSUME Core, Owners, Dominated, ~wedged => InUse, SkippedSpare, SkippedKept, LeftTaken, BrokenLost,
         StartsRounded, HeadsKept, Next, NEW t \in Thread, thr[t].pc = "pin",
         NEW a, NEW start, a = thr[t].vaddr, start = thr[t].start
  PROVE  HeadKept(a, start)'
  <1> USE DEF Core
  <1>1. /\ a \in Address /\ a \in Nat /\ start \in Nat /\ Rounded(a, start) /\ HeadKept(a, start)
        /\ thr[t].len \in Nat \ {0} /\ start <= a /\ a + thr[t].len <= Units
    BY ThreadIs, CallIs, Sizes DEF StartsRounded, HeadsKept
  <1>2. ASSUME NEW s \in Region, UserUnmap(s), s.at <= a, a < s.at + s.size PROVE FALSE
    <2>1. BusyIn(s)
      BY <1>1, <1>2, RegionIs DEF BusyIn, Busy, Meets
    <2> QED BY <1>2, <2>1 DEF UserUnmap
  <1>3. ASSUME start < Down(a, Small), ~wedged, mem[Down(a, Small)] = "mpf"
        PROVE  InBuffer(Down(a, Small))
    <2>1. Down(a, Small) \in Pages(thr[t].vaddr, thr[t].vaddr + thr[t].len)
      BY <1>1, FirstIs
    <2>2. ~thr[t].alloc
      <3>1. start < a
        BY <1>1, <1>3, FirstIs
      <3> QED BY <1>1, <3>1 DEF Shapes, CallShape
    <2>3. Ready(t)
      BY <1>3 DEF InUse, Prepared
    <2> QED BY <1>3, <2>1, <2>2, <2>3 DEF Ready
  <1> QED BY <1>1, <1>2, <1>3, HeadStep

LEMMA BeginHead ==
  ASSUME TypeOK, NEW t \in Thread, NEW n \in Lengths, NEW a \in Address, Prealloc(t, a, n) \/ Alloc(t, n, a)
  PROVE  thr'[t].vaddr = a /\ \E start : start = thr'[t].start /\ HeadKept(a, start)'
  <1>1. CASE Prealloc(t, a, n)
    <2>1. PICK start : /\ start = Down(a, IF At(a, Large) \in huge THEN Large ELSE Small)
                       /\ Begin(t, a, n, start, a + n, FALSE) /\ huge' = huge
      BY <1>1 DEF Prealloc
    <2>2. thr'[t].vaddr = a /\ thr'[t].start = start
      <3>1. Begin(t, a, n, start, a + n, FALSE)
        BY <2>1
      <3> QED BY <3>1 DEF TypeOK, Begin, Idle
    <2>3. At(a, Large) \notin huge => start = Down(a, Small)
      BY <2>1
    <2>4. ~(Down(a, Small) < Down(a, Small))
      BY FirstIs
    <2> QED BY <2>1, <2>2, <2>3, <2>4 DEF HeadKept
  <1>2. CASE Alloc(t, n, a)
    <2>1. PICK end : a \in Nat /\ Begin(t, a, n, a, end, TRUE)
      BY <1>2, AllocIs
    <2>2. thr'[t].vaddr = a /\ thr'[t].start = a
      <3>1. Begin(t, a, n, a, end, TRUE)
        BY <2>1
      <3> QED BY <3>1 DEF TypeOK, Begin, Idle
    <2>3. ~(a < Down(a, Small))
      BY <2>1, FirstIs
    <2> QED BY <2>2, <2>3 DEF HeadKept
  <1> QED BY <1>1, <1>2

LEMMA HeadsKeptStep ==
  ASSUME Core, Core', Owners, Dominated, ~wedged => InUse, SkippedSpare, LeftTaken, BrokenLost,
         StartsRounded, HeadsKept, Next
  PROVE  HeadsKept'
  <1> USE DEF Core
  <1>1. SkippedKept
    BY SkippedStep
  <1>2. ASSUME NEW d \in BagToSet(bufs') PROVE \E a, start : a = d.vaddr /\ start = d.start /\ HeadKept(a, start)'
    <2>1. CASE d \in BagToSet(bufs)
      BY <1>1, <2>1, DescHead
    <2>2. CASE d \notin BagToSet(bufs)
      <3>1. PICK t \in Thread : thr[t].pc = "pin" /\ d = Descriptor(t)
        BY <1>2, <2>2, BufsFrom
      <3>2. d.vaddr = thr[t].vaddr /\ d.start = thr[t].start
        BY <3>1 DEF Descriptor
      <3> QED BY <1>1, <3>1, <3>2, CallHead
    <2> QED BY <2>1, <2>2
  <1>3. ASSUME NEW t \in Thread, thr'[t].pc = "pin"
        PROVE  \E a, start : a = thr'[t].vaddr /\ start = thr'[t].start /\ HeadKept(a, start)'
    <2>1. CASE SameCall(t)
      <3>1. thr[t].pc = "pin" /\ thr'[t].vaddr = thr[t].vaddr /\ thr'[t].start = thr[t].start
        BY <2>1 DEF SameCall
      <3> QED BY <1>1, <3>1, CallHead
    <2>2. CASE \E n \in Lengths : \E a \in Address : Prealloc(t, a, n) \/ Alloc(t, n, a)
      BY <2>2, BeginHead
    <2> QED BY <1>3, <2>1, <2>2, PinsFrom
  <1>4. ASSUME NEW d \in BagToSet(bufs') PROVE HeadKept(d.vaddr, d.start)'
    <2>1. PICK a, start : a = d.vaddr /\ start = d.start /\ HeadKept(a, start)'
      BY <1>2
    <2> QED BY <2>1
  <1>5. ASSUME NEW t \in Thread, thr'[t].pc = "pin" PROVE HeadKept(thr[t].vaddr, thr[t].start)'
    <2>1. PICK a, start : a = thr'[t].vaddr /\ start = thr'[t].start /\ HeadKept(a, start)'
      BY <1>3, <1>5
    <2> QED BY <2>1 DEF HeadKept, Seen, Found, At
  <1> QED BY <1>4, <1>5 DEF HeadsKept

-----------------------------------------------------------------------------
(* Pages that were unmapped while they were pinned.                        *)

\* An entry that lost no reference has a user.
LEMMA UserOf ==
  ASSUME Core, NEW r \in Region, Pinned(r), r \notin lost
  PROVE  \/ \E d \in BagToSet(bufs) : Meets(r, d.start, EndOf(d))
         \/ \E t \in Thread : InCall(r, t)
  <1> USE DEF Core
  <1>1. pt[r].refs = Users(r) /\ Users(r) # 0
    BY CountsIs, EntryIs DEF Pinned
  <1> SUFFICES ASSUME \A d \in BagToSet(bufs) : ~Meets(r, d.start, EndOf(d)), \A t \in Thread : ~InCall(r, t)
               PROVE  FALSE
    OBVIOUS
  <1>2. Sharing(r) = {}
    BY DEF Sharing, EndOf
  <1>3. Copies(bufs, Sharing(r)) = {}
    BY <1>2, CopiesWithin
  <1>4. {t \in Thread : InCall(r, t)} = {}
    OBVIOUS
  <1>5. Users(r) = Cardinality({}) + Cardinality({})
    BY <1>3, <1>4 DEF Users
  <1> QED BY <1>1, <1>5, FS_EmptySet

\* A call whose page the user unmaps holds it in a larger entry.
LEMMA CallOut ==
  ASSUME Core, Owners, NEW s \in Region, UserUnmap(s), NEW r \in Region, Pinned(r), r.size = Small,
         r.at \in Pages(s.at, s.at + s.size), NEW t \in Thread, InCall(r, t)
  PROVE  FALSE
  <1> USE DEF Core
  <1> DEFINE p == r.at
  <1>1. p \in Nat /\ p \in Page /\ Aligned(p, Small) /\ s.at \in Nat /\ s.size \in Nat /\ s.at <= p /\ p < s.at + s.size
        /\ mem[p] = "user" /\ Small \in Nat \ {0}
    BY RegionIs, PagesOfRegion, PageIs, Sizes DEF UserUnmap
  <1>2. thr[t].pc # "idle"
    <2>1. InCall(r, t) <=> Meets(r, Lo(t), Hi(t))
      BY InCallIs
    <2> QED BY <2>1, IdleRange
  <1>3. /\ thr[t].start \in Nat /\ thr[t].at \in Nat /\ thr[t].end \in Nat /\ thr[t].vaddr \in Nat
        /\ thr[t].len \in Nat \ {0} /\ Aligned(thr[t].start, Small) /\ Aligned(thr[t].at, Small)
        /\ thr[t].start <= thr[t].at /\ thr[t].start <= thr[t].vaddr /\ thr[t].end <= Units
    BY <1>2, ThreadIs, CallIs
  <1>4. thr[t].start <= p /\ (thr[t].pc = "pin" => p < thr[t].at) /\ (thr[t].pc # "pin" => p < thr[t].end)
    <2>1. ASSUME NEW x \in Nat, Aligned(x, Small), x < p + Small PROVE x <= p
      <3> SUFFICES ASSUME p < x PROVE FALSE
        BY <1>1, <2>1
      <3> QED BY <1>1, <2>1, AlignedStep
    <2>2. thr[t].pc = "pin" => thr[t].start < p + Small /\ p < thr[t].at
      BY DEF InCall, Meets
    <2>3. thr[t].pc # "pin" => thr[t].at < p + Small /\ p < thr[t].end
      BY DEF InCall, Meets
    <2> QED BY <1>1, <1>3, <2>1, <2>2, <2>3
  <1>5. ASSUME p < thr[t].vaddr + thr[t].len PROVE FALSE
    <2>1. Meets(s, thr[t].start, thr[t].vaddr + thr[t].len)
      BY <1>1, <1>3, <1>4, <1>5 DEF Meets
    <2> QED BY <1>2, <2>1 DEF UserUnmap, BusyIn, Busy
  <1>6. thr[t].pc = "pin"
    <2>1. thr[t].pc # "pin" => thr[t].end = thr[t].vaddr + thr[t].len
      BY <1>2, ThreadIs DEF Shapes, CallShape, Removing
    <2> QED BY <1>4, <1>5, <2>1
  <1>7. CASE p < thr[t].end
    <2>1. thr[t].alloc
      BY <1>5, <1>6, <1>7 DEF Shapes, CallShape
    <2>2. p \in Land(t)
      BY <1>1, <1>2, <1>4, <1>7, LandOfCall
    <2>3. mem[p] = "mpf"
      BY <1>6, <2>1, <2>2 DEF Owners, CallOwns
    <2> QED BY <1>1, <2>3
  <1>8. CASE ~(p < thr[t].end)
    <2>1. thr[t].end < thr[t].at
      BY <1>1, <1>3, <1>4, <1>6, <1>8
    <2>2. PICK q \in Region : Pinned(q) /\ q.at < thr[t].end /\ thr[t].at <= q.at + q.size
      BY <1>6, <2>1 DEF Counts, OneEntry
    <2>3. q.at \in Nat /\ q.size \in Nat
      BY <2>2, RegionIs
    <2>4. Meets(r, q.at, q.at + q.size) /\ r # q
      BY <1>1, <1>3, <1>4, <1>6, <1>8, <2>2, <2>3 DEF Meets
    <2> QED BY <2>2, <2>4 DEF Disjoint
  <1> QED BY <1>7, <1>8

\* Where the user unmaps a page of a buffer that it does not hold any more, a
\* reference was lost.
LEMMA DescOut ==
  ASSUME Core, Dominated, SkippedSpare, SkippedFirst, StartsRounded, HeadsKept, Answered,
         NEW s \in Region, UserUnmap(s), NEW r \in Region, Pinned(r), r.size = Small, r \notin lost,
         r.at \in Pages(s.at, s.at + s.size), NEW d \in BagToSet(bufs), Meets(r, d.start, EndOf(d))
  PROVE  FALSE
  <1> USE DEF Core
  <1> DEFINE p == r.at
             f == Down(d.vaddr, Small)
             g == At(d.vaddr, Large)
  <1>1. p \in Nat /\ p \in Page /\ Aligned(p, Small) /\ s.at \in Nat /\ s.size \in Nat /\ s.at <= p /\ p < s.at + s.size
        /\ Small \in Nat \ {0} /\ Aligned(s.at + s.size, Small) /\ p \in Address
    BY RegionIs, PagesOfRegion, PageIs, Sizes, AddressIs
  <1>2. /\ d.vaddr \in Nat /\ d.vaddr \in Address /\ d.start \in Nat /\ d.len \in Nat \ {0} /\ Aligned(d.start, Small)
        /\ EndOf(d) = d.vaddr + d.len
    BY DescIs DEF Shapes, DescShape, EndOf
  <1>3. d.start <= p /\ p < d.vaddr + d.len
    <2>1. p < d.vaddr + d.len /\ d.start < p + Small
      BY <1>2 DEF Meets
    <2>2. ~(p < d.start)
      BY <1>1, <1>2, <2>1, AlignedStep
    <2> QED BY <1>1, <1>2, <2>1, <2>2
  <1>4. f \in Page /\ f \in Nat /\ f <= d.vaddr /\ d.vaddr < f + Small /\ Aligned(f, Small)
    BY <1>2, FirstIs, PageIs
  <1>5. ASSUME NEW h \in BagToSet(held), h.vaddr = d.vaddr, s.at < h.vaddr + h.len, h.vaddr < s.at + s.size PROVE FALSE
    <2>1. h.len \in Nat \ {0}
      BY BufferIs
    <2>2. HeldIn(s)
      BY <1>2, <1>5, <2>1 DEF HeldIn, Meets
    <2> QED BY <2>2 DEF UserUnmap
  <1>6. CASE d.vaddr <= p
    <2>1. PICK n : n = (p - d.vaddr) + 1
      OBVIOUS
    <2>2. n \in Nat /\ d.len >= n
      BY <1>1, <1>2, <1>3, <1>6, <2>1
    <2>3. Described(d.vaddr, n) <= Held(d.vaddr, n)
      BY <1>2, <1>6, <2>1 DEF Answered
    <2>4. Described(d.vaddr, n) # 0 /\ Described(d.vaddr, n) \in Nat /\ Held(d.vaddr, n) \in Nat
      BY <2>2, DescribedSome, HeldNat
    <2>5. PICK h \in BagToSet(held) : h.vaddr = d.vaddr /\ h.len >= n
      BY <1>2, <2>2, <2>3, <2>4, HeldSome
    <2>6. h.len \in Nat
      BY BufferIs
    <2> QED BY <1>1, <1>2, <1>5, <1>6, <2>1, <2>2, <2>5, <2>6
  <1>7. PICK h \in BagToSet(held) : h.vaddr = d.vaddr
    BY HeldAtDesc
  <1>8. h.len \in Nat \ {0}
    BY BufferIs
  <1>9. CASE p < d.vaddr /\ d.vaddr < s.at + s.size
    BY <1>1, <1>2, <1>5, <1>7, <1>8, <1>9
  <1>10. CASE p < d.vaddr /\ s.at + s.size <= d.vaddr
    <2>1. p < f
      <3>1. p + Small <= s.at + s.size
        BY <1>1, AlignedStep
      <3> HIDE DEF f
      <3> QED BY <1>1, <1>2, <1>4, <1>10, <3>1
    <2>2. d.start < f /\ d.start = Down(d.vaddr, Large) /\ HeadKept(d.vaddr, d.start)
      BY <1>1, <1>2, <1>3, <1>4, <2>1 DEF StartsRounded, Rounded, HeadsKept
    <2>3. g \in Region /\ g.at = d.start /\ g.size = Large /\ d.vaddr < g.at + g.size /\ Large \in Nat \ {0}
          /\ Aligned(g.at, Large)
      BY <1>2, <2>2, AtIs, RegionIs, Sizes
    <2>4. Down(p, Large) = Down(d.vaddr, Large) /\ Down(f, Large) = Down(d.vaddr, Large)
      <3>1. \A x \in Nat : g.at <= x /\ x < g.at + Large => g.at = Down(x, Large)
        BY <1>2, <2>2, <2>3, DownUnique
      <3> HIDE DEF f, g
      <3> QED BY <1>1, <1>2, <1>3, <1>4, <1>10, <2>1, <2>2, <2>3, <3>1
    <2>5. CASE g \in huge
      <3>1. Meets(g, s.at, s.at + s.size)
        BY <1>1, <1>2, <1>3, <1>10, <2>3 DEF Meets
      <3>2. d.vaddr < s.at + s.size
        BY <1>2, <2>5, <3>1, UserUnmapsHuge
      <3> QED BY <1>1, <1>2, <1>10, <3>2
    <2>6. CASE Seen(f)
      <3>1. Seen(p)
        <4> HIDE DEF f
        <4> QED BY <1>1, <1>4, <2>1, <2>4, <2>6, SeenBefore
      <3>2. PICK q \in Found(p) : q \in skipped
        BY <3>1 DEF Seen
      <3>3. q \in Region /\ Pinned(q) /\ q.at <= p /\ p < q.at + q.size
        BY <1>1, <3>2, FoundIs
      <3>4. Meets(r, q.at, q.at + q.size)
        BY <1>1, <3>3, RegionIs DEF Meets
      <3>5. q = r
        BY <3>3, <3>4 DEF Disjoint
      <3> QED BY <3>2, <3>5, SkippedLost
    <2>7. CASE \A x \in Page : d.start <= x /\ x < f => \A q \in Found(x) : q \in lost \/ q.size = Large
      <3>1. r \in Found(p)
        BY <1>1, FoundIs
      <3> QED BY <1>1, <1>3, <2>1, <2>7, <3>1, Sizes
    <2> QED BY <2>2, <2>5, <2>6, <2>7 DEF HeadKept
  <1> QED BY <1>1, <1>2, <1>6, <1>9, <1>10

\* What is still found at a page whose memory was unmapped has lost a reference,
\* or is a 2MB page.
StaleLost == \A p \in stale : Found(p) # {} /\ \A r \in Found(p) : r \in lost \/ r.size = Large

\* Where such pages come from.
LEMMA StaleFrom ==
  ASSUME Core, Next, NEW p \in stale'
  PROVE  \/ p \in stale /\ \A q \in Found(p) : Pinned(q)'
         \/ \E s \in Region : UserUnmap(s) /\ p \in Pages(s.at, s.at + s.size) /\ Found(p) # {}
         \/ \E t \in Thread : /\ UnmapBuffer(t) /\ thr[t].alloc /\ ~thr[t].busy /\ Found(p) # {}
                              /\ p \in Pages(thr[t].start, thr[t].start + thr[t].len)
  <1> USE DEF Core
  <1>1. ASSUME NEW t \in Thread, RemovePage(t) PROVE p \in stale /\ \A q \in Found(p) : Pinned(q)'
    <2>1. PICK r \in Region, me \in Activity : Taking(t, r, me) /\ (TakesOne(t, r, me) \/ TakesLast(t, r, me))
      BY <1>1, RemovePageIs
    <2>2. p \in stale /\ (p \notin Pages(r.at, r.at + r.size) \/ pt[r].refs # 1)
      BY <2>1 DEF TakesOne, TakesLast
    <2>3. p \in Page /\ p \in Address
      BY <2>2, PageIs, AddressIs DEF TypeOK
    <2>4. ASSUME NEW q \in Found(p) PROVE Pinned(q)'
      <3>1. q \in Region /\ Pinned(q) /\ q.at <= p /\ p < q.at + q.size
        BY <2>3, FoundIs
      <3>2. q = r => pt[r].refs # 1
        BY <2>2, <2>3, <3>1, PagesOfRegion
      <3> QED BY <2>1, <3>1, <3>2, TakingPinned
    <2> QED BY <2>2, <2>4
  <1>2. ASSUME NEW s \in Region, UserUnmap(s), p \notin stale
        PROVE  p \in Pages(s.at, s.at + s.size) /\ Found(p) # {}
    BY <1>2 DEF UserUnmap, Unmapped
  <1>3. ASSUME NEW t \in Thread, UnmapBuffer(t), p \notin stale
        PROVE  thr[t].alloc /\ ~thr[t].busy /\ Found(p) # {} /\ p \in Pages(thr[t].start, thr[t].start + thr[t].len)
    BY <1>3, UnmapBufferIs DEF Unmapped
  <1>4. ASSUME NEW t \in Thread, Call(t), p \notin stale PROVE UnmapBuffer(t) \/ RemovePage(t)
    <2>1. CASE PinFound(t) \/ PinNew(t, Large) \/ PinNew(t, Small) \/ PrepareFails(t) \/ Track(t)
      BY <1>4, <2>1 DEF PinFound, PinNew, PrepareFails, Track
    <2>2. CASE InvalPage(t) \/ InvalFails(t) \/ UnpinPage(t)
      BY <1>4, <2>2 DEF InvalPage, InvalFails, UnpinPage
    <2> QED BY <1>4, <2>1, <2>2 DEF Call
  <1>5. ASSUME NEW t \in Thread, NEW n \in Lengths, NEW a \in Address, Prealloc(t, a, n) \/ Alloc(t, n, a)
        PROVE  stale' = stale
    BY <1>5 DEF Prealloc, Alloc
  <1>6. ASSUME NEW t \in Thread, NEW h \in BagToSet(held), Release(t, h) PROVE stale' = stale
    BY <1>6, ReleaseIs
  <1>7. ASSUME NEW s \in Region, UserMap(s) PROVE stale' = stale
    BY <1>7 DEF UserMap
  <1>8. CASE \E t \in Thread : RemovePage(t)
    BY <1>1, <1>8
  <1>9. CASE p \notin stale
    BY <1>1, <1>2, <1>3, <1>4, <1>5, <1>6, <1>7, <1>9 DEF Next
  <1>10. CASE p \in stale /\ \A t \in Thread : ~RemovePage(t)
    <2>1. p \in Page /\ p \in Address
      BY <1>10, PageIs, AddressIs DEF TypeOK
    <2>2. \A q \in Found(p) : q \in Region /\ Pinned(q)
      BY <2>1, FoundIs
    <2>3. ASSUME NEW t \in Thread, NEW e \in Region, PinStep(t, e) PROVE \A q \in Region : Pinned(q) => Pinned(q)'
      BY <2>3, PinStepIs
    <2>4. pt' = pt => \A q \in Region : Pinned(q) => Pinned(q)'
      BY DEF Pinned
    <2>5. \A q \in Region : Pinned(q) => Pinned(q)'
      BY <1>10, <2>3, <2>4, EntriesFrom
    <2> QED BY <1>10, <2>2, <2>5
  <1> QED BY <1>8, <1>9, <1>10

LEMMA StaleLostStep ==
  ASSUME Core, Core', Dominated, Owners, SkippedSpare, SkippedFirst, LeftTaken, BrokenLost, StartsRounded,
         HeadsKept, Answered, StaleLost, Next
  PROVE  StaleLost'
  <1> USE DEF Core
  <1> SUFFICES ASSUME NEW p \in stale' PROVE Found(p)' # {} /\ \A r \in Found(p)' : r \in lost' \/ r.size = Large
    BY DEF StaleLost
  <1>1. p \in Page /\ p \in Address /\ p \in Nat
    BY PageIs, AddressIs DEF TypeOK
  <1>2. \A r : r \in Found(p) <=> r \in Region /\ Pinned(r) /\ r.at <= p /\ p < r.at + r.size
    BY <1>1, FoundIs
  <1>3. \A r : r \in Found(p)' <=> r \in Region /\ Pinned(r)' /\ r.at <= p /\ p < r.at + r.size
    BY <1>1, FoundNext
  <1>4. ASSUME NEW r \in Found(p), r \in lost \/ r.size = Large, Pinned(r)'
        PROVE  Found(p)' # {} /\ \A q \in Found(p)' : q \in lost' \/ q.size = Large
    <2>1. r \in Found(p)'
      BY <1>2, <1>3, <1>4
    <2>2. r \in lost' \/ r.size = Large
      BY <1>2, <1>4, LostStays
    <2>3. ASSUME NEW q \in Found(p)' PROVE q = r
      <3>1. q \in Region /\ r \in Region /\ Pinned(q)' /\ Pinned(r)'
        BY <1>3, <2>1
      <3>2. Meets(q, r.at, r.at + r.size)
        BY <1>1, <1>3, <2>1, <3>1, RegionIs DEF Meets
      <3>3. q = r \/ ~Meets(q, r.at, r.at + r.size)'
        BY <3>1 DEF Disjoint
      <3> QED BY <3>2, <3>3 DEF Meets
    <2> QED BY <2>1, <2>2, <2>3
  <1>5. CASE p \in stale /\ \A q \in Found(p) : Pinned(q)'
    BY <1>4, <1>5 DEF StaleLost
  <1>6. ASSUME NEW s \in Region, UserUnmap(s), p \in Pages(s.at, s.at + s.size), Found(p) # {}
        PROVE  Found(p)' # {} /\ \A q \in Found(p)' : q \in lost' \/ q.size = Large
    <2>1. PICK r : r \in Found(p)
      BY <1>6
    <2>2. r \in Region /\ Pinned(r) /\ r.size \in {Small, Large}
      BY <1>2, <2>1, RegionIs
    <2>3. Pinned(r)'
      BY <1>6, <2>2 DEF UserUnmap, Pinned
    <2>4. r \in lost \/ r.size = Large
      <3> SUFFICES ASSUME r \notin lost, r.size = Small PROVE FALSE
        BY <2>2
      <3>1. r.at = p
        <4>1. Aligned(p, Small) /\ Aligned(r.at, Small) /\ r.at \in Nat /\ Small \in Nat \ {0}
          BY <1>1, <2>2, PageIs, RegionIs, Sizes
        <4>2. ~(r.at < p)
          BY <1>1, <1>2, <2>1, <4>1, AlignedStep
        <4> QED BY <1>1, <1>2, <2>1, <4>1, <4>2
      <3> QED BY <1>6, <2>2, <3>1, UserOf, CallOut, DescOut
    <2> QED BY <1>4, <2>1, <2>3, <2>4
  <1>7. ASSUME NEW t \in Thread, UnmapBuffer(t), thr[t].alloc, ~thr[t].busy, Found(p) # {},
               p \in Pages(thr[t].start, thr[t].start + thr[t].len)
        PROVE  Found(p)' # {} /\ \A q \in Found(p)' : q \in lost' \/ q.size = Large
    <2>1. PICK r : r \in Found(p)
      BY <1>7
    <2>2. r \in lost \/ r.size = Large
      BY <1>7, <2>1, UnmapLeaves
    <2>3. Pinned(r)'
      BY <1>2, <1>7, <2>1, UnmapBufferIs DEF Pinned
    <2> QED BY <1>4, <2>1, <2>2, <2>3
  <1> QED BY <1>5, <1>6, <1>7, StaleFrom

-----------------------------------------------------------------------------
(* The histories, and what follows from them.                              *)

\* While the mutex is not left locked, a buffer's start is where it was asked for.
HistoryInv ==
    /\ BuffersInv /\ SkippedSpare /\ SkippedFirst /\ HugeWhole /\ LeftTaken /\ BrokenLost
    /\ StartsRounded /\ HeadsKept /\ Answered /\ StaleLost
    /\ ~wedged => HugeStarts /\ StartsKnown

LEMMA HistoryInit == Init => HistoryInv
  <1> SUFFICES ASSUME Init PROVE HistoryInv
    OBVIOUS
  <1>1. BuffersInv
    BY BuffersInit
  <1>2. /\ pt = [r \in Region |-> NoEntry] /\ bufs = EmptyBag /\ thr = [t \in Thread |-> Idle]
        /\ stale = {} /\ skipped = {} /\ mem = [p \in Page |-> IF p \in UserMemory THEN "user" ELSE "free"]
        /\ \A r \in huge : \A p \in Pages(r.at, r.at + r.size) : mem[p] = "user"
    BY DEF Init
  <1>3. BagToSet(bufs) = {}
    BY <1>2 DEF EmptyBag, SetToBag, BagToSet
  <1>4. \A t \in Thread : thr[t].pc = "idle"
    BY <1>2 DEF Idle
  <1>5. \A r \in Region : ~Pinned(r)
    BY <1>2 DEF Pinned, NoEntry
  <1>6. SkippedSpare /\ SkippedFirst /\ StaleLost
    BY <1>2 DEF SkippedSpare, SkippedFirst, StaleLost
  <1>7. HugeWhole
    BY <1>2 DEF HugeWhole
  <1>8. LeftTaken /\ BrokenLost
    BY <1>4 DEF LeftTaken, BrokenLost, Removing
  <1>9. StartsRounded /\ HeadsKept /\ HugeStarts /\ StartsKnown
    BY <1>3, <1>4 DEF StartsRounded, HeadsKept, HugeStarts, StartsKnown
  <1>10. Answered
    BY <1>5 DEF Answered
  <1> QED BY <1>1, <1>6, <1>7, <1>8, <1>9, <1>10 DEF HistoryInv

LEMMA HistoryStutter ==
  ASSUME HistoryInv, UNCHANGED vars
  PROVE  HistoryInv'
  <1> USE DEF HistoryInv, vars
  <1>1. BuffersInv'
    BY BuffersStutter
  <1>2. \A r : Pinned(r)' <=> Pinned(r)
    BY DEF Pinned
  <1>3. \A a : Found(a)' = Found(a)
    BY DEF Found, Pinned
  <1>4. \A r : Users(r)' = Users(r)
    BY DEF Users, Sharing, Copies, InCall
  <1>5. \A p : Seen(p)' <=> Seen(p)
    BY <1>3 DEF Seen
  <1>6. SkippedSpare' /\ SkippedFirst'
    BY <1>2, <1>4, <1>5 DEF SkippedSpare, Spare, SkippedFirst
  <1>7. HugeWhole' /\ StartsRounded'
    BY DEF HugeWhole, StartsRounded, Rounded
  <1>8. LeftTaken'
    <2>1. \A t \in Thread : CallOwns(t)' => CallOwns(t)
      BY DEF CallOwns, MayUnmap, Pinned
    <2>2. \A t \in Thread : Passed(t) => Passed(t)'
      BY <1>3 DEF Passed, Land
    <2> QED BY <2>1, <2>2 DEF LeftTaken
  <1>9. BrokenLost' /\ StaleLost'
    BY <1>2, <1>3 DEF BrokenLost, StaleLost
  <1>10. HeadsKept'
    <2>1. \A a, start : HeadKept(a, start) => HeadKept(a, start)'
      BY <1>3, <1>5 DEF HeadKept
    <2> QED BY <2>1 DEF HeadsKept
  <1>11. Answered'
    <2>1. \A a, n : Described(a, n)' = Described(a, n) /\ Held(a, n)' = Held(a, n)
      BY DEF Described, Held
    <2> QED BY <1>2, <2>1 DEF Answered
  <1>12. ~wedged => HugeStarts' /\ StartsKnown'
    <2>1. \A a, start : StartsLow(a, start) => StartsLow(a, start)'
      BY <1>5 DEF StartsLow
    <2>2. \A p : Known(p) => Known(p)'
      BY <1>5 DEF Known
    <2> QED BY <2>1, <2>2 DEF HugeStarts, StartsKnown
  <1> QED BY <1>1, <1>6, <1>7, <1>8, <1>9, <1>10, <1>11, <1>12

LEMMA HistoryStep == HistoryInv /\ [Next]_vars => HistoryInv'
  <1> SUFFICES ASSUME HistoryInv, Next PROVE HistoryInv'
    BY HistoryStutter
  <1>1. BuffersInv'
    BY BuffersStep DEF HistoryInv
  <1>2. Core /\ Core' /\ Dominated /\ Owners /\ (~wedged => InUse) /\ TypeOK /\ Shapes
    BY <1>1 DEF HistoryInv, BuffersInv, Core
  <1>3. /\ SkippedSpare /\ SkippedFirst /\ HugeWhole /\ LeftTaken /\ BrokenLost /\ StartsRounded /\ HeadsKept
        /\ Answered /\ StaleLost /\ (~wedged => HugeStarts /\ StartsKnown)
    BY DEF HistoryInv
  <1>4. SkippedSpare' /\ SkippedFirst'
    BY <1>2, <1>3, SkippedSpareKept, SkippedFirstKept
  <1>5. HugeWhole'
    BY <1>2, <1>3, HugeWholeStep
  <1>6. LeftTaken'
    BY <1>2, <1>3, LeftTakenStep DEF InUse
  <1>7. BrokenLost' /\ StartsRounded' /\ Answered'
    BY <1>2, <1>3, BrokenLostStep, StartsRoundedStep, AnsweredStep
  <1>8. HeadsKept'
    BY <1>2, <1>3, HeadsKeptStep
  <1>9. StaleLost'
    BY <1>2, <1>3, StaleLostStep
  <1>10. ASSUME ~wedged' PROVE HugeStarts' /\ StartsKnown'
    <2>1. ~wedged
      BY <1>2, <1>10, WedgedStays
    <2> QED BY <1>2, <1>3, <2>1, HugeStartsStep, StartsKnownStep
  <1> QED BY <1>1, <1>4, <1>5, <1>6, <1>7, <1>8, <1>9, <1>10 DEF HistoryInv

\* Only the last step of a release ends it.
LEMMA OnlyUnmapBuffer ==
  ASSUME BuffersInv, Next, NEW t \in Thread, thr[t].pc \in {"unmap", "break"}, thr'[t].pc = "idle"
  PROVE  UnmapBuffer(t)
  <1> USE DEF BuffersInv, Core
  <1>1. ASSUME thr'[t] = thr[t] PROVE FALSE
    BY <1>1
  <1>2. CASE \E r \in Region : UserMap(r) \/ UserUnmap(r)
    BY <1>1, <1>2 DEF UserMap, UserUnmap
  <1>3. ASSUME NEW u \in Thread, NEW n \in Lengths, NEW a \in Address, Prealloc(u, a, n) \/ Alloc(u, n, a)
        PROVE  FALSE
    <2>1. thr[u].pc = "idle"
      BY <1>3 DEF Prealloc, Alloc, Busy
    <2>2. \E x : thr' = [thr EXCEPT ![u] = x]
      BY <1>3 DEF Prealloc, Alloc, Begin
    <2> QED BY <1>1, <2>1, <2>2 DEF TypeOK
  <1>4. ASSUME NEW u \in Thread, NEW h \in BagToSet(held), Release(u, h)
        PROVE  FALSE
    <2>1. PICK me : thr[u].pc = "idle" /\ thr' = [thr EXCEPT ![u] = me]
      BY <1>4 DEF Release, Busy
    <2> QED BY <1>1, <2>1 DEF TypeOK
  <1>5. ASSUME NEW u \in Thread, Call(u) PROVE UnmapBuffer(t)
    <2>1. CASE PinFound(u) \/ PinNew(u, Large) \/ PinNew(u, Small)
      <3>1. PICK e \in Region : PinStep(u, e)
        BY <2>1, PinFoundStep, PinNewStep
      <3> QED BY <1>1, <3>1 DEF PinStep
    <2>2. CASE PrepareFails(u) \/ Track(u)
      <3>1. thr[u].pc = "pin" /\ thr' = [thr EXCEPT ![u] = Idle]
        BY <2>2 DEF PrepareFails, Track
      <3> QED BY <1>1, <3>1 DEF TypeOK
    <2>3. CASE RemovePage(u)
      <3>1. PICK r \in Region, me \in Activity :
                Taking(u, r, me) /\ (TakesOne(u, r, me) \/ TakesLast(u, r, me))
        BY <2>3, RemovePageIs
      <3>2. thr[u].pc = "remove" /\ thr' = [thr EXCEPT ![u] = me]
        BY <3>1 DEF Taking
      <3> QED BY <1>1, <3>2 DEF TypeOK
    <2>4. CASE InvalPage(u) \/ InvalFails(u) \/ UnpinPage(u)
      <3>1. PICK pc : Onward(u, pc) /\ thr[u].pc \in {"inval", "unpin"}
        BY <2>4, InvalPageIs, InvalFailsIs, UnpinPageIs
      <3>2. PICK me : thr' = [thr EXCEPT ![u] = me]
        BY <3>1 DEF Onward
      <3> QED BY <1>1, <3>1, <3>2 DEF TypeOK
    <2>5. CASE UnmapBuffer(u)
      <3>1. thr' = [thr EXCEPT ![u] = Idle]
        BY <2>5 DEF UnmapBuffer
      <3> QED BY <1>1, <2>5, <3>1 DEF TypeOK
    <2> QED BY <1>5, <2>1, <2>2, <2>3, <2>4, <2>5 DEF Call
  <1> QED BY <1>2, <1>3, <1>4, <1>5 DEF Next

\* mpfVtpReleaseBuffer calls munmap on memory of MPF's own alone, of which no
\* page is translated any more, but for pages that it stepped over, 2MB pages
\* that were pinned for a neighbour, and after a failed CSR.
THEOREM UserMemoryKept == Spec => UnmapsItsOwn
  <1> DEFINE OwnPages ==
        \A t \in Thread : thr[t].pc \in {"unmap", "break"} /\ thr'[t].pc = "idle" =>
            \A p \in Page : mem[p] # "free" /\ mem'[p] = "free" =>
                /\ mem[p] = "mpf"
                /\ \A r \in Found(p) : wedged \/ r \in skipped \/ r.size = Large
  <1>1. HistoryInv /\ [Next]_vars => [OwnPages]_vars
    <2> SUFFICES ASSUME HistoryInv, Next, NEW t \in Thread, thr[t].pc \in {"unmap", "break"}, thr'[t].pc = "idle",
                        NEW p \in Page, mem[p] # "free", mem'[p] = "free"
                 PROVE  mem[p] = "mpf" /\ \A r \in Found(p) : wedged \/ r \in skipped \/ r.size = Large
      OBVIOUS
    <2>1. Core /\ Owners /\ TypeOK /\ Shapes /\ SkippedSpare /\ LeftTaken /\ BrokenLost /\ BuffersInv
      BY DEF HistoryInv, BuffersInv, Core
    <2>2. UnmapBuffer(t)
      BY <2>1, OnlyUnmapBuffer
    <2>3. mem[p] = "mpf"
      BY <2>1, <2>2, UnmappedIs
    <2>4. /\ thr[t].alloc /\ ~thr[t].busy /\ p \in Pages(thr[t].start, thr[t].start + thr[t].len)
      BY <2>1, <2>2, UnmapBufferIs DEF Unmapped
    <2> QED BY <2>1, <2>2, <2>3, <2>4, UnmapLeaves
  <1>2. HistoryInv /\ [Next]_vars => HistoryInv'
    BY HistoryStep
  <1>3. Init => HistoryInv
    BY HistoryInit
  <1>4. Spec => [][OwnPages]_vars
    <2> HIDE DEF OwnPages
    <2> QED BY <1>1, <1>2, <1>3, PTL DEF Spec
  <1> QED BY <1>4 DEF UnmapsItsOwn

\* A buffer is translated to its present memory: what the FPGA would find of
\* memory that was unmapped before are entries of which a reference is known to
\* be lost, and 2MB pages.
THEOREM TranslationsKnown == Spec => []OutdatedExplained
  <1>1. HistoryInv => OutdatedExplained
    BY DEF HistoryInv, StaleLost, OutdatedExplained, Outdated
  <1>2. HistoryInv /\ [Next]_vars => HistoryInv'
    BY HistoryStep
  <1> QED BY HistoryInit, <1>1, <1>2, PTL DEF Spec
=============================================================================
