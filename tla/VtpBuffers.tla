------------------------------ MODULE VtpBuffers ------------------------------
(***************************************************************************)
(* Buffers shared with the FPGA: mpfVtpPrepareBuffer, mpfVtpReleaseBuffer  *)
(* and the table of buffers between them.  A buffer is a range of bytes; a *)
(* page of it is pinned once for all the buffers in it, with a count of    *)
(* references.  Threads pin and release page by page, and hold the page    *)
(* table's mutex for one page at a time.                                   *)
(*                                                                         *)
(* Addresses count units, several of which make a page of 4KB and more a   *)
(* page of 2MB.  An OPAE pin (wsid) is a count for its region, and the     *)
(* radix tree is the set of its terminal entries: VtpPageTable shows that  *)
(* it behaves so.  The munmap monitor is not running, as it is in a        *)
(* program that never pins on demand.                                      *)
(***************************************************************************)
EXTENDS Naturals, FiniteSets, BagsExt, Bags

CONSTANTS
    Thread,       \* application threads that call libmpf
    Small, Large, \* units in a page of 4KB and of 2MB
    Units,        \* units of virtual memory
    Threshold,    \* CCI_MPF_VTP_2MB_PAGE_THRESHOLD
    Lengths,      \* lengths of buffers, in units
    UserMemory,   \* pages that the user maps itself
    MaxPrepares,  \* bound: buffers that are prepared
    MaxUnmaps,    \* bound: times that the user unmaps memory
    MaxFaults     \* bound: calls of the kernel or the FPGA that fail

ASSUME BuffersAssumption ==
    /\ {Small, Large} \subseteq Nat \ {0} /\ Large % Small = 0 /\ Large > Small
    /\ Units \in Nat \ {0} /\ Units % Large = 0
    /\ Threshold \in Nat /\ Lengths \subseteq Nat \ {0}
    /\ UserMemory \subseteq 0 .. Units - 1
    /\ {MaxPrepares, MaxUnmaps, MaxFaults} \subseteq Nat
    /\ IsFiniteSet(Thread)

Down(a, size) == a - (a % size)
Up(a, size)   == Down((a + size) - 1, size)

Address == 0 .. Units - 1
Page    == {Down(a, Small) : a \in Address}

\* What one page-table entry translates, and one call of OPAE pins.
At(a, size) == [at |-> Down(a, size), size |-> size]
Region  == {At(a, Small) : a \in Address} \union {At(a, Large) : a \in Address}
Span(r) == r.at .. (r.at + r.size) - 1
Pages(from, end) == {Down(a, Small) : a \in from .. end - 1}
Meets(r, from, end) == r.at < end /\ from < r.at + r.size /\ from < end

VARIABLES
    mem,      \* who mapped each page: nobody, the user or MPF
    huge,     \* 2MB pages mapped from hugetlbfs
    pt,       \* page table
    pinned,   \* how often OPAE pins each region
    cached,   \* regions whose translation the FPGA may cache
    bufs,     \* descriptors in the table of buffers
    held,     \* buffers that the user prepared and has not released
    thr,      \* what each thread does in libmpf
    wedged,   \* the page table's mutex was left locked
    count,    \* prepares, unmaps and failures so far (bounds)
    stale,    \* history: pinned pages whose memory was unmapped since
    lost,     \* history: entries of which a reference was left behind
    skipped   \* history: entries that a release stepped over

vars == <<mem, huge, pt, pinned, cached, bufs, held, thr, wedged, count, stale, lost, skipped>>

NoEntry == [refs |-> 0, alloc |-> FALSE]
Pinned(r) == pt[r].refs > 0
Found(a)  == {r \in {At(a, Small), At(a, Large)} : Pinned(r)}

NoRegion == [at |-> 0, size |-> 0]
Idle == [pc |-> "idle", at |-> 0, end |-> 0, start |-> 0, vaddr |-> 0, len |-> 0,
         alloc |-> FALSE, busy |-> FALSE, page |-> NoRegion]

Buffer(t) == [vaddr |-> thr[t].vaddr, len |-> thr[t].len]
Descriptor(t) == [vaddr |-> thr[t].vaddr, len |-> thr[t].len, start |-> thr[t].start]

Activity == [pc : {"idle", "pin", "remove", "inval", "unpin", "unmap", "break"},
             at : Nat, end : Nat, start : Address, vaddr : Address,
             len : Lengths \union {0}, alloc : BOOLEAN, busy : BOOLEAN,
             page : Region \union {NoRegion}]

\* Every variable stays in its range: table entries have no negative count.
TypeOK ==
    /\ mem \in [Page -> {"free", "user", "mpf"}]
    /\ huge \subseteq {r \in Region : r.size = Large}
    /\ pt \in [Region -> [refs : Nat, alloc : BOOLEAN]]
    /\ pinned \in [Region -> Nat]
    /\ cached \subseteq Region
    /\ IsABag(bufs)
    /\ BagToSet(bufs) \subseteq [vaddr : Address, len : Lengths, start : Address]
    /\ IsABag(held) /\ BagToSet(held) \subseteq [vaddr : Address, len : Lengths]
    /\ thr \in [Thread -> Activity]
    /\ wedged \in BOOLEAN
    /\ count \in [prepares : 0 .. MaxPrepares, unmaps : 0 .. MaxUnmaps, faults : 0 .. MaxFaults]
    /\ stale \subseteq Page /\ lost \subseteq Region /\ skipped \subseteq Region

Init ==
    /\ mem = [p \in Page |-> IF p \in UserMemory THEN "user" ELSE "free"]
    /\ huge \in SUBSET {At(a, Large) : a \in Address}
    /\ \A r \in huge : \A p \in Pages(r.at, r.at + r.size) : mem[p] = "user"
    /\ pt = [r \in Region |-> NoEntry]
    /\ pinned = [r \in Region |-> 0]
    /\ cached = {}
    /\ bufs = EmptyBag /\ held = EmptyBag
    /\ thr = [t \in Thread |-> Idle]
    /\ wedged = FALSE /\ count = [prepares |-> 0, unmaps |-> 0, faults |-> 0]
    /\ stale = {} /\ lost = {} /\ skipped = {}

-----------------------------------------------------------------------------
(* The user's memory.                                                      *)

Mapped(r) == \A p \in Pages(r.at, r.at + r.size) : mem[p] # "free"
HeldIn(r) == \E h \in BagToSet(held) : Meets(r, h.vaddr, h.vaddr + h.len)
Busy(t)   == thr[t].pc # "idle"
BusyIn(r) == \E t \in Thread : Busy(t) /\ Meets(r, thr[t].start, thr[t].vaddr + thr[t].len)

\* Pages [from, end) leave the process; pinned ones keep their old frames.
Unmapped(from, end) ==
    /\ mem' = [p \in Page |-> IF p \in Pages(from, end) THEN "free" ELSE mem[p]]
    /\ huge' = {r \in huge : ~Meets(r, from, end)}
    /\ stale' = stale \union {p \in Pages(from, end) : Found(p) # {}}

\* The user maps a small page, or a large one from hugetlbfs.
UserMap(r) ==
    /\ \A p \in Pages(r.at, r.at + r.size) : p \in UserMemory /\ mem[p] = "free"
    /\ mem' = [p \in Page |-> IF p \in Span(r) THEN "user" ELSE mem[p]]
    /\ huge' = IF r.size = Large THEN huge \union {r} ELSE huge
    /\ UNCHANGED <<pt, pinned, cached, bufs, held, thr, wedged, count, stale, lost, skipped>>

\* The user unmaps memory of its own in which no buffer is left.
UserUnmap(r) ==
    /\ \A p \in Pages(r.at, r.at + r.size) : mem[p] = "user"
    /\ IF r.size = Large THEN r \in huge ELSE At(r.at, Large) \notin huge
    /\ ~HeldIn(r) /\ ~BusyIn(r)
    /\ count.unmaps < MaxUnmaps
    /\ count' = [count EXCEPT !.unmaps = @ + 1]
    /\ Unmapped(r.at, r.at + r.size)
    /\ UNCHANGED <<pt, pinned, cached, bufs, held, thr, wedged, lost, skipped>>

-----------------------------------------------------------------------------
(* mpfVtpPrepareBuffer.                                                    *)

Working == {t \in Thread : thr[t].pc = "pin"}

Begin(t, vaddr, len, start, end, alloc) ==
    /\ count.prepares < MaxPrepares
    /\ count' = [count EXCEPT !.prepares = @ + 1]
    /\ thr' = [thr EXCEPT ![t] = [Idle EXCEPT !.pc = "pin", !.at = start, !.end = end, !.start = start,
                                           !.vaddr = vaddr, !.len = len, !.alloc = alloc]]

\* vtpPreallocBuffer: the start is aligned to the kernel's page.  The memory is
\* the user's, or inside a buffer that it holds.
Prealloc(t, a, n) ==
    /\ ~Busy(t) /\ a + n <= Units
    /\ \A p \in Pages(a, a + n) : \/ mem[p] = "user"
                                  \/ mem[p] = "mpf" /\ HeldIn(At(p, Small))
    /\ Begin(t, a, n, Down(a, IF At(a, Large) \in huge THEN Large ELSE Small), a + n, FALSE)
    /\ UNCHANGED <<mem, huge, pt, pinned, cached, bufs, held, wedged, stale, lost, skipped>>

\* mpfOsMapMemory for size units at an address of the kernel's choice.
MapMemory(base, size, large) ==
    /\ base + size <= Units
    /\ \A p \in Pages(base, base + size) : mem[p] = "free"
    /\ mem' = [p \in Page |-> IF p \in Pages(base, base + size) THEN "mpf" ELSE mem[p]]
    /\ huge' = IF large
               THEN huge \union {At(p, Large) : p \in Pages(base, base + size)}
               ELSE huge

\* vtpAllocBuffer: the length is rounded up to the page that is asked for; when
\* the kernel has no such page, small pages make up the rounded length.
Alloc(t, n, base) ==
    LET size == IF n > Threshold THEN Large ELSE Small
        end  == base + Up(n, size)
    IN  /\ ~Busy(t)
        /\ \/ size = Large /\ base % Large = 0 /\ MapMemory(base, Up(n, size), TRUE)
           \/ base % Small = 0 /\ MapMemory(base, Up(n, size), FALSE)
        /\ Begin(t, base, n, base, end, TRUE)
        /\ UNCHANGED <<pt, pinned, cached, bufs, held, wedged, stale, lost, skipped>>

\* vtpPinRegion takes the next page under the mutex.
Pinning(t) == thr[t].pc = "pin" /\ ~wedged /\ thr[t].at < thr[t].end
Past(t, r) == thr' = [thr EXCEPT ![t].at = r.at + r.size]

\* Mutant: MPF unmaps what it allocated, whoever claims it since.
More_StaysMpf(entry, alloc) == [entry EXCEPT !.refs = @ + 1]

\* nodeIncrRefCnt.  Memory that the user claims is not MPF's to unmap.
More(entry, alloc) ==
    [refs |-> entry.refs + 1, alloc |-> entry.alloc /\ alloc]

\* A page that is pinned already is shared, whatever its size.
PinFound(t) ==
    /\ Pinning(t) /\ ~thr[t].alloc
    /\ \E r \in Found(thr[t].at) :
          /\ pt' = [pt EXCEPT ![r] = More(@, FALSE)]
          /\ Past(t, r)
    /\ UNCHANGED <<mem, huge, pinned, cached, bufs, held, wedged, count, stale, lost, skipped>>

\* addVAtoTable: a large page needs its range empty; inside an entry that is
\* there already the request is counted.
MayInsert(r) == \A s \in Region : Pinned(s) /\ s.size < r.size => ~Meets(s, r.at, r.at + r.size)
Insert(r, alloc) ==
    pt' = IF Found(r.at) = {}
          THEN [pt EXCEPT ![r] = [refs |-> 1, alloc |-> alloc]]
          ELSE [s \in Region |-> IF s \in Found(r.at) THEN More(pt[s], alloc) ELSE pt[s]]

\* Mutant: only the translation of a page that starts at the address.
Shootdown_First(a, table) == cached' = {r \in Region : table[r].refs > 0 \/ (r \in cached /\ r.at # a)}

\* vtpInvalHWVAMapping: the FPGA drops the translation of an address.  What is
\* in the table it may load again at any time.
Shootdown(a, table) ==
    cached' = {r \in Region : table[r].refs > 0 \/ (r \in cached /\ a \notin Span(r))}

\* mpfVtpPinAndInsertPage.  Whether the kernel has a large page there is for it
\* to say; when it has not, a small page is tried.  An entry that is there
\* already counts each of the small pages, a release will count it once.
PinNew(t, size) ==
    LET r == At(thr[t].at, size)
    IN  /\ Pinning(t)
        /\ thr[t].alloc \/ Found(thr[t].at) = {}
        /\ r.at = thr[t].at /\ Mapped(r) /\ MayInsert(r)
        /\ pinned' = [pinned EXCEPT ![r] = @ + 1]
        /\ Insert(r, thr[t].alloc)
        /\ Shootdown(r.at, pt')
        /\ Past(t, r)
        /\ lost' = lost \union {s \in Found(r.at) : Meets(s, thr[t].start, thr[t].at)}
        /\ UNCHANGED <<mem, huge, bufs, held, wedged, count, stale, skipped>>

\* Entries that a call referred to in [from, end) and does not give back;
\* those that also reach into [from2, end2) still belong to it.
Left(from, end, from2, end2) ==
    {r \in Region : Pinned(r) /\ Meets(r, from, end) /\ ~Meets(r, from2, end2)}

\* Pinning, or tracking what was pinned, fails: the pages before stay pinned
\* and the memory stays mapped.
PrepareFails(t) ==
    /\ thr[t].pc = "pin" /\ count.faults < MaxFaults
    /\ count' = [count EXCEPT !.faults = @ + 1]
    /\ thr' = [thr EXCEPT ![t] = Idle]
    /\ lost' = lost \union Left(thr[t].start, thr[t].at, 0, 0)
    /\ UNCHANGED <<mem, huge, pt, pinned, cached, bufs, held, wedged, stale, skipped>>

\* mpfVtpBuffersInsert, with the length that was asked for.
Track(t) ==
    LET end == thr[t].vaddr + thr[t].len
    IN  /\ thr[t].pc = "pin" /\ thr[t].at >= thr[t].end
        /\ bufs' = BagAdd(bufs, Descriptor(t))
        /\ held' = BagAdd(held, Buffer(t))
        /\ thr' = [thr EXCEPT ![t] = Idle]
        /\ lost' = lost \union Left(end, thr[t].end, thr[t].start, end)
        /\ UNCHANGED <<mem, huge, pt, pinned, cached, wedged, count, stale, skipped>>

-----------------------------------------------------------------------------
(* mpfVtpReleaseBuffer.                                                    *)

\* Mutant: the largest.
Match_Largest(a) ==
    {d \in BagToSet(bufs) :
        d.vaddr = a /\ \A e \in BagToSet(bufs) : e.vaddr = a => d.len >= e.len}

\* mpfVtpBuffersRemove finds the smallest buffer at the address.
Match(a) ==
    {d \in BagToSet(bufs) :
        d.vaddr = a /\ \A e \in BagToSet(bufs) : e.vaddr = a => d.len <= e.len}

\* Mutant: the length is counted from the start of the first page.
EndOf_FromPage(d) == d.start + d.len

EndOf(d) == d.vaddr + d.len

\* The user gives the buffer's address.  A release of memory that somebody is
\* just preparing is an error of the user's, unless the memory is its own.
Release(t, h) ==
    \E d \in Match(h.vaddr) :
        /\ ~Busy(t)
        /\ \A u \in Working :
              \A p \in Pages(thr[u].start, thr[u].end) \intersect Pages(d.start, EndOf(d)) : mem[p] = "user"
        /\ bufs' = BagRemove(bufs, d)
        /\ held' = BagRemove(held, h)
        /\ thr' = [thr EXCEPT ![t] = [Idle EXCEPT !.pc = "remove", !.at = d.start,
                                                  !.end = EndOf(d), !.start = d.start,
                                                  !.vaddr = d.vaddr, !.len = d.len]]
        /\ lost' = lost \union Left(h.vaddr + d.len, h.vaddr + h.len, d.start, h.vaddr + d.len)
        /\ UNCHANGED <<mem, huge, pt, pinned, cached, wedged, count, stale, skipped>>

\* Mutant: the last page is left out.
AfterPage_Early(next, end) == IF next + Small >= end THEN "unmap" ELSE "remove"

AfterPage(next, end) == IF next >= end THEN "unmap" ELSE "remove"

Lower(a, b) == IF a < b THEN a ELSE b

\* mpfVtpPtRemovePageMapping, and the step to the next page: by the page's
\* size, from an address that need not be the page's first.
RemovePage(t) ==
    LET me == thr[t]
        Beyond(r) == me.at + r.size
        Over(r) == Left(r.at + r.size, Lower(Beyond(r), me.end), Beyond(r), me.end)
    IN  /\ me.pc = "remove" /\ ~wedged
        /\ \/ /\ Found(me.at) = {}
              /\ thr' = [thr EXCEPT ![t] = Idle]
              /\ lost' = lost \union Left(me.at, me.end, 0, 0)
              /\ UNCHANGED <<pt, stale, skipped>>
           \/ \E r \in Found(me.at) :
                 /\ pt[r].refs > 1
                 /\ pt' = [pt EXCEPT ![r].refs = @ - 1]
                 /\ thr' = [thr EXCEPT ![t].at = Beyond(r), ![t].busy = TRUE,
                                       ![t].alloc = @ \/ pt[r].alloc,
                                       ![t].pc = AfterPage(Beyond(r), me.end)]
                 /\ lost' = lost \union Over(r) /\ skipped' = skipped \union Over(r)
                 /\ UNCHANGED stale
           \/ \E r \in Found(me.at) :
                 /\ pt[r].refs = 1
                 /\ pt' = [pt EXCEPT ![r] = NoEntry]
                 /\ thr' = [thr EXCEPT ![t].at = Beyond(r), ![t].page = r, ![t].pc = "inval",
                                       ![t].alloc = @ \/ pt[r].alloc]
                 /\ stale' = stale \ Pages(r.at, r.at + r.size)
                 /\ lost' = (lost \ {r}) \union Over(r)
                 /\ skipped' = (skipped \ {r}) \union Over(r)
        /\ UNCHANGED <<mem, huge, pinned, cached, bufs, held, wedged, count>>

\* vtpInvalHWVAMapping.  When the CSR cannot be written it returns with the
\* mutex locked, and the release goes on behind its loop.
InvalPage(t) ==
    /\ thr[t].pc = "inval" /\ ~wedged
    /\ Shootdown(thr[t].at - thr[t].page.size, pt)
    /\ thr' = [thr EXCEPT ![t].pc = "unpin"]
    /\ UNCHANGED <<mem, huge, pt, pinned, bufs, held, wedged, count, stale, lost, skipped>>

InvalFails(t) ==
    /\ thr[t].pc = "inval" /\ ~wedged /\ count.faults < MaxFaults
    /\ count' = [count EXCEPT !.faults = @ + 1]
    /\ wedged' = TRUE
    /\ thr' = [thr EXCEPT ![t].pc = "break"]
    /\ lost' = lost \union Left(thr[t].at, thr[t].end, 0, 0)
    /\ UNCHANGED <<mem, huge, pt, pinned, cached, bufs, held, stale, skipped>>

\* Mutant: the handle of the 4KB page at the address.
Handle_Small(t) == At(thr[t].page.at, Small)

\* The wsid that was in the entry.
Handle(t) == thr[t].page

UnpinPage(t) ==
    /\ thr[t].pc = "unpin"
    /\ pinned' = [pinned EXCEPT ![Handle(t)] = @ - 1]
    /\ thr' = [thr EXCEPT ![t].pc = AfterPage(thr[t].at, thr[t].end)]
    /\ UNCHANGED <<mem, huge, pt, cached, bufs, held, wedged, count, stale, lost, skipped>>

\* munmap takes no part of a page of hugetlbfs.
Whole(from, size) ==
    \A r \in huge : Meets(r, from, from + size) => from % Large = 0 /\ size % Large = 0

\* Mutant: pages that are still shared do not keep the buffer.
Unmaps_Shared(me) == me.alloc

Unmaps(me) == me.alloc /\ ~me.busy

\* MPF unmaps memory that it mapped, unless some page of it is still shared.
\* The result of munmap is not looked at.
UnmapBuffer(t) ==
    LET me == thr[t]
    IN  /\ \/ me.pc = "unmap" /\ ~wedged
           \/ me.pc = "break"
        /\ IF Unmaps(me) /\ Whole(me.start, me.len)
           THEN Unmapped(me.start, me.start + me.len)
           ELSE UNCHANGED <<mem, huge, stale>>
        /\ thr' = [thr EXCEPT ![t] = Idle]
        /\ UNCHANGED <<pt, pinned, cached, bufs, held, wedged, count, lost, skipped>>

-----------------------------------------------------------------------------
Call(t) ==
    \/ PinFound(t) \/ PinNew(t, Large) \/ PinNew(t, Small) \/ PrepareFails(t) \/ Track(t)
    \/ RemovePage(t) \/ InvalPage(t) \/ InvalFails(t) \/ UnpinPage(t) \/ UnmapBuffer(t)

Next ==
    \/ \E r \in Region : UserMap(r) \/ UserUnmap(r)
    \/ \E t \in Thread :
          \/ \E n \in Lengths : \E a \in Address : Prealloc(t, a, n) \/ Alloc(t, n, a)
          \/ \E h \in BagToSet(held) : Release(t, h)
          \/ Call(t)

Spec == Init /\ [][Next]_vars

-----------------------------------------------------------------------------
(* Properties.                                                             *)

Copies(bag, S) == UNION {{e} \X (1 .. bag[e]) : e \in S}
Sharing(r) == {d \in BagToSet(bufs) : Meets(r, d.start, d.vaddr + d.len)}
InCall(r, t) == LET me == thr[t]
                IN  IF me.pc = "pin" THEN Meets(r, me.start, me.at)
                    ELSE me.pc # "break" /\ Meets(r, me.at, me.end)

\* How many buffers and calls count on the entry.
Users(r) == Cardinality(Copies(bufs, Sharing(r))) + Cardinality({t \in Thread : InCall(r, t)})

\* Every page of a buffer that the user holds has an entry, whichever
\* descriptor its releases took, and no entry counts fewer references than it
\* has users: no release takes a page from another buffer.
HeldPinned ==
    /\ \A h \in BagToSet(held) : \A p \in Pages(h.vaddr, h.vaddr + h.len) : Found(p) # {}
    /\ \A r \in Region : Pinned(r) => pt[r].refs >= Users(r)

\* An entry outlives its users only where a call failed, where an allocated
\* buffer was rounded up and is released by the length that was asked for,
\* where a release stepped over a page, where a release took the smaller of
\* two buffers at one address, or where several small pages of an allocated
\* buffer were counted in one 2MB page that was there.
LeaksExplained ==
    \A r \in Region : Pinned(r) /\ pt[r].refs > Users(r) => r \in lost

\* The memory of a buffer in use stays mapped, although MPF unmaps a buffer
\* that it allocated while the user claims a part of it, unless the release of
\* that buffer stepped over the page and did not see that it is shared.
HeldMapped == ~wedged =>
    \A h \in BagToSet(held) : \A p \in Pages(h.vaddr, h.vaddr + h.len) :
        mem[p] # "free" \/ Found(p) \intersect skipped # {}

\* The entries that a held buffer needs and that were pinned before its present
\* memory was mapped.
Outdated == UNION {UNION {Found(p) : p \in stale \intersect Pages(h.vaddr, h.vaddr + h.len)} :
                      h \in BagToSet(held)}

\* A buffer's translation is that of its present memory, not of what was mapped
\* at its address before, but for entries with a lost reference and for 2MB
\* pages, which are pinned whole for a buffer that needs a part.
OutdatedExplained == \A r \in Outdated : r \in lost \/ r.size = Large

\* The FPGA never caches a translation of memory that is not pinned.
CachedIsPinned == \A r \in cached : pinned[r] > 0

\* What a user or the FPGA still works with is neither unpinned nor unmapped.
InUseKept == TypeOK /\ HeldPinned /\ HeldMapped /\ CachedIsPinned

\* MPF never unmaps memory that the user mapped, and no page that it unmaps is
\* still translated, unless a CSR could not be written, the release stepped over
\* it, or the page lies in a 2MB page that was pinned for a neighbour.
UnmapsItsOwn ==
    [][\A t \in Thread : thr[t].pc \in {"unmap", "break"} /\ thr'[t].pc = "idle" =>
          \A p \in Page : mem[p] # "free" /\ mem'[p] = "free" =>
              /\ mem[p] = "mpf"
              /\ \A r \in Found(p) : wedged \/ r \in skipped \/ r.size = Large]_vars
=============================================================================
