# Verification of the Intel FPGA basic building blocks (MPF and VTP)

TLA+ models, TLC configurations and TLAPS proofs for the core of this
repository: the Memory Properties Factory (MPF), above all its virtual to
physical translation (VTP), which lets an FPGA address the memory of a process
by the process's own pointers. Paths below are relative to `src/`.

Abbreviations used here: `libmpf` is `BBB_cci_mpf/sw/src/libmpf`, `rtl` is
`BBB_cci_mpf/hw/rtl`, `vtp` is `rtl/mpf-services/vtp`.

## 1. The system

An accelerator (AFU) sends reads and writes on two channels and receives
responses in any order. MPF is a stack of shims between the AFU and the fabric:
each one adds a property (virtual addresses, ordered responses, ordering of
conflicting accesses, partial writes, mapping of requests to physical links). VTP
is the only one with a large software half.

```
   application threads            translation server        monitor thread
   pin, prepare, release, sync    (mpfVtpSrvMain)           (mpfVtpMonitorMain)
        |                              |    ^                    |      ^
        v                              v    |                    v      | events
   +------------- page table, under one mutex (shim_vtp_pt.c) ------+   | + eventfd
        | shootdowns (CSR)             |    | requests (ring)       |   |
        v                              v    |                       |   mmu_monitor
   FPGA: L1 TLB <-> L2 TLB <-> page walker or translation service       driver
                                                                    ^
   munmap in any thread -> kernel's MMU notifier -------------------+
```

How the parts talk:

* The **mmu_monitor driver** (`drivers/mmu_monitor/mmu_monitor.c`) is called by the
  kernel around each change of the process's mapping, and by the client through
  ioctls and an eventfd. All of it is under one mutex, `mon_list_lock`.
* The **monitor thread** of libmpf reads the eventfd, fetches as many events as it
  counted, and releases the pages of every event.
* The **translation server** takes requests from a ring of slots that the FPGA
  writes, waits until the monitor has nothing outstanding, pins the page and
  answers through a CSR. The answer names no request.
* **Application threads** call the same library: pin on demand, prepare and release
  buffers, wait until the monitor is in step (`mpfVtpSync`).
* All three share the **page table** under one mutex, in sections that do not always
  reach from a check to its use.
* The FPGA caches translations. **Shootdowns** are CSR writes, ordered with answers.

### Components

| component | state | operations | hard behaviour | what makes it correct |
|---|---|---|---|---|
| mmu_monitor driver | list of open files; per file an event queue, a count of invalidations in progress, an eventfd and a filter flag | open, release, range_start, range_end, SET_EVTFD, GET_EVENT, GET_STATE | callbacks interleave with ioctls and with each other; trylock; lock order against mmap_sem; queue limit | each unmapping is reported once or its loss is accounted for; the count is exact; the lock is released; every munmap ends |
| libmpf pinning (`shim_vtp.c`) | process-wide handle, pins | initialise, terminate, pin on demand, prepare, release, shoot down | check before the mutex, answer after it; error paths that unpin or unlock; threads cancelled inside | nothing stale stays pinned; pins neither leak nor drop twice; disconnecting ends |
| munmap monitor (`shim_vtp_monitor.c`) | descriptor, thread | start on first use, wait, drain | lazy start races; a polling loop on the mutex that the thread needs | sync returns, and means what it says |
| translation server (`shim_vtp_srv.c`, `vtp/mpf-vtp-pt/mpf_svc_vtp_pt_sw.sv`) | ring, ring indices at both ends, FIFO of requests in flight | send, answer, clear, deliver, connect, disconnect | no full flag; writes arrive in any order; answers by position | no overwrite; every request is answered once, with its own page |
| page table (`shim_vtp_pt.c`) | radix tree of four levels, search cache | look up, insert, remove, release a range, terminate | caller counts references; nodes are freed or replaced; the cache may outlive a node | the tree is a map from regions to pins |
| buffer tracking (`shim_vtp_buffers.c`) | hash table of buffers | insert, remove | several buffers at one address | release undoes prepare |
| L1/L2 TLB and walker (`vtp/mpf-vtp-tlb-*`, `mpf-vtp-pt`) | cached translations, misses in flight, prefetched lines | look up, fill, invalidate, walk | fills overtaken by invalidations; two page sizes | no translation survives its shootdown |
| response order, ROB (`rtl/cci-mpf-shims/cci_mpf_shim_rsp_order.sv`, `rtl/cci-mpf-prims/cci_mpf_prim_rob.sv`) | ring of entries with toggling valid bits | allocate, fill in any order, drain in order | wrap-around, multi-line requests, almost full | a FIFO for the AFU |
| write ordering, WRO (`rtl/cci-mpf-shims/cci_mpf_shim_wro`) | filters and epochs of active lines | check, insert, remove | check and insert are cycles apart | no two conflicting accesses in flight |
| partial writes | lines being merged | read, merge, write | atomic only through WRO | bytes not written keep their value |
| virtual channel map | mapping and its pending change | map, fence, switch | requests in flight on the old channels | same line, same channel |
| clock crossing, multiplexer | FIFOs, credits, arbiter | cross, arbitrate | back pressure with latency | no overflow, no starvation |
| AAL software (`BBB_cci_mpf/sw/src_aal`), which libmpf replaced | page table with flags at a buffer's ends, free list of nodes, reservation | allocate, free, reset | a hole in the address space between two calls; fallback from large pages; one call takes the lock and the other does not | a buffer translates from end to end and nothing else is freed |
| connection (`libmpf/connect.c`, `csr.c`) | handle, list of features | connect, disconnect | every step may fail; two instances of MPF in one list | a session leaves nothing to the next |
| the rest (CSR reads, statistics, QoS, samples) | | | no protocol of its own | |

`PROJECT.json` lists every component with its files and status, and every hazard
with the line where it bites and the properties that would catch it.

## 2. The modules

| module | models | how state and actions correspond to the code |
|---|---|---|
| `MmuMonitor` | the driver, with the kernel as its environment | one record per open file (`trigger`, `filter`, `evts`, `starts` = `start_evt_cnt`); one record per thread for where it is in the kernel. A section of the driver between lock and unlock is one action, except where it blocks (`mmu_notifier_register`) or loops (the walk over the vmas). An invalidation is a conversation: `InvalidateBegin`, `RangeStart` per file, `RangeEnd*` per file, `InvalidateEnd`. |
| `VtpOnDemand` | server, monitor thread, application threads, the FPGA's cache | `thr[t].pc` is where a thread stands between two sections of the mutex or between two effects. One action per lock section; CSR writes are a FIFO to the FPGA. The driver is what its client sees of it, the page table is the set of its terminal entries. |
| `VtpSrvRing` | ring and answers, both ends | numbers are encoded and decoded as in the code; memory writes are a set (any order), CSR writes a sequence. |
| `TranslationPort` | abstract: the promise of `mpf_vtp_pt_walk_if` | a queue of requests, each answered in order with a translation of its page. `VtpSrvRing` refines it. |
| `VtpPageTable` | the radix tree with the calls libmpf makes on it | `table` maps an entry's position to empty, child or page; a node exists where an entry points to a child; `prev` is the search cache. |
| `PageMap` | abstract: pinned regions with reference counts | `VtpPageTable` refines it (the tree, its nodes and its cache disappear). |
| `VtpBuffers` | prepare and release of buffers of several pages, with the table of buffers | `thr[t]` is a call with its locals; one action per section of the mutex, so calls overlap page by page. `bufs` is a bag of descriptors, `held` what the user has not released. |
| `VtpSession` | connect, the threads' lives, disconnect | `main` is where `mpfConnect` or `mpfDisconnect` is; a thread's `cancel` is a pending `pthread_cancel`, taken at the next wait or I/O. |
| `AalVtp` | the AAL library's `MPFVTP` | `op[t]` is a call with its locals; the table is its two lower levels, a node on the free list keeps the list in its entries as in the code. |
| `RspOrder` | sorted read responses: reorder shim and buffer | one step is one clock cycle; every register has its next value as a function of the present ones. |
| `VtpTlb` | one page's translation in L1, the filter of duplicates, L2, the walker and its cache of lines | one step is one clock cycle; one operator per block (`NextL1`, `NextMiss`, `NextDedup`, `NextL2`, `NextTlb`, `NextWalk`, `NextLines`). |
| `*Proofs` | theorems | see section 6. |
| `MC*` | constants for TLC | no definition of the models is replaced. |

The composition is by contract: `MmuMonitor` shows what `VtpOnDemand` assumes of the
driver (each unmapping is in progress, queued or dropped; zero means nothing is
outstanding; eventfd and queue agree), `VtpSrvRing` shows that the ring is the
ordered port that `VtpOnDemand` uses as `ring` and `reqs`, and `VtpPageTable` shows
that the tree is the map that `VtpOnDemand` and `VtpBuffers` use as `pt`. `VtpTlb` shows
what the single cache of `VtpOnDemand` stands for, and where it is too good.

### Abstractions

*MmuMonitor.* Pages are numbers, a vma is a maximal run of mapped pages. An
invalidation that does not unmap (reclaim, protection) is non-blockable: such a
callback may wait for the lock or give up. `lost` and `owed` are history
variables. The lifetime of the eventfd context (put on release while callbacks may
still signal it) is left out. Newer kernels also call `range_end` on the notifier that
refused; the model has the older ones, which do not.

*VtpOnDemand.* One page size; a buffer is one page; munmap removes one page at a
time; the driver's queue does not overflow here. The FPGA asks for a page only when no
request for it is outstanding (the L2 TLB's filter does this), and issues
speculative requests as it likes. An application unmaps memory only when the FPGA
does not use it: a page with an unanswered access is not unmapped, and neither is a
prepared buffer. Frames that are pinned are not given to anybody else. One event is
handled in one step, since the mutex is held throughout. CSR writes fail at each place
where the code writes one: of an answer, of a shootdown while a page is pinned, released
or unmapped. `Stuck` is the mutex that `vtpInvalHWVAMapping` does not unlock then (only a
release calls it without the mutex). `synced`, `missed`, `leaked` and `lost` are history
variables: pages not unmapped since a sync, pages whose shootdown an answer may follow or
that have not been shot down, the pin of a release that failed, and an answer that was not
written.

*VtpSrvRing.* Connect and disconnect happen with no request outstanding, as the
library does. A reset of the FPGA in the middle is not modelled.

*VtpPageTable.* No physical addresses, no check of alignment, no dump, no in-use
flag, no `mpfVtpPtExtendVecVAtoPA`. (That function ignores its `set_in_use`
argument, although `shim_vtp_pt.h:341-343` says what it does.) Every call is one
step, under the mutex that the callers hold. One turn of `vtpPinRegion`'s loop is two
steps when the large page fails and a small one is tried: `retry` is set in between,
and keeps other calls out as the mutex does. Only preallocated memory is looked up before it
is pinned (`MayPin`), so an allocation may lie where a page was left in the table; that page
is counted, and the new pin's wsid is in no entry (`dropped`, a history variable). `InBounds`
is the run's bound on this, by `MaxRefs` and `MaxDropped`.

*VtpBuffers.* Addresses count units. In the run a unit is a small page and a large
page is three, so that a buffer may begin and end in the middle of a large page. The
munmap monitor does not run. A pin is a count for its region. The hash buckets of the
buffer table are left out: of the descriptors at one address the one of the smallest
length that suffices is taken, as the chain's order gives it. A failing call leaves what
the code leaves, `wedged` being the mutex that `vtpInvalHWVAMapping` does not unlock. A
shootdown takes effect at once, although the CSR write is posted; `VtpOnDemand` has it on
its way. A pin whose wsid is dropped, since the entry was there already, is not counted here
but in `VtpPageTable`.
`stale`, `lost` and `skipped` are history variables: memory that was unmapped below a
pinned page, entries of which a reference was left behind, entries that a release
stepped over.

*VtpSession.* One page, pinned or not; a driver file is a count of events. A page counts as
watched only by a file opened in this session (`Watches`). The program
calls `mpfDisconnect` only when none of its other threads is in libmpf. The first
session may be that of an earlier program, which ended without disconnecting and whose
root pointer, ring address and translations the FPGA remembers.

*AalVtp.* The levels above the last two never lose a node and are left out. Physical
addresses are left out, an ALI buffer is its address and size. The translation that
the FPGA holds is one page at a time, any that the table translates. The write of an
invalidation is posted in the code and takes effect at once here. An ALI buffer that comes at
another address than asked for is given up with an error; the code keeps it allocated
(`cci_mpf_shim_vtp.cpp:371`), and the model forgets it. VTP is off at the beginning, so what
an earlier program left on, met by a reset that cannot be written, is not covered. With one node
for each large page, as in the run, the table never runs out of nodes.

*RspOrder.* Channel 0, sorted, unpacked responses, one line at a time. Data is the
number of the line in its request: whether it is this request's is told by the slot's
history (`OldData`, `OldMeta`). The AFU may keep asking for `Threshold` requests after
it sees the almost-full signal, as the interface allows.

*VtpTlb.* One page is followed, and translations are numbered as they follow each
other. Other pages appear as what they do to it: they displace it in a cache, keep a
queue waiting, or are invalidated (which resets the holds and the cache of lines as
well). The lookup pipeline of L2 is one step; the walk is of one level, so that its one
read of memory is the last one; prefetching of neighbouring lines, the second page size
and failed translations are left out. The filter gives the copies of an answer back in
one step; in the code they follow one per cycle while its input waits. A request of another
page in the filter, or one of this page that does not follow on another with the same flag
for speculation, ends the collection of duplicates (`Takes`); two walks of the page may then be
below the filter. The walker's queue may be full of other pages' requests (`Walks`). The filter's FIFO of
two entries is not bounded here: what would wait in front of it is in it (`miss.svc` is
always taken), and a request is in it once.

## 3. Runs

| run | configuration | question and answer |
|---|---|---|
| `driver_one_file` | one file, two threads, two pages, queue limit 1 | Is the count exact, is every unmapping reported or its loss accounted for, do eventfd and queue agree, is the lock released, is a file freed only when no callback can reach it? Yes. |
| `driver_liveness` | one file, one page, allocations fail, queue limit 0 | Do invalidations end and polls return under fair mutexes? Yes. |
| `driver_two_files_block` | as above with a second file | Does a second open hold up a concurrent munmap? Yes, for ever (finding). |
| `ondemand_safety` | two pages, two frames, one application thread, two unmaps, waiting and non-blocking sync | Is a stale page ever left pinned, is an answer ever paired with another page's request, does the server abort a well-behaved program? No. Is every outdated cached translation accounted for, after a sync as well? Yes. |
| `ondemand_faults` | one page, buffers as well, every failure, monitor started lazily | Do pins stay balanced, is every request answered, and does sync return although its loop takes the mutex without pause? Yes: all pins but the one of a release whose shootdown fails; the last two unless that left the mutex locked, an answer could not be written, or a thread is starved. |
| `table` | three levels of two entries, addresses 0, 1, 2, all owners, three page sizes, three references, one dropped wsid per region, allocations fail | Is the tree well formed, is the cache transparent, is each page's pin kept once, but for those whose wsid is dropped, does the table implement `PageMap`? Yes. |
| `ring` | four slots, FIFO depth two, two pages, speculation | Is no request overwritten, does the channel implement `TranslationPort` with its fairness? Yes. |
| `buffers` | two threads, three buffers of one or two pages in six, one unmapping, one failure | Does a release ever take a page, an entry or memory from another buffer in use? No. Is every entry that outlives its buffers, and every outdated one, among the named cases? Yes. |
| `session` | two sessions, two monitors, one call, one request, one unmapping, one failure each | Does the FPGA ever translate through memory that is not this session's, is memory used after it is freed, does disconnecting end? Only in the named cases. |
| `aal` | three large pages of three small ones, two threads, three buffers, one page of the program, one failure | Does each buffer translate from end to end, does a free stay in its buffer, is every page accounted for? Yes, up to the named cases. |
| `rsp_order` | eight slots, requests of one or two lines, threshold 1 and one cycle of latency | Does the ring fill up, do the alternating bits ever tell the wrong trip, are lines returned in order with their data? No, no, yes. |
| `tlb` | two tags, one change of the page or of another, other pages' requests in the filter and the walker's queue, hold 3, line 1, reset 2 | Does each cache hold the present translation after an invalidation? Yes, but for five coincidences. Is each request answered once? Yes. |

### Bounds

* Two threads are enough for every pair of the driver's sections to interleave; a
  third adds only queueing for the same lock. With `QUEUE_MAX_EVT = 1` the queue holds
  two events (the source compares before it increments), which covers empty, partly full,
  full and dropped. Two pages give ranges with a hole at either end or throughout.
* Two pages and two frames let a page come back with the other frame, or with the
  frame another page had. `MaxUnmaps = 2` allows an unmapping while an earlier one is
  still queued. `MaxCsr = 2` holds a shootdown and an answer in either order, or two of
  a kind; the next write waits, as it does when the fabric pushes back.
* A ring of four slots over a FIFO of two entries and its output register leaves
  one slot over, the least the argument needs, and the indices wrap after four
  requests; the source has 64 slots and depth 8, which leaves more.
* Three levels of two entries have a root, an inner level and leaves: a node freed
  with its parent, a node replaced by a large page, and a page two levels above
  another. Addresses 0 and 1 share a leaf, 2 is in the leaf next to it. Three references
  distinguish last from not last with an allocation counted over a page that another holds;
  one dropped wsid for each region, since a second one changes nothing but the count.
* `VtpBuffers`: three prepares let one buffer overlap two others, or two share an
  address while the third is inside; six pages are two large ones, of the first of which the
  user maps two pages of three, so that a buffer of the library lies next to the user's.
* `VtpSession`: two sessions, so that what one leaves meets the next; two monitors, so
  that the race to start one can leave an orphan. One failure and one unmapping: the
  exceptions stated in the properties each need no more than one.
* `AalVtp`: requests of one page, of a large page and one (a tail that stays small) and of
  two large pages less one (a tail that becomes large). Three nodes, one per large page.
* `RspOrder`: the least ring in which a request of two lines fits above the reserve; both
  trips of the valid bit, and the wrap of either end between the lines of a request.
* `VtpTlb`: one invalidation meets requests, walks and fills at every distance, with two
  requests of which one may join the other. The hold is 3 cycles where the code has 8
  (with 2, `L2Fresh` fails), and the reset 2 where the code has 256. With one tag and
  three changes, hold 8, lines of two cycles and a reset of 3, the same properties hold.

`CHECK_DEADLOCK FALSE` is used where the system may really stop: the server aborts
the process in the runs of `VtpOnDemand` and `VtpSrvRing`, the applications' bounded
calls and unmaps run out in `VtpBuffers`, `VtpSession`, `AalVtp`, and the deadlock of the
two files is the subject of its run. `VtpTlb`'s clock never stops, but its bounded
changes do. Symmetry is used for threads, pages, frames and tags in runs without
liveness. The run of `VtpTlb` has a view: states that differ in a register that is written
before it is read again (`Live`) are one.

### Fairness

* Driver: kernel mutexes hand the lock to a waiter, so a handler that is enabled
  again and again is served: strong fairness per thread. Without it GET_STATE could
  lose to callbacks for ever. Requests and the client's reader are not fair.
* `VtpOnDemand`: threads run, the monitor and the server as well, a CSR write arrives, a
  munmap that began ends (weak fairness). A CSR write that waits for room on the bus gets it
  or fails, although others compete for it (strong fairness, for the steps that write only).
  The page table's mutex is a default pthread mutex (`mpf_os.c:102`), which promises a
  waiting thread nothing, and nothing is assumed of it: that somebody waits for ever although
  the mutex is free again and again is a named exception of the two properties (`Starved`).
  Without the exception TLC finds the polling loop of `mpfVtpSync` starving the monitor that
  would end it. Nothing is assumed of the FPGA's requests or of the applications' calls.
* `VtpSrvRing`: the logic and the server run, and each write in flight arrives: weak
  fairness.
* `VtpSession`: each thread runs on (weak fairness), and one that waits for the mutex
  gets it (strong fairness; an assumption, as the mutex is the same). The user's calls, the
  FPGA's requests and unmappings are not fair.
* `RspOrder` and `VtpTlb` have safety properties only.

## 4. Properties

Where a run checks a conjunction, its name is given first and its parts after it; the
type invariants are parts of these (all are proved).

* *Driver.* `CountExact` (`StartCount`, `ZeroMeansSynced`) and `UnmapReported`: what
  GET_STATE and the queue say is exact, through callbacks that are refused and files opened
  in the middle. `EvtfdBacked`, `LockReleased`: GET_EVENT on an empty queue returns with
  the driver's lock held. A client that fetches what the eventfd counted, as libmpf does,
  never gets there: the properties hold together or not at all. `NoCallAfterFree`: the order
  of unregistering and freeing. Liveness: `InvalidationsEnd`, `GetStateAnswers`.
* *Pinning on demand.* `NoStalePin`: an entry whose frame is not the process's has an event
  coming. `UsedPageCurrent`, `NoAbort`: a page in use is answered with its own frame, and
  the server does not abort a program that keeps the rules. `AnswersMatch`, as long as every answer could be written. `PinsInv`
  (`PinsBalanced`): pins neither leak nor drop twice, but for the one that a release leaves
  when its shootdown fails. `CacheExplained` (`StaleExplained`,
  `CachedMeansPinned`, `CurrentAfterSync`): an outdated or unpinned translation in the FPGA,
  also after a sync, comes from an answer that was due when its page was released, or from
  a shootdown that failed (`missed`). Liveness: `RequestsAnswered`, `SyncReturns`, unless the
  mutex was left locked, an answer was not written, or somebody is starved.
* *Ring.* `NoOverwrite`, `IsPort`, `IsFairPort`.
* *Page table.* `WellFormed` (`Rooted`, `PrevLive`, `PrevTransparent`), `PinsKept` (with
  what is in `dropped`),
  `DemandServed`, `IsPageMap`.
* *Buffers.* `InUseKept` (`HeldPinned`, `HeldMapped`, `CachedIsPinned`): what is in use stays
  pinned and mapped, and what is cached stays pinned. `LeaksExplained`,
  `OutdatedExplained`, `UnmapsItsOwn`: what is left behind, outdated or unmapped is in
  named cases. `OutdatedExplained` is weak: it exempts every 2MB entry and every entry
  that has lost a reference.
* *Session.* `SessionsApart` (`TargetPinned`, `NoOldTranslation`, `NothingPinned`): the order
  of turning VTP on and off, and what is left behind. `NoUseAfterFree`, `MutexReturns`,
  `Watched` (`UnmapsReported`, `PinsWatched`): what cancelled threads, failures and the lazy
  start do. Liveness: `DisconnectEnds`.
* *AAL.* `TableRight` (`TranslatesPinned`, `EntriesFree`, `OnWithRoot`), `BuffersApart`
  (`BuffersMarked`, `FreesItsOwn`), `NothingLost`, `ProgramKept`.
* *Responses.* `NeverFull`, `TestsTheTrip`, `FifoOrder` (`DataIsThere`, `ReturnsInOrder`): the
  reserve behind almost-full, the alternating bit and what the AFU sees.
* *TLB.* `CachesFresh` (`L1Fresh`, `L2Fresh`, `LinesFresh`, `HistoryTrue`): what each cache may
  hold after an invalidation, and that the history of fills names pages that are in the
  TLB. `AnswersRight` (`AnswersFresh`, `AnsweredOnce`): what an answer may be, and that
  the filter neither loses nor repeats one.

Every property, and every part of a conjunction, is accompanied by a mutant of the model,
a plausible bug of the code, that violates it under the same configuration; they stand in
the modules beside the action that they change.

## 5. Findings

**Two open files deadlock** (`mmu_monitor.c:340`). `open` takes `mon_list_lock` and
then `mmap_sem`; callbacks run under `mmap_sem` and take `mon_list_lock`. Run
`driver_two_files_block`.

The properties are stated up to what else the code does that a reader might not
expect. Each case below is reached in the run of its module, and an exception in the
named property stands for it; without the exception the property fails.

*Pinning on demand and the ring.*

* The server looks a page up under the mutex and answers after it; a release, a shootdown
  and a sync fit in between, so a translation may outlive `mpfVtpSync`
  (`shim_vtp.c:1119`, `shim_vtp_srv.c:121`; `missed`).
* When the shootdown of a release cannot be written, the mutex stays locked
  (`shim_vtp.c:719`; `Stuck`) and the page, already out of the table, keeps its pin
  (`shim_vtp.c:908-909`; `leaked`). A shootdown that fails while an unmapped page is released
  is not looked at, and the FPGA keeps the translation (`shim_vtp_pt.c:757`; `missed`).
* Whether an answer was written is not looked at either. The server clears the slot and goes
  on, and the FPGA takes each later answer for an earlier request (`shim_vtp_srv.c:121`; `lost`).
* A release unpins inside an `assert` (`shim_vtp.c:913`), so that a library built with `NDEBUG`
  would keep every pin; the models have the build that the CMake files make by default.
* The mutex need not be given to who waits: `mpfVtpSync` may poll for ever while the monitor
  waits (`shim_vtp_monitor.c:252`; `Starved`).
* A prepared buffer may lose its pin to an event about the memory that was at its
  address before (`shim_vtp.c:787`); `NoStalePin` is stated where pages are pinned on demand.
* The non-blocking sync never returns (`shim_vtp_monitor.c:256`); `SyncReturns` is
  about the waiting one.
* A page inside a 1GB page is answered with the start of the 1GB page, as a 4KB page
  (`shim_vtp_srv.c:110`); `VtpSrvRing` is run without giant pages, and its theorem assumes
  none.

*Page table.*

* An empty node two levels below an entry keeps a larger page out, since
  `nodeIsEmpty` looks at one node (`shim_vtp_pt.c:534-545`).
* Memory that the library allocates is pinned without a look at the table (`shim_vtp.c:117`).
  Where an entry was left at the address, that entry is counted, with its old translation, and
  the new pin's wsid is dropped: nobody can unpin it any more (`dropped`).

*Driver.* It puts its eventfd on release without clearing `trigger`, which a callback
before `mmu_notifier_unregister` may still signal (`mmu_monitor.c:325`).

*Buffers.*

* A release goes by the length that was asked for, and so leaves the rounded-up tail of a
  buffer that the library allocated; of two buffers at one address it takes the smallest
  that suffices; it steps by the size of the page from an address that need not be at
  the page's start, over pages in between (`shim_vtp.c:918`); and the small pages of a
  buffer that the library allocated are counted one by one in a 2MB entry that is there
  already, which a release counts once (`LeaksExplained`).
* A release that steps over a page does not see that it is shared, and unmaps the
  library's memory under a user's buffer in it (`skipped`, in `HeldMapped` and
  `UnmapsItsOwn`).
* A large page is pinned whole for a buffer in a part of it: when the user unmaps and
  maps the other part, a buffer there gets the old translation (`OutdatedExplained`), and
  the library may unmap memory in it that is still translated (`UnmapsItsOwn`).
* When the CSR of a shootdown cannot be written, the mutex stays locked
  (`shim_vtp.c:719`; `wedged`).

*Session.*

* After that failure, or when the server is cancelled while it reads the page size from
  `/proc` under the mutex (`shim_vtp_srv.c:267`), `mpfDisconnect` waits for ever
  (`MutexGone`).
* Two threads that use VTP for the first time may each start a monitor, of which one is
  never joined, or one may pin without waiting (`shim_vtp_monitor.c:226`; `Orphan`, `early`).
  A thread may poll a monitor whose file was closed because its thread could not be
  started (`PollsClosed`).
* VTP is turned on before the new ring is set, and a prefetch that an earlier session
  left behind goes to the old one (`late`).

*TLB.* An invalidation does not reach a translation that is (`raced`)

1. `deq`: taken from the L1 miss handler's FIFO of responses in the cycle of the pulse or
   the next;
2. `lookup`: looked up in the walker's cache of lines before that is reset, by a walk that
   is accepted one cycle after the pulse;
3. `late`: read from memory for longer than the reset lasts, 256 cycles, and then put in
   the cache of lines;
4. `join`: asked for after the invalidation, but taken for a duplicate of a request from
   before it;
5. `check`: killed in its CHECK cycle, but entered in the history of fills, so that later
   fills of the page are dropped until another takes its place (this one loses hits, not
   freshness).

*AAL.*

* When the last large page falls back to small ones, the flag for the buffer's start was
  set already and goes to the highest of them too, which is not the first page of the
  buffer (`BuffersMarked`).
* `bufferFree` accepts any address inside the first large page (`cci_mpf_shim_vtp.cpp:391`),
  and then steps through the pages from there; the run and the theorems are about callers
  that give the address they were given (`Offsets`).
* The `mmap` that restores a reservation's page is at a fixed address, and takes away
  a mapping that another thread made in the hole (`cci_mpf_shim_vtp.cpp:299`; `ProgramKept`).
* A failing `bufferAllocate` keeps its pages and its reservation, a CSR that fails ends
  `bufferFree` in the middle (`NothingLost`), and `Release` frees nothing.
* An error number returned as `btBool` counts as true, so that a reset that failed counts
  as done; VTP is then off (`OnWithRoot`).

## 6. Proofs

All theorems are proved by TLAPS (SMT, Zenon, LS4) for every value of the constants
that the named assumptions admit.

| theorem | statement | inductive invariant |
|---|---|---|
| `MmuMonitorProofs!TypeCorrect`, `EventsBacked`, `LockAlwaysReleased`, `NotifierNotFreed` | `Spec => []TypeOK`, `[]EvtfdBacked`, `[]LockReleased`, `[]NoCallAfterFree` | `IInv` |
| `MmuMonitorProofs!CountsExactly`, `ReportsUnmapped` | `Spec => []CountExact`, `[]UnmapReported` | `DInv`: `IInv /\ CountInv /\ ReportInv` |
| `VtpOnDemandProofs!NoStalePinning` | `OnDemandOnly => (Spec => []NoStalePin)` | `TableInv` |
| `VtpOnDemandProofs!UsedPagesAnswered` | `OnDemandOnly => (Spec => []UsedPageCurrent)` | `TableInv /\ ServerInv` |
| `VtpOnDemandProofs!ServerNeverAborts` | `OnDemandOnly /\ ~MayFail => (Spec => []NoAbort)` | `TableInv /\ ServerInv` |
| `VtpOnDemandProofs!PinsNeverLeak`, `AnswersInOrder` | `Spec => []PinsInv`, `[]AnswersMatch` | `PinInv` |
| `VtpOnDemandProofs!CacheAccounted` | `OnDemandOnly => (Spec => []CacheExplained)` | `ReachInv /\ SyncInv`, given those above |
| `RingProofs!RingTypes`, `NothingOverwritten` | `Spec => []TypeOK`, `[]NoOverwrite` | `RingInv` |
| `RingProofs!ChannelIsPort` | `NoGiantPages => (Spec => IsPort)` | `RingInv` |
| `TranslationProofs!Hanging`, `Pinned` | `PtSpec => []WellFormed`, `[]PinsKept` | `TreeInv` |
| `TranslationProofs!Served`, `Implements` | `PtSpec => DemandServed` (an action property), `PtSpec => IsPageMap` (the refinement) | `TreeInv` |
| `RingProofs!RobTypes`, `NeverFills`, `TestsRightTrip`, `DataBeforeReturn` | `RobSpec => []RobTypeOK`, `[]NeverFull`, `[]TestsTheTrip`, `[]DataIsThere` | `RobInv` |
| `RingProofs!ReturnsFifo` | `RobSpec => []FifoOrder` | `RobInv /\ OrderInv` |
| `TranslationProofs!InvalidationsReach`, `AnswersAreRight` | `Spec => []CachesFresh`, `[]AnswersRight` | `Placed /\ Fresh` |
| `VtpBuffersProofs!BuffersKept`, `LeaksAccounted` | `Spec => []InUseKept`, `[]LeaksExplained` | `BuffersInv` |
| `VtpHistoryProofs!UserMemoryKept`, `TranslationsKnown` | `Spec => UnmapsItsOwn` (an action property), `Spec => []OutdatedExplained` | `HistoryInv` |
| `VtpSessionProofs!Apart`, `MemorySafe`, `MutexSafe`, `PinsAreWatched` | `Spec => []SessionsApart`, `[]NoUseAfterFree`, `[]MutexReturns`, `[]Watched` | `SessionInv` |
| `AalVtpProofs!TableStaysRight`, `BuffersStayApart`, `NothingIsLost` | given `AtStart`: `Spec => []TableRight`, `[]BuffersApart`, `[]NothingLost` | `AalInv` |
| `AalVtpProofs!ProgramIsKept` | given `AtStart`: `Spec => ProgramKept` (an action property) | `AalInv` |

*The driver.* `EvtfdBacked` is not inductive: a file's next client must start with an
eventfd that counts nothing (`Quiet`), which needs that no callback queues an event on
a closed file (`NoCallAfterFree`), which needs that a thread at work on a file agrees
with its state (`FileState`). `LockOwner`, that the lock is held by exactly the threads
in a section that blocks or loops, is kept by GET_EVENT only because of `EvtfdBacked`.
`CountExact` needs that a thread has started a file at most once and only while it
invalidates (`ThreadShape`): then each range_end takes one away from the set that is
counted (`Starters`). `UnmapReported` is about finished callbacks; the loop over the vmas
holds the lock but is several steps, so `LoopReported` says of a loop that has come to a
page that all unmapped pages below it are reported. No step takes a page out of
`Reported` but GET_EVENT, which hands it to the client in the same step.

*Pinning on demand.* `OnDemandOnly` says that the monitor runs and no buffer is
prepared by hand; without either `NoStalePin` is false (the lazy start and the buffers
that lose their pin, section 5).
The argument: the server reads a zero count under the mutex, then gives the mutex up.
An unmapping may begin in between, but then it is `Unreported`, which is all that
`NoStalePin` asks for. A frame that is pinned and not in the table yet must obey the
same rule (`Fresh`). An event removes its page, since no page has a second reference
(`RefOne`), and it may be removed from the queue only by the monitor, which holds the
mutex and so cannot come between pinning and inserting (`Owner`, `Counted`).
For pages in use the rule is stronger (`Settled`): they are not unmapped, so past the
wait nothing is outstanding for them, and the answer is the frame the process has.

*Pins and answers.* These two need no `OnDemandOnly`: buffers, the server and the monitor
interleave, and any call may fail. A pin belongs to a table entry or to a thread at a
place where it owns the frame (`Owning`, `Balanced`); the place is sound because a page
that is being pinned is not in the table and the mutex keeps it so (`Missing`, `Owner`). The
pin that a failed release leaves (`Left`) is one at most, since the mutex that is then locked
for ever is the one that a second release would need (`LeftOnce`).
Answers are matched with requests by counting (`AnswersIn` counts the answers among the
first writes of the CSR channel, and each shootdown keeps its position). `PinInv` has both
parts: an answer keeps the type of the FPGA's cache only because a request waits for it, which
is true with lost answers as well (`Enough`).
`CacheExplained` follows a translation back from the cache to the answer that
brought it and to the server that is about to give it (`Reaches`); whatever reaches the
FPGA is in the table, or its page was released in the meantime (`missed`). A page that was
synced has nothing unreported (`SyncInv`).

*The ring.* `Live` is the number of slots that are not free, counted from the server's
slot; it is what the FIFO holds, less the answers on their way, plus one while the
server has answered a slot but not cleared it. `Counts` ties the FPGA's index to it,
`Unused` says that the slots past it are empty and unwritten, `Held` that the others
hold the requests that the FIFO remembers, in order. The FIFO's capacity, its output
register and the uncleared slot fit in the ring by `RingAssumption`, and this is all
that prevents an overwrite. `ChannelIsPort` maps each step to a request, a reply or a
stutter; the encodings are inverse (`EncodedRequest`, `EncodedAnswer`).

*The page table.* An entry is a level and the number of its region, so that the tree is
arithmetic: two regions are apart or one is in the other (`Nested`), and ways up that meet
are one (`OneWay`). `TreeInv` says that an entry in use hangs below one that points to its
node (`Rooted`); that every entry above then does, up to the root, is an induction over the
levels, done by taking the lowest one that does not (`Least`, `AllReached`). `PrevLive`, that the remembered
node is live, is what freeing and replacing nodes must keep, and gives that a search from it
stops where one from the root does (`SameStop`). `Implements` maps an entry that is a page
to a region of `PageMap`; that each pin is the table's or a dropped one is `OnePin`, kept because
a page is pinned anew only by `AddPage`, where there is none, or counted with its pin given up
to `dropped`. The step that needs most is an insert that replaces a node by a
large page, which changes no region because the node must be empty.

*The reorder buffer.* `NeverFull` rests on `Delay`: a signal that is still on its way and
says "not full" was true when it was taken, and since then each cycle has added at most
one request; the reserve `(Threshold + Extra) * Beats` covers the cycles until the AFU
sees it (`Latency < Extra`, `RingAssumption`) and the requests after that. With it the ring
is a window of `Used` slots, and a slot is described by its distance from the oldest one
(`Ahead`) and by the bit that says valid there (`Trip`). `Filled`, `Front` and `Flight` say
which slots of the window have data: those that were counted, and none that a line on its
way still waits for. `Bits` ties the stored bits to that, with no reset: a slot that is
returned changes its trip and loses its data in the same cycle. The two pipelines are the
hard part. A line's tag is computed from the ends of a cycle ago (`Behind`), which is right
because a slot that waits is never the last of the window (`WrittenTag`); the bit that
was read two cycles ago is still the tested slot's, except for a write that is bypassed
(`Turns`, `Place`).
`OrderInv` adds what the lines are: those that are due stand, oldest first, in the two
registers of the output and then in the slots of the window (`Pos`), the requests' Mdata
with their first line (`Heads`); a line on its way is the one due at its slot (`Coming`),
and between the first and the last line of a request the shim remembers whose it is
(`Current`).

*The TLBs.* `Placed` has the types and, for each request, the one of 17 places where it is
(`Here`, `Apart`): a step moves it to the next one, and the filter's chains are disjoint
for the requests below the filter, though a chain is not cleared before its number is
used again, and whatever ends the collection: nothing in it needs that one walk of the page at
most is under way. The types themselves need this: a queue is bounded because no request is in it twice. `Fresh`
says of what time each translation is. A translation is `Now` if a request that is made now
may find it, and `Right` for a request if it was in force when the request was made or
later, and is `Now` if L1 would still cache the answer. Each means of the code against
overtaking has its conjunct: a fill that is under way is `Now`, because one that is not can
arrive only while the hold keeps it out (`TlbInv`; the walker's last cycles are
covered by `Hold >= 3`); a walk that may be cached is `Now` (`WalkInv`); a line in the
walker's cache, or on its way there, is older than a request only while the reset comes,
and then the request has not reached the walker (`LinesInv`, which needs `Reset > Line`). What these
miss is a named race, and the proof shows that there are no others. Per-cycle lemmas
(`TlbMoves`, `WalkFields`, `LinesMoves`, ...) state what each block does, one field after the other.

*Buffers.* `BuffersInv` has three layers. `Core` says what the locals of a call are at
each step (`Shapes`), that entries do not overlap (`Disjoint`), that each page a buffer or
a call counts on is in the table (`AllCovered`), and that an entry has at least as many
references as users, and as many unless it is in `lost` (`Counts`). A step changes the users
of one entry, or of those it gives up, and `lost` takes exactly these; the difficulty is
that a call counts on a range of addresses and takes references by entry, so that it must
hold no entry twice: only an allocation may, and then inside one large entry (`OneEntry`).
`PinsKept` has two bounds, so that a translation the FPGA may hold is pinned while a call
is between shootdown and unpinning. `Dominated` counts: at each address there are as
many descriptors as held buffers and as many of at least each length, which is what taking
the smallest descriptor preserves; so each held buffer lies in a descriptor, and
`HeldPinned` follows from `AllCovered`. `Owners` is about the flag that lets the library
unmap: a buffer with such a page in its range, or a call that has met one, owns all its
pages, and no two own the same page. The last layer, `InUse`, holds while no mutex was left
locked: a release that has found nothing shared has left no page in use behind it, but
for those that it stepped over (`LeftBehind`). Without that exception the invariant is
false, as a run on two large pages of three small ones shows, and so was `HeldMapped` before it
named `skipped`. Arithmetic is about multiples of the two page sizes; `%` appears in the
first lemmas only.

*Memory that was unmapped while it was pinned.* A page is in `stale` when its memory went
away below an entry; `StaleLost` says that what is found there has lost a reference or is a
2MB page. Two steps add pages. The first is the end of a release: behind it nothing may be left
in the memory that it unmaps but what it stepped over and 2MB pages (`LeftTaken`). Meanwhile
other calls pin, and one that prepares a part of a hugetlbfs page begins at the start of that
page, before its own address. That it puts no small entry there, where a release has been, is
an argument about order: what it finds below its address is the user's memory, in a tracked
buffer, or was stepped over (`StartsKnown`), and that needs to know where buffers start: at the
start of the hugetlbfs page they are in, unless a release stepped over their own first page
before (`HugeStarts`, `StartsRounded`; such a page is the user's or MPF's as a whole,
`HugeWhole`). What a release stepped over has more references than users for ever
(`SkippedSpare`) and is a first part of its 2MB page (`SkippedFirst`); without the latter an
entry could be put before it.
The second step is the user's own `munmap`, of a page that no buffer of the user's has: it
must be in no descriptor either. The pages of a descriptor before its address are in a hugetlbfs
page that stays, or are lost after a failed CSR, or were stepped over (`HeadsKept`); and as to
its end, at a small page that has lost no reference there are no more descriptors than held
buffers, of any length that reaches it (`Answered`). After a failed CSR the order is
gone, and `StartsKnown` with it, but then what a broken release leaves is in `lost`
(`BrokenLost`) and no further entry is made.

*The session.* `SessionInv` says for each step of connecting and disconnecting what may be
there: what is allocated (`Allocated`), what the CSRs hold (`Programmed`), which threads run
and which monitors they know (`Threads`, `Watching`), who holds the mutex (`Locked`) and what
is pinned (`PinnedPage`). The properties follow from it step by step: while VTP is on, `main` is
at one of seven steps, and at the one where the AFU may miss, its target is pinned. The parts
need each other where threads race. Two that start a monitor at once have different
descriptors (`Threads`), so each finds the file of its own open when it goes on to pin;
a thread that finds the other's still without a file has the excuse that `Watched` names. A
file counts only if it was opened in this session (`Watches`), since the thread of an
earlier one has the freed mutex. Nobody holds the mutex while a session is made: that needs
no thread and no monitor with the session's number, which is why `Watching` compares numbers. A
server that is cancelled under the mutex keeps it, and `sizeFd` then stays as it is, because
only the holder changes it.

*The AAL library.* `AtStart` (`Offsets` is `{0}`) says that `bufferFree` is given the address
that `bufferAllocate` returned, which is how the interface is meant. Without it the theorems
are false: an address further up in the first large page passes the test of the start
mark, and the walk then steps over page boundaries.
`bufferAllocate` works under the lock and `bufferFree` without it, page by page, and finds
its end only by a mark in the table. `BuffersApart` therefore needs that the pages from
where a call of `bufferFree` stands to the end of its buffer are all there, with the mark on
the last and only there (`Run`), and that this range meets neither another buffer's nor
that of the call that is making one (`Claims`); the part that is made so far is such a range
from the start, since pages are entered from the top down and the first is the marked one. That the
ranges stay apart rests on what addresses are used for (`Addresses`): a page is pinned only
where the address space is free, and what is pinned is not free until it is given back.
`TranslatesPinned` needs to know what each call has in its hand (`Hands`): a page that is
pinned and not entered, or removed and not given back, is one pin, of one thread. A node that
lost its last page goes to a free list that lives in the nodes themselves; that a node on
the list is in no entry of the root, and on the list once, is `NodesRight`. The moment at
which a root entry points to a node with a node in it is the one between two steps of a
large page's insertion, which only the holder of the lock takes. `Accounted` carries
`NothingLost` through the calls, and `Shapes` the arithmetic of their locals.

**Only model-checked.** All liveness properties, since the prover has no rule for fairness
and `ENABLED`: `InvalidationsEnd`, `GetStateAnswers`, `RequestsAnswered`,
`SyncReturns`, `IsFairPort`, `DisconnectEnds`. Every invariant and every action property that
a passing run checks has a theorem; some under the assumptions that the table names.
What a recursive
definition computes for every input is out of reach of the prover, which cannot
instantiate the library's induction theorems; none of the modules
has one: the walk down the tree is a `CHOOSE` of the level where it stops, and a property
that needs the sum or the selection of a sequence is stated by the cardinality of a set of
positions. Induction over numbers is available in one form, that a set of numbers that is
not empty has a least element.

## 7. Plan

Done: `MmuMonitor`, `VtpOnDemand`, `VtpSrvRing` with `TranslationPort`, `VtpPageTable` with
`PageMap`, `VtpBuffers`, `VtpSession`, `AalVtp`, `RspOrder`, `VtpTlb`, and the theorems
above. Next, in this order:

1. An abstract `UnmapFeed` that `MmuMonitor` refines and `VtpOnDemand` uses.
2. `Wro` (check and insert a few cycles apart), `Pwrite` on top of it, `VcMap`,
   `CcipAsync` and the multiplexer's arbiter.
3. The second page size and the prefetcher of `VtpTlb`.

## 8. Not modelled

Data paths (memories, hashes, replacement policies, statistics), CSR reads, NUMA binding,
the AAL service object and its other shims, the bus adapters for AXI and Avalon, samples,
tests and build files: their protocols are either none or those of the VTP service that is
modelled. Write ordering, partial writes, virtual channels and the clock crossing have
protocols of their own and are in the plan; so are the unsorted mode and the write
responses of the response shim. Of the VTP hardware the port wrapper and the pipelines
that attach translations to requests are left out.

## 9. Running

    tlc -workers 2 -config VtpOnDemand.cfg MCVtpOnDemand.tla
    tlapm VtpOnDemandProofs.tla

`PROJECT.json` names the module and the configuration of every run.
