---------------------------- MODULE VtpOnDemand ----------------------------
(***************************************************************************)
(* Pinning pages on demand: libmpf's translation server, its munmap        *)
(* monitor and the application share one page table, while the kernel      *)
(* changes the process's mapping and the FPGA caches translations.         *)
(*                                                                         *)
(* The server takes the FPGA's translation requests in order, waits until  *)
(* the monitor has no event outstanding, pins the page and answers through *)
(* a CSR.  The monitor releases the pages of every unmapped range and      *)
(* shoots their translations down through another CSR.  Both, and the      *)
(* application's own calls, hold the page table's mutex in sections that   *)
(* do not always reach from the check to the use.                          *)
(*                                                                         *)
(* The page table is the set of its terminal entries, the mmu_monitor      *)
(* driver is what its client sees of it (a count of invalidations in       *)
(* progress, a queue, an eventfd), and a buffer is one page.               *)
(***************************************************************************)
EXTENDS Integers, Sequences, FiniteSets

CONSTANTS
    Page,        \* virtual pages
    Frame,       \* physical pages
    App,         \* application threads that call libmpf
    Srv, Mon,    \* the translation server's and the monitor's thread
    Free,        \* the page table's mutex is not held
    Stuck,       \* the mutex was left locked by a call that has returned
    None,        \* no frame, no page
    NotPresent,  \* what the FPGA caches for a failed speculative translation
    Calls,       \* what the application calls: "get", "sync", "try", "buffer"
    MonitorUp,   \* the monitor is running before anything else happens
    MayFail,     \* pinning, CSR writes and opening the monitor may fail
    MaxUnmaps,   \* bound: changes of the mapping
    MaxCsr       \* bound: CSR writes on their way; one more waits for the fabric

Thread == App \union {Srv}

ASSUME OnDemandAssumption ==
    /\ Srv \notin App /\ Mon \notin Thread
    /\ Free \notin Thread \union {Mon} /\ Stuck \notin Thread \union {Mon, Free}
    /\ None \notin Frame \union Page
    /\ NotPresent \notin Frame \union {None}
    /\ Calls \subseteq {"get", "sync", "try", "buffer"}
    /\ MonitorUp \in BOOLEAN /\ MayFail \in BOOLEAN
    /\ MaxUnmaps \in Nat /\ MaxCsr \in Nat \ {0}

VARIABLES
    vm,         \* the process's mapping
    unmapping,  \* the page of a munmap between range_start and range_end
    unmaps,     \* changes of the mapping so far (bound)
    events,     \* the driver's event queue
    evtfd,      \* the eventfd's counter
    monitor,    \* life of the munmap_monitor descriptor
    mon,        \* the monitor thread
    mutex,      \* owner of the page table's mutex
    pt,         \* page table: pinned pages
    pins,       \* how often each frame is pinned for the FPGA
    buffers,    \* buffers the application prepared and has not released
    thr,        \* what each other thread does in libmpf
    ring,       \* translation requests in the server's ring of slots
    reqs,       \* translations that the FPGA waits for, oldest first
    csr,        \* CSR writes on their way to the FPGA
    tlb,        \* translations cached in the FPGA
    synced,     \* history: pages not unmapped since the last mpfVtpSync
    missed,     \* history: pages released while an answer for them was due, or
                \* whose last shootdown failed
    leaked,     \* history: the frame whose pin a failed release left behind
    lost        \* history: an answer was never written
kernelVars == <<vm, unmapping, unmaps, events, evtfd>>
tableVars  == <<pt, pins, buffers>>
fpgaVars   == <<ring, reqs, tlb>>
historyVars == <<synced, missed, leaked, lost>>
vars == <<kernelVars, monitor, mon, mutex, tableVars, thr, fpgaVars, csr, historyVars>>

NoEntry == [frame |-> None, ref |-> 0]
Doing(pc, call, p) == [pc |-> pc, call |-> call, page |-> p, frame |-> None]
Idle    == Doing("idle", "none", None)

Inval(p)  == [kind |-> "inval", page |-> p, frame |-> None]
Answer(p, f) == [kind |-> "rsp", page |-> p, frame |-> f]

Entry    == [frame : Frame \union {None}, ref : Nat]
Req      == [page : Page, spec : BOOLEAN]
CsrWrite == [kind : {"inval", "rsp"}, page : Page, frame : Frame \union {None}]
Activity == [pc : {"idle", "init", "poll", "state", "lookup", "pin", "repin", "inval", "insert",
                   "answer", "forget", "shoot", "write", "unpin", "aborted"},
             call : {"none", "srv", "get", "sync", "try", "prepare", "release"},
             page : Page \union {None}, frame : Frame \union {None}]

TypeOK ==
    /\ vm \in [Page -> Frame \union {None}]
    /\ unmapping \subseteq Page /\ unmaps \in 0 .. MaxUnmaps
    /\ events \in Seq(Page) /\ evtfd \in Nat
    /\ monitor \in {"null", "opening", "up", "failed"}
    /\ mon \in [pc : {"read", "lock", "drain"}, count : Nat]
    /\ mutex \in Thread \union {Mon, Free, Stuck}
    /\ pt \in [Page -> Entry]
    /\ pins \in [Frame -> Nat]
    /\ buffers \in [Page -> Nat]
    /\ thr \in [Thread -> Activity]
    /\ ring \in Seq(Req) /\ reqs \in Seq(Req)
    /\ csr \in Seq(CsrWrite)
    /\ tlb \in [Page -> Frame \union {None, NotPresent}]
    /\ synced \subseteq Page /\ missed \subseteq Page
    /\ leaked \in Frame \union {None} /\ lost \in BOOLEAN

Init ==
    /\ vm \in {m \in [Page -> Frame \union {None}] :
                  \A p, q \in Page : m[p] = m[q] /\ m[p] # None => p = q}
    /\ unmapping = {} /\ unmaps = 0 /\ events = <<>> /\ evtfd = 0
    /\ monitor = IF MonitorUp THEN "up" ELSE "null"
    /\ mon = [pc |-> "read", count |-> 0]
    /\ mutex = Free
    /\ pt = [p \in Page |-> NoEntry]
    /\ pins = [f \in Frame |-> 0]
    /\ buffers = [p \in Page |-> 0]
    /\ thr = [t \in Thread |-> Idle]
    /\ ring = <<>> /\ reqs = <<>> /\ csr = <<>>
    /\ tlb = [p \in Page |-> None]
    /\ synced = Page /\ missed = {} /\ leaked = None /\ lost = FALSE

Has(s, x) == \E i \in 1 .. Len(s) : s[i] = x

-----------------------------------------------------------------------------
(* The application's mapping and the driver.                               *)

Requested(p) == \E i \in 1 .. Len(reqs) : reqs[i].page = p

\* The FPGA accesses the page, whether the server has answered it or not.
InUse(p) == LET r == [page |-> p, spec |-> FALSE] IN Has(ring, r) \/ Has(reqs, r)

\* munmap by an application that keeps the rules: the FPGA does not use the
\* page and no prepared buffer is in it.
Munmap(a, p) ==
    /\ thr[a].pc = "idle" /\ unmaps < MaxUnmaps
    /\ vm[p] # None /\ unmapping = {} /\ ~InUse(p) /\ buffers[p] = 0
    /\ vm' = [vm EXCEPT ![p] = None]
    /\ unmaps' = unmaps + 1
    /\ unmapping' = IF monitor = "up" THEN {p} ELSE {}
    /\ synced' = synced \ {p}
    /\ UNCHANGED <<events, evtfd, monitor, mon, mutex, tableVars, thr, fpgaVars, csr, missed,
                   leaked, lost>>

\* range_end queues the range and signals; munmap returns.
MunmapDone ==
    \E p \in unmapping :
        /\ unmapping' = {}
        /\ events' = Append(events, p)
        /\ evtfd' = evtfd + 1
        /\ UNCHANGED <<vm, unmaps, monitor, mon, mutex, tableVars, thr, fpgaVars, csr, historyVars>>

\* mmap or a first touch after it: a frame that nobody uses.  A pinned frame
\* is still in use.
Mmap(a, p, f) ==
    /\ thr[a].pc = "idle" /\ vm[p] = None /\ unmapping = {}
    /\ pins[f] = 0 /\ \A q \in Page : vm[q] # f
    /\ vm' = [vm EXCEPT ![p] = f]
    /\ UNCHANGED <<unmapping, unmaps, events, evtfd, monitor, mon, mutex, tableVars, thr,
                   fpgaVars, csr, historyVars>>

\* MMU_MON_GET_STATE.
EvtCnt == Len(events) + Cardinality(unmapping)

-----------------------------------------------------------------------------
(* mpfVtpMonitorWaitWhenBusy.                                              *)

At(t, pc) == thr[t].pc = pc
Goto(t, pc) == thr' = [thr EXCEPT ![t].pc = pc]
Return(t)   == thr' = [thr EXCEPT ![t] = Idle]

\* Past the wait: mpfVtpSync returns, the others look the page up.
PastWait(t) == IF thr[t].call \in {"sync", "try"} THEN Return(t) ELSE Goto(t, "lookup")

\* The first call creates the descriptor and starts the monitor; a descriptor
\* whose mon_fd is still 0 means to everybody else that there is no monitor.
Wait(t, call, p) ==
    LET Begin(pc) == thr' = [thr EXCEPT ![t] = Doing(pc, call, p)]
    IN  \/ /\ monitor = "null" /\ monitor' = "opening"
           /\ Begin("init")
        \/ /\ monitor \in {"opening", "failed"} /\ UNCHANGED monitor
           /\ IF call \in {"sync", "try"} THEN Return(t) ELSE Begin("lookup")
        \/ /\ monitor = "up" /\ UNCHANGED monitor
           /\ Begin("poll")

\* mpfVtpMonitorInit: open registers the MMU notifier (it waits for munmap),
\* SET_EVTFD, pthread_create.  mpfVtpPinAndGetIOAddressVec ignores a failure.
MonitorInit(t) ==
    /\ At(t, "init")
    /\ \/ /\ monitor' = "up" /\ Goto(t, "poll")
       \/ /\ MayFail /\ monitor' = "failed" /\ PastWait(t)
    /\ UNCHANGED <<kernelVars, mon, mutex, tableVars, fpgaVars, csr, historyVars>>

PollLock(t) ==
    /\ At(t, "poll") /\ mutex = Free
    /\ mutex' = t /\ Goto(t, "state")
    /\ UNCHANGED <<kernelVars, monitor, mon, tableVars, fpgaVars, csr, historyVars>>

\* Mutant: the monitor's state is read and not waited for.
PollState_Ignored(t) ==
    /\ At(t, "state")
    /\ mutex' = Free
    /\ PastWait(t)
    /\ synced' = (IF thr[t].call = "sync" THEN Page ELSE synced)
    /\ UNCHANGED <<kernelVars, monitor, mon, tableVars, fpgaVars, csr, missed, leaked, lost>>

\* The loop's condition is evtcnt || ! wait_for_sync.
PollState(t) ==
    /\ At(t, "state")
    /\ mutex' = Free
    /\ IF EvtCnt > 0 \/ thr[t].call = "try"
       THEN Goto(t, "poll") /\ UNCHANGED synced
       ELSE PastWait(t) /\ synced' = (IF thr[t].call = "sync" THEN Page ELSE synced)
    /\ UNCHANGED <<kernelVars, monitor, mon, tableVars, fpgaVars, csr, missed, leaked, lost>>

-----------------------------------------------------------------------------
(* mpfVtpPinAndGetIOAddressVec and mpfVtpPrepareBuffer.                    *)

CanWrite == Len(csr) < MaxCsr

\* What a call returns to: the server answers the FPGA, the application goes
\* on.  f is None when the translation failed.
Finish(t, f) ==
    IF t = Srv THEN thr' = [thr EXCEPT ![t].pc = "answer", ![t].frame = f] ELSE Return(t)

\* A prepared buffer is entered in the buffer table (mpfVtpBuffersInsert).
Tracked(t) == IF thr[t].call = "prepare" THEN [buffers EXCEPT ![thr[t].page] = @ + 1]
                                         ELSE buffers

\* mpfVtpPtTranslateVAtoPA under the mutex.  A page found is the answer, and
\* vtpPinRegion counts another reference to it.
LookupHit(t) ==
    LET p == thr[t].page
    IN  /\ At(t, "lookup") /\ mutex = Free
        /\ pt[p] # NoEntry
        /\ pt' = IF thr[t].call = "prepare" THEN [pt EXCEPT ![p].ref = @ + 1] ELSE pt
        /\ buffers' = Tracked(t)
        /\ Finish(t, pt[p].frame)
        /\ UNCHANGED <<kernelVars, monitor, mon, mutex, pins, fpgaVars, csr, historyVars>>

\* Mutant: the page is pinned and inserted without the mutex.
LookupMiss_Unlocked(t) ==
    /\ At(t, "lookup") /\ mutex = Free
    /\ pt[thr[t].page] = NoEntry
    /\ Goto(t, "pin")
    /\ UNCHANGED <<kernelVars, monitor, mon, mutex, tableVars, fpgaVars, csr, historyVars>>

LookupMiss(t) ==
    /\ At(t, "lookup") /\ mutex = Free
    /\ pt[thr[t].page] = NoEntry
    /\ mutex' = t /\ Goto(t, "pin")
    /\ UNCHANGED <<kernelVars, monitor, mon, tableVars, fpgaVars, csr, historyVars>>

\* fpgaPrepareBuffer pins the frame the kernel has at the page now.
PinPage(t) ==
    LET f == vm[thr[t].page]
    IN  /\ thr[t].pc \in {"pin", "repin"} /\ f # None
        /\ pins' = [pins EXCEPT ![f] = @ + 1]
        /\ thr' = [thr EXCEPT ![t].pc = "inval", ![t].frame = f]
        /\ UNCHANGED <<kernelVars, monitor, mon, mutex, pt, buffers, fpgaVars, csr, historyVars>>

\* There is nothing to pin, or no memory may be locked any more.
CannotPin(t) == vm[thr[t].page] = None \/ MayFail

\* Pinning fails.  The server tries a second time, read-only.
PinRetry(t) ==
    /\ At(t, "pin") /\ t = Srv
    /\ CannotPin(t)
    /\ Goto(t, "repin")
    /\ UNCHANGED <<kernelVars, monitor, mon, mutex, tableVars, fpgaVars, csr, historyVars>>

PinFail(t) ==
    /\ At(t, IF t = Srv THEN "repin" ELSE "pin")
    /\ CannotPin(t)
    /\ mutex' = Free
    /\ Finish(t, None)
    /\ UNCHANGED <<kernelVars, monitor, mon, tableVars, fpgaVars, csr, historyVars>>

\* vtpInvalHWVAMapping before the entry is made: the FPGA may hold a failed
\* speculation.
PinInval(t) ==
    /\ At(t, "inval") /\ CanWrite
    /\ csr' = Append(csr, Inval(thr[t].page))
    /\ Goto(t, "insert")
    /\ UNCHANGED <<kernelVars, monitor, mon, mutex, tableVars, fpgaVars, historyVars>>

\* mpfVtpPtInsertPageMapping, and the mutex is released.
PinInsert(t) ==
    /\ At(t, "insert")
    /\ pt' = [pt EXCEPT ![thr[t].page] = [frame |-> thr[t].frame, ref |-> 1]]
    /\ mutex' = Free
    /\ buffers' = Tracked(t)
    /\ Finish(t, thr[t].frame)
    /\ UNCHANGED <<kernelVars, monitor, mon, pins, fpgaVars, csr, historyVars>>

Undoing(t) == MayFail /\ thr[t].pc \in {"inval", "insert"}

\* Mutant: an error after the page was pinned keeps it pinned.
PinUndo_Leaks(t) ==
    /\ Undoing(t)
    /\ mutex' = Free
    /\ Finish(t, None)
    /\ UNCHANGED <<kernelVars, monitor, mon, tableVars, fpgaVars, csr, historyVars>>

\* Mutant: the callee and its caller both unpin.
PinUndo_Twice(t) ==
    /\ Undoing(t)
    /\ pins' = [pins EXCEPT ![thr[t].frame] = @ - 2]
    /\ mutex' = Free
    /\ Finish(t, None)
    /\ UNCHANGED <<kernelVars, monitor, mon, pt, buffers, fpgaVars, csr, historyVars>>

\* Mutant: the error path returns without releasing the mutex.
PinUndo_KeepsMutex(t) ==
    /\ Undoing(t)
    /\ pins' = [pins EXCEPT ![thr[t].frame] = @ - 1]
    /\ Finish(t, None)
    /\ UNCHANGED <<kernelVars, monitor, mon, mutex, pt, buffers, fpgaVars, csr, historyVars>>

\* An error after the page was pinned (the shootdown cannot be written, no I/O
\* address, no memory for a node of the table): fail_post_pinning unpins it.
PinUndo(t) ==
    /\ Undoing(t)
    /\ pins' = [pins EXCEPT ![thr[t].frame] = @ - 1]
    /\ mutex' = Free
    /\ Finish(t, None)
    /\ UNCHANGED <<kernelVars, monitor, mon, pt, buffers, fpgaVars, csr, historyVars>>

-----------------------------------------------------------------------------
(* mpfVtpReleaseBuffer: three sections, the mutex is not held between them. *)

\* mpfVtpPtRemovePageMapping.  A page that is not in the table ends the call.
ReleaseEntry(t) ==
    LET p == thr[t].page
    IN  /\ At(t, "forget") /\ mutex = Free
        /\ IF pt[p].ref = 1
           THEN /\ pt' = [pt EXCEPT ![p] = NoEntry]
                /\ thr' = [thr EXCEPT ![t].pc = "shoot", ![t].frame = pt[p].frame]
           ELSE /\ pt' = [pt EXCEPT ![p].ref = IF @ > 1 THEN @ - 1 ELSE 0]
                /\ Return(t)
        /\ UNCHANGED <<kernelVars, monitor, mon, mutex, pins, buffers, fpgaVars, csr, historyVars>>

\* The server has a translation of p in hand that the FPGA has not seen.
AnswerDue(p) == thr[Srv].pc = "answer" /\ thr[Srv].page = p /\ thr[Srv].frame # None

\* The CSR write of a shootdown.  It is ordered after every answer for p, or p
\* is a missed page.
ShotDown(p) ==
    /\ CanWrite
    /\ csr' = Append(csr, Inval(p))
    /\ missed' = IF AnswerDue(p) THEN missed \union {p} ELSE missed \ {p}

\* The write fails.
NotShotDown(p) ==
    /\ MayFail
    /\ missed' = missed \union {p}
    /\ UNCHANGED csr

ReleaseLock(t) ==
    /\ At(t, "shoot") /\ mutex = Free
    /\ mutex' = t /\ Goto(t, "write")
    /\ UNCHANGED <<kernelVars, monitor, mon, tableVars, fpgaVars, csr, historyVars>>

ReleaseInval(t) ==
    /\ At(t, "write")
    /\ ShotDown(thr[t].page)
    /\ mutex' = Free /\ Goto(t, "unpin")
    /\ UNCHANGED <<kernelVars, monitor, mon, tableVars, fpgaVars, synced, leaked, lost>>

\* vtpInvalHWVAMapping returns without releasing the mutex, and the release ends
\* before fpgaReleaseBuffer.
ReleaseInvalFails(t) ==
    /\ At(t, "write")
    /\ NotShotDown(thr[t].page)
    /\ mutex' = Stuck /\ leaked' = thr[t].frame
    /\ Return(t)
    /\ UNCHANGED <<kernelVars, monitor, mon, tableVars, fpgaVars, synced, lost>>

ReleasePin(t) ==
    /\ At(t, "unpin")
    /\ pins' = [pins EXCEPT ![thr[t].frame] = @ - 1]
    /\ Return(t)
    /\ UNCHANGED <<kernelVars, monitor, mon, mutex, pt, buffers, fpgaVars, csr, historyVars>>

-----------------------------------------------------------------------------
(* The monitor thread (mpfVtpMonitorMain).                                 *)

MonRead ==
    /\ mon.pc = "read" /\ evtfd > 0
    /\ mon' = [pc |-> "lock", count |-> evtfd]
    /\ evtfd' = 0
    /\ UNCHANGED <<vm, unmapping, unmaps, events, monitor, mutex, tableVars, thr, fpgaVars,
                   csr, historyVars>>

MonLock ==
    /\ mon.pc = "lock" /\ mutex = Free
    /\ mutex' = Mon /\ mon' = [mon EXCEPT !.pc = "drain"]
    /\ UNCHANGED <<kernelVars, monitor, tableVars, thr, fpgaVars, csr, historyVars>>

\* Mutant: the page is unpinned and removed but not shot down.
MonEvent_NoShoot ==
    LET p == Head(events)
    IN  /\ mon.pc = "drain" /\ mon.count > 0
        /\ mon' = [mon EXCEPT !.count = @ - 1]
        /\ events' = Tail(events)
        /\ IF pt[p] = NoEntry THEN UNCHANGED <<pt, pins>>
           ELSE /\ pins' = [pins EXCEPT ![pt[p].frame] = @ - 1]
                /\ pt' = [pt EXCEPT ![p] = NoEntry]
        /\ UNCHANGED <<vm, unmapping, unmaps, evtfd, monitor, mutex, buffers, thr, fpgaVars,
                       csr, historyVars>>

\* GET_EVENT and mpfVtpPtReleaseRange: only the last reference to a page is
\* shot down, unpinned and removed, and whether the shootdown was written is
\* not looked at.
MonEvent ==
    LET p == Head(events)
    IN  /\ mon.pc = "drain" /\ mon.count > 0
        /\ mon' = [mon EXCEPT !.count = @ - 1]
        /\ events' = Tail(events)
        /\ \/ /\ pt[p] = NoEntry
              /\ UNCHANGED <<pt, pins, csr, missed>>
           \/ /\ pt[p].ref > 1
              /\ pt' = [pt EXCEPT ![p].ref = @ - 1]
              /\ UNCHANGED <<pins, csr, missed>>
           \/ /\ pt[p].ref = 1
              /\ ShotDown(p) \/ NotShotDown(p)
              /\ pins' = [pins EXCEPT ![pt[p].frame] = @ - 1]
              /\ pt' = [pt EXCEPT ![p] = NoEntry]
        /\ UNCHANGED <<vm, unmapping, unmaps, evtfd, monitor, mutex, buffers, thr, fpgaVars,
                       synced, leaked, lost>>

MonUnlock ==
    /\ mon.pc = "drain" /\ mon.count = 0
    /\ mutex' = Free /\ mon' = [pc |-> "read", count |-> 0]
    /\ UNCHANGED <<kernelVars, monitor, tableVars, thr, fpgaVars, csr, historyVars>>

-----------------------------------------------------------------------------
(* Calls of the application.                                               *)

\* mpfVtpPinAndGetIOAddress.
CallGet(a, p) ==
    /\ At(a, "idle") /\ "get" \in Calls
    /\ Wait(a, "get", p)
    /\ UNCHANGED <<kernelVars, mon, mutex, tableVars, fpgaVars, csr, historyVars>>

\* mpfVtpSync, with wait_for_sync or without.  It does nothing when there is
\* no munmap_monitor.
CallSync(a, call) ==
    /\ At(a, "idle") /\ call \in Calls \intersect {"sync", "try"}
    /\ monitor # "null"
    /\ Wait(a, call, None)
    /\ UNCHANGED <<kernelVars, mon, mutex, tableVars, fpgaVars, csr, historyVars>>

\* mpfVtpPrepareBuffer on allocated memory.
CallPrepare(a, p) ==
    /\ At(a, "idle") /\ "buffer" \in Calls
    /\ vm[p] # None /\ buffers[p] < 2
    /\ thr' = [thr EXCEPT ![a] = Doing("lookup", "prepare", p)]
    /\ UNCHANGED <<kernelVars, monitor, mon, mutex, tableVars, fpgaVars, csr, historyVars>>

\* mpfVtpReleaseBuffer takes the buffer out of the buffer table first.
CallRelease(a, p) ==
    /\ At(a, "idle") /\ buffers[p] > 0
    /\ buffers' = [buffers EXCEPT ![p] = @ - 1]
    /\ thr' = [thr EXCEPT ![a] = Doing("forget", "release", p)]
    /\ UNCHANGED <<kernelVars, monitor, mon, mutex, pt, pins, fpgaVars, csr, historyVars>>

-----------------------------------------------------------------------------
(* The translation server (mpfVtpSrvMain).                                 *)

\* Mutant: the server takes the slot behind the oldest one.
SrvTake_WrongSlot ==
    /\ At(Srv, "idle") /\ ring # <<>>
    /\ Wait(Srv, "srv", ring[Len(ring)].page)
    /\ UNCHANGED <<kernelVars, mon, mutex, tableVars, fpgaVars, csr, historyVars>>

SrvTake ==
    /\ At(Srv, "idle") /\ ring # <<>>
    /\ Wait(Srv, "srv", Head(ring).page)
    /\ UNCHANGED <<kernelVars, mon, mutex, tableVars, fpgaVars, csr, historyVars>>

\* Mutant: the server does not answer a failed translation.
SrvAnswer_OnlyGood ==
    /\ At(Srv, "answer") /\ CanWrite
    /\ csr' = IF thr[Srv].frame = None THEN csr
              ELSE Append(csr, Answer(thr[Srv].page, thr[Srv].frame))
    /\ ring' = Tail(ring)
    /\ Return(Srv)
    /\ UNCHANGED <<kernelVars, monitor, mon, mutex, tableVars, reqs, tlb, historyVars>>

\* The answer goes to the FPGA without the mutex, and the slot is cleared,
\* whether the answer could be written or not.  A failure that is not of a
\* speculative request aborts the process.
SrvAnswer ==
    /\ At(Srv, "answer")
    /\ \/ /\ CanWrite /\ UNCHANGED lost
          /\ csr' = Append(csr, Answer(thr[Srv].page, thr[Srv].frame))
       \/ /\ MayFail /\ lost' = TRUE
          /\ UNCHANGED csr
    /\ IF thr[Srv].frame = None /\ ~Head(ring).spec
       THEN Goto(Srv, "aborted") /\ UNCHANGED ring
       ELSE Return(Srv) /\ ring' = Tail(ring)
    /\ UNCHANGED <<kernelVars, monitor, mon, mutex, tableVars, reqs, tlb, synced, missed, leaked>>

-----------------------------------------------------------------------------
(* The FPGA.                                                               *)

\* A request is written to the ring and remembered.
Request(r) == ring' = Append(ring, r) /\ reqs' = Append(reqs, r)

\* A prefetch of a page the FPGA has no translation of.
AskSpeculatively(p) ==
    /\ tlb[p] = None /\ ~Requested(p)
    /\ Request([page |-> p, spec |-> TRUE])
    /\ UNCHANGED <<kernelVars, monitor, mon, mutex, tableVars, thr, tlb, csr, historyVars>>

\* An access to a mapped page misses; a failed speculation is a miss too.
Ask(p) ==
    /\ tlb[p] \in {None, NotPresent} /\ ~Requested(p) /\ vm[p] # None
    /\ Request([page |-> p, spec |-> FALSE])
    /\ UNCHANGED <<kernelVars, monitor, mon, mutex, tableVars, thr, tlb, csr, historyVars>>

\* CSR writes arrive in order.  An answer belongs to the oldest request and is
\* always cached; a shootdown removes what is cached.
Deliver ==
    LET c == Head(csr)
    IN  /\ csr # <<>>
        /\ csr' = Tail(csr)
        /\ IF c.kind = "inval"
           THEN tlb' = [tlb EXCEPT ![c.page] = None] /\ UNCHANGED reqs
           ELSE /\ tlb' = [tlb EXCEPT ![Head(reqs).page] =
                              IF c.frame = None THEN NotPresent ELSE c.frame]
                /\ reqs' = Tail(reqs)
        /\ UNCHANGED <<kernelVars, monitor, mon, mutex, tableVars, thr, ring, historyVars>>

-----------------------------------------------------------------------------
\* Steps of a thread inside libmpf.
Inside(t) ==
    \/ MonitorInit(t) \/ PollLock(t) \/ PollState(t)
    \/ LookupHit(t) \/ LookupMiss(t)
    \/ PinPage(t) \/ PinRetry(t) \/ PinFail(t) \/ PinInval(t) \/ PinInsert(t) \/ PinUndo(t)
    \/ ReleaseEntry(t) \/ ReleaseLock(t) \/ ReleaseInval(t) \/ ReleaseInvalFails(t) \/ ReleasePin(t)

Monitor == MonRead \/ MonLock \/ MonEvent \/ MonUnlock
Server  == SrvTake \/ SrvAnswer

Application(a) ==
    \/ \E p \in Page : \/ Munmap(a, p) \/ CallGet(a, p) \/ CallPrepare(a, p) \/ CallRelease(a, p)
                       \/ \E f \in Frame : Mmap(a, p, f)
    \/ \E call \in {"sync", "try"} : CallSync(a, call)

Fpga == \E p \in Page : AskSpeculatively(p) \/ Ask(p)

Running == thr[Srv].pc # "aborted"

Next ==
    /\ Running
    /\ \/ \E t \in Thread : Inside(t)
       \/ \E a \in App : Application(a)
       \/ Monitor \/ MunmapDone \/ Server \/ Fpga \/ Deliver

Spec == Init /\ [][Next]_vars

(* Threads run, CSR writes arrive and a munmap that began ends.  A CSR      *)
(* write that waits for room on the bus gets it or fails, however many      *)
(* others there are (strong fairness).  The mutex is a default pthread      *)
(* mutex, which promises a waiting thread nothing: weak fairness, and who   *)
(* waits may be passed over for ever (Starved).                             *)
FairSpec ==
    /\ Spec
    /\ \A t \in Thread : /\ WF_vars(Running /\ Inside(t))
                         /\ SF_vars(Running /\ (PinInval(t) \/ PinUndo(t)))
    /\ WF_vars(Running /\ Monitor) /\ SF_vars(Running /\ MonEvent)
    /\ WF_vars(Running /\ Server) /\ SF_vars(Running /\ SrvAnswer)
    /\ WF_vars(Running /\ MunmapDone)
    /\ WF_vars(Running /\ Deliver)

-----------------------------------------------------------------------------
(* Safety.                                                                 *)

Unreported(p) == p \in unmapping \/ Has(events, p)

\* "The monitor protocol requires that any pending events be processed before
\* a new page is pinned" (shim_vtp_monitor.h:67-68): a page table entry whose
\* frame is not the process's any more has an event coming that removes it.
NoStalePin ==
    \A p \in Page : pt[p].frame \notin {None, vm[p]} => Unreported(p)

\* Every pin belongs to an entry of the table or to a call that is making or
\* dropping one, but for the one that a release leaves whose shootdown fails: the
\* mutex is then left locked, so it happens once.
PinsBalanced ==
    /\ \A f \in Frame :
          pins[f] = Cardinality({p \in Page : pt[p].frame = f})
                  + Cardinality({t \in Thread : thr[t].frame = f /\
                                    thr[t].pc \in {"inval", "insert", "shoot", "write", "unpin"}})
                  + (IF leaked = f THEN 1 ELSE 0)
    /\ leaked # None <=> mutex = Stuck

\* No error path but that one leaks a pin, and none drops one twice or leaves a
\* thread halfway.
PinsInv == TypeOK /\ PinsBalanced

\* How many of the first k CSR writes on their way are answers.
AnswersIn(k) == Cardinality({i \in 1 .. k : csr[i].kind = "rsp"})

\* An answer names no page: it belongs to the oldest request of the FPGA.  The
\* answers on their way and the requests in the ring are, in order, what the
\* FPGA waits for, until an answer cannot be written: the server goes on to the
\* next request, and the FPGA takes each later answer for an earlier one.
AnswersMatch ==
    LET n == AnswersIn(Len(csr))
    IN  Running /\ ~lost =>
            /\ Len(reqs) = n + Len(ring)
            /\ \A i \in 1 .. Len(csr) :
                  csr[i].kind = "rsp" => csr[i].page = reqs[AnswersIn(i)].page
            /\ \A k \in 1 .. Len(ring) : ring[k] = reqs[n + k]

\* A page the FPGA uses is answered with the frame the process has there.
UsedPageCurrent ==
    (At(Srv, "answer") /\ ~Head(ring).spec) => thr[Srv].frame \in {vm[thr[Srv].page], None}

\* The server aborts only for a page that is not mapped, which a program that
\* keeps the rules never uses.
NoAbort == Running

\* A translation that is out of date in the FPGA is about to be shot down, or
\* its page was missed when it was released.
StaleExplained ==
    \A p \in Page : tlb[p] \in Frame /\ tlb[p] # vm[p] =>
        Unreported(p) \/ Has(csr, Inval(p)) \/ p \in missed

\* A frame that the FPGA reaches through its cache is pinned, so the kernel
\* cannot give it to anybody else, up to the same exceptions.
CachedMeansPinned ==
    \A p \in Page : tlb[p] \in Frame /\ pins[tlb[p]] = 0 =>
        Has(csr, Inval(p)) \/ p \in missed

\* "The most common use is to ensure that VTP TLB cache invalidations, detected
\* automatically by the VTP monitor service, are complete" (shim_vtp.h:382-384):
\* past mpfVtpSync, and past the CSR writes before it, a page that was not
\* unmapped again has no old translation in the FPGA, but for one that was
\* missed when its page was released.
CurrentAfterSync ==
    \A p \in synced : tlb[p] \in Frame /\ ~Has(csr, Inval(p)) => tlb[p] = vm[p] \/ p \in missed

\* As long as every answer was written, whatever the FPGA has cached is current
\* and pinned, now and past a sync, up to these exceptions.
CacheExplained == ~lost => StaleExplained /\ CachedMeansPinned /\ CurrentAfterSync

(* Liveness.                                                               *)

\* Somebody waits for the mutex for ever though it is free again and again.
Starved ==
    /\ []<>(mutex = Free)
    /\ \/ \E t \in Thread : <>[](thr[t].pc \in {"poll", "lookup", "forget", "shoot"})
       \/ <>[](mon.pc = "lock")

\* Every translation request is answered, whatever the monitor has to do and
\* whatever fails, unless the server aborts the process, an answer could not be
\* written, a failed shootdown left the mutex locked, or a thread is starved.
RequestsAnswered ==
    Starved \/ \A p \in Page : Requested(p) ~> ~Requested(p) \/ ~Running \/ lost \/ mutex = Stuck

\* mpfVtpSync returns when the process does not unmap for ever, with the same
\* exceptions but for the lost answer.
SyncReturns ==
    Starved \/ \A a \in App :
        thr[a].call = "sync" ~> thr[a].call # "sync" \/ ~Running \/ mutex = Stuck
=============================================================================
