----------------------------- MODULE MmuMonitor -----------------------------
(***************************************************************************)
(* The mmu_monitor kernel driver (drivers/mmu_monitor/mmu_monitor.c).      *)
(*                                                                         *)
(* A process opens /dev/mmu_monitor; every open file is a struct           *)
(* mmu_monitor that registers an MMU notifier for the process.  The kernel *)
(* calls range_start and range_end around each change of the process's     *)
(* mapping.  range_end queues the unmapped ranges and signals an eventfd;  *)
(* the client reads the eventfd and fetches that many events.              *)
(*                                                                         *)
(* The kernel side (munmap, mmap and the notifier calls they make) is a    *)
(* thread like any other: an invalidation is a conversation of several     *)
(* steps that interleaves with the ioctls of the other threads.  A section *)
(* of the driver between mutex_lock and mutex_unlock is one step unless it *)
(* can block or loop inside.                                               *)
(***************************************************************************)
EXTENDS Integers, Sequences, FiniteSets

CONSTANTS
    Monitor,         \* struct mmu_monitor instances, all with the same mm
    Thread,          \* threads of the process
    NPages,          \* the process's address space is the pages 0 .. NPages-1
    QUEUE_MAX_EVT,   \* as in the source: a queue is full above this length
    AllocMayFail,    \* kzalloc and mmu_notifier_register may fail
    Free,            \* mon_list_lock is not held
    NoMonitor        \* a thread is not working on a monitor

ASSUME DriverAssumption ==
    /\ NPages \in Nat \ {0}
    /\ QUEUE_MAX_EVT \in Nat
    /\ AllocMayFail \in BOOLEAN
    /\ NoMonitor \notin Monitor
    /\ Free \notin Thread

VARIABLES
    lock,     \* owner of mon_list_lock
    mon,      \* the monitors' state
    evtfd,    \* counter of the eventfd each monitor's client passed in
    toFetch,  \* events the client has read from the eventfd and not fetched
    mapped,   \* pages covered by a vma
    thr       \* what each thread is doing in the kernel

driverVars == <<lock, mon, evtfd, toFetch, mapped, thr>>

Page  == 0 .. NPages - 1
Event == [start : 0 .. NPages, end : 0 .. NPages]

Pages(lo, hi) == {p \in Page : lo <= p /\ p < hi}

NewMonitor == [state |-> "closed", trigger |-> FALSE, filter |-> FALSE,
               evts |-> <<>>, starts |-> 0, lost |-> {}, owed |-> {}]

Idle == [pc |-> "idle", range |-> [start |-> 0, end |-> 0], blockable |-> TRUE,
         toStart |-> {}, started |-> {}, fd |-> NoMonitor, at |-> 0]

\* start_evt_cnt is an int: it has no lower bound of its own.  lost and owed
\* are history: pages of events that queue_event dropped, and pages found
\* unmapped by a range_end whose event the client has not fetched yet.
MonitorRec ==
    [state : {"closed", "open", "closing"}, trigger : BOOLEAN, filter : BOOLEAN,
     evts : Seq(Event), starts : Int, lost : SUBSET Page, owed : SUBSET Page]

ThreadRec ==
    [pc : {"idle", "open", "state", "start", "end", "filter", "close"},
     range : Event, blockable : BOOLEAN,
     toStart : SUBSET Monitor, started : SUBSET Monitor,
     fd : Monitor \union {NoMonitor}, at : 0 .. NPages]

TypeOK ==
    /\ lock \in Thread \union {Free}
    /\ mon \in [Monitor -> MonitorRec]
    /\ evtfd \in [Monitor -> Nat]
    /\ toFetch \in [Monitor -> Nat]
    /\ mapped \subseteq Page
    /\ thr \in [Thread -> ThreadRec]

Init ==
    /\ lock = Free
    /\ mon = [m \in Monitor |-> NewMonitor]
    /\ evtfd = [m \in Monitor |-> 0]
    /\ toFetch = [m \in Monitor |-> 0]
    /\ mapped = Page
    /\ thr = [t \in Thread |-> Idle]

-----------------------------------------------------------------------------
(* The kernel's side of the notifier protocol.                             *)

\* Threads between the first range_start and the last range_end of an
\* invalidation hold mmap_sem for reading; unmapping takes it for writing.
Invalidating(t) == thr[t].pc \in {"start", "end", "filter"}
MmapSemFree == \A t \in Thread : ~Invalidating(t)

\* Monitors on the mm's notifier list.
Registered == {m \in Monitor : mon[m].state \in {"open", "closing"}}

\* The kernel begins to invalidate a range.  munmap has already removed the
\* vma; other changes (protection, reclaim) leave the range mapped.  Those are
\* taken as non-blockable: such a call may wait for the lock as well as fail.
InvalidateBegin(t, r, unmap) ==
    /\ thr[t].pc = "idle"
    /\ r.start < r.end
    /\ unmap => MmapSemFree
    /\ mapped' = IF unmap THEN mapped \ Pages(r.start, r.end) ELSE mapped
    /\ thr' = [thr EXCEPT ![t] = [Idle EXCEPT !.pc = "start", !.range = r,
                                              !.blockable = unmap,
                                              !.toStart = Registered]]
    /\ UNCHANGED <<lock, mon, evtfd, toFetch>>

\* mmu_invalidate_range_start: count the range as being invalidated.
RangeStart(t, m) ==
    /\ thr[t].pc = "start" /\ m \in thr[t].toStart
    /\ lock = Free
    /\ mon' = [mon EXCEPT ![m].starts = @ + 1]
    /\ thr' = [thr EXCEPT ![t].toStart = @ \ {m}, ![t].started = @ \union {m}]
    /\ UNCHANGED <<lock, evtfd, toFetch, mapped>>

\* mmu_invalidate_range_start, mutex_trylock fails: -EAGAIN.  The kernel gives
\* the invalidation up and calls range_end for the notifiers already started.
RangeStartAgain(t, m) ==
    /\ thr[t].pc = "start" /\ m \in thr[t].toStart
    /\ ~thr[t].blockable /\ lock # Free
    /\ thr' = [thr EXCEPT ![t].toStart = {}, ![t].pc = "end"]
    /\ UNCHANGED <<lock, mon, evtfd, toFetch, mapped>>

StartsDone(t) ==
    /\ thr[t].pc = "start" /\ thr[t].toStart = {}
    /\ thr' = [thr EXCEPT ![t].pc = "end"]
    /\ UNCHANGED <<lock, mon, evtfd, toFetch, mapped>>

-----------------------------------------------------------------------------
(* range_end and the event queue.                                          *)

\* evt_cnt has not passed the limit.
CanQueue(m) == Len(mon[m].evts) <= QUEUE_MAX_EVT

\* mmu_monitor_queue_event and the eventfd_signal that follows its success, on
\* a monitor record r; a failure (-EBUSY, -ENOMEM) is not reported to anyone.
Queued(r, e)  == [r EXCEPT !.evts = Append(@, e)]
Dropped(r, e) == [r EXCEPT !.lost = @ \union Pages(e.start, e.end)]

\* Mutant: the eventfd is signalled whether or not the event was queued.
QueueEvent_AlwaysSignal(m, r, e) ==
    /\ mon' = [mon EXCEPT ![m] = IF CanQueue(m) THEN Queued(r, e) ELSE Dropped(r, e)]
    /\ evtfd' = [evtfd EXCEPT ![m] = @ + 1]

QueueEvent(m, r, e) ==
    \/ /\ CanQueue(m)
       /\ mon' = [mon EXCEPT ![m] = Queued(r, e)]
       /\ evtfd' = [evtfd EXCEPT ![m] = @ + 1]
    \/ /\ ~CanQueue(m) \/ AllocMayFail
       /\ mon' = [mon EXCEPT ![m] = Dropped(r, e)]
       /\ UNCHANGED evtfd

\* The client must learn of the pages of a finished invalidation that have no
\* vma (history).
Owing(r, t) == [r EXCEPT !.owed = @ \union
                    (Pages(thr[t].range.start, thr[t].range.end) \ mapped)]

\* The monitor record past start_evt_cnt--.
Ended(m) == [mon[m] EXCEPT !.starts = @ - 1]

\* Mutant: range_end returns early when there is no trigger.
RangeEndSilent_NoCount(t, m) ==
    /\ thr[t].pc = "end" /\ m \in thr[t].started
    /\ lock = Free /\ ~mon[m].trigger
    /\ thr' = [thr EXCEPT ![t].started = @ \ {m}]
    /\ UNCHANGED <<lock, mon, evtfd, toFetch, mapped>>

\* mmu_invalidate_range_end without a trigger.
RangeEndSilent(t, m) ==
    /\ thr[t].pc = "end" /\ m \in thr[t].started
    /\ lock = Free /\ ~mon[m].trigger
    /\ mon' = [mon EXCEPT ![m] = Ended(m)]
    /\ thr' = [thr EXCEPT ![t].started = @ \ {m}]
    /\ UNCHANGED <<lock, evtfd, toFetch, mapped>>

\* mmu_invalidate_range_end in unfiltered mode: the range as it came.
RangeEndUnfiltered(t, m) ==
    /\ thr[t].pc = "end" /\ m \in thr[t].started
    /\ lock = Free /\ mon[m].trigger /\ ~mon[m].filter
    /\ QueueEvent(m, Owing(Ended(m), t), thr[t].range)
    /\ thr' = [thr EXCEPT ![t].started = @ \ {m}]
    /\ UNCHANGED <<lock, toFetch, mapped>>

\* mmu_invalidate_range_end in filtered mode takes the lock and enters the
\* loop over the vmas.
RangeEndFiltered(t, m) ==
    /\ thr[t].pc = "end" /\ m \in thr[t].started
    /\ lock = Free /\ mon[m].trigger /\ mon[m].filter
    /\ lock' = t
    /\ mon' = [mon EXCEPT ![m] = Ended(m)]
    /\ thr' = [thr EXCEPT ![t].pc = "filter", ![t].started = @ \ {m},
                          ![t].fd = m, ![t].at = thr[t].range.start]
    /\ UNCHANGED <<evtfd, toFetch, mapped>>

\* find_vma(start): the first page at or above a that has a vma, or none.
VmaAtOrAbove(a) == {p \in mapped : a <= p /\ \A q \in mapped : a <= q => p <= q}

\* One turn of the loop that finds a vma: what lies below it is unmapped.  The
\* next turn starts at vm_end.
FilterVma(t, v) ==
    LET m == thr[t].fd
        lo == thr[t].at
        hi == IF v < thr[t].range.end THEN v ELSE thr[t].range.end
    IN  /\ thr[t].pc = "filter" /\ lo < thr[t].range.end
        /\ v \in VmaAtOrAbove(lo)
        /\ IF lo < v THEN QueueEvent(m, mon[m], [start |-> lo, end |-> hi])
                     ELSE UNCHANGED <<mon, evtfd>>
        /\ thr' = [thr EXCEPT ![t].at = v + 1]
        /\ UNCHANGED <<lock, toFetch, mapped>>

\* Mutant: the loop ends at the last vma without reporting what lies above it.
FilterNoVma_Silent(t) ==
    /\ thr[t].pc = "filter" /\ thr[t].at < thr[t].range.end
    /\ VmaAtOrAbove(thr[t].at) = {}
    /\ thr' = [thr EXCEPT ![t].at = thr[t].range.end]
    /\ UNCHANGED <<lock, mon, evtfd, toFetch, mapped>>

\* The turn that finds none reports the rest of the range and leaves the loop.
FilterNoVma(t) ==
    LET m == thr[t].fd
    IN  /\ thr[t].pc = "filter" /\ thr[t].at < thr[t].range.end
        /\ VmaAtOrAbove(thr[t].at) = {}
        /\ QueueEvent(m, mon[m], [start |-> thr[t].at, end |-> thr[t].range.end])
        /\ thr' = [thr EXCEPT ![t].at = thr[t].range.end]
        /\ UNCHANGED <<lock, toFetch, mapped>>

\* Mutant: an exit of the loop that misses mutex_unlock.
FilterDone_KeepsLock(t) ==
    /\ thr[t].pc = "filter" /\ thr[t].at >= thr[t].range.end
    /\ thr' = [thr EXCEPT ![t].pc = "end", ![t].fd = NoMonitor, ![t].at = 0]
    /\ UNCHANGED <<lock, mon, evtfd, toFetch, mapped>>

FilterDone(t) ==
    LET m == thr[t].fd
    IN  /\ thr[t].pc = "filter" /\ thr[t].at >= thr[t].range.end
        /\ lock' = Free
        /\ mon' = [mon EXCEPT ![m] = Owing(@, t)]
        /\ thr' = [thr EXCEPT ![t].pc = "end", ![t].fd = NoMonitor, ![t].at = 0]
        /\ UNCHANGED <<evtfd, toFetch, mapped>>

\* Every monitor has been told: the system call that changed the mapping
\* returns to the thread.
InvalidateEnd(t) ==
    /\ thr[t].pc = "end" /\ thr[t].started = {}
    /\ thr' = [thr EXCEPT ![t] = Idle]
    /\ UNCHANGED <<lock, mon, evtfd, toFetch, mapped>>

\* mmap of an unmapped page (it takes mmap_sem for writing).
Mmap(t, p) ==
    /\ thr[t].pc = "idle" /\ p \notin mapped /\ MmapSemFree
    /\ mapped' = mapped \union {p}
    /\ UNCHANGED <<lock, mon, evtfd, toFetch, thr>>

-----------------------------------------------------------------------------
(* open and release.                                                       *)

\* mmu_monitor_open holds mon_list_lock ...
Open(t, m) ==
    /\ thr[t].pc = "idle" /\ mon[m].state = "closed"
    /\ \A u \in Thread : thr[u].fd # m
    /\ lock = Free
    /\ lock' = t
    /\ thr' = [thr EXCEPT ![t].pc = "open", ![t].fd = m]
    /\ UNCHANGED <<mon, evtfd, toFetch, mapped>>

\* ... while mmu_notifier_register waits for mmap_sem.
OpenRegister(t) ==
    LET m == thr[t].fd
    IN  /\ thr[t].pc = "open" /\ MmapSemFree
        /\ mon' = [mon EXCEPT ![m] = [NewMonitor EXCEPT !.state = "open"]]
        /\ thr' = [thr EXCEPT ![t] = Idle]
        /\ lock' = Free
        /\ UNCHANGED <<evtfd, toFetch, mapped>>

\* register_mmu_monitor returns an error: the file is not opened.
OpenFail(t) ==
    /\ thr[t].pc = "open" /\ AllocMayFail
    /\ thr' = [thr EXCEPT ![t] = Idle]
    /\ lock' = Free
    /\ UNCHANGED <<mon, evtfd, toFetch, mapped>>

\* mmu_monitor_clean_queue: the starts are forgotten with the events, but not
\* when there are none.
Cleaned(r) ==
    IF r.evts = <<>> THEN r ELSE [r EXCEPT !.evts = <<>>, !.starts = 0]

\* unregister_mmu_monitor up to its mutex_unlock.  trigger is put, not cleared.
\* The last reference to the file is gone, so no ioctl is using it.
Release(t, m) ==
    /\ thr[t].pc = "idle" /\ mon[m].state = "open"
    /\ \A u \in Thread : thr[u].pc = "state" => thr[u].fd # m
    /\ lock = Free
    /\ mon' = [mon EXCEPT ![m] = [Cleaned(@) EXCEPT !.state = "closing"]]
    /\ thr' = [thr EXCEPT ![t].pc = "close", ![t].fd = m]
    /\ toFetch' = [toFetch EXCEPT ![m] = 0]
    /\ UNCHANGED <<lock, evtfd, mapped>>

\* Mutant: the monitor is freed without mmu_notifier_unregister.
ReleaseDone_NoUnregister(t) ==
    /\ thr[t].pc = "close"
    /\ mon' = [mon EXCEPT ![thr[t].fd] = NewMonitor]
    /\ evtfd' = [evtfd EXCEPT ![thr[t].fd] = 0]
    /\ thr' = [thr EXCEPT ![t] = Idle]
    /\ UNCHANGED <<lock, toFetch, mapped>>

\* mmu_notifier_unregister waits for the notifier calls that are running; then
\* the monitor is freed and its client closes the eventfd.
ReleaseDone(t) ==
    LET m == thr[t].fd
    IN  /\ thr[t].pc = "close"
        /\ \A u \in Thread : thr[u].pc = "filter" => thr[u].fd # m
        /\ mon' = [mon EXCEPT ![m] = NewMonitor]
        /\ evtfd' = [evtfd EXCEPT ![m] = 0]
        /\ thr' = [u \in Thread |->
                     IF u = t THEN Idle
                     ELSE [thr[u] EXCEPT !.toStart = @ \ {m}, !.started = @ \ {m}]]
        /\ UNCHANGED <<lock, toFetch, mapped>>

-----------------------------------------------------------------------------
(* ioctls, and the eventfd.                                                *)

\* MMU_MON_SET_EVTFD: the old trigger is put; a valid descriptor brings a fresh
\* eventfd and the filter flag.  The queue is left as it is.
SetEvtfd(t, m, valid, filter) ==
    /\ thr[t].pc = "idle" /\ mon[m].state = "open"
    /\ lock = Free
    /\ mon' = [mon EXCEPT ![m].trigger = valid,
                          ![m].filter = IF valid THEN filter ELSE @]
    /\ evtfd' = IF valid THEN [evtfd EXCEPT ![m] = 0] ELSE evtfd
    /\ UNCHANGED <<lock, toFetch, mapped, thr>>

\* The client's read() of the eventfd returns the counter and clears it.
ReadEvtfd(t, m) ==
    /\ thr[t].pc = "idle" /\ mon[m].state = "open"
    /\ evtfd[m] > 0
    /\ toFetch' = [toFetch EXCEPT ![m] = @ + evtfd[m]]
    /\ evtfd' = [evtfd EXCEPT ![m] = 0]
    /\ UNCHANGED <<lock, mon, mapped, thr>>

\* MMU_MON_GET_EVENT takes the oldest event.  On an empty queue the handler
\* returns without mutex_unlock.
FetchEvent(t, m) ==
    /\ lock = Free
    /\ IF mon[m].evts # <<>>
       THEN LET e == Head(mon[m].evts)
            IN  /\ mon' = [mon EXCEPT ![m].evts = Tail(@),
                                      ![m].owed = @ \ Pages(e.start, e.end)]
                /\ UNCHANGED lock
       ELSE lock' = t /\ UNCHANGED mon

\* A client that fetches one event for every count it read, as
\* mpfVtpMonitorMain and test_basic.c do.
GetEvent(t, m) ==
    /\ thr[t].pc = "idle" /\ mon[m].state = "open"
    /\ toFetch[m] > 0
    /\ FetchEvent(t, m)
    /\ toFetch' = [toFetch EXCEPT ![m] = @ - 1]
    /\ UNCHANGED <<evtfd, mapped, thr>>

\* Mutant: the state leaves out the invalidations in progress.
EvtCnt_QueueOnly(m) == Len(mon[m].evts)

\* MMU_MON_GET_STATE answers the number of outstanding events.
EvtCnt(m) == Len(mon[m].evts) + mon[m].starts

GetState(t, m) ==
    /\ thr[t].pc = "idle" /\ mon[m].state = "open"
    /\ thr' = [thr EXCEPT ![t].pc = "state", ![t].fd = m]
    /\ UNCHANGED <<lock, mon, evtfd, toFetch, mapped>>

GetStateReturn(t) ==
    /\ thr[t].pc = "state" /\ lock = Free
    /\ thr' = [thr EXCEPT ![t] = Idle]
    /\ UNCHANGED <<lock, mon, evtfd, toFetch, mapped>>

-----------------------------------------------------------------------------

\* The steps a thread takes by itself once it is inside the kernel.
Handler(t) ==
    \/ \E m \in Monitor : \/ RangeStart(t, m) \/ RangeStartAgain(t, m)
                          \/ RangeEndSilent(t, m) \/ RangeEndUnfiltered(t, m)
                          \/ RangeEndFiltered(t, m)
    \/ StartsDone(t)
    \/ \E v \in Page : FilterVma(t, v)
    \/ FilterNoVma(t) \/ FilterDone(t) \/ InvalidateEnd(t)
    \/ OpenRegister(t) \/ OpenFail(t) \/ ReleaseDone(t) \/ GetStateReturn(t)

\* What the process and the rest of the kernel may ask for.
Request(t) ==
    \/ \E r \in Event, unmap \in BOOLEAN : InvalidateBegin(t, r, unmap)
    \/ \E p \in Page : Mmap(t, p)
    \/ \E m \in Monitor :
          \/ Open(t, m) \/ Release(t, m) \/ GetState(t, m)
          \/ \E valid, filter \in BOOLEAN : SetEvtfd(t, m, valid, filter)

\* What the client's reader does.
Reader(t) == \E m \in Monitor : ReadEvtfd(t, m) \/ GetEvent(t, m)

Next == \E t \in Thread : Handler(t) \/ Request(t) \/ Reader(t)

Spec == Init /\ [][Next]_driverVars

(* Kernel mutexes hand the lock to a waiter, so a handler that is enabled   *)
(* over and over is served: strong fairness for the handlers.               *)
FairSpec == Spec /\ \A t \in Thread : SF_driverVars(Handler(t))

-----------------------------------------------------------------------------
(* Safety.                                                                 *)

\* start_evt_cnt counts exactly the invalidations that are between their
\* range_start and range_end calls on the monitor.
StartCount ==
    \A m \in Monitor : mon[m].state = "open" =>
        mon[m].starts = Cardinality({t \in Thread : m \in thr[t].started})

\* The client never owes more fetches than the queue holds events, so a client
\* that fetches what the eventfd counts never meets the empty-queue path.
EvtfdBacked ==
    \A m \in Monitor : mon[m].state = "open" =>
        evtfd[m] + toFetch[m] <= Len(mon[m].evts)

\* mon_list_lock is held only by a thread that is inside a handler: no handler
\* returns with the lock.
LockReleased == \A t \in Thread : lock = t => thr[t].pc \in {"open", "filter"}

\* Every page that range_end found unmapped is in a queued event until the
\* client fetches it, or its event was dropped: the loop over the vmas misses
\* no part of the range, and nothing else empties the queue.
UnmapReported ==
    \A m \in Monitor : mon[m].state = "open" =>
        \A p \in mon[m].owed \ mon[m].lost :
            \E i \in 1 .. Len(mon[m].evts) :
                p \in Pages(mon[m].evts[i].start, mon[m].evts[i].end)

\* A client that polls GET_STATE (mpfVtpMonitorWaitWhenBusy) and reads 0 has
\* been told of every unmapping up to then, but for dropped events, and no
\* invalidation known to the monitor is still in progress.
ZeroMeansSynced ==
    \A m \in Monitor :
        (mon[m].state = "open" /\ lock = Free /\ EvtCnt(m) = 0) =>
            /\ mon[m].owed \subseteq mon[m].lost
            /\ \A t \in Thread : m \notin thr[t].started

\* What GET_STATE counts is exact, and zero means what the client takes it for.
CountExact == StartCount /\ ZeroMeansSynced

\* The kernel makes no notifier call on a monitor that has been freed.
NoCallAfterFree ==
    \A t \in Thread : \A m \in thr[t].toStart \union thr[t].started :
        mon[m].state # "closed"

(* Liveness.                                                               *)

\* A change of the mapping is never held up for ever by the monitor.
InvalidationsEnd == \A t \in Thread : Invalidating(t) ~> ~Invalidating(t)

\* "An application may poll the driver with MMU_MON_GET_STATE"
\* (mmu_monitor.c:202-203): the poll gets its answer.
GetStateAnswers == \A t \in Thread : thr[t].pc = "state" ~> thr[t].pc # "state"
=============================================================================
