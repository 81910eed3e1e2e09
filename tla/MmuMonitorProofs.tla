-------------------------- MODULE MmuMonitorProofs --------------------------
(***************************************************************************)
(* Theorems about the mmu_monitor driver, for any number of open files and *)
(* threads, any address space and any queue limit.                         *)
(***************************************************************************)
EXTENDS MmuMonitor, FiniteSetTheorems, TLAPS

(* A thread that is inside a handler works on a monitor.                   *)
FdOK ==
    \A t \in Thread :
        thr[t].pc \in {"open", "state", "filter", "close"} => thr[t].fd \in Monitor

(* mon_list_lock is owned exactly by the thread in a section that blocks or *)
(* loops while holding it.                                                  *)
LockOwner ==
    \A t \in Thread : lock = t <=> thr[t].pc \in {"open", "filter"}

(* Who is doing what to a monitor agrees with the state of its file.       *)
FileState ==
    \A t \in Thread :
        /\ thr[t].pc = "open" => mon[thr[t].fd].state = "closed"
        /\ thr[t].pc = "filter" => mon[thr[t].fd].state # "closed"
        /\ thr[t].pc = "close" =>
              /\ mon[thr[t].fd].state = "closing"
              /\ \A u \in Thread :
                    thr[u].pc = "close" /\ thr[u].fd = thr[t].fd => u = t

(* The next client of a monitor starts with an eventfd that counts nothing. *)
Quiet ==
    \A m \in Monitor :
        /\ mon[m].state = "closed" => evtfd[m] = 0
        /\ mon[m].state \in {"closed", "closing"} => toFetch[m] = 0

(* The inductive invariant.  EvtfdBacked needs Quiet when a file is opened, *)
(* Quiet needs that no event is queued on a closed file (NoCallAfterFree    *)
(* and FileState), and FetchEvent keeps LockOwner only by EvtfdBacked.      *)
IInv == /\ TypeOK /\ FdOK /\ LockOwner
        /\ FileState /\ NoCallAfterFree /\ Quiet /\ EvtfdBacked

-----------------------------------------------------------------------------
(* What the helpers return.                                                *)

LEMMA PagesType == ASSUME NEW lo, NEW hi PROVE Pages(lo, hi) \subseteq Page
  BY DEF Pages

LEMMA NewMonitorType ==
  /\ NewMonitor \in MonitorRec
  /\ [NewMonitor EXCEPT !.state = "open"] \in MonitorRec
  /\ [NewMonitor EXCEPT !.state = "open"].evts = <<>>
  <1>1. <<>> \in Seq(Event)
    OBVIOUS
  <1>2. NewMonitor \in MonitorRec
    BY <1>1 DEF NewMonitor, MonitorRec
  <1>3. [NewMonitor EXCEPT !.state = "open"].evts = <<>>
    BY DEF NewMonitor
  <1>4. [NewMonitor EXCEPT !.state = "open"] \in MonitorRec
    BY <1>2 DEF MonitorRec
  <1> QED BY <1>2, <1>3, <1>4

LEMMA IdleType ==
  /\ Idle \in ThreadRec
  /\ Idle.pc = "idle"
  BY DriverAssumption DEF Idle, ThreadRec, Event

LEMMA EndedType ==
  ASSUME NEW m \in Monitor, mon[m] \in MonitorRec
  PROVE  /\ Ended(m) \in MonitorRec
         /\ Ended(m).evts = mon[m].evts
         /\ Ended(m).state = mon[m].state
  BY DEF Ended, MonitorRec

LEMMA OwingType ==
  ASSUME NEW r \in MonitorRec, NEW t \in Thread
  PROVE  /\ Owing(r, t) \in MonitorRec
         /\ Owing(r, t).evts = r.evts
         /\ Owing(r, t).state = r.state
  BY PagesType DEF Owing, MonitorRec

LEMMA CleanedRec ==
  ASSUME NEW r \in MonitorRec
  PROVE  Cleaned(r) \in MonitorRec
  <1>1. <<>> \in Seq(Event)
    OBVIOUS
  <1>2. [r EXCEPT !.evts = <<>>] \in MonitorRec
    BY <1>1 DEF MonitorRec
  <1>3. ASSUME NEW q \in MonitorRec PROVE [q EXCEPT !.starts = 0] \in MonitorRec
    BY SMTT(30) DEF MonitorRec
  <1>4. [r EXCEPT !.evts = <<>>, !.starts = 0] = [[r EXCEPT !.evts = <<>>] EXCEPT !.starts = 0]
    BY DEF MonitorRec
  <1> QED BY <1>2, <1>3, <1>4 DEF Cleaned

LEMMA CleanedType ==
  ASSUME NEW r \in MonitorRec
  PROVE  [Cleaned(r) EXCEPT !.state = "closing"] \in MonitorRec
  BY CleanedRec DEF MonitorRec

LEMMA QueuedType ==
  ASSUME NEW r \in MonitorRec, NEW e \in Event
  PROVE  /\ Queued(r, e) \in MonitorRec
         /\ Len(Queued(r, e).evts) = Len(r.evts) + 1
         /\ Queued(r, e).state = r.state
  <1>1. Append(r.evts, e) \in Seq(Event) /\ Len(Append(r.evts, e)) = Len(r.evts) + 1
    BY DEF MonitorRec
  <1> QED BY <1>1 DEF Queued, MonitorRec

LEMMA DroppedType ==
  ASSUME NEW r \in MonitorRec, NEW e \in Event
  PROVE  /\ Dropped(r, e) \in MonitorRec
         /\ Dropped(r, e).evts = r.evts
         /\ Dropped(r, e).state = r.state
  BY PagesType DEF Dropped, MonitorRec

(* queue_event and the signal that follows it keep the eventfd backed.     *)
LEMMA QueueEventBacked ==
  ASSUME TypeOK, EvtfdBacked, Quiet,
         NEW m \in Monitor, NEW r \in MonitorRec, NEW e \in Event,
         r.evts = mon[m].evts, r.state = mon[m].state, r.state # "closed",
         QueueEvent(m, r, e), UNCHANGED toFetch
  PROVE  /\ mon' \in [Monitor -> MonitorRec]
         /\ evtfd' \in [Monitor -> Nat]
         /\ \A k \in Monitor : mon'[k].state = mon[k].state
         /\ EvtfdBacked' /\ Quiet'
  <1>1. Len(r.evts) \in Nat
    BY DEF MonitorRec
  <1>2. CASE mon' = [mon EXCEPT ![m] = Queued(r, e)] /\ evtfd' = [evtfd EXCEPT ![m] = @ + 1]
    <2>1. mon' \in [Monitor -> MonitorRec] /\ evtfd' \in [Monitor -> Nat]
      BY <1>2, QueuedType DEF TypeOK
    <2>2. ASSUME NEW k \in Monitor, mon'[k].state = "open"
          PROVE  evtfd'[k] + toFetch'[k] <= Len(mon'[k].evts)
      <3>1. CASE k = m
        BY <1>1, <1>2, <2>2, <3>1, QueuedType, SMTT(30) DEF TypeOK, EvtfdBacked
      <3>2. CASE k # m
        BY <1>2, <2>2, <3>2 DEF TypeOK, EvtfdBacked
      <3> QED BY <3>1, <3>2
    <2>3. \A k \in Monitor : mon'[k].state = mon[k].state
      BY <1>2, QueuedType DEF TypeOK
    <2>4. Quiet'
      BY <1>2, <2>3 DEF TypeOK, Quiet
    <2> QED BY <2>1, <2>2, <2>3, <2>4 DEF EvtfdBacked
  <1>3. CASE mon' = [mon EXCEPT ![m] = Dropped(r, e)] /\ UNCHANGED evtfd
    <2>1. mon' \in [Monitor -> MonitorRec] /\ evtfd' \in [Monitor -> Nat]
      BY <1>3, DroppedType DEF TypeOK
    <2>2. \A k \in Monitor : mon'[k].state = mon[k].state /\ mon'[k].evts = mon[k].evts
      BY <1>3, DroppedType DEF TypeOK
    <2> QED BY <1>3, <2>1, <2>2 DEF EvtfdBacked, Quiet
  <1> QED BY <1>2, <1>3 DEF QueueEvent

(* A step that changes the state of no file, and by which no thread enters *)
(* a section or learns of a monitor, keeps the files in order.             *)
LEMMA FileFrame ==
  ASSUME TypeOK, FdOK, FileState, NoCallAfterFree,
         \A m \in Monitor : mon'[m].state = mon[m].state,
         \A u \in Thread :
            /\ thr'[u].toStart \subseteq thr[u].toStart
            /\ thr'[u].started \subseteq thr[u].toStart \union thr[u].started
            /\ thr'[u].pc \in {"open", "filter", "close"} =>
                  thr'[u].pc = thr[u].pc /\ thr'[u].fd = thr[u].fd
  PROVE  FileState' /\ NoCallAfterFree'
  <1>1. \A u \in Thread : thr[u].toStart \subseteq Monitor /\ thr[u].started \subseteq Monitor
    BY DEF TypeOK, ThreadRec
  <1>2. NoCallAfterFree'
    BY <1>1 DEF NoCallAfterFree
  <1>3. FileState'
    BY DEF FileState, FdOK
  <1> QED BY <1>2, <1>3

-----------------------------------------------------------------------------
LEMMA InitIInv == Init => IInv
  <1> SUFFICES ASSUME Init PROVE IInv
    OBVIOUS
  <1> USE DEF Init
  <1>1. TypeOK
    <2>1. lock \in Thread \union {Free} /\ mapped \subseteq Page
      OBVIOUS
    <2>2. mon \in [Monitor -> MonitorRec]
      BY NewMonitorType
    <2>3. thr \in [Thread -> ThreadRec]
      BY IdleType
    <2>4. evtfd \in [Monitor -> Nat] /\ toFetch \in [Monitor -> Nat]
      OBVIOUS
    <2> QED BY <2>1, <2>2, <2>3, <2>4 DEF TypeOK
  <1>2. FdOK /\ FileState
    BY IdleType DEF FdOK, FileState
  <1>3. LockOwner
    BY IdleType, DriverAssumption DEF LockOwner
  <1>4. EvtfdBacked /\ Quiet
    BY DEF EvtfdBacked, Quiet, NewMonitor
  <1>5. NoCallAfterFree
    BY DEF NoCallAfterFree, Idle
  <1> QED BY <1>1, <1>2, <1>3, <1>4, <1>5 DEF IInv

(* The kernel's side and the handlers it calls.                            *)
LEMMA RangeSteps ==
  ASSUME IInv, NEW t \in Thread,
         \/ \E m \in Monitor : \/ RangeStart(t, m) \/ RangeStartAgain(t, m)
                               \/ RangeEndSilent(t, m) \/ RangeEndUnfiltered(t, m)
                               \/ RangeEndFiltered(t, m)
         \/ StartsDone(t)
         \/ InvalidateEnd(t)
         \/ \E r \in Event, unmap \in BOOLEAN : InvalidateBegin(t, r, unmap)
         \/ \E p \in Page : Mmap(t, p)
  PROVE  IInv'
  <1> USE DEF IInv
  <1>0. /\ thr[t] \in ThreadRec
        /\ thr[t].range \in Event
        /\ \A m \in Monitor : mon[m] \in MonitorRec
    BY DEF TypeOK, ThreadRec
  <1>1. ASSUME NEW m \in Monitor, RangeStart(t, m) PROVE IInv'
    <2>1. /\ [mon[m] EXCEPT !.starts = @ + 1] \in MonitorRec
          /\ mon' = [mon EXCEPT ![m] = [mon[m] EXCEPT !.starts = @ + 1]]
      <3>1. ASSUME NEW r \in MonitorRec PROVE [r EXCEPT !.starts = @ + 1] \in MonitorRec
        BY DEF MonitorRec
      <3> QED BY <1>0, <1>1, <3>1 DEF RangeStart
    <2>2. mon' \in [Monitor -> MonitorRec]
      BY <2>1 DEF TypeOK
    <2>3. \A k \in Monitor : mon'[k].evts = mon[k].evts /\ mon'[k].state = mon[k].state
      BY <1>0, <2>1 DEF TypeOK, MonitorRec
    <2>4. EvtfdBacked' /\ Quiet'
      BY <1>1, <2>3 DEF RangeStart, EvtfdBacked, Quiet
    <2>5. thr' \in [Thread -> ThreadRec] /\ FdOK' /\ LockOwner'
      <3>1. thr' = [thr EXCEPT ![t].toStart = @ \ {m}, ![t].started = @ \union {m}] /\ lock' = lock
        BY <1>1 DEF RangeStart
      <3>2. thr' \in [Thread -> ThreadRec]
        BY <1>0, <3>1 DEF TypeOK, ThreadRec
      <3>3. \A u \in Thread : thr'[u].pc = thr[u].pc /\ thr'[u].fd = thr[u].fd
        BY <1>0, <3>1 DEF TypeOK, ThreadRec
      <3>4. FdOK' /\ LockOwner'
        BY <3>1, <3>3 DEF FdOK, LockOwner
      <3> QED BY <3>2, <3>4
    <2>6. FileState' /\ NoCallAfterFree'
      BY <1>0, <1>1, <2>3, FileFrame DEF RangeStart, TypeOK, ThreadRec
    <2> QED BY <1>1, <2>2, <2>4, <2>5, <2>6 DEF RangeStart, TypeOK
  <1>2. ASSUME NEW m \in Monitor, RangeStartAgain(t, m) PROVE IInv'
    <2>1. thr' \in [Thread -> ThreadRec] /\ FdOK' /\ LockOwner'
      BY <1>0, <1>2 DEF RangeStartAgain, TypeOK, ThreadRec, FdOK, LockOwner
    <2>2. FileState' /\ NoCallAfterFree'
      BY <1>0, <1>2, FileFrame DEF RangeStartAgain, TypeOK, ThreadRec
    <2> QED BY <1>2, <2>1, <2>2 DEF RangeStartAgain, TypeOK, EvtfdBacked, Quiet
  <1>3. ASSUME NEW m \in Monitor, RangeEndSilent(t, m) PROVE IInv'
    <2>1. mon' \in [Monitor -> MonitorRec]
      BY <1>0, <1>3, EndedType DEF RangeEndSilent, TypeOK
    <2>2. \A k \in Monitor : mon'[k].evts = mon[k].evts /\ mon'[k].state = mon[k].state
      BY <1>0, <1>3, EndedType DEF RangeEndSilent, TypeOK
    <2>3. EvtfdBacked' /\ Quiet'
      BY <1>3, <2>2 DEF RangeEndSilent, EvtfdBacked, Quiet
    <2>4. thr' \in [Thread -> ThreadRec] /\ FdOK' /\ LockOwner'
      BY <1>0, <1>3 DEF RangeEndSilent, TypeOK, ThreadRec, FdOK, LockOwner
    <2>5. FileState' /\ NoCallAfterFree'
      BY <1>0, <1>3, <2>2, FileFrame DEF RangeEndSilent, TypeOK, ThreadRec
    <2> QED BY <1>3, <2>1, <2>3, <2>4, <2>5 DEF RangeEndSilent, TypeOK
  <1>4. ASSUME NEW m \in Monitor, RangeEndUnfiltered(t, m) PROVE IInv'
    <2> DEFINE r == Owing(Ended(m), t)
    <2>1. r \in MonitorRec /\ r.evts = mon[m].evts /\ r.state = mon[m].state
      BY <1>0, EndedType, OwingType
    <2>2. QueueEvent(m, r, thr[t].range) /\ UNCHANGED toFetch /\ r.state # "closed"
      BY <1>4, <2>1 DEF RangeEndUnfiltered, NoCallAfterFree
    <2> HIDE DEF r
    <2>3. /\ mon' \in [Monitor -> MonitorRec] /\ evtfd' \in [Monitor -> Nat]
          /\ \A k \in Monitor : mon'[k].state = mon[k].state
          /\ EvtfdBacked' /\ Quiet'
      BY <1>0, <2>1, <2>2, QueueEventBacked
    <2>4. thr' \in [Thread -> ThreadRec] /\ FdOK' /\ LockOwner'
      BY <1>0, <1>4 DEF RangeEndUnfiltered, TypeOK, ThreadRec, FdOK, LockOwner
    <2>5. FileState' /\ NoCallAfterFree'
      BY <1>0, <1>4, <2>3, FileFrame DEF RangeEndUnfiltered, TypeOK, ThreadRec
    <2> QED BY <1>4, <2>3, <2>4, <2>5 DEF RangeEndUnfiltered, TypeOK
  <1>5. ASSUME NEW m \in Monitor, RangeEndFiltered(t, m) PROVE IInv'
    <2>1. mon' \in [Monitor -> MonitorRec]
      BY <1>0, <1>5, EndedType DEF RangeEndFiltered, TypeOK
    <2>2. \A k \in Monitor : mon'[k].evts = mon[k].evts /\ mon'[k].state = mon[k].state
      BY <1>0, <1>5, EndedType DEF RangeEndFiltered, TypeOK
    <2>3. EvtfdBacked' /\ Quiet'
      BY <1>5, <2>2 DEF RangeEndFiltered, EvtfdBacked, Quiet
    <2>4. thr' \in [Thread -> ThreadRec] /\ FdOK'
      <3>1. /\ thr' = [thr EXCEPT ![t].pc = "filter", ![t].started = @ \ {m},
                                ![t].fd = m, ![t].at = thr[t].range.start]
            /\ m \in Monitor /\ thr[t].range.start \in 0 .. NPages
        BY <1>0, <1>5 DEF RangeEndFiltered, ThreadRec, Event
      <3>2. thr' \in [Thread -> ThreadRec]
        BY <1>0, <3>1 DEF TypeOK, ThreadRec
      <3>3. /\ thr'[t].fd = m
            /\ \A u \in Thread : u # t => thr'[u] = thr[u]
        BY <1>0, <3>1 DEF TypeOK, ThreadRec
      <3> QED BY <3>1, <3>2, <3>3 DEF FdOK
    <2>5. LockOwner'
      BY <1>0, <1>5, DriverAssumption DEF RangeEndFiltered, TypeOK, ThreadRec, LockOwner
    <2>6. /\ thr'[t].pc = "filter" /\ thr'[t].fd = m
          /\ thr'[t].toStart = thr[t].toStart /\ thr'[t].started \subseteq thr[t].started
          /\ \A u \in Thread : u # t => thr'[u] = thr[u]
      <3>1. thr' = [thr EXCEPT ![t].pc = "filter", ![t].started = @ \ {m},
                               ![t].fd = m, ![t].at = thr[t].range.start]
        BY <1>5 DEF RangeEndFiltered
      <3>2. /\ thr'[t].pc = "filter" /\ thr'[t].fd = m
            /\ thr'[t].toStart = thr[t].toStart /\ thr'[t].started = thr[t].started \ {m}
        BY <1>0, <3>1 DEF TypeOK, ThreadRec
      <3>3. \A u \in Thread : u # t => thr'[u] = thr[u]
        BY <3>1 DEF TypeOK
      <3> QED BY <3>2, <3>3
    <2>7. mon[m].state # "closed"
      BY <1>5 DEF RangeEndFiltered, NoCallAfterFree
    <2>8. NoCallAfterFree'
      BY <2>2, <2>6, <2>4 DEF NoCallAfterFree, ThreadRec
    <2>9. FileState'
      BY <2>2, <2>6, <2>7 DEF FileState, FdOK
    <2> QED BY <1>5, <2>1, <2>3, <2>4, <2>5, <2>8, <2>9 DEF RangeEndFiltered, TypeOK
  <1>6. CASE StartsDone(t)
    <2>1. thr' \in [Thread -> ThreadRec] /\ FdOK' /\ LockOwner'
      BY <1>0, <1>6 DEF StartsDone, TypeOK, ThreadRec, FdOK, LockOwner
    <2>2. FileState' /\ NoCallAfterFree'
      BY <1>0, <1>6, FileFrame DEF StartsDone, TypeOK, ThreadRec
    <2> QED BY <1>6, <2>1, <2>2 DEF StartsDone, TypeOK, EvtfdBacked, Quiet
  <1>7. CASE InvalidateEnd(t)
    <2>1. thr' \in [Thread -> ThreadRec] /\ FdOK' /\ LockOwner'
      BY <1>0, <1>7, IdleType DEF InvalidateEnd, TypeOK, FdOK, LockOwner
    <2>2. FileState' /\ NoCallAfterFree'
      BY <1>0, <1>7, FileFrame DEF InvalidateEnd, TypeOK, Idle
    <2> QED BY <1>7, <2>1, <2>2 DEF InvalidateEnd, TypeOK, EvtfdBacked, Quiet
  <1>8. ASSUME NEW r \in Event, NEW unmap \in BOOLEAN, InvalidateBegin(t, r, unmap)
        PROVE  IInv'
    <2>1. /\ thr'[t] \in ThreadRec /\ thr'[t].pc = "start"
          /\ thr'[t].toStart = Registered /\ thr'[t].started = {}
          /\ thr' = [thr EXCEPT ![t] = thr'[t]]
      BY <1>0, <1>8, IdleType DEF InvalidateBegin, TypeOK, ThreadRec, Idle, Registered
    <2>2. thr' \in [Thread -> ThreadRec] /\ FdOK' /\ LockOwner'
      BY <1>0, <1>8, <2>1 DEF InvalidateBegin, TypeOK, FdOK, LockOwner
    <2>3. mapped' \subseteq Page
      BY <1>8 DEF InvalidateBegin, TypeOK
    <2>4. /\ UNCHANGED mon
          /\ \A u \in Thread \ {t} : thr'[u] = thr[u]
      BY <1>8 DEF InvalidateBegin, TypeOK
    <2>5. NoCallAfterFree'
      BY <2>1, <2>4 DEF NoCallAfterFree, Registered
    <2>6. FileState'
      BY <2>1, <2>4 DEF FileState
    <2> QED BY <1>8, <2>2, <2>3, <2>5, <2>6 DEF InvalidateBegin, TypeOK, EvtfdBacked, Quiet
  <1>9. ASSUME NEW p \in Page, Mmap(t, p) PROVE IInv'
    BY <1>9 DEF Mmap, TypeOK, FdOK, LockOwner, EvtfdBacked, FileState, NoCallAfterFree, Quiet
  <1> QED BY <1>1, <1>2, <1>3, <1>4, <1>5, <1>6, <1>7, <1>8, <1>9

(* The loop over the vmas.                                                 *)
LEMMA FilterSteps ==
  ASSUME IInv, NEW t \in Thread,
         \/ \E v \in Page : FilterVma(t, v)
         \/ FilterNoVma(t)
         \/ FilterDone(t)
  PROVE  IInv'
  <1> USE DEF IInv
  <1> DEFINE m == thr[t].fd
             lo == thr[t].at
             top == thr[t].range.end
  <1>0. /\ thr[t] \in ThreadRec
        /\ lo \in 0 .. NPages /\ top \in 0 .. NPages
        /\ thr[t].pc = "filter" =>
              m \in Monitor /\ mon[m] \in MonitorRec /\ mon[m].state # "closed"
    BY DEF TypeOK, ThreadRec, Event, FdOK, FileState
  <1>1. ASSUME NEW v \in Page, FilterVma(t, v) PROVE IInv'
    <2> DEFINE hi == IF v < top THEN v ELSE top
               e == [start |-> lo, end |-> hi]
    <2>1. /\ m \in Monitor /\ mon[m] \in MonitorRec /\ mon[m].state # "closed"
          /\ v \in Nat /\ v + 1 \in 0 .. NPages
          /\ e \in Event
      BY <1>0, <1>1, DriverAssumption DEF FilterVma, Page, Event
    <2>2. /\ mon' \in [Monitor -> MonitorRec] /\ evtfd' \in [Monitor -> Nat]
          /\ \A k \in Monitor : mon'[k].state = mon[k].state
          /\ EvtfdBacked' /\ Quiet'
      <3>1. CASE lo < v
        <4>1. QueueEvent(m, mon[m], e) /\ UNCHANGED toFetch
          BY <1>1, <3>1 DEF FilterVma
        <4> HIDE DEF m, e
        <4> QED BY <2>1, <4>1, QueueEventBacked
      <3>2. CASE ~(lo < v)
        BY <1>1, <3>2 DEF FilterVma, TypeOK, EvtfdBacked, Quiet
      <3> QED BY <3>1, <3>2
    <2>3. thr' \in [Thread -> ThreadRec] /\ FdOK' /\ LockOwner'
      BY <1>0, <1>1, <2>1 DEF FilterVma, TypeOK, ThreadRec, FdOK, LockOwner
    <2>4. FileState' /\ NoCallAfterFree'
      BY <1>0, <1>1, <2>2, FileFrame DEF FilterVma, TypeOK, ThreadRec
    <2> QED BY <1>1, <2>2, <2>3, <2>4 DEF FilterVma, TypeOK
  <1>2. CASE FilterNoVma(t)
    <2> DEFINE e == [start |-> lo, end |-> top]
    <2>1. m \in Monitor /\ mon[m] \in MonitorRec /\ mon[m].state # "closed" /\ e \in Event
      BY <1>0, <1>2 DEF FilterNoVma, Event
    <2>2. /\ mon' \in [Monitor -> MonitorRec] /\ evtfd' \in [Monitor -> Nat]
          /\ \A k \in Monitor : mon'[k].state = mon[k].state
          /\ EvtfdBacked' /\ Quiet'
      <3>1. QueueEvent(m, mon[m], e) /\ UNCHANGED toFetch
        BY <1>2 DEF FilterNoVma
      <3> HIDE DEF m, e
      <3> QED BY <2>1, <3>1, QueueEventBacked
    <2>3. thr' \in [Thread -> ThreadRec] /\ FdOK' /\ LockOwner'
      BY <1>0, <1>2 DEF FilterNoVma, TypeOK, ThreadRec, FdOK, LockOwner
    <2>4. FileState' /\ NoCallAfterFree'
      BY <1>0, <1>2, <2>2, FileFrame DEF FilterNoVma, TypeOK, ThreadRec
    <2> QED BY <1>2, <2>2, <2>3, <2>4 DEF FilterNoVma, TypeOK
  <1>3. CASE FilterDone(t)
    <2>1. /\ m \in Monitor /\ mon[m] \in MonitorRec
          /\ mon' = [mon EXCEPT ![m] = Owing(mon[m], t)]
      BY <1>0, <1>3 DEF FilterDone, TypeOK
    <2>2. /\ mon' \in [Monitor -> MonitorRec]
          /\ \A k \in Monitor : mon'[k].evts = mon[k].evts /\ mon'[k].state = mon[k].state
      BY <1>3, <2>1, OwingType DEF FilterDone, TypeOK
    <2>3. EvtfdBacked' /\ Quiet'
      BY <1>3, <2>2 DEF FilterDone, EvtfdBacked, Quiet
    <2>4. thr' \in [Thread -> ThreadRec] /\ FdOK'
      BY <1>0, <1>3, DriverAssumption DEF FilterDone, TypeOK, ThreadRec, FdOK
    <2>5. LockOwner' /\ lock' \in Thread \union {Free}
      BY <1>0, <1>3, DriverAssumption DEF FilterDone, TypeOK, ThreadRec, LockOwner
    <2>6. FileState' /\ NoCallAfterFree'
      BY <1>0, <1>3, <2>2, FileFrame DEF FilterDone, TypeOK, ThreadRec
    <2> QED BY <1>3, <2>2, <2>3, <2>4, <2>5, <2>6 DEF FilterDone, TypeOK
  <1> QED BY <1>1, <1>2, <1>3

(* open and release.                                                       *)
LEMMA FileSteps ==
  ASSUME IInv, NEW t \in Thread,
         \/ \E m \in Monitor : Open(t, m) \/ Release(t, m)
         \/ OpenRegister(t)
         \/ OpenFail(t)
         \/ ReleaseDone(t)
  PROVE  IInv'
  <1> USE DEF IInv
  <1>0. thr[t] \in ThreadRec /\ \A m \in Monitor : mon[m] \in MonitorRec
    BY DEF TypeOK
  <1>1. ASSUME NEW m \in Monitor, Open(t, m) PROVE IInv'
    <2>1. thr' \in [Thread -> ThreadRec] /\ FdOK'
      BY <1>0, <1>1 DEF Open, TypeOK, ThreadRec, FdOK
    <2>2. LockOwner' /\ lock' \in Thread \union {Free}
      BY <1>0, <1>1, DriverAssumption DEF Open, TypeOK, ThreadRec, LockOwner
    <2>3. /\ thr'[t].pc = "open" /\ thr'[t].fd = m /\ mon' = mon
          /\ thr'[t].toStart = thr[t].toStart /\ thr'[t].started = thr[t].started
          /\ \A u \in Thread : u # t => thr'[u] = thr[u]
      <3>1. thr' = [thr EXCEPT ![t].pc = "open", ![t].fd = m] /\ mon' = mon
        BY <1>1 DEF Open
      <3> QED BY <1>0, <3>1 DEF TypeOK, ThreadRec
    <2>4. mon[m].state = "closed"
      BY <1>1 DEF Open
    <2>5. FileState'
      BY <2>3, <2>4 DEF FileState
    <2>6. NoCallAfterFree'
      BY <2>3 DEF NoCallAfterFree
    <2> QED BY <1>1, <2>1, <2>2, <2>5, <2>6 DEF Open, TypeOK, EvtfdBacked, Quiet
  <1>2. ASSUME NEW m \in Monitor, Release(t, m) PROVE IInv'
    <2> DEFINE r == [Cleaned(mon[m]) EXCEPT !.state = "closing"]
    <2>1. r \in MonitorRec /\ r.state = "closing" /\ mon' = [mon EXCEPT ![m] = r]
      <3>1. r \in MonitorRec
        BY <1>0, CleanedType
      <3>2. r.state = "closing"
        BY <1>0 DEF Cleaned, MonitorRec
      <3> QED BY <1>2, <3>1, <3>2 DEF Release, TypeOK
    <2> HIDE DEF r
    <2>2. /\ mon' \in [Monitor -> MonitorRec] /\ toFetch' \in [Monitor -> Nat]
          /\ EvtfdBacked' /\ Quiet'
      BY <1>2, <2>1 DEF Release, TypeOK, EvtfdBacked, Quiet
    <2>3. thr' \in [Thread -> ThreadRec] /\ FdOK' /\ LockOwner'
      BY <1>0, <1>2 DEF Release, TypeOK, ThreadRec, FdOK, LockOwner
    <2>4. /\ thr'[t].pc = "close" /\ thr'[t].fd = m
          /\ thr'[t].toStart = thr[t].toStart /\ thr'[t].started = thr[t].started
          /\ \A u \in Thread : u # t => thr'[u] = thr[u]
      BY <1>0, <1>2 DEF Release, TypeOK, ThreadRec
    <2>5. mon[m].state = "open" /\ \A k \in Monitor : k # m => mon'[k] = mon[k]
      BY <1>2, <2>1 DEF Release, TypeOK
    <2>6. mon'[m].state = "closing"
      BY <2>1 DEF TypeOK
    <2>7. FileState'
      BY <2>4, <2>5, <2>6 DEF FileState, FdOK
    <2>8. NoCallAfterFree'
      BY <2>3, <2>4, <2>5, <2>6 DEF NoCallAfterFree, ThreadRec
    <2> QED BY <1>2, <2>2, <2>3, <2>7, <2>8 DEF Release, TypeOK
  <1>3. CASE OpenRegister(t)
    <2> DEFINE m == thr[t].fd
    <2>1. /\ m \in Monitor /\ mon[m].state = "closed"
          /\ \A u \in Thread \ {t} : thr[u].pc \notin {"open", "filter"}
      BY <1>3 DEF OpenRegister, FdOK, FileState, LockOwner
    <2>2. /\ mon' \in [Monitor -> MonitorRec]
          /\ mon'[m].state = "open" /\ mon'[m].evts = <<>>
          /\ \A k \in Monitor : k # m => mon'[k] = mon[k]
      BY <1>3, <2>1, NewMonitorType DEF OpenRegister, TypeOK, NewMonitor
    <2>3. thr' \in [Thread -> ThreadRec] /\ FdOK'
      BY <1>3, IdleType DEF OpenRegister, TypeOK, FdOK
    <2>4. LockOwner' /\ lock' \in Thread \union {Free}
      BY <1>0, <1>3, IdleType, DriverAssumption DEF OpenRegister, TypeOK, LockOwner
    <2>5. EvtfdBacked' /\ Quiet'
      <3>1. evtfd' = evtfd /\ toFetch' = toFetch /\ evtfd[m] = 0 /\ toFetch[m] = 0
        BY <1>3, <2>1 DEF OpenRegister, Quiet
      <3>2. Quiet'
        BY <2>2, <3>1 DEF Quiet
      <3>3. Len(mon'[m].evts) = 0
        BY <2>2
      <3> HIDE DEF m
      <3>4. EvtfdBacked'
        BY <2>2, <3>1, <3>3 DEF EvtfdBacked
      <3> QED BY <3>2, <3>4
    <2>6. /\ thr'[t] = Idle
          /\ \A u \in Thread : u # t => thr'[u] = thr[u]
      BY <1>3 DEF OpenRegister, TypeOK
    <2>7. FileState'
      BY <2>1, <2>2, <2>6, IdleType DEF FileState, FdOK
    <2>8. NoCallAfterFree'
      BY <2>2, <2>3, <2>6 DEF NoCallAfterFree, ThreadRec, Idle
    <2> QED BY <1>3, <2>2, <2>3, <2>4, <2>5, <2>7, <2>8 DEF OpenRegister, TypeOK
  <1>4. CASE OpenFail(t)
    <2>1. thr' \in [Thread -> ThreadRec] /\ FdOK'
      BY <1>4, IdleType DEF OpenFail, TypeOK, FdOK
    <2>2. LockOwner' /\ lock' \in Thread \union {Free}
      BY <1>0, <1>4, IdleType, DriverAssumption DEF OpenFail, TypeOK, LockOwner
    <2>3. FileState' /\ NoCallAfterFree'
      BY <1>4, FileFrame DEF OpenFail, TypeOK, Idle
    <2> QED BY <1>4, <2>1, <2>2, <2>3 DEF OpenFail, TypeOK, EvtfdBacked, Quiet
  <1>5. CASE ReleaseDone(t)
    <2> DEFINE m == thr[t].fd
    <2>1. m \in Monitor /\ mon[m].state = "closing" /\ toFetch[m] = 0
      BY <1>5 DEF ReleaseDone, FdOK, FileState, Quiet
    <2>2. /\ mon' \in [Monitor -> MonitorRec] /\ evtfd' \in [Monitor -> Nat]
          /\ mon'[m].state = "closed" /\ evtfd'[m] = 0
          /\ \A k \in Monitor : k # m => mon'[k] = mon[k] /\ evtfd'[k] = evtfd[k]
      BY <1>5, <2>1, NewMonitorType DEF ReleaseDone, TypeOK, NewMonitor
    <2>3. EvtfdBacked' /\ Quiet'
      BY <1>5, <2>1, <2>2 DEF ReleaseDone, EvtfdBacked, Quiet
    <2>4. /\ thr'[t] = Idle
          /\ \A u \in Thread \ {t} :
                /\ thr'[u] \in ThreadRec
                /\ thr'[u].pc = thr[u].pc /\ thr'[u].fd = thr[u].fd
                /\ thr'[u].toStart = thr[u].toStart \ {m}
                /\ thr'[u].started = thr[u].started \ {m}
      <3>1. thr'[t] = Idle
        BY <1>5 DEF ReleaseDone
      <3>2. ASSUME NEW u \in Thread \ {t}
            PROVE  /\ thr'[u] = [thr[u] EXCEPT !.toStart = @ \ {m}, !.started = @ \ {m}]
                   /\ thr[u] \in ThreadRec
        BY <1>5 DEF ReleaseDone, TypeOK
      <3> HIDE DEF m
      <3>3. ASSUME NEW u \in Thread \ {t}
            PROVE  /\ thr'[u] \in ThreadRec
                   /\ thr'[u].pc = thr[u].pc /\ thr'[u].fd = thr[u].fd
                   /\ thr'[u].toStart = thr[u].toStart \ {m}
                   /\ thr'[u].started = thr[u].started \ {m}
        <4> DEFINE q == thr[u]
        <4>1. q \in ThreadRec /\ thr'[u] = [q EXCEPT !.toStart = @ \ {m}, !.started = @ \ {m}]
          BY <3>2
        <4> HIDE DEF q
        <4>2. /\ thr'[u].toStart = q.toStart \ {m} /\ thr'[u].started = q.started \ {m}
              /\ thr'[u] \in ThreadRec /\ thr'[u].pc = q.pc /\ thr'[u].fd = q.fd
          BY <4>1 DEF ThreadRec
        <4> QED BY <4>2 DEF q
      <3> QED BY <3>1, <3>3
    <2>5. thr' \in [Thread -> ThreadRec] /\ FdOK' /\ LockOwner'
      <3>1. thr' \in [Thread -> ThreadRec]
        BY <1>5, <2>4, IdleType DEF ReleaseDone
      <3> QED BY <1>5, <2>4, <3>1, IdleType DEF ReleaseDone, FdOK, LockOwner
    <2>6. FileState'
      <3>1. \A u \in Thread \ {t} :
               thr[u].pc \in {"filter", "close"} => thr[u].fd # m
        BY <1>5 DEF ReleaseDone, FileState
      <3>2. ASSUME NEW u \in Thread, thr'[u].pc \in {"open", "filter", "close"}
            PROVE  /\ u # t /\ thr'[u].pc = thr[u].pc /\ thr'[u].fd = thr[u].fd
                   /\ thr[u].fd \in Monitor
                   /\ thr[u].fd = m => thr[u].pc = "open"
        BY <2>4, <3>1, <3>2, IdleType DEF FdOK
      <3> HIDE DEF m
      <3> QED BY <2>2, <3>2 DEF FileState
    <2>7. NoCallAfterFree'
      <3>1. ASSUME NEW u \in Thread, NEW k \in thr'[u].toStart \union thr'[u].started
            PROVE  mon'[k].state # "closed"
        <4>1. u # t /\ k # m /\ k \in thr[u].toStart \union thr[u].started
          BY <2>4, <3>1 DEF Idle
        <4>2. k \in Monitor
          BY <4>1 DEF TypeOK, ThreadRec
        <4> QED BY <2>2, <4>1, <4>2 DEF NoCallAfterFree
      <3> QED BY <3>1 DEF NoCallAfterFree
    <2> QED BY <1>5, <2>2, <2>3, <2>5, <2>6, <2>7 DEF ReleaseDone, TypeOK
  <1> QED BY <1>1, <1>2, <1>3, <1>4, <1>5

(* ioctls, and the eventfd.                                                *)
LEMMA IoctlSteps ==
  ASSUME IInv, NEW t \in Thread,
         \/ \E m \in Monitor :
               \/ GetState(t, m) \/ ReadEvtfd(t, m) \/ GetEvent(t, m)
               \/ \E valid, filter \in BOOLEAN : SetEvtfd(t, m, valid, filter)
         \/ GetStateReturn(t)
  PROVE  IInv'
  <1> USE DEF IInv
  <1>0. thr[t] \in ThreadRec /\ \A m \in Monitor : mon[m] \in MonitorRec
    BY DEF TypeOK
  <1>1. ASSUME NEW m \in Monitor, GetState(t, m) PROVE IInv'
    <2>1. thr' \in [Thread -> ThreadRec] /\ FdOK' /\ LockOwner'
      BY <1>0, <1>1 DEF GetState, TypeOK, ThreadRec, FdOK, LockOwner
    <2>2. FileState' /\ NoCallAfterFree'
      BY <1>0, <1>1, FileFrame DEF GetState, TypeOK, ThreadRec
    <2> QED BY <1>1, <2>1, <2>2 DEF GetState, TypeOK, EvtfdBacked, Quiet
  <1>2. CASE GetStateReturn(t)
    <2>1. thr' \in [Thread -> ThreadRec] /\ FdOK' /\ LockOwner'
      BY <1>2, IdleType DEF GetStateReturn, TypeOK, FdOK, LockOwner
    <2>2. FileState' /\ NoCallAfterFree'
      BY <1>2, FileFrame DEF GetStateReturn, TypeOK, Idle
    <2> QED BY <1>2, <2>1, <2>2 DEF GetStateReturn, TypeOK, EvtfdBacked, Quiet
  <1>3. ASSUME NEW m \in Monitor, ReadEvtfd(t, m) PROVE IInv'
    <2>1. evtfd' \in [Monitor -> Nat] /\ toFetch' \in [Monitor -> Nat]
      BY <1>3 DEF ReadEvtfd, TypeOK
    <2>2. EvtfdBacked' /\ Quiet'
      BY <1>3 DEF ReadEvtfd, TypeOK, EvtfdBacked, Quiet
    <2> QED BY <1>3, <2>1, <2>2
            DEF ReadEvtfd, TypeOK, FdOK, LockOwner, FileState, NoCallAfterFree
  <1>4. ASSUME NEW m \in Monitor, GetEvent(t, m) PROVE IInv'
    <2> DEFINE e == Head(mon[m].evts)
               r == [mon[m] EXCEPT !.evts = Tail(@), !.owed = @ \ Pages(e.start, e.end)]
    <2>1. mon[m].state = "open" /\ toFetch[m] \in Nat \ {0} /\ mon[m].evts \in Seq(Event)
      BY <1>0, <1>4 DEF GetEvent, TypeOK, MonitorRec
    <2>2. mon[m].evts # <<>>
      <3>1. evtfd[m] + toFetch[m] <= Len(mon[m].evts) /\ evtfd[m] \in Nat
        BY <2>1 DEF EvtfdBacked, TypeOK
      <3> QED BY <2>1, <3>1
    <2>3. UNCHANGED <<lock, evtfd, mapped, thr>> /\ mon' = [mon EXCEPT ![m] = r]
      BY <1>4, <2>2 DEF GetEvent, FetchEvent, TypeOK
    <2>4. Tail(mon[m].evts) \in Seq(Event) /\ Len(Tail(mon[m].evts)) = Len(mon[m].evts) - 1
      BY <2>1, <2>2
    <2>5. /\ r \in MonitorRec /\ r.state = mon[m].state
          /\ r.evts = Tail(mon[m].evts)
      <3> DEFINE q == mon[m]
                 s == Tail(mon[m].evts)
                 o == Pages(e.start, e.end)
      <3>1. q \in MonitorRec /\ s \in Seq(Event)
        BY <1>0, <2>4
      <3>2. r = [q EXCEPT !.evts = s, !.owed = @ \ o]
        OBVIOUS
      <3> HIDE DEF q, s, o, r
      <3>3. r \in MonitorRec /\ r.state = q.state /\ r.evts = s
        BY <3>1, <3>2 DEF MonitorRec
      <3> QED BY <3>3 DEF q, s
    <2> HIDE DEF r
    <2>6. /\ mon' \in [Monitor -> MonitorRec]
          /\ \A k \in Monitor : mon'[k].state = mon[k].state
      BY <2>3, <2>5 DEF TypeOK
    <2>7. toFetch' = [toFetch EXCEPT ![m] = @ - 1] /\ toFetch' \in [Monitor -> Nat]
      BY <1>4, <2>1 DEF GetEvent, TypeOK
    <2>8. EvtfdBacked'
      <3>1. ASSUME NEW k \in Monitor, mon'[k].state = "open"
            PROVE  evtfd'[k] + toFetch'[k] <= Len(mon'[k].evts)
        <4>1. CASE k = m
          <5>1. mon'[m].evts = r.evts /\ toFetch'[m] = toFetch[m] - 1 /\ evtfd'[m] = evtfd[m]
            BY <2>3, <2>7 DEF TypeOK
          <5>2. Len(mon[m].evts) \in Nat /\ evtfd[m] \in Nat
            BY <2>1 DEF TypeOK
          <5> QED BY <2>1, <2>4, <2>5, <4>1, <5>1, <5>2 DEF EvtfdBacked
        <4>2. CASE k # m
          BY <2>3, <2>7, <3>1, <4>2 DEF TypeOK, EvtfdBacked
        <4> QED BY <4>1, <4>2
      <3> QED BY <3>1 DEF EvtfdBacked
    <2>9. Quiet'
      BY <2>1, <2>3, <2>6, <2>7 DEF Quiet, TypeOK
    <2>10. FdOK' /\ LockOwner'
      BY <2>3 DEF FdOK, LockOwner
    <2>11. FileState' /\ NoCallAfterFree'
      BY <2>3, <2>6, FileFrame
    <2> QED BY <2>3, <2>6, <2>7, <2>8, <2>9, <2>10, <2>11 DEF TypeOK
  <1>5. ASSUME NEW m \in Monitor, NEW valid \in BOOLEAN, NEW filter \in BOOLEAN,
               SetEvtfd(t, m, valid, filter)
        PROVE  IInv'
    <2>1. PICK f \in BOOLEAN :
             mon' = [mon EXCEPT ![m] = [mon[m] EXCEPT !.trigger = valid, !.filter = f]]
      BY <1>0, <1>5 DEF SetEvtfd, TypeOK, MonitorRec
    <2>2. ASSUME NEW q \in MonitorRec
          PROVE  /\ [q EXCEPT !.trigger = valid, !.filter = f] \in MonitorRec
                 /\ [q EXCEPT !.trigger = valid, !.filter = f].evts = q.evts
                 /\ [q EXCEPT !.trigger = valid, !.filter = f].state = q.state
      BY DEF MonitorRec
    <2>3. /\ mon' \in [Monitor -> MonitorRec]
          /\ \A k \in Monitor : mon'[k].evts = mon[k].evts /\ mon'[k].state = mon[k].state
      BY <1>0, <2>1, <2>2 DEF TypeOK
    <2>4. evtfd' \in [Monitor -> Nat] /\ \A k \in Monitor : evtfd'[k] \in {0, evtfd[k]}
      BY <1>5 DEF SetEvtfd, TypeOK
    <2>5. EvtfdBacked'
      <3>1. ASSUME NEW k \in Monitor PROVE Len(mon[k].evts) \in Nat
        BY <1>0 DEF MonitorRec
      <3> QED BY <1>5, <2>3, <2>4, <3>1 DEF SetEvtfd, EvtfdBacked, TypeOK
    <2>6. Quiet'
      BY <1>5, <2>3, <2>4 DEF SetEvtfd, Quiet
    <2>7. FileState' /\ NoCallAfterFree'
      BY <1>5, <2>3, FileFrame DEF SetEvtfd
    <2> QED BY <1>5, <2>3, <2>4, <2>5, <2>6, <2>7 DEF SetEvtfd, TypeOK, FdOK, LockOwner
  <1> QED BY <1>1, <1>2, <1>3, <1>4, <1>5

-----------------------------------------------------------------------------
LEMMA StepIInv == IInv /\ [Next]_driverVars => IInv'
  <1> SUFFICES ASSUME IInv, [Next]_driverVars PROVE IInv'
    OBVIOUS
  <1>1. ASSUME NEW t \in Thread, Handler(t) PROVE IInv'
    BY <1>1, RangeSteps, FilterSteps, FileSteps, IoctlSteps DEF Handler
  <1>2. ASSUME NEW t \in Thread, Request(t) PROVE IInv'
    BY <1>2, RangeSteps, FileSteps, IoctlSteps DEF Request
  <1>3. ASSUME NEW t \in Thread, Reader(t) PROVE IInv'
    BY <1>3, IoctlSteps DEF Reader
  <1>4. CASE UNCHANGED driverVars
    BY <1>4 DEF driverVars, IInv, TypeOK, FdOK, LockOwner, FileState, NoCallAfterFree,
                Quiet, EvtfdBacked
  <1> QED BY <1>1, <1>2, <1>3, <1>4 DEF Next

(* The inductive invariant holds in every state of every instance.         *)
THEOREM DriverInvariant == Spec => []IInv
  BY InitIInv, StepIInv, PTL DEF Spec

(* The driver's variables keep their types.                                *)
THEOREM TypeCorrect == Spec => []TypeOK
  <1>1. IInv => TypeOK
    BY DEF IInv
  <1> QED BY <1>1, DriverInvariant, PTL

(* The client's fetches never outnumber the queued events: however          *)
(* range_end, the eventfd reads and the ioctls of any number of threads     *)
(* interleave, GET_EVENT does not meet the empty queue.                     *)
THEOREM EventsBacked == Spec => []EvtfdBacked
  <1>1. IInv => EvtfdBacked
    BY DEF IInv
  <1> QED BY <1>1, DriverInvariant, PTL

(* No handler returns with mon_list_lock held.                              *)
THEOREM LockAlwaysReleased == Spec => []LockReleased
  <1>1. IInv => LockReleased
    BY DEF IInv, LockOwner, LockReleased
  <1> QED BY <1>1, DriverInvariant, PTL

(* The kernel calls no notifier of a monitor that was freed.                *)
THEOREM NotifierNotFreed == Spec => []NoCallAfterFree
  <1>1. IInv => NoCallAfterFree
    BY DEF IInv
  <1> QED BY <1>1, DriverInvariant, PTL

-----------------------------------------------------------------------------
(* What GET_STATE counts.                                                  *)

Starters(m) == {t \in Thread : m \in thr[t].started}

\* Only a thread that is invalidating has started a monitor, and it starts each
\* once.
ThreadShape ==
    \A t \in Thread : /\ ~Invalidating(t) => thr[t].started = {}
                      /\ thr[t].toStart \intersect thr[t].started = {}

CountInv == ThreadShape /\ (\A m \in Monitor : IsFiniteSet(Starters(m))) /\ StartCount

\* A step that starts and ends nothing on an open file.
LEMMA CountFrame ==
  ASSUME CountInv,
         \A k \in Monitor :
            /\ mon'[k].state = "open" =>
                  mon[k].state = "open" /\ mon'[k].starts = mon[k].starts
            /\ \A u \in Thread : k \in thr'[u].started => k \in thr[u].started
            /\ mon'[k].state = "open" => \A u \in Thread : k \in thr[u].started => k \in thr'[u].started
  PROVE  StartCount' /\ \A k \in Monitor : IsFiniteSet(Starters(k)')
  <1>1. ASSUME NEW k \in Monitor
        PROVE  IsFiniteSet(Starters(k)')
    <2>1. Starters(k)' \in SUBSET Starters(k)
      BY DEF Starters
    <2> QED BY <2>1, FS_Subset DEF CountInv
  <1>2. ASSUME NEW k \in Monitor, mon'[k].state = "open"
        PROVE  mon'[k].starts = Cardinality({t \in Thread : k \in thr'[t].started})
    <2>1. {t \in Thread : k \in thr'[t].started} = {t \in Thread : k \in thr[t].started}
      BY <1>2
    <2> QED BY <1>2, <2>1 DEF CountInv, StartCount
  <1> QED BY <1>1, <1>2 DEF StartCount

\* range_start.
LEMMA CountStarts ==
  ASSUME IInv, CountInv, NEW t \in Thread, NEW m \in Monitor, RangeStart(t, m)
  PROVE  CountInv'
  <1>1. /\ thr[t] \in ThreadRec /\ mon[m] \in MonitorRec
        /\ thr[t].pc = "start" /\ m \in thr[t].toStart /\ m \notin thr[t].started
        /\ mon' = [mon EXCEPT ![m].starts = @ + 1]
        /\ thr' = [thr EXCEPT ![t].toStart = @ \ {m}, ![t].started = @ \union {m}]
    BY DEF RangeStart, IInv, TypeOK, CountInv, ThreadShape
  <1>2. /\ thr'[t].pc = "start" /\ thr'[t].toStart = thr[t].toStart \ {m}
        /\ thr'[t].started = thr[t].started \union {m}
        /\ \A u \in Thread : u # t => thr'[u] = thr[u]
    BY <1>1 DEF IInv, TypeOK, ThreadRec
  <1>3. /\ mon'[m].starts = mon[m].starts + 1 /\ mon'[m].state = mon[m].state
        /\ \A k \in Monitor : k # m => mon'[k] = mon[k]
    BY <1>1 DEF IInv, TypeOK, MonitorRec
  <1>4. ThreadShape'
    BY <1>2 DEF CountInv, ThreadShape, Invalidating
  <1>5. /\ Starters(m)' = Starters(m) \union {t} /\ t \notin Starters(m)
        /\ \A k \in Monitor : k # m => Starters(k)' = Starters(k)
    BY <1>1, <1>2 DEF Starters
  <1>6. /\ \A k \in Monitor : IsFiniteSet(Starters(k)')
        /\ Cardinality(Starters(m)') = Cardinality(Starters(m)) + 1
    BY <1>5, FS_AddElement DEF CountInv
  <1>7. ASSUME NEW k \in Monitor, mon'[k].state = "open"
        PROVE  mon'[k].starts = Cardinality(Starters(k)')
    <2>1. mon[k].state = "open"
      BY <1>3, <1>7
    <2>2. mon[k].starts = Cardinality(Starters(k))
      BY <2>1 DEF CountInv, StartCount, Starters
    <2> QED BY <1>3, <1>5, <1>6, <2>2
  <1> QED BY <1>4, <1>6, <1>7 DEF CountInv, StartCount, Starters

\* range_end, in any mode.
LEMMA CountEnds ==
  ASSUME CountInv, NEW t \in Thread, NEW m \in Monitor, m \in thr[t].started,
         mon'[m].starts = mon[m].starts - 1, mon'[m].state = mon[m].state,
         \A k \in Monitor : k # m => mon'[k] = mon[k],
         thr'[t].pc \in {"end", "filter"}, thr'[t].toStart = thr[t].toStart,
         thr'[t].started = thr[t].started \ {m},
         \A u \in Thread : u # t => thr'[u] = thr[u]
  PROVE  CountInv'
  <1>1. ThreadShape'
    <2>1. thr'[t].pc \in {"start", "end", "filter"} /\ thr'[t].toStart \intersect thr'[t].started = {}
      BY DEF CountInv, ThreadShape
    <2>2. ASSUME NEW u \in Thread
          PROVE  /\ thr'[u].pc \notin {"start", "end", "filter"} => thr'[u].started = {}
                 /\ thr'[u].toStart \intersect thr'[u].started = {}
      <3>1. CASE u = t
        BY <2>1, <3>1
      <3>2. CASE u # t
        <4>1. thr'[u] = thr[u]
          BY <3>2
        <4> QED BY <4>1 DEF CountInv, ThreadShape, Invalidating
      <3> QED BY <3>1, <3>2
    <2> QED BY <2>2 DEF ThreadShape, Invalidating
  <1>2. /\ Starters(m)' = Starters(m) \ {t} /\ t \in Starters(m)
        /\ \A k \in Monitor : k # m => Starters(k)' = Starters(k)
    BY DEF Starters
  <1>3. /\ \A k \in Monitor : IsFiniteSet(Starters(k)')
        /\ Cardinality(Starters(m)') = Cardinality(Starters(m)) - 1
    <2>1. IsFiniteSet(Starters(m) \ {t}) /\ Cardinality(Starters(m) \ {t}) = Cardinality(Starters(m)) - 1
      BY <1>2, FS_RemoveElement DEF CountInv
    <2>2. ASSUME NEW k \in Monitor, k # m
          PROVE  IsFiniteSet(Starters(k)')
      BY <1>2, <2>2 DEF CountInv
    <2> QED BY <1>2, <2>1, <2>2
  <1>4. ASSUME NEW k \in Monitor, mon'[k].state = "open"
        PROVE  mon'[k].starts = Cardinality(Starters(k)')
    <2>1. mon[k].state = "open"
      BY <1>4
    <2>2. mon[k].starts = Cardinality(Starters(k))
      BY <2>1 DEF CountInv, StartCount, Starters
    <2> QED BY <1>2, <1>3, <2>2
  <1> QED BY <1>1, <1>3, <1>4 DEF CountInv, StartCount, Starters

\* queue_event leaves start_evt_cnt alone.
LEMMA QueueKeepsCount ==
  ASSUME TypeOK, NEW m \in Monitor, NEW r \in MonitorRec, NEW e \in Event, QueueEvent(m, r, e)
  PROVE  /\ mon'[m].starts = r.starts /\ mon'[m].state = r.state
         /\ \A k \in Monitor : k # m => mon'[k] = mon[k]
  <1>1. Queued(r, e).starts = r.starts /\ Queued(r, e).state = r.state
    BY DEF Queued, MonitorRec
  <1>2. Dropped(r, e).starts = r.starts /\ Dropped(r, e).state = r.state
    BY DEF Dropped, MonitorRec
  <1>3. mon' = [mon EXCEPT ![m] = Queued(r, e)] \/ mon' = [mon EXCEPT ![m] = Dropped(r, e)]
    BY DEF QueueEvent
  <1> QED BY <1>1, <1>2, <1>3 DEF TypeOK

LEMMA CountRange ==
  ASSUME IInv, CountInv, NEW t \in Thread,
         \/ \E m \in Monitor : \/ RangeStart(t, m) \/ RangeStartAgain(t, m)
                               \/ RangeEndSilent(t, m) \/ RangeEndUnfiltered(t, m)
                               \/ RangeEndFiltered(t, m)
         \/ StartsDone(t)
         \/ InvalidateEnd(t)
         \/ \E r \in Event, unmap \in BOOLEAN : InvalidateBegin(t, r, unmap)
         \/ \E p \in Page : Mmap(t, p)
  PROVE  CountInv'
  <1>1. /\ thr[t] \in ThreadRec /\ thr[t].range \in Event
        /\ \A m \in Monitor : mon[m] \in MonitorRec
    BY DEF IInv, TypeOK, ThreadRec
  <1>2. ASSUME NEW m \in Monitor, RangeStartAgain(t, m)
        PROVE  CountInv'
    <2>1. /\ UNCHANGED mon /\ thr'[t].started = thr[t].started /\ thr'[t].toStart = {}
          /\ thr'[t].pc = "end" /\ thr[t].pc = "start"
          /\ \A u \in Thread : u # t => thr'[u] = thr[u]
      BY <1>1, <1>2 DEF RangeStartAgain, IInv, TypeOK, ThreadRec
    <2>2. ThreadShape'
      BY <2>1 DEF CountInv, ThreadShape, Invalidating
    <2> QED BY <2>1, <2>2, CountFrame DEF CountInv
  <1>3. ASSUME NEW m \in Monitor, RangeEndSilent(t, m)
        PROVE  CountInv'
    <2>1. /\ m \in thr[t].started /\ thr'[t].pc = "end" /\ thr'[t].toStart = thr[t].toStart
          /\ thr'[t].started = thr[t].started \ {m}
          /\ \A u \in Thread : u # t => thr'[u] = thr[u]
      BY <1>1, <1>3 DEF RangeEndSilent, IInv, TypeOK, ThreadRec
    <2>2. /\ mon'[m].starts = mon[m].starts - 1 /\ mon'[m].state = mon[m].state
          /\ \A k \in Monitor : k # m => mon'[k] = mon[k]
      BY <1>1, <1>3 DEF RangeEndSilent, Ended, IInv, TypeOK, MonitorRec
    <2> QED BY <2>1, <2>2, CountEnds
  <1>4. ASSUME NEW m \in Monitor, RangeEndUnfiltered(t, m)
        PROVE  CountInv'
    <2>1. /\ m \in thr[t].started /\ thr'[t].pc = "end" /\ thr'[t].toStart = thr[t].toStart
          /\ thr'[t].started = thr[t].started \ {m}
          /\ \A u \in Thread : u # t => thr'[u] = thr[u]
      BY <1>1, <1>4 DEF RangeEndUnfiltered, IInv, TypeOK, ThreadRec
    <2> DEFINE r == Owing(Ended(m), t)
    <2>2. r \in MonitorRec /\ r.state = mon[m].state
      BY <1>1, EndedType, OwingType
    <2>3. r.starts = mon[m].starts - 1
      BY <1>1 DEF Owing, Ended, MonitorRec
    <2>4. QueueEvent(m, r, thr[t].range)
      BY <1>4 DEF RangeEndUnfiltered
    <2> HIDE DEF r
    <2>5. /\ mon'[m].starts = mon[m].starts - 1 /\ mon'[m].state = mon[m].state
          /\ \A k \in Monitor : k # m => mon'[k] = mon[k]
      BY <1>1, <2>2, <2>3, <2>4, QueueKeepsCount DEF IInv
    <2> QED BY <2>1, <2>5, CountEnds
  <1>5. ASSUME NEW m \in Monitor, RangeEndFiltered(t, m)
        PROVE  CountInv'
    <2>1. /\ m \in thr[t].started /\ thr'[t].pc = "filter" /\ thr'[t].toStart = thr[t].toStart
          /\ thr'[t].started = thr[t].started \ {m}
          /\ \A u \in Thread : u # t => thr'[u] = thr[u]
      BY <1>1, <1>5 DEF RangeEndFiltered, IInv, TypeOK, ThreadRec
    <2>2. /\ mon'[m].starts = mon[m].starts - 1 /\ mon'[m].state = mon[m].state
          /\ \A k \in Monitor : k # m => mon'[k] = mon[k]
      BY <1>1, <1>5 DEF RangeEndFiltered, Ended, IInv, TypeOK, MonitorRec
    <2> QED BY <2>1, <2>2, CountEnds
  <1>6. CASE StartsDone(t)
    <2>1. /\ UNCHANGED mon /\ thr'[t].started = thr[t].started /\ thr'[t].toStart = thr[t].toStart
          /\ thr'[t].pc = "end" /\ thr[t].pc = "start"
          /\ \A u \in Thread : u # t => thr'[u] = thr[u]
      BY <1>1, <1>6 DEF StartsDone, IInv, TypeOK, ThreadRec
    <2>2. ThreadShape'
      BY <2>1 DEF CountInv, ThreadShape, Invalidating
    <2> QED BY <2>1, <2>2, CountFrame DEF CountInv
  <1>7. CASE InvalidateEnd(t)
    <2>1. /\ UNCHANGED mon /\ thr[t].started = {} /\ thr'[t].started = {} /\ thr'[t].toStart = {}
          /\ \A u \in Thread : u # t => thr'[u] = thr[u]
      BY <1>7 DEF InvalidateEnd, Idle, IInv, TypeOK
    <2>2. ThreadShape'
      BY <2>1 DEF CountInv, ThreadShape, Invalidating
    <2> QED BY <2>1, <2>2, CountFrame DEF CountInv
  <1>8. ASSUME NEW r \in Event, NEW unmap \in BOOLEAN, InvalidateBegin(t, r, unmap)
        PROVE  CountInv'
    <2>1. /\ UNCHANGED mon /\ thr[t].pc = "idle" /\ thr'[t].started = {}
          /\ \A u \in Thread : u # t => thr'[u] = thr[u]
      BY <1>8 DEF InvalidateBegin, Idle, IInv, TypeOK
    <2>2. thr[t].started = {}
      BY <2>1 DEF CountInv, ThreadShape, Invalidating
    <2>3. ThreadShape'
      BY <2>1 DEF CountInv, ThreadShape, Invalidating
    <2> QED BY <2>1, <2>2, <2>3, CountFrame DEF CountInv
  <1>9. ASSUME NEW p \in Page, Mmap(t, p)
        PROVE  CountInv'
    <2>1. UNCHANGED <<mon, thr>>
      BY <1>9 DEF Mmap
    <2>2. ThreadShape'
      BY <2>1 DEF CountInv, ThreadShape, Invalidating
    <2> QED BY <2>1, <2>2, CountFrame DEF CountInv
  <1> QED BY <1>2, <1>3, <1>4, <1>5, <1>6, <1>7, <1>8, <1>9, CountStarts

LEMMA CountFilter ==
  ASSUME IInv, CountInv, NEW t \in Thread,
         \/ \E v \in Page : FilterVma(t, v)
         \/ FilterNoVma(t)
         \/ FilterDone(t)
  PROVE  CountInv'
  <1>1. /\ thr[t] \in ThreadRec /\ thr[t].range \in Event
        /\ \A m \in Monitor : mon[m] \in MonitorRec
    BY DEF IInv, TypeOK, ThreadRec
  <1>2. PICK m \in Monitor : m = thr[t].fd
    BY DEF FilterVma, FilterNoVma, FilterDone, IInv, FdOK
  <1>3. ASSUME \A k \in Monitor : mon'[k].starts = mon[k].starts /\ mon'[k].state = mon[k].state,
               thr'[t].started = thr[t].started, thr'[t].toStart = thr[t].toStart,
               thr[t].pc = "filter", thr'[t].pc \in {"end", "filter"},
               \A u \in Thread : u # t => thr'[u] = thr[u]
        PROVE  CountInv'
    <2>1. thr'[t].pc \in {"start", "end", "filter"}
      BY <1>3
    <2>2. ThreadShape'
      BY <1>3, <2>1 DEF CountInv, ThreadShape, Invalidating
    <2> QED BY <1>3, <2>2, CountFrame DEF CountInv
  <1>4. ASSUME NEW v \in Page, FilterVma(t, v)
        PROVE  CountInv'
    <2> DEFINE e == [start |-> thr[t].at, end |-> IF v < thr[t].range.end THEN v ELSE thr[t].range.end]
    <2>1. e \in Event
      BY <1>1, DriverAssumption DEF ThreadRec, Event, Page
    <2>2. QueueEvent(m, mon[m], e) \/ UNCHANGED mon
      BY <1>2, <1>4 DEF FilterVma
    <2> HIDE DEF e
    <2>3. \A k \in Monitor : mon'[k].starts = mon[k].starts /\ mon'[k].state = mon[k].state
      BY <1>1, <2>1, <2>2, QueueKeepsCount DEF IInv
    <2>4. /\ thr'[t].started = thr[t].started /\ thr'[t].toStart = thr[t].toStart
          /\ thr[t].pc = "filter" /\ thr'[t].pc = "filter"
          /\ \A u \in Thread : u # t => thr'[u] = thr[u]
      BY <1>1, <1>4 DEF FilterVma, IInv, TypeOK, ThreadRec
    <2> QED BY <1>3, <2>3, <2>4
  <1>5. CASE FilterNoVma(t)
    <2> DEFINE e == [start |-> thr[t].at, end |-> thr[t].range.end]
    <2>1. e \in Event
      BY <1>1 DEF ThreadRec, Event
    <2>2. QueueEvent(m, mon[m], e)
      BY <1>2, <1>5 DEF FilterNoVma
    <2> HIDE DEF e
    <2>3. \A k \in Monitor : mon'[k].starts = mon[k].starts /\ mon'[k].state = mon[k].state
      BY <1>1, <2>1, <2>2, QueueKeepsCount DEF IInv
    <2>4. /\ thr'[t].started = thr[t].started /\ thr'[t].toStart = thr[t].toStart
          /\ thr[t].pc = "filter" /\ thr'[t].pc = "filter"
          /\ \A u \in Thread : u # t => thr'[u] = thr[u]
      BY <1>1, <1>5 DEF FilterNoVma, IInv, TypeOK, ThreadRec
    <2> QED BY <1>3, <2>3, <2>4
  <1>6. CASE FilterDone(t)
    <2>1. \A k \in Monitor : mon'[k].starts = mon[k].starts /\ mon'[k].state = mon[k].state
      BY <1>1, <1>2, <1>6 DEF FilterDone, Owing, IInv, TypeOK, MonitorRec
    <2>2. /\ thr'[t].started = thr[t].started /\ thr'[t].toStart = thr[t].toStart
          /\ thr[t].pc = "filter" /\ thr'[t].pc = "end"
          /\ \A u \in Thread : u # t => thr'[u] = thr[u]
      BY <1>1, <1>6 DEF FilterDone, IInv, TypeOK, ThreadRec
    <2> QED BY <1>3, <2>1, <2>2
  <1> QED BY <1>4, <1>5, <1>6

\* A step that neither starts nor ends anything, of a thread outside of an
\* invalidation.
LEMMA CountOutside ==
  ASSUME CountInv, NEW t \in Thread, ~Invalidating(t), thr'[t].started = {},
         \A u \in Thread : u # t => thr'[u] = thr[u],
         \A k \in Monitor : mon'[k].state = "open" =>
                               mon[k].state = "open" /\ mon'[k].starts = mon[k].starts
  PROVE  CountInv'
  <1>1. thr[t].started = {}
    BY DEF CountInv, ThreadShape
  <1>2. ThreadShape'
    BY DEF CountInv, ThreadShape, Invalidating
  <1> QED BY <1>1, <1>2, CountFrame DEF CountInv

LEMMA CountFile ==
  ASSUME IInv, CountInv, NEW t \in Thread,
         \/ \E m \in Monitor : Open(t, m) \/ Release(t, m)
         \/ OpenRegister(t) \/ OpenFail(t) \/ ReleaseDone(t)
  PROVE  CountInv'
  <1>1. /\ thr[t] \in ThreadRec
        /\ \A m \in Monitor : mon[m] \in MonitorRec
    BY DEF IInv, TypeOK
  <1>2. ~Invalidating(t) => thr[t].started = {}
    BY DEF CountInv, ThreadShape
  <1>3. ASSUME NEW m \in Monitor, Open(t, m)
        PROVE  CountInv'
    <2>1. /\ ~Invalidating(t) /\ UNCHANGED mon
          /\ thr'[t].started = thr[t].started
          /\ \A u \in Thread : u # t => thr'[u] = thr[u]
      BY <1>1, <1>3 DEF Open, Invalidating, IInv, TypeOK, ThreadRec
    <2> QED BY <1>2, <2>1, CountOutside
  <1>4. ASSUME NEW m \in Monitor, Release(t, m)
        PROVE  CountInv'
    <2>1. /\ ~Invalidating(t) /\ thr'[t].started = thr[t].started
          /\ \A u \in Thread : u # t => thr'[u] = thr[u]
      BY <1>1, <1>4 DEF Release, Invalidating, IInv, TypeOK, ThreadRec
    <2>2. mon' = [mon EXCEPT ![m] = [Cleaned(mon[m]) EXCEPT !.state = "closing"]]
      BY <1>4 DEF Release
    <2>3. [Cleaned(mon[m]) EXCEPT !.state = "closing"].state = "closing"
      <3>1. [Cleaned(mon[m]) EXCEPT !.state = "closing"] \in MonitorRec
        BY <1>1, CleanedType
      <3>2. Cleaned(mon[m]) \in MonitorRec
        BY <1>1, CleanedRec
      <3> QED BY <3>2 DEF MonitorRec
    <2>4. mon'[m].state = "closing" /\ \A k \in Monitor : k # m => mon'[k] = mon[k]
      BY <2>2, <2>3 DEF IInv, TypeOK
    <2> QED BY <1>2, <2>1, <2>4, CountOutside
  <1>5. CASE OpenRegister(t)
    <2>1. PICK m \in Monitor : m = thr[t].fd /\ mon[m].state = "closed"
      BY <1>5 DEF OpenRegister, IInv, FdOK, FileState
    <2>2. /\ ~Invalidating(t) /\ thr'[t].started = {} /\ thr'[t].toStart = {}
          /\ \A u \in Thread : u # t => thr'[u] = thr[u]
      BY <1>5 DEF OpenRegister, Invalidating, Idle, IInv, TypeOK
    <2>3. /\ mon'[m].starts = 0
          /\ \A k \in Monitor : k # m => mon'[k] = mon[k]
      BY <1>5, <2>1 DEF OpenRegister, NewMonitor, IInv, TypeOK
    <2>4. \A u \in Thread : thr'[u].started = thr[u].started
      BY <1>2, <2>2
    <2>5. ThreadShape'
      BY <2>2 DEF CountInv, ThreadShape, Invalidating
    <2>6. \A k \in Monitor : Starters(k)' = Starters(k)
      BY <2>4 DEF Starters
    <2>7. Starters(m) = {}
      BY <2>1 DEF Starters, IInv, NoCallAfterFree
    <2>8. Cardinality(Starters(m)') = 0
      BY <2>6, <2>7, FS_EmptySet
    <2>9. ASSUME NEW k \in Monitor, mon'[k].state = "open"
          PROVE  mon'[k].starts = Cardinality(Starters(k)')
      <3>1. CASE k = m
        BY <2>3, <2>8, <3>1
      <3>2. CASE k # m
        <4>1. mon[k].starts = Cardinality(Starters(k))
          BY <2>3, <2>9, <3>2 DEF CountInv, StartCount, Starters
        <4> QED BY <2>3, <2>6, <3>2, <4>1
      <3> QED BY <3>1, <3>2
    <2> QED BY <2>5, <2>6, <2>9 DEF CountInv, StartCount, Starters
  <1>6. CASE OpenFail(t)
    <2>1. /\ ~Invalidating(t) /\ UNCHANGED mon /\ thr'[t].started = {}
          /\ \A u \in Thread : u # t => thr'[u] = thr[u]
      BY <1>6 DEF OpenFail, Invalidating, Idle, IInv, TypeOK
    <2> QED BY <2>1, CountOutside
  <1>7. CASE ReleaseDone(t)
    <2>1. PICK m \in Monitor : m = thr[t].fd
      BY <1>7 DEF ReleaseDone, IInv, FdOK
    <2>2. thr'[t] = Idle /\ \A u \in Thread : u # t =>
              thr'[u] = [thr[u] EXCEPT !.toStart = @ \ {m}, !.started = @ \ {m}]
      BY <1>7, <2>1 DEF ReleaseDone
    <2>3. \A u \in Thread : thr[u] \in ThreadRec
      BY DEF IInv, TypeOK
    <2>4. ASSUME NEW u \in Thread, u # t
          PROVE  /\ thr'[u].started = thr[u].started \ {m}
                 /\ thr'[u].toStart = thr[u].toStart \ {m}
                 /\ thr'[u].pc = thr[u].pc
      BY <2>2, <2>3, <2>4 DEF ThreadRec
    <2>5. /\ thr'[t].started = {} /\ thr'[t].toStart = {} /\ ~Invalidating(t)
          /\ \A u \in Thread : u # t => /\ thr'[u].started = thr[u].started \ {m}
                                        /\ thr'[u].toStart = thr[u].toStart \ {m}
                                        /\ thr'[u].pc = thr[u].pc
      BY <1>7, <2>2, <2>4 DEF ReleaseDone, Invalidating, Idle
    <2>6. mon'[m].state = "closed" /\ \A k \in Monitor : k # m => mon'[k] = mon[k]
      BY <1>7, <2>1 DEF ReleaseDone, NewMonitor, IInv, TypeOK
    <2>7. ThreadShape'
      BY <2>5 DEF CountInv, ThreadShape, Invalidating
    <2>8. thr[t].started = {}
      BY <1>2, <2>5
    <2>9. \A k \in Monitor :
             /\ mon'[k].state = "open" => k # m /\ mon[k].state = "open" /\ mon'[k].starts = mon[k].starts
             /\ \A u \in Thread : k \in thr'[u].started => k \in thr[u].started
             /\ k # m => \A u \in Thread : k \in thr[u].started => k \in thr'[u].started
      BY <2>5, <2>6, <2>8
    <2> QED BY <2>7, <2>9, CountFrame DEF CountInv
  <1> QED BY <1>3, <1>4, <1>5, <1>6, <1>7

LEMMA CountIoctl ==
  ASSUME IInv, CountInv, NEW t \in Thread,
         \/ \E m \in Monitor : \/ GetState(t, m) \/ ReadEvtfd(t, m) \/ GetEvent(t, m)
                               \/ \E valid, filter \in BOOLEAN : SetEvtfd(t, m, valid, filter)
         \/ GetStateReturn(t)
  PROVE  CountInv'
  <1>1. /\ thr[t] \in ThreadRec
        /\ \A m \in Monitor : mon[m] \in MonitorRec
    BY DEF IInv, TypeOK
  <1>2. ~Invalidating(t)
    BY DEF GetState, ReadEvtfd, GetEvent, SetEvtfd, GetStateReturn, Invalidating
  <1>3. thr[t].started = {}
    BY <1>2 DEF CountInv, ThreadShape
  <1>4. thr'[t].started = {} /\ \A u \in Thread : u # t => thr'[u] = thr[u]
    <2>1. thr' = thr \/ thr' = [thr EXCEPT ![t] = Idle]
          \/ \E m \in Monitor : thr' = [thr EXCEPT ![t].pc = "state", ![t].fd = m]
      BY DEF GetState, ReadEvtfd, GetEvent, SetEvtfd, GetStateReturn
    <2> QED BY <1>1, <1>3, <2>1 DEF Idle, IInv, TypeOK, ThreadRec
  <1>5. \A k \in Monitor : mon'[k].state = mon[k].state /\ mon'[k].starts = mon[k].starts
    <2>1. CASE UNCHANGED mon
      BY <2>1
    <2>2. ASSUME NEW m \in Monitor, GetEvent(t, m), mon' # mon
          PROVE  \A k \in Monitor : mon'[k].state = mon[k].state /\ mon'[k].starts = mon[k].starts
      <3>1. mon' = [mon EXCEPT ![m].evts = Tail(@), ![m].owed = @ \ Pages(Head(mon[m].evts).start, Head(mon[m].evts).end)]
        BY <2>2 DEF GetEvent, FetchEvent
      <3> QED BY <1>1, <3>1 DEF IInv, TypeOK, MonitorRec
    <2>3. ASSUME NEW m \in Monitor, NEW valid \in BOOLEAN, NEW filter \in BOOLEAN, SetEvtfd(t, m, valid, filter)
          PROVE  \A k \in Monitor : mon'[k].state = mon[k].state /\ mon'[k].starts = mon[k].starts
      BY <1>1, <2>3 DEF SetEvtfd, IInv, TypeOK, MonitorRec
    <2> QED BY <2>1, <2>2, <2>3 DEF GetState, ReadEvtfd, GetStateReturn
  <1> QED BY <1>2, <1>4, <1>5, CountOutside

-----------------------------------------------------------------------------
(* What the client is told.                                                *)

Reported(m, p) ==
    \/ p \in mon[m].lost
    \/ \E i \in 1 .. Len(mon[m].evts) : p \in Pages(mon[m].evts[i].start, mon[m].evts[i].end)

\* Nothing that range_end found unmapped goes unreported on an open file, and
\* the loop over the vmas has reported what lies below the place it has come to.
OwedReported ==
    \A m \in Monitor : mon[m].state = "open" => \A p \in mon[m].owed : Reported(m, p)

LoopReported ==
    \A t \in Thread, m \in Monitor : thr[t].pc = "filter" /\ thr[t].fd = m =>
        \A p \in Pages(thr[t].range.start, thr[t].range.end) \ mapped :
            p < thr[t].at => Reported(m, p)

ReportInv == OwedReported /\ LoopReported

\* queue_event reports its range, or counts it as lost, and keeps what was
\* reported.
LEMMA QueueReports ==
  ASSUME TypeOK, NEW m \in Monitor, NEW r \in MonitorRec, NEW e \in Event, QueueEvent(m, r, e),
         r.evts = mon[m].evts, r.lost = mon[m].lost, r.state = mon[m].state
  PROVE  /\ \A k \in Monitor, p \in Page : Reported(k, p) => Reported(k, p)'
         /\ \A p \in Pages(e.start, e.end) : Reported(m, p)'
         /\ mon'[m].owed = r.owed /\ mon'[m].state = mon[m].state
         /\ \A k \in Monitor : k # m => mon'[k] = mon[k]
  <1>1. /\ mon \in [Monitor -> MonitorRec] /\ r.evts \in Seq(Event) /\ r.lost \subseteq Page
    BY DEF TypeOK, MonitorRec
  <1>2. CASE mon' = [mon EXCEPT ![m] = Queued(r, e)]
    <2>1. /\ mon'[m].evts = Append(r.evts, e) /\ mon'[m].lost = r.lost /\ mon'[m].owed = r.owed
          /\ mon'[m].state = r.state
          /\ \A k \in Monitor : k # m => mon'[k] = mon[k]
      BY <1>1, <1>2 DEF Queued, MonitorRec
    <2>2. /\ Len(mon'[m].evts) = Len(r.evts) + 1 /\ Len(r.evts) \in Nat
          /\ mon'[m].evts[Len(r.evts) + 1] = e
          /\ \A i \in 1 .. Len(r.evts) : mon'[m].evts[i] = r.evts[i]
      BY <1>1, <2>1
    <2>3. \A p \in Page : Reported(m, p) => Reported(m, p)'
      <3> SUFFICES ASSUME NEW p \in Page, Reported(m, p)
                   PROVE  Reported(m, p)'
        OBVIOUS
      <3>1. CASE p \in mon[m].lost
        BY <2>1, <3>1 DEF Reported
      <3>2. ASSUME NEW i \in 1 .. Len(mon[m].evts), p \in Pages(mon[m].evts[i].start, mon[m].evts[i].end)
            PROVE  Reported(m, p)'
        <4>1. i \in 1 .. Len(mon'[m].evts) /\ mon'[m].evts[i] = mon[m].evts[i]
          BY <2>2
        <4>2. p \in Pages(mon'[m].evts[i].start, mon'[m].evts[i].end)
          BY <3>2, <4>1
        <4> QED BY <4>1, <4>2 DEF Reported
      <3> QED BY <3>1, <3>2 DEF Reported
    <2>4. \A p \in Pages(e.start, e.end) : Reported(m, p)'
      <3> SUFFICES ASSUME NEW p \in Pages(e.start, e.end)
                   PROVE  Reported(m, p)'
        OBVIOUS
      <3>1. Len(r.evts) + 1 \in 1 .. Len(mon'[m].evts)
        BY <2>2
      <3>2. p \in Pages(mon'[m].evts[Len(r.evts) + 1].start, mon'[m].evts[Len(r.evts) + 1].end)
        BY <2>2
      <3> QED BY <3>1, <3>2 DEF Reported
    <2> QED BY <2>1, <2>3, <2>4 DEF Reported
  <1>3. CASE mon' = [mon EXCEPT ![m] = Dropped(r, e)]
    <2>1. /\ mon'[m].evts = r.evts /\ mon'[m].lost = r.lost \union Pages(e.start, e.end)
          /\ mon'[m].owed = r.owed /\ mon'[m].state = r.state
          /\ \A k \in Monitor : k # m => mon'[k] = mon[k]
      BY <1>1, <1>3 DEF Dropped, MonitorRec
    <2> QED BY <2>1 DEF Reported
  <1> QED BY <1>2, <1>3 DEF QueueEvent

\* A step that leaves the queues alone.
LEMMA ReportFrame ==
  ASSUME ReportInv, NEW t \in Thread,
         \A k \in Monitor : /\ mon'[k].evts = mon[k].evts /\ mon'[k].lost = mon[k].lost
                            /\ mon'[k].owed = mon[k].owed /\ mon'[k].state = mon[k].state,
         \A u \in Thread : u # t => thr'[u] = thr[u],
         thr'[t].pc # "filter",
         mapped' = mapped \/ MmapSemFree
  PROVE  ReportInv'
  <1>1. \A k \in Monitor : \A p : Reported(k, p)' <=> Reported(k, p)
    BY DEF Reported
  <1>2. OwedReported'
    BY <1>1 DEF ReportInv, OwedReported
  <1>3. ASSUME NEW u \in Thread, NEW k \in Monitor, thr'[u].pc = "filter", thr'[u].fd = k,
               NEW p \in Pages(thr'[u].range.start, thr'[u].range.end) \ mapped', p < thr'[u].at
        PROVE  Reported(k, p)'
    <2>1. thr'[u] = thr[u] /\ thr[u].pc = "filter"
      BY <1>3
    <2>2. mapped' = mapped
      BY <2>1 DEF MmapSemFree, Invalidating
    <2>3. Reported(k, p)
      BY <1>3, <2>1, <2>2 DEF ReportInv, LoopReported
    <2> QED BY <1>1, <2>3
  <1>4. LoopReported'
    BY <1>3 DEF LoopReported, Pages
  <1> QED BY <1>2, <1>4 DEF ReportInv

\* The lock keeps everybody else out of the loop.
LEMMA NoLoop ==
  ASSUME IInv, lock = Free
  PROVE  \A u \in Thread : thr[u].pc # "filter"
  BY DriverAssumption DEF IInv, LockOwner

LEMMA OneLoop ==
  ASSUME IInv, NEW t \in Thread, thr[t].pc = "filter"
  PROVE  \A u \in Thread : u # t => thr[u].pc # "filter"
  BY DEF IInv, LockOwner

LEMMA ReportRange ==
  ASSUME IInv, ReportInv, NEW t \in Thread,
         \/ \E m \in Monitor : \/ RangeStart(t, m) \/ RangeStartAgain(t, m)
                               \/ RangeEndSilent(t, m) \/ RangeEndUnfiltered(t, m)
                               \/ RangeEndFiltered(t, m)
         \/ StartsDone(t)
         \/ InvalidateEnd(t)
         \/ \E r \in Event, unmap \in BOOLEAN : InvalidateBegin(t, r, unmap)
         \/ \E p \in Page : Mmap(t, p)
  PROVE  ReportInv'
  <1>1. /\ thr[t] \in ThreadRec /\ thr[t].range \in Event
        /\ \A m \in Monitor : mon[m] \in MonitorRec
    BY DEF IInv, TypeOK, ThreadRec
  <1>2. ASSUME NEW m \in Monitor, RangeStart(t, m)
        PROVE  ReportInv'
    <2>1. /\ thr'[t].pc = "start" /\ mapped' = mapped
          /\ \A u \in Thread : u # t => thr'[u] = thr[u]
      BY <1>1, <1>2 DEF RangeStart, IInv, TypeOK, ThreadRec
    <2>2. \A k \in Monitor : /\ mon'[k].evts = mon[k].evts /\ mon'[k].lost = mon[k].lost
                             /\ mon'[k].owed = mon[k].owed /\ mon'[k].state = mon[k].state
      BY <1>1, <1>2 DEF RangeStart, IInv, TypeOK, MonitorRec
    <2> QED BY <1>1, <2>1, <2>2, ReportFrame
  <1>3. ASSUME NEW m \in Monitor, RangeEndSilent(t, m)
        PROVE  ReportInv'
    <2>1. /\ thr'[t].pc = "end" /\ mapped' = mapped
          /\ \A u \in Thread : u # t => thr'[u] = thr[u]
      BY <1>1, <1>3 DEF RangeEndSilent, IInv, TypeOK, ThreadRec
    <2>2. \A k \in Monitor : /\ mon'[k].evts = mon[k].evts /\ mon'[k].lost = mon[k].lost
                             /\ mon'[k].owed = mon[k].owed /\ mon'[k].state = mon[k].state
      BY <1>1, <1>3 DEF RangeEndSilent, Ended, IInv, TypeOK, MonitorRec
    <2> QED BY <1>1, <2>1, <2>2, ReportFrame
  <1>4. CASE \/ \E m \in Monitor : RangeStartAgain(t, m)
             \/ StartsDone(t) \/ InvalidateEnd(t)
             \/ \E r \in Event, unmap \in BOOLEAN : InvalidateBegin(t, r, unmap)
             \/ \E p \in Page : Mmap(t, p)
    <2>1. UNCHANGED mon /\ (mapped' = mapped \/ MmapSemFree)
      BY <1>4 DEF RangeStartAgain, StartsDone, InvalidateEnd, InvalidateBegin, Mmap
    <2>2. thr'[t].pc # "filter" /\ \A u \in Thread : u # t => thr'[u] = thr[u]
      <3>1. thr \in [Thread -> ThreadRec]
        BY DEF IInv, TypeOK
      <3>2. CASE \E m \in Monitor : RangeStartAgain(t, m)
        BY <3>1, <3>2 DEF RangeStartAgain, ThreadRec
      <3>3. CASE StartsDone(t)
        BY <3>1, <3>3 DEF StartsDone, ThreadRec
      <3>4. CASE InvalidateEnd(t)
        BY <3>1, <3>4, IdleType DEF InvalidateEnd
      <3>5. CASE \E r \in Event, unmap \in BOOLEAN : InvalidateBegin(t, r, unmap)
        BY <3>1, <3>5 DEF InvalidateBegin, Idle
      <3>6. CASE \E p \in Page : Mmap(t, p)
        BY <3>6 DEF Mmap
      <3> QED BY <1>4, <3>2, <3>3, <3>4, <3>5, <3>6
    <2> QED BY <1>1, <2>1, <2>2, ReportFrame
  <1>5. ASSUME NEW m \in Monitor, RangeEndUnfiltered(t, m)
        PROVE  ReportInv'
    <2> DEFINE r == Owing(Ended(m), t)
               e == thr[t].range
    <2>1. r \in MonitorRec /\ r.evts = mon[m].evts /\ r.state = mon[m].state
      BY <1>1, EndedType, OwingType
    <2>2. r.lost = mon[m].lost /\ r.owed = mon[m].owed \union (Pages(e.start, e.end) \ mapped)
      BY <1>1 DEF Owing, Ended, MonitorRec
    <2>3. QueueEvent(m, r, e) /\ e \in Event
      BY <1>1, <1>5 DEF RangeEndUnfiltered
    <2> HIDE DEF r
    <2>4. /\ \A k \in Monitor, p \in Page : Reported(k, p) => Reported(k, p)'
          /\ \A p \in Pages(e.start, e.end) : Reported(m, p)'
          /\ mon'[m].owed = r.owed /\ mon'[m].state = mon[m].state
          /\ \A k \in Monitor : k # m => mon'[k] = mon[k]
      BY <2>1, <2>2, <2>3, QueueReports DEF IInv
    <2>5. \A k \in Monitor : mon[k].owed \subseteq Page
      BY <1>1 DEF MonitorRec
    <2>6. OwedReported'
      <3> SUFFICES ASSUME NEW k \in Monitor, mon'[k].state = "open", NEW p \in mon'[k].owed
                   PROVE  Reported(k, p)'
        BY DEF OwedReported
      <3>1. mon[k].state = "open"
        BY <2>4
      <3>2. p \in mon[k].owed \/ (k = m /\ p \in Pages(e.start, e.end))
        BY <2>2, <2>4
      <3> QED BY <2>4, <2>5, <3>1, <3>2 DEF ReportInv, OwedReported
    <2>7. LoopReported'
      <3>1. \A u \in Thread : thr'[u].pc # "filter"
        <4>1. thr'[t].pc = "end" /\ \A u \in Thread : u # t => thr'[u] = thr[u]
          BY <1>1, <1>5 DEF RangeEndUnfiltered, IInv, TypeOK, ThreadRec
        <4> QED BY <1>5, <4>1, NoLoop DEF RangeEndUnfiltered
      <3> QED BY <3>1 DEF LoopReported
    <2> QED BY <2>6, <2>7 DEF ReportInv
  <1>6. ASSUME NEW m \in Monitor, RangeEndFiltered(t, m)
        PROVE  ReportInv'
    <2>1. \A k \in Monitor : /\ mon'[k].evts = mon[k].evts /\ mon'[k].lost = mon[k].lost
                             /\ mon'[k].owed = mon[k].owed /\ mon'[k].state = mon[k].state
      BY <1>1, <1>6 DEF RangeEndFiltered, Ended, IInv, TypeOK, MonitorRec
    <2>2. \A k \in Monitor : \A p : Reported(k, p)' <=> Reported(k, p)
      BY <2>1 DEF Reported
    <2>3. OwedReported'
      BY <2>1, <2>2 DEF ReportInv, OwedReported
    <2>4. /\ thr'[t].at = thr'[t].range.start /\ thr'[t].range \in Event
          /\ \A u \in Thread : u # t => thr'[u] = thr[u]
      BY <1>1, <1>6 DEF RangeEndFiltered, IInv, TypeOK, ThreadRec
    <2>5. \A p \in Pages(thr'[t].range.start, thr'[t].range.end) : ~(p < thr'[t].at)
      BY <2>4 DEF Pages, Page, Event
    <2>6. \A u \in Thread : u # t => thr'[u].pc # "filter"
      BY <1>6, <2>4, NoLoop DEF RangeEndFiltered
    <2>7. LoopReported'
      BY <2>5, <2>6 DEF LoopReported, Pages
    <2> QED BY <2>3, <2>7 DEF ReportInv
  <1> QED BY <1>2, <1>3, <1>4, <1>5, <1>6

LEMMA ReportFilter ==
  ASSUME IInv, ReportInv, NEW t \in Thread,
         \/ \E v \in Page : FilterVma(t, v)
         \/ FilterNoVma(t)
         \/ FilterDone(t)
  PROVE  ReportInv'
  <1>1. /\ thr[t] \in ThreadRec /\ thr[t].range \in Event /\ thr[t].at \in 0 .. NPages
        /\ \A k \in Monitor : mon[k] \in MonitorRec
    BY DEF IInv, TypeOK, ThreadRec
  <1>2. PICK m \in Monitor : m = thr[t].fd
    BY DEF FilterVma, FilterNoVma, FilterDone, IInv, FdOK
  <1>3. thr[t].pc = "filter" /\ \A u \in Thread : u # t => thr[u].pc # "filter"
    BY OneLoop DEF FilterVma, FilterNoVma, FilterDone
  <1>4. \A p \in Pages(thr[t].range.start, thr[t].range.end) \ mapped : p < thr[t].at => Reported(m, p)
    BY <1>2, <1>3 DEF ReportInv, LoopReported
  <1>5. \A k \in Monitor : mon[k].owed \subseteq Page
    BY <1>1 DEF MonitorRec
  <1>6. ASSUME NEW a \in Nat, thr' = [thr EXCEPT ![t].at = a], mapped' = mapped,
               \A k \in Monitor, p \in Page : Reported(k, p) => Reported(k, p)',
               \A k \in Monitor : mon'[k].owed = mon[k].owed /\ mon'[k].state = mon[k].state,
               \A p \in Pages(thr[t].range.start, thr[t].range.end) \ mapped :
                  thr[t].at <= p /\ p < a => Reported(m, p)'
        PROVE  ReportInv'
    <2>1. OwedReported'
      BY <1>5, <1>6 DEF ReportInv, OwedReported
    <2>2. /\ thr'[t].pc = "filter" /\ thr'[t].fd = m /\ thr'[t].range = thr[t].range /\ thr'[t].at = a
          /\ \A u \in Thread : u # t => thr'[u] = thr[u]
      BY <1>1, <1>2, <1>3, <1>6 DEF IInv, TypeOK, ThreadRec
    <2>3. ASSUME NEW u \in Thread, NEW k \in Monitor, thr'[u].pc = "filter", thr'[u].fd = k,
                 NEW p \in Pages(thr'[u].range.start, thr'[u].range.end) \ mapped', p < thr'[u].at
          PROVE  Reported(k, p)'
      <3>1. u = t /\ k = m
        BY <1>3, <2>2, <2>3
      <3>2. p \in Pages(thr[t].range.start, thr[t].range.end) \ mapped /\ p < a /\ p \in Page /\ p \in Nat
        BY <1>6, <2>2, <2>3, <3>1 DEF Pages, Page
      <3>3. CASE p < thr[t].at
        BY <1>4, <1>6, <3>1, <3>2, <3>3
      <3>4. CASE ~(p < thr[t].at)
        <4>1. thr[t].at <= p
          BY <1>1, <3>2, <3>4
        <4> QED BY <1>6, <3>1, <3>2, <4>1
      <3> QED BY <3>3, <3>4
    <2>4. LoopReported'
      BY <2>3 DEF LoopReported, Pages
    <2> QED BY <2>1, <2>4 DEF ReportInv
  <1>7. ASSUME NEW v \in Page, FilterVma(t, v)
        PROVE  ReportInv'
    <2> DEFINE e == [start |-> thr[t].at, end |-> IF v < thr[t].range.end THEN v ELSE thr[t].range.end]
    <2>1. e \in Event /\ v \in Nat /\ v + 1 \in Nat
      BY <1>1, DriverAssumption DEF Event, Page
    <2>2. /\ v \in mapped /\ thr[t].at <= v
          /\ \A q \in mapped : thr[t].at <= q => v <= q
          /\ thr' = [thr EXCEPT ![t].at = v + 1] /\ mapped' = mapped
          /\ IF thr[t].at < v THEN QueueEvent(m, mon[m], e) ELSE UNCHANGED mon
      BY <1>2, <1>7 DEF FilterVma, VmaAtOrAbove
    <2>3. \A p \in Pages(thr[t].range.start, thr[t].range.end) \ mapped :
             thr[t].at <= p /\ p < v + 1 => thr[t].at < v /\ p \in Pages(e.start, e.end)
      <3> SUFFICES ASSUME NEW p \in Pages(thr[t].range.start, thr[t].range.end) \ mapped,
                          thr[t].at <= p, p < v + 1
                   PROVE  thr[t].at < v /\ p \in Pages(e.start, e.end)
        OBVIOUS
      <3>1. p \in Page /\ p \in Nat /\ p < thr[t].range.end /\ p # v
        BY <2>2 DEF Pages, Page
      <3>2. p < v /\ thr[t].at < v
        BY <1>1, <2>1, <3>1
      <3> QED BY <3>1, <3>2 DEF Pages
    <2> HIDE DEF e
    <2>4. CASE thr[t].at < v
      <3>1. /\ \A k \in Monitor, p \in Page : Reported(k, p) => Reported(k, p)'
            /\ \A p \in Pages(e.start, e.end) : Reported(m, p)'
            /\ mon'[m].owed = mon[m].owed /\ mon'[m].state = mon[m].state
            /\ \A k \in Monitor : k # m => mon'[k] = mon[k]
        BY <1>1, <2>1, <2>2, <2>4, QueueReports DEF IInv
      <3>2. \A k \in Monitor : mon'[k].owed = mon[k].owed /\ mon'[k].state = mon[k].state
        BY <3>1
      <3> QED BY <1>6, <2>1, <2>2, <2>3, <3>1, <3>2
    <2>5. CASE ~(thr[t].at < v)
      <3>1. \A k \in Monitor, p \in Page : Reported(k, p) => Reported(k, p)'
        BY <2>2, <2>5 DEF Reported
      <3> QED BY <1>6, <2>1, <2>2, <2>3, <2>5, <3>1
    <2> QED BY <2>4, <2>5
  <1>8. CASE FilterNoVma(t)
    <2> DEFINE e == [start |-> thr[t].at, end |-> thr[t].range.end]
    <2>1. e \in Event /\ thr[t].range.end \in Nat
      BY <1>1, DriverAssumption DEF Event
    <2>2. /\ thr' = [thr EXCEPT ![t].at = thr[t].range.end] /\ mapped' = mapped
          /\ QueueEvent(m, mon[m], e)
      BY <1>2, <1>8 DEF FilterNoVma
    <2>3. \A p \in Pages(thr[t].range.start, thr[t].range.end) \ mapped :
             thr[t].at <= p /\ p < thr[t].range.end => p \in Pages(e.start, e.end)
      BY DEF Pages
    <2> HIDE DEF e
    <2>4. /\ \A k \in Monitor, p \in Page : Reported(k, p) => Reported(k, p)'
          /\ \A p \in Pages(e.start, e.end) : Reported(m, p)'
          /\ mon'[m].owed = mon[m].owed /\ mon'[m].state = mon[m].state
          /\ \A k \in Monitor : k # m => mon'[k] = mon[k]
      BY <1>1, <2>1, <2>2, QueueReports DEF IInv
    <2>5. \A k \in Monitor : mon'[k].owed = mon[k].owed /\ mon'[k].state = mon[k].state
      BY <2>4
    <2> QED BY <1>6, <2>1, <2>2, <2>3, <2>4, <2>5
  <1>9. CASE FilterDone(t)
    <2>1. /\ mon'[m].evts = mon[m].evts /\ mon'[m].lost = mon[m].lost /\ mon'[m].state = mon[m].state
          /\ mon'[m].owed = mon[m].owed \union (Pages(thr[t].range.start, thr[t].range.end) \ mapped)
          /\ \A k \in Monitor : k # m => mon'[k] = mon[k]
      BY <1>1, <1>2, <1>9 DEF FilterDone, Owing, IInv, TypeOK, MonitorRec
    <2>2. \A k \in Monitor : \A p : Reported(k, p)' <=> Reported(k, p)
      BY <2>1 DEF Reported
    <2>3. \A p \in Pages(thr[t].range.start, thr[t].range.end) : p < thr[t].at
      BY <1>1, <1>9 DEF FilterDone, Pages, Page, Event
    <2>4. OwedReported'
      <3> SUFFICES ASSUME NEW k \in Monitor, mon'[k].state = "open", NEW p \in mon'[k].owed
                   PROVE  Reported(k, p)
        BY <2>2 DEF OwedReported
      <3>1. p \in mon[k].owed \/ (k = m /\ p \in Pages(thr[t].range.start, thr[t].range.end) \ mapped)
        BY <2>1
      <3>2. mon[k].state = "open"
        BY <2>1
      <3> QED BY <1>4, <2>3, <3>1, <3>2 DEF ReportInv, OwedReported
    <2>5. \A u \in Thread : thr'[u].pc # "filter"
      BY <1>1, <1>3, <1>9 DEF FilterDone, IInv, TypeOK, ThreadRec
    <2>6. LoopReported'
      BY <2>5 DEF LoopReported
    <2> QED BY <2>4, <2>6 DEF ReportInv
  <1> QED BY <1>7, <1>8, <1>9

LEMMA ReportFile ==
  ASSUME IInv, ReportInv, NEW t \in Thread,
         \/ \E m \in Monitor : Open(t, m) \/ Release(t, m)
         \/ OpenRegister(t) \/ OpenFail(t) \/ ReleaseDone(t)
  PROVE  ReportInv'
  <1>1. /\ thr \in [Thread -> ThreadRec]
        /\ \A m \in Monitor : mon[m] \in MonitorRec
    BY DEF IInv, TypeOK
  <1>2. CASE (\E m \in Monitor : Open(t, m)) \/ OpenFail(t)
    <2>1. UNCHANGED <<mon, mapped>>
      BY <1>2 DEF Open, OpenFail
    <2>2. CASE \E m \in Monitor : Open(t, m)
      <3>1. thr'[t].pc # "filter" /\ \A u \in Thread : u # t => thr'[u] = thr[u]
        <4>1. PICK m \in Monitor : thr' = [thr EXCEPT ![t].pc = "open", ![t].fd = m]
          BY <2>2 DEF Open
        <4>2. \A u \in Thread : u # t => thr'[u] = thr[u]
          BY <1>1, <4>1
        <4>3. thr'[t].pc = "open"
          BY <1>1, <4>1 DEF ThreadRec
        <4> QED BY <4>2, <4>3
      <3> QED BY <2>1, <3>1, ReportFrame
    <2>3. CASE OpenFail(t)
      <3>1. thr'[t].pc # "filter" /\ \A u \in Thread : u # t => thr'[u] = thr[u]
        BY <1>1, <2>3, IdleType DEF OpenFail
      <3> QED BY <2>1, <3>1, ReportFrame
    <2> QED BY <1>2, <2>2, <2>3
  <1>3. ASSUME NEW m \in Monitor, Release(t, m)
        PROVE  ReportInv'
    <2>1. mon' = [mon EXCEPT ![m] = [Cleaned(mon[m]) EXCEPT !.state = "closing"]]
      BY <1>3 DEF Release
    <2>2. mon'[m].state = "closing" /\ \A k \in Monitor : k # m => mon'[k] = mon[k]
      <3>1. Cleaned(mon[m]) \in MonitorRec
        BY <1>1, CleanedRec
      <3> QED BY <2>1, <3>1 DEF MonitorRec, IInv, TypeOK
    <2>3. OwedReported'
      BY <2>2 DEF ReportInv, OwedReported, Reported
    <2>4. \A u \in Thread : thr'[u].pc # "filter"
      <3>1. thr'[t].pc = "close" /\ \A u \in Thread : u # t => thr'[u] = thr[u]
        BY <1>1, <1>3 DEF Release, ThreadRec
      <3> QED BY <1>3, <3>1, NoLoop DEF Release
    <2> QED BY <2>3, <2>4 DEF ReportInv, LoopReported
  <1>4. CASE OpenRegister(t)
    <2>1. PICK m \in Monitor : m = thr[t].fd
      BY <1>4 DEF OpenRegister, IInv, FdOK
    <2>2. mon'[m].owed = {} /\ \A k \in Monitor : k # m => mon'[k] = mon[k]
      BY <1>4, <2>1 DEF OpenRegister, NewMonitor, IInv, TypeOK
    <2>3. OwedReported'
      BY <2>2 DEF ReportInv, OwedReported, Reported
    <2>4. \A u \in Thread : thr'[u].pc # "filter"
      <3>1. thr'[t].pc = "idle" /\ \A u \in Thread : u # t => thr'[u] = thr[u]
        BY <1>1, <1>4, IdleType DEF OpenRegister
      <3> QED BY <1>4, <3>1 DEF OpenRegister, MmapSemFree, Invalidating
    <2> QED BY <2>3, <2>4 DEF ReportInv, LoopReported
  <1>5. CASE ReleaseDone(t)
    <2>1. PICK m \in Monitor : m = thr[t].fd
      BY <1>5 DEF ReleaseDone, IInv, FdOK
    <2>2. /\ mon'[m].state = "closed" /\ mapped' = mapped
          /\ \A k \in Monitor : k # m => mon'[k] = mon[k]
      BY <1>5, <2>1 DEF ReleaseDone, NewMonitor, IInv, TypeOK
    <2>3. OwedReported'
      BY <2>2 DEF ReportInv, OwedReported, Reported
    <2>4. thr'[t] = Idle /\ \A u \in Thread : u # t =>
              thr'[u] = [thr[u] EXCEPT !.toStart = @ \ {m}, !.started = @ \ {m}]
      BY <1>5, <2>1 DEF ReleaseDone
    <2>5. ASSUME NEW u \in Thread, u # t
          PROVE  /\ thr'[u].pc = thr[u].pc /\ thr'[u].fd = thr[u].fd
                 /\ thr'[u].range = thr[u].range /\ thr'[u].at = thr[u].at
      <3>1. thr[u] \in ThreadRec
        BY <2>5 DEF IInv, TypeOK
      <3> QED BY <2>4, <2>5, <3>1 DEF ThreadRec
    <2>6. ASSUME NEW u \in Thread, NEW k \in Monitor, thr'[u].pc = "filter", thr'[u].fd = k,
                 NEW p \in Pages(thr'[u].range.start, thr'[u].range.end) \ mapped', p < thr'[u].at
          PROVE  Reported(k, p)'
      <3>1. u # t
        BY <2>4, <2>6, IdleType
      <3>2. thr[u].pc = "filter" /\ thr[u].fd = k /\ k # m
        <4>1. thr[u].pc = "filter" /\ thr[u].fd = k
          BY <2>5, <2>6, <3>1
        <4>2. \A x \in Thread : thr[x].pc = "filter" => thr[x].fd # m
          BY <1>5, <2>1 DEF ReleaseDone
        <4> QED BY <4>1, <4>2
      <3>3. Reported(k, p)
        BY <2>2, <2>5, <2>6, <3>1, <3>2 DEF ReportInv, LoopReported
      <3> QED BY <2>2, <3>2, <3>3 DEF Reported
    <2>7. LoopReported'
      BY <2>6 DEF LoopReported, Pages
    <2> QED BY <2>3, <2>7 DEF ReportInv
  <1> QED BY <1>2, <1>3, <1>4, <1>5

LEMMA ReportIoctl ==
  ASSUME IInv, ReportInv, NEW t \in Thread,
         \/ \E m \in Monitor : \/ GetState(t, m) \/ ReadEvtfd(t, m) \/ GetEvent(t, m)
                               \/ \E valid, filter \in BOOLEAN : SetEvtfd(t, m, valid, filter)
         \/ GetStateReturn(t)
  PROVE  ReportInv'
  <1>1. /\ thr \in [Thread -> ThreadRec] /\ mon \in [Monitor -> MonitorRec]
        /\ \A m \in Monitor : mon[m] \in MonitorRec
    BY DEF IInv, TypeOK
  <1>2. ASSUME NEW m \in Monitor, GetState(t, m)
        PROVE  ReportInv'
    <2>1. thr'[t].pc # "filter" /\ \A u \in Thread : u # t => thr'[u] = thr[u]
      BY <1>1, <1>2 DEF GetState, ThreadRec
    <2> QED BY <1>2, <2>1, ReportFrame DEF GetState
  <1>3. ASSUME NEW m \in Monitor, ReadEvtfd(t, m)
        PROVE  ReportInv'
    <2>1. thr[t].pc # "filter" /\ thr' = thr /\ mon' = mon /\ mapped' = mapped
      BY <1>3 DEF ReadEvtfd
    <2> QED BY <2>1, ReportFrame
  <1>4. CASE GetStateReturn(t)
    <2>1. thr'[t].pc # "filter" /\ \A u \in Thread : u # t => thr'[u] = thr[u]
      BY <1>1, <1>4, IdleType DEF GetStateReturn
    <2> QED BY <1>4, <2>1, ReportFrame DEF GetStateReturn
  <1>5. ASSUME NEW m \in Monitor, NEW valid \in BOOLEAN, NEW filter \in BOOLEAN, SetEvtfd(t, m, valid, filter)
        PROVE  ReportInv'
    <2>1. \A k \in Monitor : /\ mon'[k].evts = mon[k].evts /\ mon'[k].lost = mon[k].lost
                             /\ mon'[k].owed = mon[k].owed /\ mon'[k].state = mon[k].state
      BY <1>1, <1>5 DEF SetEvtfd, MonitorRec
    <2>2. thr[t].pc # "filter" /\ thr' = thr /\ mapped' = mapped
      BY <1>5 DEF SetEvtfd
    <2> QED BY <2>1, <2>2, ReportFrame
  <1>6. ASSUME NEW m \in Monitor, GetEvent(t, m)
        PROVE  ReportInv'
    <2>1. LoopReported'
      BY <1>6, NoLoop DEF GetEvent, FetchEvent, LoopReported
    <2>2. CASE mon[m].evts = <<>>
      <3>1. mon' = mon
        BY <1>6, <2>2 DEF GetEvent, FetchEvent
      <3> QED BY <2>1, <3>1 DEF ReportInv, OwedReported, Reported
    <2>3. CASE mon[m].evts # <<>>
      <3> DEFINE e == Head(mon[m].evts)
      <3>1. mon' = [mon EXCEPT ![m].evts = Tail(@), ![m].owed = @ \ Pages(e.start, e.end)]
        BY <1>6, <2>3 DEF GetEvent, FetchEvent
      <3> HIDE DEF e
      <3>2. /\ mon'[m].evts = Tail(mon[m].evts) /\ mon'[m].owed = mon[m].owed \ Pages(e.start, e.end)
            /\ mon'[m].lost = mon[m].lost /\ mon'[m].state = mon[m].state
            /\ \A k \in Monitor : k # m => mon'[k] = mon[k]
        BY <1>1, <3>1 DEF MonitorRec
      <3>3. mon[m].evts \in Seq(Event)
        BY <1>1 DEF MonitorRec
      <3>4. /\ Len(mon'[m].evts) = Len(mon[m].evts) - 1 /\ Len(mon[m].evts) \in Nat /\ e = mon[m].evts[1]
            /\ \A i \in 1 .. Len(mon[m].evts) - 1 : mon'[m].evts[i] = mon[m].evts[i + 1]
        BY <2>3, <3>2, <3>3 DEF e
      <3>5. ASSUME mon[m].state = "open", NEW p \in mon'[m].owed
            PROVE  Reported(m, p)'
        <4>1. p \in mon[m].owed /\ p \notin Pages(e.start, e.end)
          BY <3>2, <3>5
        <4>2. Reported(m, p)
          BY <3>5, <4>1 DEF ReportInv, OwedReported
        <4>3. CASE p \in mon[m].lost
          BY <3>2, <4>3 DEF Reported
        <4>4. ASSUME NEW i \in 1 .. Len(mon[m].evts), p \in Pages(mon[m].evts[i].start, mon[m].evts[i].end)
              PROVE  Reported(m, p)'
          <5>1. i # 1
            BY <3>4, <4>1, <4>4
          <5>2. PICK j \in 1 .. Len(mon[m].evts) - 1 : i = j + 1
            <6>1. i \in Nat /\ i >= 2 /\ i <= Len(mon[m].evts)
              BY <3>4, <5>1
            <6>2. i - 1 \in 1 .. Len(mon[m].evts) - 1 /\ i = (i - 1) + 1
              BY <3>4, <6>1
            <6> QED BY <6>2
          <5>3. j \in 1 .. Len(mon'[m].evts) /\ mon'[m].evts[j] = mon[m].evts[i]
            BY <3>4, <5>2
          <5>4. p \in Pages(mon'[m].evts[j].start, mon'[m].evts[j].end)
            BY <4>4, <5>3
          <5> QED BY <5>3, <5>4 DEF Reported
        <4> QED BY <4>2, <4>3, <4>4 DEF Reported
      <3>6. OwedReported'
        BY <3>2, <3>5 DEF ReportInv, OwedReported, Reported
      <3> QED BY <2>1, <3>6 DEF ReportInv
    <2> QED BY <2>2, <2>3
  <1> QED BY <1>2, <1>3, <1>4, <1>5, <1>6

-----------------------------------------------------------------------------

\* The invariant that both rest on.
DInv == IInv /\ CountInv /\ ReportInv

LEMMA InitDInv == Init => DInv
  <1> SUFFICES ASSUME Init
               PROVE  DInv
    OBVIOUS
  <1>1. /\ \A t \in Thread : thr[t].started = {} /\ thr[t].toStart = {} /\ thr[t].pc = "idle"
        /\ \A m \in Monitor : mon[m].state = "closed"
    BY DEF Init, Idle, NewMonitor
  <1>2. ThreadShape /\ StartCount
    BY <1>1 DEF ThreadShape, StartCount
  <1>3. \A m \in Monitor : IsFiniteSet(Starters(m))
    <2>1. \A m \in Monitor : Starters(m) = {}
      BY <1>1 DEF Starters
    <2> QED BY <2>1, FS_EmptySet
  <1>4. ReportInv
    BY <1>1 DEF ReportInv, OwedReported, LoopReported
  <1> QED BY <1>2, <1>3, <1>4, InitIInv DEF DInv, CountInv

LEMMA StepDInv == DInv /\ [Next]_driverVars => DInv'
  <1> SUFFICES ASSUME DInv, [Next]_driverVars
               PROVE  DInv'
    OBVIOUS
  <1>1. IInv /\ CountInv /\ ReportInv /\ IInv'
    BY StepIInv DEF DInv
  <1>2. ASSUME NEW t \in Thread, Handler(t)
        PROVE  CountInv' /\ ReportInv'
    BY <1>1, <1>2, CountRange, CountFilter, CountFile, CountIoctl,
       ReportRange, ReportFilter, ReportFile, ReportIoctl DEF Handler
  <1>3. ASSUME NEW t \in Thread, Request(t)
        PROVE  CountInv' /\ ReportInv'
    BY <1>1, <1>3, CountRange, CountFile, CountIoctl, ReportRange, ReportFile, ReportIoctl DEF Request
  <1>4. ASSUME NEW t \in Thread, Reader(t)
        PROVE  CountInv' /\ ReportInv'
    BY <1>1, <1>4, CountIoctl, ReportIoctl DEF Reader
  <1>5. CASE UNCHANGED driverVars
    <2>1. UNCHANGED <<mon, thr, mapped>>
      BY <1>5 DEF driverVars
    <2>2. CountInv'
      <3>1. ThreadShape'
        BY <1>1, <2>1 DEF CountInv, ThreadShape, Invalidating
      <3> QED BY <1>1, <2>1, <3>1, CountFrame DEF CountInv
    <2>3. ReportInv'
      BY <1>1, <2>1 DEF ReportInv, OwedReported, LoopReported, Reported
    <2> QED BY <1>1, <2>2, <2>3 DEF DInv
  <1> QED BY <1>1, <1>2, <1>3, <1>4, <1>5 DEF DInv, Next

THEOREM Whole == Spec => []DInv
  BY InitDInv, StepDInv, PTL DEF Spec

\* What GET_STATE answers (mmu_monitor.c:202-203) is the queue and the
\* invalidations in progress, and a client that reads zero has been told of all
\* that was unmapped, whichever handlers of whichever threads run in between.
THEOREM CountsExactly == Spec => []CountExact
  <1>1. DInv => CountExact
    <2> SUFFICES ASSUME DInv
                 PROVE  CountExact
      OBVIOUS
    <2>1. StartCount
      BY DEF DInv, CountInv
    <2>2. ASSUME NEW m \in Monitor, mon[m].state = "open", EvtCnt(m) = 0
          PROVE  /\ mon[m].owed \subseteq mon[m].lost
                 /\ \A t \in Thread : m \notin thr[t].started
      <3>1. mon[m].starts = Cardinality(Starters(m)) /\ IsFiniteSet(Starters(m))
        BY <2>2 DEF DInv, CountInv, StartCount, Starters
      <3>2. Len(mon[m].evts) + mon[m].starts = 0 /\ Len(mon[m].evts) \in Nat
        BY <2>2 DEF EvtCnt, DInv, IInv, TypeOK, MonitorRec
      <3>3. Cardinality(Starters(m)) \in Nat
        BY <3>1, FS_CardinalityType
      <3>4. Len(mon[m].evts) = 0 /\ Cardinality(Starters(m)) = 0
        BY <3>1, <3>2, <3>3
      <3>5. Starters(m) = {}
        BY <3>1, <3>4, FS_EmptySet
      <3>6. \A p \in mon[m].owed : p \in mon[m].lost
        BY <2>2, <3>4 DEF DInv, ReportInv, OwedReported, Reported
      <3> QED BY <3>5, <3>6 DEF Starters
    <2>3. ZeroMeansSynced
      BY <2>2 DEF ZeroMeansSynced
    <2> QED BY <2>1, <2>3 DEF CountExact
  <1> QED BY <1>1, Whole, PTL

\* range_end's loop over the vmas leaves no unmapped page of the range out, and
\* the queue loses none of what it took.
THEOREM ReportsUnmapped == Spec => []UnmapReported
  <1>1. DInv => UnmapReported
    BY DEF DInv, ReportInv, OwedReported, Reported, UnmapReported
  <1> QED BY <1>1, Whole, PTL
=============================================================================
