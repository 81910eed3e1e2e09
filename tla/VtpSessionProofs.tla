-------------------------- MODULE VtpSessionProofs --------------------------
(***************************************************************************)
(* Proofs about VtpSession, for any number of connections, requests, calls,*)
(* unmappings and faults, and any feature list.  What an invariant says of *)
(* a step of connecting or disconnecting depends on what all the others    *)
(* have left behind, so one invariant says for each step what is           *)
(* allocated, what the CSRs hold, which threads there are, who may hold    *)
(* the mutex and what is pinned.                                           *)
(***************************************************************************)
EXTENDS VtpSession, TLAPS

\* Steps of mpfConnect after the handle is made; those in which threads other
\* than the caller's may use the session; and the rest of mpfVtpTerm up to the
\* point where the page table is gone.
Connecting == {"pt", "buffers", "reset", "disable", "root", "enable", "srv", "ringaddr", "spawn",
               "undo"}
Threaded == {"open", "off", "srvterm", "srvjoin"}
Closing == {"monterm", "monjoin", "ptterm"}

\* What is allocated at each step.
Allocated ==
    /\ main \in {"start", "closed"} => live = {}
    /\ main = "pt" => live = {"handle"}
    /\ main = "buffersterm" => live \subseteq {"buffers", "handle"}
    /\ main \in {"start", "pt", "failed", "buffersterm", "closed"} \/ "mutex" \in live
    /\ main \in {"ringaddr", "spawn", "undo"} => Shim = "server"
    /\ main = "open" => Shim \in {"none", "walker", "server"}
    /\ "server" \in live =>
          Shim = "server" /\ main \in {"ringaddr", "spawn", "undo", "failed"} \union Threaded
    /\ "ring" \in live => "server" \in live /\ main \in {"ringaddr", "spawn"} \union Threaded
    /\ Shim = "server" /\ main \in {"ringaddr", "spawn"} \union Threaded => "ring" \in live
    /\ "rootpin" \in live => Shim = "walker"
    /\ Shim = "walker" /\ main \in {"buffers", "reset", "disable", "root", "enable", "srv"}
                                     \union Threaded \union Closing => "rootpin" \in live
    /\ main = "buffers" \/ (main = "failed" /\ "rootpin" \in live) => "buffers" \notin live

\* What VTP's CSRs hold at each step, and what an earlier session may have left
\* in its pipeline.
Programmed ==
    /\ main \in {"reset", "disable", "root", "enable"} => Shim # "none"
    /\ main \in {"disable", "root", "enable"} => hw.tlb \in {0, Session}
    /\ main = "enable" => hw.root = Session \/ hw.csrLost
    /\ hw.on /\ ~hw.csrLost =>
          /\ main \in {"srv", "ringaddr", "spawn", "undo", "failed", "open", "off"}
          /\ Shim # "none" /\ hw.root = Session /\ hw.tlb \in {0, Session}
    /\ Shim = "server" /\ main \in {"spawn"} \union Threaded => hw.ring = Session
    /\ main = "open" \/ fpga.pipe = "none" \/ late

\* A thread that is about to give its monitor a file or a thread.
Starting(t) == thr[t].pc = "start" \/ (thr[t].pc = "open" /\ thr[t].mon # None)

\* Which threads there are at each step, and the monitors that they know.
Threads ==
    /\ thr[User].pc # "idle" => main = "open"
    /\ thr[Srv].pc # "none" => main \in Threaded /\ "server" \in live
    /\ thr[Srv].cancel \/ thr[Srv].pc = "ended" => main = "srvjoin"
    /\ \A t \in Thread :
          /\ thr[t].pc \in {"none", "idle", "wait"} => thr[t].mon = None
          /\ Starting(t) => /\ thr[t].mon \in Monitors /\ monitor # None
                            /\ mons[thr[t].mon].used /\ mons[thr[t].mon].pc = "none"
                            /\ mons[thr[t].mon].session = Session
          /\ thr[t].pc = "start" => mons[thr[t].mon].fd
          /\ thr[t].pc \in {"poll", "state"} => thr[t].mon \in Monitors /\ mons[thr[t].mon].used
    /\ \A t, u \in Thread : Starting(t) /\ Starting(u) /\ thr[t].mon = thr[u].mon => t = u

\* The monitors of this session and of earlier ones, and their queues.
Watching ==
    /\ Session >= 1
    /\ monitor # None => /\ main \in Threaded \union {"monterm", "monjoin"}
                         /\ mons[monitor].used /\ mons[monitor].session = Session
    /\ main = "monjoin" => monitor # None
    /\ \A m \in Monitors :
          /\ mons[m].pc # "none" => mons[m].used
          /\ mons[m].session <= Session /\ mons[m].queue <= count.unmaps
          /\ mons[m].pc \in {"lock", "drain"} => mons[m].taken <= mons[m].queue
          /\ main \in {"start", "failed"} \union Connecting => mons[m].session # Session

\* Who holds the page table's mutex: nobody while a session is made, or after
\* its page table is gone.
Locked ==
    /\ main \in {"start", "failed", "buffersterm", "closed"} \union Connecting => mutex = Free
    /\ \A t \in Thread : thr[t].pc \in {"state", "size", "pin"} => mutex = t
    /\ \A m \in Monitors : mons[m].pc = "drain" => mutex = m
    /\ MutexReturns

\* What is pinned is watched, and an unmapping of it is in a queue that will be
\* read.
Excused == ~setup.device \/ early \/ count.faults > 0
PinnedPage ==
    /\ page.pinned => main \in Threaded \union Closing
    /\ \A t \in Thread : thr[t].pc \in {"poll", "state", "lookup", "size", "pin"} =>
          (\E m \in Monitors : Watches(m)) \/ Excused
    /\ PinsWatched
    /\ main = "open" /\ page.pinned /\ page.watched =>
          \E m \in Monitors : Watches(m) /\ (page.stale => mons[m].queue > 0)

SessionInv ==
    TypeOK /\ Allocated /\ Programmed /\ Threads /\ Watching /\ Locked /\ PinnedPage

-----------------------------------------------------------------------------
(* Records.                                                                *)

ThreadPc == {"none", "idle", "wait", "open", "start", "poll", "state", "lookup", "size", "pin",
             "answer", "inval", "ended"}
ThreadRec == [pc : ThreadPc, kind : {"none", "demand", "spec", "get", "sync"},
              mon : Monitors \union {None}, cancel : BOOLEAN]
MonitorRec == [used : BOOLEAN, fd : BOOLEAN, pc : {"none", "read", "lock", "drain", "ended"},
               queue : 0 .. MaxUnmaps, taken : 0 .. MaxUnmaps,
               cancel : BOOLEAN, session : 0 .. MaxSessions]
HwRec == [on : BOOLEAN, root : 0 .. MaxSessions, ring : 0 .. MaxSessions,
          tlb : 0 .. MaxSessions, csrLost : BOOLEAN]
FpgaRec == [pipe : {"none", "demand", "spec"}, slot : {"none", "demand", "spec"}]
PageRec == [mapped : BOOLEAN, pinned : BOOLEAN, stale : BOOLEAN, watched : BOOLEAN]
CountRec == [sessions : 0 .. MaxSessions, requests : 0 .. MaxRequests, calls : 0 .. MaxCalls,
             unmaps : 0 .. MaxUnmaps, faults : 0 .. MaxFaults]
SetupRec == [chain : Chains, id : Wanted, mmio : Mapped, device : BOOLEAN]
MainPc == {"start"} \union Connecting \union {"failed"} \union Threaded \union Closing
          \union {"buffersterm", "closed"}

\* The type invariant with its records named.
Typed ==
    /\ main \in MainPc /\ setup \in SetupRec /\ hw \in HwRec /\ fpga \in FpgaRec
    /\ live \subseteq Resource
    /\ monitor \in Monitors \union {None} /\ mons \in [Monitors -> MonitorRec]
    /\ thr \in [Thread -> ThreadRec]
    /\ mutex \in Thread \union Monitors \union {Free, Lost}
    /\ page \in PageRec /\ sizeFd \in {"unset", "open", "none"} /\ count \in CountRec
    /\ early \in BOOLEAN /\ late \in BOOLEAN

LEMMA TypedIs == TypeOK <=> Typed
  <1>1. main \in MainPc <=>
          main \in {"start", "pt", "buffers", "reset", "disable", "root", "enable", "srv", "ringaddr",
                    "spawn", "undo", "failed", "open", "off", "srvterm", "srvjoin", "monterm",
                    "monjoin", "ptterm", "buffersterm", "closed"}
    BY DEF MainPc, Connecting, Threaded, Closing
  <1> QED BY <1>1 DEF TypeOK, Typed, ThreadRec, ThreadPc, MonitorRec, HwRec, FpgaRec, PageRec,
             CountRec, SetupRec

LEMMA Distinct ==
  /\ Srv \in Thread /\ User \in Thread /\ Srv # User
  /\ None \notin Monitors /\ Free \notin Monitors /\ Lost \notin Monitors
  /\ Free \notin Thread /\ Lost \notin Thread /\ Free # Lost
  /\ \A t \in Thread : t = Srv \/ t = User
  /\ \A t \in Thread : t \notin Monitors
  BY SessionAssumption DEF Thread

\* A step of thread t to pc, with mon in hand.
Moved(t, pc, mon) ==
    /\ thr' \in [Thread -> ThreadRec]
    /\ thr'[t].pc = pc /\ thr'[t].mon = mon /\ thr'[t].cancel = thr[t].cancel
    /\ \A u \in Thread : u # t => thr'[u] = thr[u]

LEMMA StepMoves ==
  ASSUME Typed, NEW t \in Thread, NEW pc \in ThreadPc, Step(t, pc)
  PROVE  Moved(t, pc, thr[t].mon)
  <1>1. thr' = [thr EXCEPT ![t].pc = pc] /\ thr \in [Thread -> ThreadRec]
    BY DEF Step, Typed
  <1>2. [thr[t] EXCEPT !.pc = pc] \in ThreadRec
    BY <1>1 DEF ThreadRec
  <1>3. thr' = [thr EXCEPT ![t] = [thr[t] EXCEPT !.pc = pc]]
    BY <1>1
  <1>4. thr' \in [Thread -> ThreadRec]
    BY <1>1, <1>2, <1>3
  <1>5. thr'[t] = [thr[t] EXCEPT !.pc = pc] /\ \A u \in Thread : u # t => thr'[u] = thr[u]
    BY <1>1, <1>3
  <1>6. thr'[t].pc = pc /\ thr'[t].mon = thr[t].mon /\ thr'[t].cancel = thr[t].cancel
    BY <1>1, <1>5 DEF ThreadRec
  <1> QED BY <1>4, <1>5, <1>6 DEF Moved

LEMMA ReturnMoves ==
  ASSUME Typed, NEW t \in Thread, Return(t)
  PROVE  Moved(t, "idle", None)
  <1> DEFINE r == [Idle EXCEPT !.cancel = thr[t].cancel]
  <1>1. thr' = [thr EXCEPT ![t] = r] /\ thr \in [Thread -> ThreadRec]
    BY DEF Return, Typed
  <1>2. r \in ThreadRec /\ r.pc = "idle" /\ r.mon = None /\ r.cancel = thr[t].cancel
    BY <1>1 DEF ThreadRec, ThreadPc, Idle, NoThread
  <1> HIDE DEF r
  <1>3. thr' \in [Thread -> ThreadRec] /\ thr'[t] = r /\ \A u \in Thread : u # t => thr'[u] = thr[u]
    BY <1>1, <1>2
  <1> QED BY <1>2, <1>3 DEF Moved

LEMMA PastWaitMoves ==
  ASSUME Typed, NEW t \in Thread, PastWait(t)
  PROVE  Moved(t, "idle", None) \/ Moved(t, "lookup", thr[t].mon)
  <1>1. CASE Return(t)
    BY <1>1, ReturnMoves
  <1>2. CASE Step(t, "lookup")
    BY <1>2, StepMoves DEF ThreadPc
  <1> QED BY <1>1, <1>2 DEF PastWait

LEMMA PollOfMoves ==
  ASSUME Typed, NEW t \in Thread, NEW m \in Monitors, PollOf(t, m)
  PROVE  \/ Moved(t, "poll", m) /\ mons[m].fd
         \/ (Moved(t, "idle", None) \/ Moved(t, "lookup", thr[t].mon)) /\ ~mons[m].fd
  <1>1. CASE mons[m].fd
    <2> DEFINE r == [thr[t] EXCEPT !.pc = "poll", !.mon = m]
    <2>1. thr' = [thr EXCEPT ![t] = r] /\ thr \in [Thread -> ThreadRec]
      BY <1>1 DEF PollOf, Typed
    <2>2. r \in ThreadRec /\ r.pc = "poll" /\ r.mon = m /\ r.cancel = thr[t].cancel
      BY <2>1 DEF ThreadRec, ThreadPc
    <2> HIDE DEF r
    <2>3. thr' \in [Thread -> ThreadRec] /\ thr'[t] = r /\ \A u \in Thread : u # t => thr'[u] = thr[u]
      BY <2>1, <2>2
    <2> QED BY <1>1, <2>2, <2>3 DEF Moved
  <1>2. CASE ~mons[m].fd
    BY <1>2, PastWaitMoves DEF PollOf
  <1> QED BY <1>1, <1>2

LEMMA FinishMoves ==
  ASSUME Typed, NEW t \in Thread, NEW ok, Finish(t, ok)
  PROVE  Moved(t, "idle", None) \/ Moved(t, "answer", thr[t].mon)
  <1>1. CASE Return(t)
    BY <1>1, ReturnMoves
  <1>2. CASE Step(t, "answer")
    BY <1>2, StepMoves DEF ThreadPc
  <1> QED BY <1>1, <1>2 DEF Finish

\* The bounds.
LEMMA Faults ==
  ASSUME Typed, Fault \/ NoFault
  PROVE  /\ count' \in CountRec /\ Session' = Session /\ count'.unmaps = count.unmaps
         /\ Fault \/ count.faults > 0 => count'.faults > 0
  <1>1. count \in CountRec /\ MaxFaults \in Nat
    BY SessionAssumption DEF Typed
  <1>2. CASE NoFault /\ ~Fault
    <2>1. count' = count
      BY <1>2 DEF NoFault
    <2> QED BY <1>1, <1>2, <2>1 DEF Session
  <1>3. CASE Fault
    <2>1. count' = [count EXCEPT !.faults = count.faults + 1] /\ count.faults < MaxFaults
      BY <1>3 DEF Fault
    <2>2. count.faults + 1 \in 0 .. MaxFaults /\ count.faults + 1 > 0
      BY <1>1, <2>1 DEF CountRec
    <2>3. count' \in CountRec
      BY <1>1, <2>1, <2>2 DEF CountRec
    <2>4. count'.faults = count.faults + 1 /\ count'.sessions = count.sessions
          /\ count'.unmaps = count.unmaps
      BY <1>1, <2>1 DEF CountRec
    <2> QED BY <2>2, <2>3, <2>4 DEF Session
  <1> QED BY <1>2, <1>3

\* A write of a CSR takes effect or not.
LEMMA Writes ==
  ASSUME Typed, NEW new \in HwRec, WriteCsr(new) \/ CsrFails(new)
  PROVE  /\ hw' \in HwRec /\ count' \in CountRec /\ Session' = Session
         /\ count'.unmaps = count.unmaps /\ (count.faults > 0 => count'.faults > 0)
         /\ WriteCsr(new) => hw' = new
         /\ CsrFails(new) => /\ ~setup.mmio
                             /\ hw'.on = hw.on /\ hw'.root = hw.root /\ hw'.ring = hw.ring
                             /\ hw'.tlb = hw.tlb
                             /\ hw'.csrLost <=> hw.csrLost \/ new # hw
  <1>1. Fault \/ NoFault
    BY DEF WriteCsr, CsrFails
  <1>2. /\ count' \in CountRec /\ Session' = Session
        /\ count'.unmaps = count.unmaps /\ (count.faults > 0 => count'.faults > 0)
    BY <1>1, Faults
  <1>3. CASE WriteCsr(new) /\ ~CsrFails(new)
    BY <1>2, <1>3 DEF WriteCsr
  <1>4. CASE CsrFails(new)
    <2>1. PICK b \in BOOLEAN : (b <=> hw.csrLost \/ new # hw) /\ hw' = [hw EXCEPT !.csrLost = b]
      BY <1>4 DEF CsrFails, Typed, HwRec
    <2>2. hw \in HwRec
      BY DEF Typed
    <2>3. /\ hw' \in HwRec
          /\ hw'.on = hw.on /\ hw'.root = hw.root /\ hw'.ring = hw.ring /\ hw'.tlb = hw.tlb
          /\ hw'.csrLost = b
      BY <2>1, <2>2 DEF HwRec
    <2>4. WriteCsr(new) => hw' = new
      BY DEF WriteCsr
    <2> QED BY <1>2, <1>4, <2>1, <2>3, <2>4 DEF CsrFails
  <1> QED BY <1>3, <1>4

-----------------------------------------------------------------------------
(* What the parts of the invariant depend on.                              *)

LEMMA ShimStays == ASSUME setup' = setup PROVE Shim' = Shim
  BY DEF Shim, Found, Walked

LEMMA AllocatedStays ==
  ASSUME Allocated, main' = main, live' = live, setup' = setup PROVE Allocated'
  BY ShimStays DEF Allocated

LEMMA ProgrammedStays ==
  ASSUME Programmed, main' = main, hw' = hw, Session' = Session, setup' = setup,
         fpga'.pipe = fpga.pipe, late' = late
  PROVE  Programmed'
  BY ShimStays DEF Programmed

LEMMA WatchingStays ==
  ASSUME Watching, main' = main, monitor' = monitor, mons' = mons, Session' = Session,
         count'.unmaps = count.unmaps
  PROVE  Watching'
  BY DEF Watching

\* The user makes no call, and the server does not work for anybody.
Calm == /\ thr[User].pc = "idle" /\ thr[Srv].pc \in {"none", "idle"} /\ ~thr[Srv].cancel
        /\ thr[User].mon = None /\ thr[Srv].mon = None

LEMMA CalmThreads ==
  ASSUME Calm', thr'[Srv].pc # "none" => main' \in Threaded /\ "server" \in live'
  PROVE  Threads'
  <1>1. \A t \in Thread : thr'[t].pc \in {"none", "idle"} /\ thr'[t].mon = None
    BY Distinct DEF Calm
  <1>2. \A t \in Thread : ~Starting(t)'
    BY <1>1 DEF Starting
  <1> QED BY <1>1, <1>2 DEF Threads, Calm

\* Where no thread but the caller's may be in the session, all is calm.
LEMMA IsCalm ==
  ASSUME Threads, main \notin Threaded
  PROVE  Calm /\ thr[Srv].pc = "none"
  BY Distinct DEF Threads, Calm, Threaded

\* A step of mpfConnect leaves the monitors, the mutex and the page alone.
LEMMA ConnectingKeeps ==
  ASSUME SessionInv, main \in Connecting, main' \in Connecting \union {"failed", "open"},
         setup' = setup, monitor' = monitor, mons' = mons, mutex' = mutex, page' = page,
         early' = early, Session' = Session, count'.unmaps = count.unmaps, Calm'
  PROVE  Watching' /\ Locked' /\ PinnedPage'
  <1>1. main \notin Threaded \union Closing /\ main # "monterm" /\ main # "monjoin"
        /\ main' \notin {"monterm", "monjoin"}
    BY DEF Connecting, Threaded, Closing
  <1>2. monitor = None /\ mutex = Free /\ ~page.pinned
    BY <1>1 DEF SessionInv, Watching, Locked, PinnedPage
  <1>3. Watching'
    BY <1>1, <1>2 DEF SessionInv, Watching, Connecting
  <1>4. \A t \in Thread : thr'[t].pc \in {"none", "idle"}
    BY Distinct DEF Calm
  <1>5. Locked'
    BY <1>2, <1>4 DEF SessionInv, Locked, MutexReturns
  <1>6. PinnedPage'
    BY <1>2, <1>4 DEF PinnedPage, PinsWatched
  <1> QED BY <1>3, <1>5, <1>6

-----------------------------------------------------------------------------
(* The steps of mpfConnect.                                                *)

\* Each is about what is allocated and what the CSRs hold.
LEMMA ConnectStep ==
  ASSUME SessionInv, main \in Connecting, main' \in Connecting \union {"failed", "open"},
         UNCHANGED <<setup, fpga, monitor, mons, thr, mutex, page, sizeFd, early, late>>,
         count' \in CountRec, Session' = Session, count'.unmaps = count.unmaps,
         hw' \in HwRec, live' \subseteq Resource, Allocated', Programmed'
  PROVE  SessionInv'
  <1>1. Typed /\ Threads
    BY TypedIs DEF SessionInv
  <1>2. Typed'
    BY <1>1 DEF Typed, MainPc, Threaded
  <1>3. main \notin Threaded
    BY DEF Connecting, Threaded
  <1>4. Calm /\ Calm' /\ thr'[Srv].pc = "none"
    BY <1>1, <1>3, IsCalm DEF Calm
  <1>5. Threads'
    BY <1>4, CalmThreads
  <1>6. Watching' /\ Locked' /\ PinnedPage'
    BY <1>4, ConnectingKeeps
  <1>7. TypeOK'
    BY <1>2, TypedIs, PTL
  <1> QED BY <1>5, <1>6, <1>7 DEF SessionInv

LEMMA PtInitKeeps == ASSUME SessionInv, PtInit PROVE SessionInv'
  <1>1. Typed /\ Allocated /\ Programmed
    BY TypedIs DEF SessionInv
  <1>2. /\ main = "pt" /\ main' \in {"buffers", "failed"}
        /\ UNCHANGED <<setup, hw, fpga, monitor, mons, thr, mutex, page, sizeFd, early, late>>
        /\ Fault \/ NoFault
    BY DEF PtInit, AllocTableNode, NoMutex, Goto, historyVars
  <1>3. main \in Connecting /\ main' \in Connecting \union {"failed", "open"} /\ hw' \in HwRec
    BY <1>1, <1>2 DEF Connecting, Typed
  <1>4. count' \in CountRec /\ Session' = Session /\ count'.unmaps = count.unmaps
    BY <1>1, <1>2, Faults
  <1>5. live = {"handle"} /\ Shim' = Shim
    BY <1>1, <1>2, ShimStays DEF Allocated
  <1>6. /\ live' \subseteq {"handle", "table", "mutex", "node", "rootpin"}
        /\ main' = "buffers" => "mutex" \in live' /\ ("rootpin" \in live' <=> Shim = "walker")
        /\ main' = "failed" => "rootpin" \notin live'
    BY <1>5 DEF PtInit, AllocTableNode, NoMutex, Goto
  <1>7. Allocated' /\ live' \subseteq Resource
    BY <1>2, <1>5, <1>6 DEF Allocated, Threaded, Closing, Resource
  <1>8. Programmed'
    BY <1>1, <1>2, <1>4, <1>5 DEF Programmed, Threaded
  <1> QED BY <1>2, <1>3, <1>4, <1>7, <1>8, ConnectStep

LEMMA BuffersInitKeeps == ASSUME SessionInv, BuffersInit PROVE SessionInv'
  <1>1. Typed /\ Allocated /\ Programmed
    BY TypedIs DEF SessionInv
  <1>2. /\ main = "buffers" /\ main' \in {"open", "reset", "failed"}
        /\ UNCHANGED <<setup, hw, fpga, monitor, mons, thr, mutex, page, sizeFd, early, late>>
        /\ Fault \/ NoFault
        /\ live' \in {live, live \union {"buffers"}}
        /\ main' = "open" => Shim = "none"
        /\ main' = "reset" => Shim # "none"
        /\ main' = "failed" => live' = live
    BY DEF BuffersInit, Goto, historyVars
  <1>3. main \in Connecting /\ main' \in Connecting \union {"failed", "open"} /\ hw' \in HwRec
    BY <1>1, <1>2 DEF Connecting, Typed
  <1>4. count' \in CountRec /\ Session' = Session /\ count'.unmaps = count.unmaps
    BY <1>1, <1>2, Faults
  <1>5. Shim' = Shim
    BY <1>2, ShimStays
  <1>6. Allocated' /\ live' \subseteq Resource
    BY <1>1, <1>2, <1>5 DEF Allocated, Typed, Threaded, Closing, Resource
  <1>7. Programmed'
    BY <1>1, <1>2, <1>4, <1>5 DEF Programmed, Threaded
  <1> QED BY <1>2, <1>3, <1>4, <1>6, <1>7, ConnectStep

\* The records of CSRs that are written.
LEMMA CsrRecords ==
  ASSUME Typed
  PROVE  /\ Session \in 0 .. MaxSessions /\ 0 \in 0 .. MaxSessions
         /\ \A b \in BOOLEAN : [hw EXCEPT !.on = b] \in HwRec
         /\ [hw EXCEPT !.on = FALSE, !.tlb = 0] \in HwRec
         /\ [hw EXCEPT !.tlb = 0] \in HwRec /\ [hw EXCEPT !.tlb = Session] \in HwRec
         /\ [hw EXCEPT !.root = Session] \in HwRec /\ [hw EXCEPT !.ring = Session] \in HwRec
  <1>1. hw \in HwRec /\ count \in CountRec /\ MaxSessions \in Nat
    BY SessionAssumption DEF Typed
  <1>2. Session \in 0 .. MaxSessions /\ 0 \in 0 .. MaxSessions
    BY <1>1 DEF CountRec, Session
  <1> QED BY <1>1, <1>2 DEF HwRec

LEMMA InvalHWTLBKeeps == ASSUME SessionInv, InvalHWTLB PROVE SessionInv'
  <1> DEFINE new == [hw EXCEPT !.on = FALSE, !.tlb = 0]
  <1>1. Typed /\ Allocated /\ Programmed
    BY TypedIs DEF SessionInv
  <1>2. /\ main = "reset" /\ main' \in {"disable", "srv"}
        /\ UNCHANGED <<setup, fpga, live, monitor, mons, thr, mutex, page, sizeFd, early, late>>
        /\ WriteCsr(new) \/ CsrFails(new)
        /\ main' = "disable" => WriteCsr(new)
        /\ main' = "srv" => CsrFails(new)
    BY DEF InvalHWTLB, Goto, historyVars
  <1>3. new \in HwRec /\ hw \in HwRec
    BY <1>1, CsrRecords DEF Typed
  <1>4. new.on = FALSE /\ new.tlb = 0 /\ new.root = hw.root /\ new.ring = hw.ring
    BY <1>3 DEF HwRec
  <1> HIDE DEF new
  <1>5. /\ hw' \in HwRec /\ count' \in CountRec /\ Session' = Session
        /\ count'.unmaps = count.unmaps
        /\ WriteCsr(new) => hw' = new
        /\ CsrFails(new) => hw'.on = hw.on /\ (hw'.csrLost <=> hw.csrLost \/ new # hw)
    BY <1>1, <1>2, <1>3, Writes
  <1>6. main \in Connecting /\ main' \in Connecting \union {"failed", "open"}
    BY <1>2 DEF Connecting
  <1>7. Shim' = Shim
    BY <1>2, ShimStays
  <1>8. Allocated' /\ live' \subseteq Resource
    BY <1>1, <1>2, <1>7 DEF Allocated, Typed, Threaded, Closing
  <1>9. ~hw'.on \/ hw'.csrLost
    BY <1>2, <1>4, <1>5
  <1>10. Programmed'
    BY <1>1, <1>2, <1>4, <1>5, <1>7, <1>9 DEF Programmed, Threaded
  <1> QED BY <1>2, <1>5, <1>6, <1>8, <1>10, ConnectStep

LEMMA VtpEnableKeeps == ASSUME SessionInv, VtpEnable PROVE SessionInv'
  <1>1. Typed /\ Allocated /\ Programmed
    BY TypedIs DEF SessionInv
  <1>2. PICK new \in HwRec :
          /\ WriteCsr(new) \/ CsrFails(new)
          /\ new.ring = hw.ring /\ new.tlb = hw.tlb /\ new.csrLost = hw.csrLost
          /\ \/ main = "disable" /\ main' = "root" /\ new.on = FALSE
             \/ main = "root" /\ main' = "enable" /\ new.on = hw.on /\ new.root = Session
             \/ main = "enable" /\ main' = "srv" /\ new.root = hw.root
    <2>1. hw \in HwRec
      BY <1>1 DEF Typed
    <2>2. CASE Enable("disable", [hw EXCEPT !.on = FALSE], "root")
      BY <1>1, <2>1, <2>2, CsrRecords DEF Enable, Goto, HwRec
    <2>3. CASE Enable("root", [hw EXCEPT !.root = Session], "enable")
      BY <1>1, <2>1, <2>3, CsrRecords DEF Enable, Goto, HwRec
    <2>4. CASE Enable("enable", [hw EXCEPT !.on = TRUE], "srv")
      BY <1>1, <2>1, <2>4, CsrRecords DEF Enable, Goto, HwRec
    <2> QED BY <2>2, <2>3, <2>4 DEF VtpEnable
  <1>3. UNCHANGED <<setup, fpga, live, monitor, mons, thr, mutex, page, sizeFd, early, late>>
    BY DEF VtpEnable, Enable, historyVars
  <1>4. /\ hw' \in HwRec /\ count' \in CountRec /\ Session' = Session
        /\ count'.unmaps = count.unmaps
        /\ WriteCsr(new) => hw' = new
        /\ CsrFails(new) => /\ hw'.on = hw.on /\ hw'.root = hw.root /\ hw'.ring = hw.ring
                            /\ hw'.tlb = hw.tlb /\ (hw'.csrLost <=> hw.csrLost \/ new # hw)
    BY <1>1, <1>2, Writes
  <1>5. main \in Connecting /\ main' \in Connecting \union {"failed", "open"}
    BY <1>2 DEF Connecting
  <1>6. Shim' = Shim /\ Shim # "none"
    BY <1>1, <1>2, <1>3, ShimStays DEF Programmed
  <1>7. Allocated' /\ live' \subseteq Resource
    BY <1>1, <1>2, <1>3, <1>6 DEF Allocated, Typed, Threaded, Closing
  <1>8. hw.tlb \in {0, Session} /\ hw'.tlb = hw.tlb /\ (~hw.on \/ hw.csrLost)
    BY <1>1, <1>2, <1>4 DEF Programmed
  <1>9. main' = "enable" => hw'.root = Session \/ hw'.csrLost
    BY <1>2, <1>4
  <1>10. hw'.on /\ ~hw'.csrLost => main' = "srv" /\ hw'.root = Session
    BY <1>1, <1>2, <1>4, <1>8 DEF Programmed
  <1>11. fpga.pipe = "none" \/ late
    BY <1>1, <1>2 DEF Programmed
  <1>12. Programmed'
    BY <1>2, <1>3, <1>4, <1>6, <1>8, <1>9, <1>10, <1>11 DEF Programmed, Threaded
  <1> QED BY <1>3, <1>4, <1>5, <1>7, <1>12, ConnectStep

LEMMA SrvInitKeeps == ASSUME SessionInv, SrvInit PROVE SessionInv'
  <1>1. Typed /\ Allocated /\ Programmed
    BY TypedIs DEF SessionInv
  <1>2. /\ main = "srv"
        /\ UNCHANGED <<setup, hw, fpga, monitor, mons, thr, mutex, page, sizeFd, early, late>>
        /\ Fault \/ NoFault
        /\ \/ Shim = "walker" /\ main' = "open" /\ live' = live
           \/ Shim = "server" /\ main' = "ringaddr" /\ live' = live \union {"server", "ring"}
           \/ Shim = "server" /\ main' = "undo" /\ live' = live \union {"server"}
    BY DEF SrvInit, Goto, historyVars
  <1>3. main \in Connecting /\ main' \in Connecting \union {"failed", "open"} /\ hw' \in HwRec
    BY <1>1, <1>2 DEF Connecting, Typed
  <1>4. count' \in CountRec /\ Session' = Session /\ count'.unmaps = count.unmaps
    BY <1>1, <1>2, Faults
  <1>5. Shim' = Shim
    BY <1>2, ShimStays
  <1>6. Allocated' /\ live' \subseteq Resource
    BY <1>1, <1>2, <1>5 DEF Allocated, Typed, Threaded, Closing, Resource
  <1>7. Programmed'
    BY <1>1, <1>2, <1>4, <1>5 DEF Programmed, Threaded
  <1> QED BY <1>2, <1>3, <1>4, <1>6, <1>7, ConnectStep

LEMMA RingAddrKeeps == ASSUME SessionInv, RingAddr PROVE SessionInv'
  <1> DEFINE new == [hw EXCEPT !.ring = Session]
  <1>1. Typed /\ Allocated /\ Programmed
    BY TypedIs DEF SessionInv
  <1>2. /\ main = "ringaddr"
        /\ UNCHANGED <<setup, fpga, monitor, mons, thr, mutex, page, sizeFd, early, late>>
        /\ \/ WriteCsr(new) /\ main' = "spawn" /\ live' = live
           \/ CsrFails(new) /\ main' = "undo" /\ live' = live \ {"ring"}
    BY DEF RingAddr, Goto, historyVars
  <1>3. new \in HwRec /\ hw \in HwRec
    BY <1>1, CsrRecords DEF Typed
  <1>4. new.on = hw.on /\ new.tlb = hw.tlb /\ new.root = hw.root /\ new.ring = Session
        /\ new.csrLost = hw.csrLost
    BY <1>3 DEF HwRec
  <1> HIDE DEF new
  <1>5. /\ hw' \in HwRec /\ count' \in CountRec /\ Session' = Session
        /\ count'.unmaps = count.unmaps
        /\ WriteCsr(new) => hw' = new
        /\ CsrFails(new) => /\ hw'.on = hw.on /\ hw'.root = hw.root /\ hw'.tlb = hw.tlb
                            /\ (hw'.csrLost <=> hw.csrLost \/ new # hw)
    BY <1>1, <1>2, <1>3, Writes
  <1>6. main \in Connecting /\ main' \in Connecting \union {"failed", "open"}
    BY <1>2 DEF Connecting
  <1>7. Shim' = Shim
    BY <1>2, ShimStays
  <1>8. Allocated' /\ live' \subseteq Resource
    BY <1>1, <1>2, <1>7 DEF Allocated, Typed, Threaded, Closing
  <1>9. hw'.on = hw.on /\ hw'.root = hw.root /\ hw'.tlb = hw.tlb /\ (hw.csrLost => hw'.csrLost)
    BY <1>2, <1>4, <1>5
  <1>10. main' = "spawn" => hw'.ring = Session
    BY <1>2, <1>4, <1>5
  <1>11. Programmed'
    BY <1>1, <1>2, <1>5, <1>7, <1>9, <1>10 DEF Programmed, Threaded
  <1> QED BY <1>2, <1>5, <1>6, <1>8, <1>11, ConnectStep

\* The server's thread starts, and nothing else happens in the same step.
LEMMA SrvSpawnKeeps == ASSUME SessionInv, SrvSpawn PROVE SessionInv'
  <1>1. Typed /\ Allocated /\ Programmed /\ Threads
    BY TypedIs DEF SessionInv
  <1>2. CASE UNCHANGED thr
    <2>1. /\ main = "spawn" /\ main' = "undo" /\ live' = live \ {"ring"}
          /\ UNCHANGED <<setup, hw, fpga, monitor, mons, thr, mutex, page, sizeFd, early, late>>
          /\ Fault
      <3>1. thr[Srv].pc = "none" /\ thr \in [Thread -> ThreadRec] /\ Idle.pc = "idle"
        BY <1>1 DEF Typed, Threads, Threaded, SrvSpawn, Idle, NoThread
      <3>2. [thr EXCEPT ![Srv] = Idle] # thr
        BY <3>1, Distinct
      <3> QED BY <1>2, <3>2 DEF SrvSpawn, Goto, historyVars
    <2>2. main \in Connecting /\ main' \in Connecting \union {"failed", "open"} /\ hw' \in HwRec
      BY <1>1, <2>1 DEF Connecting, Typed
    <2>3. count' \in CountRec /\ Session' = Session /\ count'.unmaps = count.unmaps
      BY <1>1, <2>1, Faults
    <2>4. Shim' = Shim
      BY <2>1, ShimStays
    <2>5. Allocated' /\ live' \subseteq Resource
      BY <1>1, <2>1, <2>4 DEF Allocated, Typed, Threaded, Closing
    <2>6. Programmed'
      BY <1>1, <2>1, <2>3, <2>4 DEF Programmed, Threaded
    <2> QED BY <2>1, <2>2, <2>3, <2>5, <2>6, ConnectStep
  <1>3. CASE thr' = [thr EXCEPT ![Srv] = Idle] /\ NoFault /\ main' = "open" /\ UNCHANGED live
    <2>1. /\ main = "spawn" /\ main' = "open" /\ live' = live /\ count' = count
          /\ UNCHANGED <<setup, hw, fpga, monitor, mons, mutex, page, sizeFd, early, late>>
      BY <1>3 DEF SrvSpawn, NoFault, historyVars
    <2>2. main \notin Threaded /\ main \in Connecting
      BY <2>1 DEF Threaded, Connecting
    <2>3. Calm /\ thr[Srv].pc = "none"
      BY <1>1, <2>2, IsCalm
    <2>4. /\ thr' \in [Thread -> ThreadRec] /\ thr'[User] = thr[User]
          /\ thr'[Srv].pc = "idle" /\ thr'[Srv].mon = None /\ ~thr'[Srv].cancel
      <3>1. Idle \in ThreadRec /\ Idle.pc = "idle" /\ Idle.mon = None /\ ~Idle.cancel
        BY DEF Idle, NoThread, ThreadRec, ThreadPc
      <3> HIDE DEF Idle
      <3>2. thr \in [Thread -> ThreadRec]
        BY <1>1 DEF Typed
      <3> QED BY <1>3, <3>1, <3>2, Distinct
    <2>5. Calm'
      BY <2>3, <2>4 DEF Calm
    <2>6. Shim' = Shim /\ Session' = Session
      BY <2>1, ShimStays DEF Session
    <2>7. Allocated' /\ "server" \in live'
      BY <1>1, <2>1, <2>6 DEF Allocated, Threaded, Closing
    <2>8. Programmed'
      BY <1>1, <2>1, <2>6 DEF Programmed, Threaded, Allocated
    <2>9. Threads'
      BY <2>1, <2>5, <2>7, CalmThreads DEF Threaded
    <2>10. Watching' /\ Locked' /\ PinnedPage'
      BY <2>1, <2>2, <2>5, <2>6, ConnectingKeeps
    <2>11. Typed'
      BY <1>1, <2>1, <2>4 DEF Typed, MainPc, Threaded
    <2>12. TypeOK'
      BY <2>11, TypedIs, PTL
    <2> QED BY <2>7, <2>8, <2>9, <2>10, <2>12 DEF SessionInv
  <1> QED BY <1>2, <1>3 DEF SrvSpawn, Goto

LEMMA UndoKeeps == ASSUME SessionInv, Undo PROVE SessionInv'
  <1>1. Typed /\ Allocated /\ Programmed
    BY TypedIs DEF SessionInv
  <1>2. /\ main = "undo" /\ main' = "failed" /\ count' = count
        /\ live' = live \ {"table", "mutex", "node", "rootpin", "buffers"}
        /\ UNCHANGED <<setup, hw, fpga, monitor, mons, thr, mutex, page, sizeFd, early, late>>
    BY DEF Undo, Goto, historyVars
  <1>3. main \in Connecting /\ main' \in Connecting \union {"failed", "open"} /\ hw' \in HwRec
        /\ count' \in CountRec /\ Session' = Session /\ count'.unmaps = count.unmaps
    BY <1>1, <1>2 DEF Connecting, Typed, Session
  <1>4. Shim' = Shim
    BY <1>2, ShimStays
  <1>5. Allocated' /\ live' \subseteq Resource
    BY <1>1, <1>2, <1>4 DEF Allocated, Typed, Threaded, Closing
  <1>6. Programmed'
    BY <1>1, <1>2, <1>3, <1>4 DEF Programmed, Threaded
  <1> QED BY <1>2, <1>3, <1>5, <1>6, ConnectStep

\* A new session: no monitor has its number yet.
LEMMA ConnectKeeps == ASSUME SessionInv, Connect PROVE SessionInv'
  <1>1. Typed /\ Allocated /\ Programmed /\ Threads /\ Watching /\ Locked /\ PinnedPage
    BY TypedIs DEF SessionInv
  <1>2. /\ main \in {"start", "closed"} /\ main' = "pt" /\ Session < MaxSessions
        /\ live' = live \union {"handle"}
        /\ count' = [count EXCEPT !.sessions = @ + 1, !.requests = 0, !.calls = 0]
        /\ UNCHANGED <<setup, hw, fpga, monitor, mons, thr, mutex, page, sizeFd, early, late>>
    BY DEF Connect, Goto, historyVars
  <1>3. /\ count' \in CountRec /\ Session \in Nat /\ Session' = Session + 1
        /\ count'.unmaps = count.unmaps
    <2>1. /\ count \in CountRec /\ MaxSessions \in Nat /\ MaxRequests \in Nat /\ MaxCalls \in Nat
          /\ count.sessions < MaxSessions
      BY <1>1, <1>2, SessionAssumption DEF Typed, Session
    <2>2. count.sessions \in 0 .. MaxSessions
      BY <2>1 DEF CountRec
    <2>3. count.sessions \in Nat /\ count.sessions + 1 \in 0 .. MaxSessions
          /\ 0 \in 0 .. MaxRequests /\ 0 \in 0 .. MaxCalls
      BY <2>1, <2>2
    <2>4. count' = [count EXCEPT !.sessions = count.sessions + 1, !.requests = 0, !.calls = 0]
      BY <1>2
    <2>5. count' \in CountRec
      BY <2>1, <2>3, <2>4 DEF CountRec
    <2>6. count'.sessions = count.sessions + 1 /\ count'.unmaps = count.unmaps
      BY <2>1, <2>4 DEF CountRec
    <2> QED BY <2>3, <2>5, <2>6 DEF Session
  <1>4. main \notin Threaded /\ main \notin Closing /\ main \notin {"monterm", "monjoin"}
        /\ main' \in Connecting /\ main' \in MainPc
    BY <1>2 DEF Threaded, Closing, Connecting, MainPc
  <1>5. Calm /\ Calm' /\ thr'[Srv].pc = "none"
    BY <1>1, <1>2, <1>4, IsCalm DEF Calm
  <1>6. live = {} /\ live' = {"handle"} /\ Shim' = Shim
    BY <1>1, <1>2, ShimStays DEF Allocated
  <1>7. Typed'
    BY <1>1, <1>2, <1>3, <1>4, <1>6 DEF Typed, Resource
  <1>8. Allocated'
    BY <1>2, <1>6 DEF Allocated, Threaded, Closing
  <1>9. Programmed'
    BY <1>1, <1>2, <1>6 DEF Programmed, Threaded
  <1>10. Threads'
    BY <1>5, CalmThreads
  <1>11. monitor = None /\ mutex = Free /\ ~page.pinned
    BY <1>1, <1>2, <1>4 DEF Watching, Locked, PinnedPage
  <1>12. Watching'
    <2>1. \A m \in Monitors : mons[m].session \in Nat /\ mons[m].session <= Session
      BY <1>1, SessionAssumption DEF Watching, Typed, MonitorRec
    <2> QED BY <1>1, <1>2, <1>3, <1>11, <2>1 DEF Watching
  <1>13. \A t \in Thread : thr'[t].pc \in {"none", "idle"}
    BY <1>5, Distinct DEF Calm
  <1>14. Locked'
    BY <1>1, <1>2, <1>11, <1>13 DEF Locked, MutexReturns
  <1>15. PinnedPage'
    BY <1>2, <1>11, <1>13 DEF PinnedPage, PinsWatched
  <1>16. TypeOK'
    BY <1>7, TypedIs, PTL
  <1> QED BY <1>8, <1>9, <1>10, <1>12, <1>14, <1>15, <1>16 DEF SessionInv

-----------------------------------------------------------------------------
(* The FPGA and the program's memory.                                      *)

LEMMA ThreadsStay ==
  ASSUME Threads, main' = main, live' = live, thr' = thr, monitor' = monitor, Session' = Session,
         \A m \in Monitors : /\ mons'[m].used = mons[m].used /\ mons'[m].pc = mons[m].pc
                             /\ mons'[m].session = mons[m].session /\ mons'[m].fd = mons[m].fd
  PROVE  Threads'
  <1>1. \A t \in Thread : Starting(t)' <=> Starting(t)
    BY DEF Starting
  <1>2. \A t \in Thread : thr'[t].pc = "start" => thr'[t].mon \in Monitors
    BY DEF Threads, Starting
  <1> QED BY <1>1, <1>2 DEF Threads

LEMMA LockedStays ==
  ASSUME Locked, main' = main, thr' = thr, mutex' = mutex, sizeFd' = sizeFd, setup' = setup,
         \A m \in Monitors : mons'[m].pc = "drain" <=> mons[m].pc = "drain"
  PROVE  Locked'
  BY DEF Locked, MutexReturns, MutexGone

LEMMA PinnedPageStays ==
  ASSUME PinnedPage, main' = main, thr' = thr, mons' = mons, page' = page, setup' = setup,
         early' = early, Session' = Session, count.faults > 0 => count'.faults > 0
  PROVE  PinnedPage'
  <1>1. (Excused => Excused') /\ \A m \in Monitors : Watches(m)' <=> Watches(m)
    BY DEF Excused, Watches
  <1> QED BY <1>1 DEF PinnedPage, PinsWatched, Excused

LEMMA AskKeeps == ASSUME SessionInv, NEW kind \in {"demand", "spec"}, Ask(kind) PROVE SessionInv'
  <1>1. Typed /\ Allocated /\ Programmed /\ Threads /\ Watching /\ Locked /\ PinnedPage
    BY TypedIs DEF SessionInv
  <1>2. /\ main = "open" /\ count.requests < MaxRequests
        /\ count' = [count EXCEPT !.requests = @ + 1] /\ fpga' = [fpga EXCEPT !.pipe = kind]
        /\ UNCHANGED <<main, setup, hw, live, monitor, mons, thr, mutex, page, sizeFd, early, late>>
    BY DEF Ask, historyVars
  <1>3. /\ count' \in CountRec /\ Session' = Session /\ count'.unmaps = count.unmaps
        /\ count'.faults = count.faults
    <2>1. count \in CountRec /\ MaxRequests \in Nat
      BY <1>1, SessionAssumption DEF Typed
    <2> QED BY <1>2, <2>1 DEF CountRec, Session
  <1>4. fpga' \in FpgaRec
    BY <1>1, <1>2 DEF Typed, FpgaRec
  <1>5. TypeOK'
    <2>1. Typed'
      BY <1>1, <1>2, <1>3, <1>4 DEF Typed
    <2> QED BY <2>1, TypedIs, PTL
  <1>6. Programmed'
    BY <1>1, <1>2, <1>3, ShimStays DEF Programmed
  <1>7. Allocated' /\ Threads' /\ Watching' /\ Locked' /\ PinnedPage'
    BY <1>1, <1>2, <1>3, AllocatedStays, ThreadsStay, WatchingStays, LockedStays, PinnedPageStays
  <1> QED BY <1>5, <1>6, <1>7 DEF SessionInv

LEMMA TranslateKeeps == ASSUME SessionInv, Translate PROVE SessionInv'
  <1>1. Typed /\ Allocated /\ Programmed /\ Threads /\ Watching /\ Locked /\ PinnedPage
    BY TypedIs DEF SessionInv
  <1>2. /\ hw' \in {hw, [hw EXCEPT !.tlb = Session]}
        /\ \E s \in {"none", "demand", "spec"} : fpga' = [pipe |-> "none", slot |-> s]
        /\ UNCHANGED <<main, setup, live, monitor, mons, thr, mutex, page, sizeFd, count, early,
                       late>>
    BY <1>1 DEF Translate, historyVars, Typed, FpgaRec
  <1>3. hw' \in HwRec /\ hw'.on = hw.on /\ hw'.root = hw.root /\ hw'.ring = hw.ring
        /\ hw'.csrLost = hw.csrLost /\ hw'.tlb \in {hw.tlb, Session}
    <2>1. hw \in HwRec
      BY <1>1 DEF Typed
    <2> QED BY <1>1, <1>2, <2>1, CsrRecords DEF HwRec
  <1>4. fpga' \in FpgaRec /\ fpga'.pipe = "none"
    BY <1>2 DEF FpgaRec
  <1>5. Session' = Session
    BY <1>2 DEF Session
  <1>6. TypeOK'
    <2>1. Typed'
      BY <1>1, <1>2, <1>3, <1>4 DEF Typed
    <2> QED BY <2>1, TypedIs, PTL
  <1>7. Programmed'
    BY <1>1, <1>2, <1>3, <1>4, <1>5, ShimStays DEF Programmed
  <1>8. Allocated' /\ Threads' /\ Watching' /\ Locked' /\ PinnedPage'
    BY <1>1, <1>2, <1>5, AllocatedStays, ThreadsStay, WatchingStays, LockedStays, PinnedPageStays
  <1> QED BY <1>6, <1>7, <1>8 DEF SessionInv

\* Each open file gets an event.
LEMMA UnmapKeeps == ASSUME SessionInv, Unmap PROVE SessionInv'
  <1>1. Typed /\ Allocated /\ Programmed /\ Threads /\ Watching /\ Locked /\ PinnedPage
    BY TypedIs DEF SessionInv
  <1>2. /\ count.unmaps < MaxUnmaps /\ count' = [count EXCEPT !.unmaps = count.unmaps + 1]
        /\ page' = [page EXCEPT !.mapped = FALSE, !.stale = page.pinned]
        /\ mons' = [m \in Monitors |-> IF mons[m].fd THEN [mons[m] EXCEPT !.queue = @ + 1]
                                                     ELSE mons[m]]
        /\ UNCHANGED <<main, setup, hw, fpga, live, monitor, thr, mutex, sizeFd, early, late>>
    BY DEF Unmap, historyVars
  <1>3. count \in CountRec /\ page \in PageRec /\ mons \in [Monitors -> MonitorRec]
        /\ MaxUnmaps \in Nat
    BY <1>1, SessionAssumption DEF Typed
  <1>4. /\ count' \in CountRec /\ Session' = Session /\ count'.unmaps = count.unmaps + 1
        /\ count'.faults = count.faults /\ count.unmaps \in Nat
    BY <1>2, <1>3 DEF CountRec, Session
  <1>5. page' \in PageRec /\ page'.pinned = page.pinned /\ page'.watched = page.watched
        /\ (page'.stale <=> page.pinned)
    BY <1>2, <1>3 DEF PageRec
  <1>6. \A m \in Monitors :
          /\ mons'[m] \in MonitorRec
          /\ mons'[m].used = mons[m].used /\ mons'[m].pc = mons[m].pc /\ mons'[m].fd = mons[m].fd
          /\ mons'[m].session = mons[m].session /\ mons'[m].taken = mons[m].taken
          /\ mons'[m].queue = IF mons[m].fd THEN mons[m].queue + 1 ELSE mons[m].queue
    <2> TAKE m \in Monitors
    <2>1. mons[m] \in MonitorRec /\ mons[m].queue \in Nat /\ mons[m].queue <= count.unmaps
      BY <1>1, <1>3 DEF Watching, MonitorRec
    <2>2. CASE mons[m].fd
      <3>1. mons'[m] = [mons[m] EXCEPT !.queue = mons[m].queue + 1]
        BY <1>2, <2>2
      <3>2. mons[m].queue + 1 \in 0 .. MaxUnmaps
        BY <1>2, <1>3, <1>4, <2>1
      <3> DEFINE q == mons[m].queue + 1
      <3>3. [mons[m] EXCEPT !.queue = q] \in MonitorRec
        <4> HIDE DEF q
        <4> QED BY <2>1, <3>2 DEF MonitorRec, q
      <3>4. /\ [mons[m] EXCEPT !.queue = q].used = mons[m].used
            /\ [mons[m] EXCEPT !.queue = q].pc = mons[m].pc
            /\ [mons[m] EXCEPT !.queue = q].fd = mons[m].fd
            /\ [mons[m] EXCEPT !.queue = q].session = mons[m].session
            /\ [mons[m] EXCEPT !.queue = q].taken = mons[m].taken
            /\ [mons[m] EXCEPT !.queue = q].queue = q
        <4> HIDE DEF q
        <4> QED BY <2>1 DEF MonitorRec
      <3> QED BY <2>2, <3>1, <3>3, <3>4
    <2>3. CASE ~mons[m].fd
      BY <1>2, <2>1, <2>3
    <2> QED BY <2>2, <2>3
  <1>7. mons' \in [Monitors -> MonitorRec]
    BY <1>2, <1>6
  <1>8. TypeOK'
    <2>1. Typed'
      BY <1>1, <1>2, <1>4, <1>5, <1>7 DEF Typed
    <2> QED BY <2>1, TypedIs, PTL
  <1>9. Allocated' /\ Programmed' /\ Threads' /\ Locked'
    BY <1>1, <1>2, <1>4, <1>6, AllocatedStays, ProgrammedStays, ThreadsStay, LockedStays
  <1>10. Watching'
    <2>1. \A m \in Monitors : mons[m].queue \in Nat /\ mons[m].taken \in Nat
      BY <1>3 DEF MonitorRec
    <2>2. \A m \in Monitors :
            /\ mons'[m].pc # "none" => mons'[m].used
            /\ mons'[m].session <= Session' /\ mons'[m].queue <= count'.unmaps
            /\ mons'[m].pc \in {"lock", "drain"} => mons'[m].taken <= mons'[m].queue
      BY <1>1, <1>4, <1>6, <2>1 DEF Watching
    <2>3. monitor \in Monitors \union {None}
      BY <1>1 DEF Typed
    <2> QED BY <1>1, <1>2, <1>4, <1>6, <2>2, <2>3 DEF Watching
  <1>11. PinnedPage'
    <2>1. (Excused' <=> Excused) /\ \A m \in Monitors : Watches(m)' <=> Watches(m)
      BY <1>2, <1>4, <1>6 DEF Excused, Watches
    <2>2. \A m \in Monitors : Watches(m) => mons'[m].queue > 0
      BY <1>3, <1>6 DEF Watches, MonitorRec
    <2> QED BY <1>1, <1>2, <1>5, <2>1, <2>2 DEF PinnedPage, PinsWatched, Excused
  <1> QED BY <1>8, <1>9, <1>10, <1>11 DEF SessionInv

LEMMA MapKeeps == ASSUME SessionInv, Map PROVE SessionInv'
  <1>1. Typed /\ Allocated /\ Programmed /\ Threads /\ Watching /\ Locked /\ PinnedPage
    BY TypedIs DEF SessionInv
  <1>2. /\ page' = [page EXCEPT !.mapped = TRUE]
        /\ UNCHANGED <<main, setup, hw, fpga, live, monitor, mons, thr, mutex, sizeFd, count, early,
                       late>>
    BY DEF Map, historyVars
  <1>3. page' \in PageRec /\ page'.pinned = page.pinned /\ page'.watched = page.watched
        /\ page'.stale = page.stale
    BY <1>1, <1>2 DEF Typed, PageRec
  <1>4. Session' = Session
    BY <1>2 DEF Session
  <1>5. TypeOK'
    <2>1. Typed'
      BY <1>1, <1>2, <1>3 DEF Typed
    <2> QED BY <2>1, TypedIs, PTL
  <1>6. Allocated' /\ Programmed' /\ Threads' /\ Watching' /\ Locked'
    BY <1>1, <1>2, <1>4, AllocatedStays, ProgrammedStays, ThreadsStay, WatchingStays, LockedStays
  <1>7. PinnedPage'
    <2>1. (Excused' <=> Excused) /\ \A m \in Monitors : Watches(m)' <=> Watches(m)
      BY <1>2, <1>4 DEF Excused, Watches
    <2> QED BY <1>1, <1>2, <1>3, <2>1 DEF PinnedPage, PinsWatched, Excused
  <1> QED BY <1>5, <1>6, <1>7 DEF SessionInv

-----------------------------------------------------------------------------
(* The threads.                                                            *)

\* Where a thread has the page table's mutex, and where it has waited for the
\* monitor or is about to.
Held == {"state", "size", "pin"}
PastInit == {"poll", "state", "lookup", "size", "pin"}

LEMMA Active ==
  ASSUME Threads, NEW t \in Thread, thr[t].pc \notin {"none", "idle"}
  PROVE  main \in Threaded /\ (t = User => main = "open") /\ (t = Srv => "server" \in live)
  BY Distinct DEF Threads, Threaded

\* A thread goes on; the monitors that others are starting are left alone.
LEMMA MovedThreads ==
  ASSUME Typed, Threads, NEW t \in Thread,
         NEW pc \in ThreadPc \ {"none"}, NEW mon \in Monitors \union {None}, Moved(t, pc, mon),
         main' = main, live' = live, Session' = Session, monitor # None => monitor' # None,
         thr[t].pc # "none", t = User => main = "open",
         pc = "ended" => t = Srv /\ main = "srvjoin",
         pc \in {"idle", "wait"} => mon = None,
         pc = "start" \/ (pc = "open" /\ mon # None) =>
             /\ mon \in Monitors /\ monitor' # None
             /\ mons'[mon].used /\ mons'[mon].pc = "none" /\ mons'[mon].session = Session
             /\ \A u \in Thread : u # t /\ Starting(u) => thr[u].mon # mon,
         pc = "start" => mons'[mon].fd,
         pc \in {"poll", "state"} => mon \in Monitors /\ mons'[mon].used,
         \A m \in Monitors : mons[m].used => mons'[m].used,
         \A u \in Thread : u # t /\ Starting(u) =>
             LET m == thr[u].mon
             IN  mons'[m].pc = mons[m].pc /\ mons'[m].session = mons[m].session
                 /\ mons'[m].fd = mons[m].fd
  PROVE  Threads'
  <1>1. thr'[t].pc = pc /\ thr'[t].mon = mon /\ thr'[t].cancel = thr[t].cancel
        /\ \A u \in Thread : u # t => thr'[u] = thr[u]
    BY DEF Moved
  <1>2. thr'[User].pc # "idle" => main' = "open"
    BY <1>1, Distinct DEF Threads
  <1>3. thr'[Srv].pc # "none" => main' \in Threaded /\ "server" \in live'
    BY <1>1, Distinct DEF Threads
  <1>4. thr'[Srv].cancel \/ thr'[Srv].pc = "ended" => main' = "srvjoin"
    BY <1>1, Distinct DEF Threads
  <1>5. \A u \in Thread : u # t => (Starting(u)' <=> Starting(u))
    BY <1>1 DEF Starting
  <1>6. Starting(t)' <=> pc = "start" \/ (pc = "open" /\ mon # None)
    BY <1>1 DEF Starting
  <1>7. \A u \in Thread : u # t =>
          /\ thr'[u].pc \in {"none", "idle", "wait"} => thr'[u].mon = None
          /\ Starting(u)' => /\ thr'[u].mon \in Monitors /\ monitor' # None
                             /\ mons'[thr'[u].mon].used /\ mons'[thr'[u].mon].pc = "none"
                             /\ mons'[thr'[u].mon].session = Session'
          /\ thr'[u].pc = "start" => mons'[thr'[u].mon].fd
          /\ thr'[u].pc \in {"poll", "state"} =>
               thr'[u].mon \in Monitors /\ mons'[thr'[u].mon].used
    <2> SUFFICES ASSUME NEW u \in Thread, u # t
                 PROVE  /\ thr'[u].pc \in {"none", "idle", "wait"} => thr'[u].mon = None
                        /\ Starting(u)' =>
                             /\ thr'[u].mon \in Monitors /\ monitor' # None
                             /\ mons'[thr'[u].mon].used /\ mons'[thr'[u].mon].pc = "none"
                             /\ mons'[thr'[u].mon].session = Session'
                        /\ thr'[u].pc = "start" => mons'[thr'[u].mon].fd
                        /\ thr'[u].pc \in {"poll", "state"} =>
                             thr'[u].mon \in Monitors /\ mons'[thr'[u].mon].used
      OBVIOUS
    <2>1. thr'[u] = thr[u] /\ (Starting(u)' <=> Starting(u))
      BY <1>1, <1>5
    <2>2. thr[u].pc = "start" => Starting(u)
      BY DEF Starting
    <2> QED BY <2>1, <2>2 DEF Threads
  <1>8. /\ thr'[t].pc \in {"none", "idle", "wait"} => thr'[t].mon = None
        /\ Starting(t)' => /\ thr'[t].mon \in Monitors /\ monitor' # None
                           /\ mons'[thr'[t].mon].used /\ mons'[thr'[t].mon].pc = "none"
                           /\ mons'[thr'[t].mon].session = Session'
        /\ thr'[t].pc = "start" => mons'[thr'[t].mon].fd
        /\ thr'[t].pc \in {"poll", "state"} => thr'[t].mon \in Monitors /\ mons'[thr'[t].mon].used
    BY <1>1, <1>6
  <1>9. \A u, v \in Thread : Starting(u)' /\ Starting(v)' /\ thr'[u].mon = thr'[v].mon => u = v
    BY <1>1, <1>5, <1>6 DEF Threads
  <1> QED BY <1>2, <1>3, <1>4, <1>7, <1>8, <1>9 DEF Threads

\* What a step of thread t to pc may do with the mutex.
MutexStep(t, pc) ==
    \/ /\ mutex' = mutex /\ sizeFd' = sizeFd
       /\ thr[t].pc \notin Held \union {"none", "ended"} /\ pc \notin Held
    \/ mutex = Free /\ mutex' = t /\ pc \in Held
    \/ mutex' = mutex /\ thr[t].pc \in Held /\ pc \in Held
    \/ mutex' = Free /\ thr[t].pc \in Held /\ pc \notin Held

LEMMA MovedLocked ==
  ASSUME Locked, NEW t \in Thread, NEW pc, NEW mon, Moved(t, pc, mon), MutexStep(t, pc),
         main \in Threaded, main' = main, setup' = setup,
         \A m \in Monitors : mons'[m].pc = "drain" <=> mons[m].pc = "drain"
  PROVE  Locked'
  <1>1. thr'[t].pc = pc /\ \A u \in Thread : u # t => thr'[u] = thr[u]
    BY DEF Moved
  <1>2. main' \notin {"start", "failed", "buffersterm", "closed"} \union Connecting
    BY DEF Threaded, Connecting
  <1>3. CASE /\ mutex' = mutex /\ sizeFd' = sizeFd
             /\ thr[t].pc \notin Held \union {"none", "ended"} /\ pc \notin Held
    <2>1. \A u \in Thread : thr'[u].pc \in Held => mutex' = u
      BY <1>1, <1>3 DEF Locked, Held
    <2>2. \A m \in Monitors : mons'[m].pc = "drain" => mutex' = m
      BY <1>3 DEF Locked
    <2>3. \A u \in Thread : mutex = u /\ thr[u].pc \in Held => thr'[u].pc \in Held
      BY <1>1, <1>3
    <2>4. mutex = Srv /\ thr[Srv].pc \in {"ended", "none"} => thr'[Srv].pc = thr[Srv].pc
      BY <1>1, <1>3, Distinct
    <2>5. MutexReturns'
      BY <1>3, <2>3, <2>4 DEF Locked, MutexReturns, MutexGone, Held
    <2> QED BY <1>2, <2>1, <2>2, <2>5 DEF Locked, Held
  <1>4. CASE mutex = Free /\ mutex' = t /\ pc \in Held
    <2>1. \A u \in Thread : thr'[u].pc \in Held => mutex' = u
      BY <1>1, <1>4, Distinct DEF Locked, Held
    <2>2. \A m \in Monitors : mons'[m].pc # "drain"
      BY <1>4, Distinct DEF Locked
    <2> QED BY <1>1, <1>2, <1>4, <2>1, <2>2 DEF Locked, MutexReturns, Held
  <1>5. CASE mutex' = mutex /\ thr[t].pc \in Held /\ pc \in Held
    <2>1. mutex = t
      BY <1>5 DEF Locked, Held
    <2>2. \A u \in Thread : thr'[u].pc \in Held => mutex' = u
      BY <1>1, <1>5, <2>1 DEF Locked, Held
    <2>3. \A m \in Monitors : mons'[m].pc = "drain" => mutex' = m
      BY <1>5 DEF Locked
    <2> QED BY <1>1, <1>2, <1>5, <2>1, <2>2, <2>3 DEF Locked, MutexReturns, Held
  <1>6. CASE mutex' = Free /\ thr[t].pc \in Held /\ pc \notin Held
    <2>1. mutex = t
      BY <1>6 DEF Locked, Held
    <2>2. \A u \in Thread : thr'[u].pc \notin Held
      BY <1>1, <1>6, <2>1 DEF Locked, Held
    <2>3. \A m \in Monitors : mons'[m].pc # "drain"
      BY <2>1, Distinct DEF Locked
    <2> QED BY <1>2, <1>6, <2>2, <2>3 DEF Locked, MutexReturns, Held
  <1> QED BY <1>3, <1>4, <1>5, <1>6 DEF MutexStep

\* A thread that goes on to pin finds a file that watches, or has an excuse.
LEMMA MovedPinnedPage ==
  ASSUME PinnedPage, NEW t \in Thread, NEW pc, NEW mon, Moved(t, pc, mon),
         main' = main, page' = page, setup' = setup, Session' = Session,
         early => early', count.faults > 0 => count'.faults > 0,
         \A m \in Monitors : Watches(m) => Watches(m)' /\ mons'[m].queue = mons[m].queue,
         pc \in PastInit => (\E m \in Monitors : Watches(m)') \/ Excused'
  PROVE  PinnedPage'
  <1>1. thr'[t].pc = pc /\ \A u \in Thread : u # t => thr'[u] = thr[u]
    BY DEF Moved
  <1>2. Excused => Excused'
    BY DEF Excused
  <1>3. \A u \in Thread : thr'[u].pc \in PastInit => (\E m \in Monitors : Watches(m)') \/ Excused'
    BY <1>1, <1>2 DEF PinnedPage, PastInit
  <1>4. PinsWatched'
    BY <1>2 DEF PinnedPage, PinsWatched, Excused
  <1>5. main' = "open" /\ page'.pinned /\ page'.watched =>
          \E m \in Monitors : Watches(m)' /\ (page'.stale => mons'[m].queue > 0)
    BY DEF PinnedPage
  <1> QED BY <1>3, <1>4, <1>5 DEF PinnedPage, PastInit

\* A step of a thread that leaves the monitors and the page alone.
LEMMA ThreadStep ==
  ASSUME SessionInv, NEW t \in Thread, NEW pc \in ThreadPc \ {"none", "start", "ended"},
         NEW mon \in Monitors \union {None}, Moved(t, pc, mon), MutexStep(t, pc),
         UNCHANGED <<main, setup, live, monitor, mons, page, late>>,
         hw' \in HwRec, fpga' \in FpgaRec, Programmed',
         count' \in CountRec, Session' = Session, count'.unmaps = count.unmaps,
         count.faults > 0 => count'.faults > 0,
         sizeFd' \in {"unset", "open", "none"}, early' \in BOOLEAN, early => early',
         main \in Threaded, t = User => main = "open", thr[t].pc # "none",
         pc \in {"idle", "wait", "open"} => mon = None,
         pc \in {"poll", "state"} => mon \in Monitors /\ mons[mon].used,
         pc \in PastInit => (\E m \in Monitors : Watches(m)) \/ Excused'
  PROVE  SessionInv'
  <1>1. Typed /\ Allocated /\ Threads /\ Watching /\ Locked /\ PinnedPage
    BY TypedIs DEF SessionInv
  <1>2. mutex' \in {mutex, Free, t}
    BY DEF MutexStep
  <1>3. Typed'
    BY <1>1, <1>2 DEF Typed, Moved
  <1>4. TypeOK'
    BY <1>3, TypedIs, PTL
  <1>5. Allocated' /\ Watching'
    BY <1>1, AllocatedStays, WatchingStays
  <1>6. pc \in ThreadPc \ {"none"}
    OBVIOUS
  <1>7. Threads'
    BY <1>1, <1>6, MovedThreads
  <1>8. Locked'
    BY <1>1, MovedLocked
  <1>9. \A m \in Monitors : Watches(m)' <=> Watches(m)
    BY DEF Watches
  <1>10. (\E m \in Monitors : Watches(m)) => \E m \in Monitors : Watches(m)'
    BY <1>9
  <1>11. PinnedPage'
    BY <1>1, <1>9, <1>10, MovedPinnedPage
  <1> QED BY <1>4, <1>5, <1>7, <1>8, <1>11 DEF SessionInv

\* What the steps below have in common.
LEMMA SameCount ==
  ASSUME Typed, count' = count, setup' = setup, mons' = mons, early => early'
  PROVE  /\ count' \in CountRec /\ Session' = Session /\ count'.unmaps = count.unmaps
         /\ (count.faults > 0 => count'.faults > 0) /\ (Excused => Excused')
  BY DEF Typed, Session, Excused

\* Past the wait, with the file that watches in hand.
LEMMA WatchesMon ==
  ASSUME Typed, Watching, monitor # None, mons[monitor].fd
  PROVE  monitor \in Monitors /\ mons[monitor].used /\ Watches(monitor)
  BY DEF Typed, Watching, Watches

\* A thread that has waited for the monitor, or does so.
LEMMA AtWork ==
  ASSUME Threads, PinnedPage, NEW t \in Thread, thr[t].pc \in PastInit
  PROVE  /\ main \in Threaded /\ (t = User => main = "open") /\ thr[t].pc # "none"
         /\ thr[t].pc \in {"poll", "state"} => thr[t].mon \in Monitors /\ mons[thr[t].mon].used
         /\ (\E m \in Monitors : Watches(m)) \/ Excused
  <1>1. thr[t].pc \notin {"none", "idle"}
    BY DEF PastInit
  <1>2. main \in Threaded /\ (t = User => main = "open")
    BY <1>1, Active
  <1>3. thr[t].pc \in {"poll", "state"} => thr[t].mon \in Monitors /\ mons[thr[t].mon].used
    BY DEF Threads
  <1>4. (\E m \in Monitors : Watches(m)) \/ Excused
    BY DEF PinnedPage, PastInit
  <1> QED BY <1>1, <1>2, <1>3, <1>4

LEMMA WaitKeeps == ASSUME SessionInv, NEW t \in Thread, Wait(t) PROVE SessionInv'
  <1>1. Typed /\ Programmed /\ Threads /\ Watching /\ Locked /\ PinnedPage
    BY TypedIs DEF SessionInv
  <1>2. /\ thr[t].pc = "wait"
        /\ UNCHANGED <<main, setup, hw, fpga, live, monitor, mons, mutex, page, sizeFd, count, late>>
        /\ \/ monitor = None /\ Step(t, "open") /\ early' = early
           \/ monitor # None /\ PollOf(t, monitor)
              /\ early' = (early \/ (~mons[monitor].fd /\ setup.device))
    BY DEF Wait, At, historyVars
  <1>3. /\ main \in Threaded /\ (t = User => main = "open") /\ thr[t].pc \notin {"none", "ended"}
        /\ thr[t].mon = None /\ thr[t].pc \notin Held
    BY <1>1, <1>2, Active DEF Threads, Held
  <1>4. early' \in BOOLEAN /\ (early => early')
    BY <1>1, <1>2 DEF Typed
  <1>5. /\ count' \in CountRec /\ Session' = Session /\ count'.unmaps = count.unmaps
        /\ (count.faults > 0 => count'.faults > 0)
    BY <1>1, <1>2, <1>4, SameCount
  <1>6. Programmed' /\ hw' \in HwRec /\ fpga' \in FpgaRec /\ sizeFd' \in {"unset", "open", "none"}
    BY <1>1, <1>2, <1>5, ProgrammedStays DEF Typed
  <1>7. \E pc \in ThreadPc \ {"none", "start", "ended"}, mon \in Monitors \union {None} :
          /\ Moved(t, pc, mon) /\ pc \notin Held
          /\ pc \in {"idle", "wait", "open"} => mon = None
          /\ pc \in {"poll", "state"} => mon \in Monitors /\ mons[mon].used
          /\ pc \in PastInit => (\E m \in Monitors : Watches(m)) \/ Excused'
    <2>1. CASE monitor = None /\ Step(t, "open")
      BY <1>1, <1>3, <2>1, StepMoves DEF ThreadPc, Held, PastInit
    <2>2. CASE monitor # None /\ PollOf(t, monitor) /\ mons[monitor].fd
      <3>1. monitor \in Monitors /\ mons[monitor].used /\ Watches(monitor)
        BY <1>1, <2>2, WatchesMon
      <3>2. Moved(t, "poll", monitor)
        BY <1>1, <2>2, <3>1, PollOfMoves
      <3>3. "poll" \in ThreadPc \ {"none", "start", "ended"} /\ "poll" \notin Held
        BY DEF ThreadPc, Held
      <3> QED BY <3>1, <3>2, <3>3
    <2>3. CASE monitor # None /\ PollOf(t, monitor) /\ ~mons[monitor].fd
                /\ early' = (early \/ (~mons[monitor].fd /\ setup.device))
      <3>1. Moved(t, "idle", None) \/ Moved(t, "lookup", None)
        BY <1>1, <1>3, <2>3, PollOfMoves DEF Typed
      <3>2. Excused'
        BY <1>2, <2>3 DEF Excused
      <3> QED BY <3>1, <3>2 DEF ThreadPc, Held, PastInit
    <2> QED BY <1>2, <2>1, <2>2, <2>3
  <1>8. PICK pc \in ThreadPc \ {"none", "start", "ended"}, mon \in Monitors \union {None} :
          /\ Moved(t, pc, mon) /\ pc \notin Held
          /\ pc \in {"idle", "wait", "open"} => mon = None
          /\ pc \in {"poll", "state"} => mon \in Monitors /\ mons[mon].used
          /\ pc \in PastInit => (\E m \in Monitors : Watches(m)) \/ Excused'
    BY <1>7
  <1>9. MutexStep(t, pc)
    BY <1>2, <1>3, <1>8 DEF MutexStep
  <1> QED BY <1>2, <1>3, <1>4, <1>5, <1>6, <1>8, <1>9, ThreadStep

LEMMA PollLockKeeps == ASSUME SessionInv, NEW t \in Thread, PollLock(t) PROVE SessionInv'
  <1>1. Typed /\ Programmed /\ Threads /\ Watching /\ Locked /\ PinnedPage
    BY TypedIs DEF SessionInv
  <1>2. /\ thr[t].pc = "poll" /\ mutex = Free /\ mutex' = t /\ Step(t, "state")
        /\ UNCHANGED <<main, setup, hw, fpga, live, monitor, mons, page, sizeFd, count, early, late>>
    BY DEF PollLock, At, Locks, historyVars
  <1>3. /\ main \in Threaded /\ (t = User => main = "open") /\ thr[t].pc # "none"
        /\ thr[t].mon \in Monitors /\ mons[thr[t].mon].used
        /\ (\E m \in Monitors : Watches(m)) \/ Excused
    BY <1>1, <1>2, AtWork DEF PastInit
  <1>4. /\ count' \in CountRec /\ Session' = Session /\ count'.unmaps = count.unmaps
        /\ (count.faults > 0 => count'.faults > 0) /\ (Excused => Excused')
    BY <1>1, <1>2, SameCount
  <1>5. Programmed' /\ hw' \in HwRec /\ fpga' \in FpgaRec /\ sizeFd' \in {"unset", "open", "none"}
        /\ early' \in BOOLEAN
    BY <1>1, <1>2, <1>4, ProgrammedStays DEF Typed
  <1>6. "state" \in ThreadPc \ {"none", "start", "ended"} /\ "state" \in Held
    BY DEF ThreadPc, Held
  <1>7. Moved(t, "state", thr[t].mon) /\ MutexStep(t, "state")
    BY <1>1, <1>2, <1>6, StepMoves DEF MutexStep
  <1> QED BY <1>2, <1>3, <1>4, <1>5, <1>6, <1>7, ThreadStep

LEMMA PollStateKeeps == ASSUME SessionInv, NEW t \in Thread, PollState(t) PROVE SessionInv'
  <1>1. Typed /\ Programmed /\ Threads /\ Watching /\ Locked /\ PinnedPage
    BY TypedIs DEF SessionInv
  <1>2. /\ thr[t].pc = "state" /\ mutex' = Free /\ (Step(t, "poll") \/ PastWait(t))
        /\ UNCHANGED <<main, setup, hw, fpga, live, monitor, mons, page, sizeFd, count, early, late>>
    BY DEF PollState, At, Unlocks, historyVars
  <1>3. /\ main \in Threaded /\ (t = User => main = "open") /\ thr[t].pc # "none"
        /\ thr[t].mon \in Monitors /\ mons[thr[t].mon].used
        /\ (\E m \in Monitors : Watches(m)) \/ Excused
    BY <1>1, <1>2, AtWork DEF PastInit
  <1>4. /\ count' \in CountRec /\ Session' = Session /\ count'.unmaps = count.unmaps
        /\ (count.faults > 0 => count'.faults > 0) /\ (Excused => Excused')
    BY <1>1, <1>2, SameCount
  <1>5. Programmed' /\ hw' \in HwRec /\ fpga' \in FpgaRec /\ sizeFd' \in {"unset", "open", "none"}
        /\ early' \in BOOLEAN
    BY <1>1, <1>2, <1>4, ProgrammedStays DEF Typed
  <1>6. Moved(t, "poll", thr[t].mon) \/ Moved(t, "idle", None) \/ Moved(t, "lookup", thr[t].mon)
    BY <1>1, <1>2, StepMoves, PastWaitMoves DEF ThreadPc
  <1>7. \E pc \in {"poll", "idle", "lookup"}, mon \in Monitors \union {None} :
          Moved(t, pc, mon) /\ (pc = "idle" => mon = None) /\ (pc = "poll" => mon = thr[t].mon)
    <2>1. CASE Moved(t, "poll", thr[t].mon)
      BY <1>3, <2>1
    <2>2. CASE Moved(t, "idle", None)
      BY <2>2
    <2>3. CASE Moved(t, "lookup", thr[t].mon)
      BY <1>3, <2>3
    <2> QED BY <1>6, <2>1, <2>2, <2>3
  <1>8. PICK pc \in {"poll", "idle", "lookup"}, mon \in Monitors \union {None} :
          Moved(t, pc, mon) /\ (pc = "idle" => mon = None) /\ (pc = "poll" => mon = thr[t].mon)
    BY <1>7
  <1>9. pc \in ThreadPc \ {"none", "start", "ended"} /\ pc \notin Held
        /\ pc \notin {"wait", "open", "state"}
    BY DEF ThreadPc, Held
  <1>10. MutexStep(t, pc)
    BY <1>2, <1>9 DEF MutexStep, Held
  <1>11. /\ pc \in {"idle", "wait", "open"} => mon = None
         /\ pc \in {"poll", "state"} => mon \in Monitors /\ mons[mon].used
    BY <1>3, <1>8
  <1> QED BY <1>2, <1>3, <1>4, <1>5, <1>8, <1>9, <1>10, <1>11, ThreadStep

LEMMA LookupKeeps == ASSUME SessionInv, NEW t \in Thread, Lookup(t) PROVE SessionInv'
  <1>1. Typed /\ Programmed /\ Threads /\ Watching /\ Locked /\ PinnedPage
    BY TypedIs DEF SessionInv
  <1>2. /\ thr[t].pc = "lookup"
        /\ UNCHANGED <<main, setup, hw, fpga, live, monitor, mons, page, sizeFd, count, early, late>>
        /\ \/ Finish(t, TRUE) /\ mutex' = mutex
           \/ mutex = Free /\ mutex' = t /\ Step(t, "size")
    BY DEF Lookup, At, Locks, historyVars
  <1>3. /\ main \in Threaded /\ (t = User => main = "open") /\ thr[t].pc # "none"
        /\ (\E m \in Monitors : Watches(m)) \/ Excused
    BY <1>1, <1>2, AtWork DEF PastInit
  <1>4. /\ count' \in CountRec /\ Session' = Session /\ count'.unmaps = count.unmaps
        /\ (count.faults > 0 => count'.faults > 0) /\ (Excused => Excused')
    BY <1>1, <1>2, SameCount
  <1>5. Programmed' /\ hw' \in HwRec /\ fpga' \in FpgaRec /\ sizeFd' \in {"unset", "open", "none"}
        /\ early' \in BOOLEAN
    BY <1>1, <1>2, <1>4, ProgrammedStays DEF Typed
  <1>6. \E pc \in {"idle", "answer", "size"}, mon \in Monitors \union {None} :
          Moved(t, pc, mon) /\ (pc = "idle" => mon = None) /\ MutexStep(t, pc)
    <2>1. thr[t].mon \in Monitors \union {None}
      BY <1>1 DEF Typed, ThreadRec
    <2>2. CASE Finish(t, TRUE) /\ mutex' = mutex
      <3>1. Moved(t, "idle", None) \/ Moved(t, "answer", thr[t].mon)
        BY <1>1, <2>2, FinishMoves
      <3>2. MutexStep(t, "idle") /\ MutexStep(t, "answer")
        BY <1>2, <2>2 DEF MutexStep, Held
      <3> QED BY <2>1, <3>1, <3>2
    <2>3. CASE mutex = Free /\ mutex' = t /\ Step(t, "size")
      <3>1. Moved(t, "size", thr[t].mon) /\ MutexStep(t, "size")
        BY <1>1, <2>3, StepMoves DEF MutexStep, Held, ThreadPc
      <3> QED BY <2>1, <3>1
    <2> QED BY <1>2, <2>2, <2>3
  <1>7. PICK pc \in {"idle", "answer", "size"}, mon \in Monitors \union {None} :
          Moved(t, pc, mon) /\ (pc = "idle" => mon = None) /\ MutexStep(t, pc)
    BY <1>6
  <1>8. pc \in ThreadPc \ {"none", "start", "ended"} /\ pc \notin {"wait", "open", "poll", "state"}
    BY DEF ThreadPc
  <1> QED BY <1>2, <1>3, <1>4, <1>5, <1>7, <1>8, ThreadStep

LEMMA PageSizeKeeps == ASSUME SessionInv, NEW t \in Thread, PageSize(t) PROVE SessionInv'
  <1>1. Typed /\ Programmed /\ Threads /\ Watching /\ Locked /\ PinnedPage
    BY TypedIs DEF SessionInv
  <1>2. /\ thr[t].pc = "size" /\ sizeFd' = OpenOnce /\ Step(t, "pin") /\ mutex' = mutex
        /\ UNCHANGED <<main, setup, hw, fpga, live, monitor, mons, page, count, early, late>>
    BY DEF PageSize, At, historyVars
  <1>3. /\ main \in Threaded /\ (t = User => main = "open") /\ thr[t].pc # "none"
        /\ (\E m \in Monitors : Watches(m)) \/ Excused
    BY <1>1, <1>2, AtWork DEF PastInit
  <1>4. /\ count' \in CountRec /\ Session' = Session /\ count'.unmaps = count.unmaps
        /\ (count.faults > 0 => count'.faults > 0) /\ (Excused => Excused')
    BY <1>1, <1>2, SameCount
  <1>5. sizeFd' \in {"unset", "open", "none"}
    BY <1>1, <1>2 DEF OpenOnce, Typed
  <1>6. Programmed' /\ hw' \in HwRec /\ fpga' \in FpgaRec /\ early' \in BOOLEAN
    BY <1>1, <1>2, <1>4, ProgrammedStays DEF Typed
  <1>7. "pin" \in ThreadPc \ {"none", "start", "ended"} /\ thr[t].mon \in Monitors \union {None}
    BY <1>1 DEF ThreadPc, Typed, ThreadRec
  <1>8. Moved(t, "pin", thr[t].mon) /\ MutexStep(t, "pin")
    BY <1>1, <1>2, <1>7, StepMoves DEF MutexStep, Held
  <1> QED BY <1>2, <1>3, <1>4, <1>5, <1>6, <1>7, <1>8, ThreadStep

\* A call begins.
LEMMA CallKeeps ==
  ASSUME SessionInv, NEW kind \in {"get", "sync"}, main = "open", thr[User].pc = "idle",
         count.calls < MaxCalls, count' = [count EXCEPT !.calls = @ + 1],
         thr' = [thr EXCEPT ![User].pc = "wait", ![User].kind = kind],
         UNCHANGED <<main, setup, hw, fpga, live, monitor, mons, mutex, page, sizeFd, early, late>>
  PROVE  SessionInv'
  <1>1. Typed /\ Programmed /\ Threads
    BY TypedIs DEF SessionInv
  <1>2. /\ count' \in CountRec /\ Session' = Session /\ count'.unmaps = count.unmaps
        /\ count'.faults = count.faults
    <2>1. count \in CountRec /\ MaxCalls \in Nat
      BY <1>1, SessionAssumption DEF Typed
    <2> QED BY <2>1 DEF CountRec, Session
  <1>3. User \in Thread /\ thr[User].mon = None /\ thr \in [Thread -> ThreadRec]
    BY <1>1, Distinct DEF Threads, Typed
  <1>4. Moved(User, "wait", None)
    <2> DEFINE r == [thr[User] EXCEPT !.pc = "wait", !.kind = kind]
    <2>1. thr' = [thr EXCEPT ![User] = r]
      BY <1>3
    <2>2. r \in ThreadRec /\ r.pc = "wait" /\ r.mon = None /\ r.cancel = thr[User].cancel
      BY <1>3 DEF ThreadRec, ThreadPc
    <2> HIDE DEF r
    <2> QED BY <1>3, <2>1, <2>2 DEF Moved
  <1>5. MutexStep(User, "wait") /\ "wait" \in ThreadPc \ {"none", "start", "ended"}
        /\ "wait" \notin PastInit
    BY DEF MutexStep, Held, ThreadPc, PastInit
  <1>6. Programmed' /\ hw' \in HwRec /\ fpga' \in FpgaRec /\ sizeFd' \in {"unset", "open", "none"}
        /\ early' \in BOOLEAN /\ main \in Threaded
    BY <1>1, <1>2, ProgrammedStays DEF Typed, Threaded
  <1> QED BY <1>2, <1>3, <1>4, <1>5, <1>6, ThreadStep

LEMMA SrvTakeKeeps == ASSUME SessionInv, SrvTake PROVE SessionInv'
  <1>1. Typed /\ Programmed /\ Threads
    BY TypedIs DEF SessionInv
  <1>2. /\ thr[Srv].pc = "idle" /\ fpga.slot # "none"
        /\ thr' = [thr EXCEPT ![Srv].pc = "wait", ![Srv].kind = fpga.slot]
        /\ UNCHANGED <<main, setup, hw, fpga, live, monitor, mons, mutex, page, sizeFd, count, early,
                       late>>
    BY DEF SrvTake, At, historyVars
  <1>3. Srv \in Thread /\ thr[Srv].mon = None /\ thr \in [Thread -> ThreadRec] /\ main \in Threaded
        /\ fpga.slot \in {"demand", "spec"} /\ Srv # User
    BY <1>1, <1>2, Distinct DEF Threads, Typed, FpgaRec
  <1>4. Moved(Srv, "wait", None)
    <2> DEFINE r == [thr[Srv] EXCEPT !.pc = "wait", !.kind = fpga.slot]
    <2>1. thr' = [thr EXCEPT ![Srv] = r]
      BY <1>2, <1>3
    <2>2. r \in ThreadRec /\ r.pc = "wait" /\ r.mon = None /\ r.cancel = thr[Srv].cancel
      BY <1>3 DEF ThreadRec, ThreadPc
    <2> HIDE DEF r
    <2> QED BY <1>3, <2>1, <2>2 DEF Moved
  <1>5. MutexStep(Srv, "wait") /\ "wait" \in ThreadPc \ {"none", "start", "ended"}
        /\ "wait" \notin PastInit
    BY <1>2 DEF MutexStep, Held, ThreadPc, PastInit
  <1>6. /\ count' \in CountRec /\ Session' = Session /\ count'.unmaps = count.unmaps
        /\ (count.faults > 0 => count'.faults > 0)
    BY <1>1, <1>2, SameCount
  <1>7. Programmed' /\ hw' \in HwRec /\ fpga' \in FpgaRec /\ sizeFd' \in {"unset", "open", "none"}
        /\ early' \in BOOLEAN
    BY <1>1, <1>2, <1>6, ProgrammedStays DEF Typed
  <1> QED BY <1>2, <1>3, <1>4, <1>5, <1>6, <1>7, ThreadStep

LEMMA SrvAnswerKeeps == ASSUME SessionInv, SrvAnswer PROVE SessionInv'
  <1>1. Typed /\ Programmed /\ Threads
    BY TypedIs DEF SessionInv
  <1>2. /\ thr[Srv].pc = "answer" /\ hw' = [hw EXCEPT !.tlb = Session]
        /\ fpga' = [fpga EXCEPT !.slot = "none"] /\ Return(Srv)
        /\ UNCHANGED <<main, setup, live, monitor, mons, mutex, page, sizeFd, count, early, late>>
    BY DEF SrvAnswer, At, historyVars
  <1>3. Srv \in Thread /\ Srv # User /\ main \in Threaded
    BY <1>1, <1>2, Distinct DEF Threads
  <1>4. Moved(Srv, "idle", None)
    BY <1>1, <1>2, <1>3, ReturnMoves
  <1>5. MutexStep(Srv, "idle") /\ "idle" \in ThreadPc \ {"none", "start", "ended"}
        /\ "idle" \notin PastInit
    BY <1>2 DEF MutexStep, Held, ThreadPc, PastInit
  <1>6. /\ count' \in CountRec /\ Session' = Session /\ count'.unmaps = count.unmaps
        /\ (count.faults > 0 => count'.faults > 0)
    BY <1>1, <1>2, SameCount
  <1>7. hw' \in HwRec /\ hw'.on = hw.on /\ hw'.root = hw.root /\ hw'.ring = hw.ring
        /\ hw'.csrLost = hw.csrLost /\ hw'.tlb = Session
    <2>1. hw \in HwRec
      BY <1>1 DEF Typed
    <2> QED BY <1>1, <1>2, <2>1, CsrRecords DEF HwRec
  <1>8. fpga' \in FpgaRec /\ fpga'.pipe = fpga.pipe
    BY <1>1, <1>2 DEF Typed, FpgaRec
  <1>9. Programmed'
    BY <1>1, <1>2, <1>6, <1>7, <1>8, ShimStays DEF Programmed
  <1>10. sizeFd' \in {"unset", "open", "none"} /\ early' \in BOOLEAN
    BY <1>1, <1>2 DEF Typed
  <1> QED BY <1>2, <1>3, <1>4, <1>5, <1>6, <1>7, <1>8, <1>9, <1>10, ThreadStep

\* Only the CSRs and the mutex change.
LEMMA CallInvalKeeps == ASSUME SessionInv, CallInval PROVE SessionInv'
  <1> DEFINE new == [hw EXCEPT !.tlb = 0]
  <1>1. Typed /\ Allocated /\ Programmed /\ Threads /\ Watching /\ Locked /\ PinnedPage
    BY TypedIs DEF SessionInv
  <1>2. /\ main = "open" /\ mutex = Free
        /\ UNCHANGED <<main, setup, fpga, live, monitor, mons, thr, page, sizeFd, early, late>>
        /\ \/ WriteCsr(new) /\ mutex' = Free
           \/ CsrFails(new) /\ mutex' = Lost
    BY DEF CallInval, Unlocks, historyVars
  <1>3. new \in HwRec /\ hw \in HwRec
    BY <1>1, CsrRecords DEF Typed
  <1>4. new.on = hw.on /\ new.tlb = 0 /\ new.root = hw.root /\ new.ring = hw.ring
        /\ new.csrLost = hw.csrLost
    BY <1>3 DEF HwRec
  <1> HIDE DEF new
  <1>5. /\ hw' \in HwRec /\ count' \in CountRec /\ Session' = Session
        /\ count'.unmaps = count.unmaps /\ (count.faults > 0 => count'.faults > 0)
        /\ WriteCsr(new) => hw' = new
        /\ CsrFails(new) => /\ ~setup.mmio
                            /\ hw'.on = hw.on /\ hw'.root = hw.root /\ hw'.ring = hw.ring
                            /\ hw'.tlb = hw.tlb /\ (hw'.csrLost <=> hw.csrLost \/ new # hw)
    BY <1>1, <1>2, <1>3, Writes
  <1>6. TypeOK'
    <2>1. Typed'
      BY <1>1, <1>2, <1>5 DEF Typed
    <2> QED BY <2>1, TypedIs, PTL
  <1>7. /\ hw'.on = hw.on /\ hw'.root = hw.root /\ hw'.ring = hw.ring
        /\ hw'.tlb \in {0, hw.tlb} /\ (hw.csrLost => hw'.csrLost)
    BY <1>2, <1>4, <1>5
  <1>8. Programmed'
    BY <1>1, <1>2, <1>5, <1>7, ShimStays DEF Programmed
  <1>9. Allocated' /\ Threads' /\ Watching' /\ PinnedPage'
    BY <1>1, <1>2, <1>5, AllocatedStays, ThreadsStay, WatchingStays, PinnedPageStays
  <1>10. \A t \in Thread : thr'[t].pc \notin Held
    BY <1>1, <1>2, Distinct DEF Locked, Held
  <1>11. \A m \in Monitors : mons'[m].pc # "drain"
    BY <1>1, <1>2, Distinct DEF Locked
  <1>12. MutexReturns'
    BY <1>2, <1>5, Distinct DEF MutexReturns, MutexGone
  <1>13. Locked'
    BY <1>2, <1>10, <1>11, <1>12 DEF Locked, Held, Connecting
  <1> QED BY <1>6, <1>8, <1>9, <1>13 DEF SessionInv

LEMMA DisconnectKeeps == ASSUME SessionInv, Disconnect PROVE SessionInv'
  <1>1. Typed /\ Allocated /\ Programmed /\ Threads /\ Watching /\ Locked /\ PinnedPage
    BY TypedIs DEF SessionInv
  <1>2. /\ main = "open" /\ main' = "off" /\ thr[User].pc = "idle"
        /\ fpga.pipe # "demand" /\ late' = (late \/ Serving("spec"))
        /\ UNCHANGED <<setup, hw, fpga, live, monitor, mons, thr, mutex, page, sizeFd, count, early>>
    BY DEF Disconnect, At, Goto, Serving
  <1>3. Session' = Session /\ Shim' = Shim
    BY <1>2, ShimStays DEF Session
  <1>4. main' \in Threaded /\ main \in Threaded /\ main' \in MainPc
    BY <1>2 DEF Threaded, MainPc
  <1>5. TypeOK'
    <2>1. late' \in BOOLEAN
      BY <1>1, <1>2 DEF Typed, Serving
    <2>2. Typed'
      BY <1>1, <1>2, <1>4, <2>1 DEF Typed
    <2> QED BY <2>2, TypedIs, PTL
  <1>6. Allocated'
    BY <1>1, <1>2, <1>3 DEF Allocated, Threaded, Closing
  <1>7. Programmed'
    <2>1. fpga.pipe \in {"none", "spec"}
      BY <1>1, <1>2 DEF Typed, FpgaRec
    <2>2. fpga'.pipe = "none" \/ late'
      BY <1>2, <2>1 DEF Serving
    <2> QED BY <1>1, <1>2, <1>3, <2>2 DEF Programmed, Threaded
  <1>8. Threads'
    <2>1. \A t \in Thread : Starting(t)' <=> Starting(t)
      BY <1>2 DEF Starting
    <2> QED BY <1>1, <1>2, <1>3, <1>4, <2>1 DEF Threads
  <1>9. Watching'
    BY <1>1, <1>2, <1>3, <1>4 DEF Watching, Threaded, Connecting
  <1>10. Locked'
    <2>1. MutexReturns'
      BY <1>1, <1>2 DEF Locked, MutexReturns, MutexGone
    <2> QED BY <1>1, <1>2, <2>1 DEF Locked, Connecting
  <1>11. PinnedPage'
    <2>1. (Excused' <=> Excused) /\ \A m \in Monitors : Watches(m)' <=> Watches(m)
      BY <1>2, <1>3 DEF Excused, Watches
    <2> QED BY <1>1, <1>2, <1>4, <2>1 DEF PinnedPage, PinsWatched, Excused
  <1> QED BY <1>5, <1>6, <1>7, <1>8, <1>9, <1>10, <1>11 DEF SessionInv

\* A server that is cancelled under the mutex keeps it.
LEMMA SrvCancelledKeeps == ASSUME SessionInv, SrvCancelled PROVE SessionInv'
  <1>1. Typed /\ Allocated /\ Programmed /\ Threads /\ Watching /\ Locked /\ PinnedPage
    BY TypedIs DEF SessionInv
  <1>2. /\ thr[Srv].cancel /\ Step(Srv, "ended")
        /\ thr[Srv].pc \in {"idle", "open"} \/ (thr[Srv].pc = "size" /\ sizeFd # "open")
        /\ UNCHANGED <<main, setup, hw, fpga, live, monitor, mons, mutex, page, sizeFd, count, early,
                       late>>
    BY DEF SrvCancelled, At, historyVars
  <1>3. Srv \in Thread /\ Srv # User /\ main = "srvjoin" /\ main \in Threaded
        /\ "ended" \in ThreadPc \ {"none"} /\ "ended" \notin PastInit \union Held
        /\ thr[Srv].mon \in Monitors \union {None}
    BY <1>1, <1>2, Distinct DEF Threads, Threaded, ThreadPc, PastInit, Held, Typed, ThreadRec
  <1>4. Moved(Srv, "ended", thr[Srv].mon)
    BY <1>1, <1>2, <1>3, StepMoves
  <1>5. Session' = Session /\ count'.faults = count.faults
    BY <1>2 DEF Session
  <1>6. TypeOK'
    <2>1. Typed'
      BY <1>1, <1>2, <1>4 DEF Typed, Moved
    <2> QED BY <2>1, TypedIs, PTL
  <1>7. Allocated' /\ Programmed' /\ Watching'
    BY <1>1, <1>2, <1>5, AllocatedStays, ProgrammedStays, WatchingStays
  <1>8. Threads'
    BY <1>1, <1>2, <1>3, <1>4, <1>5, MovedThreads
  <1>9. Locked'
    <2>1. CASE thr[Srv].pc \in {"idle", "open"}
      <3>1. MutexStep(Srv, "ended")
        BY <1>2, <1>3, <2>1 DEF MutexStep, Held
      <3> QED BY <1>1, <1>2, <1>3, <1>4, <3>1, MovedLocked
    <2>2. CASE thr[Srv].pc = "size" /\ sizeFd # "open"
      <3>1. thr'[Srv].pc = "ended" /\ \A u \in Thread : u # Srv => thr'[u] = thr[u]
        BY <1>4 DEF Moved
      <3>2. mutex = Srv /\ mutex' = Srv
        BY <1>1, <1>2, <1>3, <2>2 DEF Locked
      <3>3. \A u \in Thread : thr'[u].pc \in Held => mutex' = u
        BY <1>1, <1>2, <1>3, <3>1 DEF Locked, Held
      <3>4. MutexReturns'
        BY <1>2, <2>2, <3>1, <3>2 DEF MutexReturns, MutexGone
      <3>5. main' \notin {"start", "failed", "buffersterm", "closed"} \union Connecting
        BY <1>2, <1>3 DEF Connecting
      <3>6. \A m \in Monitors : mons'[m].pc = "drain" => mutex' = m
        BY <1>1, <1>2 DEF Locked
      <3> QED BY <3>3, <3>4, <3>5, <3>6 DEF Locked, Held
    <2> QED BY <1>2, <2>1, <2>2
  <1>10. \A m \in Monitors : Watches(m) => Watches(m)' /\ mons'[m].queue = mons[m].queue
    BY <1>2, <1>5 DEF Watches
  <1>11. PinnedPage'
    BY <1>1, <1>2, <1>3, <1>4, <1>5, <1>10, MovedPinnedPage
  <1> QED BY <1>6, <1>7, <1>8, <1>9, <1>11 DEF SessionInv

LEMMA PinKeeps == ASSUME SessionInv, NEW t \in Thread, Pin(t) PROVE SessionInv'
  <1>1. Typed /\ Allocated /\ Programmed /\ Threads /\ Watching /\ Locked /\ PinnedPage
    BY TypedIs DEF SessionInv
  <1>2. /\ thr[t].pc = "pin" /\ mutex' = Free
        /\ Finish(t, page.mapped) /\ SlotDone(t, page.mapped)
        /\ UNCHANGED <<main, setup, hw, live, monitor, mons, sizeFd, count, early, late>>
    BY DEF Pin, At, Unlocks, historyVars
  <1>3. \/ ~page.mapped /\ page' = page
        \/ /\ page.mapped
           /\ page' = [mapped |-> TRUE, pinned |-> TRUE, stale |-> FALSE,
                       watched |-> \E m \in Monitors : Watches(m)]
    BY DEF Pin
  <1>4. page' \in PageRec /\ \/ page' = page
                             \/ /\ ~page'.stale
                                /\ page'.watched <=> \E m \in Monitors : Watches(m)
    <2>1. PICK w \in BOOLEAN : w <=> \E m \in Monitors : Watches(m)
      OBVIOUS
    <2>2. CASE page' = page
      BY <1>1, <2>2 DEF Typed
    <2>3. CASE page' = [mapped |-> TRUE, pinned |-> TRUE, stale |-> FALSE,
                        watched |-> \E m \in Monitors : Watches(m)]
      <3>1. page' = [mapped |-> TRUE, pinned |-> TRUE, stale |-> FALSE, watched |-> w]
        BY <2>1, <2>3, Zenon
      <3>2. page' \in PageRec /\ ~page'.stale /\ page'.watched = w
        BY <3>1 DEF PageRec
      <3> QED BY <2>1, <3>2
    <2> QED BY <1>3, <2>2, <2>3
  <1>5. /\ main \in Threaded /\ (t = User => main = "open") /\ thr[t].pc # "none"
        /\ (\E m \in Monitors : Watches(m)) \/ Excused
    BY <1>1, <1>2, AtWork DEF PastInit
  <1>6. \E pc \in {"idle", "answer"}, mon \in Monitors \union {None} :
          Moved(t, pc, mon) /\ (pc = "idle" => mon = None)
    <2>1. thr[t].mon \in Monitors \union {None}
      BY <1>1 DEF Typed, ThreadRec
    <2>2. Moved(t, "idle", None) \/ Moved(t, "answer", thr[t].mon)
      BY <1>1, <1>2, FinishMoves
    <2> QED BY <2>1, <2>2
  <1>7. PICK pc \in {"idle", "answer"}, mon \in Monitors \union {None} :
          Moved(t, pc, mon) /\ (pc = "idle" => mon = None)
    BY <1>6
  <1>8. pc \in ThreadPc \ {"none"} /\ pc \notin Held /\ pc \notin PastInit
        /\ pc \notin {"wait", "ended", "open", "start", "poll", "state"}
    BY DEF ThreadPc, Held, PastInit
  <1>9. MutexStep(t, pc)
    BY <1>2, <1>8 DEF MutexStep, Held
  <1>10. fpga' \in FpgaRec /\ fpga'.pipe = fpga.pipe
    BY <1>1, <1>2 DEF SlotDone, Typed, FpgaRec
  <1>11. Session' = Session /\ count'.unmaps = count.unmaps
    BY <1>2 DEF Session
  <1>12. TypeOK'
    <2>1. Typed'
      BY <1>1, <1>2, <1>4, <1>7, <1>10 DEF Typed, Moved
    <2> QED BY <2>1, TypedIs, PTL
  <1>13. Allocated' /\ Programmed' /\ Watching'
    BY <1>1, <1>2, <1>10, <1>11, AllocatedStays, ProgrammedStays, WatchingStays
  <1>14. Threads'
    BY <1>1, <1>2, <1>5, <1>7, <1>8, <1>11, MovedThreads
  <1>15. Locked'
    BY <1>1, <1>2, <1>5, <1>7, <1>9, MovedLocked
  <1>16. PinnedPage'
    <2>1. /\ thr'[t].pc = pc /\ \A u \in Thread : u # t => thr'[u] = thr[u]
          /\ (Excused' <=> Excused) /\ \A m \in Monitors : Watches(m)' <=> Watches(m)
      BY <1>2, <1>7, <1>11 DEF Moved, Excused, Watches
    <2>2. \A u \in Thread : thr'[u].pc \in PastInit => (\E m \in Monitors : Watches(m)') \/ Excused'
      BY <1>1, <1>8, <2>1 DEF PinnedPage, PastInit
    <2>3. page'.pinned => main' \in Threaded \union Closing
      BY <1>2, <1>5
    <2>4. PinsWatched'
      BY <1>1, <1>4, <1>5, <2>1 DEF PinnedPage, PinsWatched, Excused
    <2>5. main' = "open" /\ page'.pinned /\ page'.watched =>
            \E m \in Monitors : Watches(m)' /\ (page'.stale => mons'[m].queue > 0)
      BY <1>1, <1>2, <1>4, <2>1 DEF PinnedPage
    <2> QED BY <2>2, <2>3, <2>4, <2>5 DEF PinnedPage, PastInit
  <1> QED BY <1>12, <1>13, <1>14, <1>15, <1>16 DEF SessionInv

\* The call that could not allocate or open the monitor goes on without it.
LEMMA GivesUp ==
  ASSUME SessionInv, NEW t \in Thread, thr[t].pc = "open", PastWait(t), Fault \/ NoFault,
         UNCHANGED <<main, setup, hw, fpga, live, monitor, mons, mutex, page, sizeFd, early, late>>,
         Fault \/ ~setup.device
  PROVE  SessionInv'
  <1>1. Typed /\ Programmed /\ Threads
    BY TypedIs DEF SessionInv
  <1>2. /\ main \in Threaded /\ (t = User => main = "open") /\ thr[t].pc # "none"
    BY <1>1, Active
  <1>3. /\ count' \in CountRec /\ Session' = Session /\ count'.unmaps = count.unmaps
        /\ Fault \/ count.faults > 0 => count'.faults > 0
    BY <1>1, Faults
  <1>4. Excused'
    BY <1>3 DEF Excused
  <1>5. Programmed' /\ hw' \in HwRec /\ fpga' \in FpgaRec /\ sizeFd' \in {"unset", "open", "none"}
        /\ early' \in BOOLEAN
    BY <1>1, <1>3, ProgrammedStays DEF Typed
  <1>6. \E pc \in {"idle", "lookup"}, mon \in Monitors \union {None} :
          Moved(t, pc, mon) /\ (pc = "idle" => mon = None)
    <2>1. thr[t].mon \in Monitors \union {None}
      BY <1>1 DEF Typed, ThreadRec
    <2> QED BY <1>1, <2>1, PastWaitMoves
  <1>7. PICK pc \in {"idle", "lookup"}, mon \in Monitors \union {None} :
          Moved(t, pc, mon) /\ (pc = "idle" => mon = None)
    BY <1>6
  <1>8. pc \in ThreadPc \ {"none", "start", "ended"} /\ pc \notin {"wait", "open", "poll", "state"}
    BY DEF ThreadPc
  <1>9. MutexStep(t, pc)
    BY DEF MutexStep, Held
  <1> QED BY <1>2, <1>3, <1>4, <1>5, <1>7, <1>8, <1>9, ThreadStep

\* The descriptor is new, so nobody else is starting it.
LEMMA MonitorAllocKeeps == ASSUME SessionInv, NEW t \in Thread, MonitorAlloc(t) PROVE SessionInv'
  <1>1. Typed /\ Allocated /\ Programmed /\ Threads /\ Watching /\ Locked /\ PinnedPage
    BY TypedIs DEF SessionInv
  <1>2. /\ thr[t].pc = "open" /\ thr[t].mon = None
        /\ UNCHANGED <<main, setup, hw, fpga, live, mutex, page, sizeFd, early, late>>
    BY DEF MonitorAlloc, At, historyVars
  <1>3. CASE Fault /\ PastWait(t) /\ UNCHANGED <<mons, monitor>>
    BY <1>2, <1>3, GivesUp
  <1>4. ASSUME NEW m \in Monitors, ~mons[m].used, monitor' = m, count' = count,
               mons' = [mons EXCEPT ![m].used = TRUE, ![m].session = Session],
               thr' = [thr EXCEPT ![t].mon = m]
        PROVE  SessionInv'
    <2>1. /\ main \in Threaded /\ (t = User => main = "open") /\ thr[t].pc # "none"
      BY <1>1, <1>2, Active
    <2>2. thr \in [Thread -> ThreadRec] /\ mons \in [Monitors -> MonitorRec]
          /\ Session \in 0 .. MaxSessions /\ Session' = Session
      BY <1>1, <1>4, CsrRecords DEF Typed, Session
    <2>3. Moved(t, "open", m)
      <3> DEFINE r == [thr[t] EXCEPT !.mon = m]
      <3>1. thr' = [thr EXCEPT ![t] = r]
        BY <1>4, <2>2
      <3>2. r \in ThreadRec /\ r.pc = "open" /\ r.mon = m /\ r.cancel = thr[t].cancel
        BY <1>2, <2>2 DEF ThreadRec, ThreadPc
      <3> HIDE DEF r
      <3> QED BY <2>2, <3>1, <3>2 DEF Moved
    <2>4. /\ mons' \in [Monitors -> MonitorRec]
          /\ mons'[m].used /\ mons'[m].session = Session /\ mons'[m].pc = mons[m].pc
          /\ mons'[m].fd = mons[m].fd /\ mons'[m].queue = mons[m].queue
          /\ mons'[m].taken = mons[m].taken
          /\ \A k \in Monitors : k # m => mons'[k] = mons[k]
      <3> DEFINE r == [mons[m] EXCEPT !.used = TRUE, !.session = Session]
      <3>1. mons' = [mons EXCEPT ![m] = r]
        BY <1>4, <2>2
      <3>2. /\ r \in MonitorRec /\ r.used /\ r.session = Session /\ r.pc = mons[m].pc
            /\ r.fd = mons[m].fd /\ r.queue = mons[m].queue /\ r.taken = mons[m].taken
        BY <2>2 DEF MonitorRec
      <3> HIDE DEF r
      <3> QED BY <2>2, <3>1, <3>2
    <2>5. mons[m].pc = "none"
      BY <1>1, <1>4 DEF Watching
    <2>6. TypeOK'
      <3>1. Typed'
        BY <1>1, <1>2, <1>4, <2>3, <2>4 DEF Typed, Moved
      <3> QED BY <3>1, TypedIs, PTL
    <2>7. Allocated' /\ Programmed'
      BY <1>1, <1>2, <2>2, AllocatedStays, ProgrammedStays
    <2>8. Threads'
      <3>1. "open" \in ThreadPc \ {"none"} /\ m # None /\ m \in Monitors \union {None}
        BY Distinct DEF ThreadPc
      <3>2. \A u \in Thread : Starting(u) => thr[u].mon \in Monitors /\ thr[u].mon # m
        BY <1>1, <1>4 DEF Threads
      <3>3. \A k \in Monitors : mons[k].used => mons'[k].used
        BY <2>4
      <3>4. monitor' # None /\ monitor' = m
        BY <1>4, <3>1
      <3> HIDE <1>4
      <3> QED BY <1>1, <1>2, <2>1, <2>2, <2>3, <2>4, <2>5, <3>1, <3>2, <3>3, <3>4, MovedThreads
    <2>9. Watching'
      BY <1>1, <1>2, <1>4, <2>1, <2>2, <2>4, <2>5 DEF Watching, Threaded, Connecting
    <2>10. Locked'
      <3>1. \A k \in Monitors : mons'[k].pc = "drain" <=> mons[k].pc = "drain"
        BY <2>4
      <3>2. MutexStep(t, "open")
        BY <1>2 DEF MutexStep, Held
      <3> QED BY <1>1, <1>2, <2>1, <2>3, <3>1, <3>2, MovedLocked
    <2>11. PinnedPage'
      <3>1. \A k \in Monitors : Watches(k) => Watches(k)' /\ mons'[k].queue = mons[k].queue
        BY <2>2, <2>4 DEF Watches
      <3>2. "open" \notin PastInit
        BY DEF PastInit
      <3> QED BY <1>1, <1>2, <1>4, <2>2, <2>3, <3>1, <3>2, MovedPinnedPage
    <2> QED BY <2>6, <2>7, <2>8, <2>9, <2>10, <2>11 DEF SessionInv
  <1> QED BY <1>2, <1>3, <1>4 DEF MonitorAlloc, NoFault

\* An EXCEPT of one monitor.
LEMMA MonExcept ==
  ASSUME mons \in [Monitors -> MonitorRec], NEW m \in Monitors, NEW r \in MonitorRec,
         mons' = [mons EXCEPT ![m] = r]
  PROVE  /\ mons' \in [Monitors -> MonitorRec] /\ mons'[m] = r
         /\ \A k \in Monitors : k # m => mons'[k] = mons[k]
  OBVIOUS

\* A step of thread t that changes the descriptor it is starting.
LEMMA OnlyMine ==
  ASSUME Threads, NEW t \in Thread, Starting(t)
  PROVE  \A u \in Thread : u # t /\ Starting(u) => thr[u].mon \in Monitors /\ thr[u].mon # thr[t].mon
  BY DEF Threads

LEMMA MonitorOpenKeeps == ASSUME SessionInv, NEW t \in Thread, MonitorOpen(t) PROVE SessionInv'
  <1> DEFINE m == thr[t].mon
  <1>1. Typed /\ Allocated /\ Programmed /\ Threads /\ Watching /\ Locked /\ PinnedPage
    BY TypedIs DEF SessionInv
  <1>2. /\ thr[t].pc = "open" /\ m # None
        /\ UNCHANGED <<main, setup, hw, fpga, live, monitor, mutex, page, sizeFd, early, late>>
    BY DEF MonitorOpen, At, historyVars
  <1>3. CASE PastWait(t) /\ UNCHANGED mons /\ IF setup.device THEN Fault ELSE NoFault
    BY <1>2, <1>3, GivesUp
  <1>4. CASE mons' = [mons EXCEPT ![m].fd = TRUE] /\ Step(t, "start") /\ NoFault
    <2>1. main \in Threaded /\ (t = User => main = "open") /\ thr[t].pc # "none" /\ Starting(t)
      BY <1>1, <1>2, Active DEF Starting
    <2>2. /\ m \in Monitors /\ monitor # None /\ mons[m].used /\ mons[m].pc = "none"
          /\ mons[m].session = Session
      BY <1>1, <2>1 DEF Threads
    <2>3. mons \in [Monitors -> MonitorRec] /\ count' = count /\ Session' = Session
      BY <1>1, <1>4 DEF Typed, NoFault, Session
    <2>4. Moved(t, "start", m)
      BY <1>1, <1>4, StepMoves DEF ThreadPc
    <2> HIDE DEF m
    <2>5. /\ mons' \in [Monitors -> MonitorRec]
          /\ mons'[m].used = mons[m].used /\ mons'[m].session = mons[m].session
          /\ mons'[m].pc = mons[m].pc /\ mons'[m].fd /\ mons'[m].queue = mons[m].queue
          /\ mons'[m].taken = mons[m].taken
          /\ \A k \in Monitors : k # m => mons'[k] = mons[k]
      <3> DEFINE r == [mons[m] EXCEPT !.fd = TRUE]
      <3>1. mons' = [mons EXCEPT ![m] = r]
        BY <1>4, <2>2, <2>3
      <3>2. /\ r \in MonitorRec /\ r.used = mons[m].used /\ r.session = mons[m].session
            /\ r.pc = mons[m].pc /\ r.fd /\ r.queue = mons[m].queue /\ r.taken = mons[m].taken
        BY <2>2, <2>3 DEF MonitorRec
      <3> HIDE DEF r
      <3> QED BY <2>2, <2>3, <3>1, <3>2
    <2>6. TypeOK'
      <3>1. Typed'
        BY <1>1, <1>2, <2>3, <2>4, <2>5 DEF Typed, Moved
      <3> QED BY <3>1, TypedIs, PTL
    <2>7. Allocated' /\ Programmed'
      BY <1>1, <1>2, <2>3, AllocatedStays, ProgrammedStays
    <2>8. \A u \in Thread : u # t /\ Starting(u) => thr[u].mon \in Monitors /\ thr[u].mon # m
      BY <1>1, <2>1, OnlyMine DEF m
    <2>9. Threads'
      <3>1. "start" \in ThreadPc \ {"none"} /\ m \in Monitors \union {None} /\ m # None
        BY <1>2, <2>2 DEF ThreadPc
      <3>2. \A k \in Monitors : mons[k].used => mons'[k].used
        BY <2>5
      <3>3. \A u \in Thread : u # t /\ Starting(u) =>
              mons'[thr[u].mon] = mons[thr[u].mon]
        BY <2>5, <2>8
      <3> HIDE <1>4
      <3> QED BY <1>1, <1>2, <2>1, <2>2, <2>3, <2>4, <2>5, <2>8, <3>1, <3>2, <3>3, MovedThreads
    <2>10. Watching'
      <3>1. \A k \in Monitors :
              /\ mons'[k].pc = mons[k].pc /\ mons'[k].used = mons[k].used
              /\ mons'[k].session = mons[k].session /\ mons'[k].queue = mons[k].queue
              /\ mons'[k].taken = mons[k].taken
        BY <2>5
      <3>2. monitor' = monitor /\ monitor \in Monitors /\ main' = main
            /\ count'.unmaps = count.unmaps
        BY <1>1, <1>2, <2>2, <2>3 DEF Typed
      <3> QED BY <1>1, <2>3, <3>1, <3>2 DEF Watching
    <2>11. Locked'
      <3>1. \A k \in Monitors : mons'[k].pc = "drain" <=> mons[k].pc = "drain"
        BY <2>5
      <3>2. MutexStep(t, "start")
        BY <1>2 DEF MutexStep, Held
      <3> QED BY <1>1, <1>2, <2>1, <2>4, <3>1, <3>2, MovedLocked
    <2>12. PinnedPage'
      <3>1. \A k \in Monitors : Watches(k) => Watches(k)' /\ mons'[k].queue = mons[k].queue
        BY <2>3, <2>5 DEF Watches
      <3>2. "start" \notin PastInit
        BY DEF PastInit
      <3> QED BY <1>1, <1>2, <2>3, <2>4, <3>1, <3>2, MovedPinnedPage
    <2> QED BY <2>6, <2>7, <2>9, <2>10, <2>11, <2>12 DEF SessionInv
  <1> QED BY <1>2, <1>3, <1>4 DEF MonitorOpen

\* The thread of the monitor starts.  The descriptor in hand watches, whichever
\* one is polled.
LEMMA MonitorStarted ==
  ASSUME SessionInv, NEW t \in Thread, thr[t].pc = "start",
         mons' = [mons EXCEPT ![thr[t].mon].pc = "read"], PollOf(t, monitor), NoFault,
         UNCHANGED <<main, setup, hw, fpga, live, monitor, mutex, page, sizeFd, early, late>>
  PROVE  SessionInv'
  <1> DEFINE m == thr[t].mon
  <1>1. Typed /\ Allocated /\ Programmed /\ Threads /\ Watching /\ Locked /\ PinnedPage
    BY TypedIs DEF SessionInv
  <1>2. main \in Threaded /\ (t = User => main = "open") /\ thr[t].pc # "none" /\ Starting(t)
    BY <1>1, Active DEF Starting
  <1>3. /\ m \in Monitors /\ monitor # None /\ mons[m].used /\ mons[m].pc = "none"
        /\ mons[m].session = Session /\ mons[m].fd
    BY <1>1, <1>2 DEF Threads
  <1>4. mons \in [Monitors -> MonitorRec] /\ count' = count /\ Session' = Session
        /\ monitor \in Monitors /\ mons[monitor].used
    BY <1>1, <1>3 DEF Typed, NoFault, Session, Watching
  <1>5. \E pc \in {"poll", "idle", "lookup"}, mon \in Monitors \union {None} :
          Moved(t, pc, mon) /\ (pc = "idle" => mon = None) /\ (pc = "poll" => mon = monitor)
    <2>1. Moved(t, "poll", monitor) \/ Moved(t, "idle", None) \/ Moved(t, "lookup", m)
      BY <1>1, <1>4, PollOfMoves
    <2> QED BY <1>3, <1>4, <2>1
  <1>6. PICK pc \in {"poll", "idle", "lookup"}, mon \in Monitors \union {None} :
          Moved(t, pc, mon) /\ (pc = "idle" => mon = None) /\ (pc = "poll" => mon = monitor)
    BY <1>5
  <1>7. pc \in ThreadPc \ {"none"} /\ pc \notin Held
        /\ pc \notin {"wait", "ended", "open", "start", "state"}
    BY DEF ThreadPc, Held
  <1>8. \A u \in Thread : u # t /\ Starting(u) => thr[u].mon \in Monitors /\ thr[u].mon # m
    BY <1>1, <1>2, OnlyMine
  <1>9. /\ mons' \in [Monitors -> MonitorRec]
        /\ mons'[m].used = mons[m].used /\ mons'[m].session = mons[m].session
        /\ mons'[m].pc = "read" /\ mons'[m].fd = mons[m].fd /\ mons'[m].queue = mons[m].queue
        /\ \A k \in Monitors : k # m => mons'[k] = mons[k]
    <2> DEFINE r == [mons[m] EXCEPT !.pc = "read"]
    <2>1. mons' = [mons EXCEPT ![m] = r]
      BY <1>3, <1>4
    <2>2. /\ r \in MonitorRec /\ r.used = mons[m].used /\ r.session = mons[m].session
          /\ r.pc = "read" /\ r.fd = mons[m].fd /\ r.queue = mons[m].queue
      BY <1>3, <1>4 DEF MonitorRec
    <2> HIDE DEF r
    <2> QED BY <1>3, <1>4, <2>1, <2>2
  <1> HIDE DEF m
  <1>10. TypeOK'
    <2>1. Typed'
      BY <1>1, <1>4, <1>6, <1>9 DEF Typed, Moved
    <2> QED BY <2>1, TypedIs, PTL
  <1>11. Allocated' /\ Programmed'
    BY <1>1, <1>4, AllocatedStays, ProgrammedStays
  <1>12. Threads'
    <2>1. \A k \in Monitors : mons[k].used => mons'[k].used
      BY <1>9
    <2>2. \A u \in Thread : u # t /\ Starting(u) => mons'[thr[u].mon] = mons[thr[u].mon]
      BY <1>8, <1>9
    <2>3. pc \in {"poll", "state"} => mon \in Monitors /\ mons'[mon].used
      BY <1>4, <1>6, <1>7, <2>1
    <2> QED BY <1>1, <1>2, <1>4, <1>6, <1>7, <2>1, <2>2, <2>3, MovedThreads
  <1>13. Watching'
    BY <1>1, <1>2, <1>3, <1>4, <1>9 DEF Watching, Threaded, Connecting
  <1>14. Locked'
    <2>1. \A k \in Monitors : mons'[k].pc = "drain" <=> mons[k].pc = "drain"
      BY <1>3, <1>9
    <2>2. MutexStep(t, pc)
      BY <1>7 DEF MutexStep, Held
    <2> QED BY <1>1, <1>2, <1>6, <2>1, <2>2, MovedLocked
  <1>15. PinnedPage'
    <2>1. \A k \in Monitors : Watches(k) => Watches(k)' /\ mons'[k].queue = mons[k].queue
      BY <1>4, <1>9 DEF Watches
    <2>2. \E k \in Monitors : Watches(k)'
      BY <1>3, <1>4, <1>9 DEF Watches
    <2> QED BY <1>1, <1>3, <1>4, <1>6, <2>1, <2>2, MovedPinnedPage
  <1> QED BY <1>10, <1>11, <1>12, <1>13, <1>14, <1>15 DEF SessionInv

\* The thread of the monitor could not be started: its file is closed again.
LEMMA MonitorNotStarted ==
  ASSUME SessionInv, NEW t \in Thread, thr[t].pc = "start",
         mons' = [mons EXCEPT ![thr[t].mon].fd = FALSE, ![thr[t].mon].queue = 0],
         page' = [page EXCEPT !.watched = FALSE], PastWait(t), Fault,
         UNCHANGED <<main, setup, hw, fpga, live, monitor, mutex, sizeFd, early, late>>
  PROVE  SessionInv'
  <1> DEFINE m == thr[t].mon
  <1>1. Typed /\ Allocated /\ Programmed /\ Threads /\ Watching /\ Locked /\ PinnedPage
    BY TypedIs DEF SessionInv
  <1>2. main \in Threaded /\ (t = User => main = "open") /\ thr[t].pc # "none" /\ Starting(t)
    BY <1>1, Active DEF Starting
  <1>3. /\ m \in Monitors /\ monitor # None /\ mons[m].used /\ mons[m].pc = "none"
        /\ mons[m].session = Session
    BY <1>1, <1>2 DEF Threads
  <1>4. /\ mons \in [Monitors -> MonitorRec] /\ page \in PageRec /\ MaxUnmaps \in Nat
        /\ monitor \in Monitors
    BY <1>1, <1>3, SessionAssumption DEF Typed
  <1>5. /\ count' \in CountRec /\ Session' = Session /\ count'.unmaps = count.unmaps
        /\ count'.faults > 0
    BY <1>1, Faults
  <1>6. Excused'
    BY <1>5 DEF Excused
  <1>7. \E pc \in {"idle", "lookup"}, mon \in Monitors \union {None} :
          Moved(t, pc, mon) /\ (pc = "idle" => mon = None)
    <2>1. Moved(t, "idle", None) \/ Moved(t, "lookup", m)
      BY <1>1, PastWaitMoves
    <2> QED BY <1>3, <2>1
  <1>8. PICK pc \in {"idle", "lookup"}, mon \in Monitors \union {None} :
          Moved(t, pc, mon) /\ (pc = "idle" => mon = None)
    BY <1>7
  <1>9. pc \in ThreadPc \ {"none"} /\ pc \notin Held
        /\ pc \notin {"wait", "ended", "open", "start", "poll", "state"}
    BY DEF ThreadPc, Held
  <1>10. \A u \in Thread : u # t /\ Starting(u) => thr[u].mon \in Monitors /\ thr[u].mon # m
    BY <1>1, <1>2, OnlyMine
  <1>11. /\ mons' \in [Monitors -> MonitorRec]
         /\ mons'[m].used = mons[m].used /\ mons'[m].session = mons[m].session
         /\ mons'[m].pc = mons[m].pc /\ mons'[m].queue = 0
         /\ \A k \in Monitors : k # m => mons'[k] = mons[k]
    <2> DEFINE r == [mons[m] EXCEPT !.fd = FALSE, !.queue = 0]
    <2>1. mons' = [mons EXCEPT ![m] = r]
      BY <1>3, <1>4
    <2>2. /\ r \in MonitorRec /\ r.used = mons[m].used /\ r.session = mons[m].session
          /\ r.pc = mons[m].pc /\ r.queue = 0
      <3>1. mons[m] \in MonitorRec /\ 0 \in 0 .. MaxUnmaps
        BY <1>3, <1>4
      <3> HIDE DEF m
      <3>2. r \in MonitorRec
        BY <3>1 DEF MonitorRec
      <3>3. /\ r.used = mons[m].used /\ r.session = mons[m].session
            /\ r.pc = mons[m].pc /\ r.queue = 0
        BY <3>1 DEF MonitorRec
      <3> QED BY <3>2, <3>3
    <2> HIDE DEF r, m
    <2> QED BY <1>3, <1>4, <2>1, <2>2, MonExcept
  <1> HIDE DEF m
  <1>12. page' \in PageRec /\ page'.pinned = page.pinned /\ ~page'.watched
    BY <1>4 DEF PageRec
  <1>13. TypeOK'
    <2>1. Typed'
      BY <1>1, <1>5, <1>8, <1>11, <1>12 DEF Typed, Moved
    <2> QED BY <2>1, TypedIs, PTL
  <1>14. Allocated' /\ Programmed'
    BY <1>1, <1>5, AllocatedStays, ProgrammedStays
  <1>15. Threads'
    <2>1. \A k \in Monitors : mons[k].used => mons'[k].used
      BY <1>11
    <2>2. \A u \in Thread : u # t /\ Starting(u) => mons'[thr[u].mon] = mons[thr[u].mon]
      BY <1>10, <1>11
    <2> QED BY <1>1, <1>2, <1>5, <1>8, <1>9, <2>1, <2>2, MovedThreads
  <1>16. Watching'
    <2>1. \A k \in Monitors :
            /\ mons'[k].pc = mons[k].pc /\ mons'[k].used = mons[k].used
            /\ mons'[k].session = mons[k].session
            /\ mons'[k].queue <= count.unmaps
            /\ mons[k].pc \in {"lock", "drain"} =>
                 mons'[k].taken = mons[k].taken /\ mons'[k].queue = mons[k].queue
      <3>1. count.unmaps \in Nat
        BY <1>1, SessionAssumption DEF Typed, CountRec
      <3>2. mons[m].pc \notin {"lock", "drain"} /\ mons'[m].queue <= count.unmaps
        BY <1>3, <1>11, <3>1
      <3>3. \A k \in Monitors : mons[k].queue <= count.unmaps
        BY <1>1 DEF Watching
      <3> TAKE k \in Monitors
      <3>4. CASE k = m
        BY <1>11, <3>2, <3>4
      <3>5. CASE k # m
        <4>1. mons'[k] = mons[k]
          BY <1>11, <3>5
        <4> QED BY <3>3, <4>1
      <3> QED BY <3>4, <3>5
    <2>2. \A k \in Monitors :
            /\ mons'[k].pc # "none" => mons'[k].used
            /\ mons'[k].session <= Session'
            /\ mons'[k].pc \in {"lock", "drain"} => mons'[k].taken <= mons'[k].queue
      BY <1>1, <1>5, <2>1 DEF Watching
    <2>3. main' = main /\ monitor' = monitor
      OBVIOUS
    <2>4. Session >= 1 /\ (main = "monjoin" => monitor # None)
          /\ (monitor # None => main \in Threaded \union {"monterm", "monjoin"})
          /\ mons[monitor].used /\ mons[monitor].session = Session
          /\ main \notin {"start", "failed"} \union Connecting
      BY <1>1, <1>2, <1>3 DEF Watching, Threaded, Connecting
    <2>5. mons'[monitor].used /\ mons'[monitor].session = Session
      BY <1>4, <2>1, <2>4
    <2> QED BY <1>5, <2>1, <2>2, <2>3, <2>4, <2>5 DEF Watching
  <1>17. Locked'
    <2>1. \A k \in Monitors : mons'[k].pc = "drain" <=> mons[k].pc = "drain"
      BY <1>11
    <2>2. MutexStep(t, pc)
      BY <1>9 DEF MutexStep, Held
    <2> QED BY <1>1, <1>2, <1>8, <2>1, <2>2, MovedLocked
  <1>18. PinnedPage'
    BY <1>1, <1>6, <1>12 DEF PinnedPage, PinsWatched, Excused
  <1> QED BY <1>13, <1>14, <1>15, <1>16, <1>17, <1>18 DEF SessionInv

LEMMA MonitorStartKeeps == ASSUME SessionInv, NEW t \in Thread, MonitorStart(t) PROVE SessionInv'
  <1>1. /\ thr[t].pc = "start"
        /\ UNCHANGED <<main, setup, hw, fpga, live, monitor, mutex, sizeFd, early, late>>
    BY DEF MonitorStart, At, historyVars
  <1>2. CASE mons' = [mons EXCEPT ![thr[t].mon].pc = "read"] /\ PollOf(t, monitor) /\ NoFault
               /\ UNCHANGED page
    BY <1>1, <1>2, MonitorStarted
  <1>3. CASE /\ mons' = [mons EXCEPT ![thr[t].mon].fd = FALSE, ![thr[t].mon].queue = 0]
             /\ page' = [page EXCEPT !.watched = FALSE] /\ PastWait(t) /\ Fault
    BY <1>1, <1>3, MonitorNotStarted
  <1> QED BY <1>2, <1>3 DEF MonitorStart

-----------------------------------------------------------------------------
(* The monitor's thread.                                                   *)

LEMMA MonStep ==
  ASSUME SessionInv, NEW m \in Monitors, mons[m].pc # "none",
         mons' \in [Monitors -> MonitorRec], \A k \in Monitors : k # m => mons'[k] = mons[k],
         mons'[m].used = mons[m].used, mons'[m].fd = mons[m].fd,
         mons'[m].session = mons[m].session, mons'[m].queue <= count.unmaps,
         mons'[m].pc \in {"lock", "drain"} => mons'[m].taken <= mons'[m].queue,
         UNCHANGED <<main, setup, fpga, live, monitor, thr, sizeFd, count, early, late>>,
         hw' \in HwRec, mutex' \in {mutex, Free, m}, page' \in PageRec,
         Programmed', Locked',
         \/ ~page'.pinned
         \/ page' = page /\ mons'[m].queue = mons[m].queue
  PROVE  SessionInv'
  <1>1. Typed /\ Allocated /\ Programmed /\ Threads /\ Watching /\ Locked /\ PinnedPage
    BY TypedIs DEF SessionInv
  <1>2. TypeOK'
    <2>1. Typed'
      BY <1>1 DEF Typed
    <2> QED BY <2>1, TypedIs, PTL
  <1>3. Session' = Session
    BY DEF Session
  <1>4. Allocated'
    BY <1>1, AllocatedStays
  <1>5. \A k \in Monitors : /\ mons'[k].used = mons[k].used /\ mons'[k].fd = mons[k].fd
                            /\ mons'[k].session = mons[k].session
    OBVIOUS
  <1>6. Threads'
    <2>1. \A t \in Thread : Starting(t)' <=> Starting(t)
      BY DEF Starting
    <2>2. \A t \in Thread : Starting(t) => thr[t].mon \in Monitors /\ thr[t].mon # m
      BY <1>1 DEF Threads
    <2>3. \A t \in Thread : thr[t].pc = "start" => thr[t].mon \in Monitors
      BY <2>2 DEF Starting
    <2> QED BY <1>1, <1>3, <1>5, <2>1, <2>2, <2>3 DEF Threads
  <1>7. Watching'
    <2>1. \A k \in Monitors :
            /\ mons'[k].pc # "none" => mons'[k].used
            /\ mons'[k].queue <= count.unmaps
            /\ mons'[k].pc \in {"lock", "drain"} => mons'[k].taken <= mons'[k].queue
      BY <1>1 DEF Watching
    <2>2. monitor # None => monitor \in Monitors
      BY <1>1 DEF Typed
    <2> QED BY <1>1, <1>3, <1>5, <2>1, <2>2 DEF Watching
  <1>8. PinnedPage'
    <2>1. (Excused' <=> Excused) /\ \A k \in Monitors : Watches(k)' <=> Watches(k)
      BY <1>3, <1>5 DEF Excused, Watches
    <2>2. \A t \in Thread : thr'[t].pc \in PastInit => (\E k \in Monitors : Watches(k)') \/ Excused'
      BY <1>1, <2>1 DEF PinnedPage, PastInit
    <2>3. CASE ~page'.pinned
      BY <2>2, <2>3 DEF PinnedPage, PinsWatched, PastInit
    <2>4. CASE page' = page /\ mons'[m].queue = mons[m].queue
      <3>1. \A k \in Monitors : mons'[k].queue = mons[k].queue
        BY <2>4
      <3> QED BY <1>1, <2>1, <2>2, <2>4, <3>1 DEF PinnedPage, PinsWatched, PastInit, Excused
    <2> QED BY <2>3, <2>4
  <1> QED BY <1>2, <1>4, <1>6, <1>7, <1>8 DEF SessionInv

LEMMA MonReadKeeps == ASSUME SessionInv, NEW m \in Monitors, MonRead(m) PROVE SessionInv'
  <1>1. Typed /\ Programmed /\ Watching /\ Locked
    BY TypedIs DEF SessionInv
  <1>2. /\ mons[m].pc = "read"
        /\ UNCHANGED <<main, setup, hw, fpga, live, monitor, thr, mutex, page, sizeFd, count, early,
                       late>>
        /\ \/ mons' = [mons EXCEPT ![m].pc = "lock", ![m].taken = mons[m].queue]
           \/ mons' = [mons EXCEPT ![m].pc = "ended"]
    BY DEF MonRead, historyVars
  <1>3. mons \in [Monitors -> MonitorRec] /\ mons[m] \in MonitorRec
        /\ mons[m].queue <= count.unmaps /\ mons[m].queue <= mons[m].queue
    BY <1>1, SessionAssumption DEF Typed, Watching, MonitorRec
  <1>4. PICK r \in MonitorRec :
          /\ mons' = [mons EXCEPT ![m] = r]
          /\ r.used = mons[m].used /\ r.fd = mons[m].fd /\ r.session = mons[m].session
          /\ r.queue = mons[m].queue /\ r.pc \in {"lock", "ended"}
          /\ r.pc = "lock" => r.taken = mons[m].queue
    <2>1. CASE mons' = [mons EXCEPT ![m].pc = "lock", ![m].taken = mons[m].queue]
      <3> DEFINE r == [mons[m] EXCEPT !.pc = "lock", !.taken = mons[m].queue]
      <3>1. mons' = [mons EXCEPT ![m] = r]
        BY <1>3, <2>1
      <3>2. /\ r \in MonitorRec /\ r.used = mons[m].used /\ r.fd = mons[m].fd
            /\ r.session = mons[m].session /\ r.queue = mons[m].queue /\ r.pc = "lock"
            /\ r.taken = mons[m].queue
        BY <1>3 DEF MonitorRec
      <3> HIDE DEF r
      <3> QED BY <3>1, <3>2
    <2>2. CASE mons' = [mons EXCEPT ![m].pc = "ended"]
      <3> DEFINE r == [mons[m] EXCEPT !.pc = "ended"]
      <3>1. mons' = [mons EXCEPT ![m] = r]
        BY <1>3, <2>2
      <3>2. /\ r \in MonitorRec /\ r.used = mons[m].used /\ r.fd = mons[m].fd
            /\ r.session = mons[m].session /\ r.queue = mons[m].queue /\ r.pc = "ended"
        BY <1>3 DEF MonitorRec
      <3> HIDE DEF r
      <3> QED BY <3>1, <3>2
    <2> QED BY <1>2, <2>1, <2>2
  <1>5. /\ mons' \in [Monitors -> MonitorRec] /\ mons'[m] = r
        /\ \A k \in Monitors : k # m => mons'[k] = mons[k]
    BY <1>3, <1>4, MonExcept
  <1>6. hw' \in HwRec /\ page' \in PageRec /\ Session' = Session /\ mutex' \in {mutex, Free, m}
    BY <1>1, <1>2 DEF Typed, Session
  <1>7. Programmed'
    BY <1>1, <1>2, <1>6, ProgrammedStays
  <1>8. Locked'
    <2>1. \A k \in Monitors : mons'[k].pc = "drain" <=> mons[k].pc = "drain"
      BY <1>2, <1>4, <1>5
    <2> QED BY <1>1, <1>2, <2>1, LockedStays
  <1>9. /\ mons[m].pc # "none" /\ mons'[m].queue <= count.unmaps
        /\ mons'[m].pc \in {"lock", "drain"} => mons'[m].taken <= mons'[m].queue
    BY <1>2, <1>3, <1>4, <1>5
  <1> QED BY <1>2, <1>4, <1>5, <1>6, <1>7, <1>8, <1>9, MonStep

LEMMA MonLockKeeps == ASSUME SessionInv, NEW m \in Monitors, MonLock(m) PROVE SessionInv'
  <1>1. Typed /\ Allocated /\ Programmed /\ Watching /\ Locked
    BY TypedIs DEF SessionInv
  <1>2. /\ mons[m].pc = "lock" /\ mons[m].session = Session /\ "mutex" \in live
        /\ mutex = Free /\ mutex' = m /\ mons' = [mons EXCEPT ![m].pc = "drain"]
        /\ UNCHANGED <<main, setup, hw, fpga, live, monitor, thr, page, sizeFd, count, early, late>>
    BY DEF MonLock, Locks, historyVars
  <1>3. mons \in [Monitors -> MonitorRec] /\ mons[m] \in MonitorRec
        /\ mons[m].queue <= count.unmaps /\ mons[m].taken <= mons[m].queue
    BY <1>1, <1>2 DEF Typed, Watching
  <1> DEFINE r == [mons[m] EXCEPT !.pc = "drain"]
  <1>4. /\ r \in MonitorRec /\ r.used = mons[m].used /\ r.fd = mons[m].fd
        /\ r.session = mons[m].session /\ r.queue = mons[m].queue /\ r.pc = "drain"
        /\ r.taken = mons[m].taken
    BY <1>3 DEF MonitorRec
  <1>5. mons' = [mons EXCEPT ![m] = r]
    BY <1>2, <1>3
  <1> HIDE DEF r
  <1>6. /\ mons' \in [Monitors -> MonitorRec] /\ mons'[m] = r
        /\ \A k \in Monitors : k # m => mons'[k] = mons[k]
    BY <1>3, <1>4, <1>5, MonExcept
  <1>7. hw' \in HwRec /\ page' \in PageRec /\ Session' = Session /\ mutex' \in {mutex, Free, m}
    BY <1>1, <1>2 DEF Typed, Session
  <1>8. Programmed'
    BY <1>1, <1>2, <1>7, ProgrammedStays
  <1>9. Locked'
    <2>1. main' \notin {"start", "failed"} \union Connecting
      BY <1>1, <1>2 DEF Watching
    <2>2. main' \notin {"buffersterm", "closed"}
      BY <1>1, <1>2 DEF Allocated
    <2>3. \A t \in Thread : thr'[t].pc \notin Held
      BY <1>1, <1>2, Distinct DEF Locked, Held
    <2>4. \A k \in Monitors : mons'[k].pc = "drain" => k = m
      BY <1>1, <1>2, <1>6, Distinct DEF Locked
    <2>5. MutexReturns'
      BY <1>2, <1>4, <1>6 DEF MutexReturns
    <2> QED BY <1>2, <2>1, <2>2, <2>3, <2>4, <2>5 DEF Locked, Held
  <1>10. /\ mons[m].pc # "none" /\ mons'[m].queue <= count.unmaps
         /\ mons'[m].pc \in {"lock", "drain"} => mons'[m].taken <= mons'[m].queue
    BY <1>2, <1>3, <1>4, <1>6
  <1> QED BY <1>2, <1>4, <1>6, <1>7, <1>8, <1>9, <1>10, MonStep

LEMMA MonEventKeeps == ASSUME SessionInv, NEW m \in Monitors, MonEvent(m) PROVE SessionInv'
  <1>1. Typed /\ Programmed /\ Watching /\ Locked
    BY TypedIs DEF SessionInv
  <1>2. /\ mons[m].pc = "drain" /\ mons[m].taken > 0
        /\ mons' = [mons EXCEPT ![m].queue = @ - 1, ![m].taken = @ - 1]
        /\ page' = [page EXCEPT !.pinned = FALSE, !.stale = FALSE]
        /\ hw' \in {hw, [hw EXCEPT !.tlb = 0]}
        /\ UNCHANGED <<main, setup, fpga, live, monitor, thr, mutex, sizeFd, count, early, late>>
    BY DEF MonEvent, historyVars
  <1>3. /\ mons \in [Monitors -> MonitorRec] /\ mons[m] \in MonitorRec
        /\ mons[m].queue <= count.unmaps /\ mons[m].taken <= mons[m].queue
        /\ MaxUnmaps \in Nat /\ count.unmaps \in Nat
    BY <1>1, <1>2, SessionAssumption DEF Typed, Watching, CountRec
  <1> DEFINE q == mons[m].queue
             k == mons[m].taken
             r == [mons[m] EXCEPT !.queue = q - 1, !.taken = k - 1]
  <1>4. q \in 0 .. MaxUnmaps /\ k \in 0 .. MaxUnmaps
    BY <1>3 DEF MonitorRec
  <1>5. q - 1 \in 0 .. MaxUnmaps /\ k - 1 \in 0 .. MaxUnmaps /\ k - 1 <= q - 1
        /\ q - 1 <= count.unmaps
    BY <1>2, <1>3, <1>4
  <1>6. mons' = [mons EXCEPT ![m] = r]
    BY <1>2, <1>3
  <1>7. /\ r \in MonitorRec /\ r.used = mons[m].used /\ r.fd = mons[m].fd
        /\ r.session = mons[m].session /\ r.queue = q - 1 /\ r.taken = k - 1 /\ r.pc = mons[m].pc
    <2> HIDE DEF q, k
    <2> QED BY <1>3, <1>5 DEF MonitorRec
  <1> HIDE DEF r, q, k
  <1>8. /\ mons' \in [Monitors -> MonitorRec] /\ mons'[m] = r
        /\ \A j \in Monitors : j # m => mons'[j] = mons[j]
    BY <1>3, <1>6, <1>7, MonExcept
  <1>9. page' \in PageRec /\ ~page'.pinned
    BY <1>1, <1>2 DEF Typed, PageRec
  <1>10. hw' \in HwRec /\ hw'.on = hw.on /\ hw'.root = hw.root /\ hw'.ring = hw.ring
         /\ hw'.csrLost = hw.csrLost /\ hw'.tlb \in {0, hw.tlb}
    <2>1. hw \in HwRec
      BY <1>1 DEF Typed
    <2> QED BY <1>1, <1>2, <2>1, CsrRecords DEF HwRec
  <1>11. Session' = Session /\ mutex' \in {mutex, Free, m}
    BY <1>2 DEF Session
  <1>12. Programmed'
    BY <1>1, <1>2, <1>10, <1>11, ShimStays DEF Programmed
  <1>13. Locked'
    <2>1. \A j \in Monitors : mons'[j].pc = "drain" <=> mons[j].pc = "drain"
      BY <1>7, <1>8
    <2> QED BY <1>1, <1>2, <2>1, LockedStays
  <1>14. /\ mons[m].pc # "none" /\ mons'[m].queue <= count.unmaps
         /\ mons'[m].pc \in {"lock", "drain"} => mons'[m].taken <= mons'[m].queue
    BY <1>2, <1>5, <1>7, <1>8
  <1> QED BY <1>2, <1>7, <1>8, <1>9, <1>10, <1>11, <1>12, <1>13, <1>14, MonStep

LEMMA MonUnlockKeeps == ASSUME SessionInv, NEW m \in Monitors, MonUnlock(m) PROVE SessionInv'
  <1>1. Typed /\ Programmed /\ Watching /\ Locked
    BY TypedIs DEF SessionInv
  <1>2. /\ mons[m].pc = "drain" /\ mutex' = Free /\ mons' = [mons EXCEPT ![m].pc = "read"]
        /\ UNCHANGED <<main, setup, hw, fpga, live, monitor, thr, page, sizeFd, count, early, late>>
    BY DEF MonUnlock, Unlocks, historyVars
  <1>3. mons \in [Monitors -> MonitorRec] /\ mons[m] \in MonitorRec
        /\ mons[m].queue <= count.unmaps
    BY <1>1, <1>2 DEF Typed, Watching
  <1> DEFINE r == [mons[m] EXCEPT !.pc = "read"]
  <1>4. /\ r \in MonitorRec /\ r.used = mons[m].used /\ r.fd = mons[m].fd
        /\ r.session = mons[m].session /\ r.queue = mons[m].queue /\ r.pc = "read"
    BY <1>3 DEF MonitorRec
  <1>5. mons' = [mons EXCEPT ![m] = r]
    BY <1>2, <1>3
  <1> HIDE DEF r
  <1>6. /\ mons' \in [Monitors -> MonitorRec] /\ mons'[m] = r
        /\ \A k \in Monitors : k # m => mons'[k] = mons[k]
    BY <1>3, <1>4, <1>5, MonExcept
  <1>7. hw' \in HwRec /\ page' \in PageRec /\ Session' = Session /\ mutex' \in {mutex, Free, m}
    BY <1>1, <1>2 DEF Typed, Session
  <1>8. Programmed'
    BY <1>1, <1>2, <1>7, ProgrammedStays
  <1>9. Locked'
    <2>1. mutex = m
      BY <1>1, <1>2 DEF Locked
    <2>2. \A t \in Thread : thr'[t].pc \notin Held
      BY <1>1, <1>2, <2>1, Distinct DEF Locked, Held
    <2>3. \A k \in Monitors : mons'[k].pc # "drain"
      BY <1>1, <1>4, <1>6, <2>1 DEF Locked
    <2> QED BY <1>2, <2>2, <2>3 DEF Locked, Held, MutexReturns
  <1>10. /\ mons[m].pc # "none" /\ mons'[m].queue <= count.unmaps
         /\ mons'[m].pc \notin {"lock", "drain"}
    BY <1>2, <1>3, <1>4, <1>6
  <1> QED BY <1>2, <1>4, <1>6, <1>7, <1>8, <1>9, <1>10, MonStep

-----------------------------------------------------------------------------
(* The steps of mpfDisconnect.                                             *)

LEMMA TurnOffKeeps == ASSUME SessionInv, TurnOff PROVE SessionInv'
  <1> DEFINE new == [hw EXCEPT !.on = FALSE]
  <1>1. Typed /\ Allocated /\ Programmed /\ Threads /\ Watching /\ Locked /\ PinnedPage
    BY TypedIs DEF SessionInv
  <1>2. /\ main = "off" /\ main' = "srvterm"
        /\ UNCHANGED <<setup, fpga, live, monitor, mons, thr, mutex, page, sizeFd, early, late>>
        /\ \/ Shim = "none" /\ hw' = hw /\ count' = count
           \/ WriteCsr(new) \/ CsrFails(new)
    BY DEF TurnOff, Goto, After, historyVars
  <1>3. new \in HwRec /\ hw \in HwRec
    BY <1>1, CsrRecords DEF Typed
  <1>4. new.on = FALSE /\ new.ring = hw.ring /\ new.csrLost = hw.csrLost
    BY <1>3 DEF HwRec
  <1> HIDE DEF new
  <1>5. /\ hw' \in HwRec /\ count' \in CountRec /\ Session' = Session
        /\ count'.unmaps = count.unmaps /\ (count.faults > 0 => count'.faults > 0)
        /\ hw'.ring = hw.ring /\ (hw'.on => hw'.csrLost)
    <2>1. CASE Shim = "none" /\ hw' = hw /\ count' = count
      <3>1. hw.on => hw.csrLost
        BY <1>1, <2>1 DEF Programmed
      <3> QED BY <1>1, <2>1, <3>1 DEF Typed, Session
    <2>2. CASE WriteCsr(new) \/ CsrFails(new)
      <3>1. WriteCsr(new) => hw' = new
        BY <1>1, <1>3, <2>2, Writes
      <3>2. CsrFails(new) => /\ hw'.on = hw.on /\ hw'.ring = hw.ring
                             /\ (hw'.csrLost <=> hw.csrLost \/ new # hw)
        BY <1>1, <1>3, <2>2, Writes
      <3>3. /\ hw' \in HwRec /\ count' \in CountRec /\ Session' = Session
            /\ count'.unmaps = count.unmaps /\ (count.faults > 0 => count'.faults > 0)
        BY <1>1, <1>3, <2>2, Writes
      <3> QED BY <1>4, <2>2, <3>1, <3>2, <3>3
    <2> QED BY <1>2, <2>1, <2>2
  <1>6. main' \in Threaded /\ main' \in MainPc /\ Shim' = Shim
    BY <1>2, ShimStays DEF Threaded, MainPc
  <1>7. TypeOK'
    <2>1. Typed'
      BY <1>1, <1>2, <1>5, <1>6 DEF Typed
    <2> QED BY <2>1, TypedIs, PTL
  <1>8. Allocated'
    BY <1>1, <1>2, <1>6 DEF Allocated, Threaded, Closing
  <1>9. Programmed'
    BY <1>1, <1>2, <1>5, <1>6 DEF Programmed, Threaded
  <1>10. Threads'
    <2>1. \A t \in Thread : Starting(t)' <=> Starting(t)
      BY <1>2 DEF Starting
    <2> QED BY <1>1, <1>2, <1>5, <1>6, <2>1 DEF Threads
  <1>11. Watching'
    BY <1>1, <1>2, <1>5, <1>6 DEF Watching, Threaded, Connecting
  <1>12. Locked'
    <2>1. MutexReturns'
      BY <1>1, <1>2 DEF Locked, MutexReturns, MutexGone
    <2> QED BY <1>1, <1>2, <2>1 DEF Locked, Connecting
  <1>13. PinnedPage'
    <2>1. (Excused => Excused') /\ \A m \in Monitors : Watches(m)' <=> Watches(m)
      BY <1>2, <1>5 DEF Excused, Watches
    <2> QED BY <1>1, <1>2, <1>6, <2>1 DEF PinnedPage, PinsWatched, Excused
  <1> QED BY <1>7, <1>8, <1>9, <1>10, <1>11, <1>12, <1>13 DEF SessionInv

\* A step with which the server is gone, or that comes after that.
LEMMA ClosingStep ==
  ASSUME SessionInv, main \in {"srvterm", "srvjoin"} \union Closing, main' \in Closing,
         thr[Srv].pc \in {"ended", "none"}, thr' \in [Thread -> ThreadRec],
         Calm', thr'[Srv].pc = "none",
         UNCHANGED <<setup, hw, page, mutex, sizeFd, count, early, late>>,
         fpga' \in FpgaRec, fpga'.pipe = fpga.pipe, live' \subseteq Resource, Allocated',
         monitor' \in Monitors \union {None}, mons' \in [Monitors -> MonitorRec], Watching',
         \A m \in Monitors : mons'[m].pc = "drain" <=> mons[m].pc = "drain"
  PROVE  SessionInv'
  <1>1. Typed /\ Programmed /\ Threads /\ Locked /\ PinnedPage
    BY TypedIs DEF SessionInv
  <1>2. Session' = Session /\ Shim' = Shim
    BY ShimStays DEF Session
  <1>3. TypeOK'
    <2>1. Typed'
      BY <1>1 DEF Typed, MainPc
    <2> QED BY <2>1, TypedIs, PTL
  <1>4. main' \in {"monterm", "monjoin", "ptterm"}
    BY DEF Closing
  <1>5. main \in {"srvterm", "srvjoin", "monterm", "monjoin", "ptterm"}
    BY DEF Closing
  <1>6. Programmed'
    <2>1. fpga.pipe = "none" \/ late
      BY <1>1, <1>5 DEF Programmed
    <2>2. ~hw.on \/ hw.csrLost
      BY <1>1, <1>5 DEF Programmed
    <2> QED BY <1>2, <1>4, <2>1, <2>2 DEF Programmed, Threaded
  <1>7. Threads'
    BY CalmThreads
  <1>8. \A t \in Thread : thr[t].pc \notin Held /\ thr'[t].pc \in {"none", "idle"}
    <2>1. thr[User].pc = "idle"
      BY <1>1, <1>5 DEF Threads
    <2> QED BY <2>1, Distinct DEF Calm, Held
  <1>9. Locked'
    <2>1. MutexReturns'
      BY <1>1, <1>8 DEF Locked, MutexReturns, MutexGone, Held
    <2> QED BY <1>1, <1>4, <1>8, <2>1 DEF Locked, Connecting
  <1>10. PinnedPage'
    BY <1>1, <1>4, <1>8 DEF PinnedPage, PinsWatched, Excused
  <1> QED BY <1>3, <1>6, <1>7, <1>9, <1>10 DEF SessionInv

LEMMA SrvTermKeeps == ASSUME SessionInv, SrvTerm PROVE SessionInv'
  <1>1. Typed /\ Allocated /\ Programmed /\ Threads /\ Watching /\ Locked /\ PinnedPage
    BY TypedIs DEF SessionInv
  <1>2. /\ main = "srvterm"
        /\ UNCHANGED <<setup, hw, fpga, live, monitor, mons, mutex, page, sizeFd, count, early, late>>
        /\ \/ "server" \in live /\ thr' = [thr EXCEPT ![Srv].cancel = TRUE] /\ main' = "srvjoin"
           \/ "server" \notin live /\ thr' = thr /\ main' = "monterm"
    BY DEF SrvTerm, Goto, After, historyVars
  <1>3. Session' = Session /\ Shim' = Shim /\ main \in Threaded
    BY <1>2, ShimStays DEF Session, Threaded
  <1>4. CASE "server" \in live /\ thr' = [thr EXCEPT ![Srv].cancel = TRUE] /\ main' = "srvjoin"
    <2>1. main' \in Threaded /\ main' \in MainPc
      BY <1>4 DEF Threaded, MainPc
    <2>2. /\ thr' \in [Thread -> ThreadRec]
          /\ \A t \in Thread : thr'[t].pc = thr[t].pc /\ thr'[t].mon = thr[t].mon
          /\ thr'[User] = thr[User]
      <3> DEFINE r == [thr[Srv] EXCEPT !.cancel = TRUE]
      <3>1. thr \in [Thread -> ThreadRec]
        BY <1>1 DEF Typed
      <3>2. r \in ThreadRec /\ r.pc = thr[Srv].pc /\ r.mon = thr[Srv].mon
        BY <3>1, Distinct DEF ThreadRec
      <3>3. thr' = [thr EXCEPT ![Srv] = r]
        BY <1>4
      <3> HIDE DEF r
      <3> QED BY <3>1, <3>2, <3>3, Distinct
    <2>3. TypeOK'
      <3>1. Typed'
        BY <1>1, <1>2, <2>1, <2>2 DEF Typed
      <3> QED BY <3>1, TypedIs, PTL
    <2>4. Allocated'
      BY <1>1, <1>2, <1>3, <1>4 DEF Allocated, Threaded, Closing
    <2>5. Programmed'
      BY <1>1, <1>2, <1>3, <1>4 DEF Programmed, Threaded
    <2>6. Threads'
      <3>1. \A t \in Thread : Starting(t)' <=> Starting(t)
        BY <2>2 DEF Starting
      <3>2. User \in Thread /\ Srv \in Thread
        BY Distinct
      <3> QED BY <1>1, <1>2, <1>3, <1>4, <2>1, <2>2, <3>1, <3>2 DEF Threads
    <2>7. Watching'
      BY <1>1, <1>2, <1>3, <1>4, <2>1 DEF Watching, Threaded, Connecting
    <2>8. Locked'
      <3>1. MutexReturns'
        BY <1>1, <1>2, <2>2, Distinct DEF Locked, MutexReturns, MutexGone
      <3> QED BY <1>1, <1>2, <1>4, <2>2, <3>1 DEF Locked, Connecting
    <2>9. PinnedPage'
      <3>1. (Excused' <=> Excused) /\ \A m \in Monitors : Watches(m)' <=> Watches(m)
        BY <1>2, <1>3 DEF Excused, Watches
      <3> QED BY <1>1, <1>2, <1>4, <2>1, <2>2, <3>1 DEF PinnedPage, PinsWatched, Excused
    <2> QED BY <2>3, <2>4, <2>5, <2>6, <2>7, <2>8, <2>9 DEF SessionInv
  <1>5. CASE "server" \notin live /\ thr' = thr /\ main' = "monterm"
    <2>1. main' \in Closing /\ thr[Srv].pc = "none" /\ thr[User].pc = "idle"
      BY <1>1, <1>2, <1>5 DEF Closing, Threads
    <2>2. Calm' /\ thr'[Srv].pc = "none" /\ thr' \in [Thread -> ThreadRec]
      BY <1>1, <1>2, <1>5, <2>1, Distinct DEF Calm, Threads, Typed
    <2>3. Allocated'
      BY <1>1, <1>2, <1>3, <1>5 DEF Allocated, Threaded, Closing
    <2>4. Watching'
      BY <1>1, <1>2, <1>3, <1>5 DEF Watching, Threaded, Connecting
    <2>5. fpga' \in FpgaRec /\ live' \subseteq Resource /\ monitor' \in Monitors \union {None}
          /\ mons' \in [Monitors -> MonitorRec]
      BY <1>1, <1>2 DEF Typed
    <2> QED BY <1>2, <2>1, <2>2, <2>3, <2>4, <2>5, ClosingStep
  <1> QED BY <1>2, <1>4, <1>5

LEMMA SrvJoinKeeps == ASSUME SessionInv, SrvJoin PROVE SessionInv'
  <1>1. Typed /\ Allocated /\ Threads /\ Watching
    BY TypedIs DEF SessionInv
  <1>2. /\ main = "srvjoin" /\ main' = "monterm" /\ thr[Srv].pc = "ended"
        /\ thr' = [thr EXCEPT ![Srv] = NoThread] /\ live' = live \ {"server", "ring"}
        /\ fpga' = [fpga EXCEPT !.slot = "none"]
        /\ UNCHANGED <<setup, hw, monitor, mons, mutex, page, sizeFd, count, early, late>>
    BY DEF SrvJoin, At, Goto, After, historyVars
  <1>3. Session' = Session /\ Shim' = Shim /\ main \in Threaded /\ main' \in Closing
    BY <1>2, ShimStays DEF Session, Threaded, Closing
  <1>4. /\ thr' \in [Thread -> ThreadRec] /\ thr'[Srv].pc = "none" /\ Calm'
    <2>1. NoThread \in ThreadRec /\ NoThread.pc = "none" /\ NoThread.mon = None
          /\ ~NoThread.cancel
      BY DEF NoThread, ThreadRec, ThreadPc
    <2>2. thr \in [Thread -> ThreadRec]
      BY <1>1 DEF Typed
    <2> HIDE DEF NoThread
    <2>3. thr' \in [Thread -> ThreadRec] /\ thr'[Srv] = NoThread /\ thr'[User] = thr[User]
      BY <1>2, <2>1, <2>2, Distinct
    <2>4. thr[User].pc = "idle" /\ thr[User].mon = None
      BY <1>1, <1>2, Distinct DEF Threads
    <2> QED BY <2>1, <2>3, <2>4 DEF Calm
  <1>5. Allocated'
    BY <1>1, <1>2, <1>3 DEF Allocated, Threaded, Closing
  <1>6. Watching'
    BY <1>1, <1>2, <1>3 DEF Watching, Threaded, Connecting
  <1>7. fpga' \in FpgaRec /\ fpga'.pipe = fpga.pipe /\ live' \subseteq Resource
        /\ monitor' \in Monitors \union {None} /\ mons' \in [Monitors -> MonitorRec]
    BY <1>1, <1>2 DEF Typed, FpgaRec
  <1> QED BY <1>2, <1>3, <1>4, <1>5, <1>6, <1>7, ClosingStep

\* The descriptor is freed.
LEMMA MonitorFreed ==
  ASSUME SessionInv, main \in {"monterm", "monjoin"}, main' = "ptterm",
         monitor' = None, monitor # None => mons[monitor].pc # "drain",
         mons' = IF monitor = None THEN mons ELSE [mons EXCEPT ![monitor] = NoMonitor],
         UNCHANGED <<setup, hw, fpga, live, thr, mutex, page, sizeFd, count, early, late>>
  PROVE  SessionInv'
  <1>1. Typed /\ Allocated /\ Threads /\ Watching
    BY TypedIs DEF SessionInv
  <1>2. Session' = Session /\ Shim' = Shim /\ Session \in Nat /\ count.unmaps \in Nat
        /\ MaxUnmaps \in Nat /\ MaxSessions \in Nat
    BY <1>1, ShimStays, SessionAssumption DEF Session, Typed, CountRec
  <1>3. main \notin Threaded /\ main \in Closing /\ main' \in Closing
    BY DEF Threaded, Closing
  <1>4. Calm /\ Calm' /\ thr[Srv].pc = "none" /\ thr'[Srv].pc = "none"
    BY <1>1, <1>3, IsCalm DEF Calm
  <1>5. NoMonitor \in MonitorRec /\ NoMonitor.pc = "none" /\ NoMonitor.session = 0
        /\ NoMonitor.queue = 0
    BY <1>2 DEF NoMonitor, MonitorRec
  <1>6. /\ mons' \in [Monitors -> MonitorRec]
        /\ \A m \in Monitors : mons'[m] = mons[m] \/ (mons'[m] = NoMonitor /\ m = monitor)
    <2> HIDE DEF NoMonitor
    <2>1. mons \in [Monitors -> MonitorRec] /\ monitor \in Monitors \union {None}
      BY <1>1 DEF Typed
    <2>2. CASE monitor = None
      BY <2>1, <2>2
    <2>3. CASE monitor # None
      BY <1>5, <2>1, <2>3
    <2> QED BY <2>2, <2>3
  <1> HIDE DEF NoMonitor
  <1>7. Allocated'
    BY <1>1, <1>2 DEF Allocated, Threaded, Closing
  <1>8. Watching'
    <2>1. \A m \in Monitors :
            /\ mons'[m].pc # "none" => mons'[m].used
            /\ mons'[m].session <= Session /\ mons'[m].queue <= count.unmaps
            /\ mons'[m].pc \in {"lock", "drain"} => mons'[m].taken <= mons'[m].queue
      BY <1>1, <1>2, <1>5, <1>6 DEF Watching
    <2> QED BY <1>1, <1>2, <2>1 DEF Watching, Connecting
  <1>9. \A m \in Monitors : mons'[m].pc = "drain" <=> mons[m].pc = "drain"
    BY <1>5, <1>6, Distinct
  <1>10. fpga' \in FpgaRec /\ live' \subseteq Resource /\ monitor' \in Monitors \union {None}
         /\ thr' \in [Thread -> ThreadRec]
    BY <1>1 DEF Typed
  <1> QED BY <1>3, <1>4, <1>6, <1>7, <1>8, <1>9, <1>10, ClosingStep

LEMMA MonitorTermKeeps == ASSUME SessionInv, MonitorTerm PROVE SessionInv'
  <1>1. Typed /\ Allocated /\ Threads /\ Watching
    BY TypedIs DEF SessionInv
  <1>2. /\ main = "monterm"
        /\ UNCHANGED <<setup, hw, fpga, live, thr, mutex, page, sizeFd, count, early, late>>
    BY DEF MonitorTerm, historyVars
  <1>3. CASE /\ ~(monitor # None /\ mons[monitor].pc # "none")
             /\ mons' = IF monitor = None THEN mons ELSE [mons EXCEPT ![monitor] = NoMonitor]
             /\ monitor' = None /\ main' = "ptterm"
    BY <1>2, <1>3, MonitorFreed
  <1>4. CASE /\ monitor # None /\ mons[monitor].pc # "none"
             /\ mons' = [mons EXCEPT ![monitor].cancel = TRUE]
             /\ main' = "monjoin" /\ monitor' = monitor
    <2>1. Session' = Session /\ Shim' = Shim
      BY <1>2, ShimStays DEF Session
    <2>2. main \notin Threaded /\ main \in Closing /\ main' \in Closing
      BY <1>2, <1>4 DEF Threaded, Closing
    <2>3. Calm /\ Calm' /\ thr[Srv].pc = "none" /\ thr'[Srv].pc = "none"
      BY <1>1, <1>2, <2>2, IsCalm DEF Calm
    <2>4. mons \in [Monitors -> MonitorRec] /\ monitor \in Monitors
      BY <1>1, <1>4 DEF Typed
    <2>5. /\ mons' \in [Monitors -> MonitorRec]
          /\ \A m \in Monitors :
               /\ mons'[m].pc = mons[m].pc /\ mons'[m].used = mons[m].used
               /\ mons'[m].session = mons[m].session /\ mons'[m].queue = mons[m].queue
               /\ mons'[m].taken = mons[m].taken
      <3> DEFINE r == [mons[monitor] EXCEPT !.cancel = TRUE]
      <3>1. mons' = [mons EXCEPT ![monitor] = r]
        BY <1>4, <2>4
      <3>2. /\ r \in MonitorRec /\ r.pc = mons[monitor].pc /\ r.used = mons[monitor].used
            /\ r.session = mons[monitor].session /\ r.queue = mons[monitor].queue
            /\ r.taken = mons[monitor].taken
        BY <2>4 DEF MonitorRec
      <3> HIDE DEF r
      <3>3. /\ mons' \in [Monitors -> MonitorRec] /\ mons'[monitor] = r
            /\ \A m \in Monitors : m # monitor => mons'[m] = mons[m]
        BY <2>4, <3>1, <3>2, MonExcept
      <3> QED BY <3>2, <3>3
    <2>6. Allocated'
      BY <1>1, <1>2, <1>4, <2>1 DEF Allocated, Threaded, Closing
    <2>7. Watching'
      BY <1>1, <1>2, <1>4, <2>1, <2>4, <2>5 DEF Watching, Threaded, Connecting
    <2>8. fpga' \in FpgaRec /\ live' \subseteq Resource /\ monitor' \in Monitors \union {None}
          /\ thr' \in [Thread -> ThreadRec]
      BY <1>1, <1>2, <1>4 DEF Typed
    <2> QED BY <1>2, <2>2, <2>3, <2>5, <2>6, <2>7, <2>8, ClosingStep
  <1> QED BY <1>3, <1>4 DEF MonitorTerm, Goto, After

LEMMA MonitorJoinKeeps == ASSUME SessionInv, MonitorJoin PROVE SessionInv'
  <1>1. Watching
    BY DEF SessionInv
  <1>2. /\ main = "monjoin" /\ main' = "ptterm" /\ mons[monitor].pc = "ended"
        /\ mons' = [mons EXCEPT ![monitor] = NoMonitor] /\ monitor' = None
        /\ UNCHANGED <<setup, hw, fpga, live, thr, mutex, page, sizeFd, count, early, late>>
    BY DEF MonitorJoin, Goto, After, historyVars
  <1>3. monitor # None
    BY <1>1, <1>2 DEF Watching
  <1> QED BY <1>2, <1>3, MonitorFreed

\* The page table goes, when nobody has its mutex.
LEMMA PtTermKeeps == ASSUME SessionInv, PtTerm PROVE SessionInv'
  <1>1. Typed /\ Allocated /\ Programmed /\ Threads /\ Watching /\ Locked /\ PinnedPage
    BY TypedIs DEF SessionInv
  <1>2. /\ main = "ptterm" /\ main' = "buffersterm" /\ mutex = Free
        /\ page' = [page EXCEPT !.pinned = FALSE, !.stale = FALSE]
        /\ live' = live \ {"table", "mutex", "node", "rootpin"}
        /\ UNCHANGED <<setup, hw, fpga, monitor, mons, thr, mutex, sizeFd, count, early, late>>
    BY DEF PtTerm, Goto, historyVars
  <1>3. Session' = Session /\ Shim' = Shim /\ main \notin Threaded /\ main' \in MainPc
    BY <1>2, ShimStays DEF Session, Threaded, MainPc
  <1>4. Calm /\ Calm' /\ thr'[Srv].pc = "none"
    BY <1>1, <1>2, <1>3, IsCalm DEF Calm
  <1>5. page' \in PageRec /\ ~page'.pinned
    BY <1>1, <1>2 DEF Typed, PageRec
  <1>6. TypeOK'
    <2>1. Typed'
      BY <1>1, <1>2, <1>3, <1>5 DEF Typed
    <2> QED BY <2>1, TypedIs, PTL
  <1>7. live' \subseteq {"buffers", "handle"}
    <2>1. "server" \notin live
      BY <1>1, <1>2 DEF Allocated, Threaded
    <2>2. "ring" \notin live
      BY <1>1, <2>1 DEF Allocated
    <2> QED BY <1>1, <1>2, <2>1, <2>2 DEF Typed, Resource
  <1>8. Allocated'
    BY <1>2, <1>3, <1>7 DEF Allocated, Threaded, Closing
  <1>9. Programmed'
    BY <1>1, <1>2, <1>3 DEF Programmed, Threaded
  <1>10. Threads'
    BY <1>4, CalmThreads
  <1>11. Watching'
    BY <1>1, <1>2, <1>3 DEF Watching, Threaded, Connecting
  <1>12. \A t \in Thread : thr'[t].pc \in {"none", "idle"}
    BY <1>4, Distinct DEF Calm
  <1>13. Locked'
    BY <1>1, <1>2, <1>12 DEF Locked, MutexReturns
  <1>14. PinnedPage'
    BY <1>5, <1>12 DEF PinnedPage, PinsWatched
  <1> QED BY <1>6, <1>8, <1>9, <1>10, <1>11, <1>13, <1>14 DEF SessionInv

LEMMA BuffersTermKeeps == ASSUME SessionInv, BuffersTerm PROVE SessionInv'
  <1>1. Typed /\ Allocated /\ Programmed /\ Threads /\ Watching /\ Locked /\ PinnedPage
    BY TypedIs DEF SessionInv
  <1>2. /\ main = "buffersterm" /\ main' = "closed" /\ live' = live \ {"buffers", "handle"}
        /\ UNCHANGED <<setup, hw, fpga, monitor, mons, thr, mutex, page, sizeFd, count, early, late>>
    BY DEF BuffersTerm, Goto, historyVars
  <1>3. Session' = Session /\ Shim' = Shim /\ main \notin Threaded /\ main' \in MainPc
    BY <1>2, ShimStays DEF Session, Threaded, MainPc
  <1>4. Calm /\ Calm' /\ thr'[Srv].pc = "none"
    BY <1>1, <1>2, <1>3, IsCalm DEF Calm
  <1>5. TypeOK'
    <2>1. Typed'
      BY <1>1, <1>2, <1>3 DEF Typed
    <2> QED BY <2>1, TypedIs, PTL
  <1>6. live' = {}
    BY <1>1, <1>2 DEF Allocated
  <1>7. Allocated'
    BY <1>2, <1>3, <1>6 DEF Allocated, Threaded, Closing
  <1>8. Programmed'
    BY <1>1, <1>2, <1>3 DEF Programmed, Threaded
  <1>9. Threads'
    BY <1>4, CalmThreads
  <1>10. Watching'
    BY <1>1, <1>2, <1>3 DEF Watching, Threaded, Connecting
  <1>11. \A t \in Thread : thr'[t].pc \in {"none", "idle"}
    BY <1>4, Distinct DEF Calm
  <1>12. mutex = Free /\ ~page.pinned
    BY <1>1, <1>2 DEF Locked, PinnedPage, Threaded, Closing
  <1>13. Locked'
    BY <1>1, <1>2, <1>11, <1>12 DEF Locked, MutexReturns
  <1>14. PinnedPage'
    BY <1>2, <1>11, <1>12 DEF PinnedPage, PinsWatched
  <1> QED BY <1>5, <1>7, <1>8, <1>9, <1>10, <1>13, <1>14 DEF SessionInv

-----------------------------------------------------------------------------
(* The specification.                                                      *)

LEMMA InitHolds == Init => SessionInv
  <1> SUFFICES ASSUME Init PROVE SessionInv
    OBVIOUS
  <1>1. /\ main = "start" /\ setup \in SetupRec
        /\ hw = [on |-> FALSE, root |-> 1, ring |-> 1, tlb |-> 1, csrLost |-> FALSE]
        /\ fpga = [pipe |-> "none", slot |-> "none"]
        /\ live = {} /\ monitor = None /\ mutex = Free /\ sizeFd = "unset"
        /\ page = [mapped |-> TRUE, pinned |-> FALSE, stale |-> FALSE, watched |-> FALSE]
        /\ count = [sessions |-> 1, requests |-> 0, calls |-> 0, unmaps |-> 0, faults |-> 0]
        /\ early = FALSE /\ late = FALSE
    BY DEF Init, SetupRec
  <1>2. /\ MaxSessions \in Nat \ {0} /\ MaxRequests \in Nat /\ MaxCalls \in Nat
        /\ MaxUnmaps \in Nat /\ MaxFaults \in Nat
    BY SessionAssumption
  <1>3. /\ 1 \in 0 .. MaxSessions /\ 0 \in 0 .. MaxSessions /\ 0 \in 0 .. MaxUnmaps
        /\ 0 \in 0 .. MaxRequests /\ 0 \in 0 .. MaxCalls /\ 0 \in 0 .. MaxFaults
    BY <1>2
  <1>4. count \in CountRec /\ Session = 1 /\ count.unmaps = 0
    BY <1>1, <1>3 DEF CountRec, Session
  <1>5. hw \in HwRec /\ hw.on = FALSE
    BY <1>1, <1>3 DEF HwRec
  <1>6. fpga \in FpgaRec /\ fpga.pipe = "none" /\ page \in PageRec /\ ~page.pinned
    BY <1>1 DEF FpgaRec, PageRec
  <1>7. /\ mons \in [Monitors -> MonitorRec]
        /\ \A m \in Monitors : /\ mons[m].pc = "none" /\ mons[m].session = 0
                               /\ mons[m].queue = 0
    <2>1. mons = [m \in Monitors |-> NoMonitor]
      BY DEF Init
    <2>2. NoMonitor \in MonitorRec /\ NoMonitor.pc = "none" /\ NoMonitor.session = 0
          /\ NoMonitor.queue = 0
      BY <1>3 DEF NoMonitor, MonitorRec
    <2> HIDE DEF NoMonitor
    <2> QED BY <2>1, <2>2
  <1>8. thr \in [Thread -> ThreadRec] /\ Calm /\ thr[Srv].pc = "none"
    <2>1. thr = [t \in Thread |-> IF t = User THEN Idle ELSE NoThread]
      BY DEF Init
    <2>2. /\ Idle \in ThreadRec /\ Idle.pc = "idle" /\ Idle.mon = None
          /\ NoThread \in ThreadRec /\ NoThread.pc = "none" /\ NoThread.mon = None
          /\ ~NoThread.cancel
      BY DEF Idle, NoThread, ThreadRec, ThreadPc
    <2> HIDE DEF Idle, NoThread
    <2>3. thr[User] = Idle /\ thr[Srv] = NoThread
      BY <2>1, Distinct
    <2> QED BY <2>1, <2>2, <2>3 DEF Calm
  <1>9. \A t \in Thread : thr[t].pc \in {"none", "idle"} /\ thr[t].mon = None
    BY <1>8, Distinct DEF Calm
  <1>10. TypeOK
    <2>1. Typed
      BY <1>1, <1>4, <1>5, <1>6, <1>7, <1>8 DEF Typed, MainPc
    <2> QED BY <2>1, TypedIs
  <1>11. Allocated
    BY <1>1 DEF Allocated, Threaded, Closing
  <1>12. Programmed
    BY <1>1, <1>5, <1>6 DEF Programmed, Threaded
  <1>13. Threads
    <2>1. \A t \in Thread : ~Starting(t)
      BY <1>9 DEF Starting
    <2> QED BY <1>8, <1>9, <2>1 DEF Threads, Calm
  <1>14. Watching
    BY <1>1, <1>4, <1>7 DEF Watching
  <1>15. Locked
    BY <1>1, <1>7, <1>9 DEF Locked, MutexReturns
  <1>16. PinnedPage
    BY <1>6, <1>9 DEF PinnedPage, PinsWatched
  <1> QED BY <1>10, <1>11, <1>12, <1>13, <1>14, <1>15, <1>16 DEF SessionInv

LEMMA StutterHolds == ASSUME SessionInv, UNCHANGED vars PROVE SessionInv'
  <1>1. Typed /\ Allocated /\ Programmed /\ Threads /\ Watching /\ Locked /\ PinnedPage
    BY TypedIs DEF SessionInv
  <1>2. UNCHANGED <<main, setup, hw, fpga, live, monitor, mons, thr, mutex, page, sizeFd, count,
                    early, late>>
    BY DEF vars, historyVars
  <1>3. Session' = Session
    BY <1>2 DEF Session
  <1>4. TypeOK'
    <2>1. Typed'
      BY <1>1, <1>2 DEF Typed
    <2> QED BY <2>1, TypedIs, PTL
  <1>5. Allocated' /\ Programmed' /\ Threads' /\ Watching' /\ Locked' /\ PinnedPage'
    BY <1>1, <1>2, <1>3, AllocatedStays, ProgrammedStays, ThreadsStay, WatchingStays, LockedStays,
       PinnedPageStays
  <1> QED BY <1>4, <1>5 DEF SessionInv

LEMMA StepHolds == SessionInv /\ [Next]_vars => SessionInv'
  <1> SUFFICES ASSUME SessionInv, [Next]_vars PROVE SessionInv'
    OBVIOUS
  <1>1. CASE Main
    BY <1>1, ConnectKeeps, PtInitKeeps, BuffersInitKeeps, InvalHWTLBKeeps, VtpEnableKeeps,
       SrvInitKeeps, RingAddrKeeps, SrvSpawnKeeps, UndoKeeps, TurnOffKeeps, SrvTermKeeps,
       SrvJoinKeeps, MonitorTermKeeps, MonitorJoinKeeps, PtTermKeeps, BuffersTermKeeps
    DEF Main
  <1>2. CASE Calls
    <2>1. CASE CallGet
      BY <2>1, CallKeeps DEF CallGet, At, historyVars
    <2>2. CASE CallSync
      BY <2>2, CallKeeps DEF CallSync, At, historyVars
    <2> QED BY <1>2, <2>1, <2>2, CallInvalKeeps, DisconnectKeeps DEF Calls
  <1>3. CASE \E kind \in {"demand", "spec"} : Ask(kind)
    BY <1>3, AskKeeps
  <1>4. CASE Translate \/ Unmap \/ Map
    BY <1>4, TranslateKeeps, UnmapKeeps, MapKeeps
  <1>5. ASSUME NEW t \in Thread, Works(t) \/ Takes(t) PROVE SessionInv'
    <2>1. CASE Works(t)
      BY <2>1, WaitKeeps, MonitorAllocKeeps, MonitorOpenKeeps, MonitorStartKeeps, PollStateKeeps,
         PageSizeKeeps, PinKeeps, SrvTakeKeeps, SrvAnswerKeeps, SrvCancelledKeeps
      DEF Works
    <2>2. CASE Takes(t)
      BY <2>2, PollLockKeeps, LookupKeeps DEF Takes
    <2> QED BY <1>5, <2>1, <2>2
  <1>6. ASSUME NEW m \in Monitors, Monitoring(m) \/ MonLock(m) PROVE SessionInv'
    BY <1>6, MonReadKeeps, MonEventKeeps, MonUnlockKeeps, MonLockKeeps DEF Monitoring
  <1>7. CASE UNCHANGED vars
    BY <1>7, StutterHolds
  <1> QED BY <1>1, <1>2, <1>3, <1>4, <1>5, <1>6, <1>7 DEF Next

\* For any number of sessions, requests and faults: at each step of connecting
\* and disconnecting, SessionInv says what is allocated, programmed, running,
\* locked and pinned.
THEOREM SessionSafe == Spec => []SessionInv
  BY InitHolds, StepHolds, PTL DEF Spec

\* Each session finds VTP and the memory that it needs in its own state: the
\* target of a translation is pinned, no translation of an earlier session is
\* in the TLB, and nothing is pinned once a session has ended.
THEOREM Apart == Spec => []SessionsApart
  <1>1. SessionInv => SessionsApart
    <2> SUFFICES ASSUME SessionInv PROVE SessionsApart
      OBVIOUS
    <2>1. TypeOK /\ Allocated /\ Programmed /\ Threads /\ Watching /\ PinnedPage
      BY DEF SessionInv
    <2>2. TargetPinned
      <3> SUFFICES ASSUME fpga.pipe # "none", hw.on, ~hw.csrLost, ~late PROVE TargetLive
        BY DEF TargetPinned
      <3>1. main = "open" /\ Shim # "none" /\ hw.root = Session
        BY <2>1 DEF Programmed
      <3>2. Shim \in {"walker", "server"}
        BY <2>1, <3>1 DEF Allocated
      <3>3. Shim = "walker" => "rootpin" \in live
        BY <2>1, <3>1 DEF Allocated, Threaded
      <3>4. Shim = "server" => "ring" \in live /\ hw.ring = Session
        BY <2>1, <3>1 DEF Allocated, Programmed, Threaded
      <3> QED BY <3>1, <3>2, <3>3, <3>4 DEF TargetLive
    <2>3. NoOldTranslation
      BY <2>1 DEF NoOldTranslation, Programmed
    <2>4. NothingPinned
      <3> SUFFICES ASSUME main \in {"closed", "failed"}
                   PROVE  /\ ~page.pinned /\ "ring" \notin live
                          /\ "rootpin" \in live => main = "failed" /\ "buffers" \notin live
                          /\ At(Srv, "none")
                          /\ \A m \in Monitors : mons[m].pc # "none" => mons[m].used
        BY DEF NothingPinned
      <3>1. ~page.pinned /\ thr[Srv].pc = "none"
        BY <2>1 DEF PinnedPage, Threads, Threaded, Closing
      <3>2. "ring" \notin live
        BY <2>1 DEF Allocated, Threaded
      <3>3. "rootpin" \in live => main = "failed" /\ "buffers" \notin live
        BY <2>1 DEF Allocated
      <3>4. \A m \in Monitors : mons[m].pc # "none" => mons[m].used
        BY <2>1 DEF Watching
      <3> QED BY <3>1, <3>2, <3>3, <3>4 DEF At
    <2> QED BY <2>1, <2>2, <2>3, <2>4 DEF SessionsApart
  <1> QED BY <1>1, SessionSafe, PTL

\* The monitor's thread takes the page table's mutex, and a thread polls a
\* monitor, only while what it uses is allocated: mpfDisconnect joins the
\* threads before it frees that.
THEOREM MemorySafe == Spec => []NoUseAfterFree
  <1>1. SessionInv => NoUseAfterFree
    <2> SUFFICES ASSUME SessionInv PROVE NoUseAfterFree
      OBVIOUS
    <2>1. Allocated /\ Threads /\ Watching
      BY DEF SessionInv
    <2>2. ASSUME NEW m \in Monitors, mons[m].pc \in {"lock", "drain"},
                 "mutex" \notin live \/ mons[m].session # Session
          PROVE  Orphan(m)
      <3>1. mons[m].used
        BY <2>1, <2>2 DEF Watching
      <3>2. CASE monitor = m
        <4>1. monitor # None
          BY <3>2, Distinct
        <4>2. main \in Threaded \union {"monterm", "monjoin"} /\ mons[m].session = Session
          BY <2>1, <3>2, <4>1 DEF Watching
        <4>3. "mutex" \in live
          BY <2>1, <4>2 DEF Allocated, Threaded
        <4> QED BY <2>2, <4>2, <4>3
      <3> QED BY <3>1, <3>2 DEF Orphan
    <2>3. \A t \in Thread : thr[t].pc \in {"poll", "state"} => mons[thr[t].mon].used
      BY <2>1 DEF Threads
    <2> QED BY <2>2, <2>3 DEF NoUseAfterFree
  <1> QED BY <1>1, SessionSafe, PTL

\* The page table's mutex is always held by a thread that will release it, but
\* for a CSR write that fails under it and a server that is cancelled under it.
THEOREM MutexSafe == Spec => []MutexReturns
  <1>1. SessionInv => MutexReturns
    BY DEF SessionInv, Locked
  <1> QED BY <1>1, SessionSafe, PTL

\* A page is pinned only where its unmapping will be reported, and the report
\* is in a queue of this session until the page is released.
THEOREM PinsAreWatched == Spec => []Watched
  <1>1. SessionInv => Watched
    <2> SUFFICES ASSUME SessionInv PROVE Watched
      OBVIOUS
    <2>1. PinnedPage
      BY DEF SessionInv
    <2>2. PinsWatched
      BY <2>1 DEF PinnedPage
    <2>3. UnmapsReported
      BY <2>1 DEF PinnedPage, UnmapsReported
    <2> QED BY <2>2, <2>3 DEF Watched
  <1> QED BY <1>1, SessionSafe, PTL
=============================================================================
