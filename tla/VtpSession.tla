----------------------------- MODULE VtpSession -----------------------------
(***************************************************************************)
(* The life of a connection: mpfConnect finds the shims in the AFU's       *)
(* feature list and starts VTP; a thread of the program and the            *)
(* translation server pin pages on demand, and the first of them to need   *)
(* it starts the munmap monitor; mpfDisconnect turns VTP off, cancels and  *)
(* joins the threads and frees what they used.  Then the program may       *)
(* connect again.                                                          *)
(*                                                                         *)
(* Pinning is reduced to one page that is pinned or not, and the monitor   *)
(* driver to a count of events for each file that is open: VtpOnDemand and *)
(* MmuMonitor have the details.  Threads are cancelled as pthreads does    *)
(* it: the request is remembered until the thread waits or does I/O.       *)
(***************************************************************************)
EXTENDS Naturals, Sequences, FiniteSets

CONSTANTS
    Chains,       \* feature lists an AFU may have
    Wanted,       \* feature IDs asked for; 0 asks for none
    Mapped,       \* may the CSRs be mapped, or not, so that writing them may fail
    Srv, User,    \* the translation server and a thread that calls libmpf
    Monitors,     \* monitor descriptors
    Free, None,   \* nobody holds the mutex; NULL
    Lost,         \* the mutex of a call that returned without unlocking it
    MaxSessions,  \* bound: connections, one of an earlier program included
    MaxRequests,  \* bound: translations that the FPGA asks for in a session
    MaxCalls,     \* bound: calls of the user's thread in a session
    MaxUnmaps,    \* bound: times the page is unmapped
    MaxFaults     \* bound: calls of the system or of OPAE that fail

Thread == {Srv, User}
Feature == [bbb : BOOLEAN, id : Nat, shim : {"server", "walker", "other"}, last : BOOLEAN]

ASSUME SessionAssumption ==
    /\ Chains \subseteq Seq(Feature)
    /\ \A c \in Chains : \E i \in 1 .. Len(c) : c[i].last
    /\ Wanted \subseteq Nat /\ Mapped \subseteq BOOLEAN
    /\ Srv # User /\ Thread \intersect Monitors = {}
    /\ {Free, None, Lost} \intersect (Thread \union Monitors) = {} /\ Free # Lost
    /\ MaxSessions \in Nat \ {0}
    /\ {MaxRequests, MaxCalls, MaxUnmaps, MaxFaults} \subseteq Nat

VARIABLES
    main,    \* where mpfConnect or mpfDisconnect is
    setup,   \* the AFU, whether its CSRs are mapped, and the monitor device
    hw,      \* VTP's CSRs and TLB
    fpga,    \* a request in VTP's pipeline and one in the server's ring
    live,    \* what libmpf has allocated and not freed
    monitor, \* vtp.munmap_monitor
    mons,    \* monitors, with the driver's file and the thread of each
    thr,     \* the other threads
    mutex,   \* owner of the page table's mutex
    page,    \* the page: mapped by the program, pinned in the page table
    sizeFd,  \* the device file that mpfOsGetPageSize keeps open
    count,   \* sessions, requests, calls, unmaps and faults so far (bounds)
    early,   \* history: a thread went on while another was starting the monitor
    late     \* history: a prefetch was on its way when a session was closed

historyVars == <<early, late>>

vars == <<main, setup, hw, fpga, live, monitor, mons, thr, mutex, page, sizeFd, count, historyVars>>

NoMonitor == [used |-> FALSE, fd |-> FALSE, pc |-> "none", queue |-> 0, taken |-> 0,
              cancel |-> FALSE, session |-> 0]
NoThread  == [pc |-> "none", kind |-> "none", mon |-> None, cancel |-> FALSE]
Idle      == [NoThread EXCEPT !.pc = "idle"]

\* What is pinned or allocated for a connection.
Resource == {"handle", "table", "mutex", "node", "rootpin", "buffers", "server", "ring"}

\* Every variable stays in its range: no driver queue is read when it is empty.
TypeOK ==
    /\ main \in {"start", "pt", "buffers", "reset", "disable", "root", "enable", "srv", "ringaddr",
                 "spawn", "undo", "failed", "open", "off", "srvterm", "srvjoin", "monterm",
                 "monjoin", "ptterm", "buffersterm", "closed"}
    /\ setup \in [chain : Chains, id : Wanted, mmio : Mapped, device : BOOLEAN]
    /\ hw \in [on : BOOLEAN, root : 0 .. MaxSessions, ring : 0 .. MaxSessions,
               tlb : 0 .. MaxSessions, csrLost : BOOLEAN]
    /\ fpga \in [pipe : {"none", "demand", "spec"}, slot : {"none", "demand", "spec"}]
    /\ live \subseteq Resource
    /\ monitor \in Monitors \union {None}
    /\ mons \in [Monitors -> [used : BOOLEAN, fd : BOOLEAN,
                              pc : {"none", "read", "lock", "drain", "ended"},
                              queue : 0 .. MaxUnmaps, taken : 0 .. MaxUnmaps,
                              cancel : BOOLEAN, session : 0 .. MaxSessions]]
    /\ thr \in [Thread -> [pc : {"none", "idle", "wait", "open", "start", "poll", "state",
                                 "lookup", "size", "pin", "answer", "inval", "ended"},
                           kind : {"none", "demand", "spec", "get", "sync"},
                           mon : Monitors \union {None}, cancel : BOOLEAN]]
    /\ mutex \in Thread \union Monitors \union {Free, Lost}
    /\ page \in [mapped : BOOLEAN, pinned : BOOLEAN, stale : BOOLEAN, watched : BOOLEAN]
    /\ sizeFd \in {"unset", "open", "none"}
    /\ count \in [sessions : 0 .. MaxSessions, requests : 0 .. MaxRequests, calls : 0 .. MaxCalls,
                  unmaps : 0 .. MaxUnmaps, faults : 0 .. MaxFaults]
    /\ early \in BOOLEAN /\ late \in BOOLEAN

\* Session 1 was another program's, and the FPGA remembers it.
Init ==
    /\ main = "start"
    /\ setup \in [chain : Chains, id : Wanted, mmio : Mapped, device : BOOLEAN]
    /\ hw = [on |-> FALSE, root |-> 1, ring |-> 1, tlb |-> 1, csrLost |-> FALSE]
    /\ fpga = [pipe |-> "none", slot |-> "none"]
    /\ live = {} /\ monitor = None /\ mons = [m \in Monitors |-> NoMonitor]
    /\ thr = [t \in Thread |-> IF t = User THEN Idle ELSE NoThread]
    /\ mutex = Free
    /\ page = [mapped |-> TRUE, pinned |-> FALSE, stale |-> FALSE, watched |-> FALSE]
    /\ sizeFd = "unset"
    /\ count = [sessions |-> 1, requests |-> 0, calls |-> 0, unmaps |-> 0, faults |-> 0]
    /\ early = FALSE /\ late = FALSE

-----------------------------------------------------------------------------
(* The feature list and the CSRs.                                          *)

\* The walk ends at the feature that is marked as the last one.
Walked == {i \in 1 .. Len(setup.chain) : \A j \in 1 .. i - 1 : ~setup.chain[j].last}

\* _mpf_find_features: a later VTP shim takes the place of an earlier one.
Found == {i \in Walked : LET f == setup.chain[i]
                         IN  /\ f.bbb /\ f.shim # "other"
                             /\ setup.id # 0 => f.id = setup.id}

Shim == IF Found = {} THEN "none"
        ELSE setup.chain[CHOOSE i \in Found : \A j \in Found : j <= i].shim

Session == count.sessions
Fault == count.faults < MaxFaults /\ count' = [count EXCEPT !.faults = @ + 1]
NoFault == UNCHANGED count

\* mpfWriteCsr: a write of the mapped CSRs cannot fail.
WriteCsr(new) == hw' = new /\ NoFault
CsrFails(new) ==
    /\ ~setup.mmio /\ Fault
    /\ hw' = [hw EXCEPT !.csrLost = @ \/ new # hw]

\* The steps of connecting and disconnecting, and what comes after each.
Goto(pc) == main' = pc

-----------------------------------------------------------------------------
(* mpfConnect, mpfVtpInit.                                                 *)

Connect ==
    /\ main \in {"start", "closed"} /\ Session < MaxSessions
    /\ live' = live \union {"handle"}
    /\ count' = [count EXCEPT !.sessions = @ + 1, !.requests = 0, !.calls = 0]
    /\ Goto("pt")
    /\ UNCHANGED <<setup, hw, fpga, monitor, mons, thr, mutex, page, sizeFd, historyVars>>

\* ptAllocTableNode pins the node when the FPGA walks the table.  Failing to,
\* it unmaps the first page of the node only.
AllocTableNode(before) ==
    \/ /\ live' = live \union before
                  \union (IF Shim = "walker" THEN {"node", "rootpin"} ELSE {"node"})
       /\ NoFault /\ Goto("buffers")
    \/ /\ live' = live \union before
       /\ Fault /\ Goto("failed")
    \/ /\ Shim = "walker"
       /\ live' = live \union before \union {"node"}
       /\ Fault /\ Goto("failed")

\* mpfOsPrepareMutex fails.
NoMutex == live' = live \union {"table"} /\ Fault /\ Goto("failed")

\* mpfVtpPtInit.
PtInit ==
    /\ main = "pt"
    /\ AllocTableNode({"table", "mutex"}) \/ NoMutex
    /\ UNCHANGED <<setup, hw, fpga, monitor, mons, thr, mutex, page, sizeFd, historyVars>>

BuffersInit ==
    /\ main = "buffers"
    /\ \/ /\ live' = live \union {"buffers"} /\ NoFault
          /\ Goto(IF Shim = "none" THEN "open" ELSE "reset")
       \/ /\ Fault /\ Goto("failed") /\ UNCHANGED live
    /\ UNCHANGED <<setup, hw, fpga, monitor, mons, thr, mutex, page, sizeFd, historyVars>>

\* Mutant: the TLB is not invalidated.
InvalHWTLB_Keeps ==
    /\ main = "reset"
    /\ LET new == [hw EXCEPT !.on = FALSE]
       IN  \/ WriteCsr(new) /\ Goto("disable")
           \/ CsrFails(new) /\ Goto("srv")
    /\ UNCHANGED <<setup, fpga, live, monitor, mons, thr, mutex, page, sizeFd, historyVars>>

\* mpfVtpInvalHWTLB: mode 2 blocks traffic and empties the TLB.  mpfVtpInit
\* ignores the result.
InvalHWTLB ==
    /\ main = "reset"
    /\ LET new == [hw EXCEPT !.on = FALSE, !.tlb = 0]
       IN  \/ WriteCsr(new) /\ Goto("disable")
           \/ CsrFails(new) /\ Goto("srv")
    /\ UNCHANGED <<setup, fpga, live, monitor, mons, thr, mutex, page, sizeFd, historyVars>>

\* vtpEnable: only the result of its last write is returned, and ignored.
Enable(pc, new, next) ==
    /\ main = pc
    /\ WriteCsr(new) \/ CsrFails(new)
    /\ Goto(next)
    /\ UNCHANGED <<setup, fpga, live, monitor, mons, thr, mutex, page, sizeFd, historyVars>>

VtpEnable ==
    \/ Enable("disable", [hw EXCEPT !.on = FALSE], "root")
    \/ Enable("root", [hw EXCEPT !.root = Session], "enable")
    \/ Enable("enable", [hw EXCEPT !.on = TRUE], "srv")

\* mpfVtpSrvInit: the ring of the server is pinned.
SrvInit ==
    /\ main = "srv"
    /\ \/ /\ Shim = "walker" /\ Goto("open") /\ UNCHANGED live /\ NoFault
       \/ /\ Shim = "server" /\ Goto("ringaddr")
          /\ live' = live \union {"server", "ring"} /\ NoFault
       \/ /\ Shim = "server" /\ Goto("undo")
          /\ live' = live \union {"server"} /\ Fault
    /\ UNCHANGED <<setup, hw, fpga, monitor, mons, thr, mutex, page, sizeFd, historyVars>>

\* Mutant: the FPGA keeps the address that it has.
RingAddr_Keeps ==
    /\ main = "ringaddr"
    /\ IF hw.ring = 0 THEN WriteCsr([hw EXCEPT !.ring = Session]) ELSE UNCHANGED <<hw, count>>
    /\ Goto("spawn")
    /\ UNCHANGED <<setup, fpga, live, monitor, mons, thr, mutex, page, sizeFd, historyVars>>

RingAddr ==
    /\ main = "ringaddr"
    /\ LET new == [hw EXCEPT !.ring = Session]
       IN  \/ WriteCsr(new) /\ Goto("spawn") /\ UNCHANGED live
           \/ CsrFails(new) /\ Goto("undo") /\ live' = live \ {"ring"}
    /\ UNCHANGED <<setup, fpga, monitor, mons, thr, mutex, page, sizeFd, historyVars>>

SrvSpawn ==
    /\ main = "spawn"
    /\ \/ /\ thr' = [thr EXCEPT ![Srv] = Idle]
          /\ NoFault /\ Goto("open") /\ UNCHANGED live
       \/ /\ Fault /\ Goto("undo") /\ live' = live \ {"ring"} /\ UNCHANGED thr
    /\ UNCHANGED <<setup, hw, fpga, monitor, mons, mutex, page, sizeFd, historyVars>>

\* The fail path of mpfVtpInit.  VTP stays as it was enabled.
Undo ==
    /\ main = "undo"
    /\ live' = live \ {"table", "mutex", "node", "rootpin", "buffers"}
    /\ Goto("failed")
    /\ UNCHANGED <<setup, hw, fpga, monitor, mons, thr, mutex, page, sizeFd, count, historyVars>>

-----------------------------------------------------------------------------
(* The FPGA.                                                               *)

TargetLive == CASE Shim = "walker" -> "rootpin" \in live /\ hw.root = Session
                [] Shim = "server" -> "ring" \in live /\ hw.ring = Session
                [] OTHER -> FALSE

Serving(kind) == fpga.pipe = kind \/ fpga.slot = kind \/ thr[Srv].kind = kind

\* The TLB misses: an access of the AFU, or the next page prefetched.  The mode
\* holds up accesses only before they enter the pipeline.
Ask(kind) ==
    /\ hw.on /\ hw.tlb = 0 /\ fpga.pipe = "none"
    /\ main = "open" /\ count.requests < MaxRequests
    /\ kind = "demand" => page.mapped
    /\ count' = [count EXCEPT !.requests = @ + 1]
    /\ fpga' = [fpga EXCEPT !.pipe = kind]
    /\ UNCHANGED <<main, setup, hw, live, monitor, mons, thr, mutex, page, sizeFd, historyVars>>

\* The walker reads the page table in memory, the service writes to the ring.
\* Without a target the access goes astray.
Translate ==
    /\ fpga.pipe # "none" /\ fpga.slot = "none"
    /\ fpga' = [pipe |-> "none",
                slot |-> IF Shim = "server" /\ TargetLive THEN fpga.pipe ELSE "none"]
    /\ hw' = IF Shim = "walker" /\ TargetLive /\ page.pinned THEN [hw EXCEPT !.tlb = Session]
                                                              ELSE hw
    /\ UNCHANGED <<main, setup, live, monitor, mons, thr, mutex, page, sizeFd, count, historyVars>>

-----------------------------------------------------------------------------
(* The program's memory.                                                   *)

\* The driver tells every open file; the program keeps memory that the AFU uses.
Unmap ==
    /\ page.mapped /\ ~Serving("demand") /\ count.unmaps < MaxUnmaps
    /\ count' = [count EXCEPT !.unmaps = @ + 1]
    /\ page' = [page EXCEPT !.mapped = FALSE, !.stale = page.pinned]
    /\ mons' = [m \in Monitors |-> IF mons[m].fd THEN [mons[m] EXCEPT !.queue = @ + 1] ELSE mons[m]]
    /\ UNCHANGED <<main, setup, hw, fpga, live, monitor, thr, mutex, sizeFd, historyVars>>

Map ==
    /\ ~page.mapped
    /\ page' = [page EXCEPT !.mapped = TRUE]
    /\ UNCHANGED <<main, setup, hw, fpga, live, monitor, mons, thr, mutex, sizeFd, count, historyVars>>

-----------------------------------------------------------------------------
(* mpfVtpPinAndGetIOAddress and mpfVtpSync, in the server or the user.     *)

At(t, pc) == thr[t].pc = pc
Step(t, pc) == thr' = [thr EXCEPT ![t].pc = pc]
Return(t) == thr' = [thr EXCEPT ![t] = [Idle EXCEPT !.cancel = thr[t].cancel]]
PastWait(t) == IF thr[t].kind = "sync" THEN Return(t) ELSE Step(t, "lookup")

\* mpfOsLockMutex, mpfOsUnlockMutex: every other taker waits.
Locks(t) == mutex = Free /\ mutex' = t
Unlocks  == mutex' = Free

\* Poll the monitor, if its descriptor has a file by now.
PollOf(t, m) == IF mons[m].fd
                THEN thr' = [thr EXCEPT ![t].pc = "poll", ![t].mon = m]
                ELSE PastWait(t)

\* Mutant: nobody starts the monitor.
Wait_Never(t) ==
    /\ At(t, "wait")
    /\ IF monitor = None THEN PastWait(t) ELSE PollOf(t, monitor)
    /\ UNCHANGED <<main, setup, hw, fpga, live, monitor, mons, mutex, page, sizeFd, count, historyVars>>

\* mpfVtpMonitorWaitWhenBusy.  The first to come makes the descriptor, with
\* nothing but its address to keep others from doing the same.
Wait(t) ==
    /\ At(t, "wait")
    /\ \/ /\ monitor = None
          /\ Step(t, "open")
          /\ UNCHANGED early
       \/ /\ monitor # None
          /\ PollOf(t, monitor)
          /\ early' = (early \/ (~mons[monitor].fd /\ setup.device))
    /\ UNCHANGED <<main, setup, hw, fpga, live, monitor, mons, mutex, page, sizeFd, count, late>>

\* mpfVtpMonitorInit: the descriptor is allocated and published.
MonitorAlloc(t) ==
    /\ At(t, "open") /\ thr[t].mon = None
    /\ \/ \E m \in Monitors :
            /\ ~mons[m].used
            /\ mons' = [mons EXCEPT ![m].used = TRUE, ![m].session = Session]
            /\ monitor' = m
            /\ thr' = [thr EXCEPT ![t].mon = m]
            /\ NoFault
       \/ /\ Fault /\ PastWait(t) /\ UNCHANGED <<mons, monitor>>
    /\ UNCHANGED <<main, setup, hw, fpga, live, mutex, page, sizeFd, historyVars>>

\* The device is opened and given an eventfd.  Without it the call goes on and
\* the pages that it pins are not watched.
MonitorOpen(t) ==
    /\ At(t, "open") /\ thr[t].mon # None
    /\ \/ /\ setup.device
          /\ mons' = [mons EXCEPT ![thr[t].mon].fd = TRUE]
          /\ Step(t, "start") /\ NoFault
       \/ /\ IF setup.device THEN Fault ELSE NoFault
          /\ PastWait(t) /\ UNCHANGED mons
    /\ UNCHANGED <<main, setup, hw, fpga, live, monitor, mutex, page, sizeFd, historyVars>>

\* pthread_create; then the descriptor is read again, which need not be the same.
MonitorStart(t) ==
    /\ At(t, "start")
    /\ \/ /\ mons' = [mons EXCEPT ![thr[t].mon].pc = "read"]
          /\ PollOf(t, monitor) /\ NoFault /\ UNCHANGED page
       \/ /\ mons' = [mons EXCEPT ![thr[t].mon].fd = FALSE, ![thr[t].mon].queue = 0]
          /\ page' = [page EXCEPT !.watched = FALSE]
          /\ PastWait(t) /\ Fault
    /\ UNCHANGED <<main, setup, hw, fpga, live, monitor, mutex, sizeFd, historyVars>>

PollLock(t) ==
    /\ At(t, "poll") /\ Locks(t)
    /\ Step(t, "state")
    /\ UNCHANGED <<main, setup, hw, fpga, live, monitor, mons, page, sizeFd, count, historyVars>>

\* GET_STATE.  Of a file that was closed nothing is learnt.
PollState(t) ==
    /\ At(t, "state") /\ Unlocks
    /\ LET m == thr[t].mon
       IN  \/ (mons[m].queue > 0 \/ ~mons[m].fd) /\ Step(t, "poll")
           \/ mons[m].queue = 0 /\ PastWait(t)
    /\ UNCHANGED <<main, setup, hw, fpga, live, monitor, mons, page, sizeFd, count, historyVars>>

\* What a call comes back to: the server answers, or it clears the slot.
Finish(t, ok) == IF t = Srv /\ ok THEN Step(t, "answer") ELSE Return(t)
SlotDone(t, ok) == fpga' = IF t = Srv /\ ~ok THEN [fpga EXCEPT !.slot = "none"] ELSE fpga

Lookup(t) ==
    /\ At(t, "lookup")
    /\ IF page.pinned THEN mutex = Free /\ Finish(t, TRUE) /\ UNCHANGED mutex
                      ELSE Locks(t) /\ Step(t, "size")
    /\ UNCHANGED <<main, setup, hw, fpga, live, monitor, mons, page, sizeFd, count, historyVars>>

\* getPageSizeFromMonDev: the device is opened once, and never closed.
OpenOnce == CASE sizeFd # "unset" -> sizeFd [] setup.device -> "open" [] OTHER -> "none"

\* mpfOsGetPageSize under the mutex: by the device or from /proc/self/smaps.
PageSize(t) ==
    /\ At(t, "size")
    /\ sizeFd' = OpenOnce
    /\ Step(t, "pin")
    /\ UNCHANGED <<main, setup, hw, fpga, live, monitor, mons, mutex, page, count, historyVars>>

\* A file of this session: its thread may use the page table.
Watches(m) == mons[m].fd /\ mons[m].session = Session

\* Mutant: an error return forgets the mutex.
Pin_Keeps(t) ==
    /\ At(t, "pin")
    /\ IF page.mapped THEN Unlocks ELSE UNCHANGED mutex
    /\ page' = IF page.mapped
               THEN [mapped |-> TRUE, pinned |-> TRUE, stale |-> FALSE,
                     watched |-> \E m \in Monitors : Watches(m)]
               ELSE page
    /\ Finish(t, page.mapped) /\ SlotDone(t, page.mapped)
    /\ UNCHANGED <<main, setup, hw, live, monitor, mons, sizeFd, count, historyVars>>

\* The page is pinned and inserted.  The server gives up a page that is not
\* mapped, which only a prefetch can ask for.
Pin(t) ==
    /\ At(t, "pin") /\ Unlocks
    /\ page' = IF page.mapped
               THEN [mapped |-> TRUE, pinned |-> TRUE, stale |-> FALSE,
                     watched |-> \E m \in Monitors : Watches(m)]
               ELSE page
    /\ Finish(t, page.mapped) /\ SlotDone(t, page.mapped)
    /\ UNCHANGED <<main, setup, hw, live, monitor, mons, sizeFd, count, historyVars>>

CallGet ==
    /\ main = "open" /\ At(User, "idle") /\ count.calls < MaxCalls
    /\ count' = [count EXCEPT !.calls = @ + 1]
    /\ thr' = [thr EXCEPT ![User].pc = "wait", ![User].kind = "get"]
    /\ UNCHANGED <<main, setup, hw, fpga, live, monitor, mons, mutex, page, sizeFd, historyVars>>

CallSync ==
    /\ main = "open" /\ At(User, "idle") /\ count.calls < MaxCalls /\ monitor # None
    /\ count' = [count EXCEPT !.calls = @ + 1]
    /\ thr' = [thr EXCEPT ![User].pc = "wait", ![User].kind = "sync"]
    /\ UNCHANGED <<main, setup, hw, fpga, live, monitor, mons, mutex, page, sizeFd, historyVars>>

\* mpfVtpInvalHWVAMapping: when the CSR write fails, vtpInvalHWVAMapping
\* returns with the mutex held.
CallInval ==
    /\ main = "open" /\ At(User, "idle") /\ Shim # "none" /\ mutex = Free
    /\ LET new == [hw EXCEPT !.tlb = 0]
       IN  \/ WriteCsr(new) /\ Unlocks
           \/ CsrFails(new) /\ mutex' = Lost
    /\ UNCHANGED <<main, setup, fpga, live, monitor, mons, thr, page, sizeFd, historyVars>>

-----------------------------------------------------------------------------
(* The translation server and the monitor's thread.                        *)

SrvTake ==
    /\ At(Srv, "idle") /\ fpga.slot # "none"
    /\ thr' = [thr EXCEPT ![Srv].pc = "wait", ![Srv].kind = fpga.slot]
    /\ UNCHANGED <<main, setup, hw, fpga, live, monitor, mons, mutex, page, sizeFd, count, historyVars>>

SrvAnswer ==
    /\ At(Srv, "answer")
    /\ hw' = [hw EXCEPT !.tlb = Session]
    /\ fpga' = [fpga EXCEPT !.slot = "none"]
    /\ Return(Srv)
    /\ UNCHANGED <<main, setup, live, monitor, mons, mutex, page, sizeFd, count, historyVars>>

\* A cancelled server ends where it sleeps, waiting for a request, or where it
\* opens or reads a file, with the mutex if it holds it.
SrvCancelled ==
    /\ thr[Srv].cancel
    /\ \/ At(Srv, "idle") /\ fpga.slot = "none"
       \/ At(Srv, "open") /\ thr[Srv].mon # None
       \/ At(Srv, "size") /\ sizeFd # "open"
    /\ Step(Srv, "ended")
    /\ UNCHANGED <<main, setup, hw, fpga, live, monitor, mons, mutex, page, sizeFd, count, historyVars>>

\* Mutant: the thread never enables cancellation again.
MonRead_Deaf(m) ==
    /\ mons[m].pc = "read" /\ mons[m].queue > 0
    /\ mons' = [mons EXCEPT ![m].pc = "lock", ![m].taken = mons[m].queue]
    /\ UNCHANGED <<main, setup, hw, fpga, live, monitor, thr, mutex, page, sizeFd, count, historyVars>>

MonRead(m) ==
    /\ mons[m].pc = "read"
    /\ \/ /\ mons[m].queue > 0
          /\ mons' = [mons EXCEPT ![m].pc = "lock", ![m].taken = mons[m].queue]
       \/ /\ mons[m].cancel
          /\ mons' = [mons EXCEPT ![m].pc = "ended"]
    /\ UNCHANGED <<main, setup, hw, fpga, live, monitor, thr, mutex, page, sizeFd, count, historyVars>>

\* The mutex that a thread of an earlier session knows is freed memory.
MonLock(m) ==
    /\ mons[m].pc = "lock" /\ mons[m].session = Session /\ "mutex" \in live
    /\ Locks(m)
    /\ mons' = [mons EXCEPT ![m].pc = "drain"]
    /\ UNCHANGED <<main, setup, hw, fpga, live, monitor, thr, page, sizeFd, count, historyVars>>

\* Mutant: an event is taken twice.
MonEvent_Twice(m) ==
    /\ mons[m].pc = "drain" /\ mons[m].taken > 0
    /\ mons' = [mons EXCEPT ![m].queue = @ - 2, ![m].taken = @ - 1]
    /\ page' = [page EXCEPT !.pinned = FALSE, !.stale = FALSE]
    /\ hw' = [hw EXCEPT !.tlb = 0]
    /\ UNCHANGED <<main, setup, fpga, live, monitor, thr, mutex, sizeFd, count, historyVars>>

\* Mutant: an event is taken and its range is not released.
MonEvent_Ignored(m) ==
    /\ mons[m].pc = "drain" /\ mons[m].taken > 0
    /\ mons' = [mons EXCEPT ![m].queue = @ - 1, ![m].taken = @ - 1]
    /\ UNCHANGED <<main, setup, hw, fpga, live, monitor, thr, mutex, page, sizeFd, count, historyVars>>

MonEvent(m) ==
    /\ mons[m].pc = "drain" /\ mons[m].taken > 0
    /\ mons' = [mons EXCEPT ![m].queue = @ - 1, ![m].taken = @ - 1]
    /\ page' = [page EXCEPT !.pinned = FALSE, !.stale = FALSE]
    /\ hw' = IF page.pinned THEN [hw EXCEPT !.tlb = 0] ELSE hw
    /\ UNCHANGED <<main, setup, fpga, live, monitor, thr, mutex, sizeFd, count, historyVars>>

\* Cancellation is disabled while the thread holds the mutex.
MonUnlock(m) ==
    /\ mons[m].pc = "drain" /\ mons[m].taken = 0
    /\ Unlocks
    /\ mons' = [mons EXCEPT ![m].pc = "read"]
    /\ UNCHANGED <<main, setup, hw, fpga, live, monitor, thr, page, sizeFd, count, historyVars>>

-----------------------------------------------------------------------------
(* mpfDisconnect, mpfVtpTerm.                                              *)

\* The server may be waiting for the monitor, so it ends first.
After(step) == CASE step = "off" -> "srvterm" [] step = "srv" -> "monterm" [] step = "mon" -> "ptterm"

\* No call and no access of the AFU is going on; prefetches may be.
Disconnect ==
    /\ main = "open" /\ At(User, "idle") /\ ~Serving("demand")
    /\ Goto("off")
    /\ late' = (late \/ Serving("spec"))
    /\ UNCHANGED <<setup, hw, fpga, live, monitor, mons, thr, mutex, page, sizeFd, count, early>>

\* The result of the write is ignored.
TurnOff ==
    /\ main = "off" /\ Goto(After("off"))
    /\ IF Shim = "none" THEN UNCHANGED <<hw, count>>
       ELSE LET new == [hw EXCEPT !.on = FALSE] IN WriteCsr(new) \/ CsrFails(new)
    /\ UNCHANGED <<setup, fpga, live, monitor, mons, thr, mutex, page, sizeFd, historyVars>>

\* mpfVtpSrvTerm: pthread_cancel, pthread_join, and the ring is released.
SrvTerm ==
    /\ main = "srvterm"
    /\ IF "server" \in live
       THEN thr' = [thr EXCEPT ![Srv].cancel = TRUE] /\ Goto("srvjoin")
       ELSE UNCHANGED thr /\ Goto(After("srv"))
    /\ UNCHANGED <<setup, hw, fpga, live, monitor, mons, mutex, page, sizeFd, count, historyVars>>

\* Mutant: the ring stays pinned.
SrvJoin_Keeps ==
    /\ main = "srvjoin" /\ At(Srv, "ended")
    /\ thr' = [thr EXCEPT ![Srv] = NoThread]
    /\ live' = live \ {"server"} /\ fpga' = [fpga EXCEPT !.slot = "none"]
    /\ Goto(After("srv"))
    /\ UNCHANGED <<setup, hw, monitor, mons, mutex, page, sizeFd, count, historyVars>>

SrvJoin ==
    /\ main = "srvjoin" /\ At(Srv, "ended")
    /\ thr' = [thr EXCEPT ![Srv] = NoThread]
    /\ live' = live \ {"server", "ring"} /\ fpga' = [fpga EXCEPT !.slot = "none"]
    /\ Goto(After("srv"))
    /\ UNCHANGED <<setup, hw, monitor, mons, mutex, page, sizeFd, count, historyVars>>

\* Mutant: the monitor's thread is cancelled and not joined.
MonitorTerm_NoJoin ==
    /\ main = "monterm"
    /\ mons' = IF monitor = None THEN mons
               ELSE [mons EXCEPT ![monitor].used = FALSE, ![monitor].fd = FALSE,
                                 ![monitor].cancel = TRUE]
    /\ monitor' = None /\ Goto(After("mon"))
    /\ UNCHANGED <<setup, hw, fpga, live, thr, mutex, page, sizeFd, count, historyVars>>

\* mpfVtpMonitorTerm: a descriptor without a thread is only freed.
MonitorTerm ==
    /\ main = "monterm"
    /\ IF monitor # None /\ mons[monitor].pc # "none"
       THEN /\ mons' = [mons EXCEPT ![monitor].cancel = TRUE]
            /\ Goto("monjoin") /\ UNCHANGED monitor
       ELSE /\ mons' = IF monitor = None THEN mons ELSE [mons EXCEPT ![monitor] = NoMonitor]
            /\ monitor' = None /\ Goto(After("mon"))
    /\ UNCHANGED <<setup, hw, fpga, live, thr, mutex, page, sizeFd, count, historyVars>>

MonitorJoin ==
    /\ main = "monjoin" /\ mons[monitor].pc = "ended"
    /\ mons' = [mons EXCEPT ![monitor] = NoMonitor]
    /\ monitor' = None /\ Goto(After("mon"))
    /\ UNCHANGED <<setup, hw, fpga, live, thr, mutex, page, sizeFd, count, historyVars>>

\* mpfVtpPtTerm: every pinned page and every node is released.
PtTerm ==
    /\ main = "ptterm" /\ mutex = Free
    /\ page' = [page EXCEPT !.pinned = FALSE, !.stale = FALSE]
    /\ live' = live \ {"table", "mutex", "node", "rootpin"}
    /\ Goto("buffersterm")
    /\ UNCHANGED <<setup, hw, fpga, monitor, mons, thr, mutex, sizeFd, count, historyVars>>

\* mpfVtpBuffersTerm, and the handle is freed.  The program may connect again.
BuffersTerm ==
    /\ main = "buffersterm"
    /\ live' = live \ {"buffers", "handle"}
    /\ Goto("closed")
    /\ UNCHANGED <<setup, hw, fpga, monitor, mons, thr, mutex, page, sizeFd, count, historyVars>>

-----------------------------------------------------------------------------
Main ==
    \/ Connect \/ PtInit \/ BuffersInit \/ InvalHWTLB \/ VtpEnable \/ SrvInit \/ RingAddr
    \/ SrvSpawn \/ Undo
    \/ TurnOff \/ SrvTerm \/ SrvJoin \/ MonitorTerm \/ MonitorJoin \/ PtTerm \/ BuffersTerm

Calls == CallGet \/ CallSync \/ CallInval \/ Disconnect

Works(t) ==
    \/ Wait(t) \/ MonitorAlloc(t) \/ MonitorOpen(t) \/ MonitorStart(t) \/ PollState(t)
    \/ PageSize(t) \/ Pin(t)
    \/ t = Srv /\ (SrvTake \/ SrvAnswer \/ SrvCancelled)

Takes(t) == PollLock(t) \/ Lookup(t)

Monitoring(m) == MonRead(m) \/ MonEvent(m) \/ MonUnlock(m)

Next ==
    \/ Main \/ Calls
    \/ \E kind \in {"demand", "spec"} : Ask(kind)
    \/ Translate \/ Unmap \/ Map
    \/ \E t \in Thread : Works(t) \/ Takes(t)
    \/ \E m \in Monitors : Monitoring(m) \/ MonLock(m)

Spec == Init /\ [][Next]_vars

\* Every thread that can go on does so, and the mutex is passed on fairly.
FairSpec ==
    /\ Spec
    /\ WF_vars(Main)
    /\ \A t \in Thread : WF_vars(Works(t)) /\ SF_vars(Takes(t))
    /\ \A m \in Monitors : WF_vars(Monitoring(m)) /\ SF_vars(MonLock(m))

-----------------------------------------------------------------------------
(* Properties.                                                             *)

\* While the FPGA translates, what it reads or writes for that is pinned and
\* belongs to this session: enabling and terminating VTP are in an order that
\* allows it.  A CSR write that failed breaks that, and so does a prefetch that
\* an earlier session left in the pipeline: VTP is on before the new ring is set.
TargetPinned == fpga.pipe # "none" /\ hw.on /\ ~hw.csrLost /\ ~late => TargetLive

\* The FPGA never starts a session with a translation of an earlier one.
NoOldTranslation == main = "open" /\ hw.on /\ ~hw.csrLost => hw.tlb \in {0, Session}

\* A monitor descriptor that another took the place of.
Orphan(m) == mons[m].used /\ monitor # m

\* No thread uses the page table or a monitor after it was freed.  Only a
\* monitor that the race to start one left behind outlives its session.
NoUseAfterFree ==
    /\ \A m \in Monitors :
          mons[m].pc \in {"lock", "drain"} /\ ("mutex" \notin live \/ mons[m].session # Session)
              => Orphan(m)
    /\ \A t \in Thread : thr[t].pc \in {"poll", "state"} => mons[thr[t].mon].used

\* The page table's mutex is held by a thread that is on its way to release it,
\* unless a CSR write failed or the server was cancelled while it held it.
MutexGone == mutex = Lost \/ (mutex = Srv /\ thr[Srv].pc \in {"ended", "none"})
MutexReturns ==
    \/ mutex = Free
    \/ mutex \in Thread /\ thr[mutex].pc \in {"state", "size", "pin"}
    \/ mutex \in Monitors /\ mons[mutex].pc = "drain"
    \/ MutexGone /\ IF mutex = Srv THEN sizeFd # "open" ELSE ~setup.mmio

\* During a session, a page that was unmapped since it was pinned has an event
\* on its way to a thread that will release it, if the driver watched it.
UnmapsReported ==
    main = "open" /\ page.pinned /\ page.stale /\ page.watched =>
        \E m \in Monitors : Watches(m) /\ mons[m].queue > 0

\* Pages are only pinned with the driver watching, unless there is no driver,
\* it could not be started, or the thread found another one starting it.
PinsWatched ==
    page.pinned => page.watched \/ ~setup.device \/ early \/ count.faults > 0

\* A page that is pinned is released when it is unmapped.
Watched == PinsWatched /\ UnmapsReported

\* After disconnecting nothing is pinned and no thread is left, and a connect
\* that failed leaves no more than a table whose buffers could not be tracked.
NothingPinned ==
    main \in {"closed", "failed"} =>
        /\ ~page.pinned /\ "ring" \notin live
        /\ "rootpin" \in live => main = "failed" /\ "buffers" \notin live
        /\ At(Srv, "none")
        /\ \A m \in Monitors : mons[m].pc # "none" => mons[m].used

\* No session works with what another one pinned, cached or left.
SessionsApart == TypeOK /\ TargetPinned /\ NoOldTranslation /\ NothingPinned

\* A thread polls a monitor whose file was closed because its thread could not
\* be started.
PollsClosed == \E t \in Thread : thr[t].pc \in {"poll", "state"}
                                /\ mons[thr[t].mon].used /\ ~mons[thr[t].mon].fd

\* mpfDisconnect ends: the server leaves its wait for the monitor, and each
\* thread reaches the point where it is cancelled, unless the mutex is gone.
DisconnectEnds == main = "off" ~> main = "closed" \/ MutexGone \/ PollsClosed
=============================================================================
