------------------------- MODULE VtpOnDemandProofs -------------------------
(***************************************************************************)
(* Theorems about pinning on demand, for any number of pages, frames and   *)
(* application threads.  First: once the monitor runs, and as long as no   *)
(* buffer is prepared by hand, no page stays pinned behind the process's   *)
(* back and every page the FPGA uses is answered with the frame it has.    *)
(* Then: the pins balance, answers reach their requests, and what the FPGA *)
(* has cached is current.                                                  *)
(***************************************************************************)
EXTENDS VtpOnDemand, FiniteSetTheorems, TLAPS

\* The situation the theorems are about.  Without either half NoStalePin is
\* false.
OnDemandOnly == MonitorUp /\ "buffer" \notin Calls

(* The part of the type invariant that the arguments need.                 *)
Shape ==
    /\ vm \in [Page -> Frame \union {None}]
    /\ events \in Seq(Page) /\ evtfd \in Nat
    /\ mon \in [pc : {"read", "lock", "drain"}, count : Nat]
    /\ pt \in [Page -> Entry]
    /\ thr \in [Thread -> Activity]
    /\ ring \in Seq(Req)

(* Nobody prepares or releases a buffer, and nobody starts the monitor.    *)
NoBuffers ==
    /\ monitor = "up" /\ buffers = [p \in Page |-> 0]
    /\ \A t \in Thread : /\ thr[t].pc \notin {"init", "forget", "shoot", "write", "unpin"}
                         /\ thr[t].call # "prepare"

(* A thread past the wait works on a page.                                 *)
Located ==
    \A t \in Thread :
        /\ thr[t].pc \in {"lookup", "pin", "repin", "inval", "insert", "answer"} =>
               thr[t].page \in Page
        /\ thr[t].pc \in {"poll", "state"} => thr[t].call \in {"sync", "try"} \/ thr[t].page \in Page

(* The request that the server works on stays in the ring.                 *)
Busy == thr[Srv].pc \notin {"idle", "aborted"} => ring # <<>>

Holding == {"state", "pin", "repin", "inval", "insert", "write"}

(* The mutex has the owner whose section is running.                       *)
Owner ==
    /\ \A t \in Thread : thr[t].pc \in Holding => mutex = t
    /\ mon.pc = "drain" => mutex = Mon

(* The monitor fetches exactly the events that were signalled.             *)
Counted ==
    /\ Len(events) = evtfd + mon.count
    /\ mon.pc = "read" => mon.count = 0

OneUnmap == unmapping = {} \/ \E p \in Page : unmapping = {p}

RefOne == \A p \in Page : pt[p] = NoEntry \/ (pt[p].frame \in Frame /\ pt[p].ref = 1)

(* A frame that was pinned and is not in the table yet obeys the rule that  *)
(* NoStalePin states for those in it.                                      *)
Fresh ==
    \A t \in Thread : thr[t].pc \in {"inval", "insert"} =>
        /\ thr[t].frame \in Frame
        /\ thr[t].frame # vm[thr[t].page] => Unreported(thr[t].page)

(* The inductive invariant of the page table.                              *)
TableInv == /\ Shape /\ NoBuffers /\ Located /\ Busy /\ Owner /\ Counted /\ OneUnmap
            /\ RefOne /\ Fresh /\ NoStalePin

(* The server works on the oldest request in the ring.                     *)
Serving ==
    thr[Srv].pc \notin {"idle", "aborted"} =>
        thr[Srv].call = "srv" /\ thr[Srv].page = Head(ring).page

Used(p) == Has(ring, [page |-> p, spec |-> FALSE])

(* A page in use stays mapped: the application keeps the rules.            *)
UsedMapped == \A p \in Page : Used(p) => vm[p] # None

(* Past the wait, no invalidation of a page in use is outstanding.         *)
Settled ==
    (thr[Srv].pc \in {"lookup", "pin", "repin", "inval", "insert"} /\ ~Head(ring).spec) =>
        ~Unreported(Head(ring).page)

NoFailure ==
    ~MayFail => /\ Running
                /\ (thr[Srv].pc = "answer" /\ ~Head(ring).spec) => thr[Srv].frame # None

(* The inductive invariant of the server.                                  *)
ServerInv == Serving /\ UsedMapped /\ Settled /\ UsedPageCurrent /\ NoFailure

-----------------------------------------------------------------------------
(* Sequences.                                                              *)

LEMMA HasAppend ==
  ASSUME NEW S, NEW s \in Seq(S), NEW x \in S, NEW y
  PROVE  Has(Append(s, x), y) <=> Has(s, y) \/ x = y
  <1>1. Len(Append(s, x)) = Len(s) + 1 /\ Append(s, x)[Len(s) + 1] = x
    OBVIOUS
  <1>2. \A i \in 1 .. Len(s) : Append(s, x)[i] = s[i]
    OBVIOUS
  <1>3. Len(s) \in Nat
    OBVIOUS
  <1> QED BY <1>1, <1>2, <1>3 DEF Has

LEMMA HasTail ==
  ASSUME NEW S, NEW s \in Seq(S), s # <<>>, NEW y
  PROVE  /\ Has(Tail(s), y) => Has(s, y)
         /\ Has(s, y) => y = Head(s) \/ Has(Tail(s), y)
         /\ Tail(s) \in Seq(S) /\ Head(s) \in S
         /\ Len(Tail(s)) = Len(s) - 1
  <1>1. Len(s) \in Nat \ {0} /\ Len(Tail(s)) = Len(s) - 1 /\ Head(s) = s[1]
    OBVIOUS
  <1>2. \A i \in 1 .. Len(s) - 1 : Tail(s)[i] = s[i + 1]
    OBVIOUS
  <1>3. Has(Tail(s), y) => Has(s, y)
    BY <1>1, <1>2 DEF Has
  <1>4. ASSUME Has(s, y), y # Head(s) PROVE Has(Tail(s), y)
    <2>1. PICK i \in 1 .. Len(s) : s[i] = y
      BY <1>4 DEF Has
    <2>2. i - 1 \in 1 .. Len(s) - 1 /\ Tail(s)[i - 1] = y
      BY <1>1, <1>2, <1>4, <2>1
    <2> QED BY <1>1, <2>2 DEF Has
  <1> QED BY <1>1, <1>3, <1>4

LEMMA HasHead ==
  ASSUME NEW S, NEW s \in Seq(S), s # <<>>
  PROVE  Has(s, Head(s))
  BY DEF Has

(* How a thread moves.                                                     *)

Elsewhere(t) == \A u \in Thread : u # t => thr'[u] = thr[u]

LEMMA GotoMoves ==
  ASSUME thr \in [Thread -> Activity], NEW t \in Thread, NEW pc, Goto(t, pc),
         [thr[t] EXCEPT !.pc = pc] \in Activity
  PROVE  /\ thr' \in [Thread -> Activity] /\ Elsewhere(t)
         /\ thr'[t].pc = pc /\ thr'[t].page = thr[t].page
         /\ thr'[t].call = thr[t].call /\ thr'[t].frame = thr[t].frame
  <1>1. thr'[t] = [thr[t] EXCEPT !.pc = pc]
    BY DEF Goto
  <1>2. thr[t] \in Activity
    OBVIOUS
  <1> QED BY <1>1, <1>2 DEF Goto, Elsewhere, Activity

LEMMA IdleMoves ==
  ASSUME thr \in [Thread -> Activity], NEW t \in Thread, Return(t)
  PROVE  /\ thr' \in [Thread -> Activity] /\ Elsewhere(t) /\ thr'[t] = Idle
         /\ Idle.pc = "idle" /\ Idle.call = "none"
  <1>1. Idle \in Activity
    BY DEF Idle, Doing, Activity
  <1> QED BY <1>1 DEF Return, Elsewhere, Idle, Doing

LEMMA FinishMoves ==
  ASSUME thr \in [Thread -> Activity], NEW t \in Thread, NEW f \in Frame \union {None},
         Finish(t, f)
  PROVE  /\ thr' \in [Thread -> Activity] /\ Elsewhere(t)
         /\ t # Srv => thr'[t].pc = "idle" /\ thr'[t].call = "none"
         /\ t = Srv => /\ thr'[t].pc = "answer" /\ thr'[t].page = thr[t].page
                       /\ thr'[t].call = thr[t].call /\ thr'[t].frame = f
  <1>1. CASE t # Srv
    BY <1>1, IdleMoves DEF Finish
  <1>2. CASE t = Srv
    <2>1. thr' = [thr EXCEPT ![t].pc = "answer", ![t].frame = f]
      BY <1>2 DEF Finish
    <2>2. thr[t] \in Activity
      OBVIOUS
    <2>3. thr'[t] = [thr[t] EXCEPT !.pc = "answer", !.frame = f]
      BY <2>1
    <2>4. /\ thr'[t].pc = "answer" /\ thr'[t].page = thr[t].page
          /\ thr'[t].call = thr[t].call /\ thr'[t].frame = f
      BY <2>2, <2>3 DEF Activity
    <2>5. thr'[t] \in Activity
      BY <2>2, <2>3 DEF Activity
    <2> QED BY <1>2, <2>1, <2>4, <2>5 DEF Elsewhere
  <1> QED BY <1>1, <1>2

-----------------------------------------------------------------------------
(* The page table.                                                         *)

\* The sections of mpfVtpReleaseBuffer.
Releases(t) ==
    ReleaseEntry(t) \/ ReleaseLock(t) \/ ReleaseInval(t) \/ ReleaseInvalFails(t) \/ ReleasePin(t)

LEMMA NoReleases ==
  ASSUME TableInv, NEW t \in Thread
  PROVE  ~Releases(t)
  BY DEF TableInv, NoBuffers, Releases, ReleaseEntry, ReleaseLock, ReleaseInval, ReleaseInvalFails,
         ReleasePin, At

(* A step of a thread that leaves the table and the kernel alone keeps the  *)
(* invariant if it keeps the mutex's rules.                                *)
LEMMA LocalMove ==
  ASSUME TableInv, NEW t \in Thread,
         thr' \in [Thread -> Activity], Elsewhere(t), ring' \in Seq(Req),
         UNCHANGED <<vm, unmapping, events, evtfd, monitor, mon, pt, buffers>>,
         thr'[t].pc \notin {"init", "forget", "shoot", "write", "unpin", "inval", "insert"},
         thr'[t].call # "prepare",
         thr'[t].pc \in {"lookup", "pin", "repin", "answer"} => thr'[t].page \in Page,
         thr'[t].pc \in {"poll", "state"} =>
             thr'[t].call \in {"sync", "try"} \/ thr'[t].page \in Page,
         thr'[t].pc \in Holding => mutex' = t,
         mutex' = mutex \/ (mutex \in {Free, t} /\ mutex' \in {Free, t}),
         IF t = Srv THEN Busy' ELSE ring' = ring
  PROVE  TableInv'
  <1>1. Shape'
    BY DEF TableInv, Shape
  <1>2. NoBuffers'
    BY DEF TableInv, NoBuffers, Elsewhere
  <1>3. Located' /\ Busy'
    BY DEF TableInv, Located, Busy, Elsewhere, Thread
  <1>4. Owner'
    BY OnDemandAssumption DEF TableInv, Owner, Elsewhere, Thread
  <1>5. Counted' /\ OneUnmap' /\ RefOne' /\ NoStalePin'
    BY DEF TableInv, Counted, OneUnmap, RefOne, NoStalePin, Unreported
  <1>6. Fresh'
    BY DEF TableInv, Fresh, Elsewhere, Unreported
  <1> QED BY <1>1, <1>2, <1>3, <1>4, <1>5, <1>6 DEF TableInv

LEMMA WaitSteps ==
  ASSUME TableInv, NEW t \in Thread, MonitorInit(t) \/ PollLock(t) \/ PollState(t)
  PROVE  TableInv'
  <1>0. thr \in [Thread -> Activity] /\ thr[t] \in Activity /\ ring \in Seq(Req)
    BY DEF TableInv, Shape
  <1>busy. IF t = Srv THEN Busy' ELSE ring' = ring
    <2>1. thr[t].pc \notin {"idle", "aborted"}
      BY DEF MonitorInit, PollLock, PollState, At
    <2>2. UNCHANGED ring
      BY DEF MonitorInit, PollLock, PollState, fpgaVars
    <2> QED BY <2>1, <2>2 DEF TableInv, Busy
  <1>1. ~MonitorInit(t)
    BY DEF TableInv, NoBuffers, MonitorInit, At
  <1>2. CASE PollLock(t)
    <2>1. [thr[t] EXCEPT !.pc = "state"] \in Activity
      BY <1>0 DEF Activity
    <2>2. thr' \in [Thread -> Activity] /\ Elsewhere(t) /\ thr'[t].pc = "state"
          /\ thr'[t].page = thr[t].page /\ thr'[t].call = thr[t].call
      BY <1>0, <1>2, <2>1, GotoMoves DEF PollLock
    <2>3. thr'[t].call # "prepare" /\ (thr'[t].call \in {"sync", "try"} \/ thr'[t].page \in Page)
      BY <1>2, <2>2 DEF PollLock, At, TableInv, NoBuffers, Located
    <2> QED BY <1>0, <1>busy, <1>2, <2>2, <2>3, LocalMove DEF PollLock, kernelVars, tableVars, fpgaVars
  <1>3. CASE PollState(t)
    <2>1. mutex = t /\ mutex' = Free
      BY <1>3 DEF PollState, At, TableInv, Owner, Holding
    <2>2. [thr[t] EXCEPT !.pc = "poll"] \in Activity /\ [thr[t] EXCEPT !.pc = "lookup"] \in Activity
      BY <1>0 DEF Activity
    <2>3. thr[t].call # "prepare" /\ (thr[t].call \in {"sync", "try"} \/ thr[t].page \in Page)
      BY <1>3 DEF PollState, At, TableInv, NoBuffers, Located
    <2>4. Goto(t, "poll") \/ Return(t) \/ (Goto(t, "lookup") /\ thr[t].call \notin {"sync", "try"})
      BY <1>3 DEF PollState, PastWait
    <2>5. /\ thr' \in [Thread -> Activity] /\ Elsewhere(t)
          /\ \/ thr'[t].pc = "poll" /\ thr'[t].page = thr[t].page /\ thr'[t].call = thr[t].call
             \/ thr'[t].pc = "idle" /\ thr'[t].call = "none"
             \/ /\ thr'[t].pc = "lookup" /\ thr'[t].page = thr[t].page
                /\ thr'[t].call = thr[t].call /\ thr[t].call \notin {"sync", "try"}
      BY <1>0, <2>2, <2>4, GotoMoves, IdleMoves
    <2>6. UNCHANGED <<vm, unmapping, events, evtfd, monitor, mon, pt, buffers, ring>>
      BY <1>3 DEF PollState, kernelVars, tableVars, fpgaVars
    <2>7. thr'[t].pc \notin Holding
      BY <2>5 DEF Holding
    <2> QED BY <1>0, <1>busy, <2>1, <2>3, <2>5, <2>6, <2>7, LocalMove
  <1> QED BY <1>1, <1>2, <1>3

LEMMA LookupSteps ==
  ASSUME TableInv, NEW t \in Thread,
         LookupHit(t) \/ LookupMiss(t) \/ PinRetry(t) \/ PinFail(t) \/ PinUndo(t)
  PROVE  TableInv'
  <1>0. thr \in [Thread -> Activity] /\ thr[t] \in Activity /\ ring \in Seq(Req)
    BY DEF TableInv, Shape
  <1>busy. IF t = Srv THEN Busy' ELSE ring' = ring
    <2>1. thr[t].pc \notin {"idle", "aborted"}
      BY DEF LookupHit, LookupMiss, PinRetry, PinFail, PinUndo, Undoing, At
    <2>2. UNCHANGED ring
      BY DEF LookupHit, LookupMiss, PinRetry, PinFail, PinUndo, fpgaVars
    <2> QED BY <2>1, <2>2 DEF TableInv, Busy
  <1>1. thr[t].call # "prepare"
    BY DEF TableInv, NoBuffers
  <1>2. CASE LookupHit(t)
    <2>1. thr[t].page \in Page /\ pt[thr[t].page].frame \in Frame
      BY <1>2 DEF LookupHit, At, TableInv, Located, RefOne
    <2>2. pt' = pt /\ buffers' = buffers
      BY <1>1, <1>2 DEF LookupHit, Tracked
    <2>3. Finish(t, pt[thr[t].page].frame)
      BY <1>2 DEF LookupHit
    <2>4. /\ thr' \in [Thread -> Activity] /\ Elsewhere(t)
          /\ \/ thr'[t].pc = "idle" /\ thr'[t].call = "none"
             \/ /\ thr'[t].pc = "answer" /\ thr'[t].page = thr[t].page
                /\ thr'[t].call = thr[t].call
      BY <1>0, <2>1, <2>3, FinishMoves
    <2>5. UNCHANGED <<vm, unmapping, events, evtfd, monitor, mon, mutex, ring>>
      BY <1>2 DEF LookupHit, kernelVars, fpgaVars
    <2>6. thr'[t].pc \notin Holding
      BY <2>4 DEF Holding
    <2> QED BY <1>0, <1>busy, <1>1, <2>1, <2>2, <2>4, <2>5, <2>6, LocalMove
  <1>3. CASE LookupMiss(t)
    <2>1. [thr[t] EXCEPT !.pc = "pin"] \in Activity
      BY <1>0 DEF Activity
    <2>2. thr' \in [Thread -> Activity] /\ Elsewhere(t) /\ thr'[t].pc = "pin"
          /\ thr'[t].page = thr[t].page /\ thr'[t].call = thr[t].call
      BY <1>0, <1>3, <2>1, GotoMoves DEF LookupMiss
    <2>3. thr[t].page \in Page
      BY <1>3 DEF LookupMiss, At, TableInv, Located
    <2> QED BY <1>0, <1>busy, <1>1, <1>3, <2>2, <2>3, LocalMove DEF LookupMiss, kernelVars, tableVars, fpgaVars
  <1>4. CASE PinRetry(t)
    <2>1. [thr[t] EXCEPT !.pc = "repin"] \in Activity
      BY <1>0 DEF Activity
    <2>2. thr' \in [Thread -> Activity] /\ Elsewhere(t) /\ thr'[t].pc = "repin"
          /\ thr'[t].page = thr[t].page /\ thr'[t].call = thr[t].call
      BY <1>0, <1>4, <2>1, GotoMoves DEF PinRetry
    <2>3. thr[t].page \in Page /\ mutex = t
      BY <1>4 DEF PinRetry, At, TableInv, Located, Owner, Holding
    <2> QED BY <1>0, <1>busy, <1>1, <1>4, <2>2, <2>3, LocalMove DEF PinRetry, kernelVars, tableVars, fpgaVars
  <1>5. CASE PinFail(t) \/ PinUndo(t)
    <2>1. thr[t].page \in Page /\ mutex = t /\ mutex' = Free /\ Finish(t, None)
      BY <1>5 DEF PinFail, PinUndo, Undoing, At, TableInv, Located, Owner, Holding
    <2>2. /\ thr' \in [Thread -> Activity] /\ Elsewhere(t)
          /\ \/ thr'[t].pc = "idle" /\ thr'[t].call = "none"
             \/ /\ thr'[t].pc = "answer" /\ thr'[t].page = thr[t].page
                /\ thr'[t].call = thr[t].call
      BY <1>0, <2>1, FinishMoves
    <2>3. UNCHANGED <<vm, unmapping, events, evtfd, monitor, mon, pt, buffers, ring>>
      BY <1>5 DEF PinFail, PinUndo, kernelVars, tableVars, fpgaVars
    <2>4. thr'[t].pc \notin Holding
      BY <2>2 DEF Holding
    <2> QED BY <1>0, <1>busy, <1>1, <2>1, <2>2, <2>3, <2>4, LocalMove
  <1> QED BY <1>2, <1>3, <1>4, <1>5

(* A frame is taken from the mapping and reaches the table before anybody   *)
(* else holds the mutex.                                                   *)
LEMMA PinSteps ==
  ASSUME TableInv, NEW t \in Thread, PinPage(t) \/ PinInval(t)
  PROVE  TableInv'
  <1>0. thr \in [Thread -> Activity] /\ thr[t] \in Activity /\ thr[t].page \in Page /\ mutex = t
    BY DEF TableInv, Shape, PinPage, PinInval, At, Located, Owner, Holding
  <1>1. UNCHANGED <<vm, unmapping, events, evtfd, monitor, mon, mutex, pt, buffers, ring>>
    BY DEF PinPage, PinInval, kernelVars, tableVars, fpgaVars
  <1>2. /\ thr' \in [Thread -> Activity] /\ Elsewhere(t)
        /\ thr'[t].pc \in {"inval", "insert"} /\ thr'[t].page = thr[t].page
        /\ thr'[t].call = thr[t].call
        /\ thr'[t].frame \in Frame
        /\ thr'[t].frame # vm[thr[t].page] => Unreported(thr[t].page)
    <2>1. CASE PinPage(t)
      <3>1. vm[thr[t].page] \in Frame
        BY <1>0, <2>1 DEF PinPage, TableInv, Shape
      <3>2. thr' = [thr EXCEPT ![t].pc = "inval", ![t].frame = vm[thr[t].page]]
        BY <2>1 DEF PinPage
      <3>3. thr'[t] = [thr[t] EXCEPT !.pc = "inval", !.frame = vm[thr[t].page]]
        BY <1>0, <3>2
      <3>4. /\ thr'[t].pc = "inval" /\ thr'[t].page = thr[t].page
            /\ thr'[t].call = thr[t].call /\ thr'[t].frame = vm[thr[t].page]
        BY <1>0, <3>3 DEF Activity
      <3>5. thr'[t] \in Activity
        BY <1>0, <3>1, <3>3 DEF Activity
      <3>6. thr' \in [Thread -> Activity] /\ Elsewhere(t)
        BY <1>0, <3>2, <3>5 DEF Elsewhere
      <3> QED BY <3>1, <3>4, <3>6
    <2>2. CASE PinInval(t)
      <3>1. [thr[t] EXCEPT !.pc = "insert"] \in Activity
        BY <1>0 DEF Activity
      <3>2. thr' \in [Thread -> Activity] /\ Elsewhere(t) /\ thr'[t].pc = "insert"
            /\ thr'[t].page = thr[t].page /\ thr'[t].call = thr[t].call
            /\ thr'[t].frame = thr[t].frame
        BY <1>0, <2>2, <3>1, GotoMoves DEF PinInval
      <3>3. thr[t].frame \in Frame /\ (thr[t].frame # vm[thr[t].page] => Unreported(thr[t].page))
        BY <2>2 DEF PinInval, At, TableInv, Fresh
      <3> QED BY <3>2, <3>3
    <2> QED BY <2>1, <2>2
  <1>3. Shape' /\ NoBuffers' /\ Located' /\ Busy'
    BY <1>0, <1>1, <1>2 DEF TableInv, Shape, NoBuffers, Located, Busy, Elsewhere, Thread,
       PinPage, PinInval, At
  <1>4. Owner'
    BY <1>0, <1>1, <1>2 DEF TableInv, Owner, Elsewhere
  <1>5. Counted' /\ OneUnmap' /\ RefOne' /\ NoStalePin'
    BY <1>1 DEF TableInv, Counted, OneUnmap, RefOne, NoStalePin, Unreported
  <1>6. Fresh'
    BY <1>1, <1>2 DEF TableInv, Fresh, Elsewhere, Unreported
  <1> QED BY <1>3, <1>4, <1>5, <1>6 DEF TableInv

LEMMA InsertStep ==
  ASSUME TableInv, NEW t \in Thread, PinInsert(t)
  PROVE  TableInv'
  <1> DEFINE p == thr[t].page
             f == thr[t].frame
  <1>0. thr \in [Thread -> Activity] /\ p \in Page /\ mutex = t /\ f \in Frame
        /\ thr[t].call # "prepare" /\ (f # vm[p] => Unreported(p))
    BY DEF TableInv, Shape, NoBuffers, PinInsert, At, Located, Owner, Holding, Fresh
  <1>1. UNCHANGED <<vm, unmapping, events, evtfd, monitor, mon, buffers, ring>> /\ mutex' = Free
    BY <1>0 DEF PinInsert, Tracked, kernelVars, fpgaVars
  <1>2. /\ thr' \in [Thread -> Activity] /\ Elsewhere(t)
        /\ \/ thr'[t].pc = "idle" /\ thr'[t].call = "none"
           \/ /\ thr'[t].pc = "answer" /\ thr'[t].page = p /\ thr'[t].call = thr[t].call
    BY <1>0, FinishMoves DEF PinInsert
  <1>3. /\ pt' \in [Page -> Entry] /\ pt'[p].frame = f /\ pt'[p].ref = 1
        /\ \A q \in Page : q # p => pt'[q] = pt[q]
    <2>1. [frame |-> f, ref |-> 1] \in Entry
      BY <1>0 DEF Entry
    <2>2. pt \in [Page -> Entry] /\ pt' = [pt EXCEPT ![p] = [frame |-> f, ref |-> 1]]
      BY DEF TableInv, Shape, PinInsert
    <2> QED BY <1>0, <2>1, <2>2
  <1>4. Shape' /\ NoBuffers' /\ Located' /\ Busy'
    <2>1. Shape' /\ NoBuffers'
      BY <1>0, <1>1, <1>2, <1>3 DEF TableInv, Shape, NoBuffers, Elsewhere
    <2>2. Located'
      BY <1>0, <1>1, <1>2 DEF TableInv, Located, Elsewhere
    <2>3. Busy'
      BY <1>0, <1>1, <1>2 DEF TableInv, Busy, Elsewhere, Thread, PinInsert, At
    <2> QED BY <2>1, <2>2, <2>3
  <1>5. Owner'
    BY <1>0, <1>1, <1>2, OnDemandAssumption DEF TableInv, Owner, Elsewhere, Thread, Holding
  <1>6. Counted' /\ OneUnmap'
    BY <1>1 DEF TableInv, Counted, OneUnmap
  <1>7. RefOne'
    BY <1>0, <1>3 DEF TableInv, RefOne, NoEntry
  <1>8. NoStalePin'
    BY <1>0, <1>1, <1>3 DEF TableInv, NoStalePin, Unreported
  <1>9. Fresh'
    BY <1>0, <1>1, <1>2 DEF TableInv, Fresh, Elsewhere, Unreported
  <1> QED BY <1>4, <1>5, <1>6, <1>7, <1>8, <1>9 DEF TableInv

\* What the invariant says of threads depends on these only.
LEMMA ThreadsFrame ==
  ASSUME TableInv, UNCHANGED <<thr, mutex, monitor, buffers>>
  PROVE  /\ NoBuffers' /\ Located'
         /\ (mon'.pc = "drain" => mutex = Mon) => Owner'
         /\ ring' = ring => Busy'
  BY DEF TableInv, NoBuffers, Located, Owner, Busy

(* munmap leaves entries and pins behind, and reports them.                *)
LEMMA KernelSteps ==
  ASSUME TableInv,
         \/ \E a \in App, p \in Page : Munmap(a, p) \/ \E f \in Frame : Mmap(a, p, f)
         \/ MunmapDone
  PROVE  TableInv'
  <1>0. /\ vm \in [Page -> Frame \union {None}] /\ events \in Seq(Page) /\ Len(events) \in Nat
        /\ evtfd \in Nat /\ mon.count \in Nat
    BY DEF TableInv, Shape
  <1>1. UNCHANGED <<thr, mutex, monitor, mon, pt, buffers, ring>>
    BY DEF Munmap, Mmap, MunmapDone, tableVars, fpgaVars
  <1>2. NoBuffers' /\ Located' /\ Busy' /\ Owner' /\ RefOne'
    BY <1>1, ThreadsFrame DEF TableInv, Owner, RefOne
  <1>3. ASSUME NEW a \in App, NEW p \in Page, Munmap(a, p) PROVE TableInv'
    <2>1. vm' = [vm EXCEPT ![p] = None] /\ unmapping' = {p} /\ unmapping = {}
      BY <1>3 DEF Munmap, TableInv, NoBuffers
    <2>2. UNCHANGED <<events, evtfd>>
      BY <1>3 DEF Munmap
    <2>3. \A q \in Page : Unreported(q)' <=> (q = p \/ Unreported(q))
      BY <2>1, <2>2 DEF Unreported
    <2>4. Shape' /\ Counted' /\ OneUnmap'
      BY <1>0, <1>1, <2>1, <2>2 DEF TableInv, Shape, Counted, OneUnmap
    <2>5. NoStalePin'
      BY <1>0, <1>1, <2>1, <2>3 DEF TableInv, NoStalePin
    <2>6. Fresh'
      BY <1>0, <1>1, <2>1, <2>3 DEF TableInv, Fresh, Located
    <2> QED BY <1>2, <2>4, <2>5, <2>6 DEF TableInv
  <1>4. ASSUME MunmapDone PROVE TableInv'
    <2>1. PICK p \in Page : unmapping = {p} /\ events' = Append(events, p)
      BY <1>4 DEF MunmapDone, TableInv, OneUnmap
    <2>2. unmapping' = {} /\ evtfd' = evtfd + 1 /\ vm' = vm
      BY <1>4 DEF MunmapDone
    <2>3. events' \in Seq(Page) /\ Len(events') = Len(events) + 1
      BY <1>0, <2>1
    <2>4. \A q \in Page : Unreported(q)' <=> Unreported(q)
      BY <1>0, <2>1, <2>2, HasAppend DEF Unreported
    <2>5. Shape'
      BY <1>1, <2>2, <2>3 DEF TableInv, Shape
    <2>6. Counted' /\ OneUnmap'
      <3>1. Len(events) = evtfd + mon.count /\ (mon.pc = "read" => mon.count = 0)
        BY DEF TableInv, Counted
      <3>2. Len(events') = evtfd' + mon.count
        <4>1. (evtfd + mon.count) + 1 = (evtfd + 1) + mon.count
          BY <1>0
        <4> QED BY <2>2, <2>3, <3>1, <4>1
      <3>3. mon' = mon
        BY <1>1
      <3> QED BY <2>2, <3>1, <3>2, <3>3 DEF Counted, OneUnmap
    <2>7. NoStalePin' /\ Fresh'
      BY <1>1, <2>2, <2>4 DEF TableInv, NoStalePin, Fresh, Located
    <2> QED BY <1>2, <2>5, <2>6, <2>7 DEF TableInv
  <1>5. ASSUME NEW a \in App, NEW p \in Page, NEW f \in Frame, Mmap(a, p, f) PROVE TableInv'
    <2>1. vm' = [vm EXCEPT ![p] = f] /\ vm[p] = None
      BY <1>5 DEF Mmap
    <2>2. UNCHANGED <<events, evtfd, unmapping>>
      BY <1>5 DEF Mmap
    <2>3. \A q \in Page : Unreported(q)' <=> Unreported(q)
      BY <2>2 DEF Unreported
    <2>4. Shape' /\ Counted' /\ OneUnmap'
      BY <1>0, <1>1, <2>1, <2>2 DEF TableInv, Shape, Counted, OneUnmap
    <2>5. NoStalePin'
      BY <1>0, <1>1, <2>1, <2>3 DEF TableInv, NoStalePin
    <2>6. Fresh'
      BY <1>0, <1>1, <2>1, <2>3, OnDemandAssumption DEF TableInv, Fresh, Located
    <2> QED BY <1>2, <2>4, <2>5, <2>6 DEF TableInv
  <1> QED BY <1>3, <1>4, <1>5

(* The monitor drops the entry of the page whose event it takes.           *)
LEMMA MonitorSteps ==
  ASSUME TableInv, Monitor
  PROVE  TableInv'
  <1>0. /\ events \in Seq(Page) /\ Len(events) \in Nat /\ evtfd \in Nat /\ mon.count \in Nat
        /\ mon \in [pc : {"read", "lock", "drain"}, count : Nat]
        /\ pt \in [Page -> Entry]
    BY DEF TableInv, Shape
  <1>1. UNCHANGED <<thr, monitor, vm, unmapping, buffers, ring>>
    BY DEF Monitor, MonRead, MonLock, MonEvent, MonUnlock, kernelVars, tableVars, fpgaVars
  <1>2. CASE MonRead
    <2>1. mon' = [pc |-> "lock", count |-> evtfd] /\ evtfd' = 0 /\ mon.pc = "read"
          /\ UNCHANGED <<events, mutex, pt>>
      BY <1>2 DEF MonRead, tableVars
    <2>2. Shape' /\ Counted'
      BY <1>0, <1>1, <2>1 DEF TableInv, Shape, Counted
    <2>3. NoBuffers' /\ Located' /\ Busy' /\ Owner'
      BY <1>1, <2>1, ThreadsFrame
    <2> QED BY <1>1, <2>1, <2>2, <2>3
            DEF TableInv, OneUnmap, RefOne, Fresh, NoStalePin, Unreported
  <1>3. CASE MonLock \/ MonUnlock
    <2>1. /\ mon' \in [pc : {"read", "lock", "drain"}, count : Nat] /\ mon'.count = mon.count
          /\ \/ mutex = Free /\ mutex' = Mon /\ mon'.pc = "drain"
             \/ mutex = Mon /\ mutex' = Free /\ mon'.pc = "read" /\ mon.count = 0
      BY <1>0, <1>3 DEF MonLock, MonUnlock, TableInv, Owner
    <2>2. UNCHANGED <<events, evtfd, pt>>
      BY <1>3 DEF MonLock, MonUnlock, kernelVars, tableVars
    <2>3. Shape' /\ Counted'
      BY <1>0, <1>1, <2>1, <2>2 DEF TableInv, Shape, Counted
    <2>4. NoBuffers' /\ Located' /\ Busy'
      BY <1>1 DEF TableInv, NoBuffers, Located, Busy
    <2>5. Owner'
      BY <1>1, <2>1, OnDemandAssumption DEF TableInv, Owner, Thread
    <2> QED BY <1>1, <2>2, <2>3, <2>4, <2>5
            DEF TableInv, OneUnmap, RefOne, Fresh, NoStalePin, Unreported
  <1>4. CASE MonEvent
    <2> DEFINE p == Head(events)
    <2>1. events # <<>> /\ mon.pc = "drain" /\ mutex = Mon
      BY <1>0, <1>4 DEF MonEvent, TableInv, Owner, Counted
    <2>2. /\ p \in Page /\ events' = Tail(events) /\ events' \in Seq(Page)
          /\ Len(events') = Len(events) - 1
      BY <1>0, <1>4, <2>1, HasTail DEF MonEvent
    <2>3. /\ mon' = [mon EXCEPT !.count = @ - 1] /\ mon.count > 0 /\ UNCHANGED <<evtfd, mutex>>
      BY <1>4 DEF MonEvent
    <2>4. pt' = [pt EXCEPT ![p] = NoEntry]
      <3>1. CASE pt[p] = NoEntry
        BY <1>0, <1>4, <2>2, <3>1 DEF MonEvent, NoEntry
      <3>2. CASE pt[p] # NoEntry
        BY <1>4, <2>2, <3>2 DEF MonEvent, TableInv, RefOne, NoEntry
      <3> QED BY <3>1, <3>2
    <2>5. NoEntry \in Entry /\ NoEntry.frame = None
      BY DEF NoEntry, Entry
    <2>6. pt' \in [Page -> Entry] /\ pt'[p] = NoEntry /\ \A q \in Page : q # p => pt'[q] = pt[q]
      BY <1>0, <2>2, <2>4, <2>5
    <2>7. \A q \in Page : q # p /\ Unreported(q) => Unreported(q)'
      BY <1>0, <1>1, <2>1, <2>2, HasTail DEF Unreported
    <2>8. mon' \in [pc : {"read", "lock", "drain"}, count : Nat]
          /\ mon'.pc = "drain" /\ mon'.count = mon.count - 1
      BY <1>0, <2>1, <2>3
    <2>9. Shape' /\ Counted'
      <3>1. Len(events) = evtfd + mon.count
        BY DEF TableInv, Counted
      <3>2. Len(events') = evtfd' + mon'.count
        BY <1>0, <2>2, <2>3, <2>8, <3>1
      <3>3. Counted'
        BY <2>8, <3>2 DEF Counted
      <3>4. Shape'
        BY <1>0, <1>1, <2>2, <2>3, <2>6, <2>8 DEF TableInv, Shape
      <3> QED BY <3>3, <3>4
    <2>10. NoBuffers' /\ Located' /\ Busy' /\ Owner'
      BY <1>1, <2>1, <2>3, ThreadsFrame
    <2>11. RefOne' /\ NoStalePin' /\ OneUnmap'
      BY <1>1, <2>5, <2>6, <2>7 DEF TableInv, RefOne, NoStalePin, OneUnmap
    <2>12. Fresh'
      <3>1. \A t \in Thread : thr[t].pc \notin {"inval", "insert"}
        BY <2>1, OnDemandAssumption DEF TableInv, Owner, Holding, Thread
      <3> QED BY <1>1, <3>1 DEF Fresh
    <2> QED BY <2>9, <2>10, <2>11, <2>12 DEF TableInv
  <1> QED BY <1>2, <1>3, <1>4 DEF Monitor

\* Calls begin with the wait.  Those of the application that prepare and
\* release buffers are not made.
LEMMA CallSteps ==
  ASSUME OnDemandOnly, TableInv,
         \/ \E a \in App, p \in Page : CallGet(a, p) \/ CallPrepare(a, p) \/ CallRelease(a, p)
         \/ \E a \in App, call \in {"sync", "try"} : CallSync(a, call)
         \/ SrvTake
  PROVE  TableInv'
  <1>0. thr \in [Thread -> Activity] /\ ring \in Seq(Req) /\ monitor = "up"
    BY DEF TableInv, Shape, NoBuffers
  <1>1. ASSUME NEW t \in Thread, NEW call \in {"get", "sync", "try", "srv"},
               NEW p \in Page \union {None},
               call \in {"sync", "try"} \/ p \in Page, Wait(t, call, p),
               t = Srv => ring # <<>>,
               UNCHANGED <<kernelVars, mon, mutex, tableVars, fpgaVars>>
        PROVE  TableInv'
    <2>1. thr' = [thr EXCEPT ![t] = Doing("poll", call, p)] /\ UNCHANGED monitor
      BY <1>0, <1>1 DEF Wait
    <2>2. Doing("poll", call, p) = [pc |-> "poll", call |-> call, page |-> p, frame |-> None]
      BY DEF Doing
    <2>3. [pc |-> "poll", call |-> call, page |-> p, frame |-> None] \in Activity
      BY DEF Activity
    <2>4. thr' \in [Thread -> Activity] /\ Elsewhere(t)
          /\ thr'[t] = [pc |-> "poll", call |-> call, page |-> p, frame |-> None]
      BY <1>0, <2>1, <2>2, <2>3 DEF Elsewhere
    <2>5. thr'[t].pc = "poll" /\ thr'[t].call = call /\ thr'[t].page = p
      BY <2>4
    <2>6. IF t = Srv THEN Busy' ELSE ring' = ring
      BY <1>1 DEF fpgaVars, Busy
    <2> QED BY <1>0, <1>1, <2>1, <2>4, <2>5, <2>6, LocalMove
            DEF kernelVars, tableVars, fpgaVars, Holding
  <1>2. ASSUME NEW a \in App, NEW p \in Page, CallGet(a, p) PROVE TableInv'
    BY <1>1, <1>2, OnDemandAssumption DEF CallGet, Thread
  <1>3. ASSUME NEW a \in App, NEW call \in {"sync", "try"}, CallSync(a, call) PROVE TableInv'
    BY <1>1, <1>3, OnDemandAssumption DEF CallSync, Thread
  <1>4. ASSUME NEW a \in App, NEW p \in Page PROVE ~CallPrepare(a, p) /\ ~CallRelease(a, p)
    <2>1. ~CallPrepare(a, p)
      BY DEF OnDemandOnly, CallPrepare
    <2>2. ~(buffers[p] > 0)
      BY DEF TableInv, NoBuffers
    <2> QED BY <2>1, <2>2 DEF CallRelease
  <1>5. ASSUME SrvTake PROVE TableInv'
    <2>1. Head(ring) \in Req
      BY <1>0, <1>5, HasTail DEF SrvTake
    <2> QED BY <1>1, <1>5, <2>1 DEF SrvTake, Thread, Req
  <1> QED BY <1>2, <1>3, <1>4, <1>5

\* The server's answer and the FPGA's steps do not touch the table.
LEMMA FpgaSteps ==
  ASSUME TableInv, SrvAnswer \/ Deliver \/ Fpga
  PROVE  TableInv'
  <1>0. thr \in [Thread -> Activity] /\ ring \in Seq(Req) /\ Srv \in Thread /\ thr[Srv] \in Activity
    BY DEF TableInv, Shape, Thread
  <1>1. CASE SrvAnswer
    <2>1. (Goto(Srv, "aborted") /\ UNCHANGED ring) \/ (Return(Srv) /\ ring' = Tail(ring))
      BY <1>1 DEF SrvAnswer
    <2>2. [thr[Srv] EXCEPT !.pc = "aborted"] \in Activity
      BY <1>0 DEF Activity
    <2>3. /\ thr' \in [Thread -> Activity] /\ Elsewhere(Srv)
          /\ \/ thr'[Srv].pc = "aborted" /\ thr'[Srv].call = thr[Srv].call
             \/ thr'[Srv].pc = "idle" /\ thr'[Srv].call = "none"
      BY <1>0, <2>1, <2>2, GotoMoves, IdleMoves
    <2>4. thr'[Srv].call # "prepare"
      BY <1>0, <2>3 DEF TableInv, NoBuffers
    <2>5. ring' \in Seq(Req)
      <3>1. ring # <<>>
        BY <1>1 DEF SrvAnswer, At, TableInv, Busy
      <3> QED BY <1>0, <2>1, <3>1, HasTail
    <2>6. UNCHANGED <<vm, unmapping, events, evtfd, monitor, mon, mutex, pt, buffers>>
      BY <1>1 DEF SrvAnswer, kernelVars, tableVars
    <2>7. thr'[Srv].pc \notin Holding
      BY <2>3 DEF Holding
    <2>8. Busy'
      BY <2>3 DEF Busy
    <2> QED BY <1>0, <2>3, <2>4, <2>5, <2>6, <2>7, <2>8, LocalMove
  <1>2. CASE Deliver \/ Fpga
    <2>1. UNCHANGED <<vm, unmapping, events, evtfd, monitor, mon, mutex, pt, buffers, thr>>
      BY <1>2 DEF Deliver, Fpga, Ask, AskSpeculatively, kernelVars, tableVars
    <2>2. ring' \in Seq(Req) /\ (ring # <<>> => ring' # <<>>)
      <3>1. CASE Deliver
        BY <1>0, <3>1 DEF Deliver
      <3>2. CASE Fpga
        <4>1. PICK p \in Page, b \in BOOLEAN : ring' = Append(ring, [page |-> p, spec |-> b])
          BY <3>2 DEF Fpga, Ask, AskSpeculatively, Request
        <4>2. [page |-> p, spec |-> b] \in Req
          BY DEF Req
        <4> QED BY <1>0, <4>1, <4>2
      <3> QED BY <1>2, <3>1, <3>2
    <2>3. Shape' /\ NoBuffers' /\ Located' /\ Owner'
      BY <2>1, <2>2, ThreadsFrame DEF TableInv, Shape, Owner
    <2>4. Busy'
      BY <2>1, <2>2 DEF TableInv, Busy
    <2> QED BY <2>1, <2>3, <2>4
            DEF TableInv, Counted, OneUnmap, RefOne, Fresh, NoStalePin, Unreported
  <1> QED BY <1>1, <1>2

LEMMA TableInit ==
  ASSUME OnDemandOnly, Init
  PROVE  TableInv
  <1>1. Idle \in Activity /\ Idle.pc = "idle" /\ Idle.call = "none"
    BY DEF Idle, Doing, Activity
  <1>2. NoEntry \in Entry /\ NoEntry.frame = None
    BY DEF NoEntry, Entry
  <1>3. Shape
    <2>1. <<>> \in Seq(Page) /\ <<>> \in Seq(Req)
      OBVIOUS
    <2> QED BY <1>1, <1>2, <2>1 DEF Init, Shape
  <1>4. NoBuffers /\ Located /\ Busy /\ OneUnmap /\ RefOne /\ Fresh
    BY <1>1 DEF OnDemandOnly, Init, NoBuffers, Located, Busy, OneUnmap, RefOne, Fresh, Thread
  <1>5. Owner /\ Counted
    BY <1>1 DEF Init, Owner, Holding, Counted
  <1>6. NoStalePin
    BY <1>2 DEF Init, NoStalePin
  <1> QED BY <1>3, <1>4, <1>5, <1>6 DEF TableInv

LEMMA TableStep ==
  ASSUME OnDemandOnly, TableInv, [Next]_vars
  PROVE  TableInv'
  <1>1. ASSUME NEW t \in Thread, Inside(t) PROVE TableInv'
    <2>1. ~Releases(t)
      BY NoReleases
    <2> QED BY <1>1, <2>1, WaitSteps, LookupSteps, PinSteps, InsertStep DEF Inside, Releases
  <1>2. ASSUME NEW a \in App, Application(a) PROVE TableInv'
    BY <1>2, KernelSteps, CallSteps DEF Application
  <1>3. CASE UNCHANGED vars
    <2>1. UNCHANGED <<vm, unmapping, events, evtfd, monitor, mon, mutex, pt, buffers, thr, ring>>
      BY <1>3 DEF vars, kernelVars, tableVars, fpgaVars
    <2> QED BY <2>1 DEF TableInv, Shape, NoBuffers, Located, Busy, Owner, Counted, OneUnmap,
                        RefOne, Fresh, NoStalePin, Unreported
  <1>4. CASE Monitor \/ MunmapDone \/ Server \/ Fpga \/ Deliver
    BY <1>4, MonitorSteps, KernelSteps, CallSteps, FpgaSteps DEF Server
  <1> QED BY <1>1, <1>2, <1>3, <1>4 DEF Next

(* No page stays pinned behind the process's back: an entry of the table    *)
(* whose frame is not the process's has an event coming that removes it,    *)
(* however the server, the monitor, the application and the kernel          *)
(* interleave.                                                             *)
THEOREM NoStalePinning == OnDemandOnly => (Spec => []NoStalePin)
  <1> SUFFICES ASSUME OnDemandOnly PROVE Spec => []NoStalePin
    OBVIOUS
  <1>1. Init => TableInv
    BY TableInit
  <1>2. TableInv /\ [Next]_vars => TableInv'
    BY TableStep
  <1>3. TableInv => NoStalePin
    BY DEF TableInv
  <1> QED BY <1>1, <1>2, <1>3, PTL DEF Spec

-----------------------------------------------------------------------------
(* The server's answers.                                                   *)

Kernel == <<vm, unmapping, events>>

LEMMA HeadUsed ==
  ASSUME TableInv, thr[Srv].pc \notin {"idle", "aborted"}
  PROVE  /\ ring # <<>> /\ Head(ring) \in Req
         /\ ~Head(ring).spec => Used(Head(ring).page)
  <1>1. ring \in Seq(Req) /\ ring # <<>>
    BY DEF TableInv, Shape, Busy
  <1>2. Head(ring) \in Req /\ Has(ring, Head(ring))
    BY <1>1, HasTail, HasHead
  <1>3. ~Head(ring).spec => Head(ring) = [page |-> Head(ring).page, spec |-> FALSE]
    BY <1>2 DEF Req
  <1> QED BY <1>1, <1>2, <1>3 DEF Used

(* Steps of others: the pages in use keep their frames and no invalidation  *)
(* of one begins.                                                          *)
LEMMA OthersMove ==
  ASSUME TableInv, ServerInv, thr'[Srv] = thr[Srv], ring' = ring,
         \A p \in Page : Used(p) => vm'[p] = vm[p] /\ (Unreported(p)' => Unreported(p))
  PROVE  ServerInv'
  <1>1. Serving' /\ NoFailure'
    BY DEF ServerInv, Serving, NoFailure, Running
  <1>2. \A p \in Page : Used(p)' <=> Used(p)
    BY DEF Used
  <1>3. UsedMapped'
    BY <1>2 DEF ServerInv, UsedMapped
  <1>4. Settled'
    <2> SUFFICES ASSUME thr[Srv].pc \in {"lookup", "pin", "repin", "inval", "insert"},
                        ~Head(ring).spec
                 PROVE  ~Unreported(Head(ring).page)'
      BY DEF Settled
    <2>1. Used(Head(ring).page) /\ Head(ring).page \in Page
      BY HeadUsed DEF Req
    <2>2. ~Unreported(Head(ring).page)
      BY DEF ServerInv, Settled
    <2> QED BY <2>1, <2>2 DEF Unreported
  <1>5. UsedPageCurrent'
    <2> SUFFICES ASSUME thr[Srv].pc = "answer", ~Head(ring).spec
                 PROVE  thr[Srv].frame \in {vm'[thr[Srv].page], None}
      BY DEF UsedPageCurrent, At
    <2>1. Used(Head(ring).page) /\ Head(ring).page \in Page /\ thr[Srv].page = Head(ring).page
      BY HeadUsed DEF Req, ServerInv, Serving
    <2> QED BY <2>1 DEF ServerInv, UsedPageCurrent, At
  <1> QED BY <1>1, <1>3, <1>4, <1>5 DEF ServerInv

LEMMA InsideFrame ==
  ASSUME TableInv, NEW t \in Thread, Inside(t)
  PROVE  Elsewhere(t) /\ UNCHANGED <<Kernel, ring>>
  <1>0. thr \in [Thread -> Activity]
    BY DEF TableInv, Shape
  <1>1. UNCHANGED <<Kernel, ring>>
    BY DEF Inside, MonitorInit, PollLock, PollState, LookupHit, LookupMiss, PinPage, PinRetry,
           PinFail, PinInval, PinInsert, PinUndo, ReleaseEntry, ReleaseLock, ReleaseInval,
           ReleaseInvalFails, ReleasePin, Kernel, kernelVars, fpgaVars
  <1>2. ASSUME NEW pc, Goto(t, pc) PROVE Elsewhere(t)
    BY <1>0, <1>2 DEF Goto, Elsewhere
  <1>3. ASSUME Return(t) PROVE Elsewhere(t)
    BY <1>0, <1>3 DEF Return, Elsewhere
  <1>4. ASSUME PastWait(t) PROVE Elsewhere(t)
    BY <1>2, <1>3, <1>4 DEF PastWait
  <1>5. ASSUME NEW f, Finish(t, f) PROVE Elsewhere(t)
    BY <1>0, <1>3, <1>5 DEF Finish, Elsewhere
  <1>6. MonitorInit(t) \/ PollLock(t) \/ PollState(t) \/ LookupMiss(t) \/ PinRetry(t)
            \/ PinInval(t) \/ ReleaseLock(t) \/ ReleaseInval(t) \/ ReleaseInvalFails(t)
            \/ ReleasePin(t) => Elsewhere(t)
    BY <1>2, <1>3, <1>4 DEF MonitorInit, PollLock, PollState, LookupMiss, PinRetry, PinInval,
                            ReleaseLock, ReleaseInval, ReleaseInvalFails, ReleasePin
  <1>7. LookupHit(t) \/ PinFail(t) \/ PinInsert(t) \/ PinUndo(t) => Elsewhere(t)
    BY <1>5 DEF LookupHit, PinFail, PinInsert, PinUndo
  <1>8. PinPage(t) => Elsewhere(t)
    BY <1>0 DEF PinPage, Elsewhere
  <1>9. ReleaseEntry(t) => Elsewhere(t)
    BY <1>0, <1>3 DEF ReleaseEntry, Elsewhere
  <1> QED BY <1>1, <1>6, <1>7, <1>8, <1>9 DEF Inside

LEMMA OthersSteps ==
  ASSUME OnDemandOnly, TableInv, ServerInv,
         \/ \E t \in Thread \ {Srv} : Inside(t)
         \/ \E a \in App : Application(a)
         \/ Monitor \/ MunmapDone \/ Deliver
  PROVE  ServerInv'
  <1>0. /\ thr \in [Thread -> Activity] /\ Srv \in Thread /\ events \in Seq(Page)
        /\ vm \in [Page -> Frame \union {None}]
    BY DEF TableInv, Shape, Thread
  <1>1. ASSUME NEW t \in Thread \ {Srv}, Inside(t) PROVE ServerInv'
    <2>1. thr'[Srv] = thr[Srv] /\ UNCHANGED <<Kernel, ring>>
      BY <1>0, <1>1, InsideFrame DEF Elsewhere
    <2> QED BY <2>1, OthersMove DEF Kernel, Unreported
  <1>2. ASSUME NEW a \in App, NEW p \in Page, Munmap(a, p) PROVE ServerInv'
    <2>1. thr' = thr /\ ring' = ring /\ ~Used(p)
      BY <1>2 DEF Munmap, InUse, Used, fpgaVars
    <2>2. \A q \in Page : q # p => vm'[q] = vm[q]
      BY <1>0, <1>2 DEF Munmap
    <2>3. \A q \in Page : q # p => (Unreported(q)' => Unreported(q))
      BY <1>2 DEF Munmap, Unreported
    <2> QED BY <2>1, <2>2, <2>3, OthersMove
  <1>3. ASSUME NEW a \in App, NEW p \in Page, NEW f \in Frame, Mmap(a, p, f) PROVE ServerInv'
    <2>1. thr' = thr /\ ring' = ring /\ UNCHANGED <<unmapping, events>>
      BY <1>3 DEF Mmap, fpgaVars
    <2>2. ~Used(p)
      BY <1>3 DEF Mmap, ServerInv, UsedMapped
    <2>3. \A q \in Page : q # p => vm'[q] = vm[q]
      BY <1>0, <1>3 DEF Mmap
    <2> QED BY <2>1, <2>2, <2>3, OthersMove DEF Unreported
  <1>4. ASSUME NEW a \in App, NEW call, NEW p, Wait(a, call, p),
               UNCHANGED <<kernelVars, fpgaVars>>
        PROVE  ServerInv'
    <2>1. thr'[Srv] = thr[Srv]
      BY <1>0, <1>4, OnDemandAssumption DEF Wait, Return
    <2> QED BY <1>4, <2>1, OthersMove DEF kernelVars, fpgaVars, Unreported
  <1>5. ASSUME NEW a \in App, Application(a) PROVE ServerInv'
    <2>1. ~\E p \in Page : CallPrepare(a, p) \/ CallRelease(a, p)
      <3>1. \A p \in Page : ~CallPrepare(a, p)
        BY DEF OnDemandOnly, CallPrepare
      <3>2. \A p \in Page : ~(buffers[p] > 0)
        BY DEF TableInv, NoBuffers
      <3> QED BY <3>1, <3>2 DEF CallRelease
    <2> QED BY <1>2, <1>3, <1>4, <1>5, <2>1 DEF Application, CallGet, CallSync
  <1>6. ASSUME Monitor \/ MunmapDone \/ Deliver PROVE ServerInv'
    <2>1. thr' = thr /\ vm' = vm /\ ring' = ring
      BY <1>6 DEF Monitor, MonRead, MonLock, MonEvent, MonUnlock, MunmapDone, Deliver,
                  kernelVars, fpgaVars
    <2>2. ASSUME NEW q \in Page PROVE Unreported(q)' => Unreported(q)
      <3>1. CASE MonRead \/ MonLock \/ MonUnlock \/ Deliver
        BY <3>1 DEF MonRead, MonLock, MonUnlock, Deliver, kernelVars, Unreported
      <3>2. CASE MonEvent
        <4>1. events # <<>>
          BY <1>0, <3>2 DEF MonEvent, TableInv, Counted, Shape
        <4>2. events' = Tail(events) /\ unmapping' = unmapping
          BY <3>2 DEF MonEvent
        <4> QED BY <1>0, <4>1, <4>2, HasTail DEF Unreported
      <3>3. CASE MunmapDone
        <4>1. PICK p \in unmapping : events' = Append(events, p) /\ unmapping' = {}
          BY <3>3 DEF MunmapDone
        <4>2. p \in Page
          BY <4>1 DEF TableInv, OneUnmap
        <4> QED BY <1>0, <4>1, <4>2, HasAppend DEF Unreported
      <3> QED BY <1>6, <3>1, <3>2, <3>3 DEF Monitor
    <2> QED BY <2>1, <2>2, OthersMove
  <1> QED BY <1>1, <1>5, <1>6

(* A step of the server inside the call for its oldest request.            *)
LEMMA OwnMove ==
  ASSUME TableInv, ServerInv, UNCHANGED <<Kernel, ring>>,
         thr[Srv].pc \notin {"idle", "aborted"}, thr'[Srv].pc # "aborted",
         thr'[Srv].call = thr[Srv].call, thr'[Srv].page = thr[Srv].page,
         (thr'[Srv].pc \in {"lookup", "pin", "repin", "inval", "insert"} /\ ~Head(ring).spec) =>
             ~Unreported(Head(ring).page),
         (thr'[Srv].pc = "answer" /\ ~Head(ring).spec) =>
             /\ thr'[Srv].frame \in {vm[thr[Srv].page], None}
             /\ ~MayFail => thr'[Srv].frame # None
  PROVE  ServerInv'
  <1>1. Serving' /\ UsedMapped'
    BY DEF ServerInv, Serving, UsedMapped, Used, Kernel
  <1>2. Settled'
    BY DEF Settled, Unreported, Kernel
  <1>3. UsedPageCurrent'
    BY DEF UsedPageCurrent, At, Kernel
  <1>4. NoFailure'
    BY DEF NoFailure, Running
  <1> QED BY <1>1, <1>2, <1>3, <1>4 DEF ServerInv

(* The situation of each of those steps.                                   *)
LEMMA OwnPlace ==
  ASSUME TableInv, ServerInv, thr[Srv].pc \notin {"idle", "aborted"}
  PROVE  /\ Srv \in Thread /\ thr \in [Thread -> Activity] /\ thr[Srv] \in Activity
         /\ thr[Srv].call = "srv" /\ thr[Srv].page = Head(ring).page
         /\ thr[Srv].page \in Page
         /\ ~Head(ring).spec => vm[thr[Srv].page] \in Frame
  <1>1. Head(ring).page \in Page /\ (~Head(ring).spec => Used(Head(ring).page))
    BY HeadUsed DEF Req
  <1>2. Srv \in Thread /\ thr \in [Thread -> Activity] /\ vm \in [Page -> Frame \union {None}]
    BY DEF TableInv, Shape, Thread
  <1> QED BY <1>1, <1>2 DEF ServerInv, Serving, UsedMapped

LEMMA PollSteps ==
  ASSUME OnDemandOnly, TableInv, ServerInv, PollLock(Srv) \/ PollState(Srv)
  PROVE  ServerInv'
  <1>0. thr[Srv].pc \notin {"idle", "aborted"}
    BY DEF PollLock, PollState, At
  <1>1. UNCHANGED <<Kernel, ring>>
    BY DEF PollLock, PollState, Kernel, kernelVars, fpgaVars
  <1>2. PICK pc \in {"state", "poll", "lookup"} :
            /\ Goto(Srv, pc)
            /\ pc = "lookup" => ~(EvtCnt > 0)
    BY <1>0, OwnPlace DEF PollLock, PollState, PastWait
  <1>3. [thr[Srv] EXCEPT !.pc = pc] \in Activity
    BY <1>0, OwnPlace DEF Activity
  <1>4. /\ thr'[Srv].pc = pc /\ thr'[Srv].page = thr[Srv].page /\ thr'[Srv].call = thr[Srv].call
    BY <1>0, <1>2, <1>3, OwnPlace, GotoMoves
  <1>5. ~(EvtCnt > 0) => \A p \in Page : ~Unreported(p)
    <2> SUFFICES ASSUME ~(EvtCnt > 0), NEW p \in Page PROVE ~Unreported(p)
      OBVIOUS
    <2>1. Len(events) \in Nat
      BY DEF TableInv, Shape
    <2>2. unmapping = {}
      <3>1. ASSUME NEW q \in Page, unmapping = {q} PROVE FALSE
        <4>1. Cardinality({q}) = 1
          BY FS_Singleton
        <4>2. EvtCnt = Len(events) + 1
          BY <3>1, <4>1 DEF EvtCnt
        <4> QED BY <2>1, <4>2
      <3> QED BY <3>1 DEF TableInv, OneUnmap
    <2>3. Len(events) = 0
      BY <2>1, <2>2, FS_EmptySet DEF EvtCnt
    <2> QED BY <2>2, <2>3 DEF Unreported, Has
  <1>6. Head(ring).page \in Page
    BY <1>0, HeadUsed DEF Req
  <1> QED BY <1>0, <1>1, <1>2, <1>4, <1>5, <1>6, OwnMove

\* A page found in the table has the frame the process has there.
LEMMA HitSteps ==
  ASSUME OnDemandOnly, TableInv, ServerInv, LookupHit(Srv) \/ LookupMiss(Srv)
  PROVE  ServerInv'
  <1>0. thr[Srv].pc = "lookup"
    BY DEF LookupHit, LookupMiss, At
  <1>1. UNCHANGED <<Kernel, ring>>
    BY DEF LookupHit, LookupMiss, Kernel, kernelVars, fpgaVars
  <1>2. CASE LookupMiss(Srv)
    <2>1. [thr[Srv] EXCEPT !.pc = "pin"] \in Activity
      BY <1>0, OwnPlace DEF Activity
    <2>2. thr'[Srv].pc = "pin" /\ thr'[Srv].page = thr[Srv].page /\ thr'[Srv].call = thr[Srv].call
      BY <1>0, <1>2, <2>1, OwnPlace, GotoMoves DEF LookupMiss
    <2> QED BY <1>0, <1>1, <2>2, OwnMove DEF ServerInv, Settled
  <1>3. CASE LookupHit(Srv)
    <2> DEFINE p == thr[Srv].page
    <2>1. /\ thr'[Srv].pc = "answer" /\ thr'[Srv].frame = pt[p].frame
          /\ thr'[Srv].page = p /\ thr'[Srv].call = thr[Srv].call
      BY <1>0, <1>3, OwnPlace DEF LookupHit, Finish, Activity
    <2>2. pt[p].frame \in Frame /\ (pt[p].frame # vm[p] => Unreported(p))
      BY <1>0, <1>3, OwnPlace, OnDemandAssumption DEF LookupHit, TableInv, RefOne, NoStalePin
    <2>3. ~Head(ring).spec => ~Unreported(p)
      BY <1>0, OwnPlace DEF ServerInv, Settled
    <2> QED BY <1>0, <1>1, <2>1, <2>2, <2>3, OwnMove, OnDemandAssumption
  <1> QED BY <1>2, <1>3

\* A page in use is mapped, so it can be pinned unless pins are refused.
LEMMA OwnPinSteps ==
  ASSUME OnDemandOnly, TableInv, ServerInv,
         PinPage(Srv) \/ PinRetry(Srv) \/ PinFail(Srv) \/ PinInval(Srv)
  PROVE  ServerInv'
  <1>0. thr[Srv].pc \in {"pin", "repin", "inval"}
    BY DEF PinPage, PinRetry, PinFail, PinInval, At
  <1>1. UNCHANGED <<Kernel, ring>>
    BY DEF PinPage, PinRetry, PinFail, PinInval, Kernel, kernelVars, fpgaVars
  <1>2. ~Head(ring).spec => ~Unreported(Head(ring).page)
    BY <1>0 DEF ServerInv, Settled
  <1>3. CASE PinPage(Srv)
    <2>1. thr'[Srv].pc = "inval" /\ thr'[Srv].page = thr[Srv].page /\ thr'[Srv].call = thr[Srv].call
      BY <1>0, <1>3, OwnPlace DEF PinPage, Activity
    <2> QED BY <1>0, <1>1, <1>2, <2>1, OwnMove
  <1>4. CASE PinRetry(Srv) \/ PinInval(Srv)
    <2>1. PICK pc \in {"repin", "insert"} : Goto(Srv, pc)
      BY <1>4 DEF PinRetry, PinInval
    <2>2. [thr[Srv] EXCEPT !.pc = pc] \in Activity
      BY <1>0, OwnPlace DEF Activity
    <2>3. thr'[Srv].pc = pc /\ thr'[Srv].page = thr[Srv].page /\ thr'[Srv].call = thr[Srv].call
      BY <1>0, <2>1, <2>2, OwnPlace, GotoMoves
    <2> QED BY <1>0, <1>1, <1>2, <2>3, OwnMove
  <1>5. CASE PinFail(Srv)
    <2>1. /\ thr'[Srv].pc = "answer" /\ thr'[Srv].frame = None
          /\ thr'[Srv].page = thr[Srv].page /\ thr'[Srv].call = thr[Srv].call
      BY <1>0, <1>5, OwnPlace DEF PinFail, Finish, Activity
    <2>2. ~Head(ring).spec => MayFail
      BY <1>0, <1>5, OwnPlace, OnDemandAssumption DEF PinFail, CannotPin
    <2> QED BY <1>0, <1>1, <2>1, <2>2, OwnMove
  <1> QED BY <1>3, <1>4, <1>5

\* The frame that was pinned is still the process's.
LEMMA OwnInsertSteps ==
  ASSUME OnDemandOnly, TableInv, ServerInv, PinInsert(Srv) \/ PinUndo(Srv)
  PROVE  ServerInv'
  <1>0. thr[Srv].pc \in {"inval", "insert"}
    BY DEF PinInsert, PinUndo, Undoing, At
  <1>1. UNCHANGED <<Kernel, ring>>
    BY DEF PinInsert, PinUndo, Kernel, kernelVars, fpgaVars
  <1>2. PICK f \in {thr[Srv].frame, None} : Finish(Srv, f) /\ (f = None => MayFail \/ f = thr[Srv].frame)
    BY DEF PinInsert, PinUndo, Undoing
  <1>3. /\ thr'[Srv].pc = "answer" /\ thr'[Srv].frame = f
        /\ thr'[Srv].page = thr[Srv].page /\ thr'[Srv].call = thr[Srv].call
    BY <1>0, <1>2, OwnPlace DEF Finish, Activity
  <1>4. thr[Srv].frame \in Frame
        /\ (thr[Srv].frame # vm[thr[Srv].page] => Unreported(thr[Srv].page))
    BY <1>0, OwnPlace DEF TableInv, Fresh
  <1>5. ~Head(ring).spec => ~Unreported(thr[Srv].page)
    BY <1>0, OwnPlace DEF ServerInv, Settled
  <1>6. f = None => MayFail
    BY <1>2, <1>4, OnDemandAssumption
  <1> QED BY <1>0, <1>1, <1>2, <1>3, <1>4, <1>5, <1>6, OwnMove

\* The server takes its oldest request.
LEMMA TakeStep ==
  ASSUME TableInv, ServerInv, SrvTake
  PROVE  ServerInv'
  <1>0. /\ thr \in [Thread -> Activity] /\ Srv \in Thread /\ ring \in Seq(Req) /\ ring # <<>>
        /\ monitor = "up"
    BY DEF TableInv, Shape, NoBuffers, Thread, SrvTake
  <1>1. UNCHANGED <<Kernel, ring>>
    BY DEF SrvTake, Kernel, kernelVars, fpgaVars
  <1>2. thr' = [thr EXCEPT ![Srv] = Doing("poll", "srv", Head(ring).page)]
    BY <1>0 DEF SrvTake, Wait
  <1>3. thr'[Srv].pc = "poll" /\ thr'[Srv].call = "srv" /\ thr'[Srv].page = Head(ring).page
    BY <1>0, <1>2 DEF Doing
  <1>4. Serving' /\ UsedMapped' /\ Settled' /\ UsedPageCurrent'
    BY <1>1, <1>3 DEF ServerInv, Serving, UsedMapped, Used, Settled, UsedPageCurrent, At, Kernel
  <1>5. NoFailure'
    BY <1>3 DEF NoFailure, Running
  <1> QED BY <1>4, <1>5 DEF ServerInv

\* The answer of a page in use is good unless pins are refused.
LEMMA AnswerStep ==
  ASSUME TableInv, ServerInv, SrvAnswer
  PROVE  ServerInv'
  <1>0. /\ thr \in [Thread -> Activity] /\ Srv \in Thread /\ ring \in Seq(Req)
        /\ thr[Srv].pc = "answer" /\ ring # <<>>
    BY DEF TableInv, Shape, Busy, Thread, SrvAnswer, At
  <1>1. UNCHANGED <<vm, unmapping, events>>
    BY DEF SrvAnswer, kernelVars
  <1>2. CASE thr[Srv].frame = None /\ ~Head(ring).spec
    <2>1. Goto(Srv, "aborted") /\ ring' = ring
      BY <1>2 DEF SrvAnswer
    <2>2. thr'[Srv].pc = "aborted"
      BY <1>0, <2>1 DEF Goto, Activity
    <2>3. MayFail
      BY <1>0, <1>2 DEF ServerInv, NoFailure
    <2> QED BY <1>1, <2>1, <2>2, <2>3
            DEF ServerInv, Serving, UsedMapped, Used, Settled, UsedPageCurrent, At, NoFailure
  <1>3. CASE ~(thr[Srv].frame = None /\ ~Head(ring).spec)
    <2>1. Return(Srv) /\ ring' = Tail(ring)
      BY <1>3 DEF SrvAnswer
    <2>2. thr'[Srv].pc = "idle"
      BY <1>0, <2>1 DEF Return, Idle, Doing
    <2>3. UsedMapped'
      BY <1>0, <1>1, <2>1, HasTail DEF ServerInv, UsedMapped, Used
    <2> QED BY <2>2, <2>3
            DEF ServerInv, Serving, Settled, UsedPageCurrent, At, NoFailure, Running
  <1> QED BY <1>2, <1>3

\* A new request leaves the oldest one alone, and a page in use is mapped.
LEMMA AskStep ==
  ASSUME TableInv, ServerInv, Fpga
  PROVE  ServerInv'
  <1>0. ring \in Seq(Req)
    BY DEF TableInv, Shape
  <1>1. UNCHANGED <<vm, unmapping, events, thr>>
    BY DEF Fpga, Ask, AskSpeculatively, kernelVars
  <1>2. PICK p \in Page, b \in BOOLEAN :
            /\ ring' = Append(ring, [page |-> p, spec |-> b])
            /\ ~b => vm[p] # None
    BY DEF Fpga, Ask, AskSpeculatively, Request
  <1>3. [page |-> p, spec |-> b] \in Req
    BY DEF Req
  <1>4. ring # <<>> => Head(ring') = Head(ring)
    BY <1>0, <1>2, <1>3
  <1>5. UsedMapped'
    <2> SUFFICES ASSUME NEW q \in Page, Used(q)' PROVE vm[q] # None
      BY <1>1 DEF UsedMapped
    <2>1. Used(q) \/ [page |-> p, spec |-> b] = [page |-> q, spec |-> FALSE]
      BY <1>0, <1>2, <1>3, HasAppend DEF Used
    <2> QED BY <1>2, <2>1 DEF ServerInv, UsedMapped
  <1>6. thr[Srv].pc \notin {"idle", "aborted"} => Head(ring') = Head(ring)
    BY <1>4 DEF TableInv, Busy
  <1> QED BY <1>1, <1>5, <1>6
          DEF ServerInv, Serving, Settled, UsedPageCurrent, At, NoFailure, Running, Unreported

LEMMA ServerInit ==
  ASSUME Init
  PROVE  ServerInv
  <1>1. Srv \in Thread /\ thr[Srv].pc = "idle"
    BY DEF Init, Thread, Idle, Doing
  <1>2. UsedMapped
    BY DEF Init, UsedMapped, Used, Has
  <1> QED BY <1>1, <1>2 DEF ServerInv, Serving, Settled, UsedPageCurrent, At, NoFailure, Running

LEMMA ServerStep ==
  ASSUME OnDemandOnly, TableInv, ServerInv, [Next]_vars
  PROVE  ServerInv'
  <1>1. CASE Inside(Srv)
    <2>1. ~MonitorInit(Srv) /\ ~Releases(Srv)
      BY NoReleases DEF TableInv, NoBuffers, MonitorInit, At, Thread
    <2> QED BY <1>1, <2>1, PollSteps, HitSteps, OwnPinSteps, OwnInsertSteps DEF Inside, Releases
  <1>2. CASE UNCHANGED vars
    <2>1. UNCHANGED <<vm, unmapping, events, thr, ring>>
      BY <1>2 DEF vars, kernelVars, fpgaVars
    <2> QED BY <2>1, OthersMove DEF Unreported
  <1> QED BY <1>1, <1>2, OthersSteps, TakeStep, AnswerStep, AskStep DEF Next, Server

LEMMA ServerInvariant == OnDemandOnly => (Spec => [](TableInv /\ ServerInv))
  <1> SUFFICES ASSUME OnDemandOnly PROVE Spec => [](TableInv /\ ServerInv)
    OBVIOUS
  <1>1. Init => TableInv /\ ServerInv
    BY TableInit, ServerInit
  <1>2. TableInv /\ ServerInv /\ [Next]_vars => (TableInv /\ ServerInv)'
    BY TableStep, ServerStep
  <1> QED BY <1>1, <1>2, PTL DEF Spec

(* The page that the FPGA uses is answered with the frame the process has   *)
(* there, although the server reads the table, waits for the monitor and    *)
(* answers in sections between which everybody else runs.                  *)
THEOREM UsedPagesAnswered == OnDemandOnly => (Spec => []UsedPageCurrent)
  <1> SUFFICES ASSUME OnDemandOnly PROVE Spec => []UsedPageCurrent
    OBVIOUS
  <1>1. TableInv /\ ServerInv => UsedPageCurrent
    BY DEF ServerInv
  <1> QED BY <1>1, ServerInvariant, PTL

(* The server never aborts the process of a program that keeps the rules,   *)
(* unless the system refuses to pin a mapped page.                         *)
THEOREM ServerNeverAborts == OnDemandOnly /\ ~MayFail => (Spec => []NoAbort)
  <1> SUFFICES ASSUME OnDemandOnly, ~MayFail PROVE Spec => []NoAbort
    OBVIOUS
  <1>1. TableInv /\ ServerInv => NoAbort
    BY DEF ServerInv, NoFailure, NoAbort
  <1> QED BY <1>1, ServerInvariant, PTL

-----------------------------------------------------------------------------
(***************************************************************************)
(* The pins and the answers.  Whatever the application calls, buffers      *)
(* included, and whatever fails: the pins are balanced and every answer    *)
(* reaches the request it belongs to.  In the situation of OnDemandOnly,   *)
(* where NoStalePin holds: what the FPGA has cached is current and pinned, *)
(* up to the exceptions that CacheExplained names.                         *)
(***************************************************************************)

Making == {"pin", "repin", "inval", "insert"}
Owning == {"inval", "insert", "shoot", "write", "unpin"}

(* What a thread inside libmpf works on.                                   *)
PlaceOK(r) ==
    /\ r.pc \in {"lookup", "answer", "forget", "shoot", "write", "unpin"} \union Making => r.page \in Page
    /\ r.pc \in {"init", "poll", "state"} => r.call \in {"sync", "try"} \/ r.page \in Page
    /\ r.pc \in Owning => r.frame \in Frame

Placed == \A t \in Thread : PlaceOK(thr[t])

(* The page that a thread pins is not in the table until it puts it there. *)
Missing == \A t \in Thread : thr[t].pc \in Making => pt[thr[t].page] = NoEntry

Entered == \A p \in Page : pt[p] = NoEntry \/ (pt[p].frame \in Frame /\ pt[p].ref \in Nat \ {0})

Entries(f) == {p \in Page : pt[p].frame = f}
Holders(f) == {t \in Thread : thr[t].frame = f /\ thr[t].pc \in Owning}

\* The pin that a release leaves when its shootdown fails.
Left(f) == IF leaked = f THEN 1 ELSE 0

Balanced ==
    \A f \in Frame :
        /\ IsFiniteSet(Entries(f)) /\ IsFiniteSet(Holders(f))
        /\ pins[f] = Cardinality(Entries(f)) + Cardinality(Holders(f)) + Left(f)

LeftOnce == leaked # None <=> mutex = Stuck

(* The FPGA waits for at least the answers on their way and the requests in  *)
(* the ring, whether answers were lost or not.                              *)
Enough == Running => Len(reqs) >= AnswersIn(Len(csr)) + Len(ring)

(* The inductive invariant of the pins and the answers.  It needs them both: *)
(* an answer that reached an FPGA without a request would be cached nowhere. *)
Threads == Placed /\ Missing /\ Owner
Service == Busy /\ Serving /\ AnswersMatch /\ Enough
PinInv == TypeOK /\ Threads /\ Entered /\ Counted /\ Balanced /\ LeftOnce /\ Service

-----------------------------------------------------------------------------
(* Counting answers.                                                       *)

Answers(s, k) == {i \in 1 .. k : s[i].kind = "rsp"}

LEMMA AnswersFinite ==
  ASSUME NEW s \in Seq(CsrWrite), NEW k \in 0 .. Len(s)
  PROVE  /\ IsFiniteSet(Answers(s, k)) /\ Cardinality(Answers(s, k)) \in Nat
         /\ Cardinality(Answers(s, k)) <= Cardinality(Answers(s, Len(s)))
  <1>1. IsFiniteSet(1 .. Len(s)) /\ Len(s) \in Nat
    BY FS_Interval
  <1>2. Answers(s, Len(s)) \in SUBSET (1 .. Len(s)) /\ Answers(s, k) \in SUBSET Answers(s, Len(s))
    BY <1>1 DEF Answers
  <1>3. IsFiniteSet(Answers(s, Len(s)))
    BY <1>1, <1>2, FS_Subset
  <1>4. IsFiniteSet(Answers(s, k)) /\ Cardinality(Answers(s, k)) <= Cardinality(Answers(s, Len(s)))
    BY <1>2, <1>3, FS_Subset
  <1> QED BY <1>4, FS_CardinalityType

\* A write at the end does not change the count in front of it.
LEMMA AnswersAppend ==
  ASSUME NEW s \in Seq(CsrWrite), NEW c \in CsrWrite
  PROVE  /\ \A k \in 0 .. Len(s) : Answers(Append(s, c), k) = Answers(s, k)
         /\ Cardinality(Answers(Append(s, c), Len(s) + 1)) =
               Cardinality(Answers(s, Len(s))) + (IF c.kind = "rsp" THEN 1 ELSE 0)
  <1> DEFINE r == Append(s, c)
  <1>1. /\ Len(s) \in Nat /\ Len(r) = Len(s) + 1 /\ r[Len(s) + 1] = c
        /\ \A i \in 1 .. Len(s) : r[i] = s[i]
    OBVIOUS
  <1> HIDE DEF r
  <1>2. \A k \in 0 .. Len(s) : Answers(r, k) = Answers(s, k)
    BY <1>1 DEF Answers
  <1>3. IsFiniteSet(Answers(s, Len(s))) /\ Len(s) + 1 \notin Answers(s, Len(s))
    <2>1. Len(s) \in 0 .. Len(s) /\ Len(s) + 1 \notin 1 .. Len(s)
      BY <1>1
    <2> QED BY <2>1, AnswersFinite DEF Answers
  <1>4. CASE c.kind = "rsp"
    <2>1. Answers(r, Len(s) + 1) = Answers(s, Len(s)) \union {Len(s) + 1}
      BY <1>1, <1>4 DEF Answers
    <2>2. Cardinality(Answers(r, Len(s) + 1)) = Cardinality(Answers(s, Len(s))) + 1
      BY <1>3, <2>1, FS_AddElement
    <2> QED BY <1>2, <1>4, <2>2 DEF r
  <1>5. CASE c.kind # "rsp"
    <2>1. Answers(r, Len(s) + 1) = Answers(s, Len(s))
      BY <1>1, <1>5 DEF Answers
    <2>2. Cardinality(Answers(s, Len(s))) \in Nat
      BY <1>1, AnswersFinite
    <2> QED BY <1>2, <1>5, <2>1, <2>2 DEF r
  <1> QED BY <1>4, <1>5

\* Taking the oldest write away shifts the others.
LEMMA AnswersTail ==
  ASSUME NEW s \in Seq(CsrWrite), s # <<>>, NEW k \in 0 .. Len(s) - 1
  PROVE  Cardinality(Answers(s, k + 1)) =
             Cardinality(Answers(Tail(s), k)) + (IF s[1].kind = "rsp" THEN 1 ELSE 0)
  <1> DEFINE r == Tail(s)
             A == Answers(r, k)
             B == Answers(s, k + 1) \ {1}
             g == [i \in A |-> i + 1]
  <1>1. /\ Len(s) \in Nat \ {0} /\ r \in Seq(CsrWrite) /\ Len(r) = Len(s) - 1 /\ k \in Nat
        /\ \A i \in 1 .. Len(s) - 1 : r[i] = s[i + 1]
    OBVIOUS
  <1> HIDE DEF r
  <1>2. \A i \in A : i \in 1 .. k /\ i + 1 \in B
    BY <1>1 DEF Answers
  <1>3. \A j \in B : j - 1 \in A /\ j = (j - 1) + 1
    BY <1>1 DEF Answers
  <1> HIDE DEF A, B
  <1>4. g \in Bijection(A, B)
    <2>1. g \in [A -> B]
      BY <1>2
    <2>2. \A i, j \in A : g[i] = g[j] => i = j
      BY <1>2
    <2>3. \A j \in B : \E i \in A : g[i] = j
      BY <1>3
    <2> QED BY <2>1, <2>2, <2>3 DEF Bijection, Injection, Surjection, IsInjective
  <1>5. IsFiniteSet(A) /\ Cardinality(A) \in Nat
    BY <1>1, AnswersFinite DEF A
  <1>6. Cardinality(B) = Cardinality(A) /\ IsFiniteSet(B)
    BY <1>4, <1>5, FS_Bijection DEF ExistsBijection
  <1>7. CASE s[1].kind = "rsp"
    <2>1. Answers(s, k + 1) = B \union {1} /\ 1 \notin B
      BY <1>1, <1>7 DEF B, Answers
    <2> QED BY <1>5, <1>6, <1>7, <2>1, FS_AddElement DEF A, r
  <1>8. CASE s[1].kind # "rsp"
    <2>1. Answers(s, k + 1) = B
      BY <1>8 DEF B, Answers
    <2> QED BY <1>5, <1>6, <1>8, <2>1 DEF A, r
  <1> QED BY <1>7, <1>8

LEMMA AnswersInIs == \A k : AnswersIn(k) = Cardinality(Answers(csr, k))
  BY DEF AnswersIn, Answers

-----------------------------------------------------------------------------
(* What a step of a thread does to the parts of the invariant.             *)

LEMMA MutexOwners == /\ Free \notin Thread /\ Mon \notin Thread /\ Mon # Free /\ Srv \in Thread
                     /\ Stuck \notin Thread \union {Mon, Free}
  BY OnDemandAssumption DEF Thread

LEMMA ThreadsMove ==
  ASSUME Threads, NEW t \in Thread, Elsewhere(t), PlaceOK(thr'[t]),
         thr'[t].pc \in Making => pt'[thr'[t].page] = NoEntry,
         thr'[t].pc \in Holding => mutex' = t,
         mon' = mon,
         mutex' = mutex \/ (mutex \in {Free, t} /\ mutex' \in {Free, t, Stuck}),
         pt' = pt \/ mutex \in {Free, t}
  PROVE  Threads'
  <1>1. Placed'
    BY DEF Threads, Placed, Elsewhere
  <1>2. \A u \in Thread : u # t /\ thr'[u].pc \in Holding => mutex = u /\ mutex \notin {Free, t}
    BY MutexOwners DEF Threads, Owner, Elsewhere
  <1>3. Missing'
    <2>1. Making \subseteq Holding
      BY DEF Making, Holding
    <2> QED BY <1>2, <2>1 DEF Threads, Missing, Elsewhere
  <1>4. Owner'
    BY <1>2, MutexOwners DEF Threads, Owner
  <1> QED BY <1>1, <1>3, <1>4 DEF Threads

LEMMA HoldersMove ==
  ASSUME NEW t \in Thread, Elsewhere(t), NEW f
  PROVE  Holders(f)' = IF thr'[t].frame = f /\ thr'[t].pc \in Owning THEN Holders(f) \union {t}
                                                                  ELSE Holders(f) \ {t}
  BY DEF Holders, Elsewhere

\* A step that pins and unpins nothing.
LEMMA BalanceKept ==
  ASSUME Balanced, NEW t \in Thread, Elsewhere(t), pins' = pins, leaked' = leaked,
         \A p \in Page : pt'[p].frame = pt[p].frame,
         \/ thr'[t].pc \notin Owning /\ thr[t].pc \notin Owning
         \/ thr'[t].pc \in Owning /\ thr[t].pc \in Owning /\ thr'[t].frame = thr[t].frame
  PROVE  Balanced'
  <1>1. \A f \in Frame : Entries(f)' = Entries(f)
    BY DEF Entries
  <1>2. \A f \in Frame : Holders(f)' = Holders(f)
    BY DEF Holders, Elsewhere
  <1> QED BY <1>1, <1>2 DEF Balanced, Left

LEMMA InvalKeepsAnswers ==
  ASSUME csr \in Seq(CsrWrite), AnswersMatch, Enough, Running, NEW q \in Page,
         csr' = Append(csr, Inval(q)), UNCHANGED <<ring, reqs, lost>>
  PROVE  AnswersMatch' /\ Enough' /\ csr' \in Seq(CsrWrite)
  <1> DEFINE n == Cardinality(Answers(csr, Len(csr)))
  <1>1. Inval(q) \in CsrWrite /\ Inval(q).kind = "inval"
    BY DEF Inval, CsrWrite
  <1>2. /\ Len(csr) \in Nat /\ Len(csr') = Len(csr) + 1 /\ csr'[Len(csr) + 1] = Inval(q)
        /\ csr' \in Seq(CsrWrite)
        /\ \A i \in 1 .. Len(csr) : csr'[i] = csr[i]
    BY <1>1
  <1>3. \A k \in 0 .. Len(csr) : Answers(csr', k) = Answers(csr, k)
    BY <1>1, AnswersAppend
  <1>4. Cardinality(Answers(csr', Len(csr'))) = n
    <2>1. n \in Nat
      BY <1>2, AnswersFinite
    <2> HIDE DEF n
    <2>2. Cardinality(Answers(csr', Len(csr'))) = n + 0
      BY <1>1, <1>2, AnswersAppend DEF n
    <2> QED BY <2>1, <2>2
  <1>5. /\ Len(reqs) >= n + Len(ring)
        /\ ~lost => /\ Len(reqs) = n + Len(ring)
                    /\ \A i \in 1 .. Len(csr) :
                          csr[i].kind = "rsp" => csr[i].page = reqs[Cardinality(Answers(csr, i))].page
                    /\ \A k \in 1 .. Len(ring) : ring[k] = reqs[n + k]
    BY DEF AnswersMatch, Enough, AnswersIn, Answers
  <1> HIDE DEF n
  <1>6. ASSUME ~lost, NEW i \in 1 .. Len(csr'), csr'[i].kind = "rsp"
        PROVE  csr'[i].page = reqs[Cardinality(Answers(csr', i))].page
    <2>1. i \in 1 .. Len(csr)
      BY <1>1, <1>2, <1>6
    <2>2. Answers(csr', i) = Answers(csr, i) /\ csr'[i] = csr[i]
      BY <1>2, <1>3, <2>1
    <2> QED BY <1>5, <1>6, <2>1, <2>2
  <1>7. Enough'
    BY <1>4, <1>5 DEF Enough, AnswersIn, Answers
  <1>8. AnswersMatch'
    BY <1>4, <1>5, <1>6 DEF AnswersMatch, AnswersIn, Answers
  <1> QED BY <1>2, <1>7, <1>8

\* What the server does is about the oldest request in the ring.
ServeOK(r) ==
    /\ r.pc # "aborted"
    /\ r.pc = "idle" \/ (ring # <<>> /\ r.call = "srv" /\ r.page = Head(ring).page)

LEMMA ServiceKept ==
  ASSUME Service, Running, csr \in Seq(CsrWrite), NEW t \in Thread, Elsewhere(t),
         UNCHANGED <<ring, reqs, lost>>,
         csr' = csr \/ \E q \in Page : csr' = Append(csr, Inval(q)),
         t = Srv => ServeOK(thr'[t])
  PROVE  Service' /\ csr' \in Seq(CsrWrite)
  <1>1. AnswersMatch' /\ Enough' /\ csr' \in Seq(CsrWrite)
    <2>1. CASE csr' = csr
      BY <2>1 DEF Service, AnswersMatch, Enough, AnswersIn
    <2>2. ASSUME NEW q \in Page, csr' = Append(csr, Inval(q))
          PROVE  AnswersMatch' /\ Enough' /\ csr' \in Seq(CsrWrite)
      BY <2>2, InvalKeepsAnswers DEF Service
    <2> QED BY <2>1, <2>2
  <1>2. Busy' /\ Serving'
    <2>1. CASE t = Srv
      BY <2>1, MutexOwners DEF Service, Busy, Serving, ServeOK
    <2>2. CASE t # Srv
      BY <2>2, MutexOwners DEF Service, Busy, Serving, Elsewhere
    <2> QED BY <2>1, <2>2
  <1> QED BY <1>1, <1>2 DEF Service

(* A step of a thread that leaves the kernel and the FPGA alone, but for a   *)
(* shootdown on its way.                                                   *)
LEMMA ThreadStep ==
  ASSUME PinInv, Running, NEW t \in Thread,
         thr' \in [Thread -> Activity], Elsewhere(t), PlaceOK(thr'[t]),
         thr'[t].pc \in Making => pt'[thr'[t].page] = NoEntry,
         thr'[t].pc \in Holding => mutex' = t,
         UNCHANGED <<vm, unmapping, unmaps, events, evtfd, mon, ring, reqs, tlb, lost>>,
         monitor' \in {"null", "opening", "up", "failed"},
         \/ leaked' = leaked /\ (mutex' = mutex \/ (mutex \in {Free, t} /\ mutex' \in {Free, t}))
         \/ leaked' \in Frame /\ mutex = t /\ mutex' = Stuck,
         pt' = pt \/ (mutex \in {Free, t} /\ pt' \in [Page -> Entry] /\ Entered'),
         pins' \in [Frame -> Nat], Balanced', buffers' \in [Page -> Nat],
         synced' \subseteq Page, missed' \subseteq Page,
         csr' = csr \/ \E q \in Page : csr' = Append(csr, Inval(q)),
         t = Srv => ServeOK(thr'[t])
  PROVE  PinInv'
  <1>1. Threads'
    BY ThreadsMove DEF PinInv
  <1>2. Service' /\ csr' \in Seq(CsrWrite)
    BY ServiceKept DEF PinInv, TypeOK
  <1>3. Entered' /\ Counted'
    BY DEF PinInv, Entered, Counted
  <1>4. TypeOK'
    BY <1>2 DEF PinInv, TypeOK
  <1>5. LeftOnce'
    BY MutexOwners, OnDemandAssumption DEF PinInv, LeftOnce
  <1> QED BY <1>1, <1>2, <1>3, <1>4, <1>5 DEF PinInv

LEMMA StillServing ==
  ASSUME PinInv, NEW t \in Thread, thr[t].pc \notin {"idle", "aborted"}, thr'[t].pc # "aborted",
         thr'[t].pc = "idle" \/ (thr'[t].call = thr[t].call /\ thr'[t].page = thr[t].page)
  PROVE  t = Srv => ServeOK(thr'[t])
  BY DEF PinInv, Service, Busy, Serving, ServeOK

LEMMA QuietStep ==
  ASSUME PinInv, Running, NEW t \in Thread,
         thr' \in [Thread -> Activity], Elsewhere(t), PlaceOK(thr'[t]),
         thr'[t].pc \in Making => pt[thr'[t].page] = NoEntry,
         thr'[t].pc \in Holding => mutex' = t,
         UNCHANGED <<vm, unmapping, unmaps, events, evtfd, mon, tableVars, fpgaVars, csr, missed, leaked, lost>>,
         monitor' \in {"null", "opening", "up", "failed"},
         mutex' = mutex \/ (mutex \in {Free, t} /\ mutex' \in {Free, t}),
         thr'[t].pc \notin Owning /\ thr[t].pc \notin Owning,
         synced' \subseteq Page,
         t = Srv => ServeOK(thr'[t])
  PROVE  PinInv'
  <1>1. UNCHANGED <<pt, pins, buffers, ring, reqs, tlb, csr>>
    BY DEF tableVars, fpgaVars
  <1>2. Balanced'
    BY <1>1, BalanceKept DEF PinInv
  <1>3. pins' \in [Frame -> Nat] /\ buffers' \in [Page -> Nat] /\ missed' \subseteq Page
    BY <1>1 DEF PinInv, TypeOK
  <1>4. thr'[t].pc \in Making => pt'[thr'[t].page] = NoEntry
    BY <1>1
  <1> QED BY <1>1, <1>2, <1>3, <1>4, ThreadStep

\* mpfVtpMonitorWaitWhenBusy.
LEMMA PinsWait ==
  ASSUME PinInv, Running, NEW t \in Thread, MonitorInit(t) \/ PollLock(t) \/ PollState(t)
  PROVE  PinInv'
  <1>1. /\ thr \in [Thread -> Activity] /\ thr[t] \in Activity /\ PlaceOK(thr[t])
        /\ monitor \in {"null", "opening", "up", "failed"} /\ synced \subseteq Page
    BY DEF PinInv, TypeOK, Threads, Placed
  <1>2. \A pc \in {"state", "poll", "lookup"} : [thr[t] EXCEPT !.pc = pc] \in Activity
    BY <1>1 DEF Activity
  <1>3. thr[t].pc \in {"init", "poll", "state"}
    BY DEF MonitorInit, PollLock, PollState, At
  <1>4. thr[t].call \in {"sync", "try"} \/ thr[t].page \in Page
    BY <1>1, <1>3 DEF PlaceOK
  <1>5. Goto(t, "state") \/ Goto(t, "poll") \/ PastWait(t)
    BY DEF MonitorInit, PollLock, PollState
  <1>6. /\ thr' \in [Thread -> Activity] /\ Elsewhere(t)
        /\ \/ /\ thr'[t].pc \in {"state", "poll", "lookup"}
              /\ thr'[t].call = thr[t].call /\ thr'[t].page = thr[t].page
              /\ thr'[t].pc = "lookup" => thr[t].call \notin {"sync", "try"}
           \/ thr'[t].pc = "idle"
    <2>1. CASE Goto(t, "state")
      BY <1>1, <1>2, <2>1, GotoMoves
    <2>2. CASE Goto(t, "poll")
      BY <1>1, <1>2, <2>2, GotoMoves
    <2>3. CASE PastWait(t)
      BY <1>1, <1>2, <2>3, GotoMoves, IdleMoves DEF PastWait
    <2> QED BY <1>5, <2>1, <2>2, <2>3
  <1>7. PlaceOK(thr'[t])
    BY <1>4, <1>6 DEF PlaceOK, Making, Owning
  <1>8. thr'[t].pc \notin Making \union Owning /\ thr[t].pc \notin Owning
    BY <1>3, <1>6 DEF Making, Owning
  <1>9. t = Srv => ServeOK(thr'[t])
    BY <1>3, <1>6, StillServing
  <1>10. CASE MonitorInit(t)
    <2>1. thr'[t].pc \notin Holding
      <3>1. Goto(t, "poll") \/ PastWait(t)
        BY <1>10 DEF MonitorInit
      <3>2. CASE Goto(t, "poll")
        BY <1>1, <1>2, <3>2, GotoMoves DEF Holding
      <3>3. CASE PastWait(t)
        BY <1>1, <1>2, <3>3, GotoMoves, IdleMoves DEF PastWait, Holding
      <3> QED BY <3>1, <3>2, <3>3
    <2> QED BY <1>1, <1>6, <1>7, <1>8, <1>9, <1>10, <2>1, QuietStep DEF MonitorInit, kernelVars, historyVars
  <1>11. CASE PollLock(t)
    <2>1. mutex = Free /\ mutex' = t
      BY <1>11 DEF PollLock
    <2> QED BY <1>1, <1>6, <1>7, <1>8, <1>9, <1>11, <2>1, QuietStep DEF PollLock, kernelVars, historyVars
  <1>12. CASE PollState(t)
    <2>1. thr'[t].pc \notin Holding
      <3>1. Goto(t, "poll") \/ PastWait(t)
        BY <1>12 DEF PollState
      <3>2. CASE Goto(t, "poll")
        BY <1>1, <1>2, <3>2, GotoMoves DEF Holding
      <3>3. CASE PastWait(t)
        BY <1>1, <1>2, <3>3, GotoMoves, IdleMoves DEF PastWait, Holding
      <3> QED BY <3>1, <3>2, <3>3
    <2>2. mutex = t /\ mutex' = Free
      BY <1>12 DEF PollState, At, PinInv, Threads, Owner, Holding
    <2>3. synced' \subseteq Page
      BY <1>1, <1>12 DEF PollState
    <2> QED BY <1>1, <1>6, <1>7, <1>8, <1>9, <1>12, <2>1, <2>2, <2>3, QuietStep DEF PollState, kernelVars, historyVars
  <1> QED BY <1>10, <1>11, <1>12

\* The look-up: a page found is the answer, and vtpPinRegion counts another
\* reference to it.
LEMMA PinsLookup ==
  ASSUME PinInv, Running, NEW t \in Thread, LookupHit(t) \/ LookupMiss(t)
  PROVE  PinInv'
  <1>1. /\ thr \in [Thread -> Activity] /\ thr[t] \in Activity /\ thr[t].page \in Page
        /\ thr[t].pc = "lookup" /\ mutex = Free
    BY DEF PinInv, TypeOK, Threads, Placed, PlaceOK, LookupHit, LookupMiss, At
  <1>2. /\ pt \in [Page -> Entry] /\ pins \in [Frame -> Nat] /\ buffers \in [Page -> Nat]
        /\ monitor \in {"null", "opening", "up", "failed"} /\ synced \subseteq Page /\ missed \subseteq Page
    BY DEF PinInv, TypeOK
  <1>3. CASE LookupMiss(t)
    <2>1. [thr[t] EXCEPT !.pc = "pin"] \in Activity
      BY <1>1 DEF Activity
    <2>2. /\ thr' \in [Thread -> Activity] /\ Elsewhere(t) /\ thr'[t].pc = "pin"
          /\ thr'[t].page = thr[t].page /\ thr'[t].call = thr[t].call
      BY <1>1, <1>3, <2>1, GotoMoves DEF LookupMiss
    <2>3. PlaceOK(thr'[t]) /\ thr'[t].pc \notin Owning /\ thr[t].pc \notin Owning
      BY <1>1, <2>2 DEF PlaceOK, Making, Owning
    <2>4. t = Srv => ServeOK(thr'[t])
      BY <1>1, <2>2, StillServing
    <2>5. pt[thr'[t].page] = NoEntry /\ mutex' = t
      BY <1>3, <2>2 DEF LookupMiss
    <2> QED BY <1>1, <1>2, <1>3, <2>2, <2>3, <2>4, <2>5, QuietStep DEF LookupMiss, kernelVars, historyVars
  <1>4. CASE LookupHit(t)
    <2> DEFINE p == thr[t].page
    <2>1. pt[p] # NoEntry /\ pt[p].frame \in Frame /\ pt[p].ref \in Nat \ {0}
      BY <1>1, <1>4 DEF LookupHit, PinInv, Entered
    <2>2. /\ thr' \in [Thread -> Activity] /\ Elsewhere(t)
          /\ t # Srv => thr'[t].pc = "idle"
          /\ t = Srv => /\ thr'[t].pc = "answer" /\ thr'[t].page = p
                        /\ thr'[t].call = thr[t].call
      BY <1>1, <1>4, <2>1, FinishMoves DEF LookupHit
    <2>3. PlaceOK(thr'[t]) /\ thr'[t].pc \notin Holding \union Making \union Owning /\ thr[t].pc \notin Owning
      BY <1>1, <2>2 DEF PlaceOK, Making, Owning, Holding
    <2>4. t = Srv => ServeOK(thr'[t])
      BY <1>1, <2>2, StillServing
    <2>5. /\ pt' \in [Page -> Entry] /\ Entered' /\ \A q \in Page : pt'[q].frame = pt[q].frame
      <3>1. CASE pt' = pt
        BY <1>2, <3>1 DEF PinInv, Entered
      <3>2. CASE pt' = [pt EXCEPT ![p].ref = @ + 1]
        <4>1. pt[p] \in Entry
          BY <1>1, <1>2
        <4>2. pt'[p] = [pt[p] EXCEPT !.ref = @ + 1] /\ \A q \in Page : q # p => pt'[q] = pt[q]
          BY <1>1, <1>2, <3>2
        <4>3. pt'[p] \in Entry /\ pt'[p].frame = pt[p].frame /\ pt'[p].ref \in Nat \ {0}
          BY <2>1, <4>1, <4>2 DEF Entry
        <4> QED BY <1>1, <1>2, <2>1, <3>2, <4>2, <4>3 DEF PinInv, Entered
      <3> QED BY <1>4, <3>1, <3>2 DEF LookupHit
    <2>6. UNCHANGED <<vm, unmapping, unmaps, events, evtfd, monitor, mon, mutex, pins, ring, reqs, tlb, csr, synced, missed, leaked, lost>>
      BY <1>4 DEF LookupHit, kernelVars, fpgaVars, historyVars
    <2>7. Balanced'
      BY <2>2, <2>3, <2>5, <2>6, BalanceKept DEF PinInv
    <2>8. buffers' \in [Page -> Nat]
      BY <1>1, <1>2, <1>4 DEF LookupHit, Tracked
    <2> QED BY <1>1, <1>2, <2>2, <2>3, <2>4, <2>5, <2>6, <2>7, <2>8, ThreadStep
  <1> QED BY <1>3, <1>4

\* A second try, a failure before anything was pinned, and the shootdowns.
LEMMA PinsOnTheWay ==
  ASSUME PinInv, Running, NEW t \in Thread,
         PinRetry(t) \/ PinFail(t) \/ PinInval(t) \/ ReleaseLock(t) \/ ReleaseInval(t)
  PROVE  PinInv'
  <1>1. /\ thr \in [Thread -> Activity] /\ thr[t] \in Activity /\ thr[t].page \in Page
        /\ thr[t].pc \in Making \union {"shoot", "write"}
        /\ thr[t].pc \in Owning => thr[t].frame \in Frame
    BY DEF PinInv, TypeOK, Threads, Placed, PlaceOK, PinRetry, PinFail, PinInval, ReleaseLock,
           ReleaseInval, At, Making
  <1>2. /\ pt \in [Page -> Entry] /\ pins \in [Frame -> Nat] /\ buffers \in [Page -> Nat]
        /\ monitor \in {"null", "opening", "up", "failed"} /\ synced \subseteq Page /\ missed \subseteq Page
    BY DEF PinInv, TypeOK
  <1>3. /\ thr[t].pc \in Making => mutex = t /\ pt[thr[t].page] = NoEntry
        /\ thr[t].pc = "write" => mutex = t
    BY DEF PinInv, Threads, Owner, Missing, Making, Holding
  <1>4. \A pc \in {"repin", "insert", "write", "unpin"} : [thr[t] EXCEPT !.pc = pc] \in Activity
    BY <1>1 DEF Activity
  <1>5. UNCHANGED <<vm, unmapping, unmaps, events, evtfd, monitor, mon, pt, pins, buffers, ring, reqs, tlb,
                    synced, leaked, lost>>
    BY DEF PinRetry, PinFail, PinInval, ReleaseLock, ReleaseInval, kernelVars, tableVars, fpgaVars, historyVars
  <1>6. CASE PinRetry(t)
    <2>1. /\ thr' \in [Thread -> Activity] /\ Elsewhere(t) /\ thr'[t].pc = "repin"
          /\ thr'[t].page = thr[t].page /\ thr'[t].call = thr[t].call /\ thr[t].pc = "pin"
      BY <1>1, <1>4, <1>6, GotoMoves DEF PinRetry, At
    <2>2. /\ PlaceOK(thr'[t]) /\ thr'[t].pc \notin Owning /\ thr[t].pc \notin Owning
          /\ thr[t].pc \in Making
      BY <1>1, <2>1 DEF PlaceOK, Making, Owning
    <2>3. t = Srv => ServeOK(thr'[t])
      BY <2>1, StillServing
    <2> QED BY <1>2, <1>3, <1>5, <1>6, <2>1, <2>2, <2>3, QuietStep DEF PinRetry, tableVars, fpgaVars, historyVars
  <1>7. CASE PinFail(t)
    <2>1. thr[t].pc \in {"pin", "repin"} /\ mutex' = Free
      BY <1>7 DEF PinFail, At
    <2>2. /\ thr' \in [Thread -> Activity] /\ Elsewhere(t)
          /\ t # Srv => thr'[t].pc = "idle"
          /\ t = Srv => /\ thr'[t].pc = "answer" /\ thr'[t].page = thr[t].page
                        /\ thr'[t].call = thr[t].call
      BY <1>1, <1>7, FinishMoves DEF PinFail
    <2>3. /\ PlaceOK(thr'[t]) /\ thr'[t].pc \notin Holding \union Making \union Owning
          /\ thr[t].pc \notin Owning /\ thr[t].pc \in Making
      BY <1>1, <2>1, <2>2 DEF PlaceOK, Making, Owning, Holding
    <2>4. t = Srv => ServeOK(thr'[t])
      BY <2>1, <2>2, StillServing
    <2> QED BY <1>2, <1>3, <1>5, <1>7, <2>1, <2>2, <2>3, <2>4, QuietStep DEF PinFail, tableVars, fpgaVars, historyVars
  <1>8. CASE PinInval(t) \/ ReleaseLock(t) \/ ReleaseInval(t)
    <2>1. \/ thr[t].pc = "inval" /\ Goto(t, "insert") /\ mutex' = mutex
          \/ thr[t].pc = "shoot" /\ Goto(t, "write") /\ mutex = Free /\ mutex' = t
          \/ thr[t].pc = "write" /\ Goto(t, "unpin") /\ mutex = t /\ mutex' = Free
      BY <1>3, <1>8 DEF PinInval, ReleaseLock, ReleaseInval, At
    <2>2. (csr' = csr \/ csr' = Append(csr, Inval(thr[t].page))) /\ missed' \subseteq Page
      BY <1>1, <1>2, <1>8 DEF PinInval, ReleaseLock, ReleaseInval, ShotDown, historyVars
    <2>3. /\ thr' \in [Thread -> Activity] /\ Elsewhere(t)
          /\ \/ thr[t].pc = "inval" /\ thr'[t].pc = "insert"
             \/ thr[t].pc = "shoot" /\ thr'[t].pc = "write"
             \/ thr[t].pc = "write" /\ thr'[t].pc = "unpin"
          /\ thr'[t].page = thr[t].page /\ thr'[t].call = thr[t].call /\ thr'[t].frame = thr[t].frame
      BY <1>1, <1>4, <2>1, GotoMoves
    <2>4. PlaceOK(thr'[t]) /\ thr'[t].pc \in Owning /\ thr[t].pc \in Owning
      BY <1>1, <2>3 DEF PlaceOK, Making, Owning
    <2>5. Balanced'
      BY <1>5, <2>3, <2>4, BalanceKept DEF PinInv
    <2>6. t = Srv => ServeOK(thr'[t])
      BY <2>3, StillServing
    <2>7. thr'[t].pc \in Making => pt'[thr'[t].page] = NoEntry
      BY <1>3, <1>5, <2>3 DEF Making
    <2>8. thr'[t].pc \in Holding => mutex' = t
      BY <1>1, <1>3, <1>4, <2>1, GotoMoves DEF Holding, Making
    <2>9. mutex' = mutex \/ (mutex \in {Free, t} /\ mutex' \in {Free, t})
      BY <2>1
    <2> QED BY <1>1, <1>2, <1>5, <2>2, <2>3, <2>4, <2>5, <2>6, <2>7, <2>8, <2>9, ThreadStep
  <1> QED BY <1>6, <1>7, <1>8

-----------------------------------------------------------------------------
(* The steps that pin, unpin, enter and remove.                            *)

\* The balance of one frame moves; those of the others stay.
LEMMA BalanceMove ==
  ASSUME Balanced, NEW f \in Frame, leaked' = leaked,
         \A g \in Frame : g # f => /\ Entries(g)' = Entries(g) /\ Holders(g)' = Holders(g)
                                   /\ pins'[g] = pins[g],
         IsFiniteSet(Entries(f)'), IsFiniteSet(Holders(f)'),
         pins'[f] = Cardinality(Entries(f)') + Cardinality(Holders(f)') + Left(f)
  PROVE  Balanced'
  BY DEF Balanced, Left

LEMMA BalanceOf ==
  ASSUME Balanced, NEW f \in Frame
  PROVE  /\ IsFiniteSet(Entries(f)) /\ Cardinality(Entries(f)) \in Nat
         /\ IsFiniteSet(Holders(f)) /\ Cardinality(Holders(f)) \in Nat
         /\ pins[f] = Cardinality(Entries(f)) + Cardinality(Holders(f)) + Left(f) /\ Left(f) \in {0, 1}
         /\ \A t \in Holders(f) : Cardinality(Holders(f)) # 0
         /\ \A p \in Entries(f) : Cardinality(Entries(f)) # 0
  <1>1. Left(f) \in {0, 1}
    BY DEF Left
  <1> QED BY <1>1, FS_CardinalityType, FS_EmptySet DEF Balanced

\* fpgaPrepareBuffer.
LEMMA PinsPin ==
  ASSUME PinInv, Running, NEW t \in Thread, PinPage(t)
  PROVE  PinInv'
  <1>1. /\ thr \in [Thread -> Activity] /\ thr[t] \in Activity /\ thr[t].page \in Page
        /\ thr[t].pc \in {"pin", "repin"} /\ thr[t].pc \in Making /\ thr[t].pc \notin Owning
        /\ mutex = t /\ pt[thr[t].page] = NoEntry
    BY DEF PinInv, TypeOK, Threads, Placed, PlaceOK, PinPage, Owner, Missing, Making, Holding, Owning
  <1>2. /\ pt \in [Page -> Entry] /\ pins \in [Frame -> Nat] /\ buffers \in [Page -> Nat]
        /\ monitor \in {"null", "opening", "up", "failed"} /\ synced \subseteq Page /\ missed \subseteq Page
        /\ vm \in [Page -> Frame \union {None}]
    BY DEF PinInv, TypeOK
  <1>3. PICK f \in Frame : f = vm[thr[t].page]
    BY <1>1, <1>2 DEF PinPage
  <1>4. /\ pins' = [pins EXCEPT ![f] = @ + 1]
        /\ thr' = [thr EXCEPT ![t].pc = "inval", ![t].frame = f]
        /\ UNCHANGED <<vm, unmapping, unmaps, events, evtfd, monitor, mon, mutex, pt, buffers, ring,
                       reqs, tlb, csr, synced, missed, leaked, lost>>
    BY <1>3 DEF PinPage, kernelVars, fpgaVars, historyVars
  <1>5. /\ thr'[t] \in Activity /\ thr'[t].pc = "inval" /\ thr'[t].frame = f
        /\ thr'[t].page = thr[t].page /\ thr'[t].call = thr[t].call
    BY <1>1, <1>4 DEF Activity
  <1>6. thr' \in [Thread -> Activity] /\ Elsewhere(t)
    BY <1>1, <1>4, <1>5 DEF Elsewhere
  <1>7. PlaceOK(thr'[t]) /\ thr'[t].pc \in Owning
    BY <1>1, <1>5 DEF PlaceOK, Making, Owning
  <1>8. Balanced'
    <2>1. \A g \in Frame : Entries(g)' = Entries(g)
      BY <1>4 DEF Entries
    <2>2. \A g \in Frame : Holders(g)' = IF g = f THEN Holders(g) \union {t} ELSE Holders(g)
      BY <1>1, <1>5, <1>6, <1>7, HoldersMove DEF Holders
    <2>3. t \notin Holders(f)
      BY <1>1 DEF Holders
    <2>4. IsFiniteSet(Holders(f)') /\ Cardinality(Holders(f)') = Cardinality(Holders(f)) + 1
      BY <2>2, <2>3, BalanceOf, FS_AddElement DEF PinInv
    <2>5. pins'[f] = pins[f] + 1 /\ \A g \in Frame : g # f => pins'[g] = pins[g]
      BY <1>2, <1>4
    <2>6. pins'[f] = Cardinality(Entries(f)') + Cardinality(Holders(f)') + Left(f) /\ IsFiniteSet(Entries(f)')
      <3>1. Entries(f)' = Entries(f)
        BY <2>1
      <3> QED BY <2>4, <2>5, <3>1, BalanceOf DEF PinInv
    <2> QED BY <1>4, <2>1, <2>2, <2>4, <2>5, <2>6, BalanceMove DEF PinInv
  <1>9. t = Srv => ServeOK(thr'[t])
    BY <1>1, <1>5, StillServing
  <1>10. pins' \in [Frame -> Nat]
    BY <1>2, <1>4
  <1> QED BY <1>1, <1>2, <1>4, <1>5, <1>6, <1>7, <1>8, <1>9, <1>10, ThreadStep

\* mpfVtpPtInsertPageMapping.
LEMMA PinsInsert ==
  ASSUME PinInv, Running, NEW t \in Thread, PinInsert(t)
  PROVE  PinInv'
  <1>1. /\ thr \in [Thread -> Activity] /\ thr[t] \in Activity
        /\ thr[t].pc = "insert" /\ mutex = t /\ pt[thr[t].page] = NoEntry
    BY DEF PinInv, TypeOK, Threads, PinInsert, At, Owner, Missing, Making, Holding
  <1>2. /\ pt \in [Page -> Entry] /\ pins \in [Frame -> Nat] /\ buffers \in [Page -> Nat]
        /\ monitor \in {"null", "opening", "up", "failed"} /\ synced \subseteq Page /\ missed \subseteq Page
    BY DEF PinInv, TypeOK
  <1>3. PICK p \in Page, f \in Frame : p = thr[t].page /\ f = thr[t].frame
    BY <1>1 DEF PinInv, Threads, Placed, PlaceOK, Making, Owning
  <1>4. /\ pt' = [pt EXCEPT ![p] = [frame |-> f, ref |-> 1]] /\ mutex' = Free /\ Finish(t, f)
        /\ UNCHANGED <<vm, unmapping, unmaps, events, evtfd, monitor, mon, pins, ring,
                       reqs, tlb, csr, synced, missed, leaked, lost>>
    BY <1>3 DEF PinInsert, kernelVars, fpgaVars, historyVars
  <1>5. /\ thr' \in [Thread -> Activity] /\ Elsewhere(t)
        /\ t # Srv => thr'[t].pc = "idle"
        /\ t = Srv => thr'[t].pc = "answer" /\ thr'[t].page = p /\ thr'[t].call = thr[t].call
    BY <1>1, <1>3, <1>4, FinishMoves
  <1>6. PlaceOK(thr'[t]) /\ thr'[t].pc \notin Holding \union Making \union Owning /\ thr[t].pc \in Owning
    BY <1>1, <1>5 DEF PlaceOK, Making, Owning, Holding
  <1>7. /\ pt' \in [Page -> Entry] /\ pt'[p].frame = f /\ pt'[p].ref = 1
        /\ \A q \in Page : q # p => pt'[q] = pt[q]
    <2>1. [frame |-> f, ref |-> 1] \in Entry
      BY DEF Entry
    <2> QED BY <1>2, <1>4, <2>1
  <1>8. Entered'
    BY <1>7 DEF PinInv, Entered
  <1>9. pt[p].frame = None /\ \A g \in Frame : g # None
    BY <1>1, <1>3, OnDemandAssumption DEF NoEntry
  <1>10. Balanced'
    <2>1. \A g \in Frame : Entries(g)' = IF g = f THEN Entries(g) \union {p} ELSE Entries(g)
      BY <1>7, <1>9 DEF Entries
    <2>2. \A g \in Frame : Holders(g)' = Holders(g) \ {t}
      BY <1>5, <1>6, HoldersMove
    <2>3. t \in Holders(f) /\ p \notin Entries(f) /\ \A g \in Frame : g # f => t \notin Holders(g)
      BY <1>3, <1>6, <1>9 DEF Holders, Entries
    <2>4. IsFiniteSet(Holders(f)') /\ Cardinality(Holders(f)') = Cardinality(Holders(f)) - 1
      BY <2>2, <2>3, BalanceOf, FS_RemoveElement DEF PinInv
    <2>5. IsFiniteSet(Entries(f)') /\ Cardinality(Entries(f)') = Cardinality(Entries(f)) + 1
      BY <2>1, <2>3, BalanceOf, FS_AddElement DEF PinInv
    <2>6. pins'[f] = Cardinality(Entries(f)') + Cardinality(Holders(f)') + Left(f)
      BY <1>4, <2>4, <2>5, BalanceOf DEF PinInv
    <2>7. \A g \in Frame : g # f => /\ Entries(g)' = Entries(g) /\ Holders(g)' = Holders(g)
                                    /\ pins'[g] = pins[g]
      BY <1>4, <2>1, <2>2, <2>3
    <2> QED BY <1>4, <2>4, <2>5, <2>6, <2>7, BalanceMove DEF PinInv
  <1>11. t = Srv => ServeOK(thr'[t])
    BY <1>1, <1>3, <1>5, StillServing
  <1>12. buffers' \in [Page -> Nat]
    BY <1>2, <1>3 DEF PinInsert, Tracked
  <1> QED BY <1>1, <1>2, <1>4, <1>5, <1>6, <1>7, <1>8, <1>10, <1>11, <1>12, ThreadStep

\* The error path after pinning, and the last section of mpfVtpReleaseBuffer.
LEMMA PinsUnpin ==
  ASSUME PinInv, Running, NEW t \in Thread, PinUndo(t) \/ ReleasePin(t)
  PROVE  PinInv'
  <1>1. /\ thr \in [Thread -> Activity] /\ thr[t] \in Activity
        /\ thr[t].pc \in {"inval", "insert", "unpin"} /\ (thr[t].pc # "unpin" => mutex = t)
    BY DEF PinInv, TypeOK, Threads, PinUndo, Undoing, ReleasePin, At, Owner, Holding
  <1>2. /\ pt \in [Page -> Entry] /\ pins \in [Frame -> Nat] /\ buffers \in [Page -> Nat]
        /\ monitor \in {"null", "opening", "up", "failed"} /\ synced \subseteq Page /\ missed \subseteq Page
    BY DEF PinInv, TypeOK
  <1>3. PICK p \in Page, f \in Frame : p = thr[t].page /\ f = thr[t].frame
    BY <1>1 DEF PinInv, Threads, Placed, PlaceOK, Making, Owning
  <1>4. /\ pins' = [pins EXCEPT ![f] = @ - 1]
        /\ Finish(t, None) \/ Return(t)
        /\ mutex' = mutex \/ (mutex = t /\ mutex' = Free)
        /\ UNCHANGED <<vm, unmapping, unmaps, events, evtfd, monitor, mon, pt, buffers, ring,
                       reqs, tlb, csr, synced, missed, leaked, lost>>
    BY <1>1, <1>3 DEF PinUndo, Undoing, ReleasePin, At, kernelVars, fpgaVars, historyVars
  <1>5. /\ thr' \in [Thread -> Activity] /\ Elsewhere(t)
        /\ \/ thr'[t].pc = "idle"
           \/ thr'[t].pc = "answer" /\ thr'[t].page = p /\ thr'[t].call = thr[t].call
    BY <1>1, <1>3, <1>4, FinishMoves, IdleMoves
  <1>6. PlaceOK(thr'[t]) /\ thr'[t].pc \notin Holding \union Making \union Owning /\ thr[t].pc \in Owning
    BY <1>1, <1>5 DEF PlaceOK, Making, Owning, Holding
  <1>7. t \in Holders(f) /\ \A g \in Frame : g # f => t \notin Holders(g)
    BY <1>3, <1>6 DEF Holders
  <1>8. /\ IsFiniteSet(Entries(f)) /\ Cardinality(Entries(f)) \in Nat
        /\ IsFiniteSet(Holders(f)) /\ Cardinality(Holders(f)) \in Nat \ {0}
        /\ pins[f] = Cardinality(Entries(f)) + Cardinality(Holders(f)) + Left(f) /\ Left(f) \in {0, 1}
    BY <1>7, BalanceOf DEF PinInv
  <1>9. pins' \in [Frame -> Nat] /\ pins'[f] = pins[f] - 1 /\ \A g \in Frame : g # f => pins'[g] = pins[g]
    <2>1. pins[f] - 1 \in Nat
      BY <1>8
    <2> QED BY <1>2, <1>4, <2>1
  <1>10. Balanced'
    <2>1. \A g \in Frame : Entries(g)' = Entries(g)
      BY <1>4 DEF Entries
    <2>2. \A g \in Frame : Holders(g)' = Holders(g) \ {t}
      BY <1>5, <1>6, HoldersMove
    <2>3. IsFiniteSet(Holders(f)') /\ Cardinality(Holders(f)') = Cardinality(Holders(f)) - 1
      BY <1>7, <1>8, <2>2, FS_RemoveElement
    <2>4. Entries(f)' = Entries(f)
      BY <2>1
    <2>5. IsFiniteSet(Entries(f)') /\ pins'[f] = Cardinality(Entries(f)') + Cardinality(Holders(f)') + Left(f)
      BY <1>8, <1>9, <2>3, <2>4
    <2>6. \A g \in Frame : g # f => /\ Entries(g)' = Entries(g) /\ Holders(g)' = Holders(g)
                                    /\ pins'[g] = pins[g]
      BY <1>7, <1>9, <2>1, <2>2
    <2> QED BY <1>4, <2>3, <2>5, <2>6, BalanceMove DEF PinInv
  <1>11. t = Srv => ServeOK(thr'[t])
    BY <1>1, <1>3, <1>5, StillServing
  <1> QED BY <1>1, <1>2, <1>4, <1>5, <1>6, <1>9, <1>10, <1>11, ThreadStep

\* A release whose shootdown fails leaves its pin, and the mutex, behind.
LEMMA PinsLeft ==
  ASSUME PinInv, Running, NEW t \in Thread, ReleaseInvalFails(t)
  PROVE  PinInv'
  <1>1. /\ thr \in [Thread -> Activity] /\ thr[t].pc = "write" /\ mutex = t
        /\ thr[t].page \in Page /\ thr[t].frame \in Frame
    BY DEF PinInv, TypeOK, Threads, Placed, PlaceOK, Owner, Holding, Owning, ReleaseInvalFails, At
  <1>2. /\ pt \in [Page -> Entry] /\ pins \in [Frame -> Nat] /\ buffers \in [Page -> Nat]
        /\ monitor \in {"null", "opening", "up", "failed"} /\ synced \subseteq Page /\ missed \subseteq Page
    BY DEF PinInv, TypeOK
  <1>3. PICK f \in Frame : f = thr[t].frame
    BY <1>1
  <1>4. /\ missed' = missed \union {thr[t].page} /\ mutex' = Stuck /\ leaked' = f /\ Return(t)
        /\ UNCHANGED <<vm, unmapping, unmaps, events, evtfd, monitor, mon, pt, pins, buffers, ring,
                       reqs, tlb, csr, synced, lost>>
    BY <1>3 DEF ReleaseInvalFails, NotShotDown, kernelVars, tableVars, fpgaVars
  <1>5. thr' \in [Thread -> Activity] /\ Elsewhere(t) /\ thr'[t].pc = "idle"
    BY <1>1, <1>4, IdleMoves
  <1>6. PlaceOK(thr'[t]) /\ thr'[t].pc \notin Holding \union Making \union Owning
    BY <1>5 DEF PlaceOK, Making, Owning, Holding
  <1>7. leaked = None /\ \A g \in Frame : g # None
    BY <1>1, MutexOwners, OnDemandAssumption DEF PinInv, LeftOnce
  <1>8. Balanced'
    <2>1. t \in Holders(f) /\ \A g \in Frame : g # f => t \notin Holders(g)
      BY <1>1, <1>3 DEF Holders, Owning
    <2>2. \A g \in Frame : Entries(g)' = Entries(g) /\ Holders(g)' = Holders(g) \ {t}
      BY <1>4, <1>5, <1>6, HoldersMove DEF Entries
    <2>3. Left(f) = 0 /\ Left(f)' = 1 /\ \A g \in Frame : g # f => Left(g) = 0 /\ Left(g)' = 0
      BY <1>4, <1>7 DEF Left
    <2>4. /\ IsFiniteSet(Holders(f)')
          /\ Cardinality(Holders(f)') = Cardinality(Holders(f)) - 1
      BY <2>1, <2>2, BalanceOf, FS_RemoveElement DEF PinInv
    <2>5. /\ IsFiniteSet(Entries(f)') /\ Cardinality(Entries(f)') = Cardinality(Entries(f))
          /\ pins'[f] = pins[f]
      BY <1>4, <2>2, BalanceOf DEF PinInv
    <2>6. pins'[f] = Cardinality(Entries(f)') + Cardinality(Holders(f)') + Left(f)'
      BY <2>3, <2>4, <2>5, BalanceOf DEF PinInv
    <2>7. ASSUME NEW g \in Frame, g # f
          PROVE  /\ IsFiniteSet(Entries(g)') /\ IsFiniteSet(Holders(g)')
                 /\ pins'[g] = Cardinality(Entries(g)') + Cardinality(Holders(g)') + Left(g)'
      <3>1. Entries(g)' = Entries(g) /\ Holders(g)' = Holders(g) /\ Left(g)' = Left(g) /\ pins'[g] = pins[g]
        BY <1>4, <2>1, <2>2, <2>3, <2>7
      <3> QED BY <3>1, <2>7 DEF PinInv, Balanced
    <2> QED BY <2>4, <2>5, <2>6, <2>7 DEF Balanced
  <1>9. t = Srv => ServeOK(thr'[t])
    BY <1>5 DEF ServeOK
  <1>10. missed' \subseteq Page
    BY <1>1, <1>2, <1>4
  <1> QED BY <1>1, <1>2, <1>4, <1>5, <1>6, <1>8, <1>9, <1>10, ThreadStep

\* mpfVtpPtRemovePageMapping.
LEMMA PinsForget ==
  ASSUME PinInv, Running, NEW t \in Thread, ReleaseEntry(t)
  PROVE  PinInv'
  <1>1. /\ thr \in [Thread -> Activity] /\ thr[t] \in Activity
        /\ thr[t].pc = "forget" /\ mutex = Free
    BY DEF PinInv, TypeOK, ReleaseEntry, At
  <1>2. /\ pt \in [Page -> Entry] /\ pins \in [Frame -> Nat] /\ buffers \in [Page -> Nat]
        /\ monitor \in {"null", "opening", "up", "failed"} /\ synced \subseteq Page /\ missed \subseteq Page
    BY DEF PinInv, TypeOK
  <1>3. PICK p \in Page : p = thr[t].page
    BY <1>1 DEF PinInv, Threads, Placed, PlaceOK
  <1>4. UNCHANGED <<vm, unmapping, unmaps, events, evtfd, monitor, mon, mutex, pins, buffers, ring,
                    reqs, tlb, csr, synced, missed, leaked, lost>>
    BY DEF ReleaseEntry, kernelVars, fpgaVars, historyVars
  <1>5. pt[p] \in Entry /\ (pt[p] = NoEntry \/ (pt[p].frame \in Frame /\ pt[p].ref \in Nat \ {0}))
    BY <1>2 DEF PinInv, Entered
  <1>6. NoEntry \in Entry /\ NoEntry.ref = 0 /\ NoEntry.frame = None /\ \A g \in Frame : g # None
    BY OnDemandAssumption DEF NoEntry, Entry
  <1>7. CASE pt[p].ref = 1
    <2>1. PICK f \in Frame : f = pt[p].frame
      BY <1>5, <1>6, <1>7
    <2>2. /\ pt' = [pt EXCEPT ![p] = NoEntry]
          /\ thr' = [thr EXCEPT ![t].pc = "shoot", ![t].frame = f]
      BY <1>3, <1>7, <2>1 DEF ReleaseEntry
    <2>3. /\ thr'[t] \in Activity /\ thr'[t].pc = "shoot" /\ thr'[t].frame = f
          /\ thr'[t].page = p /\ thr'[t].call = thr[t].call
      BY <1>1, <1>3, <2>2 DEF Activity
    <2>4. thr' \in [Thread -> Activity] /\ Elsewhere(t)
      BY <1>1, <2>2, <2>3 DEF Elsewhere
    <2>5. /\ PlaceOK(thr'[t]) /\ thr'[t].pc \in Owning /\ thr[t].pc \notin Owning
          /\ thr'[t].pc \notin Making \union Holding
      BY <1>1, <2>3 DEF PlaceOK, Making, Owning, Holding
    <2>6. /\ pt' \in [Page -> Entry] /\ pt'[p] = NoEntry /\ \A q \in Page : q # p => pt'[q] = pt[q]
      BY <1>2, <1>6, <2>2
    <2>7. Entered'
      BY <2>6 DEF PinInv, Entered
    <2>8. \A g \in Frame : Entries(g)' = Entries(g) \ {p}
      BY <1>6, <2>6 DEF Entries
    <2>9. \A g \in Frame : Holders(g)' = IF g = f THEN Holders(g) \union {t} ELSE Holders(g)
      BY <1>1, <2>3, <2>4, <2>5, HoldersMove DEF Holders
    <2>10. t \notin Holders(f) /\ p \in Entries(f) /\ \A g \in Frame : g # f => p \notin Entries(g)
      BY <2>1, <2>5 DEF Holders, Entries
    <2>11. IsFiniteSet(Holders(f)') /\ Cardinality(Holders(f)') = Cardinality(Holders(f)) + 1
      BY <2>9, <2>10, BalanceOf, FS_AddElement DEF PinInv
    <2>12. IsFiniteSet(Entries(f)') /\ Cardinality(Entries(f)') = Cardinality(Entries(f)) - 1
      BY <2>8, <2>10, BalanceOf, FS_RemoveElement DEF PinInv
    <2>13. pins'[f] = Cardinality(Entries(f)') + Cardinality(Holders(f)') + Left(f)
      BY <1>4, <2>11, <2>12, BalanceOf DEF PinInv
    <2>14. \A g \in Frame : g # f => /\ Entries(g)' = Entries(g) /\ Holders(g)' = Holders(g)
                                     /\ pins'[g] = pins[g]
      BY <1>4, <2>8, <2>9, <2>10
    <2>15. Balanced'
      BY <1>4, <2>11, <2>12, <2>13, <2>14, BalanceMove DEF PinInv
    <2>16. t = Srv => ServeOK(thr'[t])
      BY <1>1, <1>3, <2>3, StillServing
    <2> QED BY <1>1, <1>2, <1>4, <2>4, <2>5, <2>6, <2>7, <2>15, <2>16, ThreadStep
  <1>8. CASE pt[p].ref # 1
    <2>1. Return(t) /\ pt' = [pt EXCEPT ![p].ref = IF @ > 1 THEN @ - 1 ELSE 0]
      BY <1>3, <1>8 DEF ReleaseEntry
    <2>2. thr' \in [Thread -> Activity] /\ Elsewhere(t) /\ thr'[t].pc = "idle"
      BY <1>1, <2>1, IdleMoves
    <2>3. /\ PlaceOK(thr'[t]) /\ thr[t].pc \notin Owning
          /\ thr'[t].pc \notin Making \union Holding \union Owning
      BY <1>1, <2>2 DEF PlaceOK, Making, Owning, Holding
    <2>4. /\ pt' \in [Page -> Entry] /\ pt'[p].frame = pt[p].frame
          /\ pt'[p] = NoEntry \/ (pt'[p].frame \in Frame /\ pt'[p].ref \in Nat \ {0})
          /\ \A q \in Page : q # p => pt'[q] = pt[q]
      <3>1. CASE pt[p] = NoEntry
        <4>1. [NoEntry EXCEPT !.ref = 0] = NoEntry
          BY DEF NoEntry
        <4>2. pt' = [pt EXCEPT ![p] = NoEntry]
          <5>1. pt'[p] = [NoEntry EXCEPT !.ref = 0] /\ \A q \in Page : q # p => pt'[q] = pt[q]
            BY <1>2, <1>6, <2>1, <3>1
          <5> QED BY <1>2, <2>1, <4>1, <5>1
        <4> QED BY <1>2, <1>6, <3>1, <4>2
      <3>2. CASE pt[p] # NoEntry
        <4>1. pt[p].ref > 1 /\ pt[p].ref \in Nat /\ pt[p].frame \in Frame
          BY <1>5, <1>8, <3>2
        <4>2. pt'[p] = [pt[p] EXCEPT !.ref = @ - 1] /\ \A q \in Page : q # p => pt'[q] = pt[q]
          BY <1>2, <2>1, <4>1
        <4>3. pt'[p] \in Entry /\ pt'[p].frame = pt[p].frame /\ pt'[p].ref = pt[p].ref - 1
          BY <1>5, <4>1, <4>2 DEF Entry
        <4> QED BY <1>2, <2>1, <4>1, <4>2, <4>3
      <3> QED BY <3>1, <3>2
    <2>5. Entered'
      BY <2>4 DEF PinInv, Entered
    <2>6. Balanced'
      BY <1>4, <2>2, <2>3, <2>4, BalanceKept DEF PinInv
    <2>7. t = Srv => ServeOK(thr'[t])
      BY <2>2 DEF ServeOK
    <2> QED BY <1>1, <1>2, <1>4, <2>2, <2>3, <2>4, <2>5, <2>6, <2>7, ThreadStep
  <1> QED BY <1>7, <1>8

-----------------------------------------------------------------------------
(* Calls.                                                                  *)

LEMMA BeginMoves ==
  ASSUME thr \in [Thread -> Activity], NEW t \in Thread,
         NEW pc \in {"init", "poll", "lookup", "forget"},
         NEW call \in {"srv", "get", "sync", "try", "prepare", "release"},
         NEW p, p \in Page \/ (p = None /\ pc \in {"init", "poll"} /\ call \in {"sync", "try"}),
         thr' = [thr EXCEPT ![t] = Doing(pc, call, p)]
  PROVE  /\ thr' \in [Thread -> Activity] /\ Elsewhere(t) /\ PlaceOK(thr'[t])
         /\ thr'[t].pc = pc /\ thr'[t].call = call /\ thr'[t].page = p
         /\ thr'[t].pc \notin Holding \union Making \union Owning
  <1>1. Doing(pc, call, p) \in Activity
    BY DEF Doing, Activity
  <1>2. thr'[t] = Doing(pc, call, p)
    OBVIOUS
  <1>3. thr'[t].pc = pc /\ thr'[t].call = call /\ thr'[t].page = p
    BY <1>2 DEF Doing
  <1>4. thr'[t].pc \notin Holding \union Making \union Owning
    BY <1>3 DEF Holding, Making, Owning
  <1>5. PlaceOK(thr'[t])
    BY <1>3 DEF PlaceOK, Making, Owning
  <1> QED BY <1>1, <1>3, <1>4, <1>5 DEF Elsewhere

LEMMA PinsBegin ==
  ASSUME PinInv, Running, NEW t \in Thread, thr[t].pc = "idle",
         NEW call \in {"srv", "get", "sync", "try"}, NEW p \in Page \union {None},
         p \in Page \/ call \in {"sync", "try"}, Wait(t, call, p),
         t = Srv => ring # <<>> /\ call = "srv" /\ p = Head(ring).page,
         UNCHANGED <<kernelVars, mon, mutex, tableVars, fpgaVars, csr, historyVars>>
  PROVE  PinInv'
  <1>1. /\ thr \in [Thread -> Activity] /\ synced \subseteq Page
        /\ monitor \in {"null", "opening", "up", "failed"}
    BY DEF PinInv, TypeOK
  <1>2. /\ monitor' \in {"null", "opening", "up", "failed"}
        /\ \/ Return(t) /\ call \in {"sync", "try"}
           \/ \E pc \in {"init", "poll"} : thr' = [thr EXCEPT ![t] = Doing(pc, call, p)]
           \/ call \notin {"sync", "try"} /\ thr' = [thr EXCEPT ![t] = Doing("lookup", call, p)]
    BY <1>1 DEF Wait
  <1>3. CASE Return(t) /\ call \in {"sync", "try"}
    <2>1. thr' \in [Thread -> Activity] /\ Elsewhere(t) /\ thr'[t].pc = "idle"
      BY <1>1, <1>3, IdleMoves
    <2>2. /\ PlaceOK(thr'[t]) /\ thr'[t].pc \notin Making \union Owning \union Holding
          /\ thr[t].pc \notin Owning
      BY <2>1 DEF PlaceOK, Making, Owning, Holding
    <2>3. t # Srv
      BY <1>3
    <2> QED BY <1>1, <1>2, <2>1, <2>2, <2>3, QuietStep DEF kernelVars, historyVars
  <1>4. ASSUME NEW pc \in {"init", "poll", "lookup"}, p \in Page \/ pc \in {"init", "poll"},
               thr' = [thr EXCEPT ![t] = Doing(pc, call, p)]
        PROVE  PinInv'
    <2>1. /\ thr' \in [Thread -> Activity] /\ Elsewhere(t) /\ PlaceOK(thr'[t])
          /\ thr'[t].pc = pc /\ thr'[t].call = call /\ thr'[t].page = p
          /\ thr'[t].pc \notin Holding \union Making \union Owning
      <3>1. thr'[t] = Doing(pc, call, p) /\ \A u \in Thread : u # t => thr'[u] = thr[u]
        BY <1>1, <1>4
      <3>2. thr'[t].pc = pc /\ thr'[t].call = call /\ thr'[t].page = p
        BY <3>1 DEF Doing
      <3>3. thr'[t].pc \notin Holding \union Making \union Owning
        BY <1>4, <3>2 DEF Holding, Making, Owning
      <3>4. PlaceOK(thr'[t])
        BY <1>4, <3>2 DEF PlaceOK, Making, Owning
      <3>5. Doing(pc, call, p) \in Activity
        BY <1>4 DEF Doing, Activity
      <3>6. thr' \in [Thread -> Activity] /\ Elsewhere(t)
        BY <1>1, <1>4, <3>1, <3>5 DEF Elsewhere
      <3> QED BY <3>2, <3>3, <3>4, <3>6
    <2>2. t = Srv => ServeOK(thr'[t])
      BY <2>1 DEF ServeOK
    <2>3. thr[t].pc \notin Owning
      BY DEF Owning
    <2> QED BY <1>1, <1>2, <2>1, <2>2, <2>3, QuietStep DEF kernelVars, historyVars
  <1>5. p \in Page \/ call \in {"sync", "try"}
    OBVIOUS
  <1> QED BY <1>2, <1>3, <1>4, <1>5

LEMMA PinsCalls ==
  ASSUME PinInv, Running,
         \/ \E a \in App, p \in Page : CallGet(a, p) \/ CallPrepare(a, p) \/ CallRelease(a, p)
         \/ \E a \in App, call \in {"sync", "try"} : CallSync(a, call)
         \/ SrvTake
  PROVE  PinInv'
  <1>1. /\ thr \in [Thread -> Activity] /\ ring \in Seq(Req) /\ \A a \in App : a \in Thread /\ a # Srv
        /\ pt \in [Page -> Entry] /\ pins \in [Frame -> Nat] /\ buffers \in [Page -> Nat]
        /\ monitor \in {"null", "opening", "up", "failed"} /\ synced \subseteq Page /\ missed \subseteq Page
    BY OnDemandAssumption DEF PinInv, TypeOK, Thread
  <1>2. ASSUME NEW a \in App, NEW p \in Page, CallGet(a, p)
        PROVE  PinInv'
    BY <1>1, <1>2, PinsBegin DEF CallGet, At
  <1>3. ASSUME NEW a \in App, NEW call \in {"sync", "try"}, CallSync(a, call)
        PROVE  PinInv'
    BY <1>1, <1>3, PinsBegin DEF CallSync, At
  <1>4. CASE SrvTake
    <2>1. Head(ring) \in Req /\ ring # <<>>
      BY <1>1, <1>4 DEF SrvTake
    <2>2. Head(ring).page \in Page
      BY <2>1 DEF Req
    <2> QED BY <1>4, <2>1, <2>2, MutexOwners, PinsBegin DEF SrvTake, At
  <1>5. ASSUME NEW a \in App, NEW p \in Page, CallPrepare(a, p)
        PROVE  PinInv'
    <2>1. thr' = [thr EXCEPT ![a] = Doing("lookup", "prepare", p)] /\ thr[a].pc = "idle"
      BY <1>5 DEF CallPrepare, At
    <2>2. /\ thr' \in [Thread -> Activity] /\ Elsewhere(a) /\ PlaceOK(thr'[a])
          /\ thr'[a].pc \notin Holding \union Making \union Owning
      BY <1>1, <2>1, BeginMoves
    <2>3. thr[a].pc \notin Owning
      BY <2>1 DEF Owning
    <2> QED BY <1>1, <1>5, <2>2, <2>3, QuietStep DEF CallPrepare, kernelVars, historyVars
  <1>6. ASSUME NEW a \in App, NEW p \in Page, CallRelease(a, p)
        PROVE  PinInv'
    <2>1. /\ thr' = [thr EXCEPT ![a] = Doing("forget", "release", p)] /\ thr[a].pc = "idle"
          /\ buffers[p] > 0 /\ buffers' = [buffers EXCEPT ![p] = @ - 1]
      BY <1>6 DEF CallRelease, At
    <2>2. /\ thr' \in [Thread -> Activity] /\ Elsewhere(a) /\ PlaceOK(thr'[a])
          /\ thr'[a].pc \notin Holding \union Making \union Owning
      BY <1>1, <2>1, BeginMoves
    <2>3. thr[a].pc \notin Owning
      BY <2>1 DEF Owning
    <2>4. UNCHANGED <<vm, unmapping, unmaps, events, evtfd, monitor, mon, mutex, pt, pins, ring, reqs, tlb,
                      csr, synced, missed, leaked, lost>>
      BY <1>6 DEF CallRelease, kernelVars, fpgaVars, historyVars
    <2>5. buffers' \in [Page -> Nat]
      BY <1>1, <2>1
    <2>6. Balanced'
      BY <1>1, <2>2, <2>3, <2>4, BalanceKept DEF PinInv
    <2> QED BY <1>1, <2>2, <2>4, <2>5, <2>6, ThreadStep
  <1> QED BY <1>2, <1>3, <1>4, <1>5, <1>6

-----------------------------------------------------------------------------
(* The kernel and the monitor.                                             *)

LEMMA StandingFrame ==
  ASSUME PinInv, Running, thr' = thr, UNCHANGED <<ring, reqs, lost>>,
         csr' = csr \/ \E q \in Page : csr' = Append(csr, Inval(q))
  PROVE  Service' /\ csr' \in Seq(CsrWrite) /\ Placed'
  <1>1. Service' /\ csr' \in Seq(CsrWrite)
    BY MutexOwners, ServiceKept DEF PinInv, TypeOK, Service, Busy, Serving, ServeOK, Running, Elsewhere
  <1>2. Placed'
    BY DEF PinInv, Threads, Placed
  <1> QED BY <1>1, <1>2

LEMMA PinsKernel ==
  ASSUME PinInv, Running,
         \/ \E a \in App, p \in Page : Munmap(a, p) \/ \E f \in Frame : Mmap(a, p, f)
         \/ MunmapDone
  PROVE  PinInv'
  <1>1. UNCHANGED <<monitor, mon, mutex, pt, pins, buffers, thr, ring, reqs, tlb, csr, missed, leaked, lost>>
    BY DEF Munmap, Mmap, MunmapDone, tableVars, fpgaVars, historyVars
  <1>2. Service' /\ Threads'
    BY <1>1, StandingFrame DEF PinInv, Threads, Missing, Owner
  <1>3. Balanced' /\ Entered' /\ LeftOnce'
    BY <1>1 DEF PinInv, Balanced, Entries, Holders, Left, LeftOnce, Entered
  <1>4. /\ vm \in [Page -> Frame \union {None}] /\ unmaps \in 0 .. MaxUnmaps /\ MaxUnmaps \in Nat
        /\ events \in Seq(Page) /\ evtfd \in Nat /\ synced \subseteq Page /\ unmapping \subseteq Page
    BY OnDemandAssumption DEF PinInv, TypeOK
  <1>5. ASSUME NEW a \in App, NEW p \in Page, Munmap(a, p)
        PROVE  PinInv'
    <2>1. /\ vm' = [vm EXCEPT ![p] = None] /\ unmaps' = unmaps + 1 /\ unmaps < MaxUnmaps
          /\ unmapping' \subseteq Page /\ synced' \subseteq Page /\ events' = events /\ evtfd' = evtfd
      BY <1>4, <1>5 DEF Munmap
    <2>2. unmaps' \in 0 .. MaxUnmaps /\ vm' \in [Page -> Frame \union {None}]
      BY <1>4, <2>1
    <2>3. TypeOK'
      BY <1>1, <2>1, <2>2 DEF PinInv, TypeOK
    <2>4. Counted'
      BY <1>1, <2>1 DEF PinInv, Counted
    <2> QED BY <1>2, <1>3, <2>3, <2>4 DEF PinInv
  <1>6. ASSUME NEW a \in App, NEW p \in Page, NEW f \in Frame, Mmap(a, p, f)
        PROVE  PinInv'
    <2>1. /\ vm' = [vm EXCEPT ![p] = f]
          /\ UNCHANGED <<unmapping, unmaps, events, evtfd, synced>>
      BY <1>6 DEF Mmap, historyVars
    <2>2. TypeOK'
      BY <1>1, <1>4, <2>1 DEF PinInv, TypeOK
    <2>3. Counted'
      BY <1>1, <2>1 DEF PinInv, Counted
    <2> QED BY <1>2, <1>3, <2>2, <2>3 DEF PinInv
  <1>7. CASE MunmapDone
    <2>1. PICK p \in Page : /\ unmapping' = {} /\ events' = Append(events, p) /\ evtfd' = evtfd + 1
                            /\ UNCHANGED <<vm, unmaps, synced>>
      BY <1>4, <1>7 DEF MunmapDone, historyVars
    <2>2. events' \in Seq(Page) /\ Len(events') = Len(events) + 1 /\ evtfd' \in Nat
      BY <1>4, <2>1
    <2>3. TypeOK'
      BY <1>1, <2>1, <2>2 DEF PinInv, TypeOK
    <2>4. Counted'
      <3>1. mon \in [pc : {"read", "lock", "drain"}, count : Nat]
        BY DEF PinInv, TypeOK
      <3> QED BY <1>1, <1>4, <2>1, <2>2, <3>1 DEF PinInv, Counted
    <2> QED BY <1>2, <1>3, <2>3, <2>4 DEF PinInv
  <1> QED BY <1>5, <1>6, <1>7

LEMMA PinsMonitor ==
  ASSUME PinInv, Running, MonRead \/ MonLock \/ MonUnlock
  PROVE  PinInv'
  <1>1. UNCHANGED <<vm, unmapping, unmaps, events, monitor, pt, pins, buffers, thr, ring, reqs, tlb, csr,
                    synced, missed, leaked, lost>>
    BY DEF MonRead, MonLock, MonUnlock, kernelVars, tableVars, fpgaVars, historyVars
  <1>2. Service' /\ Placed' /\ Missing'
    BY <1>1, StandingFrame DEF PinInv, Threads, Missing
  <1>3. Balanced' /\ Entered'
    BY <1>1 DEF PinInv, Balanced, Entries, Holders, Left, Entered
  <1>4. mon \in [pc : {"read", "lock", "drain"}, count : Nat] /\ evtfd \in Nat
    BY DEF PinInv, TypeOK
  <1>5. /\ mon' \in [pc : {"read", "lock", "drain"}, count : Nat] /\ evtfd' \in Nat
        /\ mutex' \in Thread \union {Mon, Free, Stuck} /\ Counted' /\ Owner'
        /\ mutex' = mutex \/ (mutex # Stuck /\ mutex' # Stuck)
    <2>1. CASE MonRead
      <3>1. /\ mon.pc = "read" /\ mon' = [pc |-> "lock", count |-> evtfd] /\ evtfd' = 0
            /\ mutex' = mutex /\ mon.count = 0
        BY <2>1 DEF MonRead, PinInv, Counted
      <3> QED BY <1>1, <1>4, <3>1 DEF PinInv, TypeOK, Counted, Threads, Owner
    <2>2. CASE MonLock
      <3>1. /\ mon.pc = "lock" /\ mon' = [mon EXCEPT !.pc = "drain"] /\ evtfd' = evtfd
            /\ mutex = Free /\ mutex' = Mon
        BY <2>2 DEF MonLock, kernelVars
      <3>2. mon'.pc = "drain" /\ mon'.count = mon.count
        BY <1>4, <3>1
      <3>3. \A t \in Thread : thr[t].pc \notin Holding
        BY <3>1, MutexOwners DEF PinInv, Threads, Owner
      <3> QED BY <1>1, <1>4, <3>1, <3>2, <3>3, MutexOwners DEF PinInv, TypeOK, Counted, Owner
    <2>3. CASE MonUnlock
      <3>1. /\ mon.pc = "drain" /\ mon.count = 0 /\ mon' = [pc |-> "read", count |-> 0]
            /\ evtfd' = evtfd /\ mutex' = Free /\ mutex = Mon
        BY <2>3 DEF MonUnlock, kernelVars, PinInv, Threads, Owner
      <3>2. \A t \in Thread : thr[t].pc \notin Holding
        BY <3>1, MutexOwners DEF PinInv, Threads, Owner
      <3> QED BY <1>1, <1>4, <3>1, <3>2, MutexOwners DEF PinInv, TypeOK, Counted, Owner
    <2> QED BY <2>1, <2>2, <2>3
  <1>6. TypeOK' /\ LeftOnce'
    BY <1>1, <1>5 DEF PinInv, TypeOK, LeftOnce
  <1> QED BY <1>2, <1>3, <1>5, <1>6 DEF PinInv, Threads

\* GET_EVENT and mpfVtpPtReleaseRange.
LEMMA PinsEvent ==
  ASSUME PinInv, Running, MonEvent
  PROVE  PinInv'
  <1> DEFINE p == Head(events)
  <1>1. /\ mon.pc = "drain" /\ mon.count > 0 /\ mutex = Mon
        /\ mon \in [pc : {"read", "lock", "drain"}, count : Nat] /\ evtfd \in Nat /\ events \in Seq(Page)
        /\ Len(events) = evtfd + mon.count
    BY DEF MonEvent, PinInv, TypeOK, Threads, Owner, Counted
  <1>2. events # <<>>
    BY <1>1
  <1>3. p \in Page /\ Tail(events) \in Seq(Page) /\ Len(Tail(events)) = Len(events) - 1
    BY <1>1, <1>2
  <1> HIDE DEF p
  <1>4. /\ mon' = [mon EXCEPT !.count = @ - 1] /\ events' = Tail(events)
        /\ UNCHANGED <<vm, unmapping, unmaps, evtfd, monitor, mutex, buffers, thr, ring, reqs, tlb,
                       synced, leaked, lost>>
    BY DEF MonEvent, fpgaVars
  <1>5. /\ mon' \in [pc : {"read", "lock", "drain"}, count : Nat] /\ mon'.pc = "drain"
        /\ mon'.count = mon.count - 1
    BY <1>1, <1>4
  <1>6. Counted'
    BY <1>1, <1>3, <1>4, <1>5 DEF Counted
  <1>7. \A t \in Thread : thr[t].pc \notin Holding \union Making
    BY <1>1, MutexOwners DEF PinInv, Threads, Owner, Holding, Making
  <1>8. Owner' /\ Missing' /\ LeftOnce'
    BY <1>1, <1>4, <1>7 DEF Owner, Missing, PinInv, LeftOnce
  <1>9. /\ pt \in [Page -> Entry] /\ pins \in [Frame -> Nat] /\ missed \subseteq Page
        /\ pt[p] \in Entry /\ (pt[p] = NoEntry \/ (pt[p].frame \in Frame /\ pt[p].ref \in Nat \ {0}))
    BY <1>3 DEF PinInv, TypeOK, Entered
  <1>10. NoEntry \in Entry /\ NoEntry.ref = 0 /\ NoEntry.frame = None /\ \A g \in Frame : g # None
    BY OnDemandAssumption DEF NoEntry, Entry
  <1>11. \A g \in Frame : Holders(g)' = Holders(g)
    BY <1>4 DEF Holders
  <1>12. ASSUME pt' \in [Page -> Entry], Entered', Balanced', pins' \in [Frame -> Nat], missed' \subseteq Page,
                csr' = csr \/ \E q \in Page : csr' = Append(csr, Inval(q))
         PROVE  PinInv'
    <2>1. Service' /\ csr' \in Seq(CsrWrite) /\ Placed'
      BY <1>4, <1>12, StandingFrame
    <2>2. TypeOK'
      BY <1>3, <1>4, <1>5, <1>12, <2>1 DEF PinInv, TypeOK
    <2> QED BY <1>6, <1>8, <1>12, <2>1, <2>2 DEF PinInv, Threads
  <1>13. CASE pt[p] = NoEntry /\ UNCHANGED <<pt, pins, csr, missed>>
    <2>1. Entered' /\ Balanced'
      BY <1>4, <1>11, <1>13 DEF PinInv, Entered, Balanced, Entries, Left
    <2> QED BY <1>9, <1>12, <1>13, <2>1
  <1>14. CASE pt[p].ref > 1 /\ pt' = [pt EXCEPT ![p].ref = @ - 1] /\ UNCHANGED <<pins, csr, missed>>
    <2>1. pt'[p] = [pt[p] EXCEPT !.ref = @ - 1] /\ \A q \in Page : q # p => pt'[q] = pt[q]
      BY <1>3, <1>9, <1>14
    <2>2. pt'[p] \in Entry /\ pt'[p].frame = pt[p].frame /\ pt'[p].ref \in Nat \ {0}
      BY <1>9, <1>14, <2>1 DEF Entry
    <2>3. pt[p].frame \in Frame
      BY <1>9, <1>10, <1>14
    <2>4. pt' \in [Page -> Entry] /\ Entered'
      BY <1>9, <1>14, <2>1, <2>2, <2>3 DEF PinInv, Entered
    <2>5. Balanced'
      <3>1. \A g \in Frame : Entries(g)' = Entries(g)
        BY <2>1, <2>2 DEF Entries
      <3> QED BY <1>4, <1>11, <1>14, <3>1 DEF PinInv, Balanced, Left
    <2> QED BY <1>9, <1>12, <1>14, <2>4, <2>5
  <1>15. CASE /\ pt[p].ref = 1 /\ (ShotDown(p) \/ NotShotDown(p))
              /\ pins' = [pins EXCEPT ![pt[p].frame] = @ - 1] /\ pt' = [pt EXCEPT ![p] = NoEntry]
    <2>1. PICK f \in Frame : f = pt[p].frame
      BY <1>9, <1>10, <1>15
    <2>2. pt' \in [Page -> Entry] /\ pt'[p] = NoEntry /\ \A q \in Page : q # p => pt'[q] = pt[q]
      BY <1>3, <1>9, <1>10, <1>15
    <2>3. Entered'
      BY <2>2 DEF PinInv, Entered
    <2>4. \A g \in Frame : Entries(g)' = Entries(g) \ {p}
      BY <1>10, <2>2 DEF Entries
    <2>5. p \in Entries(f) /\ \A g \in Frame : g # f => p \notin Entries(g)
      BY <1>3, <2>1 DEF Entries
    <2>6. IsFiniteSet(Entries(f)') /\ Cardinality(Entries(f)') = Cardinality(Entries(f)) - 1
      BY <2>4, <2>5, BalanceOf, FS_RemoveElement DEF PinInv
    <2>7. /\ pins[f] = Cardinality(Entries(f)) + Cardinality(Holders(f)) + Left(f) /\ Left(f) \in {0, 1}
          /\ Cardinality(Entries(f)) \in Nat \ {0} /\ Cardinality(Holders(f)) \in Nat
      BY <2>5, BalanceOf DEF PinInv
    <2>8. /\ pins' \in [Frame -> Nat] /\ pins'[f] = pins[f] - 1
          /\ \A g \in Frame : g # f => pins'[g] = pins[g]
      <3>1. pins[f] - 1 \in Nat
        BY <2>7
      <3> QED BY <1>9, <1>15, <2>1, <3>1
    <2>9. Holders(f)' = Holders(f) /\ IsFiniteSet(Holders(f)')
      BY <1>11, BalanceOf DEF PinInv
    <2>10. pins'[f] = Cardinality(Entries(f)') + Cardinality(Holders(f)') + Left(f)
      BY <2>6, <2>7, <2>8, <2>9
    <2>11. \A g \in Frame : g # f => /\ Entries(g)' = Entries(g) /\ Holders(g)' = Holders(g)
                                     /\ pins'[g] = pins[g]
      BY <1>11, <2>4, <2>5, <2>8
    <2>12. Balanced'
      BY <1>4, <2>6, <2>9, <2>10, <2>11, BalanceMove DEF PinInv
    <2>13. (csr' = csr \/ csr' = Append(csr, Inval(p))) /\ missed' \subseteq Page
      BY <1>3, <1>9, <1>15 DEF ShotDown, NotShotDown
    <2> QED BY <1>3, <1>12, <2>2, <2>3, <2>8, <2>12, <2>13
  <1> QED BY <1>13, <1>14, <1>15 DEF MonEvent, p

-----------------------------------------------------------------------------
(* The answers.                                                            *)

\* What AnswersMatch says when n answers are on their way and none was lost.
Matched(n) ==
    /\ Len(reqs) = n + Len(ring)
    /\ \A i \in 1 .. Len(csr) :
          csr[i].kind = "rsp" => csr[i].page = reqs[Cardinality(Answers(csr, i))].page
    /\ \A k \in 1 .. Len(ring) : ring[k] = reqs[n + k]

LEMMA AnswersFacts ==
  ASSUME PinInv, Running, NEW n, n = Cardinality(Answers(csr, Len(csr)))
  PROVE  /\ csr \in Seq(CsrWrite) /\ ring \in Seq(Req) /\ reqs \in Seq(Req)
         /\ n \in Nat /\ Len(csr) \in Nat /\ Len(ring) \in Nat
         /\ Len(reqs) \in Nat /\ Len(reqs) >= n + Len(ring)
         /\ \A i \in 1 .. Len(csr) : csr[i].kind = "rsp" => Cardinality(Answers(csr, i)) \in 1 .. n
         /\ ~lost => Matched(n)
  <1>1. /\ csr \in Seq(CsrWrite) /\ ring \in Seq(Req) /\ reqs \in Seq(Req)
        /\ Len(csr) \in Nat /\ Len(ring) \in Nat /\ Len(reqs) \in Nat
    BY DEF PinInv, TypeOK
  <1>2. Len(reqs) >= n + Len(ring) /\ (~lost => Matched(n))
    BY DEF PinInv, Service, AnswersMatch, Enough, AnswersIn, Answers, Matched
  <1>3. n \in Nat
    <2>1. Len(csr) \in 0 .. Len(csr)
      BY <1>1
    <2> QED BY <1>1, <2>1, AnswersFinite
  <1>4. ASSUME NEW i \in 1 .. Len(csr), csr[i].kind = "rsp"
        PROVE  Cardinality(Answers(csr, i)) \in 1 .. n
    <2>1. i \in 0 .. Len(csr) /\ i \in Answers(csr, i)
      BY <1>4 DEF Answers
    <2>2. /\ IsFiniteSet(Answers(csr, i)) /\ Cardinality(Answers(csr, i)) \in Nat
          /\ Cardinality(Answers(csr, i)) <= n
      BY <1>1, <2>1, AnswersFinite
    <2>3. Cardinality(Answers(csr, i)) # 0
      BY <2>1, <2>2, FS_EmptySet
    <2> QED BY <1>3, <2>2, <2>3
  <1> QED BY <1>1, <1>2, <1>3, <1>4

\* A request goes into the ring and is remembered.
LEMMA PinsAsk ==
  ASSUME PinInv, Running, NEW p \in Page, AskSpeculatively(p) \/ Ask(p)
  PROVE  PinInv'
  <1>1. PICK r \in Req : ring' = Append(ring, r) /\ reqs' = Append(reqs, r)
    BY DEF AskSpeculatively, Ask, Request, Req
  <1>2. UNCHANGED <<vm, unmapping, unmaps, events, evtfd, monitor, mon, mutex, pt, pins, buffers, thr, tlb,
                    csr, synced, missed, leaked, lost>>
    BY DEF AskSpeculatively, Ask, kernelVars, tableVars, historyVars
  <1>3. PICK n : n = Cardinality(Answers(csr, Len(csr)))
    OBVIOUS
  <1>4. /\ ring \in Seq(Req) /\ reqs \in Seq(Req) /\ Len(csr) \in Nat
        /\ n \in Nat /\ Len(ring) \in Nat /\ Len(reqs) \in Nat /\ Len(reqs) >= n + Len(ring)
        /\ \A i \in 1 .. Len(csr) : csr[i].kind = "rsp" => Cardinality(Answers(csr, i)) \in 1 .. n
        /\ ~lost => Matched(n)
    BY <1>3, AnswersFacts
  <1>5. /\ ring' \in Seq(Req) /\ reqs' \in Seq(Req)
        /\ Len(ring') = Len(ring) + 1 /\ Len(reqs') = Len(reqs) + 1
        /\ ring'[Len(ring) + 1] = r /\ reqs'[Len(reqs) + 1] = r
        /\ \A i \in 1 .. Len(ring) : ring'[i] = ring[i]
        /\ \A i \in 1 .. Len(reqs) : reqs'[i] = reqs[i]
    BY <1>1, <1>4
  <1>6. ASSUME ~lost
        PROVE  AnswersMatch'
    <2> USE <1>6 DEF Matched
    <2>1. Len(reqs') = n + Len(ring')
      BY <1>4, <1>5
    <2>2. ASSUME NEW i \in 1 .. Len(csr), csr[i].kind = "rsp"
          PROVE  csr[i].page = reqs'[Cardinality(Answers(csr, i))].page
      <3>1. PICK c \in 1 .. n : c = Cardinality(Answers(csr, i)) /\ csr[i].page = reqs[c].page
        BY <1>4, <2>2
      <3>2. c \in 1 .. Len(reqs)
        BY <1>4
      <3> QED BY <1>5, <3>1, <3>2
    <2>3. ASSUME NEW k \in 1 .. Len(ring')
          PROVE  ring'[k] = reqs'[n + k]
      <3>1. CASE k \in 1 .. Len(ring)
        <4>1. n + k \in 1 .. Len(reqs)
          BY <1>4, <3>1
        <4> QED BY <1>4, <1>5, <3>1, <4>1
      <3>2. CASE k = Len(ring) + 1
        <4>1. n + k = Len(reqs) + 1
          BY <1>4, <3>2
        <4> QED BY <1>5, <3>2, <4>1
      <3> QED BY <1>4, <1>5, <3>1, <3>2
    <2>4. /\ Len(reqs') = Cardinality(Answers(csr, Len(csr))) + Len(ring')
          /\ \A k \in 1 .. Len(ring') : ring'[k] = reqs'[Cardinality(Answers(csr, Len(csr))) + k]
      BY <1>3, <2>1, <2>3
    <2> QED BY <1>2, <2>2, <2>4 DEF AnswersMatch, AnswersIn, Answers
  <1>11. Enough'
    BY <1>2, <1>3, <1>4, <1>5 DEF Enough, AnswersIn, Answers
  <1>7. Busy' /\ Serving'
    <2>1. ring' # <<>>
      BY <1>4, <1>5
    <2>2. ring # <<>> => Head(ring') = Head(ring)
      <3>1. ring # <<>> => Len(ring) > 0 /\ Head(ring) = ring[1]
        BY <1>4
      <3> QED BY <1>4, <1>5, <2>1, <3>1
    <2> QED BY <1>2, <2>1, <2>2 DEF PinInv, Service, Busy, Serving
  <1>8. Threads' /\ Entered' /\ Counted' /\ Balanced' /\ LeftOnce'
    BY <1>2 DEF PinInv, Threads, Placed, Missing, Owner, Entered, Counted, Balanced, Entries, Holders,
                Left, LeftOnce
  <1>9. TypeOK'
    BY <1>2, <1>5 DEF PinInv, TypeOK
  <1>10. AnswersMatch'
    BY <1>2, <1>6 DEF AnswersMatch
  <1> QED BY <1>11, <1>7, <1>8, <1>9, <1>10 DEF PinInv, Service

\* The answer to the oldest request in the ring goes behind those on their way.
LEMMA PinsAnswer ==
  ASSUME PinInv, Running, SrvAnswer
  PROVE  PinInv'
  <1>1. /\ thr \in [Thread -> Activity] /\ thr[Srv] \in Activity /\ Srv \in Thread
        /\ thr[Srv].pc = "answer" /\ thr[Srv].page \in Page
        /\ thr[Srv].page = Head(ring).page /\ ring # <<>>
    BY MutexOwners DEF SrvAnswer, At, PinInv, TypeOK, Threads, Placed, PlaceOK, Service, Busy, Serving
  <1>2. UNCHANGED <<vm, unmapping, unmaps, events, evtfd, monitor, mon, mutex, pt, pins, buffers, reqs, tlb,
                    synced, missed, leaked>>
    BY DEF SrvAnswer, kernelVars, tableVars, historyVars
  <1>3. \/ csr' = csr /\ lost' = TRUE
        \/ /\ lost' = lost
           /\ \E c \in CsrWrite : csr' = Append(csr, c) /\ c.kind = "rsp" /\ c.page = Head(ring).page
    <2>1. Answer(thr[Srv].page, thr[Srv].frame) \in CsrWrite
      BY <1>1 DEF Answer, CsrWrite, Activity
    <2> QED BY <1>1, <2>1 DEF SrvAnswer, Answer
  <1>4. PICK n : n = Cardinality(Answers(csr, Len(csr)))
    OBVIOUS
  <1>5. /\ csr \in Seq(CsrWrite) /\ ring \in Seq(Req) /\ reqs \in Seq(Req)
        /\ n \in Nat /\ Len(csr) \in Nat /\ Len(ring) \in Nat
        /\ Len(reqs) \in Nat /\ Len(reqs) >= n + Len(ring)
        /\ ~lost => Matched(n)
    BY <1>4, AnswersFacts
  <1>6. csr' \in Seq(CsrWrite) /\ lost' \in BOOLEAN
    <2>1. csr' \in Seq(CsrWrite)
      <3>1. ASSUME NEW c \in CsrWrite
            PROVE  Append(csr, c) \in Seq(CsrWrite)
        BY <1>5
      <3>2. csr' = csr \/ \E c \in CsrWrite : csr' = Append(csr, c)
        BY <1>3
      <3> QED BY <1>5, <3>1, <3>2
    <2>2. lost' \in BOOLEAN
      BY <1>3, Zenon DEF PinInv, TypeOK
    <2> QED BY <2>1, <2>2
  <1>7. /\ thr' \in [Thread -> Activity] /\ Elsewhere(Srv)
        /\ \/ thr'[Srv].pc = "aborted" /\ ring' = ring
           \/ thr'[Srv].pc = "idle" /\ ring' = Tail(ring)
    <2>1. [thr[Srv] EXCEPT !.pc = "aborted"] \in Activity
      BY <1>1 DEF Activity
    <2>2. CASE Goto(Srv, "aborted") /\ ring' = ring
      BY <1>1, <2>1, <2>2, GotoMoves
    <2>3. CASE Return(Srv) /\ ring' = Tail(ring)
      BY <1>1, <2>3, IdleMoves
    <2> QED BY <2>2, <2>3 DEF SrvAnswer
  <1>8. /\ PlaceOK(thr'[Srv]) /\ thr'[Srv].pc \notin Making \union Holding \union Owning
        /\ thr[Srv].pc \notin Owning
    BY <1>1, <1>7 DEF PlaceOK, Making, Holding, Owning
  <1>9. Threads' /\ Balanced' /\ Entered' /\ Counted' /\ LeftOnce'
    <2>1. Threads'
      BY <1>1, <1>2, <1>7, <1>8, ThreadsMove DEF PinInv
    <2>2. Balanced'
      BY <1>1, <1>2, <1>7, <1>8, BalanceKept DEF PinInv
    <2> QED BY <1>2, <2>1, <2>2 DEF PinInv, Entered, Counted, LeftOnce
  <1>10. ring' \in Seq(Req) /\ TypeOK'
    <2>1. ring' \in Seq(Req)
      <3>1. Tail(ring) \in Seq(Req)
        BY <1>1, <1>5
      <3> QED BY <1>5, <1>7, <3>1
    <2> QED BY <1>2, <1>6, <1>7, <2>1 DEF PinInv, TypeOK
  <1>11. Busy' /\ Serving'
    BY <1>7 DEF Busy, Serving
  <1>12. CASE thr'[Srv].pc = "aborted"
    <2>1. AnswersMatch' /\ Enough'
      BY <1>12 DEF AnswersMatch, Enough, Running
    <2> QED BY <1>9, <1>10, <1>11, <2>1 DEF PinInv, Service
  <1>13. CASE thr'[Srv].pc = "idle" /\ ring' = Tail(ring)
    <2>1. /\ Len(ring') = Len(ring) - 1 /\ Head(ring) = ring[1] /\ Len(ring) >= 1
          /\ \A k \in 1 .. Len(ring) - 1 : ring'[k] = ring[k + 1]
      BY <1>1, <1>5, <1>13
    <2>2. CASE csr' = csr /\ lost' = TRUE
      <3>1. AnswersMatch'
        BY <2>2 DEF AnswersMatch
      <3>2. Enough'
        BY <1>2, <1>4, <1>5, <2>1, <2>2 DEF Enough, AnswersIn, Answers
      <3> QED BY <1>9, <1>10, <1>11, <3>1, <3>2 DEF PinInv, Service
    <2>3. ASSUME lost' = lost,
                 NEW c \in CsrWrite, csr' = Append(csr, c), c.kind = "rsp", c.page = Head(ring).page
          PROVE  PinInv'
      <3>1. /\ Len(csr') = Len(csr) + 1 /\ csr'[Len(csr) + 1] = c
            /\ \A i \in 1 .. Len(csr) : csr'[i] = csr[i]
        BY <1>5, <2>3
      <3>2. Cardinality(Answers(csr', Len(csr'))) = n + 1
        BY <1>4, <1>5, <2>3, <3>1, AnswersAppend
      <3>3. \A k \in 0 .. Len(csr) : Answers(csr', k) = Answers(csr, k)
        BY <1>5, <2>3, AnswersAppend
      <3>4. Enough'
        BY <1>2, <1>5, <2>1, <3>2 DEF Enough, AnswersIn, Answers
      <3>5. ASSUME ~lost
            PROVE  AnswersMatch'
        <4> USE <3>5 DEF Matched
        <4>1. Len(reqs) = (n + 1) + Len(ring')
          BY <1>5, <2>1
        <4>2. ASSUME NEW i \in 1 .. Len(csr'), csr'[i].kind = "rsp"
              PROVE  csr'[i].page = reqs[Cardinality(Answers(csr', i))].page
          <5>1. CASE i \in 1 .. Len(csr)
            <6>1. Answers(csr', i) = Answers(csr, i) /\ csr'[i] = csr[i]
              BY <3>1, <3>3, <5>1
            <6> QED BY <1>5, <4>2, <5>1, <6>1
          <5>2. CASE i = Len(csr')
            <6>1. csr'[i].page = ring[1].page
              BY <2>1, <2>3, <3>1, <5>2
            <6>2. ring[1] = reqs[n + 1]
              BY <1>5, <2>1, SMTT(30)
            <6> QED BY <3>2, <5>2, <6>1, <6>2
          <5> QED BY <1>5, <3>1, <5>1, <5>2
        <4>3. ASSUME NEW k \in 1 .. Len(ring')
              PROVE  ring'[k] = reqs[(n + 1) + k]
          <5>1. k + 1 \in 1 .. Len(ring) /\ k \in 1 .. Len(ring) - 1 /\ n + (k + 1) = (n + 1) + k
            BY <1>5, <2>1
          <5>2. ring'[k] = ring[k + 1] /\ ring[k + 1] = reqs[n + (k + 1)]
            BY <1>5, <2>1, <5>1
          <5> QED BY <5>1, <5>2
        <4> QED BY <1>2, <3>2, <4>1, <4>2, <4>3 DEF AnswersMatch, AnswersIn, Answers
      <3>6. AnswersMatch'
        BY <2>3, <3>5 DEF AnswersMatch
      <3> QED BY <1>9, <1>10, <1>11, <3>4, <3>6 DEF PinInv, Service
    <2> QED BY <1>3, <2>2, <2>3
  <1> QED BY <1>7, <1>12, <1>13

\* A CSR write arrives.  An answer finds the request it belongs to.
LEMMA PinsDeliver ==
  ASSUME PinInv, Running, Deliver
  PROVE  /\ PinInv'
         /\ ~lost /\ Head(csr).kind = "rsp" => Head(reqs).page = Head(csr).page
  <1>1. UNCHANGED <<vm, unmapping, unmaps, events, evtfd, monitor, mon, mutex, pt, pins, buffers, thr, ring,
                    synced, missed, leaked, lost>>
    BY DEF Deliver, kernelVars, tableVars, historyVars
  <1>2. PICK n : n = Cardinality(Answers(csr, Len(csr)))
    OBVIOUS
  <1>3. /\ csr \in Seq(CsrWrite) /\ ring \in Seq(Req) /\ reqs \in Seq(Req)
        /\ n \in Nat /\ Len(csr) \in Nat /\ Len(ring) \in Nat
        /\ Len(reqs) \in Nat /\ Len(reqs) >= n + Len(ring)
        /\ \A i \in 1 .. Len(csr) : csr[i].kind = "rsp" => Cardinality(Answers(csr, i)) \in 1 .. n
        /\ ~lost => Matched(n)
    BY <1>2, AnswersFacts
  <1>4. csr # <<>> /\ csr' = Tail(csr)
    BY DEF Deliver
  <1>5. /\ csr' \in Seq(CsrWrite) /\ Len(csr') = Len(csr) - 1 /\ Len(csr) >= 1 /\ Head(csr) = csr[1]
        /\ csr[1] \in CsrWrite
        /\ \A i \in 1 .. Len(csr) - 1 : csr'[i] = csr[i + 1]
    BY <1>3, <1>4
  <1>6. \A k \in 0 .. Len(csr) - 1 :
           Cardinality(Answers(csr, k + 1)) =
               Cardinality(Answers(csr', k)) + (IF csr[1].kind = "rsp" THEN 1 ELSE 0)
    BY <1>3, <1>4, AnswersTail
  <1>7. \A k \in 0 .. Len(csr) - 1 : Cardinality(Answers(csr', k)) \in Nat
    BY <1>5, AnswersFinite
  <1>8. Threads' /\ Entered' /\ Counted' /\ Balanced' /\ LeftOnce' /\ Busy' /\ Serving'
    BY <1>1 DEF PinInv, Threads, Placed, Missing, Owner, Entered, Counted, Balanced, Entries, Holders,
                Left, LeftOnce, Service, Busy, Serving
  <1>9. csr[1].kind = "rsp" =>
            /\ n >= 1 /\ reqs # <<>>
            /\ ~lost => Head(reqs).page = csr[1].page
    <2> SUFFICES ASSUME csr[1].kind = "rsp"
                 PROVE  n >= 1 /\ reqs # <<>> /\ (~lost => Head(reqs).page = csr[1].page)
      OBVIOUS
    <2>1. 1 \in 1 .. Len(csr) /\ Answers(csr, 1) = {1}
      BY <1>5 DEF Answers
    <2>2. Cardinality(Answers(csr, 1)) = 1
      BY <2>1, FS_Singleton
    <2>3. n >= 1 /\ (~lost => csr[1].page = reqs[1].page)
      BY <1>3, <2>1, <2>2 DEF Matched
    <2>4. reqs # <<>> /\ Head(reqs) = reqs[1]
      BY <1>3, <2>3
    <2> QED BY <2>3, <2>4
  <1>10. tlb \in [Page -> Frame \union {None, NotPresent}]
    BY DEF PinInv, TypeOK
  <1>11. CASE csr[1].kind = "inval"
    <2>1. reqs' = reqs /\ tlb' = [tlb EXCEPT ![csr[1].page] = None]
      BY <1>5, <1>11 DEF Deliver
    <2>2. ASSUME NEW k \in 0 .. Len(csr) - 1
          PROVE  Cardinality(Answers(csr', k)) = Cardinality(Answers(csr, k + 1))
      BY <1>6, <1>7, <1>11
    <2>3. Cardinality(Answers(csr', Len(csr'))) = n
      <3>1. Len(csr) - 1 \in 0 .. Len(csr) - 1 /\ (Len(csr) - 1) + 1 = Len(csr)
        BY <1>3, <1>5
      <3> QED BY <1>2, <1>5, <2>2, <3>1
    <2>4. ASSUME ~lost, NEW i \in 1 .. Len(csr'), csr'[i].kind = "rsp"
          PROVE  csr'[i].page = reqs[Cardinality(Answers(csr', i))].page
      <3>1. i \in 0 .. Len(csr) - 1 /\ i + 1 \in 1 .. Len(csr) /\ i \in 1 .. Len(csr) - 1
        BY <1>3, <1>5
      <3>2. csr'[i] = csr[i + 1]
        BY <1>5, <3>1
      <3> QED BY <1>3, <2>2, <2>4, <3>1, <3>2 DEF Matched
    <2>5. AnswersMatch' /\ Enough'
      <3>1. ~lost => AnswersMatch'
        BY <1>1, <1>3, <2>1, <2>3, <2>4 DEF AnswersMatch, AnswersIn, Answers, Matched
      <3>2. AnswersMatch'
        BY <1>1, <3>1 DEF AnswersMatch
      <3>3. Enough'
        BY <1>1, <1>3, <2>1, <2>3 DEF Enough, AnswersIn, Answers
      <3> QED BY <3>2, <3>3
    <2>6. TypeOK'
      BY <1>1, <1>5, <1>10, <2>1 DEF PinInv, TypeOK
    <2> QED BY <1>5, <1>8, <1>11, <2>5, <2>6 DEF PinInv, Service
  <1>12. CASE csr[1].kind = "rsp"
    <2>1. /\ reqs' = Tail(reqs)
          /\ tlb' = [tlb EXCEPT ![Head(reqs).page] =
                        IF csr[1].frame = None THEN NotPresent ELSE csr[1].frame]
      BY <1>5, <1>12 DEF Deliver
    <2>2. /\ reqs' \in Seq(Req) /\ Len(reqs') = Len(reqs) - 1
          /\ \A i \in 1 .. Len(reqs) - 1 : reqs'[i] = reqs[i + 1]
      BY <1>3, <1>9, <1>12, <2>1
    <2>3. ASSUME NEW k \in 0 .. Len(csr) - 1
          PROVE  Cardinality(Answers(csr', k)) = Cardinality(Answers(csr, k + 1)) - 1
      BY <1>6, <1>7, <1>12
    <2>4. Cardinality(Answers(csr', Len(csr'))) = n - 1
      <3>1. Len(csr) - 1 \in 0 .. Len(csr) - 1 /\ (Len(csr) - 1) + 1 = Len(csr)
        BY <1>3, <1>5
      <3> QED BY <1>2, <1>5, <2>3, <3>1
    <2>5. ASSUME ~lost, NEW i \in 1 .. Len(csr'), csr'[i].kind = "rsp"
          PROVE  csr'[i].page = reqs'[Cardinality(Answers(csr', i))].page
      <3>1. i \in 0 .. Len(csr) - 1 /\ i + 1 \in 1 .. Len(csr) /\ i \in 1 .. Len(csr) - 1
        BY <1>3, <1>5
      <3>2. csr'[i] = csr[i + 1]
        BY <1>5, <3>1
      <3>3. PICK d \in 1 .. n : d = Cardinality(Answers(csr, i + 1)) /\ csr[i + 1].page = reqs[d].page
        BY <1>3, <2>5, <3>1, <3>2 DEF Matched
      <3>4. d - 1 = Cardinality(Answers(csr', i))
        BY <2>3, <3>1, <3>3
      <3>5. Cardinality(Answers(csr', i)) # 0
        <4>1. i \in 0 .. Len(csr') /\ i \in Answers(csr', i)
          BY <1>3, <1>5, <2>5, <3>1 DEF Answers
        <4> QED BY <1>5, <4>1, AnswersFinite, FS_EmptySet
      <3>6. d - 1 \in 1 .. Len(reqs) - 1 /\ (d - 1) + 1 = d
        BY <1>3, <2>5, <3>4, <3>5
      <3> QED BY <2>2, <3>2, <3>3, <3>4, <3>6
    <2>6. /\ Len(reqs') >= (n - 1) + Len(ring)
          /\ ~lost => Len(reqs') = (n - 1) + Len(ring)
      BY <1>3, <2>2 DEF Matched
    <2>7. ASSUME ~lost, NEW k \in 1 .. Len(ring)
          PROVE  ring[k] = reqs'[(n - 1) + k]
      <3>1. (n - 1) + k \in 1 .. Len(reqs) - 1 /\ ((n - 1) + k) + 1 = n + k
        BY <1>3, <1>9, <1>12, <2>7 DEF Matched
      <3> QED BY <1>3, <2>2, <2>7, <3>1 DEF Matched
    <2>8. AnswersMatch' /\ Enough'
      <3>1. ~lost => AnswersMatch'
        BY <1>1, <2>4, <2>5, <2>6, <2>7 DEF AnswersMatch, AnswersIn, Answers
      <3>2. AnswersMatch'
        BY <1>1, <3>1 DEF AnswersMatch
      <3>3. Enough'
        BY <1>1, <2>4, <2>6 DEF Enough, AnswersIn, Answers
      <3> QED BY <3>2, <3>3
    <2>9. TypeOK'
      <3>1. csr[1].frame \in Frame \union {None} /\ tlb' \in [Page -> Frame \union {None, NotPresent}]
        BY <1>5, <1>10, <2>1 DEF CsrWrite
      <3> QED BY <1>1, <1>5, <2>2, <3>1 DEF PinInv, TypeOK
    <2> QED BY <1>5, <1>8, <1>9, <1>12, <2>8, <2>9 DEF PinInv, Service
  <1>13. csr[1].kind \in {"inval", "rsp"}
    BY <1>5 DEF CsrWrite
  <1> QED BY <1>11, <1>12, <1>13

-----------------------------------------------------------------------------

LEMMA PinsInit == Init => PinInv
  <1> SUFFICES ASSUME Init
               PROVE  PinInv
    OBVIOUS
  <1>1. Idle \in Activity /\ Idle.pc = "idle"
    BY DEF Idle, Doing, Activity
  <1>2. NoEntry \in Entry /\ NoEntry.frame = None /\ \A g \in Frame : g # None
    BY OnDemandAssumption DEF NoEntry, Entry
  <1>3. TypeOK
    <2>1. <<>> \in Seq(Page) /\ <<>> \in Seq(Req) /\ <<>> \in Seq(CsrWrite)
      OBVIOUS
    <2>2. lost \in BOOLEAN
      BY Zenon DEF Init
    <2> QED BY <1>1, <1>2, <2>1, <2>2, OnDemandAssumption DEF Init, TypeOK
  <1>4. Threads
    BY <1>1 DEF Init, Threads, Placed, PlaceOK, Missing, Owner, Making, Owning, Holding
  <1>5. Entered /\ Counted
    BY DEF Init, Entered, Counted
  <1>6. Balanced
    <2>1. \A f \in Frame : Entries(f) = {} /\ Holders(f) = {}
      BY <1>1, <1>2 DEF Init, Entries, Holders, Owning
    <2>2. \A f \in Frame : pins[f] = 0
      BY DEF Init
    <2>3. IsFiniteSet({}) /\ Cardinality({}) = 0 /\ 0 = 0 + 0 + 0
      BY FS_EmptySet
    <2> SUFFICES ASSUME NEW f \in Frame
                 PROVE  /\ IsFiniteSet(Entries(f)) /\ IsFiniteSet(Holders(f))
                        /\ pins[f] = Cardinality(Entries(f)) + Cardinality(Holders(f)) + Left(f)
      BY DEF Balanced
    <2> HIDE DEF Entries, Holders
    <2>4. Cardinality(Entries(f)) = 0 /\ Cardinality(Holders(f)) = 0 /\ Left(f) = 0
      BY <1>2, <2>1, <2>3 DEF Init, Left
    <2> QED BY <2>1, <2>2, <2>3, <2>4
  <1>7. Busy /\ Serving
    BY <1>1, MutexOwners DEF Init, Busy, Serving
  <1>8. AnswersMatch /\ Enough /\ LeftOnce
    <2>1. Len(csr) = 0 /\ Len(ring) = 0 /\ Len(reqs) = 0
      BY DEF Init
    <2>2. AnswersIn(0) = 0
      <3>1. Answers(csr, 0) = {}
        BY DEF Answers
      <3> QED BY <3>1, AnswersInIs, FS_EmptySet
    <2>3. LeftOnce
      BY MutexOwners DEF Init, LeftOnce
    <2> QED BY <2>1, <2>2, <2>3 DEF AnswersMatch, Enough
  <1> QED BY <1>3, <1>4, <1>5, <1>6, <1>7, <1>8 DEF PinInv, Service

LEMMA PinsStep == PinInv /\ [Next]_vars => PinInv'
  <1> SUFFICES ASSUME PinInv, [Next]_vars
               PROVE  PinInv'
    OBVIOUS
  <1>1. CASE Next
    <2>1. Running
      BY <1>1 DEF Next
    <2>2. ASSUME NEW t \in Thread, Inside(t)
          PROVE  PinInv'
      BY <2>1, <2>2, PinsWait, PinsLookup, PinsOnTheWay, PinsPin, PinsInsert, PinsUnpin, PinsLeft, PinsForget
         DEF Inside
    <2>3. ASSUME NEW a \in App, Application(a)
          PROVE  PinInv'
      <3>1. CASE \E p \in Page : Munmap(a, p) \/ \E f \in Frame : Mmap(a, p, f)
        BY <2>1, <2>3, <3>1, PinsKernel
      <3>2. CASE \E p \in Page : CallGet(a, p) \/ CallPrepare(a, p) \/ CallRelease(a, p)
        BY <2>1, <2>3, <3>2, PinsCalls
      <3>3. CASE \E call \in {"sync", "try"} : CallSync(a, call)
        BY <2>1, <2>3, <3>3, PinsCalls
      <3> QED BY <2>3, <3>1, <3>2, <3>3 DEF Application
    <2>4. CASE Monitor
      BY <2>1, <2>4, PinsMonitor, PinsEvent DEF Monitor
    <2>5. CASE MunmapDone \/ Server
      BY <2>1, <2>5, PinsKernel, PinsCalls, PinsAnswer DEF Server
    <2>6. CASE Fpga \/ Deliver
      BY <2>1, <2>6, PinsAsk, PinsDeliver DEF Fpga
    <2> QED BY <1>1, <2>2, <2>3, <2>4, <2>5, <2>6 DEF Next
  <1>2. CASE UNCHANGED vars
    <2>1. UNCHANGED <<vm, unmapping, unmaps, events, evtfd, monitor, mon, mutex, pt, pins, buffers, thr,
                      ring, reqs, tlb, csr, synced, missed, leaked, lost>>
      BY <1>2 DEF vars, kernelVars, tableVars, fpgaVars, historyVars
    <2>2. TypeOK'
      BY <2>1 DEF PinInv, TypeOK
    <2>3. Threads' /\ Entered' /\ Counted' /\ Balanced' /\ LeftOnce'
      BY <2>1 DEF PinInv, Threads, Placed, Missing, Owner, Entered, Counted, Balanced, Entries, Holders,
                  Left, LeftOnce
    <2>4. Service'
      <3>1. Busy' /\ Serving'
        BY <2>1 DEF PinInv, Service, Busy, Serving
      <3>2. AnswersMatch' /\ Enough'
        BY <2>1 DEF PinInv, Service, AnswersMatch, Enough, AnswersIn, Running
      <3> QED BY <3>1, <3>2 DEF Service
    <2> QED BY <2>2, <2>3, <2>4 DEF PinInv
  <1> QED BY <1>1, <1>2

LEMMA PinsInvariant == Spec => []PinInv
  BY PinsInit, PinsStep, PTL DEF Spec

(* Every pin belongs to an entry of the table or to a call that is making or *)
(* dropping one, whatever fails on the way, and however buffers, requests    *)
(* and the monitor interleave: none is dropped twice, and the only one ever  *)
(* left behind is that of the release whose shootdown could not be written,  *)
(* which also leaves the mutex locked.                                      *)
THEOREM PinsNeverLeak == Spec => []PinsInv
  <1>1. PinInv => PinsInv
    <2> SUFFICES ASSUME PinInv
                 PROVE  PinsInv
      OBVIOUS
    <2>1. ASSUME NEW f \in Frame
          PROVE  pins[f] = Cardinality({p \in Page : pt[p].frame = f})
                         + Cardinality({t \in Thread : thr[t].frame = f /\
                                           thr[t].pc \in {"inval", "insert", "shoot", "write", "unpin"}})
                         + (IF leaked = f THEN 1 ELSE 0)
      <3>1. pins[f] = Cardinality(Entries(f)) + Cardinality(Holders(f)) + Left(f)
        BY DEF PinInv, Balanced
      <3> QED BY <3>1 DEF Entries, Holders, Left, Owning
    <2> QED BY <2>1 DEF PinInv, PinsInv, PinsBalanced, LeftOnce
  <1> QED BY <1>1, PinsInvariant, PTL

(* The answers on their way and the requests in the ring are, in order, what *)
(* the FPGA waits for: as long as every answer was written, none is given to *)
(* another page's request.                                                  *)
THEOREM AnswersInOrder == Spec => []AnswersMatch
  <1>1. PinInv => AnswersMatch
    BY DEF PinInv, Service
  <1> QED BY <1>1, PinsInvariant, PTL

-----------------------------------------------------------------------------
(* What the FPGA reaches.                                                  *)

(* The FPGA reaches frame f at page p through its cache, through an answer   *)
(* on its way, or through the one that the server has in hand.               *)
Cached(p, f) == tlb[p] = f /\ ~Has(csr, Inval(p))
Answered(p, f) ==
    \E i \in 1 .. Len(csr) : csr[i] = Answer(p, f) /\ \A j \in i + 1 .. Len(csr) : csr[j] # Inval(p)
Due(p, f) == thr[Srv].pc = "answer" /\ thr[Srv].page = p /\ thr[Srv].frame = f

Reaches(p, f) == Cached(p, f) \/ Answered(p, f) \/ Due(p, f)

(* What it reaches is in the page table, but for the missed pages.  It holds *)
(* until an answer is lost.                                                 *)
ReachInv == \A p \in Page, f \in Frame : Reaches(p, f) => pt[p].frame = f \/ p \in missed

(* A page not unmapped since the last mpfVtpSync has no event outstanding.   *)
SyncInv == \A p \in synced : ~Unreported(p)

LEMMA InvalShoots ==
  ASSUME csr \in Seq(CsrWrite), NEW q \in Page, csr' = Append(csr, Inval(q)), tlb' = tlb
  PROVE  /\ \A f : ~Cached(q, f)' /\ ~Answered(q, f)'
         /\ \A p \in Page : \A f : Cached(p, f)' => Cached(p, f)
         /\ \A p \in Page : \A f : Answered(p, f)' => Answered(p, f)
  <1>1. Inval(q) \in CsrWrite
    BY DEF Inval, CsrWrite
  <1>2. /\ Len(csr) \in Nat /\ Len(csr') = Len(csr) + 1 /\ csr'[Len(csr) + 1] = Inval(q)
        /\ \A i \in 1 .. Len(csr) : csr'[i] = csr[i]
    BY <1>1
  <1>3. \A p, f : Inval(q) # Answer(p, f)
    <2>1. \A p, f : Inval(q).kind = "inval" /\ Answer(p, f).kind = "rsp"
      BY DEF Inval, Answer
    <2> QED BY <2>1
  <1>4. \A f : ~Cached(q, f)'
    BY <1>2 DEF Cached, Has
  <1>5. ASSUME NEW f, Answered(q, f)'
        PROVE  FALSE
    <2>1. PICK i \in 1 .. Len(csr') : csr'[i] = Answer(q, f) /\ \A j \in i + 1 .. Len(csr') : csr'[j] # Inval(q)
      BY <1>5 DEF Answered
    <2>2. i # Len(csr) + 1
      BY <1>2, <1>3, <2>1
    <2>3. Len(csr) + 1 \in i + 1 .. Len(csr')
      BY <1>2, <2>1, <2>2
    <2> QED BY <1>2, <2>1, <2>3
  <1>6. ASSUME NEW p \in Page, NEW f, Cached(p, f)'
        PROVE  Cached(p, f)
    <2>1. ASSUME NEW i \in 1 .. Len(csr)
          PROVE  csr[i] # Inval(p)
      BY <1>2, <1>6, <2>1 DEF Cached, Has
    <2> QED BY <1>6, <2>1 DEF Cached, Has
  <1>7. ASSUME NEW p \in Page, NEW f, Answered(p, f)'
        PROVE  Answered(p, f)
    <2>1. PICK i \in 1 .. Len(csr') : csr'[i] = Answer(p, f) /\ \A j \in i + 1 .. Len(csr') : csr'[j] # Inval(p)
      BY <1>7 DEF Answered
    <2>2. i \in 1 .. Len(csr)
      <3>1. i # Len(csr) + 1
        BY <1>2, <1>3, <2>1
      <3> QED BY <1>2, <2>1, <3>1
    <2>3. \A j \in i + 1 .. Len(csr) : csr[j] # Inval(p)
      <3> SUFFICES ASSUME NEW j \in i + 1 .. Len(csr)
                   PROVE  csr[j] # Inval(p)
        OBVIOUS
      <3>1. j \in i + 1 .. Len(csr') /\ j \in 1 .. Len(csr)
        BY <1>2, <2>2
      <3> QED BY <1>2, <2>1, <3>1
    <2> QED BY <1>2, <2>1, <2>2, <2>3 DEF Answered
  <1> QED BY <1>4, <1>5, <1>6, <1>7

\* A step that adds no answer: the FPGA reaches no more than before, and the
\* table keeps what it reaches.
LEMMA ReachKept ==
  ASSUME ReachInv, csr \in Seq(CsrWrite), tlb' = tlb, missed \subseteq missed',
         csr' = csr \/ \E q \in Page : csr' = Append(csr, Inval(q)),
         \A p \in Page, f \in Frame : Due(p, f)' => Due(p, f) \/ pt'[p].frame = f,
         \A p \in Page : pt[p].frame \in Frame => pt'[p].frame = pt[p].frame
  PROVE  ReachInv'
  <1>1. \A p \in Page : \A f : (Cached(p, f)' => Cached(p, f)) /\ (Answered(p, f)' => Answered(p, f))
    <2>1. CASE csr' = csr
      BY <2>1 DEF Cached, Answered
    <2>2. ASSUME NEW q \in Page, csr' = Append(csr, Inval(q))
          PROVE  \A p \in Page : \A f : (Cached(p, f)' => Cached(p, f)) /\ (Answered(p, f)' => Answered(p, f))
      BY <2>2, InvalShoots
    <2> QED BY <2>1, <2>2
  <1>2. ASSUME NEW p \in Page, NEW f \in Frame, Reaches(p, f)'
        PROVE  pt'[p].frame = f \/ p \in missed'
    <2>1. CASE Reaches(p, f)
      BY <2>1 DEF ReachInv
    <2>2. CASE pt'[p].frame = f
      BY <2>2
    <2> QED BY <1>1, <1>2, <2>1, <2>2 DEF Reaches
  <1> QED BY <1>2 DEF ReachInv

\* A step that moves no answer.
LEMMA ReachQuiet ==
  ASSUME ReachInv, csr \in Seq(CsrWrite), UNCHANGED <<csr, tlb, pt, missed>>,
         thr'[Srv].pc = "answer" => thr'[Srv] = thr[Srv]
  PROVE  ReachInv'
  <1>1. \A p \in Page, f \in Frame : Due(p, f)' => Due(p, f)
    BY DEF Due
  <1> QED BY <1>1, ReachKept

\* Until a thread has found or pinned its page it has no answer.
LEMMA ThreadReach ==
  ASSUME TableInv, PinInv, ReachInv, NEW t \in Thread,
         \/ MonitorInit(t) \/ PollLock(t) \/ PollState(t) \/ LookupMiss(t)
         \/ PinPage(t) \/ PinRetry(t)
  PROVE  ReachInv'
  <1>1. thr \in [Thread -> Activity] /\ thr[t] \in Activity /\ csr \in Seq(CsrWrite)
    BY DEF PinInv, TypeOK
  <1>2. UNCHANGED <<csr, tlb, pt, missed>>
    BY DEF MonitorInit, PollLock, PollState, LookupMiss, PinPage, PinRetry, tableVars, fpgaVars, historyVars
  <1>3. thr'[t].pc # "answer" /\ Elsewhere(t)
    <2>1. \A pc \in {"poll", "state", "lookup", "pin", "repin"} : [thr[t] EXCEPT !.pc = pc] \in Activity
      BY <1>1 DEF Activity
    <2>2. ASSUME NEW pc \in {"poll", "state", "lookup", "pin", "repin"}, Goto(t, pc)
          PROVE  thr'[t].pc # "answer" /\ Elsewhere(t)
      BY <1>1, <2>1, <2>2, GotoMoves
    <2>3. CASE PastWait(t)
      BY <1>1, <2>2, <2>3, IdleMoves DEF PastWait
    <2>4. CASE PinPage(t)
      <3>1. PICK f : thr' = [thr EXCEPT ![t].pc = "inval", ![t].frame = f]
        BY <2>4 DEF PinPage
      <3>2. thr'[t] = [thr[t] EXCEPT !.pc = "inval", !.frame = f]
        BY <1>1, <3>1
      <3> QED BY <1>1, <3>1, <3>2 DEF Activity, Elsewhere
    <2> QED BY <2>2, <2>3, <2>4 DEF MonitorInit, PollLock, PollState, LookupMiss, PinRetry
  <1> QED BY <1>1, <1>2, <1>3, MutexOwners, ReachQuiet DEF Elsewhere

\* What the server answers is in the table when it has it in hand.
LEMMA FoundReach ==
  ASSUME TableInv, PinInv, ReachInv, NEW t \in Thread, LookupHit(t) \/ PinFail(t) \/ PinUndo(t)
  PROVE  ReachInv'
  <1>1. /\ thr \in [Thread -> Activity] /\ csr \in Seq(CsrWrite) /\ pt \in [Page -> Entry]
        /\ thr[t].pc \in {"lookup", "pin", "repin", "inval", "insert"} /\ thr[t].page \in Page
        /\ thr[t].call # "prepare" /\ Srv \in Thread
    BY MutexOwners DEF PinInv, TypeOK, Threads, Placed, PlaceOK, Making, TableInv, NoBuffers,
                       LookupHit, PinFail, PinUndo, Undoing, At
  <1>2. UNCHANGED <<csr, tlb, pt, missed>>
    BY <1>1 DEF LookupHit, PinFail, PinUndo, fpgaVars, historyVars, tableVars
  <1>3. ASSUME NEW p \in Page, NEW f \in Frame, Due(p, f)'
        PROVE  Due(p, f) \/ pt[p].frame = f
    <2>1. PICK g \in Frame \union {None} : Finish(t, g) /\ g \in {None, pt[thr[t].page].frame}
      <3>1. pt[thr[t].page].frame \in Frame \union {None}
        BY <1>1 DEF Entry
      <3> QED BY <3>1 DEF LookupHit, PinFail, PinUndo
    <2>2. CASE t = Srv
      <3>1. thr'[t].page = thr[t].page /\ thr'[t].frame = g
        BY <1>1, <2>1, <2>2, FinishMoves
      <3> QED BY <1>3, <2>1, <2>2, <3>1, OnDemandAssumption DEF Due
    <2>3. CASE t # Srv
      <3>1. thr'[Srv] = thr[Srv]
        BY <1>1, <2>1, <2>3, FinishMoves DEF Elsewhere
      <3> QED BY <1>3, <3>1 DEF Due
    <2> QED BY <2>2, <2>3
  <1> QED BY <1>1, <1>2, <1>3, ReachKept

\* The shootdown before a new entry, and the entry.
LEMMA InsertReach ==
  ASSUME TableInv, PinInv, ReachInv, NEW t \in Thread, PinInval(t) \/ PinInsert(t)
  PROVE  ReachInv'
  <1>1. /\ thr \in [Thread -> Activity] /\ thr[t] \in Activity /\ csr \in Seq(CsrWrite)
        /\ thr[t].pc \in {"inval", "insert"} /\ thr[t].page \in Page /\ thr[t].frame \in Frame
        /\ pt[thr[t].page] = NoEntry /\ pt \in [Page -> Entry] /\ Srv \in Thread
    BY MutexOwners DEF PinInv, TypeOK, Threads, Placed, PlaceOK, Missing, Making, Owning,
                       PinInval, PinInsert, At
  <1>2. tlb' = tlb /\ missed' = missed
    BY DEF PinInval, PinInsert, fpgaVars, historyVars
  <1>3. CASE PinInval(t)
    <2>1. csr' = Append(csr, Inval(thr[t].page)) /\ pt' = pt
      BY <1>3 DEF PinInval, tableVars
    <2>2. [thr[t] EXCEPT !.pc = "insert"] \in Activity
      BY <1>1 DEF Activity
    <2>3. thr'[t].pc = "insert" /\ Elsewhere(t)
      BY <1>1, <1>3, <2>2, GotoMoves DEF PinInval
    <2>4. \A p \in Page, f \in Frame : Due(p, f)' => Due(p, f)
      BY <1>1, <2>3 DEF Due, Elsewhere
    <2> QED BY <1>1, <1>2, <2>1, <2>4, ReachKept
  <1>4. CASE PinInsert(t)
    <2>1. /\ pt' = [pt EXCEPT ![thr[t].page] = [frame |-> thr[t].frame, ref |-> 1]]
          /\ csr' = csr /\ Finish(t, thr[t].frame)
      BY <1>4 DEF PinInsert
    <2>2. /\ pt'[thr[t].page].frame = thr[t].frame
          /\ \A p \in Page : p # thr[t].page => pt'[p] = pt[p]
      BY <1>1, <2>1
    <2>3. \A p \in Page : pt[p].frame \in Frame => pt'[p].frame = pt[p].frame
      BY <1>1, <2>2, OnDemandAssumption DEF NoEntry
    <2>4. ASSUME NEW p \in Page, NEW f \in Frame, Due(p, f)'
          PROVE  Due(p, f) \/ pt'[p].frame = f
      <3>1. CASE t = Srv
        <4>1. thr'[t].page = thr[t].page /\ thr'[t].frame = thr[t].frame
          BY <1>1, <2>1, <3>1, FinishMoves
        <4> QED BY <2>2, <2>4, <3>1, <4>1 DEF Due
      <3>2. CASE t # Srv
        <4>1. thr'[Srv] = thr[Srv]
          BY <1>1, <2>1, <3>2, FinishMoves DEF Elsewhere
        <4> QED BY <2>4, <4>1 DEF Due
      <3> QED BY <3>1, <3>2
    <2> QED BY <1>1, <1>2, <2>1, <2>3, <2>4, ReachKept
  <1> QED BY <1>3, <1>4

\* The monitor drops an entry.  Its shootdown is ordered after every answer for
\* the page but the one that the server has in hand.
LEMMA EventReach ==
  ASSUME TableInv, PinInv, ReachInv, MonEvent
  PROVE  ReachInv'
  <1>1. /\ events \in Seq(Page) /\ mon.pc = "drain" /\ mon.count > 0 /\ mon.count \in Nat
        /\ Len(events) = evtfd + mon.count /\ evtfd \in Nat
        /\ csr \in Seq(CsrWrite) /\ pt \in [Page -> Entry]
    BY DEF MonEvent, PinInv, TypeOK, Counted
  <1>2. PICK p \in Page : p = Head(events)
    <2>1. events # <<>>
      BY <1>1
    <2> QED BY <1>1, <2>1
  <1>3. UNCHANGED <<thr, tlb>>
    BY DEF MonEvent, fpgaVars
  <1>4. pt[p] = NoEntry \/ (pt[p].frame \in Frame /\ pt[p].ref = 1)
    BY <1>2 DEF TableInv, RefOne
  <1>5. CASE pt[p] = NoEntry
    <2>1. UNCHANGED <<pt, csr, missed>>
      BY <1>2, <1>5 DEF MonEvent, NoEntry
    <2> QED BY <1>1, <1>3, <2>1, ReachQuiet
  <1>6. CASE pt[p] # NoEntry
    <2>1. /\ pt' = [pt EXCEPT ![p] = NoEntry]
          /\ \/ /\ csr' = Append(csr, Inval(p))
                /\ missed' = IF AnswerDue(p) THEN missed \union {p} ELSE missed \ {p}
             \/ csr' = csr /\ missed' = missed \union {p}
      BY <1>2, <1>4, <1>6 DEF MonEvent, ShotDown, NotShotDown
    <2>2. \A q \in Page : q # p => pt'[q] = pt[q] /\ (q \in missed' <=> q \in missed)
      BY <1>1, <2>1
    <2>3. /\ p \in missed' \/ \A f : ~Cached(p, f)' /\ ~Answered(p, f)'
          /\ \A q \in Page : \A f : (Cached(q, f)' => Cached(q, f)) /\ (Answered(q, f)' => Answered(q, f))
      <3>1. CASE csr' = Append(csr, Inval(p))
        BY <1>1, <1>2, <1>3, <3>1, InvalShoots
      <3>2. CASE csr' = csr /\ p \in missed'
        BY <1>3, <3>2 DEF Cached, Answered
      <3> QED BY <1>2, <2>1, <3>1, <3>2
    <2>4. ASSUME NEW q \in Page, NEW f \in Frame, Reaches(q, f)'
          PROVE  pt'[q].frame = f \/ q \in missed'
      <3>1. Due(q, f)' => Due(q, f)
        BY <1>3 DEF Due
      <3>2. CASE q # p
        <4>1. Reaches(q, f)
          BY <2>3, <2>4, <3>1 DEF Reaches
        <4> QED BY <2>2, <3>2, <4>1 DEF ReachInv
      <3>3. CASE q = p
        <4>1. p \in missed' \/ AnswerDue(p)
          BY <2>3, <2>4, <3>1, <3>3, OnDemandAssumption DEF Reaches, Due, AnswerDue
        <4> QED BY <2>1, <3>3, <4>1
      <3> QED BY <3>2, <3>3
    <2> QED BY <2>4 DEF ReachInv
  <1> QED BY <1>5, <1>6

\* An answer on its way is the one that the server had in hand.
LEMMA AnswerReach ==
  ASSUME PinInv, ReachInv, SrvAnswer, ~lost'
  PROVE  ReachInv'
  <1>1. /\ thr \in [Thread -> Activity] /\ csr \in Seq(CsrWrite) /\ Srv \in Thread
        /\ thr[Srv].pc = "answer" /\ thr[Srv].page \in Page /\ thr[Srv].frame \in Frame \union {None}
    BY MutexOwners DEF SrvAnswer, At, PinInv, TypeOK, Threads, Placed, PlaceOK, Activity
  <1>2. PICK P \in Page, F \in Frame \union {None} : P = thr[Srv].page /\ F = thr[Srv].frame
    BY <1>1
  <1>3. csr' = Append(csr, Answer(P, F)) /\ UNCHANGED <<tlb, pt, missed>>
    BY <1>2 DEF SrvAnswer, tableVars, historyVars
  <1>4. thr'[Srv].pc # "answer"
    <2>1. [thr[Srv] EXCEPT !.pc = "aborted"] \in Activity
      BY <1>1 DEF Activity
    <2> QED BY <1>1, <2>1, GotoMoves, IdleMoves DEF SrvAnswer
  <1>5. Answer(P, F) \in CsrWrite
    BY DEF Answer, CsrWrite
  <1>6. /\ Len(csr) \in Nat /\ Len(csr') = Len(csr) + 1 /\ csr'[Len(csr) + 1] = Answer(P, F)
        /\ \A i \in 1 .. Len(csr) : csr'[i] = csr[i]
    BY <1>1, <1>3, <1>5
  <1>7. ASSUME NEW p \in Page, NEW f \in Frame, Cached(p, f)'
        PROVE  Cached(p, f)
    <2>1. ASSUME NEW i \in 1 .. Len(csr)
          PROVE  csr[i] # Inval(p)
      BY <1>6, <1>7, <2>1 DEF Cached, Has
    <2> QED BY <1>3, <1>7, <2>1 DEF Cached, Has
  <1>8. ASSUME NEW p \in Page, NEW f \in Frame, Answered(p, f)'
        PROVE  Answered(p, f) \/ Due(p, f)
    <2>1. PICK i \in 1 .. Len(csr') : csr'[i] = Answer(p, f) /\ \A j \in i + 1 .. Len(csr') : csr'[j] # Inval(p)
      BY <1>8 DEF Answered
    <2>2. CASE i = Len(csr) + 1
      <3>1. Answer(P, F) = Answer(p, f)
        BY <1>6, <2>1, <2>2
      <3>2. P = p /\ F = f
        <4>1. Answer(P, F).page = P /\ Answer(P, F).frame = F /\ Answer(p, f).page = p /\ Answer(p, f).frame = f
          BY DEF Answer
        <4> QED BY <3>1, <4>1
      <3> QED BY <1>1, <1>2, <3>2 DEF Due
    <2>3. CASE i # Len(csr) + 1
      <3>1. i \in 1 .. Len(csr) /\ csr[i] = Answer(p, f)
        BY <1>6, <2>1, <2>3
      <3>2. ASSUME NEW j \in i + 1 .. Len(csr)
            PROVE  csr[j] # Inval(p)
        <4>1. j \in i + 1 .. Len(csr') /\ j \in 1 .. Len(csr)
          BY <1>6, <3>1
        <4> QED BY <1>6, <2>1, <4>1
      <3> QED BY <3>1, <3>2 DEF Answered
    <2> QED BY <2>2, <2>3
  <1>9. ASSUME NEW p \in Page, NEW f \in Frame, Reaches(p, f)'
        PROVE  pt'[p].frame = f \/ p \in missed'
    <2>1. Reaches(p, f)
      BY <1>4, <1>7, <1>8, <1>9 DEF Reaches, Due
    <2> QED BY <1>3, <2>1 DEF ReachInv
  <1> QED BY <1>9 DEF ReachInv

\* What arrives in the cache was on its way, to the page that asked for it.
LEMMA DeliverReach ==
  ASSUME PinInv, Running, ReachInv, Deliver, ~lost
  PROVE  ReachInv'
  <1>1. /\ csr \in Seq(CsrWrite) /\ tlb \in [Page -> Frame \union {None, NotPresent}]
        /\ reqs \in Seq(Req)
    BY DEF PinInv, TypeOK
  <1>2. UNCHANGED <<thr, pt, missed>>
    BY DEF Deliver, tableVars, historyVars
  <1>3. PICK c : c = Head(csr)
    OBVIOUS
  <1>4. csr # <<>> /\ csr' = Tail(csr)
    BY DEF Deliver
  <1>5. /\ Len(csr) \in Nat \ {0} /\ Len(csr') = Len(csr) - 1 /\ c = csr[1] /\ c \in CsrWrite
        /\ \A i \in 1 .. Len(csr) - 1 : csr'[i] = csr[i + 1]
    BY <1>1, <1>3, <1>4
  <1>6. PICK q \in Page : q = c.page
    BY <1>5 DEF CsrWrite
  <1>7. tlb' = [tlb EXCEPT ![q] = IF c.kind = "inval" THEN None
                                  ELSE IF c.frame = None THEN NotPresent ELSE c.frame]
    <2>1. CASE c.kind = "inval"
      BY <1>3, <1>6, <2>1 DEF Deliver
    <2>2. CASE c.kind # "inval"
      <3>1. c.kind = "rsp"
        BY <1>5, <2>2 DEF CsrWrite
      <3>2. Head(reqs).page = q
        BY <1>3, <1>6, <3>1, PinsDeliver
      <3> QED BY <1>3, <2>2, <3>2 DEF Deliver
    <2> QED BY <2>1, <2>2
  <1>8. ASSUME NEW p \in Page, NEW f \in Frame, Answered(p, f)'
        PROVE  Answered(p, f)
    <2>1. PICK i \in 1 .. Len(csr') : csr'[i] = Answer(p, f) /\ \A j \in i + 1 .. Len(csr') : csr'[j] # Inval(p)
      BY <1>8 DEF Answered
    <2>2. i + 1 \in 1 .. Len(csr) /\ csr[i + 1] = Answer(p, f)
      BY <1>5, <2>1
    <2>3. ASSUME NEW j \in (i + 1) + 1 .. Len(csr)
          PROVE  csr[j] # Inval(p)
      <3>1. j - 1 \in i + 1 .. Len(csr') /\ j - 1 \in 1 .. Len(csr) - 1 /\ (j - 1) + 1 = j
        BY <1>5, <2>1
      <3> QED BY <1>5, <2>1, <3>1
    <2> QED BY <2>2, <2>3 DEF Answered
  <1>9. ASSUME NEW p \in Page, NEW f \in Frame, Cached(p, f)'
        PROVE  Cached(p, f) \/ Answered(p, f)
    <2>1. ASSUME NEW j \in 2 .. Len(csr)
          PROVE  csr[j] # Inval(p)
      <3>1. j - 1 \in 1 .. Len(csr') /\ j - 1 \in 1 .. Len(csr) - 1 /\ (j - 1) + 1 = j
        BY <1>5
      <3> QED BY <1>5, <1>9, <3>1 DEF Cached, Has
    <2>2. CASE p # q
      <3>1. c # Inval(p)
        BY <1>6, <2>2 DEF Inval
      <3>2. \A j \in 1 .. Len(csr) : csr[j] # Inval(p)
        BY <1>5, <2>1, <3>1
      <3>3. tlb'[p] = tlb[p]
        BY <1>1, <1>7, <2>2
      <3> QED BY <1>9, <3>2, <3>3 DEF Cached, Has
    <2>3. CASE p = q
      <3>1. f # None /\ f # NotPresent /\ tlb'[p] = f
        BY <1>9, OnDemandAssumption DEF Cached
      <3>2. c.kind # "inval" /\ c.frame = f
        BY <1>1, <1>7, <2>3, <3>1
      <3>3. c = Answer(p, f)
        BY <1>5, <1>6, <2>3, <3>2 DEF CsrWrite, Answer
      <3>4. 1 \in 1 .. Len(csr) /\ 1 + 1 = 2
        BY <1>5
      <3> QED BY <1>5, <2>1, <3>3, <3>4 DEF Answered
    <2> QED BY <2>2, <2>3
  <1>10. ASSUME NEW p \in Page, NEW f \in Frame, Reaches(p, f)'
         PROVE  pt'[p].frame = f \/ p \in missed'
    <2>1. Reaches(p, f)
      BY <1>2, <1>8, <1>9, <1>10 DEF Reaches, Due
    <2> QED BY <1>2, <2>1 DEF ReachInv
  <1> QED BY <1>10 DEF ReachInv

LEMMA LostForGood ==
  ASSUME [Next]_vars, lost
  PROVE  lost'
  <1>1. CASE UNCHANGED vars
    BY <1>1 DEF vars, historyVars
  <1>2. ASSUME NEW t \in Thread, Inside(t)
        PROVE  lost'
    BY <1>2 DEF Inside, MonitorInit, PollLock, PollState, LookupHit, LookupMiss, PinPage, PinRetry,
                PinFail, PinInval, PinInsert, PinUndo, ReleaseEntry, ReleaseLock, ReleaseInval,
                ReleaseInvalFails, ReleasePin, historyVars
  <1>3. ASSUME NEW a \in App, Application(a)
        PROVE  lost'
    BY <1>3 DEF Application, Munmap, Mmap, CallGet, CallPrepare, CallRelease, CallSync, historyVars
  <1>4. CASE Monitor \/ MunmapDone \/ Server \/ Fpga \/ Deliver
    BY <1>4 DEF Monitor, MonRead, MonLock, MonEvent, MonUnlock, MunmapDone, Server, SrvTake, SrvAnswer,
                Fpga, AskSpeculatively, Ask, Deliver, historyVars
  <1> QED BY <1>1, <1>2, <1>3, <1>4 DEF Next

LEMMA ReachStep ==
  ASSUME OnDemandOnly, TableInv, PinInv, lost \/ ReachInv, [Next]_vars
  PROVE  lost' \/ ReachInv'
  <1> SUFFICES ASSUME ~lost', ~lost, ReachInv
               PROVE  ReachInv'
    BY LostForGood
  <1>1. thr \in [Thread -> Activity] /\ csr \in Seq(CsrWrite) /\ Srv \in Thread
    BY MutexOwners DEF PinInv, TypeOK
  <1>2. CASE UNCHANGED vars
    BY <1>1, <1>2, ReachQuiet DEF vars, tableVars, fpgaVars, historyVars
  <1>3. CASE Next
    <2>1. Running
      BY <1>3 DEF Next
    <2>2. ASSUME NEW t \in Thread, Inside(t)
          PROVE  ReachInv'
      <3>1. ~Releases(t)
        BY NoReleases
      <3> QED BY <2>2, <3>1, ThreadReach, FoundReach, InsertReach DEF Inside, Releases
    <2>3. CASE \/ \E a \in App, p \in Page : Munmap(a, p) \/ \E f \in Frame : Mmap(a, p, f)
               \/ MunmapDone \/ MonRead \/ MonLock \/ MonUnlock \/ Fpga
      <3>1. UNCHANGED <<csr, tlb, pt, missed, thr>>
        BY <2>3 DEF Munmap, Mmap, MunmapDone, MonRead, MonLock, MonUnlock, Fpga, AskSpeculatively, Ask,
                    tableVars, fpgaVars, historyVars
      <3> QED BY <1>1, <3>1, ReachQuiet
    <2>4. CASE \/ \E a \in App, p \in Page : CallGet(a, p) \/ CallPrepare(a, p) \/ CallRelease(a, p)
               \/ \E a \in App, call \in {"sync", "try"} : CallSync(a, call)
               \/ SrvTake
      <3>1. UNCHANGED <<csr, tlb, pt, missed>>
        BY <2>4 DEF CallGet, CallPrepare, CallRelease, CallSync, SrvTake, tableVars, fpgaVars, historyVars
      <3>2. ASSUME NEW t \in Thread, NEW pc \in {"init", "lookup", "poll", "forget"},
                   NEW call, NEW p, thr' = [thr EXCEPT ![t] = Doing(pc, call, p)]
            PROVE  thr'[Srv].pc = "answer" => thr'[Srv] = thr[Srv]
        <4>1. Doing(pc, call, p).pc # "answer"
          BY DEF Doing
        <4> QED BY <1>1, <3>2, <4>1
      <3>3. ASSUME NEW t \in Thread, Return(t)
            PROVE  thr'[Srv].pc = "answer" => thr'[Srv] = thr[Srv]
        BY <1>1, <3>3, IdleMoves DEF Elsewhere
      <3>4. ASSUME NEW t \in Thread, NEW call, NEW p, Wait(t, call, p)
            PROVE  thr'[Srv].pc = "answer" => thr'[Srv] = thr[Srv]
        BY <3>2, <3>3, <3>4 DEF Wait
      <3>5. App \subseteq Thread
        BY DEF Thread
      <3>6. thr'[Srv].pc = "answer" => thr'[Srv] = thr[Srv]
        BY <1>1, <2>4, <3>2, <3>4, <3>5 DEF CallGet, CallPrepare, CallRelease, CallSync, SrvTake
      <3> QED BY <1>1, <3>1, <3>6, ReachQuiet
    <2>5. CASE MonEvent
      BY <2>5, EventReach
    <2>6. CASE SrvAnswer \/ Deliver
      BY <2>1, <2>6, AnswerReach, DeliverReach
    <2> QED BY <1>3, <2>2, <2>3, <2>4, <2>5, <2>6 DEF Next, Application, Monitor, Server
  <1> QED BY <1>2, <1>3

\* mpfVtpSync returns when no event is outstanding.
LEMMA SyncStep ==
  ASSUME OnDemandOnly, TableInv, PinInv, SyncInv, [Next]_vars
  PROVE  SyncInv'
  <1>1. /\ events \in Seq(Page) /\ Len(events) \in Nat
        /\ unmapping = {} \/ \E p \in Page : unmapping = {p}
    BY DEF TableInv, Shape, OneUnmap
  <1>2. ASSUME UNCHANGED <<unmapping, events>>
        PROVE  \A p : Unreported(p)' <=> Unreported(p)
    BY <1>2 DEF Unreported
  <1>3. CASE UNCHANGED <<unmapping, events, synced>>
    BY <1>2, <1>3 DEF SyncInv
  <1>4. ASSUME NEW a \in App, NEW p \in Page, Munmap(a, p)
        PROVE  SyncInv'
    <2>1. synced' = synced \ {p} /\ unmapping' = {p} /\ events' = events
      BY <1>4 DEF Munmap, TableInv, NoBuffers
    <2> QED BY <2>1 DEF SyncInv, Unreported
  <1>5. CASE MunmapDone
    <2>1. PICK p \in Page : unmapping = {p} /\ unmapping' = {} /\ events' = Append(events, p)
                            /\ synced' = synced
      BY <1>1, <1>5 DEF MunmapDone, historyVars
    <2>2. \A q : Unreported(q)' => Unreported(q)
      BY <1>1, <2>1, HasAppend DEF Unreported
    <2> QED BY <2>1, <2>2 DEF SyncInv
  <1>6. ASSUME NEW t \in Thread, PollState(t)
        PROVE  SyncInv'
    <2>1. UNCHANGED <<unmapping, events>>
      BY <1>6 DEF PollState, kernelVars
    <2>2. CASE synced' = synced
      BY <1>3, <2>1, <2>2
    <2>3. CASE ~(EvtCnt > 0)
      <3>1. Cardinality(unmapping) \in Nat /\ (Cardinality(unmapping) = 0 => unmapping = {})
        <4>1. CASE unmapping = {}
          BY <4>1, FS_EmptySet
        <4>2. CASE \E p \in Page : unmapping = {p}
          <5>1. Cardinality(unmapping) = 1
            BY <4>2, FS_Singleton
          <5> QED BY <5>1
        <4> QED BY <1>1, <4>1, <4>2
      <3>2. unmapping = {} /\ Len(events) = 0
        BY <1>1, <2>3, <3>1 DEF EvtCnt
      <3>3. \A p : ~Unreported(p)
        BY <3>2 DEF Unreported, Has
      <3> QED BY <1>2, <2>1, <3>3 DEF SyncInv
    <2> QED BY <1>6, <2>2, <2>3 DEF PollState
  <1>7. CASE MonEvent
    <2>1. events' = Tail(events) /\ UNCHANGED <<unmapping, synced>> /\ mon.count > 0
      BY <1>7 DEF MonEvent
    <2>2. events # <<>>
      <3>1. Len(events) = evtfd + mon.count /\ evtfd \in Nat /\ mon.count \in Nat
        BY DEF PinInv, TypeOK, Counted
      <3> QED BY <1>1, <2>1, <3>1
    <2>3. \A q : Unreported(q)' => Unreported(q)
      BY <1>1, <2>1, <2>2, HasTail DEF Unreported
    <2> QED BY <2>1, <2>3 DEF SyncInv
  <1>8. CASE UNCHANGED vars
    BY <1>3, <1>8 DEF vars, kernelVars, historyVars
  <1>9. ASSUME NEW t \in Thread, Inside(t), ~PollState(t)
        PROVE  UNCHANGED <<unmapping, events, synced>>
    BY <1>9 DEF Inside, MonitorInit, PollLock, LookupHit, LookupMiss, PinPage, PinRetry, PinFail,
                PinInval, PinInsert, PinUndo, ReleaseEntry, ReleaseLock, ReleaseInval,
                ReleaseInvalFails, ReleasePin, kernelVars, historyVars
  <1>10. ASSUME NEW a \in App, NEW p \in Page,
                \/ CallGet(a, p) \/ CallPrepare(a, p) \/ CallRelease(a, p)
                \/ \E f \in Frame : Mmap(a, p, f)
         PROVE  UNCHANGED <<unmapping, events, synced>>
    BY <1>10 DEF CallGet, CallPrepare, CallRelease, Mmap, kernelVars, historyVars
  <1>11. ASSUME \/ \E a \in App, call \in {"sync", "try"} : CallSync(a, call)
                \/ MonRead \/ MonLock \/ MonUnlock \/ Server \/ Fpga \/ Deliver
         PROVE  UNCHANGED <<unmapping, events, synced>>
    BY <1>11 DEF CallSync, MonRead, MonLock, MonUnlock, Server, SrvTake, SrvAnswer, Fpga,
                 AskSpeculatively, Ask, Deliver, kernelVars, historyVars
  <1> QED BY <1>3, <1>4, <1>5, <1>6, <1>7, <1>8, <1>9, <1>10, <1>11 DEF Next, Application, Monitor

(* As long as every answer was written, what the FPGA has cached is current  *)
(* and pinned, now and past a sync: but for a page with an event             *)
(* outstanding, for a shootdown on its way, and for a page that was missed   *)
(* when it was released.                                                    *)
THEOREM CacheAccounted == OnDemandOnly => (Spec => []CacheExplained)
  <1> SUFFICES ASSUME OnDemandOnly
               PROVE  Spec => []CacheExplained
    OBVIOUS
  <1>1. Init => (lost \/ ReachInv) /\ SyncInv
    <2> SUFFICES ASSUME Init
                 PROVE  ReachInv /\ SyncInv
      OBVIOUS
    <2>1. \A p \in Page : \A f \in Frame : ~Cached(p, f) /\ ~Answered(p, f) /\ ~Due(p, f)
      BY OnDemandAssumption, MutexOwners DEF Init, Cached, Answered, Due, Idle, Doing
    <2>2. \A p : ~Unreported(p)
      BY DEF Init, Unreported, Has
    <2> QED BY <2>1, <2>2 DEF ReachInv, Reaches, SyncInv
  <1>2. TableInv /\ PinInv /\ (lost \/ ReachInv) /\ SyncInv /\ [Next]_vars
            => (lost \/ ReachInv)' /\ SyncInv'
    BY ReachStep, SyncStep
  <1>3. TableInv /\ PinInv /\ (lost \/ ReachInv) /\ SyncInv => CacheExplained
    <2> SUFFICES ASSUME TableInv, PinInv, ReachInv, SyncInv
                 PROVE  StaleExplained /\ CachedMeansPinned /\ CurrentAfterSync
      BY DEF CacheExplained
    <2>1. ASSUME NEW p \in Page, tlb[p] \in Frame, ~Has(csr, Inval(p)), p \notin missed
          PROVE  pt[p].frame = tlb[p]
      BY <2>1 DEF ReachInv, Reaches, Cached
    <2>2. StaleExplained
      BY <2>1, OnDemandAssumption DEF StaleExplained, TableInv, NoStalePin
    <2>3. CachedMeansPinned
      <3> SUFFICES ASSUME NEW p \in Page, tlb[p] \in Frame, pins[tlb[p]] = 0,
                          ~Has(csr, Inval(p)), p \notin missed
                   PROVE  FALSE
        BY DEF CachedMeansPinned
      <3>1. p \in Entries(tlb[p])
        BY <2>1 DEF Entries
      <3>2. /\ IsFiniteSet(Entries(tlb[p])) /\ IsFiniteSet(Holders(tlb[p]))
            /\ pins[tlb[p]] = Cardinality(Entries(tlb[p])) + Cardinality(Holders(tlb[p])) + Left(tlb[p])
        BY DEF PinInv, Balanced
      <3> HIDE DEF Entries, Holders
      <3>3. Cardinality(Entries(tlb[p])) \in Nat /\ Cardinality(Holders(tlb[p])) \in Nat
            /\ Cardinality(Entries(tlb[p])) # 0 /\ Left(tlb[p]) \in Nat
        BY <3>1, <3>2, FS_CardinalityType, FS_EmptySet DEF Left
      <3> QED BY <3>2, <3>3
    <2>4. CurrentAfterSync
      BY <2>2 DEF StaleExplained, CurrentAfterSync, SyncInv, PinInv, TypeOK
    <2> QED BY <2>2, <2>3, <2>4
  <1> QED BY <1>1, <1>2, <1>3, ServerInvariant, PinsInvariant, PTL DEF Spec
=============================================================================
