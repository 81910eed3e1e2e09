----------------------------- MODULE RingProofs -----------------------------
(***************************************************************************)
(* Theorems about the two rings whose slots are used again before their    *)
(* reader has told the writer so: the request ring of the translation      *)
(* channel (VtpSrvRing) and the reorder buffer of sorted read responses    *)
(* (RspOrder).  In both the writer relies on a limit of what is under way, *)
(* and both proofs count from the reader's place how far ahead a slot is.  *)
(*                                                                         *)
(* For every number of slots and every depth of the FIFO that leaves a     *)
(* slot over, no request is overwritten, and the channel is a translation  *)
(* port.  For every size of the buffer, every length of request and every  *)
(* delay of the almost-full signal, the buffer is never filled, its valid  *)
(* bits always tell the present trip, and lines are returned in the order  *)
(* in which they were asked for.                                           *)
(***************************************************************************)
EXTENDS VtpSrvRing, RspOrder, TLAPS

-----------------------------------------------------------------------------
(* The request ring.                                                       *)

(* The server is in the slot of a request that it has answered.            *)
Lag == IF srv.pc \in {"answered", "aborted"} THEN 1 ELSE 0

(* Slots that are not free: those of unanswered requests and that one.     *)
Live == Len(fifo) - Len(csr) + Lag

(* How far a slot is ahead of the server's.                                *)
Ahead(s) == IF s >= srv.next THEN s - srv.next ELSE s - srv.next + Slots

Counts ==
    /\ Len(csr) <= Len(fifo)
    /\ srv.pc = "off" => Quiet /\ ~connected
    /\ ringIdx = IF srv.next + Live < Slots THEN srv.next + Live ELSE srv.next + Live - Slots

NoWrite(s) == \A w \in writes : w.slot # s

Unused == \A s \in Slot : Ahead(s) >= Live => slots[s] = 0 /\ NoWrite(s)

Answered == Lag = 1 => NoWrite(srv.next)

(* The slot of an unanswered request holds it or is about to.              *)
Holds(s, d) ==
    \/ slots[s] = d /\ NoWrite(s)
    \/ slots[s] = 0 /\ \A w \in writes : w.slot = s => w.data = d

Held ==
    \A s \in Slot : Lag <= Ahead(s) /\ Ahead(s) < Live =>
        Holds(s, Encoded(fifo[Len(csr) + Ahead(s) - Lag + 1]))

Answers ==
    \A j \in 1 .. Len(csr) : \E o \in Outcome[fifo[j].page] : csr[j] = AnswerOf(o)

RingInv == TypeOK /\ Counts /\ Unused /\ Answered /\ Held /\ Answers

-----------------------------------------------------------------------------
(* The encodings.                                                          *)

LEMMA EncodedRequest ==
  ASSUME NEW r \in Requests
  PROVE  /\ Encoded(r) \in Nat \ {0} /\ PageOf(Encoded(r)) = r.page
         /\ IsSpeculative(Encoded(r)) <=> r.spec
  <1>0. r.page \in Nat /\ r.spec \in BOOLEAN
    BY RingAssumption
  <1>1. CASE r.spec
    <2>1. Encoded(r) = 4096 * r.page + 3
      BY <1>0, <1>1 DEF Encoded
    <2>2. (4096 * r.page + 3) \div 4096 = r.page /\ (4096 * r.page + 3) \div 2 = 2048 * r.page + 1
      BY <1>0
    <2>3. (2048 * r.page + 1) % 2 = 1
      BY <1>0
    <2> QED BY <1>0, <1>1, <2>1, <2>2, <2>3 DEF PageOf, IsSpeculative
  <1>2. CASE ~r.spec
    <2>1. Encoded(r) = 4096 * r.page + 1
      BY <1>0, <1>2 DEF Encoded
    <2>2. (4096 * r.page + 1) \div 4096 = r.page /\ (4096 * r.page + 1) \div 2 = 2048 * r.page
      BY <1>0
    <2>3. (2048 * r.page) % 2 = 0
      BY <1>0
    <2> QED BY <1>0, <1>2, <2>1, <2>2, <2>3 DEF PageOf, IsSpeculative
  <1> QED BY <1>1, <1>2

LEMMA EncodedAnswer ==
  ASSUME NEW r \in Requests, NEW o \in Outcome[r.page]
  PROVE  /\ AnswerOf(o) \in Nat
         /\ o.size # "1GB" => Decoded(AnswerOf(o)) = Told(r.page, o)
  <1>1. o.ok \in BOOLEAN /\ o.frame \in Nat /\ o.size \in {"4KB", "2MB", "1GB"}
    BY RingAssumption
  <1>2. CASE o.ok /\ o.size = "2MB"
    <2>1. AnswerOf(o) = 64 * o.frame + 2
      BY <1>1, <1>2 DEF AnswerOf
    <2>2. /\ (64 * o.frame + 2) \div 64 = o.frame /\ (64 * o.frame + 2) % 2 = 0
          /\ (64 * o.frame + 2) \div 2 = 32 * o.frame + 1 /\ (32 * o.frame + 1) % 2 = 1
      BY <1>1
    <2> QED BY <1>1, <1>2, <2>1, <2>2 DEF Decoded, Told
  <1>3. CASE o.ok /\ o.size # "2MB"
    <2>1. AnswerOf(o) = 64 * o.frame
      BY <1>1, <1>3 DEF AnswerOf
    <2>2. /\ (64 * o.frame) \div 64 = o.frame /\ (64 * o.frame) % 2 = 0
          /\ (64 * o.frame) \div 2 = 32 * o.frame /\ (32 * o.frame) % 2 = 0
      BY <1>1
    <2> QED BY <1>1, <1>3, <2>1, <2>2 DEF Decoded, Told
  <1>4. CASE ~o.ok
    <2>1. AnswerOf(o) = 1
      BY <1>4 DEF AnswerOf
    <2> QED BY <1>1, <1>4, <2>1 DEF Decoded, Told
  <1> QED BY <1>1, <1>2, <1>3, <1>4

\* The service's index wraps as the server's does.
LEMMA Wraps ==
  ASSUME NEW i \in Slot
  PROVE  (i + 1) % Slots = IF i + 1 = Slots THEN 0 ELSE i + 1
  BY RingAssumption DEF Slot

LEMMA TailFacts ==
  ASSUME NEW S, NEW s \in Seq(S), s # <<>>
  PROVE  /\ Len(s) \in Nat \ {0} /\ Head(s) = s[1] /\ Head(s) \in S
         /\ Tail(s) \in Seq(S) /\ Len(Tail(s)) = Len(s) - 1
         /\ \A i \in 1 .. Len(s) - 1 : Tail(s)[i] = s[i + 1]
  OBVIOUS

LEMMA AppendFacts ==
  ASSUME NEW S, NEW s \in Seq(S), NEW x \in S
  PROVE  /\ Append(s, x) \in Seq(S) /\ Len(s) \in Nat /\ Len(Append(s, x)) = Len(s) + 1
         /\ Append(s, x)[Len(s) + 1] = x
         /\ \A i \in 1 .. Len(s) : Append(s, x)[i] = s[i]
  OBVIOUS

(* What the invariant says in numbers.                                     *)
LEMMA Numbers ==
  ASSUME RingInv
  PROVE  /\ Len(fifo) \in Nat /\ Len(csr) \in Nat /\ Len(csr) <= Len(fifo)
         /\ Len(fifo) <= Depth + 1
         /\ Lag \in Int /\ (Lag = 0 \/ Lag = 1)
         /\ Live \in Int /\ Lag <= Live /\ Live <= Slots
         /\ Live = Len(fifo) - Len(csr) + Lag
         /\ srv.next \in Int /\ 0 <= srv.next /\ srv.next < Slots
         /\ ringIdx \in Int /\ 0 <= ringIdx /\ ringIdx < Slots
  <1>1. Len(fifo) \in Nat /\ Len(csr) \in Nat /\ Len(fifo) <= Depth + 1
    BY DEF RingInv, TypeOK, Capacity
  <1>2. Lag \in Int /\ (Lag = 0 \/ Lag = 1)
    BY DEF Lag
  <1>3. srv.next \in Slot /\ ringIdx \in Slot
    BY DEF RingInv, TypeOK
  <1>4. Slots \in Nat /\ Depth \in Nat \ {0} /\ Depth + 2 <= Slots
    BY RingAssumption DEF Capacity
  <1>5. srv.next \in Int /\ 0 <= srv.next /\ srv.next < Slots
    BY <1>3, <1>4 DEF Slot
  <1>6. ringIdx \in Int /\ 0 <= ringIdx /\ ringIdx < Slots
    BY <1>3, <1>4 DEF Slot
  <1>7. Len(csr) <= Len(fifo) /\ Live = Len(fifo) - Len(csr) + Lag
    BY DEF RingInv, Counts, Live
  <1>8. Live \in Int /\ Lag <= Live /\ Live <= Slots
    BY <1>1, <1>2, <1>4, <1>7
  <1> QED BY <1>1, <1>2, <1>5, <1>6, <1>7, <1>8

LEMMA SlotsLeft == Slots \in Nat /\ Depth \in Nat \ {0} /\ Depth + 2 <= Slots
  BY RingAssumption DEF Capacity

LEMMA Distance ==
  ASSUME RingInv, NEW s \in Slot
  PROVE  /\ Ahead(s) \in Int /\ 0 <= Ahead(s) /\ Ahead(s) < Slots
         /\ Ahead(s) = 0 <=> s = srv.next
         /\ Live < Slots => (Ahead(s) = Live <=> s = ringIdx)
  <1>1. s \in Int /\ 0 <= s /\ s < Slots
    BY SlotsLeft DEF Slot
  <1>2. ringIdx = IF srv.next + Live < Slots THEN srv.next + Live ELSE srv.next + Live - Slots
    BY DEF RingInv, Counts
  <1>3. srv.next \in Int /\ 0 <= srv.next /\ srv.next < Slots /\ Slots \in Nat
        /\ Live \in Int /\ 0 <= Live
    BY Numbers, SlotsLeft
  <1>4. Ahead(s) \in Int /\ 0 <= Ahead(s) /\ Ahead(s) < Slots
    BY <1>1, <1>3 DEF Ahead
  <1>5. Ahead(s) = 0 <=> s = srv.next
    BY <1>1, <1>3 DEF Ahead
  <1>6. Live < Slots => (Ahead(s) = Live <=> s = ringIdx)
    BY <1>1, <1>2, <1>3 DEF Ahead
  <1> QED BY <1>4, <1>5, <1>6

-----------------------------------------------------------------------------
(* The steps.                                                              *)

LEMMA RingInit ==
  ASSUME Init
  PROVE  RingInv
  <1>1. Slots \in Nat /\ Slots >= 3
    BY SlotsLeft
  <1>2. Len(fifo) = 0 /\ Len(csr) = 0 /\ Lag = 0 /\ Live = 0 /\ srv.next = 0
    BY DEF Init, Lag, Live
  <1>3. TypeOK
    <2>1. 0 \in Slot /\ <<>> \in Seq(Requests) /\ <<>> \in Seq(Nat) /\ 0 <= Capacity
      BY <1>1, RingAssumption DEF Slot, Capacity
    <2>2. slots \in [Slot -> Nat] /\ srv \in [pc : {"off", "wait", "answered", "aborted"}, next : Slot]
      BY <2>1 DEF Init
    <2>3. Len(fifo) <= Capacity
      BY <1>2, <2>1 DEF Init
    <2> QED BY <2>1, <2>2, <2>3 DEF Init, TypeOK
  <1>4. Counts
    BY <1>1, <1>2 DEF Init, Counts, Quiet
  <1>5. \A s \in Slot : Ahead(s) \in Int /\ Ahead(s) >= 0
    BY <1>1, <1>2 DEF Ahead, Slot
  <1>6. Unused /\ Answered /\ Held
    BY <1>2, <1>5 DEF Init, Unused, NoWrite, Answered, Held
  <1>7. Answers
    BY <1>2 DEF Answers
  <1> QED BY <1>3, <1>4, <1>6, <1>7 DEF RingInv

\* Between sessions the ring is empty.
LEMMA SessionSteps ==
  ASSUME RingInv, Connect \/ Disconnect
  PROVE  RingInv'
  <1>1. /\ fifo = <<>> /\ fifo' = fifo /\ csr' = csr /\ writes' = writes
        /\ srv.pc \in {"off", "wait"} /\ srv'.pc \in {"off", "wait"}
    BY DEF Connect, Disconnect, Quiet, fpgaVars, RingInv, TypeOK
  <1>2. Len(fifo) = 0 /\ Len(csr) = 0 /\ Lag = 0 /\ Live = 0 /\ Lag' = 0 /\ Live' = 0
    BY <1>1, Numbers DEF Lag, Live
  <1>3. \A s \in Slot : slots[s] = 0 /\ NoWrite(s)
    BY <1>2, Distance DEF RingInv, Unused
  <1>4. TypeOK'
    <2>1. 0 \in Slot
      BY SlotsLeft DEF Slot
    <2>2. CASE Connect
      BY <2>1, <2>2 DEF Connect, RingInv, TypeOK, Slot
    <2>3. CASE Disconnect
      BY <2>1, <2>3 DEF Disconnect, RingInv, TypeOK, fpgaVars
    <2> QED BY <2>2, <2>3
  <1>5. slots' = [s \in Slot |-> 0] \/ slots' = slots
    BY DEF Connect, Disconnect
  <1>6. Unused' /\ Answered' /\ Held' /\ Answers'
    <2>1. \A s \in Slot : slots'[s] = 0 /\ NoWrite(s)'
      BY <1>1, <1>3, <1>5 DEF NoWrite
    <2>2. \A s \in Slot : Ahead(s)' \in Int /\ Ahead(s)' >= 0
      <3>1. srv'.next \in Slot
        BY <1>4 DEF TypeOK
      <3> QED BY <3>1, SlotsLeft DEF Ahead, Slot
    <2>3. Unused' /\ Answered' /\ Held'
      BY <1>2, <2>1, <2>2 DEF Unused, Answered, Held
    <2>4. Answers'
      BY <1>1, <1>2 DEF Answers
    <2> QED BY <2>3, <2>4
  <1>7. Counts'
    <2>1. CASE Connect
      BY <1>1, <1>2, <2>1, SlotsLeft DEF Connect, Counts, Quiet
    <2>2. CASE Disconnect
      BY <1>1, <1>2, <2>2, Numbers DEF Disconnect, fpgaVars, RingInv, Counts, Quiet
    <2> QED BY <2>1, <2>2
  <1> QED BY <1>4, <1>6, <1>7 DEF RingInv

\* The slot that is written is the first free one.
LEMMA SendStep ==
  ASSUME RingInv, Send
  PROVE  RingInv'
  <1>0. /\ req # <<>> /\ fifo \in Seq(Requests) /\ Len(fifo) < Capacity
        /\ Head(req) \in Requests
    BY DEF Send, RingInv, TypeOK
  <1> DEFINE r == Head(req)  w == [slot |-> ringIdx, data |-> Encoded(r)]
  <1>1. fifo' = Append(fifo, r) /\ writes' = writes \union {w} /\ ringIdx' = (ringIdx + 1) % Slots
        /\ req' = <<>> /\ UNCHANGED <<connected, slots, srv, csr, reply>>
    BY DEF Send
  <1>2. /\ fifo' \in Seq(Requests) /\ Len(fifo') = Len(fifo) + 1 /\ fifo'[Len(fifo) + 1] = r
        /\ \A i \in 1 .. Len(fifo) : fifo'[i] = fifo[i]
    BY <1>0, <1>1, AppendFacts
  <1>3. Live < Slots /\ Lag' = Lag /\ Live' = Live + 1 /\ \A s \in Slot : Ahead(s)' = Ahead(s)
    <2>1. Lag' = Lag /\ \A s \in Slot : Ahead(s)' = Ahead(s)
      BY <1>1 DEF Lag, Ahead
    <2>2. Live < Slots
      BY <1>0, Numbers, SlotsLeft DEF Capacity
    <2>3. Live' = Len(fifo') - Len(csr) + Lag
      BY <1>1, <2>1 DEF Live
    <2>4. Live' = Live + 1
      BY <1>2, <2>3, Numbers
    <2> QED BY <2>1, <2>2, <2>4
  <1>4. ringIdx' = IF ringIdx + 1 = Slots THEN 0 ELSE ringIdx + 1
    <2>1. ringIdx \in Slot
      BY DEF RingInv, TypeOK
    <2> QED BY <1>1, <2>1, Wraps
  <1>5. TypeOK'
    <2>1. ringIdx' \in Slot
      BY <1>4, Numbers, SlotsLeft DEF Slot
    <2>2. w \in [slot : Slot, data : Nat]
      BY <1>0, EncodedRequest DEF RingInv, TypeOK
    <2>3. Len(fifo') <= Capacity
      BY <1>0, <1>2, Numbers, SlotsLeft DEF Capacity
    <2> QED BY <1>1, <1>2, <2>1, <2>2, <2>3 DEF RingInv, TypeOK
  <1>6. Counts'
    <2>1. ringIdx' = IF srv.next + Live' < Slots THEN srv.next + Live' ELSE srv.next + Live' - Slots
      <3>1. ringIdx = IF srv.next + Live < Slots THEN srv.next + Live ELSE srv.next + Live - Slots
        BY DEF RingInv, Counts
      <3>2. Live' = Live + 1 /\ Live < Slots
        BY <1>3
      <3>3. /\ srv.next \in Int /\ 0 <= srv.next /\ srv.next < Slots /\ Slots \in Int
            /\ Live \in Int /\ 0 <= Live
        BY Numbers, SlotsLeft
      <3> QED BY ONLY <1>4, <3>1, <3>2, <3>3
    <2>2. srv.pc # "off"
      BY <1>0 DEF RingInv, Counts, Quiet
    <2> QED BY <1>1, <1>2, <2>1, <2>2, Numbers DEF Counts
  <1>7. \A s \in Slot : s # ringIdx => (NoWrite(s) => NoWrite(s)')
    BY <1>1 DEF NoWrite
  <1>8. Unused'
    BY <1>1, <1>3, <1>7, Numbers, Distance, SMTT(30) DEF RingInv, Unused
  <1>9. Answered'
    <2>1. Lag = 1 => srv.next # ringIdx
      BY <1>3, Numbers, Distance DEF RingInv, TypeOK
    <2>2. srv.next \in Slot
      BY DEF RingInv, TypeOK
    <2> QED BY <1>1, <1>3, <1>7, <2>1, <2>2 DEF RingInv, Answered
  <1>10. Held'
    <2> SUFFICES ASSUME NEW s \in Slot, Lag <= Ahead(s), Ahead(s) < Live + 1
                 PROVE  Holds(s, Encoded(fifo[Len(csr) + Ahead(s) - Lag + 1]))'
      BY <1>1, <1>3 DEF Held
    <2>1. CASE Ahead(s) < Live
      <3>1. Len(csr) + Ahead(s) - Lag + 1 \in 1 .. Len(fifo)
        BY <2>1, Numbers, Distance, SMTT(30)
      <3>2. Holds(s, Encoded(fifo[Len(csr) + Ahead(s) - Lag + 1])) /\ s # ringIdx
        BY <1>3, <2>1, Distance DEF RingInv, Held
      <3>3. fifo'[Len(csr) + Ahead(s) - Lag + 1] = fifo[Len(csr) + Ahead(s) - Lag + 1]
        BY <1>2, <3>1
      <3>4. slots' = slots /\ \A v \in writes' : v.slot = s => v \in writes
        BY <1>1, <3>2
      <3>5. UNCHANGED <<csr, Lag, Ahead(s)>>
        BY <1>1, <1>3
      <3> QED BY <3>2, <3>3, <3>4, <3>5 DEF Holds, NoWrite, Encoded
    <2>2. CASE Ahead(s) = Live
      <3>1. s = ringIdx /\ Len(csr) + Ahead(s) - Lag + 1 = Len(fifo) + 1
        BY <1>3, <2>2, Numbers, Distance
      <3>2. slots[s] = 0 /\ NoWrite(s)
        BY <2>2, Numbers DEF RingInv, Unused
      <3>3. \A v \in writes' : v.slot = s => v.data = Encoded(r)
        BY <1>1, <3>2 DEF NoWrite
      <3>4. fifo'[Len(csr) + Ahead(s) - Lag + 1] = r
        BY <1>2, <3>1
      <3>5. UNCHANGED <<slots, csr, Lag, Ahead(s)>>
        BY <1>1, <1>3
      <3> QED BY <3>2, <3>3, <3>4, <3>5 DEF Holds
    <2> QED BY <2>1, <2>2, Numbers, Distance
  <1>11. Answers'
    <2> SUFFICES ASSUME NEW j \in 1 .. Len(csr)
                 PROVE  \E o \in Outcome[fifo'[j].page] : csr[j] = AnswerOf(o)
      BY <1>1 DEF Answers
    <2>1. fifo'[j] = fifo[j]
      BY <1>2, Numbers
    <2> QED BY <2>1 DEF RingInv, Answers
  <1> QED BY <1>5, <1>6, <1>8, <1>9, <1>10, <1>11 DEF RingInv

LEMMA AcceptStep ==
  ASSUME RingInv, NEW r \in Requests, Accept(r)
  PROVE  RingInv'
  <1>1. /\ req' = <<r>> /\ connected
        /\ UNCHANGED <<connected, fifo, ringIdx, writes, slots, srv, csr>>
    BY DEF Accept
  <1>2. req' \in {<<>>} \union {<<x>> : x \in Requests}
    BY <1>1
  <1>3. TypeOK' /\ Counts'
    BY <1>1, <1>2 DEF RingInv, TypeOK, Counts, Live, Lag
  <1> QED BY <1>1, <1>3
          DEF RingInv, Unused, Answered, Held, Answers, Holds, NoWrite, Ahead, Live, Lag

\* The write that arrives is the only one to its slot, which was empty.
LEMMA ArriveStep ==
  ASSUME RingInv, NEW w \in writes, Arrive(w)
  PROVE  RingInv'
  <1>1. /\ slots' = [slots EXCEPT ![w.slot] = w.data] /\ writes' = writes \ {w}
        /\ UNCHANGED <<connected, req, fifo, ringIdx, srv, csr>>
    BY DEF Arrive, fpgaVars
  <1>2. writes \subseteq [slot : Slot, data : Nat] /\ slots \in [Slot -> Nat]
    BY DEF RingInv, TypeOK
  <1>3. w.slot \in Slot /\ ~NoWrite(w.slot)
    BY <1>2 DEF NoWrite
  <1>4. /\ UNCHANGED <<Lag, Live>> /\ \A s \in Slot : Ahead(s)' = Ahead(s)
        /\ \A s \in Slot : NoWrite(s) => NoWrite(s)'
    BY <1>1 DEF Lag, Live, Ahead, NoWrite
  <1>5. TypeOK'
    BY <1>1, <1>2, <1>3 DEF RingInv, TypeOK
  <1>6. Counts' /\ Answers'
    BY <1>1, <1>4 DEF RingInv, Counts, Answers, Quiet
  <1>7. Unused'
    BY <1>1, <1>2, <1>3, <1>4 DEF RingInv, Unused
  <1>8. Answered'
    <2>1. srv.next \in Slot
      BY DEF RingInv, TypeOK
    <2> QED BY <1>1, <1>4, <2>1 DEF RingInv, Answered
  <1>9. Held'
    <2> SUFFICES ASSUME NEW s \in Slot, Lag <= Ahead(s), Ahead(s) < Live
                 PROVE  Holds(s, Encoded(fifo[Len(csr) + Ahead(s) - Lag + 1]))'
      BY <1>4 DEF Held
    <2> DEFINE d == Encoded(fifo[Len(csr) + Ahead(s) - Lag + 1])
    <2>1. Holds(s, d) /\ d' = d
      <3>1. d' = d
        BY <1>1, <1>4 DEF Encoded
      <3> QED BY <3>1 DEF RingInv, Held
    <2> HIDE DEF d
    <2>2. CASE s = w.slot
      <3>1. \A v \in writes : v.slot = s => v.data = d
        BY <1>3, <2>1, <2>2 DEF Holds
      <3>2. slots'[s] = d
        BY <1>1, <1>2, <1>3, <2>2, <3>1
      <3>3. ASSUME NEW v \in writes', v.slot = s PROVE FALSE
        <4>1. v \in writes /\ v # w /\ v.data = w.data /\ v.slot = w.slot
          BY <1>1, <2>2, <3>1, <3>3
        <4> QED BY <1>2, <4>1
      <3>4. NoWrite(s)'
        BY <3>3 DEF NoWrite
      <3>5. Holds(s, d)'
        BY <2>1, <3>2, <3>4 DEF Holds
      <3> QED BY <3>5 DEF d
    <2>3. CASE s # w.slot
      <3>1. slots'[s] = slots[s]
        BY <1>1, <1>2, <2>3
      <3>2. Holds(s, d)'
        BY <1>1, <1>4, <2>1, <3>1 DEF Holds
      <3> QED BY <3>2 DEF d
    <2> QED BY <2>2, <2>3
  <1> QED BY <1>5, <1>6, <1>7, <1>8, <1>9 DEF RingInv

\* The server finds the oldest unanswered request in its slot.
LEMMA ServersSlot ==
  ASSUME RingInv, srv.pc = "wait", slots[srv.next] # 0
  PROVE  /\ Len(csr) < Len(fifo) /\ fifo[Len(csr) + 1] \in Requests
         /\ slots[srv.next] = Encoded(fifo[Len(csr) + 1]) /\ NoWrite(srv.next)
  <1>1. srv.next \in Slot /\ Ahead(srv.next) = 0
    BY Distance DEF RingInv, TypeOK
  <1>2. Lag = 0
    BY DEF Lag
  <1>3. Live > 0
    BY <1>1, Numbers DEF RingInv, Unused
  <1>4. Len(csr) < Len(fifo)
    BY <1>2, <1>3, Numbers
  <1>5. Holds(srv.next, Encoded(fifo[Len(csr) + 1]))
    <2>1. Len(csr) + Ahead(srv.next) - Lag + 1 = Len(csr) + 1
      BY <1>1, <1>2, Numbers
    <2> QED BY <1>1, <1>2, <1>3, <2>1 DEF RingInv, Held
  <1>6. fifo[Len(csr) + 1] \in Requests
    <2>1. fifo \in Seq(Requests) /\ Len(csr) + 1 \in 1 .. Len(fifo)
      BY <1>4, Numbers DEF RingInv, TypeOK
    <2> QED BY <2>1
  <1> QED BY <1>4, <1>5, <1>6 DEF Holds

LEMMA SrvAnswerStep ==
  ASSUME RingInv, SrvAnswer
  PROVE  RingInv'
  <1> DEFINE r == fifo[Len(csr) + 1]
  <1>1. /\ srv.pc = "wait" /\ r \in Requests /\ Len(csr) < Len(fifo)
        /\ slots[srv.next] = Encoded(r) /\ NoWrite(srv.next)
    BY ServersSlot DEF SrvAnswer
  <1>2. PICK o \in Outcome[r.page] :
            /\ csr' = Append(csr, AnswerOf(o))
            /\ \E pc \in {"answered", "aborted"} : srv' = [srv EXCEPT !.pc = pc]
    BY <1>1, EncodedRequest DEF SrvAnswer
  <1>3. UNCHANGED <<connected, req, fifo, ringIdx, writes, slots>>
    BY DEF SrvAnswer, fpgaVars
  <1>4. /\ csr \in Seq(Nat) /\ srv \in [pc : {"off", "wait", "answered", "aborted"}, next : Slot]
        /\ AnswerOf(o) \in Nat
    BY <1>1, EncodedAnswer DEF RingInv, TypeOK
  <1>5. /\ csr' \in Seq(Nat) /\ Len(csr') = Len(csr) + 1 /\ csr'[Len(csr) + 1] = AnswerOf(o)
        /\ \A i \in 1 .. Len(csr) : csr'[i] = csr[i]
    BY <1>2, <1>4, AppendFacts
  <1>6. srv'.next = srv.next /\ srv'.pc \in {"answered", "aborted"} /\ Lag = 0 /\ Lag' = 1
    BY <1>1, <1>2, <1>4 DEF Lag
  <1>7. Live' = Live
    <2>1. Live' = Len(fifo) - Len(csr') + Lag'
      BY <1>3 DEF Live
    <2> QED BY <1>5, <1>6, <2>1, Numbers
  <1>8. \A s \in Slot : Ahead(s)' = Ahead(s)
    BY <1>6 DEF Ahead
  <1>9. TypeOK'
    BY <1>2, <1>3, <1>4, <1>5 DEF RingInv, TypeOK
  <1>10. Counts'
    BY <1>1, <1>3, <1>5, <1>6, <1>7, Numbers DEF RingInv, Counts
  <1>11. Unused' /\ Answered'
    BY <1>1, <1>3, <1>6, <1>7, <1>8 DEF RingInv, Unused, Answered, NoWrite
  <1>12. Held'
    <2> SUFFICES ASSUME NEW s \in Slot, 1 <= Ahead(s), Ahead(s) < Live
                 PROVE  Holds(s, Encoded(fifo[Len(csr) + Ahead(s) - Lag + 1]))'
      BY <1>6, <1>7, <1>8 DEF Held
    <2>1. (Len(csr) + Ahead(s) - Lag + 1)' = Len(csr) + Ahead(s) - Lag + 1
      <3>1. Len(csr) \in Int /\ Ahead(s) \in Int /\ Ahead(s)' = Ahead(s) /\ Len(csr') = Len(csr) + 1
        BY <1>5, <1>8, Numbers, Distance
      <3> QED BY ONLY <1>6, <3>1
    <2>2. Holds(s, Encoded(fifo[Len(csr) + Ahead(s) - Lag + 1]))
      BY <1>6, Distance DEF RingInv, Held
    <2> QED BY <1>3, <2>1, <2>2 DEF Holds, NoWrite, Encoded
  <1>13. Answers'
    <2> SUFFICES ASSUME NEW j \in 1 .. Len(csr) + 1
                 PROVE  \E x \in Outcome[fifo[j].page] : csr'[j] = AnswerOf(x)
      BY <1>3, <1>5 DEF Answers
    <2>1. CASE j = Len(csr) + 1
      BY <1>2, <1>5, <2>1
    <2>2. CASE j # Len(csr) + 1
      <3>1. j \in 1 .. Len(csr)
        BY <2>2, Numbers
      <3> QED BY <1>5, <3>1 DEF RingInv, Answers
    <2> QED BY <2>1, <2>2
  <1> QED BY <1>9, <1>10, <1>11, <1>12, <1>13 DEF RingInv

\* The slot that is cleared is behind all the others.
LEMMA SrvClearStep ==
  ASSUME RingInv, SrvClear
  PROVE  RingInv'
  <1>1. /\ srv.pc = "answered" /\ slots' = [slots EXCEPT ![srv.next] = 0]
        /\ srv' = [pc |-> "wait", next |-> IF srv.next + 1 = Slots THEN 0 ELSE srv.next + 1]
        /\ UNCHANGED <<connected, req, fifo, ringIdx, writes, csr>>
    BY DEF SrvClear, fpgaVars
  <1>2. srv.next \in Slot /\ slots \in [Slot -> Nat]
    BY DEF RingInv, TypeOK
  <1>3. Lag = 1 /\ Lag' = 0 /\ Live' = Live - 1
    <2>1. Lag = 1 /\ Lag' = 0 /\ Live' = Len(fifo) - Len(csr) + Lag'
      BY <1>1 DEF Lag, Live
    <2> QED BY <2>1, Numbers
  <1>4. srv'.next = (IF srv.next + 1 = Slots THEN 0 ELSE srv.next + 1) /\ srv'.pc = "wait"
    BY <1>1
  <1>5. ASSUME NEW s \in Slot
        PROVE  /\ s # srv.next => Ahead(s)' = Ahead(s) - 1
               /\ s = srv.next => Ahead(s)' = Slots - 1
    <2>1. s \in Int /\ 0 <= s /\ s < Slots
      BY SlotsLeft DEF Slot
    <2>2. srv.next \in Int /\ 0 <= srv.next /\ srv.next < Slots /\ Slots \in Int /\ Slots >= 3
      BY Numbers, SlotsLeft
    <2>3. Ahead(s)' = IF s >= srv'.next THEN s - srv'.next ELSE s - srv'.next + Slots
      BY DEF Ahead
    <2> QED BY ONLY <1>4, <2>1, <2>2, <2>3 DEF Ahead
  <1>6. TypeOK'
    <2>1. srv'.next \in Slot
      BY <1>4, Numbers, SlotsLeft, SMTT(30) DEF Slot
    <2> QED BY <1>1, <1>2, <2>1 DEF RingInv, TypeOK
  <1>7. Counts'
    <2>1. ringIdx = IF srv.next + Live < Slots THEN srv.next + Live ELSE srv.next + Live - Slots
      BY DEF RingInv, Counts
    <2>2. /\ srv.next \in Int /\ 0 <= srv.next /\ srv.next < Slots /\ Slots \in Int
          /\ Live \in Int /\ 1 <= Live /\ Live <= Slots
      BY <1>3, Numbers, SlotsLeft
    <2>3. ringIdx = IF srv'.next + Live' < Slots THEN srv'.next + Live' ELSE srv'.next + Live' - Slots
      BY ONLY <1>3, <1>4, <2>1, <2>2
    <2> QED BY <1>1, <1>4, <2>3, Numbers DEF Counts
  <1>8. Unused'
    <2> SUFFICES ASSUME NEW s \in Slot, Ahead(s)' >= Live'
                 PROVE  slots'[s] = 0 /\ NoWrite(s)'
      BY DEF Unused
    <2>1. CASE s = srv.next
      BY <1>1, <1>2, <1>3, <2>1 DEF RingInv, Answered, NoWrite
    <2>2. CASE s # srv.next
      <3>1. Ahead(s) >= Live
        BY <1>3, <1>5, <2>2, Numbers, Distance
      <3> QED BY <1>1, <1>2, <2>2, <3>1 DEF RingInv, Unused, NoWrite
    <2> QED BY <2>1, <2>2
  <1>9. Answered'
    BY <1>3 DEF Answered
  <1>10. Held'
    <2> SUFFICES ASSUME NEW s \in Slot, Ahead(s)' < Live'
                 PROVE  Holds(s, Encoded(fifo[Len(csr) + Ahead(s) - Lag + 1]))'
      BY DEF Held
    <2>1. s # srv.next
      <3>1. Live - 1 <= Slots - 1
        BY Numbers, SlotsLeft
      <3> QED BY <1>3, <1>5, <3>1, Numbers, SlotsLeft
    <2>2. Ahead(s)' = Ahead(s) - 1 /\ Ahead(s) < Live /\ Lag <= Ahead(s)
      BY <1>3, <1>5, <2>1, Numbers, Distance
    <2>3. (Len(csr) + Ahead(s) - Lag + 1)' = Len(csr) + Ahead(s) - Lag + 1
      BY <1>1, <1>3, <2>2, Numbers, Distance
    <2>4. Holds(s, Encoded(fifo[Len(csr) + Ahead(s) - Lag + 1]))
      BY <2>2 DEF RingInv, Held
    <2> QED BY <1>1, <1>2, <2>1, <2>3, <2>4 DEF Holds, NoWrite, Encoded
  <1>11. Answers'
    BY <1>1 DEF RingInv, Answers
  <1> QED BY <1>6, <1>7, <1>8, <1>9, <1>10, <1>11 DEF RingInv

LEMMA DeliverStep ==
  ASSUME RingInv, Deliver
  PROVE  RingInv'
  <1>1. csr # <<>> /\ csr' = Tail(csr) /\ UNCHANGED <<connected, req, ringIdx, writes, slots, srv>>
    BY DEF Deliver
  <1>2. csr \in Seq(Nat) /\ fifo \in Seq(Requests)
    BY DEF RingInv, TypeOK
  <1>3. /\ Len(csr) \in Nat \ {0} /\ csr' \in Seq(Nat) /\ Len(csr') = Len(csr) - 1
        /\ \A i \in 1 .. Len(csr) - 1 : csr'[i] = csr[i + 1]
    BY <1>1, <1>2, TailFacts
  <1>4. fifo # <<>> /\ Len(fifo) > 0
    BY <1>2, <1>3, Numbers
  <1>5. fifo' = Tail(fifo)
    BY <1>4 DEF Deliver
  <1>6. /\ Len(fifo) \in Nat /\ fifo' \in Seq(Requests) /\ Len(fifo') = Len(fifo) - 1
        /\ \A i \in 1 .. Len(fifo) - 1 : fifo'[i] = fifo[i + 1]
    BY <1>2, <1>4, <1>5, TailFacts
  <1>7. Lag' = Lag /\ \A s \in Slot : Ahead(s)' = Ahead(s)
    BY <1>1 DEF Lag, Ahead
  <1>8. Live' = Live
    <2>1. Live' = Len(fifo') - Len(csr') + Lag' /\ Lag \in Int
      BY DEF Live, Lag
    <2> QED BY <1>3, <1>6, <1>7, <2>1, Numbers
  <1>9. TypeOK'
    <2>1. Len(fifo') <= Capacity
      BY <1>6, Numbers, SlotsLeft DEF Capacity
    <2> QED BY <1>1, <1>3, <1>6, <2>1 DEF RingInv, TypeOK
  <1>10. Counts'
    <2>1. Len(csr') <= Len(fifo')
      BY <1>3, <1>6, Numbers
    <2>2. srv.pc # "off"
      BY <1>4 DEF RingInv, Counts, Quiet
    <2> QED BY <1>1, <1>8, <2>1, <2>2 DEF RingInv, Counts
  <1>11. Unused' /\ Answered'
    BY <1>1, <1>7, <1>8 DEF RingInv, Unused, Answered, NoWrite
  <1>12. Held'
    <2> SUFFICES ASSUME NEW s \in Slot, Lag <= Ahead(s), Ahead(s) < Live
                 PROVE  Holds(s, Encoded(fifo[Len(csr) + Ahead(s) - Lag + 1]))'
      BY <1>7, <1>8 DEF Held
    <2> DEFINE i == Len(csr) + Ahead(s) - Lag
    <2>1. i \in 1 .. Len(fifo) - 1
      BY <1>3, Numbers, Distance, SMTT(30)
    <2>2. (Len(csr) + Ahead(s) - Lag + 1)' = i
      <3>1. Len(csr) \in Int /\ Ahead(s) \in Int /\ Ahead(s)' = Ahead(s) /\ Lag \in Int /\ Lag' = Lag
        BY <1>7, Numbers, Distance
      <3> QED BY ONLY <1>3, <3>1
    <2>3. fifo'[i] = fifo[i + 1]
      BY <1>6, <2>1
    <2>4. Holds(s, Encoded(fifo[i + 1]))
      BY DEF RingInv, Held
    <2> HIDE DEF i
    <2> QED BY <1>1, <2>2, <2>3, <2>4 DEF Holds, NoWrite, Encoded
  <1>13. Answers'
    <2> SUFFICES ASSUME NEW j \in 1 .. Len(csr) - 1
                 PROVE  \E o \in Outcome[fifo'[j].page] : csr'[j] = AnswerOf(o)
      BY <1>3 DEF Answers
    <2>1. csr'[j] = csr[j + 1] /\ fifo'[j] = fifo[j + 1] /\ j + 1 \in 1 .. Len(csr)
      <3>1. j \in 1 .. Len(fifo) - 1 /\ j + 1 \in 1 .. Len(csr)
        <4>1. Len(csr) \in Int /\ Len(fifo) \in Int /\ Len(csr) <= Len(fifo) /\ Len(csr) >= 1
          BY <1>3, Numbers
        <4> QED BY <4>1
      <3> QED BY <1>3, <1>6, <3>1
    <2> QED BY <2>1 DEF RingInv, Answers
  <1> QED BY <1>9, <1>10, <1>11, <1>12, <1>13 DEF RingInv

LEMMA RingStep ==
  ASSUME RingInv, [Next]_vars
  PROVE  RingInv'
  <1>1. CASE UNCHANGED vars
    <2>1. UNCHANGED <<connected, req, fifo, ringIdx, writes, slots, srv, csr>>
      BY <1>1 DEF vars, fpgaVars
    <2> QED BY <2>1 DEF RingInv, TypeOK, Counts, Quiet, Unused, Answered, Held, Answers, Holds,
                        NoWrite, Ahead, Live, Lag
  <1> QED BY <1>1, SessionSteps, AcceptStep, SendStep, ArriveStep, SrvAnswerStep, SrvClearStep,
             DeliverStep DEF Next

LEMMA RingInvariant == Spec => []RingInv
  <1>1. Init => RingInv
    BY RingInit
  <1>2. RingInv /\ [Next]_vars => RingInv'
    BY RingStep
  <1> QED BY <1>1, <1>2, PTL DEF Spec

-----------------------------------------------------------------------------
THEOREM RingTypes == Spec => []TypeOK
  <1>1. RingInv => TypeOK
    BY DEF RingInv
  <1> QED BY <1>1, RingInvariant, PTL

(* A request is never written over one that the server has not finished     *)
(* with: the FIFO of requests in flight, which is shorter than the ring by  *)
(* its output register and the slot behind the last answer, is enough.      *)
THEOREM NothingOverwritten == Spec => []NoOverwrite
  <1>1. RingInv => NoOverwrite
    <2> SUFFICES ASSUME RingInv, NEW w \in writes
                 PROVE  slots[w.slot] = 0 /\ \A v \in writes : v.slot = w.slot => v = w
      BY DEF NoOverwrite
    <2>1. writes \subseteq [slot : Slot, data : Nat]
      BY DEF RingInv, TypeOK
    <2>2. w.slot \in Slot /\ ~NoWrite(w.slot)
      BY <2>1 DEF NoWrite
    <2>3. Ahead(w.slot) < Live
      BY <2>2, Numbers, Distance DEF RingInv, Unused
    <2>4. Lag <= Ahead(w.slot)
      BY <2>2, Numbers, Distance DEF RingInv, Answered
    <2>5. /\ slots[w.slot] = 0
          /\ \A v \in writes : v.slot = w.slot => v.data = w.data
      BY <2>2, <2>3, <2>4 DEF RingInv, Held, Holds
    <2> QED BY <2>1, <2>5
  <1> QED BY <1>1, RingInvariant, PTL

(* The channel is a translation port: each step of either end is a request, *)
(* a reply that translates the page of the oldest request, or nothing.      *)
(* The server's answers do not carry a page of 1GB, hence the assumption.   *)
THEOREM ChannelIsPort == NoGiantPages => (Spec => IsPort)
  <1> SUFFICES ASSUME NoGiantPages PROVE Spec => IsPort
    OBVIOUS
  <1>0. NoGiantPages
    OBVIOUS
  <1>1. Init => Port!Init
    BY DEF Init, Port!Init, Port!NoReply
  <1>2. RingInv /\ [Next]_vars => [Port!Next]_(Port!vars)
    <2> SUFFICES ASSUME RingInv, [Next]_vars PROVE [Port!Next]_(Port!vars)
      OBVIOUS
    <2>0. fifo \in Seq(Requests) /\ req \in Seq(Requests)
      <3>1. ASSUME NEW r \in Requests PROVE <<r>> \in Seq(Requests)
        OBVIOUS
      <3>2. <<>> \in Seq(Requests)
        OBVIOUS
      <3>3. req \in {<<>>} \union {<<r>> : r \in Requests} /\ fifo \in Seq(Requests)
        BY DEF RingInv, TypeOK
      <3>4. CASE req = <<>>
        BY <3>2, <3>3, <3>4
      <3>5. CASE req # <<>>
        <4>1. PICK r \in Requests : req = <<r>>
          BY <3>3, <3>5
        <4> QED BY <3>1, <3>3, <4>1
      <3> QED BY <3>4, <3>5
    <2>1. ASSUME UNCHANGED <<req, fifo, reply>> PROVE UNCHANGED Port!vars
      BY <2>1 DEF Port!vars
    <2>2. CASE UNCHANGED vars \/ Connect \/ Disconnect \/ SrvAnswer \/ SrvClear
               \/ \E w \in writes : Arrive(w)
      BY <2>1, <2>2 DEF vars, fpgaVars, Connect, Disconnect, SrvAnswer, SrvClear, Arrive
    <2>3. ASSUME NEW r \in Requests, Accept(r) PROVE Port!Ask(r)
      <3>1. req = <<>> /\ req' = <<r>> /\ fifo' = fifo /\ reply' = reply
        BY <2>3 DEF Accept
      <3>2. fifo \o req = fifo /\ fifo' \o req' = Append(fifo, r)
        BY <2>0, <3>1
      <3> QED BY <3>1, <3>2 DEF Port!Ask
    <2>4. CASE Send
      <3>1. /\ req # <<>> /\ fifo' = Append(fifo, Head(req)) /\ req' = <<>>
            /\ reply' = reply
        BY <2>4 DEF Send
      <3>2. PICK r \in Requests : req = <<r>>
        BY <3>1 DEF RingInv, TypeOK
      <3>3. fifo' \o req' = fifo \o req
        BY <2>0, <3>1, <3>2
      <3> QED BY <3>1, <3>3 DEF Port!vars
    <2>5. CASE Deliver
      <3>1. csr # <<>> /\ req' = req
        BY <2>5 DEF Deliver
      <3>2. csr \in Seq(Nat) /\ Len(csr) \in Nat \ {0} /\ Head(csr) = csr[1]
        BY <3>1, TailFacts DEF RingInv, TypeOK
      <3>3. fifo # <<>> /\ Len(fifo) > 0
        BY <2>0, <3>2, Numbers
      <3>4. fifo' = Tail(fifo) /\ reply' = [to |-> Head(fifo), says |-> Decoded(Head(csr))]
        BY <2>5, <3>3 DEF Deliver
      <3>5. Head(fifo) \in Requests /\ Head(fifo) = fifo[1]
        BY <2>0, <3>3, TailFacts
      <3>6. Decoded(Head(csr)) \in Translations[Head(fifo).page]
        <4>1. PICK o \in Outcome[Head(fifo).page] : Head(csr) = AnswerOf(o)
          BY <3>2, <3>5 DEF RingInv, Answers
        <4>2. Decoded(Head(csr)) = Told(Head(fifo).page, o)
          BY <1>0, <3>5, <4>1, EncodedAnswer DEF NoGiantPages
        <4> QED BY <3>5, <4>2 DEF Translations
      <3>7. /\ fifo \o req # <<>> /\ Head(fifo \o req) = Head(fifo)
            /\ fifo' \o req' = Tail(fifo \o req)
        BY <2>0, <3>1, <3>3, <3>4, SMTT(30)
      <3> QED BY <3>4, <3>6, <3>7 DEF Port!Next, Port!Reply
    <2> QED BY <2>2, <2>3, <2>4, <2>5 DEF Next, Port!Next
  <1> QED BY <1>1, <1>2, RingInvariant, PTL DEF Spec, IsPort, Port!Spec

-----------------------------------------------------------------------------
(* The reorder buffer.                                                     *)

(* How far a slot is behind the oldest one, and the bit that says valid    *)
(* there on the present trip.                                              *)
RobAhead(i) == IF i >= oldest THEN i - oldest ELSE (i - oldest) + N
Trip(i)  == IF i >= oldest THEN validTag ELSE 1 - validTag
Has(i)   == mem[i] # OldData

(* What was not full when the signal was taken has been given no more than *)
(* a request per cycle since.                                              *)
Delay ==
    /\ \A k \in 1 .. Latency : ~almFull[k] => Used + MinFreeSlots < N + k * Beats
    /\ Used + MinFreeSlots < N + (Latency + 1 + late) * Beats

Counted == numValid <= Used /\ (notEmpty <=> numValid > 0)

(* The registers of a cycle ago.                                           *)
Behind ==
    \/ oldest = oldestQ /\ validTag = validTagQ
    \/ /\ oldest = IF oldestQ = N - 1 THEN 0 ELSE oldestQ + 1
       /\ validTag = IF oldestQ = N - 1 THEN 1 - validTagQ ELSE validTagQ

Bits  == \A i \in RobSlot : validBits[i] = Trip(i) <=> Has(i)
Filled == \A i \in RobSlot : Has(i) => RobAhead(i) < Used
Front == \A i \in RobSlot : RobAhead(i) < numValid => Has(i)

(* A line that has not come has a slot of its own, which waits for it.     *)
Waits(i) == RobAhead(i) < Used /\ ~Has(i)
Flight ==
    /\ \A r \in inFlight : Waits(RspIdx(r)) /\ (rsp.en => rsp.idx # RspIdx(r))
    /\ \A r, s \in inFlight : RspIdx(r) = RspIdx(s) => r = s
    /\ rsp.en => Waits(rsp.idx)

(* The two banks are tested in turn.                                       *)
Turns ==
    /\ testBank = 0 => testIdx[1] = testIdx[0]
    /\ testBank = 1 => testIdx[0] = IF testIdx[1] = (N \div 2) - 1 THEN 0 ELSE testIdx[1] + 1
    /\ testIdxQ[testBank] = testIdx[testBank]
    /\ testValue[testBank] = validBits[Tested]

Place ==
    /\ Tested = IF oldest + numValid < N THEN oldest + numValid ELSE (oldest + numValid) - N
    /\ testTgt = Trip(Tested)

RobInv == RobTypeOK /\ Delay /\ Counted /\ Behind /\ Bits /\ Filled /\ Front /\ Flight /\ Turns /\ Place

-----------------------------------------------------------------------------
(* Arithmetic.                                                             *)

LEMMA Constants ==
  /\ N \in Nat /\ Beats \in Nat /\ Threshold \in Nat /\ Extra \in Nat /\ Latency \in Nat
  /\ N > 0 /\ Beats > 0 /\ Beats < N /\ ReadyMax \in Nat /\ Mdata \in Nat /\ Mdata > 0
  /\ MinFreeSlots \in Nat /\ MinFreeSlots < N
  /\ N \div 2 \in Nat /\ N \div 2 > 0 /\ N = 2 * (N \div 2)
  <1>1. /\ N \in Nat /\ Beats \in Nat /\ Threshold \in Nat /\ Extra \in Nat /\ Latency \in Nat
        /\ Beats > 0 /\ Beats <= N /\ N > 0 /\ ReadyMax \in Nat /\ Mdata \in Nat /\ Mdata > 0
        /\ Threshold + Extra >= 1 /\ MinFreeSlots < N
    BY RobAssumption DEF MinFreeSlots
  <1>2. PICK half \in 1 .. N : N = 2 * half
    BY RobAssumption
  <1>3. N \div 2 = half
    BY <1>1, <1>2
  <1>4. MinFreeSlots \in Nat /\ MinFreeSlots >= Beats
    <2> DEFINE a == Threshold + Extra
    <2>1. a \in Nat /\ a >= 1
      BY <1>1
    <2> HIDE DEF a
    <2>2. a * Beats \in Nat /\ a * Beats >= Beats
      BY <1>1, <2>1
    <2> QED BY <2>2 DEF a, MinFreeSlots
  <1> QED BY <1>1, <1>2, <1>3, <1>4

\* Counting up wraps at the end of the ring.
LEMMA PlusWraps ==
  ASSUME NEW i \in RobSlot, NEW n \in 0 .. N
  PROVE  Plus(i, n) = IF i + n < N THEN i + n ELSE (i + n) - N
  BY Constants DEF Plus, RobSlot

LEMMA RowWraps ==
  ASSUME NEW i \in Row
  PROVE  (i + 1) % (N \div 2) = IF i = (N \div 2) - 1 THEN 0 ELSE i + 1
  BY Constants DEF Row

\* The reserve covers what is asked for until the signal is seen, and after.
LEMMA Reserve ==
  ASSUME NEW l \in Nat, l < Threshold
  PROVE  (Latency + 1 + l) * Beats + Beats <= MinFreeSlots
  <1> DEFINE a == Latency + 2 + l
             b == Threshold + Extra
  <1>1. a \in Nat /\ b \in Nat /\ a <= b /\ (Latency + 1 + l) * Beats + Beats = a * Beats
    BY Constants, RobAssumption
  <1> HIDE DEF a, b
  <1>2. a * Beats <= b * Beats
    BY <1>1, Constants
  <1> QED BY <1>1, <1>2 DEF b, MinFreeSlots

LEMMA ReserveSeen ==
  (Latency + 1) * Beats <= MinFreeSlots
  <1> DEFINE a == Latency + 1
             b == Threshold + Extra
  <1>1. a \in Nat /\ b \in Nat /\ a <= b
    BY Constants, RobAssumption
  <1> HIDE DEF a, b
  <1>2. a * Beats <= b * Beats
    BY <1>1, Constants
  <1> QED BY <1>1, <1>2 DEF a, b, MinFreeSlots
-----------------------------------------------------------------------------
(* What the invariant says of the ends of the ring and of the test.        *)

LEMMA Ends ==
  ASSUME RobTypeOK
  PROVE  /\ newest \in RobSlot /\ oldest \in RobSlot /\ Used \in 0 .. N - 1
         /\ \A i \in RobSlot : RobAhead(i) \in 0 .. N - 1 /\ Trip(i) \in Bit
         /\ \A i, j \in RobSlot : RobAhead(i) = RobAhead(j) => i = j
         /\ NotFull <=> Used + MinFreeSlots < N
  <1>1. /\ newest \in 0 .. N - 1 /\ oldest \in 0 .. N - 1 /\ validTag \in {0, 1}
        /\ N \in Nat /\ N > 0 /\ MinFreeSlots \in Nat
    BY Constants DEF RobTypeOK, RobSlot, Bit
  <1>2. Used \in 0 .. N - 1
    BY <1>1 DEF Used
  <1>3. \A i \in RobSlot : RobAhead(i) \in 0 .. N - 1
    BY <1>1 DEF RobAhead, RobSlot
  <1>4. \A i \in RobSlot : Trip(i) \in Bit
    BY <1>1 DEF Trip, Bit
  <1>5. \A i, j \in RobSlot : RobAhead(i) = RobAhead(j) => i = j
    BY <1>1 DEF RobAhead, RobSlot
  <1>6. NotFull <=> Used + MinFreeSlots < N
    BY <1>1 DEF Used, NotFull
  <1> QED BY <1>1, <1>2, <1>3, <1>4, <1>5, <1>6 DEF RobSlot

LEMMA TestedIn ==
  ASSUME RobTypeOK
  PROVE  /\ Tested \in RobSlot /\ testBank \in Bit /\ testTgt \in Bit
         /\ testIdx[testBank] \in Row /\ testIdx[1 - testBank] \in Row
  <1>1. testBank \in {0, 1} /\ testTgt \in Bit /\ testIdx \in [{0, 1} -> Row]
    BY DEF RobTypeOK, Bit
  <1>2. testIdx[testBank] \in Row /\ testIdx[1 - testBank] \in Row
    <2>1. testBank \in {0, 1} /\ 1 - testBank \in {0, 1}
      BY <1>1
    <2> QED BY <1>1, <2>1
  <1>3. Tested \in RobSlot
    BY <1>1, <1>2, Constants DEF Tested, SlotOf, RobSlot, Row
  <1> QED BY <1>1, <1>2, <1>3 DEF Bit

\* A request finds room for all its lines.
LEMMA Room ==
  ASSUME RobTypeOK, Delay, NEW n \in 0 .. Beats, n > 0 => MayRequest
  PROVE  Used + n < N
  <1>1. Used \in 0 .. N - 1 /\ (NotFull <=> Used + MinFreeSlots < N)
    BY Ends
  <1>2. late \in Nat /\ Latency \in Nat /\ Beats \in Nat /\ MinFreeSlots \in Nat
    BY Constants DEF RobTypeOK
  <1>3. CASE n = 0
    BY <1>1, <1>3, Constants
  <1>4. CASE late < Threshold
    BY <1>1, <1>2, <1>4, Reserve, Constants DEF Delay
  <1>5. CASE ~AlmFullSeen
    <2>1. (Latency + 1) * Beats = Latency * Beats + Beats
      BY <1>2
    <2>2. CASE Latency = 0
      BY <1>1, <1>2, <1>5, <2>1, <2>2, ReserveSeen, Constants DEF AlmFullSeen
    <2>3. CASE Latency # 0
      <3>1. ~almFull[Latency] /\ Latency \in 1 .. Latency
        BY <1>2, <1>5, <2>3 DEF AlmFullSeen
      <3> QED BY <1>1, <1>2, <2>1, <3>1, ReserveSeen, Constants DEF Delay
    <2> QED BY <2>2, <2>3
  <1> QED BY <1>3, <1>4, <1>5 DEF MayRequest

\* A slot is returned only when it holds its data.
LEMMA Taken ==
  ASSUME RobTypeOK, Counted, Front, notEmpty
  PROVE  numValid > 0 /\ Used > 0 /\ Has(oldest)
  <1>1. numValid > 0 /\ numValid <= Used /\ Used \in Nat /\ numValid \in Nat
    BY Ends DEF Counted, RobTypeOK
  <1>2. oldest \in RobSlot /\ RobAhead(oldest) = 0
    BY Ends DEF RobAhead, RobSlot
  <1> QED BY <1>1, <1>2 DEF Front

\* The test finds a slot whose data is there, or is just being written.
LEMMA Passed ==
  ASSUME RobInv, TestIsValid
  PROVE  /\ numValid < Used /\ numValid < ReadyMax /\ RobAhead(Tested) = numValid
         /\ Has(Tested) \/ Writes(Tested)
  <1>1. /\ Tested \in RobSlot /\ Used \in 0 .. N - 1 /\ numValid \in 0 .. ReadyMax /\ numValid <= Used
        /\ oldest \in RobSlot
    BY Ends, TestedIn DEF RobInv, Counted, RobTypeOK
  <1>2. RobAhead(Tested) = numValid
    BY <1>1, Constants DEF RobInv, Place, RobAhead, RobSlot
  <1>3. Has(Tested) \/ Writes(Tested)
    <2>1. CASE testValue[testBank] = testTgt
      BY <1>1, <2>1 DEF RobInv, Turns, Place, Bits
    <2>2. CASE Bypass(testBank)
      BY <2>2 DEF RobInv, Turns, Bypass, Tested
    <2> QED BY <2>1, <2>2 DEF TestIsValid
  <1>4. RobAhead(Tested) < Used
    BY <1>1, <1>3 DEF RobInv, Filled, Flight, Waits, Writes
  <1>5. numValid < ReadyMax
    BY <1>1, Constants DEF TestIsValid
  <1> QED BY <1>2, <1>3, <1>4, <1>5

\* The tag that is written is that of the slot's trip, although it is computed
\* from the registers of a cycle ago.
LEMMA WrittenTag ==
  ASSUME RobInv, rsp.en
  PROVE  rsp.idx \in RobSlot /\ WriteTag = Trip(rsp.idx)
  <1>1. rsp.idx \in RobSlot /\ oldest \in RobSlot /\ oldestQ \in RobSlot /\ RobAhead(rsp.idx) < N - 1
    BY Ends, Constants, SMTT(30) DEF RobInv, RobTypeOK, Flight, Waits
  <1>2. validTag \in Bit /\ validTagQ \in Bit
    BY DEF RobInv, RobTypeOK
  <1> QED BY <1>1, <1>2, Constants DEF RobInv, Behind, WriteTag, Trip, RobAhead, RobSlot, Bit

-----------------------------------------------------------------------------
(* How the ring turns.                                                     *)

LEMMA Moves ==
  ASSUME RobTypeOK, NEW n \in 0 .. Beats, NEW deq \in BOOLEAN, Used + n < N, deq => Used > 0,
         newest' = Plus(newest, n),
         oldest' = IF deq THEN Plus(oldest, 1) ELSE oldest,
         validTag' = IF deq /\ oldest = N - 1 THEN 1 - validTag ELSE validTag
  PROVE  /\ newest' \in RobSlot /\ oldest' \in RobSlot /\ validTag' \in Bit
         /\ oldest' = IF deq THEN IF oldest = N - 1 THEN 0 ELSE oldest + 1 ELSE oldest
         /\ Used' = (Used + n) - (IF deq THEN 1 ELSE 0)
         /\ \A i \in RobSlot : (RobAhead(i))' = IF ~deq THEN RobAhead(i)
                                        ELSE IF i = oldest THEN N - 1 ELSE RobAhead(i) - 1
         /\ \A i \in RobSlot : (Trip(i))' = IF deq /\ i = oldest THEN 1 - Trip(i) ELSE Trip(i)
         /\ RobAhead(newest) = Used \/ n = 0
  <1>1. /\ newest \in RobSlot /\ oldest \in RobSlot /\ validTag \in Bit /\ Used \in 0 .. N - 1
        /\ n \in 0 .. N /\ 1 \in 0 .. N
    BY Ends, Constants, SMTT(30) DEF RobTypeOK
  <1>2. newest' = IF newest + n < N THEN newest + n ELSE (newest + n) - N
    BY <1>1, PlusWraps
  <1>3. oldest' = IF deq THEN IF oldest = N - 1 THEN 0 ELSE oldest + 1 ELSE oldest
    BY <1>1, PlusWraps, Constants DEF RobSlot
  <1>4. newest' \in RobSlot /\ oldest' \in RobSlot /\ validTag' \in Bit
    BY <1>1, <1>2, <1>3, Constants DEF RobSlot, Bit
  <1>5. Used' = (Used + n) - (IF deq THEN 1 ELSE 0)
    BY <1>1, <1>2, <1>3, Constants DEF Used, RobSlot
  <1>6. ASSUME NEW i \in RobSlot
        PROVE  (RobAhead(i))' = IF ~deq THEN RobAhead(i) ELSE IF i = oldest THEN N - 1 ELSE RobAhead(i) - 1
    BY <1>1, <1>3, Constants DEF RobAhead, RobSlot
  <1>7. ASSUME NEW i \in RobSlot
        PROVE  (Trip(i))' = IF deq /\ i = oldest THEN 1 - Trip(i) ELSE Trip(i)
    BY <1>1, <1>3, Constants DEF Trip, RobSlot, Bit
  <1>8. RobAhead(newest) = Used
    BY <1>1, Constants DEF RobAhead, Used, RobSlot
  <1> QED BY <1>3, <1>4, <1>5, <1>6, <1>7, <1>8
-----------------------------------------------------------------------------
(* A cycle.                                                                *)

LEMMA Advance ==
  ASSUME RobInv, NEW n \in 0 .. Beats, NEW other \in BOOLEAN, NEW rs \in Answer,
         Cycle(n, rs, other), NEW deq, deq = Deq(other)
  PROVE  /\ deq \in BOOLEAN /\ Used + n < N
         /\ deq => numValid > 0 /\ Used > 0 /\ Has(oldest)
         /\ newest' \in RobSlot /\ oldest' \in RobSlot /\ validTag' \in Bit
         /\ oldest' = IF deq THEN IF oldest = N - 1 THEN 0 ELSE oldest + 1 ELSE oldest
         /\ Used' = (Used + n) - (IF deq THEN 1 ELSE 0)
         /\ \A i \in RobSlot : (RobAhead(i))' = IF ~deq THEN RobAhead(i)
                                        ELSE IF i = oldest THEN N - 1 ELSE RobAhead(i) - 1
         /\ \A i \in RobSlot : (Trip(i))' = IF deq /\ i = oldest THEN 1 - Trip(i) ELSE Trip(i)
         /\ RobAhead(newest) = Used \/ n = 0
  <1>1. deq \in BOOLEAN /\ (deq => notEmpty)
    BY DEF Deq, RobInv, RobTypeOK
  <1>2. Used + n < N
    BY Room DEF RobInv, Cycle, Request
  <1>3. deq => numValid > 0 /\ Used > 0 /\ Has(oldest)
    BY <1>1, Taken DEF RobInv
  <1>4. /\ newest' = Plus(newest, n)
        /\ oldest' = IF deq THEN Plus(oldest, 1) ELSE oldest
        /\ validTag' = IF deq /\ oldest = N - 1 THEN 1 - validTag ELSE validTag
    BY DEF Cycle, Request, NextOldest
  <1> QED BY <1>1, <1>2, <1>3, <1>4, Moves DEF RobInv

\* The slots that a request is given are those behind the newest one.
LEMMA GivenAhead ==
  ASSUME RobTypeOK, NEW n \in 0 .. Beats, Used + n < N, NEW i \in RobSlot, Given(i, n)
  PROVE  RobAhead(i) >= Used
  <1>1. /\ newest \in 0 .. N - 1 /\ oldest \in 0 .. N - 1 /\ i \in 0 .. N - 1 /\ N \in Nat
        /\ n \in Nat
    BY Constants DEF RobTypeOK, RobSlot
  <1>2. ((i + N) - newest) % N = IF i >= newest THEN i - newest ELSE (i + N) - newest
    BY <1>1
  <1> QED BY <1>1, <1>2 DEF Given, RobAhead, Used

\* After a cycle a slot has its data if it was written, or had it and was not
\* returned; and its bit says so.
LEMMA Data ==
  ASSUME RobInv, NEW n \in 0 .. Beats, NEW other \in BOOLEAN, NEW rs \in Answer,
         Cycle(n, rs, other), NEW deq, deq = Deq(other), NEW i \in RobSlot
  PROVE  /\ (Has(i))' <=> Writes(i) \/ (Has(i) /\ ~(deq /\ i = oldest))
         /\ validBits'[i] = IF Writes(i) THEN Trip(i) ELSE validBits[i]
         /\ Writes(i) => RobAhead(i) < Used /\ ~Has(i) /\ ~(deq /\ i = oldest)
  <1>1. Used + n < N /\ (deq => Has(oldest))
    BY Advance
  <1>2. Writes(i) => RobAhead(i) < Used /\ ~Has(i) /\ ~(deq /\ i = oldest)
    BY <1>1 DEF RobInv, Flight, Waits, Writes
  <1>3. validBits'[i] = IF Writes(i) THEN Trip(i) ELSE validBits[i]
    BY WrittenTag DEF Cycle, NextStore, Writes
  <1>4. mem'[i] = IF Writes(i) THEN rsp.beat
                  ELSE IF Given(i, n) \/ (deq /\ i = oldest) THEN OldData ELSE mem[i]
    BY DEF Cycle, NextStore
  <1>5. Given(i, n) => ~Has(i)
    <2>1. Given(i, n) => RobAhead(i) >= Used
      BY <1>1, GivenAhead DEF RobInv
    <2>2. RobAhead(i) \in Nat /\ Used \in Nat
      BY Ends DEF RobInv
    <2> QED BY <2>1, <2>2 DEF RobInv, Filled
  <1>6. rsp.beat # OldData
    BY Constants DEF RobInv, RobTypeOK, Beat, OldData
  <1> QED BY <1>2, <1>3, <1>4, <1>5, <1>6 DEF Has

LEMMA BitsStep ==
  ASSUME RobInv, NEW n \in 0 .. Beats, NEW other \in BOOLEAN, NEW rs \in Answer,
         Cycle(n, rs, other)
  PROVE  Bits' /\ Filled'
  <1> PICK deq : deq = Deq(other)
    OBVIOUS
  <1> SUFFICES ASSUME NEW i \in RobSlot
               PROVE  (validBits'[i] = (Trip(i))' <=> (Has(i))') /\ ((Has(i))' => (RobAhead(i))' < Used')
    BY DEF Bits, Filled
  <1>1. /\ (Has(i))' <=> Writes(i) \/ (Has(i) /\ ~(deq /\ i = oldest))
        /\ validBits'[i] = IF Writes(i) THEN Trip(i) ELSE validBits[i]
        /\ Writes(i) => RobAhead(i) < Used /\ ~Has(i) /\ ~(deq /\ i = oldest)
    BY Data
  <1>2. /\ deq \in BOOLEAN /\ (deq => Has(oldest))
        /\ Used' = (Used + n) - (IF deq THEN 1 ELSE 0)
        /\ (RobAhead(i))' = IF ~deq THEN RobAhead(i) ELSE IF i = oldest THEN N - 1 ELSE RobAhead(i) - 1
        /\ (Trip(i))' = IF deq /\ i = oldest THEN 1 - Trip(i) ELSE Trip(i)
    BY Advance
  <1>3. /\ validBits[i] = Trip(i) <=> Has(i)
        /\ Has(i) => RobAhead(i) < Used
        /\ Trip(i) \in {0, 1} /\ validBits[i] \in {0, 1} /\ RobAhead(i) \in Nat /\ Used \in Nat
        /\ n \in Nat
    <2>1. Trip(i) \in Bit /\ RobAhead(i) \in Nat /\ Used \in Nat
      BY Ends DEF RobInv
    <2>2. validBits[i] \in Bit
      BY DEF RobInv, RobTypeOK
    <2>3. n \in Nat
      BY Constants
    <2> QED BY <2>1, <2>2, <2>3 DEF RobInv, Bits, Filled, Bit
  <1>4. validBits'[i] = (Trip(i))' <=> (Has(i))'
    BY <1>1, <1>2, <1>3
  <1>5. (Has(i))' => (RobAhead(i))' < Used'
    BY <1>1, <1>2, <1>3
  <1> QED BY <1>4, <1>5

LEMMA FrontStep ==
  ASSUME RobInv, NEW n \in 0 .. Beats, NEW other \in BOOLEAN, NEW rs \in Answer,
         Cycle(n, rs, other)
  PROVE  Front' /\ Counted' /\ numValid' \in 0 .. ReadyMax /\ notEmpty' \in BOOLEAN
  <1> PICK deq : deq = Deq(other)
    OBVIOUS
  <1>1. /\ deq \in BOOLEAN /\ (deq => numValid > 0) /\ Used + n < N /\ n \in Nat
        /\ Used' = (Used + n) - (IF deq THEN 1 ELSE 0)
    BY Advance, Constants
  <1>2. /\ numValid' = (numValid + (IF TestIsValid THEN 1 ELSE 0)) - (IF deq THEN 1 ELSE 0)
        /\ notEmpty' = (TestIsValid \/ numValid > 1 \/ (numValid % 2 = 1 /\ ~deq))
    BY DEF Cycle, NextOldest, NextNotEmpty
  <1>3. TestIsValid => /\ numValid < Used /\ numValid < ReadyMax /\ RobAhead(Tested) = numValid
                       /\ Has(Tested) \/ Writes(Tested)
    BY Passed
  <1>4. /\ numValid \in 0 .. ReadyMax /\ numValid <= Used /\ Used \in 0 .. N - 1
        /\ ReadyMax \in Nat /\ N \in Nat
    BY Ends, Constants DEF RobInv, RobTypeOK, Counted
  <1>5. numValid' \in 0 .. ReadyMax /\ numValid' <= Used' /\ Used' < N /\ Used' \in Nat
    BY <1>1, <1>2, <1>3, <1>4
  <1>6. notEmpty' \in BOOLEAN /\ (notEmpty' <=> numValid' > 0)
    <2>1. notEmpty' \in BOOLEAN
      BY <1>2
    <2>2. numValid' > 0 <=> TestIsValid \/ numValid > 1 \/ (numValid = 1 /\ ~deq)
      <3>1. CASE TestIsValid
        BY <1>1, <1>2, <1>4, <3>1
      <3>2. CASE ~TestIsValid
        <4>1. numValid' = numValid - (IF deq THEN 1 ELSE 0)
          BY <1>2, <1>4, <3>2
        <4> QED BY <1>1, <1>4, <3>2, <4>1
      <3> QED BY <3>1, <3>2
    <2>3. numValid > 1 \/ (numValid % 2 = 1 /\ ~deq) <=> numValid > 1 \/ (numValid = 1 /\ ~deq)
      BY <1>4
    <2> QED BY <1>2, <2>1, <2>2, <2>3
  <1>7. ASSUME NEW i \in RobSlot, (RobAhead(i))' < numValid'
        PROVE  (Has(i))'
    <2>1. (RobAhead(i))' = IF ~deq THEN RobAhead(i) ELSE IF i = oldest THEN N - 1 ELSE RobAhead(i) - 1
      BY Advance
    <2>2. (Has(i))' <=> Writes(i) \/ (Has(i) /\ ~(deq /\ i = oldest))
      BY Data
    <2>3. RobAhead(i) \in Nat
      BY Ends DEF RobInv
    <2>4. ~(deq /\ i = oldest)
      BY <1>4, <1>5, <1>7, <2>1, Constants
    <2>5. RobAhead(i) < numValid \/ (TestIsValid /\ RobAhead(i) = numValid)
      BY <1>2, <1>4, <1>7, <2>1, <2>3, <2>4
    <2>6. CASE RobAhead(i) < numValid
      BY <2>2, <2>4, <2>6 DEF RobInv, Front
    <2>7. CASE TestIsValid /\ RobAhead(i) = numValid
      <3>1. i = Tested
        BY <1>3, <2>7, Ends, TestedIn DEF RobInv
      <3> QED BY <1>3, <2>2, <2>4, <2>7, <3>1
    <2> QED BY <2>5, <2>6, <2>7
  <1> QED BY <1>5, <1>6, <1>7 DEF Front, Counted
\* A slot without data that was given, and is not being written, waits on.
LEMMA WaitsOn ==
  ASSUME RobInv, NEW n \in 0 .. Beats, NEW other \in BOOLEAN, NEW rs \in Answer,
         Cycle(n, rs, other), NEW i \in RobSlot, ~Has(i), ~Writes(i), RobAhead(i) < Used + n
  PROVE  (Waits(i))'
  <1> PICK deq : deq = Deq(other)
    OBVIOUS
  <1>1. ~(Has(i))'
    BY Data
  <1>2. /\ deq \in BOOLEAN /\ (deq => Has(oldest))
        /\ Used' = (Used + n) - (IF deq THEN 1 ELSE 0)
        /\ (RobAhead(i))' = IF ~deq THEN RobAhead(i) ELSE IF i = oldest THEN N - 1 ELSE RobAhead(i) - 1
    BY Advance
  <1>3. RobAhead(i) \in Nat /\ Used \in Nat /\ n \in Nat
    BY Ends, Constants DEF RobInv
  <1>4. (RobAhead(i))' < Used'
    BY <1>2, <1>3
  <1> QED BY <1>1, <1>4 DEF Waits

\* The lines that are asked for get slots behind all that are used.
LEMMA AskedAhead ==
  ASSUME RobInv, NEW n \in 0 .. Beats, Used + n < N, NEW r \in Asked(n)
  PROVE  /\ r \in [base : RobSlot, beat : Beat] /\ r.base = newest /\ r.beat \in Nat /\ r.beat < n
         /\ RspIdx(r) \in RobSlot /\ RobAhead(RspIdx(r)) = Used + r.beat
  <1>1. PICK b \in Beat : b < n /\ r = [base |-> newest, beat |-> b]
    BY DEF Asked
  <1>2. newest \in RobSlot /\ oldest \in RobSlot /\ n \in 0 .. N /\ b \in 0 .. N /\ Used \in Nat
    BY Ends, Constants DEF RobInv, Beat
  <1>3. RspIdx(r) = IF newest + b < N THEN newest + b ELSE (newest + b) - N
    BY <1>1, <1>2, PlusWraps DEF RspIdx
  <1> QED BY <1>1, <1>2, <1>3, Constants DEF Used, RobAhead, RobSlot

LEMMA InFlightSlot ==
  ASSUME RobInv, NEW r \in inFlight
  PROVE  /\ r \in [base : RobSlot, beat : Beat] /\ RspIdx(r) \in RobSlot
         /\ RobAhead(RspIdx(r)) < Used /\ ~Has(RspIdx(r)) /\ ~Writes(RspIdx(r))
  <1>1. r \in [base : RobSlot, beat : Beat]
    BY DEF RobInv, RobTypeOK
  <1>2. r.base \in RobSlot /\ r.beat \in 0 .. N
    BY <1>1, Constants DEF Beat
  <1>3. RspIdx(r) = IF r.base + r.beat < N THEN r.base + r.beat ELSE (r.base + r.beat) - N
    BY <1>2, PlusWraps DEF RspIdx
  <1>4. RspIdx(r) \in RobSlot
    BY <1>2, <1>3, Constants DEF RobSlot
  <1> QED BY <1>1, <1>4 DEF RobInv, Flight, Waits, Writes

LEMMA Arrival ==
  ASSUME RobInv, NEW rs \in Answer, EnqData(rs)
  PROVE  /\ rs \subseteq inFlight
         /\ rs = {} => rsp' = NoRsp
         /\ rs # {} => \E r \in inFlight : rs = {r} /\ rsp' = [en |-> TRUE, idx |-> RspIdx(r), beat |-> r.beat]
  <1>1. CASE rs = {}
    BY <1>1 DEF EnqData
  <1>2. CASE rs # {}
    <2>1. PICK r \in inFlight : rs = {r}
      BY <1>2 DEF Answer
    <2>2. (CHOOSE x \in rs : TRUE) = r
      BY <2>1
    <2>3. rsp' = [en |-> TRUE, idx |-> RspIdx(r), beat |-> r.beat]
      BY <1>2, <2>2 DEF EnqData
    <2> QED BY <1>2, <2>1, <2>3
  <1> QED BY <1>1, <1>2

LEMMA FlightStep ==
  ASSUME RobInv, NEW n \in 0 .. Beats, NEW other \in BOOLEAN, NEW rs \in Answer,
         Cycle(n, rs, other)
  PROVE  Flight'
  <1>1. Used + n < N
    BY Advance
  <1>2. inFlight' = (inFlight \ rs) \union Asked(n) /\ EnqData(rs)
    BY DEF Cycle
  <1>3. /\ rs \subseteq inFlight
        /\ rs = {} => rsp' = NoRsp
        /\ rs # {} => \E r \in inFlight : rs = {r} /\ rsp' = [en |-> TRUE, idx |-> RspIdx(r), beat |-> r.beat]
    BY <1>2, Arrival
  <1>4. Used \in Nat /\ n \in Nat
    BY Ends, Constants DEF RobInv
  <1>5. ASSUME NEW r \in inFlight
        PROVE  (Waits(RspIdx(r)))' /\ RspIdx(r) \in RobSlot /\ RobAhead(RspIdx(r)) < Used
    <2> DEFINE i == RspIdx(r)
    <2>1. i \in RobSlot /\ RobAhead(i) < Used /\ ~Has(i) /\ ~Writes(i)
      BY InFlightSlot
    <2>2. RobAhead(i) < Used + n
      BY <1>4, <2>1, Ends DEF RobInv
    <2> HIDE DEF i
    <2>3. (Waits(i))'
      BY <2>1, <2>2, WaitsOn
    <2> QED BY <2>1, <2>3 DEF i
  <1>6. ASSUME NEW r \in Asked(n)
        PROVE  /\ (Waits(RspIdx(r)))' /\ RspIdx(r) \in RobSlot /\ RobAhead(RspIdx(r)) = Used + r.beat
               /\ r.beat \in Nat /\ r = [base |-> newest, beat |-> r.beat]
    <2> DEFINE i == RspIdx(r)
    <2>1. /\ i \in RobSlot /\ RobAhead(i) = Used + r.beat /\ r.beat \in Nat /\ r.beat < n
          /\ r = [base |-> newest, beat |-> r.beat]
      BY <1>1, AskedAhead
    <2> HIDE DEF i
    <2>2. ~Has(i) /\ ~Writes(i)
      BY <1>4, <2>1 DEF RobInv, Filled, Flight, Waits, Writes
    <2>3. RobAhead(i) < Used + n
      BY <1>4, <2>1
    <2>4. (Waits(i))'
      BY <2>1, <2>2, <2>3, WaitsOn
    <2> QED BY <2>1, <2>4 DEF i
  <1>7. ASSUME NEW r \in inFlight', NEW s \in inFlight', RspIdx(r) = RspIdx(s)
        PROVE  r = s
    <2>1. CASE r \in inFlight /\ s \in inFlight
      BY <1>7, <2>1 DEF RobInv, Flight
    <2>2. CASE r \in Asked(n) /\ s \in Asked(n)
      <3>1. Used + r.beat = Used + s.beat /\ r.beat \in Nat /\ s.beat \in Nat
        BY <1>6, <1>7, <2>2
      <3>2. r.beat = s.beat
        BY <1>4, <3>1
      <3> QED BY <1>6, <2>2, <3>2
    <2>3. CASE r \in inFlight /\ s \in Asked(n)
      BY <1>4, <1>5, <1>6, <1>7, <2>3
    <2>4. CASE r \in Asked(n) /\ s \in inFlight
      BY <1>4, <1>5, <1>6, <1>7, <2>4
    <2> QED BY <1>2, <2>1, <2>2, <2>3, <2>4
  <1>8. ASSUME NEW r \in inFlight'
        PROVE  (Waits(RspIdx(r)))' /\ (rsp'.en => rsp'.idx # RspIdx(r))
    <2>1. (Waits(RspIdx(r)))'
      BY <1>2, <1>5, <1>6
    <2>2. ASSUME rsp'.en
          PROVE  rsp'.idx # RspIdx(r)
      <3>1. rs # {}
        BY <1>3, <2>2 DEF NoRsp
      <3>2. PICK q \in inFlight : rs = {q} /\ rsp'.idx = RspIdx(q)
        BY <1>3, <3>1
      <3>3. CASE r \in inFlight /\ r # q
        BY <3>2, <3>3 DEF RobInv, Flight
      <3>4. CASE r \in Asked(n)
        BY <1>4, <1>5, <1>6, <3>2, <3>4
      <3> QED BY <1>2, <3>2, <3>3, <3>4
    <2> QED BY <2>1, <2>2
  <1>9. ASSUME rsp'.en
        PROVE  (Waits(rsp.idx))'
    <2>1. rs # {}
      BY <1>3, <1>9 DEF NoRsp
    <2>2. PICK q \in inFlight : rsp'.idx = RspIdx(q)
      BY <1>3, <2>1
    <2> QED BY <1>5, <2>2 DEF Waits, RobAhead, Has, Used
  <1> QED BY <1>7, <1>8, <1>9 DEF Flight
\* The test moves from slot to slot, and the bit that it looks for is the one of
\* the next trip when it comes round.
LEMMA TestMoves ==
  ASSUME RobInv, NextTest
  PROVE  /\ Tested' = IF TestIsValid THEN IF Tested = N - 1 THEN 0 ELSE Tested + 1 ELSE Tested
         /\ testTgt' = IF TestIsValid /\ Tested = N - 1 THEN 1 - testTgt ELSE testTgt
         /\ Tested' = SlotOf(testBank', testIdx[testBank'])
         /\ testBank' = 0 => testIdx'[1] = testIdx'[0]
         /\ testBank' = 1 => testIdx'[0] = IF testIdx'[1] = (N \div 2) - 1 THEN 0 ELSE testIdx'[1] + 1
         /\ testIdx'[testBank'] = testIdx[testBank'] /\ testBank' \in Bit
         /\ testIdx' \in [Bit -> Row] /\ testTgt' \in Bit
  <1>1. /\ testIdx \in [Bit -> Row] /\ testBank \in Bit /\ testTgt \in Bit
        /\ testIdx[0] \in Row /\ testIdx[1] \in Row
    BY DEF RobInv, RobTypeOK, Bit
  <1>2. /\ testBank = 0 => testIdx[1] = testIdx[0]
        /\ testBank = 1 => testIdx[0] = IF testIdx[1] = (N \div 2) - 1 THEN 0 ELSE testIdx[1] + 1
    BY DEF RobInv, Turns
  <1>3. CASE ~TestIsValid
    <2>1. testIdx' = testIdx /\ testBank' = testBank /\ testTgt' = testTgt
      BY <1>3 DEF NextTest
    <2> QED BY <1>1, <1>2, <1>3, <2>1 DEF Tested, SlotOf
  <1>4. CASE TestIsValid /\ testBank = 0
    <2>1. /\ testIdx' = [testIdx EXCEPT ![0] = (testIdx[0] + 1) % (N \div 2)]
          /\ testBank' = 1 /\ testTgt' = testTgt
      BY <1>4 DEF NextTest
    <2>2. /\ (testIdx[0] + 1) % (N \div 2) = IF testIdx[0] = (N \div 2) - 1 THEN 0 ELSE testIdx[0] + 1
          /\ (testIdx[0] + 1) % (N \div 2) \in Row
      BY <1>1, RowWraps, Constants DEF Row
    <2>3. /\ testIdx'[0] = IF testIdx[0] = (N \div 2) - 1 THEN 0 ELSE testIdx[0] + 1
          /\ testIdx'[1] = testIdx[1] /\ testIdx' \in [Bit -> Row]
      BY <1>1, <2>1, <2>2 DEF Bit
    <2>4. Tested = 2 * testIdx[0] /\ Tested' = 2 * testIdx[1] + 1
      BY <1>1, <1>4, <2>1, <2>3, Constants DEF Tested, SlotOf, Row
    <2>5. SlotOf(testBank', testIdx[testBank']) = 2 * testIdx[1] + 1
      BY <2>1 DEF SlotOf
    <2>6. Tested # N - 1 /\ Tested' = Tested + 1
      BY <1>1, <1>2, <1>4, <2>4, Constants DEF Row
    <2> QED BY <1>1, <1>2, <1>4, <2>1, <2>3, <2>4, <2>5, <2>6 DEF Bit
  <1>5. CASE TestIsValid /\ testBank = 1
    <2>1. /\ testIdx' = [testIdx EXCEPT ![1] = (testIdx[1] + 1) % (N \div 2)]
          /\ testBank' = 0
          /\ testTgt' = IF testIdx[1] = (N \div 2) - 1 THEN 1 - testTgt ELSE testTgt
      BY <1>5 DEF NextTest
    <2>2. /\ (testIdx[1] + 1) % (N \div 2) = IF testIdx[1] = (N \div 2) - 1 THEN 0 ELSE testIdx[1] + 1
          /\ (testIdx[1] + 1) % (N \div 2) \in Row
      BY <1>1, RowWraps, Constants DEF Row
    <2>3. /\ testIdx'[1] = IF testIdx[1] = (N \div 2) - 1 THEN 0 ELSE testIdx[1] + 1
          /\ testIdx'[0] = testIdx[0] /\ testIdx' \in [Bit -> Row]
      BY <1>1, <2>1, <2>2 DEF Bit
    <2>4. Tested = 2 * testIdx[1] + 1 /\ Tested' = 2 * testIdx[0]
      BY <1>1, <1>5, <2>1, <2>3, Constants DEF Tested, SlotOf, Row
    <2>5. SlotOf(testBank', testIdx[testBank']) = 2 * testIdx[0]
      BY <1>1, <2>1, Constants DEF SlotOf, Row
    <2>6. /\ Tested = N - 1 <=> testIdx[1] = (N \div 2) - 1
          /\ Tested' = IF Tested = N - 1 THEN 0 ELSE Tested + 1
      BY <1>1, <1>2, <1>5, <2>4, Constants DEF Row
    <2>7. testTgt' \in Bit
      BY <1>1, <2>1 DEF Bit
    <2> QED BY <1>1, <1>2, <1>5, <2>1, <2>3, <2>4, <2>5, <2>6, <2>7 DEF Bit
  <1> QED BY <1>1, <1>3, <1>4, <1>5 DEF Bit

LEMMA TestStep ==
  ASSUME RobInv, NEW n \in 0 .. Beats, NEW other \in BOOLEAN, NEW rs \in Answer,
         Cycle(n, rs, other)
  PROVE  Turns' /\ Place' /\ Behind'
  <1> PICK deq : deq = Deq(other)
    OBVIOUS
  <1>1. /\ deq \in BOOLEAN /\ (deq => numValid > 0)
        /\ oldest' = IF deq THEN IF oldest = N - 1 THEN 0 ELSE oldest + 1 ELSE oldest
    BY Advance
  <1>2. /\ numValid' = (numValid + (IF TestIsValid THEN 1 ELSE 0)) - (IF deq THEN 1 ELSE 0)
        /\ validTag' = IF deq /\ oldest = N - 1 THEN 1 - validTag ELSE validTag
        /\ oldestQ' = oldest /\ validTagQ' = validTag
    BY DEF Cycle, NextOldest
  <1>3. /\ Tested' = IF TestIsValid THEN IF Tested = N - 1 THEN 0 ELSE Tested + 1 ELSE Tested
        /\ testTgt' = IF TestIsValid /\ Tested = N - 1 THEN 1 - testTgt ELSE testTgt
        /\ Tested' = SlotOf(testBank', testIdx[testBank'])
        /\ testBank' = 0 => testIdx'[1] = testIdx'[0]
        /\ testBank' = 1 => testIdx'[0] = IF testIdx'[1] = (N \div 2) - 1 THEN 0 ELSE testIdx'[1] + 1
        /\ testIdx'[testBank'] = testIdx[testBank'] /\ testBank' \in Bit
    BY TestMoves DEF Cycle
  <1>4. /\ oldest \in 0 .. N - 1 /\ numValid \in Nat /\ numValid <= N - 1 /\ N \in Nat
        /\ TestIsValid => numValid + 1 <= N - 1
        /\ validTag \in {0, 1} /\ testTgt \in {0, 1}
    <2>1. numValid <= Used /\ Used \in 0 .. N - 1 /\ numValid \in Nat /\ (TestIsValid => numValid < Used)
      <3>1. numValid <= Used /\ Used \in 0 .. N - 1
        BY Ends DEF RobInv, Counted
      <3>2. numValid \in Nat
        BY Constants DEF RobInv, RobTypeOK
      <3>3. TestIsValid => numValid < Used
        BY Passed
      <3> QED BY <3>1, <3>2, <3>3
    <2>2. oldest \in 0 .. N - 1 /\ validTag \in {0, 1} /\ testTgt \in {0, 1}
      BY DEF RobInv, RobTypeOK, RobSlot, Bit
    <2>3. TestIsValid => numValid + 1 <= N - 1
      BY <2>1, Constants
    <2> QED BY <2>1, <2>2, <2>3, Constants
  <1>5. /\ Tested = IF oldest + numValid < N THEN oldest + numValid ELSE (oldest + numValid) - N
        /\ testTgt = IF Tested >= oldest THEN validTag ELSE 1 - validTag
    BY DEF RobInv, Place, Trip
  <1>6. Behind'
    BY <1>1, <1>2 DEF Behind
  <1>7. Place'
    <2>1. Tested' = IF oldest' + numValid' < N THEN oldest' + numValid' ELSE (oldest' + numValid') - N
      BY <1>1, <1>2, <1>3, <1>4, <1>5
    <2>2. testTgt' = IF Tested' >= oldest' THEN validTag' ELSE 1 - validTag'
      BY <1>1, <1>2, <1>3, <1>4, <1>5
    <2> QED BY <2>1, <2>2 DEF Place, Trip
  <1>8. Turns'
    <2>1. testIdxQ' = testIdx
      BY DEF Cycle, NextTest
    <2>2. \A b \in Bit : testValue'[b] = LET i == SlotOf(b, testIdx[b])
                                        IN  IF Writes(i) THEN WriteTag ELSE validBits[i]
      BY DEF Cycle, NextTest
    <2>3. \A i \in RobSlot : validBits'[i] = IF Writes(i) THEN WriteTag ELSE validBits[i]
      BY DEF Cycle, NextStore
    <2>4. Tested' \in RobSlot
      BY <1>3, TestedIn, Constants DEF RobInv, RobSlot
    <2>5. testValue'[testBank'] = validBits'[Tested']
      BY <1>3, <2>2, <2>3, <2>4
    <2> QED BY <1>3, <2>1, <2>5 DEF Turns
  <1> QED BY <1>6, <1>7, <1>8

\* A request more, and a request more that is covered.
LEMMA Later ==
  ASSUME NEW u \in Nat, NEW v \in Nat, NEW n \in 0 .. Beats, NEW k \in Nat, v <= u + n,
         u + MinFreeSlots < N + k * Beats
  PROVE  v + MinFreeSlots < N + (k + 1) * Beats
  <1>1. Beats \in Nat /\ N \in Nat /\ MinFreeSlots \in Nat
    BY Constants
  <1>2. (k + 1) * Beats = k * Beats + Beats /\ k * Beats \in Nat
    BY <1>1
  <1> DEFINE p == k * Beats
             q == (k + 1) * Beats
  <1>3. q = p + Beats /\ p \in Nat /\ q \in Nat
    BY <1>1, <1>2
  <1>4. u + MinFreeSlots < N + p
    OBVIOUS
  <1> HIDE DEF p, q
  <1>5. v + MinFreeSlots < N + q
    BY <1>1, <1>3, <1>4
  <1> QED BY <1>5 DEF q

LEMMA Fewer ==
  ASSUME NEW u \in Nat, NEW v \in Nat, NEW p \in Nat, v <= u, u + MinFreeSlots < N + p
  PROVE  v + MinFreeSlots < N + p
  BY Constants

\* A signal that is sent says how far the ring can be filled when it is seen.
LEMMA DelayStep ==
  ASSUME RobInv, NEW n \in 0 .. Beats, NEW other \in BOOLEAN, NEW rs \in Answer,
         Cycle(n, rs, other)
  PROVE  Delay' /\ almFull' \in [1 .. Latency -> BOOLEAN] /\ late' \in 0 .. Threshold
  <1>1. /\ Used \in Nat /\ Latency \in Nat /\ Threshold \in Nat /\ Beats \in Nat /\ N \in Nat
        /\ MinFreeSlots \in Nat
    BY Ends, Constants DEF RobInv
  <1>2. late \in Nat /\ late <= Threshold /\ almFull \in [1 .. Latency -> BOOLEAN]
    BY <1>1 DEF RobInv, RobTypeOK
  <1>3. Used' \in Nat /\ Used' <= Used + n
    <2> PICK deq : deq = Deq(other)
      OBVIOUS
    <2>1. deq \in BOOLEAN /\ (deq => Used > 0) /\ Used' = (Used + n) - (IF deq THEN 1 ELSE 0)
      BY Advance
    <2>2. n \in Nat
      BY <1>1
    <2>3. CASE deq
      BY <1>1, <2>1, <2>2, <2>3
    <2>4. CASE ~deq
      BY <1>1, <2>1, <2>2, <2>4
    <2> QED BY <2>1, <2>3, <2>4
  <1>4. /\ almFull' = [k \in 1 .. Latency |-> IF k = 1 THEN ~NotFull ELSE almFull[k - 1]]
        /\ late' = IF ~AlmFullSeen THEN 0 ELSE IF n > 0 THEN late + 1 ELSE late
        /\ n > 0 => MayRequest
    BY DEF Cycle, Request
  <1>5. \A k \in Nat : Used + MinFreeSlots < N + k * Beats
                          => Used' + MinFreeSlots < N + (k + 1) * Beats
    BY <1>1, <1>3, Later
  <1>6. NotFull => Used + MinFreeSlots < N + 0 * Beats
    BY <1>1, Ends DEF RobInv
  <1>7. ASSUME NEW k \in 1 .. Latency, ~almFull'[k]
        PROVE  Used' + MinFreeSlots < N + k * Beats
    <2>1. k - 1 \in Nat /\ (k - 1) + 1 = k
      BY <1>1
    <2>2. Used + MinFreeSlots < N + (k - 1) * Beats
      <3>1. CASE k = 1
        <4>1. 1 \in 1 .. Latency /\ k - 1 = 0
          BY <3>1
        <4>2. almFull'[1] = ~NotFull
          BY <1>4, <4>1
        <4>3. NotFull
          BY <1>7, <3>1, <4>2
        <4> QED BY <1>6, <4>1, <4>3
      <3>2. CASE k # 1
        <4>1. k - 1 \in 1 .. Latency
          BY <1>1, <3>2
        <4>2. ~almFull[k - 1]
          BY <1>4, <1>7, <3>2
        <4> QED BY <4>1, <4>2 DEF RobInv, Delay
      <3> QED BY <3>1, <3>2
    <2>3. Used' + MinFreeSlots < N + ((k - 1) + 1) * Beats
      BY <1>5, <2>1, <2>2
    <2> QED BY <2>1, <2>3
  <1>8. late' \in 0 .. Threshold /\ Used' + MinFreeSlots < N + (Latency + 1 + late') * Beats
    <2>1. Used + MinFreeSlots < N + (Latency + 1 + late) * Beats
      BY DEF RobInv, Delay
    <2>2. CASE ~AlmFullSeen
      <3>1. late' = 0 /\ Latency + 1 + late' = Latency + 1
        BY <1>1, <1>4, <2>2
      <3>2. Used + MinFreeSlots < N + Latency * Beats
        <4>1. CASE Latency = 0
          BY <1>6, <2>2, <4>1 DEF AlmFullSeen
        <4>2. CASE Latency # 0
          <5>1. Latency \in 1 .. Latency /\ ~almFull[Latency]
            BY <1>1, <2>2, <4>2 DEF AlmFullSeen
          <5> QED BY <5>1 DEF RobInv, Delay
        <4> QED BY <4>1, <4>2
      <3>3. Used' + MinFreeSlots < N + (Latency + 1) * Beats
        BY <1>1, <1>5, <3>2
      <3> QED BY <1>1, <3>1, <3>3
    <2>3. CASE AlmFullSeen /\ n > 0
      <3>1. late' = late + 1 /\ late < Threshold
        BY <1>4, <2>3 DEF MayRequest
      <3>2. Latency + 1 + late' = (Latency + 1 + late) + 1 /\ Latency + 1 + late \in Nat
        BY <1>1, <1>2, <3>1
      <3>3. Used' + MinFreeSlots < N + ((Latency + 1 + late) + 1) * Beats
        BY <1>5, <2>1, <3>2
      <3>4. late' \in 0 .. Threshold
        BY <1>1, <1>2, <3>1
      <3> QED BY <3>2, <3>3, <3>4
    <2>4. CASE AlmFullSeen /\ ~(n > 0)
      <3>1. late' = late /\ n = 0
        BY <1>1, <1>4, <2>4
      <3>2. Used' <= Used
        BY <1>1, <1>3, <3>1
      <3>3. (Latency + 1 + late) * Beats \in Nat
        BY <1>1, <1>2
      <3>4. Used' + MinFreeSlots < N + (Latency + 1 + late) * Beats
        BY <1>1, <1>3, <2>1, <3>2, <3>3, Fewer
      <3>5. late' \in 0 .. Threshold
        BY <1>1, <1>2, <3>1
      <3> QED BY <3>1, <3>4, <3>5
    <2> QED BY <2>2, <2>3, <2>4
  <1>9. almFull' \in [1 .. Latency -> BOOLEAN]
    <2>1. \A k \in 1 .. Latency : k # 1 => k - 1 \in 1 .. Latency
      BY <1>1
    <2> QED BY <1>2, <1>4, <2>1 DEF NotFull
  <1>10. MinFreeSlots' = MinFreeSlots
    BY DEF MinFreeSlots
  <1> QED BY <1>7, <1>8, <1>9, <1>10 DEF Delay

LEMMA TypesStep ==
  ASSUME RobInv, NEW n \in 0 .. Beats, NEW other \in BOOLEAN, NEW rs \in Answer,
         Cycle(n, rs, other)
  PROVE  RobTypeOK'
  <1> PICK deq : deq = Deq(other)
    OBVIOUS
  <1>1. {newest', oldest', oldestQ'} \subseteq RobSlot /\ {validTag', validTagQ'} \subseteq Bit
    <2>1. newest' \in RobSlot /\ oldest' \in RobSlot /\ validTag' \in Bit
      BY Advance
    <2>2. oldestQ' = oldest /\ validTagQ' = validTag
      BY DEF Cycle, NextOldest
    <2>3. oldest \in RobSlot /\ validTag \in Bit
      BY DEF RobInv, RobTypeOK
    <2> QED BY <2>1, <2>2, <2>3
  <1>2. {testTgt', testBank'} \subseteq Bit /\ testIdx' \in [Bit -> Row] /\ testIdxQ' \in [Bit -> Row]
    BY TestMoves DEF Cycle, NextTest, RobInv, RobTypeOK
  <1>3. rsp' \in [en : BOOLEAN, idx : RobSlot, beat : Beat]
    <2>1. CASE rs = {}
      <3>1. rsp' = NoRsp
        BY <2>1, Arrival DEF Cycle
      <3> QED BY <3>1, Constants DEF NoRsp, RobSlot, Beat
    <2>2. CASE rs # {}
      <3>1. PICK r \in inFlight : rsp' = [en |-> TRUE, idx |-> RspIdx(r), beat |-> r.beat]
        BY <2>2, Arrival DEF Cycle
      <3> QED BY <3>1, InFlightSlot
    <2> QED BY <2>1, <2>2
  <1>4. validBits' \in [RobSlot -> Bit] /\ testValue' \in [Bit -> Bit]
    <2>1. WriteTag \in Bit
      BY DEF WriteTag, Bit, RobInv, RobTypeOK
    <2>2. \A b \in Bit : SlotOf(b, testIdx[b]) \in RobSlot
      <3>1. testIdx[0] \in Row /\ testIdx[1] \in Row
        BY DEF Bit, RobInv, RobTypeOK
      <3> QED BY <3>1, Constants DEF SlotOf, RobSlot, Row, Bit
    <2>3. validBits \in [RobSlot -> Bit]
      BY DEF RobInv, RobTypeOK
    <2>4. validBits' = [i \in RobSlot |-> IF Writes(i) THEN WriteTag ELSE validBits[i]]
      BY DEF Cycle, NextStore
    <2>5. testValue' = [b \in Bit |-> LET i == SlotOf(b, testIdx[b])
                                      IN  IF Writes(i) THEN WriteTag ELSE validBits[i]]
      BY DEF Cycle, NextTest
    <2>6. validBits' \in [RobSlot -> Bit]
      BY <2>1, <2>3, <2>4
    <2> QED BY <2>1, <2>2, <2>3, <2>5, <2>6
  <1>5. numValid' \in 0 .. ReadyMax /\ notEmpty' \in BOOLEAN
    BY FrontStep
  <1>6. mem' \in [RobSlot -> 0 .. OldData] /\ meta' \in [RobSlot -> Meta]
    <2>1. rsp.beat \in 0 .. OldData /\ OldData \in 0 .. OldData /\ mem \in [RobSlot -> 0 .. OldData]
      BY Constants DEF RobInv, RobTypeOK, Beat, OldData
    <2>2. mem' \in [RobSlot -> 0 .. OldData]
      BY <2>1 DEF Cycle, NextStore
    <2>3. OldMeta \in Meta /\ meta \in [RobSlot -> Meta]
      BY DEF Meta, RobInv, RobTypeOK
    <2>4. n > 0 => [mdata |-> next, len |-> n - 1] \in Meta
      <3>1. n > 0 => n - 1 \in Beat
        BY Constants DEF Beat
      <3>2. next \in 0 .. Mdata - 1
        BY DEF RobInv, RobTypeOK
      <3> QED BY <3>1, <3>2 DEF Meta
    <2>5. meta' = [i \in RobSlot |-> IF n > 0 /\ i = newest THEN [mdata |-> next, len |-> n - 1]
                               ELSE IF Given(i, n) \/ (Deq(other) /\ i = oldest) THEN OldMeta ELSE meta[i]]
      BY DEF Cycle, NextStore
    <2> QED BY <2>2, <2>3, <2>4, <2>5
  <1>7. {read1', read2'} \subseteq [en : BOOLEAN, beat : 0 .. OldData, meta : Meta]
    <2>1. oldest \in RobSlot /\ mem[oldest] \in 0 .. OldData /\ meta[oldest] \in Meta
      BY DEF RobInv, RobTypeOK
    <2>2. NoRead \in [en : BOOLEAN, beat : 0 .. OldData, meta : Meta]
      BY Constants DEF NoRead, Meta, OldData
    <2>3. /\ read1' = IF Deq(other) THEN [en |-> TRUE, beat |-> mem[oldest], meta |-> meta[oldest]] ELSE NoRead
          /\ read2' = read1
      BY DEF Cycle, NextOut
    <2>4. read1 \in [en : BOOLEAN, beat : 0 .. OldData, meta : Meta]
      BY DEF RobInv, RobTypeOK
    <2> QED BY <2>1, <2>2, <2>3, <2>4
  <1>8. sop' \in BOOLEAN /\ sopMeta' \in Meta
    <2>1. HeadMeta \in Meta /\ IsLast \in BOOLEAN
      BY DEF HeadMeta, IsLast, RobInv, RobTypeOK
    <2>2. IF read2.en THEN sop' = IsLast /\ sopMeta' = HeadMeta ELSE sop' = sop /\ sopMeta' = sopMeta
      BY DEF Cycle, NextOut
    <2> QED BY <2>1, <2>2 DEF RobInv, RobTypeOK
  <1>9. inFlight' \subseteq [base : RobSlot, beat : Beat]
    BY DEF Cycle, Asked, RobInv, RobTypeOK
  <1>10. next' \in 0 .. Mdata - 1
    <2>1. next \in 0 .. Mdata - 1 /\ Mdata \in Nat /\ Mdata > 0
      BY Constants DEF RobInv, RobTypeOK
    <2>2. (next + 1) % Mdata \in 0 .. Mdata - 1
      BY <2>1
    <2> QED BY <2>1, <2>2 DEF Cycle, Request
  <1>11. almFull' \in [1 .. Latency -> BOOLEAN] /\ late' \in 0 .. Threshold
    BY DelayStep
  <1> QED BY <1>1, <1>2, <1>3, <1>4, <1>5, <1>6, <1>7, <1>8, <1>9, <1>10, <1>11
      DEF RobTypeOK, RobSlot, Bit, Row, Beat, Meta, OldData, OldMeta

-----------------------------------------------------------------------------
(* The invariant.                                                          *)

LEMMA InitInv ==
  ASSUME RobInit
  PROVE  RobInv
  <1>1. RobTypeOK
    <2>1. /\ 0 \in RobSlot /\ 0 \in Row /\ 0 \in Beat /\ 0 \in Bit /\ 1 \in Bit
          /\ OldData \in 0 .. OldData /\ OldMeta \in Meta /\ 0 \in 0 .. Threshold
          /\ 0 \in 0 .. Mdata - 1 /\ 0 \in 0 .. ReadyMax
      BY Constants DEF RobSlot, Row, Beat, Bit, OldData, Meta
    <2>2. /\ {newest, oldest, oldestQ} \subseteq RobSlot
          /\ {validTag, validTagQ, testTgt, testBank} \subseteq Bit
          /\ validBits \in [RobSlot -> Bit]
      BY <2>1 DEF RobInit
    <2>3. rsp \in [en : BOOLEAN, idx : RobSlot, beat : Beat]
      BY <2>1 DEF RobInit, NoRsp
    <2>4. testIdx \in [Bit -> Row] /\ testIdxQ \in [Bit -> Row] /\ testValue \in [Bit -> Bit]
      BY <2>1 DEF RobInit
    <2>5. mem \in [RobSlot -> 0 .. OldData] /\ meta \in [RobSlot -> Meta]
      BY <2>1 DEF RobInit
    <2>6. {read1, read2} \subseteq [en : BOOLEAN, beat : 0 .. OldData, meta : Meta]
      <3>1. NoRead \in [en : BOOLEAN, beat : 0 .. OldData, meta : Meta]
        BY <2>1, Constants DEF NoRead, OldData
      <3> QED BY <3>1 DEF RobInit
    <2>7. /\ numValid \in 0 .. ReadyMax /\ notEmpty \in BOOLEAN
          /\ sop \in BOOLEAN /\ sopMeta \in Meta
          /\ almFull \in [1 .. Latency -> BOOLEAN] /\ late \in 0 .. Threshold
          /\ inFlight \subseteq [base : RobSlot, beat : Beat]
          /\ next \in 0 .. Mdata - 1
      BY <2>1 DEF RobInit
    <2> QED BY <2>2, <2>3, <2>4, <2>5, <2>6, <2>7 DEF RobTypeOK
  <1>2. /\ newest = 0 /\ oldest = 0 /\ validTag = 1 /\ Used = 0 /\ numValid = 0 /\ notEmpty = FALSE
        /\ inFlight = {} /\ rsp.en = FALSE /\ late = 0
    BY Constants DEF RobInit, Used, NoRsp
  <1>3. \A i \in RobSlot : ~Has(i) /\ Trip(i) = 1 /\ validBits[i] = 0 /\ RobAhead(i) \in Nat
    BY <1>2, Constants DEF RobInit, Has, Trip, RobAhead, RobSlot
  <1>4. Delay
    <2>1. \A k \in Nat : k * Beats \in Nat
      BY Constants
    <2> QED BY <1>2, <2>1, Constants DEF Delay
  <1>5. Counted
    BY <1>2 DEF Counted
  <1>6. Behind
    BY DEF RobInit, Behind
  <1>7. Bits /\ Filled /\ Front
    BY <1>2, <1>3 DEF Bits, Filled, Front
  <1>8. Flight
    BY <1>2 DEF Flight
  <1>9. testIdx[0] = 0 /\ testIdx[1] = 0 /\ testBank = 0 /\ testIdxQ = testIdx /\ Tested = 0
    BY DEF RobInit, Bit, Tested, SlotOf
  <1>10. Turns /\ Place
    <2>1. testValue[0] = 0 /\ validBits[0] = 0 /\ Trip(0) = 1 /\ testTgt = 1
      BY <1>3, Constants DEF RobInit, Bit, RobSlot
    <2> QED BY <1>2, <1>9, <2>1, Constants DEF Turns, Place
  <1> QED BY <1>1, <1>4, <1>5, <1>6, <1>7, <1>8, <1>10 DEF RobInv

LEMMA StepInv ==
  ASSUME RobInv, [RobNext]_robVars
  PROVE  RobInv'
  <1>1. CASE RobNext
    <2>1. PICK n \in 0 .. Beats, other \in BOOLEAN, rs \in Answer : Cycle(n, rs, other)
      BY <1>1 DEF RobNext
    <2>2. RobTypeOK' /\ Delay'
      BY <2>1, TypesStep, DelayStep
    <2>3. Bits' /\ Filled' /\ Front' /\ Counted'
      BY <2>1, BitsStep, FrontStep
    <2>4. Flight'
      BY <2>1, FlightStep
    <2>5. Turns' /\ Place' /\ Behind'
      BY <2>1, TestStep
    <2> QED BY <2>2, <2>3, <2>4, <2>5 DEF RobInv
  <1>2. CASE UNCHANGED robVars
    BY <1>2 DEF RobInv, RobTypeOK, Delay, Counted, Behind, Bits, Filled, Front, Flight, Turns, Place,
       RobAhead, Trip, Has, Waits, Used, Tested, SlotOf, RspIdx, Plus,
       robVars, ends, test, store, out, afu
  <1> QED BY <1>1, <1>2

LEMMA Invariance == RobSpec => []RobInv
  <1>1. RobInit => RobInv
    BY InitInv
  <1>2. RobInv /\ [RobNext]_robVars => RobInv'
    BY StepInv
  <1> QED BY <1>1, <1>2, PTL DEF RobSpec

-----------------------------------------------------------------------------
(* Theorems.                                                               *)

\* Every register of the reorder buffer and its shim keeps its width.
THEOREM RobTypes == RobSpec => []RobTypeOK
  <1>1. RobInv => RobTypeOK
    BY DEF RobInv
  <1> QED BY <1>1, Invariance, PTL

\* The assertion "Can't ENQ when FULL!" (cci_mpf_prim_rob.sv:238) for every
\* size and delay: what is kept back when the ring says almost full is enough
\* for all that the AFU may still ask for.
THEOREM NeverFills == RobSpec => []NeverFull
  <1>1. RobInv => NeverFull
    <2> SUFFICES ASSUME RobInv
                 PROVE  NeverFull
      OBVIOUS
    <2>1. 0 \in 0 .. Beats /\ Beats \in 0 .. Beats
      BY Constants
    <2>2. CASE MayRequest
      <3>1. Used + Beats < N
        BY <2>1, <2>2, Room DEF RobInv
      <3> QED BY <2>2, <3>1 DEF NeverFull
    <2>3. CASE ~MayRequest
      <3>1. Used + 0 < N
        BY <2>1, Ends, Constants DEF RobInv
      <3> QED BY <2>3, <3>1 DEF NeverFull
    <2> QED BY <2>2, <2>3
  <1> QED BY <1>1, Invariance, PTL

\* notEmpty of the ring (cci_mpf_prim_rob.sv) is never ahead of the data: a slot
\* is only returned after its line was written to it.
THEOREM DataBeforeReturn == RobSpec => []DataIsThere
  <1>1. RobInv => DataIsThere
    BY Taken DEF RobInv, DataIsThere, Has
  <1> QED BY <1>1, Invariance, PTL

\* The alternating meaning of the valid bits (cci_mpf_prim_rob.sv): the test
\* stands at the first slot that was not counted and looks for the bit of the
\* present trip, so no bit of the trip before is ever taken for data.
THEOREM TestsRightTrip == RobSpec => []TestsTheTrip
  <1>1. RobInv => TestsTheTrip
    <2> SUFFICES ASSUME RobInv
                 PROVE  TestsTheTrip
      OBVIOUS
    <2>1. Tested \in RobSlot /\ oldest \in RobSlot /\ numValid \in 0 .. N
      <3>1. numValid \in Nat /\ numValid <= Used /\ Used \in 0 .. N - 1 /\ oldest \in RobSlot
        BY Ends, Constants DEF RobInv, RobTypeOK, Counted
      <3>2. Tested \in RobSlot
        BY TestedIn DEF RobInv
      <3> QED BY <3>1, <3>2, Constants
    <2>2. Tested = Plus(oldest, numValid)
      BY <2>1, PlusWraps DEF RobInv, Place
    <2>3. validBits[Tested] = testTgt <=> mem[Tested] # OldData
      BY <2>1 DEF RobInv, Place, Bits, Has
    <2> QED BY <2>2, <2>3 DEF TestsTheTrip
  <1> QED BY <1>1, Invariance, PTL

-----------------------------------------------------------------------------
(* The order of the lines.  What was asked for and not returned is, oldest *)
(* first, in the two registers of the output and in the slots of the ring. *)

DueLine == [mdata : 0 .. Mdata - 1, beat : Beat, last : BOOLEAN]

Piped  == (IF read1.en THEN 1 ELSE 0) + (IF read2.en THEN 1 ELSE 0)
Pos(i) == (Piped + 1) + RobAhead(i)

(* From position j on, the lines are those of request mt, beginning with the *)
(* one numbered b.                                                         *)
IsLine(k, mt, m) ==
    /\ k \in 1 .. Len(due)
    /\ due[k].mdata = mt.mdata /\ due[k].beat = m /\ (due[k].last <=> m = mt.len)
RunsOn(j, b, mt) == \A m \in b .. mt.len : IsLine(j + (m - b), mt, m)
Heads(j, mt)     == due[j].beat = 0 => RunsOn(j, 0, mt)

Queue ==
    /\ due \in Seq(DueLine) /\ Len(due) = Piped + Used
    /\ \A j \in 1 .. Len(due) - 1 : due[j].last <=> due[j + 1].beat = 0
    /\ due # <<>> => due[Len(due)].last

Stored ==
    \A i \in RobSlot : RobAhead(i) < Used =>
        Heads(Pos(i), meta[i]) /\ (Has(i) => mem[i] = due[Pos(i)].beat)
Coming ==
    /\ \A r \in inFlight : due[Pos(RspIdx(r))].beat = r.beat
    /\ rsp.en => due[Pos(rsp.idx)].beat = rsp.beat
Leaving ==
    /\ read2.en => due[1].beat = read2.beat /\ Heads(1, read2.meta)
    /\ read1.en /\ read2.en => due[2].beat = read1.beat /\ Heads(2, read1.meta)
    /\ read1.en /\ ~read2.en => due[1].beat = read1.beat /\ Heads(1, read1.meta)

(* The request whose lines are being returned.                             *)
Current ==
    /\ sop => due = <<>> \/ due[1].beat = 0
    /\ ~sop => /\ due # <<>> /\ due[1].beat # 0 /\ due[1].beat <= sopMeta.len
               /\ RunsOn(1, due[1].beat, sopMeta)

OrderInv == Queue /\ Stored /\ Coming /\ Leaving /\ Current

(* The oldest e lines leave and n new ones, of one request, come.           *)
Moved(e, n) ==
    /\ due \in Seq(DueLine) /\ due' \in Seq(DueLine)
    /\ e \in 0 .. 1 /\ n \in Nat /\ e <= Len(due) /\ Len(due') = (Len(due) - e) + n
    /\ \A j \in 1 .. Len(due) - e : due'[j] = due[j + e]
    /\ \A k \in 1 .. n : /\ due'[(Len(due) - e) + k].mdata = next
                         /\ due'[(Len(due) - e) + k].beat = k - 1
                         /\ due'[(Len(due) - e) + k].last <=> k = n

LEMMA MetaLen ==
  ASSUME NEW mt \in Meta
  PROVE  mt.len \in Nat
  BY Constants DEF Meta, OldMeta, Beat

LEMMA RunsShift ==
  ASSUME NEW e, NEW n, Moved(e, n), NEW j \in Nat \ {0}, NEW b \in Nat, NEW mt \in Meta,
         RunsOn(j + e, b, mt)
  PROVE  RunsOn(j, b, mt)'
  <1>1. mt.len \in Nat /\ Len(due) \in Nat /\ e \in 0 .. 1 /\ n \in Nat /\ Len(due') = (Len(due) - e) + n
    BY MetaLen DEF Moved
  <1> SUFFICES ASSUME NEW m \in b .. mt.len
               PROVE  IsLine(j + (m - b), mt, m)'
    BY DEF RunsOn
  <1>2. PICK k \in Nat \ {0} : k = j + (m - b)
    BY <1>1
  <1>3. (j + e) + (m - b) = k + e
    BY <1>1, <1>2
  <1>4. IsLine(k + e, mt, m)
    BY <1>3 DEF RunsOn
  <1>5. k \in 1 .. Len(due) - e /\ k \in 1 .. Len(due')
    BY <1>1, <1>4 DEF IsLine
  <1>6. due'[k] = due[k + e]
    BY <1>5 DEF Moved
  <1>7. IsLine(k, mt, m)'
    BY <1>4, <1>5, <1>6 DEF IsLine
  <1> QED BY <1>2, <1>7

LEMMA HeadsShift ==
  ASSUME NEW e, NEW n, Moved(e, n), NEW j \in 1 .. Len(due) - e, NEW mt \in Meta, Heads(j + e, mt)
  PROVE  Heads(j, mt)' /\ due'[j].beat = due[j + e].beat
  <1>1. due'[j] = due[j + e] /\ j \in Nat \ {0}
    BY DEF Moved
  <1>2. CASE due[j + e].beat = 0
    <2>1. RunsOn(j, 0, mt)'
      BY <1>1, <1>2, RunsShift DEF Heads
    <2> QED BY <1>1, <2>1 DEF Heads
  <1> QED BY <1>1, <1>2 DEF Heads

LEMMA Joined ==
  ASSUME NEW S, NEW s \in Seq(S), NEW t \in Seq(S)
  PROVE  /\ s \o t \in Seq(S) /\ Len(s \o t) = Len(s) + Len(t)
         /\ \A j \in 1 .. Len(s) : (s \o t)[j] = s[j]
         /\ \A k \in 1 .. Len(t) : (s \o t)[Len(s) + k] = t[k]
  <1>1. Len(s) \in Nat /\ Len(t) \in Nat /\ s \o t \in Seq(S) /\ Len(s \o t) = Len(s) + Len(t)
    OBVIOUS
  <1>2. \A j \in 1 .. Len(s) : (s \o t)[j] = s[j]
    BY <1>1
  <1>3. \A k \in 1 .. Len(t) : (s \o t)[Len(s) + k] = t[k]
    BY <1>1
  <1> QED BY <1>1, <1>2, <1>3

LEMMA DueMoves ==
  ASSUME RobInv, Queue, NEW n \in 0 .. Beats, NEW other \in BOOLEAN, NEW rs \in Answer,
         Cycle(n, rs, other), NEW e, e = IF read2.en THEN 1 ELSE 0
  PROVE  Moved(e, n)
  <1>1. /\ due \in Seq(DueLine) /\ Len(due) \in Nat /\ Used \in Nat /\ n \in Nat
        /\ Len(due) = Piped + Used /\ e \in 0 .. 1
    BY Ends, Constants DEF Queue, RobInv
  <1>2. e <= Len(due) /\ (e = 1 => due # <<>>)
    BY <1>1 DEF Piped
  <1>3. PICK old : old = IF read2.en THEN Tail(due) ELSE due
    OBVIOUS
  <1>4. /\ old \in Seq(DueLine) /\ Len(old) = Len(due) - e
        /\ \A j \in 1 .. Len(due) - e : old[j] = due[j + e]
    BY <1>1, <1>2, <1>3
  <1>5. next \in 0 .. Mdata - 1
    BY DEF RobInv, RobTypeOK
  <1>6. ASSUME NEW k \in 1 .. n
        PROVE  /\ Lines(n)[k] \in DueLine /\ Lines(n)[k].mdata = next /\ Lines(n)[k].beat = k - 1
               /\ Lines(n)[k].last <=> k = n
    <2>1. Lines(n)[k] = [mdata |-> next, beat |-> k - 1, last |-> k = n]
      BY DEF Lines
    <2>2. k - 1 \in Beat
      BY Constants DEF Beat
    <2>3. CASE k = n
      <3>1. Lines(n)[k] = [mdata |-> next, beat |-> k - 1, last |-> TRUE]
        BY <2>1, <2>3
      <3> QED BY <1>5, <2>2, <2>3, <3>1 DEF DueLine
    <2>4. CASE k # n
      <3>1. Lines(n)[k] = [mdata |-> next, beat |-> k - 1, last |-> FALSE]
        BY <2>1, <2>4
      <3> QED BY <1>5, <2>2, <2>4, <3>1 DEF DueLine
    <2> QED BY <2>3, <2>4
  <1>7. PICK new : new = Lines(n)
    OBVIOUS
  <1>8. new \in Seq(DueLine) /\ Len(new) = n
    <2>1. new = [k \in 1 .. n |-> new[k]] /\ \A k \in 1 .. n : new[k] \in DueLine
      BY <1>6, <1>7 DEF Lines
    <2> QED BY <1>1, <2>1
  <1>9. due' = old \o new
    BY <1>3, <1>7 DEF Cycle
  <1>10. /\ due' \in Seq(DueLine) /\ Len(due') = (Len(due) - e) + n
         /\ \A j \in 1 .. Len(due) - e : due'[j] = old[j]
         /\ \A k \in 1 .. n : due'[(Len(due) - e) + k] = new[k]
    <2>1. /\ due' \in Seq(DueLine) /\ Len(due') = Len(old) + Len(new)
          /\ \A j \in 1 .. Len(old) : due'[j] = old[j]
          /\ \A k \in 1 .. Len(new) : due'[Len(old) + k] = new[k]
      <3>1. old \in Seq(DueLine) /\ new \in Seq(DueLine)
        BY <1>4, <1>8
      <3>2. /\ old \o new \in Seq(DueLine) /\ Len(old \o new) = Len(old) + Len(new)
            /\ \A j \in 1 .. Len(old) : (old \o new)[j] = old[j]
            /\ \A k \in 1 .. Len(new) : (old \o new)[Len(old) + k] = new[k]
        BY <3>1, Joined
      <3> QED BY <1>9, <3>2, Zenon
    <2> QED BY <1>4, <1>8, <2>1
  <1>11. \A j \in 1 .. Len(due) - e : due'[j] = due[j + e]
    BY <1>4, <1>10
  <1>12. ASSUME NEW k \in 1 .. n
         PROVE  /\ due'[(Len(due) - e) + k].mdata = next
                /\ due'[(Len(due) - e) + k].beat = k - 1
                /\ due'[(Len(due) - e) + k].last <=> k = n
    <2>1. due'[(Len(due) - e) + k] = Lines(n)[k]
      BY <1>7, <1>10
    <2> QED BY <1>6, <2>1
  <1> QED BY <1>1, <1>2, <1>10, <1>11, <1>12 DEF Moved

\* Where a slot's line stands before a cycle and after it.
LEMMA Positions ==
  ASSUME RobInv, Queue, NEW n \in 0 .. Beats, NEW other \in BOOLEAN, NEW rs \in Answer,
         Cycle(n, rs, other), NEW deq, deq = Deq(other), NEW e, e = IF read2.en THEN 1 ELSE 0
  PROVE  /\ Len(due) \in Nat /\ Piped \in Nat /\ e <= Piped /\ Len(due) = Piped + Used
         /\ Piped' = (Piped - e) + (IF deq THEN 1 ELSE 0)
         /\ Len(due') = Piped' + Used'
         /\ \A i \in RobSlot : RobAhead(i) < Used /\ ~(deq /\ i = oldest) =>
               (Pos(i))' \in 1 .. Len(due) - e /\ (Pos(i))' + e = Pos(i)
         /\ \A i \in RobSlot : RobAhead(i) >= Used /\ RobAhead(i) < Used + n =>
               (Pos(i))' = (Len(due) - e) + ((RobAhead(i) - Used) + 1)
         /\ \A i \in RobSlot : (RobAhead(i))' < Used' =>
               \/ RobAhead(i) < Used /\ ~(deq /\ i = oldest)
               \/ RobAhead(i) >= Used /\ RobAhead(i) < Used + n
         /\ deq => oldest \in RobSlot /\ RobAhead(oldest) = 0 /\ Used > 0 /\ Has(oldest) /\ Pos(oldest) = Piped + 1
  <1>1. /\ deq \in BOOLEAN /\ Used + n < N /\ (deq => Used > 0 /\ Has(oldest))
        /\ Used' = (Used + n) - (IF deq THEN 1 ELSE 0)
        /\ \A i \in RobSlot : (RobAhead(i))' = IF ~deq THEN RobAhead(i)
                                       ELSE IF i = oldest THEN N - 1 ELSE RobAhead(i) - 1
    BY Advance
  <1>2. /\ Used \in Nat /\ n \in Nat /\ oldest \in RobSlot
        /\ \A i \in RobSlot : RobAhead(i) \in 0 .. N - 1
        /\ \A i \in RobSlot : RobAhead(i) = RobAhead(oldest) => i = oldest
    BY Ends, Constants DEF RobInv
  <1>3. RobAhead(oldest) = 0 /\ N \in Nat
    BY <1>2, Constants DEF RobAhead, RobSlot
  <1>4. read1' = (IF deq THEN [en |-> TRUE, beat |-> mem[oldest], meta |-> meta[oldest]] ELSE NoRead)
        /\ read2' = read1
    BY DEF Cycle, NextOut
  <1>5. read1'.en = deq
    BY <1>1, <1>4 DEF NoRead
  <1>6. /\ Piped \in Nat /\ e \in 0 .. 1 /\ e <= Piped
        /\ Piped' = (Piped - e) + (IF deq THEN 1 ELSE 0)
    <2>1. PICK a, d : a = (IF read1.en THEN 1 ELSE 0) /\ d = (IF deq THEN 1 ELSE 0)
      OBVIOUS
    <2>2. a \in 0 .. 1 /\ d \in 0 .. 1 /\ e \in 0 .. 1
      BY <2>1
    <2>3. Piped = a + e
      BY <2>1 DEF Piped
    <2>4. Piped' = d + a
      BY <1>4, <1>5, <2>1 DEF Piped
    <2> QED BY <2>1, <2>2, <2>3, <2>4
  <1>7. Len(due) \in Nat /\ Len(due) = Piped + Used /\ Len(due') = (Len(due) - e) + n
    BY DueMoves DEF Queue, Moved
  <1>8. Len(due') = Piped' + Used'
    BY <1>1, <1>2, <1>6, <1>7
  <1>9. ASSUME NEW i \in RobSlot, RobAhead(i) < Used, ~(deq /\ i = oldest)
        PROVE  (Pos(i))' \in 1 .. Len(due) - e /\ (Pos(i))' + e = Pos(i)
    <2>1. (RobAhead(i))' = RobAhead(i) - (IF deq THEN 1 ELSE 0) /\ RobAhead(i) \in Nat /\ (deq => RobAhead(i) # 0)
      BY <1>1, <1>2, <1>3, <1>9
    <2>2. PICK d \in 0 .. 1 : d = IF deq THEN 1 ELSE 0
      OBVIOUS
    <2>3. (Pos(i))' = (Piped' + 1) + (RobAhead(i))' /\ Pos(i) = (Piped + 1) + RobAhead(i)
      BY DEF Pos
    <2>4. (Pos(i))' = (((Piped - e) + d) + 1) + (RobAhead(i) - d)
      BY <1>6, <2>1, <2>2, <2>3
    <2>5. (Pos(i))' = (Piped - e) + 1 + RobAhead(i)
      BY <1>6, <2>1, <2>4
    <2>6. RobAhead(i) \in Nat /\ Used \in Nat /\ Piped \in Nat /\ e \in 0 .. 1 /\ e <= Piped
          /\ Len(due) = Piped + Used /\ RobAhead(i) < Used
      BY <1>2, <1>6, <1>7, <1>9, <2>1
    <2>7. (Pos(i))' >= 1 /\ (Pos(i))' <= Len(due) - e /\ (Pos(i))' \in Nat
      BY <2>5, <2>6
    <2>8. (Pos(i))' + e = Pos(i)
      BY <2>3, <2>5, <2>6
    <2> QED BY <1>7, <2>6, <2>7, <2>8
  <1>10. ASSUME NEW i \in RobSlot, RobAhead(i) >= Used, RobAhead(i) < Used + n
         PROVE  (Pos(i))' = (Len(due) - e) + ((RobAhead(i) - Used) + 1)
    <2>1. (RobAhead(i))' = RobAhead(i) - (IF deq THEN 1 ELSE 0) /\ RobAhead(i) \in Nat
      BY <1>1, <1>2, <1>3, <1>10
    <2>2. PICK d \in 0 .. 1 : d = IF deq THEN 1 ELSE 0
      OBVIOUS
    <2>3. (Pos(i))' = (Piped' + 1) + (RobAhead(i))'
      BY DEF Pos
    <2>4. (Pos(i))' = (((Piped - e) + d) + 1) + (RobAhead(i) - d)
      BY <1>6, <2>1, <2>2, <2>3
    <2> QED BY <1>2, <1>6, <1>7, <2>1, <2>4
  <1>11. ASSUME NEW i \in RobSlot, (RobAhead(i))' < Used'
         PROVE  \/ RobAhead(i) < Used /\ ~(deq /\ i = oldest)
                \/ RobAhead(i) >= Used /\ RobAhead(i) < Used + n
    BY <1>1, <1>2, <1>3, <1>11
  <1>12. Pos(oldest) = Piped + 1
    BY <1>3, <1>6 DEF Pos
  <1> QED BY <1>1, <1>2, <1>3, <1>6, <1>7, <1>8, <1>9, <1>10, <1>11, <1>12

\* Requests follow each other without a gap.
LEMMA QueueStep ==
  ASSUME RobInv, Queue, NEW n \in 0 .. Beats, NEW other \in BOOLEAN, NEW rs \in Answer,
         Cycle(n, rs, other)
  PROVE  Queue'
  <1> PICK e : e = IF read2.en THEN 1 ELSE 0
    OBVIOUS
  <1>1. Moved(e, n) /\ Len(due') = Piped' + Used'
    BY DueMoves, Positions
  <1> DEFINE o == Len(due) - e
  <1>2. /\ o \in Nat /\ n \in Nat /\ Len(due) \in Nat /\ e \in 0 .. 1 /\ Len(due') = o + n
        /\ due \in Seq(DueLine) /\ due' \in Seq(DueLine)
        /\ \A j \in 1 .. o : due'[j] = due[j + e]
        /\ \A k \in 1 .. n : due'[o + k].beat = k - 1 /\ (due'[o + k].last <=> k = n)
    <2>1. /\ due \in Seq(DueLine) /\ due' \in Seq(DueLine)
          /\ e \in 0 .. 1 /\ n \in Nat /\ e <= Len(due) /\ Len(due') = (Len(due) - e) + n
          /\ \A j \in 1 .. o : due'[j] = due[j + e]
          /\ \A k \in 1 .. n : due'[o + k].beat = k - 1 /\ (due'[o + k].last <=> k = n)
      BY <1>1, Zenon DEF Moved
    <2>2. Len(due) \in Nat
      BY <2>1
    <2>3. o \in Nat
      BY <2>1, <2>2
    <2> QED BY <2>1, <2>2, <2>3
  <1>3. /\ \A j \in 1 .. Len(due) - 1 : due[j].last <=> due[j + 1].beat = 0
        /\ Len(due) > 0 => due[Len(due)].last
    BY DEF Queue
  <1>4. Len(due) = o + e
    BY <1>2
  <1> HIDE DEF o
  <1>5. ASSUME NEW j \in 1 .. Len(due') - 1
        PROVE  due'[j].last <=> due'[j + 1].beat = 0
    <2>1. CASE j + 1 <= o
      <3>1. j \in 1 .. o /\ j + 1 \in 1 .. o /\ j + e \in 1 .. Len(due) - 1 /\ (j + 1) + e = (j + e) + 1
        BY <1>2, <1>4, <2>1
      <3>2. due'[j] = due[j + e] /\ due'[j + 1] = due[(j + e) + 1]
        BY <1>2, <3>1
      <3> QED BY <1>3, <3>1, <3>2
    <2>2. CASE j = o
      <3>1. j \in 1 .. o /\ j + e = Len(due) /\ 1 \in 1 .. n /\ Len(due) > 0
        BY <1>2, <1>4, <2>2
      <3>2. due'[j].last
        BY <1>2, <1>3, <3>1
      <3>3. due'[j + 1].beat = 1 - 1
        BY <1>2, <2>2, <3>1
      <3> QED BY <3>2, <3>3
    <2>3. CASE j > o
      <3>1. PICK k \in 1 .. n : j = o + k /\ k + 1 \in 1 .. n /\ j + 1 = o + (k + 1)
        <4>1. j - o \in 1 .. n /\ j = o + (j - o) /\ (j - o) + 1 \in 1 .. n /\ j + 1 = o + ((j - o) + 1)
          BY <1>2, <2>3
        <4> QED BY <4>1
      <3>2. due'[j].last <=> k = n
        BY <1>2, <3>1
      <3>3. due'[j + 1].beat = (k + 1) - 1
        BY <1>2, <3>1
      <3> QED BY <1>2, <3>1, <3>2, <3>3
    <2> QED BY <1>2, <2>1, <2>2, <2>3
  <1>6. ASSUME due' # <<>>
        PROVE  due'[Len(due')].last
    <2>1. Len(due') > 0
      BY <1>2, <1>6
    <2>2. CASE n > 0
      <3>1. n \in 1 .. n
        BY <1>2, <2>2
      <3> QED BY <1>2, <3>1
    <2>3. CASE n = 0
      <3>1. o \in 1 .. o /\ o + e = Len(due) /\ Len(due) > 0 /\ Len(due') = o
        BY <1>2, <1>4, <2>1, <2>3
      <3> QED BY <1>2, <1>3, <3>1
    <2> QED BY <1>2, <2>2, <2>3
  <1> QED BY <1>1, <1>2, <1>5, <1>6 DEF Queue

\* The lines that a request is given are those of the request.
LEMMA NewRuns ==
  ASSUME NEW e, NEW n, Moved(e, n), n > 0, NEW mt, mt = [mdata |-> next, len |-> n - 1],
         NEW j, j = (Len(due) - e) + 1
  PROVE  RunsOn(j, 0, mt)'
  <1>1. mt.mdata = next /\ mt.len = n - 1 /\ n \in Nat
    BY DEF Moved
  <1> SUFFICES ASSUME NEW m \in 0 .. mt.len
               PROVE  IsLine(j + (m - 0), mt, m)'
    BY DEF RunsOn
  <1>2. PICK k \in 1 .. n : k = m + 1 /\ m = k - 1
    BY <1>1
  <1>3. PICK o \in Nat : o = Len(due) - e /\ Len(due') = o + n
    <2>1. Len(due) \in Nat /\ e \in 0 .. 1 /\ e <= Len(due) /\ Len(due') = (Len(due) - e) + n
      BY DEF Moved
    <2>2. Len(due) - e \in Nat
      BY <2>1
    <2> QED BY <2>1, <2>2
  <1>4. j + (m - 0) = o + k /\ o + k \in 1 .. Len(due')
    BY <1>1, <1>2, <1>3, SMTT(30)
  <1>5. due'[o + k].mdata = next /\ due'[o + k].beat = k - 1 /\ (due'[o + k].last <=> k = n)
    BY <1>3 DEF Moved
  <1>6. k = n <=> m = mt.len
    BY <1>1, <1>2
  <1>7. IsLine(o + k, mt, m)'
    BY <1>1, <1>2, <1>4, <1>5, <1>6 DEF IsLine
  <1> QED BY <1>4, <1>7

\* What a slot holds is its line's.
LEMMA StoredStep ==
  ASSUME RobInv, Queue, Stored, Coming, NEW n \in 0 .. Beats, NEW other \in BOOLEAN, NEW rs \in Answer,
         Cycle(n, rs, other)
  PROVE  Stored'
  <1> PICK e : e = IF read2.en THEN 1 ELSE 0
    OBVIOUS
  <1> PICK deq : deq = Deq(other)
    OBVIOUS
  <1> SUFFICES ASSUME NEW i \in RobSlot, (RobAhead(i))' < Used'
               PROVE  /\ Heads(Pos(i), meta[i])'
                      /\ (Has(i))' => mem'[i] = due'[(Pos(i))'].beat
    BY DEF Stored
  <1>1. Moved(e, n) /\ Len(due) \in Nat /\ e \in 0 .. 1
    BY DueMoves, Positions
  <1>2. \/ RobAhead(i) < Used /\ ~(deq /\ i = oldest)
        \/ RobAhead(i) >= Used /\ RobAhead(i) < Used + n
    BY Positions
  <1>3. PICK j : j = (Pos(i))'
    OBVIOUS
  <1>4. PICK mt : mt = meta'[i]
    OBVIOUS
  <1>5. /\ (Has(i))' <=> Writes(i) \/ (Has(i) /\ ~(deq /\ i = oldest))
        /\ Writes(i) => RobAhead(i) < Used /\ ~Has(i)
    BY Data
  <1>6. /\ mem'[i] = IF Writes(i) THEN rsp.beat
                     ELSE IF Given(i, n) \/ (deq /\ i = oldest) THEN OldData ELSE mem[i]
        /\ meta'[i] = IF n > 0 /\ i = newest THEN [mdata |-> next, len |-> n - 1]
                      ELSE IF Given(i, n) \/ (deq /\ i = oldest) THEN OldMeta ELSE meta[i]
    BY DEF Cycle, NextStore
  <1>7. Used + n < N /\ (RobAhead(newest) = Used \/ n = 0)
    BY Advance
  <1>8. /\ Used \in Nat /\ n \in Nat /\ RobAhead(i) \in Nat /\ meta[i] \in Meta /\ newest \in RobSlot
        /\ \A k \in RobSlot : RobAhead(i) = RobAhead(k) => i = k
    BY Ends, Constants, SMTT(30) DEF RobInv, RobTypeOK
  <1>9. Heads(j, mt)' /\ ((Has(i))' => mem'[i] = due'[j].beat)
    <2>1. CASE RobAhead(i) < Used /\ ~(deq /\ i = oldest)
      <3>1. j \in 1 .. Len(due) - e /\ j + e = Pos(i)
        BY <1>3, <2>1, Positions
      <3>2. ~Given(i, n)
        BY <1>7, <1>8, <2>1, GivenAhead DEF RobInv
      <3>3. mt = meta[i] /\ mem'[i] = IF Writes(i) THEN rsp.beat ELSE mem[i]
        BY <1>4, <1>6, <1>7, <1>8, <2>1, <3>2
      <3>4. Heads(j + e, mt) /\ (Has(i) => mem[i] = due[j + e].beat)
        BY <2>1, <3>1, <3>3 DEF Stored
      <3>5. Heads(j, mt)' /\ due'[j].beat = due[j + e].beat
        BY <1>1, <1>8, <3>1, <3>3, <3>4, HeadsShift
      <3>6. Writes(i) => rsp.beat = due[j + e].beat
        BY <3>1 DEF Writes, Coming
      <3> QED BY <1>5, <3>3, <3>4, <3>5, <3>6
    <2>2. CASE RobAhead(i) >= Used /\ RobAhead(i) < Used + n
      <3>1. PICK k \in 1 .. n : k = (RobAhead(i) - Used) + 1 /\ j = (Len(due) - e) + k
        <4>1. j = (Len(due) - e) + ((RobAhead(i) - Used) + 1)
          BY <1>3, <2>2, Positions
        <4> QED BY <1>8, <2>2, <4>1
      <3>2. ~(Has(i))'
        BY <1>5, <1>8, <2>2 DEF RobInv, Filled
      <3>3. due'[j].beat = k - 1
        BY <1>1, <3>1 DEF Moved
      <3>4. ASSUME due'[j].beat = 0
            PROVE  RunsOn(j, 0, mt)'
        <4>1. k = 1 /\ RobAhead(i) = Used /\ n > 0
          BY <1>8, <3>1, <3>3, <3>4
        <4>2. i = newest
          BY <1>7, <1>8, <4>1
        <4>3. mt = [mdata |-> next, len |-> n - 1]
          BY <1>4, <1>6, <4>1, <4>2
        <4> QED BY <1>1, <3>1, <4>1, <4>3, NewRuns
      <3> QED BY <3>2, <3>4 DEF Heads
    <2> QED BY <1>2, <2>1, <2>2
  <1> QED BY <1>3, <1>4, <1>9 DEF Heads, RunsOn, IsLine

\* An answer is of the line whose slot it is written to.
LEMMA ComingStep ==
  ASSUME RobInv, Queue, Coming, NEW n \in 0 .. Beats, NEW other \in BOOLEAN, NEW rs \in Answer,
         Cycle(n, rs, other)
  PROVE  Coming'
  <1> PICK e : e = IF read2.en THEN 1 ELSE 0
    OBVIOUS
  <1> PICK deq : deq = Deq(other)
    OBVIOUS
  <1>1. Moved(e, n) /\ Len(due) \in Nat /\ e \in 0 .. 1
    BY DueMoves, Positions
  <1>2. inFlight' = (inFlight \ rs) \union Asked(n) /\ EnqData(rs)
    BY DEF Cycle
  <1>3. Used \in Nat /\ n \in Nat /\ Used + n < N
    BY Advance, Ends, Constants DEF RobInv
  <1>4. ASSUME NEW r \in inFlight
        PROVE  due'[(Pos(RspIdx(r)))'].beat = r.beat
    <2>1. PICK i \in RobSlot : i = RspIdx(r) /\ RobAhead(i) < Used /\ ~Has(i)
      BY InFlightSlot
    <2>2. deq => Has(oldest)
      BY Positions
    <2>3. PICK j : j = (Pos(i))'
      OBVIOUS
    <2>4. j \in 1 .. Len(due) - e /\ j + e = Pos(i)
      BY <2>1, <2>2, <2>3, Positions
    <2>5. due'[j] = due[j + e]
      BY <1>1, <2>4 DEF Moved
    <2>6. due[j + e].beat = r.beat
      BY <2>1, <2>4 DEF Coming
    <2> QED BY <2>1, <2>3, <2>5, <2>6
  <1>5. ASSUME NEW r \in Asked(n)
        PROVE  due'[(Pos(RspIdx(r)))'].beat = r.beat
    <2>1. PICK i \in RobSlot : i = RspIdx(r) /\ RobAhead(i) = Used + r.beat /\ r.beat \in Nat /\ r.beat < n
      BY <1>3, AskedAhead
    <2>2. PICK k \in 1 .. n : k = r.beat + 1 /\ k - 1 = r.beat /\ (RobAhead(i) - Used) + 1 = k
      BY <1>3, <2>1
    <2>3. (Pos(i))' = (Len(due) - e) + k
      <3>1. RobAhead(i) >= Used /\ RobAhead(i) < Used + n
        BY <1>3, <2>1
      <3> QED BY <2>2, <3>1, Positions
    <2>4. due'[(Len(due) - e) + k].beat = k - 1
      BY <1>1 DEF Moved
    <2> QED BY <2>1, <2>2, <2>3, <2>4
  <1>6. ASSUME rsp'.en
        PROVE  due'[(Pos(rsp.idx))'].beat = rsp'.beat
    <2>1. rs # {}
      BY <1>2, <1>6, Arrival DEF NoRsp
    <2>2. PICK r \in inFlight : rsp' = [en |-> TRUE, idx |-> RspIdx(r), beat |-> r.beat]
      BY <1>2, <2>1, Arrival
    <2>3. rsp'.idx = RspIdx(r) /\ rsp'.beat = r.beat
      BY <2>2
    <2>4. (Pos(rsp.idx))' = (Pos(RspIdx(r)))'
      BY <2>3 DEF Pos, RobAhead
    <2> QED BY <1>4, <2>3, <2>4
  <1> QED BY <1>2, <1>4, <1>5, <1>6 DEF Coming

\* The oldest line goes through two registers.
LEMMA LeavingStep ==
  ASSUME RobInv, Queue, Stored, Leaving, NEW n \in 0 .. Beats, NEW other \in BOOLEAN, NEW rs \in Answer,
         Cycle(n, rs, other)
  PROVE  Leaving'
  <1> PICK e : e = IF read2.en THEN 1 ELSE 0
    OBVIOUS
  <1> PICK deq : deq = Deq(other)
    OBVIOUS
  <1>1. Moved(e, n) /\ Len(due) \in Nat /\ e \in 0 .. 1 /\ Len(due) = Piped + Used /\ Piped \in Nat
    BY DueMoves, Positions
  <1>2. /\ read1' = (IF deq THEN [en |-> TRUE, beat |-> mem[oldest], meta |-> meta[oldest]] ELSE NoRead)
        /\ read2' = read1
    BY DEF Cycle, NextOut
  <1>3. Used \in Nat /\ read1.meta \in Meta /\ (oldest \in RobSlot => meta[oldest] \in Meta)
    BY Ends DEF RobInv, RobTypeOK
  <1>4. ASSUME read2'.en
        PROVE  due'[1].beat = read2'.beat /\ Heads(1, read2.meta)'
    <2>1. read1.en
      BY <1>2, <1>4
    <2>3. PICK mt \in Meta : mt = read1.meta
      BY <1>3
    <2>4. due[1 + e].beat = read1.beat /\ Heads(1 + e, mt)
      <3>1. CASE read2.en
        <4>1. 1 + e = 2
          BY <3>1
        <4> QED BY <2>1, <2>3, <3>1, <4>1 DEF Leaving
      <3>2. CASE ~read2.en
        <4>1. 1 + e = 1
          BY <3>2
        <4> QED BY <2>1, <2>3, <3>2, <4>1 DEF Leaving
      <3> QED BY <3>1, <3>2
    <2>5. 1 \in 1 .. Len(due) - e
      <3>1. Piped = 1 + e
        BY <2>1 DEF Piped
      <3> QED BY <1>1, <1>3, <3>1
    <2>6. Heads(1, mt)' /\ due'[1].beat = due[1 + e].beat
      BY <1>1, <2>4, <2>5, HeadsShift
    <2> QED BY <1>2, <2>3, <2>4, <2>6 DEF Heads, RunsOn, IsLine
  <1>5. ASSUME read1'.en
        PROVE  /\ read2'.en => due'[2].beat = read1'.beat /\ Heads(2, read1.meta)'
               /\ ~read2'.en => due'[1].beat = read1'.beat /\ Heads(1, read1.meta)'
    <2>1. deq
      BY <1>2, <1>5 DEF NoRead
    <2>2. oldest \in RobSlot /\ RobAhead(oldest) = 0 /\ Used > 0 /\ Has(oldest) /\ Pos(oldest) = Piped + 1
      BY <2>1, Positions
    <2>3. PICK mt \in Meta : mt = meta[oldest]
      BY <1>3, <2>2
    <2>4. PICK j \in 1 .. Len(due) - e : j = (IF read2'.en THEN 2 ELSE 1) /\ j + e = Pos(oldest)
      <3>1. CASE read1.en
        <4>1. Piped = 1 + e
          BY <3>1 DEF Piped
        <4> QED BY <1>1, <1>2, <1>3, <2>2, <3>1, <4>1
      <3>2. CASE ~read1.en
        <4>1. Piped = e
          <5>1. Piped = 0 + e
            BY <3>2 DEF Piped
          <5> QED BY <1>1, <5>1
        <4> QED BY <1>1, <1>2, <1>3, <2>2, <3>2, <4>1
      <3> QED BY <3>1, <3>2
    <2>5. Heads(j + e, mt) /\ mem[oldest] = due[j + e].beat
      BY <1>1, <1>3, <2>2, <2>3, <2>4 DEF Stored
    <2>6. Heads(j, mt)' /\ due'[j].beat = due[j + e].beat
      BY <1>1, <2>5, HeadsShift
    <2>7. read1'.meta = mt /\ read1'.beat = mem[oldest]
      BY <1>2, <2>1, <2>3
    <2>8. Heads(j, read1.meta)'
      BY <2>6, <2>7 DEF Heads, RunsOn, IsLine
    <2>9. due'[j].beat = read1'.beat
      BY <2>5, <2>6, <2>7
    <2>10. CASE read2'.en
      <3>1. j = 2
        BY <2>4, <2>10
      <3> QED BY <2>8, <2>9, <2>10, <3>1
    <2>11. CASE ~read2'.en
      <3>1. j = 1
        BY <2>4, <2>11
      <3> QED BY <2>8, <2>9, <2>11, <3>1
    <2> QED BY <2>10, <2>11
  <1> QED BY <1>4, <1>5 DEF Leaving

\* The line that leaves is the oldest one, of the request that is kept.
LEMMA HeadLine ==
  ASSUME RobInv, Queue, Leaving, Current, read2.en
  PROVE  /\ due # <<>> /\ HeadMeta \in Meta /\ due[1].beat = read2.beat
         /\ read2.beat \in Nat /\ read2.beat <= HeadMeta.len
         /\ RunsOn(1, read2.beat, HeadMeta) /\ (sop <=> read2.beat = 0)
         /\ due[1].mdata = HeadMeta.mdata /\ (due[1].last <=> IsLast)
  <1>1. read2.meta \in Meta /\ sopMeta \in Meta /\ read2.beat \in 0 .. OldData /\ OldData \in Nat
        /\ sop \in BOOLEAN
    BY Constants DEF RobInv, RobTypeOK, OldData
  <1>2. Piped + Used > 0 /\ Len(due) = Piped + Used /\ due \in Seq(DueLine)
    <2>1. PICK a \in 0 .. 1 : a = IF read1.en THEN 1 ELSE 0
      OBVIOUS
    <2>2. Piped = a + 1
      BY <2>1 DEF Piped
    <2>3. Used \in Nat
      BY Ends DEF RobInv
    <2> QED BY <2>2, <2>3 DEF Queue
  <1>3. due # <<>> /\ due[1].beat = read2.beat /\ Heads(1, read2.meta)
    BY <1>2 DEF Leaving
  <1>4. HeadMeta \in Meta /\ HeadMeta.len \in Nat
    <2>1. HeadMeta \in Meta
      BY <1>1 DEF HeadMeta
    <2> QED BY <2>1, MetaLen
  <1>7. /\ read2.beat \in Nat /\ read2.beat <= HeadMeta.len
        /\ RunsOn(1, read2.beat, HeadMeta) /\ (sop <=> read2.beat = 0)
    <2>1. read2.beat \in Nat
      BY <1>1
    <2>2. CASE sop
      <3>1. HeadMeta = read2.meta /\ read2.beat = 0
        BY <1>3, <2>2 DEF HeadMeta, Current
      <3> QED BY <1>3, <1>4, <2>2, <3>1 DEF Heads
    <2>3. CASE ~sop
      <3>1. HeadMeta = sopMeta
        BY <2>3 DEF HeadMeta
      <3> QED BY <1>3, <2>1, <2>3, <3>1 DEF Current
    <2> QED BY <2>1, <2>2, <2>3
  <1>8. IsLine(1, HeadMeta, read2.beat)
    <2>1. read2.beat \in read2.beat .. HeadMeta.len /\ 1 + (read2.beat - read2.beat) = 1
      BY <1>4, <1>7
    <2> QED BY <1>7, <2>1 DEF RunsOn
  <1> QED BY <1>3, <1>4, <1>7, <1>8 DEF IsLine, IsLast

\* What comes after a request's last line is another's first one.
LEMMA CurrentStep ==
  ASSUME RobInv, Queue, Leaving, Current, NEW n \in 0 .. Beats, NEW other \in BOOLEAN, NEW rs \in Answer,
         Cycle(n, rs, other)
  PROVE  Current'
  <1> PICK e : e = IF read2.en THEN 1 ELSE 0
    OBVIOUS
  <1>1. Moved(e, n) /\ Len(due) \in Nat /\ e \in 0 .. 1
    BY DueMoves, Positions
  <1>2. /\ due \in Seq(DueLine) /\ due' \in Seq(DueLine) /\ n \in Nat /\ e <= Len(due)
        /\ Len(due') = (Len(due) - e) + n
        /\ Len(due) > e => due'[1] = due[1 + e]
    BY <1>1 DEF Moved
  <1>3. ASSUME Len(due) = e
        PROVE  due' = <<>> \/ due'[1].beat = 0
    <2>1. CASE n = 0
      BY <1>1, <1>2, <1>3, <2>1
    <2>2. CASE n # 0
      <3>1. 1 \in 1 .. n /\ (Len(due) - e) + 1 = 1
        BY <1>1, <1>2, <1>3, <2>2
      <3>2. due'[(Len(due) - e) + 1].beat = 1 - 1
        BY <1>1, <3>1 DEF Moved
      <3> QED BY <3>1, <3>2
    <2> QED BY <2>1, <2>2
  <1>4. CASE read2.en
    <2>1. e = 1 /\ sop' = IsLast /\ sopMeta' = HeadMeta
      BY <1>4 DEF Cycle, NextOut
    <2>2. PICK mt \in Meta : mt = HeadMeta
      BY <1>4, HeadLine
    <2>3. PICK b \in Nat : b = read2.beat
      BY <1>4, HeadLine
    <2>4. /\ mt.len \in Nat /\ b <= mt.len /\ RunsOn(1, b, mt)
          /\ (IsLast <=> b = mt.len) /\ (due[1].last <=> IsLast)
      BY <1>4, <2>2, <2>3, HeadLine, MetaLen DEF IsLast
    <2>5. CASE IsLast
      <3>1. due' = <<>> \/ due'[1].beat = 0
        <4>1. CASE Len(due) > 1
          <5>1. 1 \in 1 .. Len(due) - 1
            BY <1>1, <4>1
          <5>2. due[1 + 1].beat = 0
            BY <2>4, <2>5, <5>1 DEF Queue
          <5> QED BY <1>2, <2>1, <4>1, <5>2
        <4>2. CASE Len(due) = 1
          BY <1>3, <2>1, <4>2
        <4>3. Len(due) > 1 \/ Len(due) = 1
          <5>1. Len(due) \in Nat /\ 1 <= Len(due)
            BY <1>1, <1>2, <2>1
          <5> QED BY <5>1, SMTT(30)
        <4> QED BY <4>1, <4>2, <4>3
      <3> QED BY <2>1, <2>5, <3>1 DEF Current
    <2>6. CASE ~IsLast
      <3>1. b < mt.len /\ b + 1 \in b .. mt.len /\ 1 + ((b + 1) - b) = 2
        BY <2>4, <2>6
      <3>2. IsLine(2, mt, b + 1)
        BY <2>4, <3>1 DEF RunsOn
      <3>3. Len(due) > 1 /\ due[2].beat = b + 1
        BY <1>1, <3>2 DEF IsLine
      <3>4. due'[1] = due[2] /\ due' # <<>>
        BY <1>1, <1>2, <2>1, <3>3
      <3>5. RunsOn(1 + e, b + 1, mt)
        <4>1. ASSUME NEW m \in (b + 1) .. mt.len
              PROVE  IsLine(2 + (m - (b + 1)), mt, m)
          <5>1. m \in b .. mt.len /\ 2 + (m - (b + 1)) = 1 + (m - b)
            BY <2>4, <4>1
          <5> QED BY <2>4, <5>1 DEF RunsOn
        <4> QED BY <2>1, <4>1 DEF RunsOn
      <3>6. RunsOn(1, b + 1, mt)'
        <4>1. b + 1 \in Nat /\ 1 \in Nat \ {0}
          OBVIOUS
        <4> QED BY <1>1, <3>5, <4>1, RunsShift
      <3>7. due'[1].beat = b + 1 /\ b + 1 # 0 /\ b + 1 <= mt.len
        BY <3>1, <3>3, <3>4
      <3>8. ~sop' /\ sopMeta' = mt
        BY <2>1, <2>2, <2>6
      <3>9. RunsOn(1, due[1].beat, sopMeta)'
        BY <3>6, <3>7, <3>8 DEF RunsOn, IsLine
      <3> QED BY <3>4, <3>7, <3>8, <3>9 DEF Current
    <2> QED BY <2>5, <2>6
  <1>5. CASE ~read2.en
    <2>1. e = 0 /\ sop' = sop /\ sopMeta' = sopMeta
      BY <1>5 DEF Cycle, NextOut
    <2>2. CASE sop
      <3>1. due' = <<>> \/ due'[1].beat = 0
        <4>1. CASE Len(due) = 0
          BY <1>3, <2>1, <4>1
        <4>2. CASE Len(due) > 0
          BY <1>2, <2>1, <2>2, <4>2 DEF Current
        <4> QED BY <1>1, <4>1, <4>2
      <3> QED BY <2>1, <2>2, <3>1 DEF Current
    <2>3. CASE ~sop
      <3>1. PICK mt \in Meta : mt = sopMeta
        BY DEF RobInv, RobTypeOK
      <3>2. PICK b : b = due[1].beat
        OBVIOUS
      <3>3. Len(due) > 0 /\ b # 0 /\ b <= mt.len /\ RunsOn(1, b, mt)
        BY <1>1, <1>2, <2>3, <3>1, <3>2 DEF Current
      <3>4. b \in Nat
        <4>1. due[1] \in DueLine
          BY <1>2, <3>3
        <4> QED BY <3>2, <4>1, Constants DEF DueLine, Beat
      <3>5. due'[1] = due[1] /\ due' # <<>>
        BY <1>1, <1>2, <2>1, <3>3
      <3>6. RunsOn(1, b, mt)'
        <4>1. 1 + e = 1 /\ 1 \in Nat \ {0}
          BY <2>1
        <4> QED BY <1>1, <3>3, <3>4, <4>1, RunsShift
      <3>7. RunsOn(1, due[1].beat, sopMeta)'
        BY <2>1, <3>1, <3>2, <3>5, <3>6 DEF RunsOn, IsLine
      <3> QED BY <2>1, <2>3, <3>1, <3>2, <3>3, <3>5, <3>7 DEF Current
    <2> QED BY <2>2, <2>3
  <1> QED BY <1>4, <1>5

LEMMA OrderInit ==
  ASSUME RobInit
  PROVE  OrderInv
  <1>1. due = <<>> /\ inFlight = {} /\ ~rsp.en /\ ~read1.en /\ ~read2.en /\ sop /\ newest = 0 /\ oldest = 0
    BY DEF RobInit, NoRsp, NoRead
  <1>2. Used = 0 /\ Piped = 0
    BY <1>1 DEF Used, Piped
  <1>3. Queue
    <2>1. due \in Seq(DueLine) /\ Len(due) = 0
      BY <1>1
    <2>2. 1 .. Len(due) - 1 = {}
      BY <2>1
    <2> QED BY <1>1, <1>2, <2>1, <2>2 DEF Queue
  <1>4. Stored
    <2>1. \A i \in RobSlot : RobAhead(i) \in 0 .. N - 1
      BY InitInv, Ends DEF RobInv
    <2> QED BY <1>2, <2>1, Constants DEF Stored
  <1>5. Coming /\ Leaving /\ Current
    BY <1>1 DEF Coming, Leaving, Current
  <1> QED BY <1>3, <1>4, <1>5 DEF OrderInv

LEMMA OrderStep ==
  ASSUME RobInv, OrderInv, [RobNext]_robVars
  PROVE  OrderInv'
  <1>1. CASE RobNext
    <2>1. PICK n \in 0 .. Beats, other \in BOOLEAN, rs \in Answer : Cycle(n, rs, other)
      BY <1>1 DEF RobNext
    <2>2. Queue'
      BY <2>1, QueueStep DEF OrderInv
    <2>3. Stored' /\ Coming'
      BY <2>1, StoredStep, ComingStep DEF OrderInv
    <2>4. Leaving' /\ Current'
      BY <2>1, LeavingStep, CurrentStep DEF OrderInv
    <2> QED BY <2>2, <2>3, <2>4 DEF OrderInv
  <1>2. CASE UNCHANGED robVars
    <2>1. UNCHANGED <<newest, oldest, rsp, mem, meta, read1, read2, sop, sopMeta, inFlight, due>>
      BY <1>2 DEF robVars, ends, test, store, out, afu
    <2>2. Used' = Used /\ Piped' = Piped
      BY <2>1 DEF Used, Piped
    <2>3. Queue'
      BY <2>1, <2>2 DEF OrderInv, Queue
    <2>4. Stored'
      BY <2>1 DEF OrderInv, Stored, Heads, RunsOn, IsLine, Pos, RobAhead, Has, Used, Piped
    <2>5. Coming'
      BY <2>1 DEF OrderInv, Coming, Pos, RobAhead, Piped, RspIdx, Plus
    <2>6. Leaving' /\ Current'
      BY <2>1 DEF OrderInv, Leaving, Current, Heads, RunsOn, IsLine
    <2> QED BY <2>3, <2>4, <2>5, <2>6 DEF OrderInv
  <1> QED BY <1>1, <1>2

LEMMA OrderInvariance == RobSpec => [](RobInv /\ OrderInv)
  <1>1. RobInit => RobInv /\ OrderInv
    BY InitInv, OrderInit
  <1>2. RobInv /\ OrderInv /\ [RobNext]_robVars => RobInv' /\ OrderInv'
    BY StepInv, OrderStep
  <1> QED BY <1>1, <1>2, PTL DEF RobSpec

\* What cci_mpf_shim_rsp_order promises to the AFU, for every size of the ring
\* and length of request: the lines are returned in the order in which they were
\* asked for, each with its own data and its request's Mdata, the end marked at
\* the request's last line, whatever the order in which the FIU answers.
THEOREM ReturnsFifo == RobSpec => []FifoOrder
  <1>1. ASSUME RobInv, OrderInv
        PROVE  FifoOrder
    <2>1. RobTypeOK /\ DataIsThere
      BY <1>1, Taken DEF RobInv, DataIsThere, Has
    <2>2. ASSUME read2.en
          PROVE  /\ due # <<>>
                 /\ Head(due) = [mdata |-> HeadMeta.mdata, beat |-> read2.beat, last |-> IsLast]
                 /\ sop <=> read2.beat = 0
      <3>1. /\ due # <<>> /\ due[1].beat = read2.beat /\ (sop <=> read2.beat = 0)
            /\ due[1].mdata = HeadMeta.mdata /\ (due[1].last <=> IsLast)
        BY <1>1, <2>2, HeadLine DEF OrderInv
      <3>2. Head(due) = due[1] /\ due[1] \in DueLine
        BY <1>1, <3>1 DEF OrderInv, Queue
      <3>3. CASE IsLast
        <4>1. due[1].last = TRUE
          BY <3>1, <3>2, <3>3 DEF DueLine
        <4>2. due[1] = [mdata |-> HeadMeta.mdata, beat |-> read2.beat, last |-> TRUE]
          BY <3>1, <3>2, <4>1 DEF DueLine
        <4>3. IsLast = TRUE
          BY <3>3 DEF IsLast
        <4> QED BY <3>1, <3>2, <4>2, <4>3
      <3>4. CASE ~IsLast
        <4>1. due[1].last = FALSE
          BY <3>1, <3>2, <3>4 DEF DueLine
        <4>2. due[1] = [mdata |-> HeadMeta.mdata, beat |-> read2.beat, last |-> FALSE]
          BY <3>1, <3>2, <4>1 DEF DueLine
        <4>3. IsLast = FALSE
          BY <3>4 DEF IsLast
        <4> QED BY <3>1, <3>2, <4>2, <4>3
      <3> QED BY <3>3, <3>4
    <2> QED BY <2>1, <2>2 DEF FifoOrder, ReturnsInOrder
  <1>2. RobInv /\ OrderInv => FifoOrder
    BY <1>1
  <1> QED BY <1>2, OrderInvariance, PTL
=============================================================================
