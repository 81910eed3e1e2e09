------------------------------ MODULE RspOrder ------------------------------
(***************************************************************************)
(* Sorted read responses: cci_mpf_shim_rsp_order, channel 0, with its      *)
(* reorder buffer cci_mpf_prim_rob.                                        *)
(*                                                                         *)
(* The AFU reads one or more lines at a time.  Each line is given a slot   *)
(* of a ring when it is asked for; its data is written to the slot when it *)
(* comes, in any order, and the slots are returned in the order of the     *)
(* ring.  Which slots have their data is told by a bit whose meaning       *)
(* alternates from one trip round the ring to the next, so that it never   *)
(* has to be reset; the bits are in two banks, because reading one takes   *)
(* two cycles.  Nothing holds a request back but the almost-full signal,   *)
(* which the AFU sees late.                                                *)
(*                                                                         *)
(* A step is a clock cycle: the registers' next values as functions of     *)
(* their present ones and of the inputs.                                   *)
(***************************************************************************)
EXTENDS Naturals, Sequences

CONSTANTS
    N,          \* N_ENTRIES, slots of the ring: a power of 2
    Beats,      \* CCI_MAX_MULTI_LINE_BEATS, lines that one request may read
    Threshold,  \* CCI_TX_ALMOST_FULL_THRESHOLD
    Extra,      \* THRESHOLD_EXTRA
    Latency,    \* cycles until the AFU sees the almost-full signal
    ReadyMax,   \* the largest num_valid: 7
    Mdata       \* the AFU numbers its requests from 0 to Mdata - 1, again and again

ASSUME RobAssumption ==
    /\ N \in Nat /\ \E half \in 1 .. N : N = 2 * half
    /\ Beats \in 1 .. N /\ Threshold \in Nat /\ Extra \in Nat
    /\ Latency \in Nat /\ Latency < Extra
    /\ (Threshold + Extra) * Beats < N
    /\ ReadyMax \in Nat /\ ReadyMax % 2 = 1
    /\ Mdata \in Nat \ {0}

VARIABLES
    newest, oldest, oldestQ,  \* ends of the ring; Q: a cycle ago
    validTag, validTagQ,      \* the bit's value that says valid at oldest
    rsp,                      \* the response that arrived a cycle ago
    validBits,                \* by slot, in banks of even and odd slots
    testIdx, testIdxQ,        \* by bank, the row that is tested
    testValue, testBank,      \* by bank, the bit that was read; the bank's turn
    testTgt,                  \* the bit's value that says valid in the test
    numValid, notEmpty,       \* slots that were found valid and are not returned
    mem, meta,                \* data and request of each slot
    read1, read2,             \* what was read from the oldest slot, two cycles
    sop, sopMeta,             \* a request's first line is next; its request
    almFull, late,            \* the signal on its way; requests since it was seen
    inFlight,                 \* lines that the FIU has not answered
    due, next                 \* history: lines asked for and not returned; next Mdata

ends  == <<newest, oldest, oldestQ, validTag, validTagQ>>
test  == <<testIdx, testIdxQ, testValue, testBank, testTgt, numValid, notEmpty>>
store == <<rsp, validBits, mem, meta>>
out   == <<read1, read2, sop, sopMeta>>
afu   == <<almFull, late, inFlight, due, next>>
robVars  == <<ends, test, store, out, afu>>

RobSlot == 0 .. N - 1
Row  == 0 .. (N \div 2) - 1
Beat == 0 .. Beats - 1
Bit  == {0, 1}

\* What a slot holds for the line that it is given to: the number of the line in
\* its request, and for the first one what the AFU sent.  Anything older is old:
\* no line and no request of any.
OldData == Beats
OldMeta == [mdata |-> Mdata, len |-> Beats]
Meta == [mdata : 0 .. Mdata - 1, len : Beat] \union {OldMeta}
NoRsp == [en |-> FALSE, idx |-> 0, beat |-> 0]
NoRead == [en |-> FALSE, beat |-> 0, meta |-> OldMeta]

\* Every register keeps its width.
RobTypeOK ==
    /\ {newest, oldest, oldestQ} \subseteq RobSlot
    /\ {validTag, validTagQ, testTgt, testBank} \subseteq Bit
    /\ rsp \in [en : BOOLEAN, idx : RobSlot, beat : Beat]
    /\ validBits \in [RobSlot -> Bit]
    /\ testIdx \in [Bit -> Row] /\ testIdxQ \in [Bit -> Row] /\ testValue \in [Bit -> Bit]
    /\ numValid \in 0 .. ReadyMax /\ notEmpty \in BOOLEAN
    /\ mem \in [RobSlot -> 0 .. OldData] /\ meta \in [RobSlot -> Meta]
    /\ {read1, read2} \subseteq [en : BOOLEAN, beat : 0 .. OldData, meta : Meta]
    /\ sop \in BOOLEAN /\ sopMeta \in Meta
    /\ almFull \in [1 .. Latency -> BOOLEAN] /\ late \in 0 .. Threshold
    /\ inFlight \subseteq [base : RobSlot, beat : Beat]
    /\ next \in 0 .. Mdata - 1

RobInit ==
    /\ newest = 0 /\ oldest = 0 /\ oldestQ = 0
    /\ validTag = 1 /\ validTagQ = 1
    /\ rsp = NoRsp
    /\ validBits = [i \in RobSlot |-> 0]
    /\ testIdx = [b \in Bit |-> 0] /\ testIdxQ = testIdx
    /\ testValue = [b \in Bit |-> 0] /\ testBank = 0 /\ testTgt = 1
    /\ numValid = 0 /\ notEmpty = FALSE
    /\ mem = [i \in RobSlot |-> OldData] /\ meta = [i \in RobSlot |-> OldMeta]
    /\ read1 = NoRead /\ read2 = NoRead /\ sop = TRUE /\ sopMeta = OldMeta
    /\ almFull = [k \in 1 .. Latency |-> FALSE] /\ late = 0
    /\ inFlight = {} /\ due = <<>> /\ next = 0

Plus(i, n) == (i + n) % N
SlotOf(bank, row) == (2 * row) + bank

-----------------------------------------------------------------------------
(* The AFU's side: requests.                                               *)

MinFreeSlots == (Threshold + Extra) * Beats

\* Mutant: one slot too few is kept.
NotFull_Less == newest + MinFreeSlots <= (IF newest >= oldest THEN N ELSE 0) + oldest

\* notFull: more than MIN_FREE_SLOTS are free, the ring being cut open at 0.
NotFull == newest + MinFreeSlots < (IF newest >= oldest THEN N ELSE 0) + oldest

AlmFullSeen == IF Latency = 0 THEN ~NotFull ELSE almFull[Latency]

\* After the AFU sees the signal it may send so many requests as it likes up to
\* the threshold.
MayRequest == ~AlmFullSeen \/ late < Threshold

\* A request for n lines, or none: the slots, and the Mdata with the first one.
Request(n) ==
    /\ n > 0 => MayRequest
    /\ newest' = Plus(newest, n)
    /\ almFull' = [k \in 1 .. Latency |-> IF k = 1 THEN ~NotFull ELSE almFull[k - 1]]
    /\ late' = IF ~AlmFullSeen THEN 0 ELSE IF n > 0 THEN late + 1 ELSE late
    /\ next' = IF n > 0 THEN (next + 1) % Mdata ELSE next

Lines(n) == [k \in 1 .. n |-> [mdata |-> next, beat |-> k - 1, last |-> k = n]]
Asked(n) == {[base |-> newest, beat |-> b] : b \in {k \in Beat : k < n}}

-----------------------------------------------------------------------------
(* The FIU's side: responses.                                              *)

\* Mutant: the line's number is not added.
RspIdx_Base(r) == r.base

\* A response carries its request's slot as Mdata, and the line's number.
RspIdx(r) == Plus(r.base, r.beat)

\* enqData: the response's index and data are registered and written a cycle
\* later, data and valid bit together.
EnqData(rs) ==
    rsp' = IF rs = {} THEN NoRsp
           ELSE LET r == CHOOSE x \in rs : TRUE
                IN  [en |-> TRUE, idx |-> RspIdx(r), beat |-> r.beat]

\* Mutant: the oldest slot's tag is taken for all.
WriteTag_Same == validTagQ

\* Slots before the oldest one belong to the next trip round the ring.
WriteTag == IF rsp.idx >= oldestQ THEN validTagQ ELSE 1 - validTagQ

Writes(i) == rsp.en /\ rsp.idx = i

-----------------------------------------------------------------------------
(* The test of valid bits.                                                 *)

\* The bit that is being written is not in the value that was read.
Bypass(b) == Writes(SlotOf(b, testIdxQ[b]))

\* Mutant: the count's range is not looked at.
TestIsValid_NoLimit == testValue[testBank] = testTgt \/ Bypass(testBank)

\* The next slot is valid, and the count has room for it.
TestIsValid ==
    /\ testValue[testBank] = testTgt \/ Bypass(testBank)
    /\ numValid # ReadyMax

\* The two banks take turns.  A read takes from the memory or from its write.
NextTest ==
    /\ testIdxQ' = testIdx
    /\ testValue' = [b \in Bit |-> LET i == SlotOf(b, testIdx[b])
                                   IN  IF Writes(i) THEN WriteTag ELSE validBits[i]]
    /\ testIdx' = IF TestIsValid THEN [testIdx EXCEPT ![testBank] = (@ + 1) % (N \div 2)] ELSE testIdx
    /\ testBank' = IF TestIsValid THEN 1 - testBank ELSE testBank
    /\ testTgt' = IF TestIsValid /\ testBank = 1 /\ testIdx[1] = (N \div 2) - 1
                  THEN 1 - testTgt ELSE testTgt

-----------------------------------------------------------------------------
(* Returning the oldest line.                                              *)

\* A response of another kind, which passes the shim in two cycles, holds it back.
Deq(other) == notEmpty /\ ~other

\* Mutant: the count of one is not compared with what is taken.
NextNotEmpty_Late(deq) == TestIsValid \/ numValid > 0

NextNotEmpty(deq) == TestIsValid \/ numValid > 1 \/ (numValid % 2 = 1 /\ ~deq)

NextOldest(deq) ==
    /\ oldest' = IF deq THEN Plus(oldest, 1) ELSE oldest
    /\ oldestQ' = oldest
    /\ validTag' = IF deq /\ oldest = N - 1 THEN 1 - validTag ELSE validTag
    /\ validTagQ' = validTag
    /\ numValid' = (numValid + (IF TestIsValid THEN 1 ELSE 0)) - (IF deq THEN 1 ELSE 0)
    /\ notEmpty' = NextNotEmpty(deq)

\* The slots that a request is given hold nothing of it yet, a slot that was
\* returned nothing any more.
Given(i, n) == ((i + N) - newest) % N < n

NextStore(n, deq) ==
    /\ validBits' = [i \in RobSlot |-> IF Writes(i) THEN WriteTag ELSE validBits[i]]
    /\ mem' = [i \in RobSlot |-> IF Writes(i) THEN rsp.beat
                              ELSE IF Given(i, n) \/ (deq /\ i = oldest) THEN OldData ELSE mem[i]]
    /\ meta' = [i \in RobSlot |-> IF n > 0 /\ i = newest THEN [mdata |-> next, len |-> n - 1]
                               ELSE IF Given(i, n) \/ (deq /\ i = oldest) THEN OldMeta ELSE meta[i]]

\* The Mdata and length that were stored with the first line are kept for the
\* others.
HeadMeta == IF sop THEN read2.meta ELSE sopMeta

IsLast == read2.beat = HeadMeta.len

\* Data and request leave the memories two cycles after the slot was taken.
NextOut(deq) ==
    /\ read1' = IF deq THEN [en |-> TRUE, beat |-> mem[oldest], meta |-> meta[oldest]] ELSE NoRead
    /\ read2' = read1
    /\ IF read2.en THEN sop' = IsLast /\ sopMeta' = HeadMeta
       ELSE UNCHANGED <<sop, sopMeta>>

-----------------------------------------------------------------------------
\* A cycle in which the AFU asks for n lines, the FIU answers the line in rs, if
\* there is one, or has a response of another kind.
Cycle(n, rs, other) ==
    LET deq == Deq(other)
    IN  /\ Request(n)
        /\ EnqData(rs)
        /\ NextTest
        /\ NextOldest(deq)
        /\ NextStore(n, deq)
        /\ NextOut(deq)
        /\ inFlight' = (inFlight \ rs) \union Asked(n)
        /\ due' = (IF read2.en THEN Tail(due) ELSE due) \o Lines(n)

\* What the FIU may answer in a cycle: one line, or none.
Answer == {{}} \union {{r} : r \in inFlight}

RobNext ==
    \E n \in 0 .. Beats, other \in BOOLEAN :
        \E rs \in Answer : (other => rs = {}) /\ Cycle(n, rs, other)

RobSpec == RobInit /\ [][RobNext]_robVars

-----------------------------------------------------------------------------
(* Properties.                                                             *)

\* The assertion "Can't ENQ when FULL!" (cci_mpf_prim_rob.sv:238): the ring is
\* never filled, however late the AFU sees the almost-full signal and however
\* many lines it asks for until then.
Used == IF newest >= oldest THEN newest - oldest ELSE (newest + N) - oldest
NeverFull == Used + (IF MayRequest THEN Beats ELSE 0) < N

\* What is returned is the oldest line that was asked for, with its own data,
\* the Mdata of its request, and the end marked at the request's last line.  The
\* first line of a request follows the last one of another.
ReturnsInOrder ==
    read2.en =>
        /\ due # <<>>
        /\ Head(due) = [mdata |-> HeadMeta.mdata, beat |-> read2.beat, last |-> IsLast]
        /\ sop <=> read2.beat = 0

\* A slot is only taken when it holds its data: notEmpty is never ahead of the
\* data's write.
DataIsThere == notEmpty => mem[oldest] # OldData /\ Used > 0

\* The ring is a FIFO for the AFU, filled in any order.
FifoOrder == RobTypeOK /\ ReturnsInOrder /\ DataIsThere

\* The test stands at the first slot that was not counted, with the value that
\* the bit has on this trip round the ring; and the slot's bit has that value
\* just when its data is there.  A bit of the wrong trip would either return a
\* slot without its data or hold the ring up for ever.
Tested == SlotOf(testBank, testIdx[testBank])
TestsTheTrip ==
    /\ Tested = Plus(oldest, numValid)
    /\ validBits[Tested] = testTgt <=> mem[Tested] # OldData
=============================================================================
