----------------------------- MODULE VtpSrvRing -----------------------------
(***************************************************************************)
(* The channel between the FPGA's software translation service             *)
(* (mpf_svc_vtp_pt_sw) and libmpf's translation server (mpfVtpSrvMain).    *)
(*                                                                         *)
(* A request is a write to the next slot of a ring in host memory, an      *)
(* answer is a CSR write that names no request.  Nobody tells the FPGA     *)
(* which slots are free: the FIFO that remembers the requests in flight    *)
(* limits them.  Writes to memory arrive in any order, CSR writes in the   *)
(* order they were made.  Both ends encode what they send.                 *)
(***************************************************************************)
EXTENDS Integers, Sequences

CONSTANTS
    Slots,      \* lines of the ring: 64
    Depth,      \* storage of the FIFO of requests in flight: 8
    Requests,   \* requests the TLB makes: [page, spec]
    Outcome     \* what mpfVtpPinAndGetIOAddress may return for each page: success,
                \* the size of the page that holds it and that page's first frame

Slot == 0 .. Slots - 1

\* The FIFO's output register holds an entry too.
Capacity == Depth + 1

Failed == [ok |-> FALSE, frame |-> 0, size |-> "4KB"]

ASSUME RingAssumption ==
    /\ Slots \in Nat /\ Depth \in Nat \ {0} /\ Capacity + 1 <= Slots
    /\ Requests \subseteq [page : Nat, spec : BOOLEAN]
    /\ \A r \in Requests : Outcome[r.page] \subseteq
           [ok : BOOLEAN, frame : Nat, size : {"4KB", "2MB", "1GB"}]

VARIABLES
    connected,  \* libmpf has VTP turned on
    req,        \* the service's input register, <<>> when it is empty
    fifo,       \* requests in flight, oldest first
    ringIdx,    \* the service's next slot
    writes,     \* request writes on their way to memory
    slots,      \* the ring in memory, 0 when a slot is free
    srv,        \* the server thread: its state and its next slot
    csr,        \* answers on their way to the FPGA
    reply       \* the service's last response

fpgaVars == <<req, fifo, ringIdx>>
vars == <<connected, fpgaVars, writes, slots, srv, csr, reply>>

-----------------------------------------------------------------------------
(* The encodings.  A request is a page aligned address with two flags, an  *)
(* answer is the number of a 64 byte line with two flags.                  *)

\* Mutant: address 0 is encoded as an empty slot.
Encoded_NoValid(r) == 4096 * r.page + (IF r.spec THEN 2 ELSE 0)

Encoded(r) == 4096 * r.page + (IF r.spec THEN 2 ELSE 0) + 1

\* The page and the flag that the server reads.
PageOf(data) == data \div 4096
IsSpeculative(data) == (data \div 2) % 2 = 1

AnswerOf(o) == IF o.ok THEN 64 * o.frame + (IF o.size = "2MB" THEN 2 ELSE 0) ELSE 1

\* Mutant: the flags are swapped.
Decoded_Swapped(a) ==
    [notPresent |-> (a \div 2) % 2, frame |-> a \div 64, bigPage |-> a % 2]

Decoded(a) == [notPresent |-> a % 2, frame |-> a \div 64, bigPage |-> (a \div 2) % 2]

\* What the TLB ought to learn of page p from an outcome.  It caches pages of
\* 4KB and of 2MB, so the answer for a page of 1GB is p's own 4KB of it.
PagesPerGB == 512 * 512

Told(p, o) ==
    [notPresent |-> IF o.ok THEN 0 ELSE 1,
     frame      |-> IF ~o.ok THEN 0
                    ELSE IF o.size = "1GB" THEN o.frame + (p % PagesPerGB) ELSE o.frame,
     bigPage    |-> IF o.ok /\ o.size = "2MB" THEN 1 ELSE 0]

Translations == [p \in {r.page : r \in Requests} |-> {Told(p, o) : o \in Outcome[p]}]

Port == INSTANCE TranslationPort WITH asked <- fifo \o req

-----------------------------------------------------------------------------
TypeOK ==
    /\ connected \in BOOLEAN
    /\ req \in {<<>>} \union {<<r>> : r \in Requests}
    /\ fifo \in Seq(Requests) /\ Len(fifo) <= Capacity
    /\ ringIdx \in Slot
    /\ writes \subseteq [slot : Slot, data : Nat]
    /\ slots \in [Slot -> Nat]
    /\ srv \in [pc : {"off", "wait", "answered", "aborted"}, next : Slot]
    /\ csr \in Seq(Nat)

Init ==
    /\ connected = FALSE
    /\ req = <<>> /\ fifo = <<>> /\ ringIdx = 0
    /\ writes = {} /\ slots = [s \in Slot |-> 0]
    /\ srv = [pc |-> "off", next |-> 0]
    /\ csr = <<>> /\ reply = Port!NoReply

Quiet == req = <<>> /\ fifo = <<>>

\* mpfVtpSrvInit: a new, zeroed ring whose address resets the service's index,
\* and a new thread.  The application connects with no request outstanding.
Connect ==
    /\ srv.pc = "off" /\ Quiet
    /\ connected' = TRUE
    /\ ringIdx' = 0
    /\ slots' = [s \in Slot |-> 0]
    /\ srv' = [pc |-> "wait", next |-> 0]
    /\ UNCHANGED <<req, fifo, writes, csr, reply>>

\* mpfVtpTerm turns VTP off and cancels the thread, which can be cancelled
\* where it sleeps.
Disconnect ==
    /\ connected /\ Quiet
    /\ srv.pc = "wait" /\ slots[srv.next] = 0
    /\ connected' = FALSE
    /\ srv' = [srv EXCEPT !.pc = "off"]
    /\ UNCHANGED <<fpgaVars, writes, slots, csr, reply>>

\* The TLB's request: reqRdy says that the register is empty.
Accept(r) ==
    /\ connected /\ req = <<>>
    /\ req' = <<r>>
    /\ UNCHANGED <<connected, fifo, ringIdx, writes, slots, srv, csr, reply>>

\* Mutant: the ring is used without regard to the requests in flight.
Send_Unlimited ==
    /\ req # <<>>
    /\ fifo' = Append(fifo, Head(req))
    /\ writes' = writes \union {[slot |-> ringIdx, data |-> Encoded(Head(req))]}
    /\ ringIdx' = (ringIdx + 1) % Slots
    /\ req' = <<>>
    /\ UNCHANGED <<connected, slots, srv, csr, reply>>

\* send_req: the request is written to the ring and remembered.
Send ==
    /\ req # <<>> /\ Len(fifo) < Capacity
    /\ fifo' = Append(fifo, Head(req))
    /\ writes' = writes \union {[slot |-> ringIdx, data |-> Encoded(Head(req))]}
    /\ ringIdx' = (ringIdx + 1) % Slots
    /\ req' = <<>>
    /\ UNCHANGED <<connected, slots, srv, csr, reply>>

\* A write reaches memory.
Arrive(w) ==
    /\ slots' = [slots EXCEPT ![w.slot] = w.data]
    /\ writes' = writes \ {w}
    /\ UNCHANGED <<connected, fpgaVars, srv, csr, reply>>

\* The server answers the request in its slot.  Failing one that was not
\* speculative aborts the process.
SrvAnswer ==
    LET data == slots[srv.next]
    IN  /\ srv.pc = "wait" /\ data # 0
        /\ \E o \in Outcome[PageOf(data)] :
              /\ csr' = Append(csr, AnswerOf(o))
              /\ srv' = [srv EXCEPT !.pc =
                            IF o.ok \/ IsSpeculative(data) THEN "answered" ELSE "aborted"]
        /\ UNCHANGED <<connected, fpgaVars, writes, slots, reply>>

\* Mutant: the slot is left as it is.
SrvClear_Keeps ==
    /\ srv.pc = "answered"
    /\ srv' = [pc |-> "wait", next |-> IF srv.next + 1 = Slots THEN 0 ELSE srv.next + 1]
    /\ UNCHANGED <<connected, fpgaVars, writes, slots, csr, reply>>

\* Only then is the slot free: the FPGA may have the answer already.
SrvClear ==
    /\ srv.pc = "answered"
    /\ slots' = [slots EXCEPT ![srv.next] = 0]
    /\ srv' = [pc |-> "wait", next |-> IF srv.next + 1 = Slots THEN 0 ELSE srv.next + 1]
    /\ UNCHANGED <<connected, fpgaVars, writes, csr, reply>>

\* The service pairs an answer with the oldest request in flight.
Deliver ==
    /\ csr # <<>>
    /\ csr' = Tail(csr)
    /\ IF fifo = <<>> THEN UNCHANGED <<fifo, reply>>
       ELSE /\ fifo' = Tail(fifo)
            /\ reply' = [to |-> Head(fifo), says |-> Decoded(Head(csr))]
    /\ UNCHANGED <<connected, req, ringIdx, writes, slots, srv>>

Next ==
    \/ Connect \/ Disconnect
    \/ \E r \in Requests : Accept(r)
    \/ Send \/ (\E w \in writes : Arrive(w))
    \/ SrvAnswer \/ SrvClear \/ Deliver

Spec == Init /\ [][Next]_vars

(* The service's logic and the server's thread run, writes arrive.         *)
FairSpec ==
    /\ Spec
    /\ WF_vars(Send) /\ WF_vars(Deliver)
    /\ \A s \in Slot : WF_vars(\E w \in writes : w.slot = s /\ Arrive(w))
    /\ WF_vars(SrvAnswer) /\ WF_vars(SrvClear)

-----------------------------------------------------------------------------
\* A request is never written to a slot that still holds one, or that another
\* write is on its way to: "The req_fifo above limits the number of outstanding
\* requests to avoid overwriting active requests" (mpf_svc_vtp_pt_sw.sv:172-174).
NoOverwrite ==
    \A w \in writes :
        /\ slots[w.slot] = 0
        /\ \A v \in writes : v.slot = w.slot => v = w

\* The channel is a translation port: replies come in the order of the
\* requests, each with a translation of its page.
IsPort == Port!Spec

\* No page asked for is in a 1GB page of the kernel's: those are pinned whole, and
\* answered with their first 4KB, whatever page was asked for.
NoGiantPages == \A r \in Requests : \A o \in Outcome[r.page] : o.size # "1GB"

\* Every request is answered, when the FPGA accesses mapped pages only.
IsFairPort == Port!FairSpec
=============================================================================
