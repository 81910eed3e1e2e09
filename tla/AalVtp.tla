------------------------------- MODULE AalVtp -------------------------------
(***************************************************************************)
(* MPFVTP, the VTP component of the AAL service.  bufferAllocate reserves  *)
(* a range of addresses and fills it from its end with large pages, or     *)
(* small ones where large ones cannot be had, and enters each page in the  *)
(* table that the FPGA walks; flags in the entries mark the first and the  *)
(* last page of a buffer.  bufferFree walks from the one to the other.     *)
(* bufferAllocate holds the object's lock, bufferFree does not.            *)
(*                                                                         *)
(* Addresses count small pages.  The table has its two lower levels: the   *)
(* root holds large pages and nodes, a node holds small pages; the levels  *)
(* above hold nodes that are never freed.  Physical addresses are left     *)
(* out: a page that was given back and pinned anew is told apart by not    *)
(* having been pinned in between.                                          *)
(***************************************************************************)
EXTENDS Naturals, FiniteSets

CONSTANTS
    Thread,     \* threads of the program
    Regions,    \* the address space has this many large pages
    Large,      \* small pages in a large page, 512 in the code
    Threshold,  \* CCI_MPF_VTP_LARGE_PAGE_THRESHOLD, 32 in the code
    Requests,   \* lengths asked for
    Offsets,    \* bufferFree is given an address so far into a buffer
    Nodes,      \* nodes of the table that can be allocated
    Free,       \* nobody holds the lock
    MaxCalls,   \* bound: calls of bufferAllocate
    MaxApp,     \* bound: small pages that the program maps for itself
    MaxFaults   \* bound: failures of ALI or of a CSR write

ASSUME AalAssumption ==
    /\ Regions \in Nat \ {0} /\ Large \in Nat \ {0, 1} /\ Threshold \in 0 .. Large - 1
    /\ Requests \subseteq Nat \ {0} /\ Offsets \subseteq Nat
    /\ Nodes \in Nat /\ Free \notin Thread
    /\ {MaxCalls, MaxApp, MaxFaults} \subseteq Nat

VARIABLES
    service,   \* where MPF::init or the constructor of MPFVTP is
    hw,        \* VTP's mode, its root pointer and a translation that it holds
    op,        \* the call that each thread is in, with its locals
    lock,      \* the lock of MPFVTP
    vm,        \* what each small page of the address space is used for
    pins,      \* pages allocated from ALI, which the FPGA may access
    root,      \* ptVtoP, by large page
    node,      \* the nodes of ptVtoP
    ptov,      \* nodes whose address ptPtoV knows
    freeList,  \* m_pageTableFreeList
    bufs,      \* history: buffers that bufferAllocate returned
    why,       \* history: reasons for which calls failed
    count      \* calls, pages of the program and faults so far (bounds)

table == <<root, node, ptov, freeList>>
vars == <<service, hw, op, lock, vm, pins, table, bufs, why, count>>

VA == 0 .. (Regions * Large) - 1
Bound == 0 .. Regions * Large    \* an address or the end of the address space
Region == 0 .. Regions - 1
Node == 1 .. Nodes
Page == [va : VA, size : {1, Large}]
NoPage == [va |-> 0, size |-> 0]

Span(a, n) == a .. (a + n) - 1
RegionOf(a) == a \div Large

\* Entries: -1, a translation with its flags, or the address of a node.  In a
\* node on the free list the first two hold the list and the node's own address.
Flags == [start : BOOLEAN, end : BOOLEAN]
NoFlags == [start |-> FALSE, end |-> FALSE]
Absent == [is |-> "absent"]
PageEntry(f) == [is |-> "page", flags |-> f]
Link(n) == [is |-> "node", to |-> n]
Leaf == {Absent} \union [is : {"page"}, flags : Flags]

Buffer == [base : VA, len : 1 .. Regions * Large, fell : BOOLEAN]
NoBuffer == [base |-> 0, len |-> 0, fell |-> FALSE]
Why == {"full", "empty", "refused", "taken", "grow", "entry", "csr", "cut"}

\* A call: the page it is working on, its size and flags; the reservation, what
\* is left of the buffer and its length; whether it fell back to small pages;
\* the node that bufferFree reads, and the buffer that it gives back.
Idle == [pc |-> "idle", va |-> 0, size |-> 0, flags |-> NoFlags, base |-> 0, len |-> 0,
         left |-> 0, whole |-> 0, fell |-> FALSE, node |-> 0, buf |-> NoBuffer]

Activity == [pc : {"idle", "reserve", "shrink", "pin", "insert", "replace", "next", "restore",
                   "walk", "leaf", "inval", "give"},
             va : Bound, size : {0, 1, Large}, flags : Flags,
             base : Bound, len : Bound, left : Nat, whole : Nat,
             fell : BOOLEAN, node : {0} \union Node, buf : Buffer \union {NoBuffer}]

\* Every variable stays in its range.
TypeOK ==
    /\ service \in {"start", "shims", "vtp", "guid", "reset", "root", "enable", "up", "absent", "failed",
                    "released"}
    /\ hw \in [on : BOOLEAN, root : BOOLEAN, tlb : Page \union {NoPage}]
    /\ op \in [Thread -> Activity]
    /\ lock \in Thread \union {Free}
    /\ vm \in [VA -> {"free", "reserved", "ali", "program"}]
    /\ pins \subseteq Page
    /\ root \in [Region -> Leaf \union [is : {"node"}, to : Node]]
    /\ node \in [Node -> [0 .. Large - 1 -> Leaf \union [is : {"node"}, to : {0} \union Node]]]
    /\ ptov \subseteq Node /\ freeList \in {0} \union Node
    /\ bufs \subseteq Buffer /\ why \subseteq Why
    /\ count \in [calls : 0 .. MaxCalls, app : 0 .. MaxApp, faults : 0 .. MaxFaults]

Init ==
    /\ service = "start"
    /\ hw = [on |-> FALSE, root |-> FALSE, tlb |-> NoPage]
    /\ op = [t \in Thread |-> Idle] /\ lock = Free
    /\ vm = [a \in VA |-> "free"] /\ pins = {}
    /\ root = [r \in Region |-> Absent]
    /\ node = [n \in Node |-> [i \in 0 .. Large - 1 |-> Absent]]
    /\ ptov = {} /\ freeList = 0
    /\ bufs = {} /\ why = {}
    /\ count = [calls |-> 0, app |-> 0, faults |-> 0]

At(t, p) == op[t].pc = p
Goto(t, p) == op' = [op EXCEPT ![t].pc = p]
Fault == count.faults < MaxFaults /\ count' = [count EXCEPT !.faults = @ + 1]
NoFault == UNCHANGED count
AllFree(as) == as \subseteq VA /\ \A a \in as : vm[a] = "free"
Uses(as, use) == vm' = [a \in VA |-> IF a \in as THEN use ELSE vm[a]]

-----------------------------------------------------------------------------
(* MPF::init and the constructor of MPFVTP.                                *)

\* The AFU's buffer and MMIO interfaces must be there.
ServiceInit ==
    /\ service = "start"
    /\ service' \in {"shims", "failed"}
    /\ UNCHANGED <<hw, op, lock, vm, pins, table, bufs, why, count>>

\* VC map, latency QoS, WRO and partial writes are looked for one by one; one
\* that is found and does not start ends the service.
OtherShims ==
    /\ service = "shims"
    /\ service' \in {"vtp", "failed"}
    /\ UNCHANGED <<hw, op, lock, vm, pins, table, bufs, why, count>>

\* VTP is found in the feature list or at an offset that is given, or there is
\* none, and the service does without.
FindVtp ==
    /\ service = "vtp"
    /\ service' \in {"guid", "absent"}
    /\ UNCHANGED <<hw, op, lock, vm, pins, table, bufs, why, count>>

\* The GUID is checked, and ptInitialize makes the root.
Construct ==
    /\ service = "guid"
    /\ service' \in {"reset", "failed"}
    /\ UNCHANGED <<hw, op, lock, vm, pins, table, bufs, why, count>>

\* Mutant: a write that fails is passed over.
WriteCsr_GoesOn(from, to, new) ==
    /\ service = from
    /\ \/ service' = to /\ hw' = new /\ NoFault
       \/ service' = to /\ hw' = hw /\ Fault
    /\ UNCHANGED <<op, lock, vm, pins, table, bufs, why>>

\* vtpReset and _vtpEnable.  A write that fails skips the rest, and the error
\* that is returned then counts as true.
WriteCsr(from, to, new) ==
    /\ service = from
    /\ \/ service' = to /\ hw' = new /\ NoFault
       \/ service' = "up" /\ hw' = hw /\ Fault
    /\ UNCHANGED <<op, lock, vm, pins, table, bufs, why>>

VtpReset ==
    \/ WriteCsr("reset", "root", [hw EXCEPT !.on = FALSE, !.tlb = NoPage])
    \/ WriteCsr("root", "enable", [hw EXCEPT !.root = TRUE])
    \/ WriteCsr("enable", "up", [hw EXCEPT !.on = TRUE])

\* The destructor releases nothing and leaves VTP as it is.
Release ==
    /\ service \in {"up", "failed", "absent"} /\ \A t \in Thread : At(t, "idle")
    /\ service' = "released"
    /\ UNCHANGED <<hw, op, lock, vm, pins, table, bufs, why, count>>

-----------------------------------------------------------------------------
(* The page table.                                                         *)

\* ptTranslatePAtoVA: a node whose address in memory is known.
PtoV(n) == n \in ptov

Empty(n) == \A i \in 0 .. Large - 1 : node[n][i] = Absent

\* The translation of an address: its page and flags.
InRoot(a) == root[RegionOf(a)].is = "page"
InNode(a) == LET e == root[RegionOf(a)]
             IN  e.is = "node" /\ PtoV(e.to) /\ node[e.to][a % Large].is = "page"
Translates(a) == InRoot(a) \/ InNode(a)
EntryOf(a) == IF InRoot(a) THEN root[RegionOf(a)] ELSE node[root[RegionOf(a)].to][a % Large]
PageOf(a) == IF InRoot(a) THEN [va |-> RegionOf(a) * Large, size |-> Large]
                          ELSE [va |-> a, size |-> 1]

\* ptAllocSharedPage, in the order in which ALI gives pages.
FreshNode(n) == ~PtoV(n) /\ \A m \in Node \ ptov : n <= m

\* AddPAtoVA.
AddPAtoVA(n) == ptov' = ptov \union {n}

\* ptAllocTablePage, and the node is emptied: the head of the free list, whose
\* entries say where the next is, or a new node, that PtoV learns of.
NewNode(n) ==
    IF freeList # 0
    THEN /\ n = freeList /\ node[n][1] = Link(n)
         /\ freeList' = node[n][0].to /\ UNCHANGED ptov
    ELSE FreshNode(n) /\ AddPAtoVA(n) /\ UNCHANGED freeList

\* AddVAtoPA for a small page.
InsertSmall(a, f) ==
    LET r == RegionOf(a)
        e == PageEntry(f)
    IN  \/ /\ root[r] = Absent
           /\ \E n \in Node :
                 /\ NewNode(n)
                 /\ node' = [node EXCEPT ![n] = [[i \in 0 .. Large - 1 |-> Absent] EXCEPT ![a % Large] = e]]
                 /\ root' = [root EXCEPT ![r] = Link(n)]
        \/ /\ root[r].is = "node" /\ PtoV(root[r].to)
           /\ node[root[r].to][a % Large] = Absent
           /\ node' = [node EXCEPT ![root[r].to][a % Large] = e]
           /\ UNCHANGED <<root, ptov, freeList>>

\* The entry exists, and is no node that could be freed.
Refuses(a, size) ==
    LET e == root[RegionOf(a)]
    IN  \/ e.is = "page"
        \/ e.is = "node" /\ ~PtoV(e.to)
        \/ e.is = "node" /\ size = 1 /\ node[e.to][a % Large] # Absent
        \/ e.is = "node" /\ size = Large /\ ~Empty(e.to)

-----------------------------------------------------------------------------
(* bufferAllocate.                                                         *)

\* A tail that is long enough becomes a large page.
Padded(n) == LET tail == n % Large IN IF tail > Threshold THEN (n - tail) + Large ELSE n

AlignUp(a) == ((a + (Large - 1)) \div Large) * Large

Allocate(t) ==
    /\ At(t, "idle") /\ service = "up" /\ lock = Free /\ count.calls < MaxCalls
    /\ \E n \in Requests :
          op' = [op EXCEPT ![t] = [Idle EXCEPT !.pc = "reserve", !.left = Padded(n), !.whole = Padded(n)]]
    /\ lock' = t
    /\ count' = [count EXCEPT !.calls = @ + 1]
    /\ UNCHANGED <<service, hw, vm, pins, table, bufs, why>>

\* An error return keeps the reservation and the pages that it has.
Fails(t, reason) ==
    /\ op' = [op EXCEPT ![t] = Idle]
    /\ lock' = Free
    /\ why' = why \union {reason}

\* Mutant: the last page is not marked.
Reserve_NoEnd(t) ==
    /\ At(t, "reserve")
    /\ \E b \in VA :
          LET top == AlignUp(b) + op[t].left
          IN  /\ AllFree(Span(b, op[t].left + Large))
              /\ Uses(b .. top - 1, "reserved")
              /\ op' = [op EXCEPT ![t].pc = "shrink", ![t].base = b, ![t].len = top - b, ![t].va = top]
    /\ UNCHANGED <<service, hw, lock, pins, table, bufs, why, count>>

\* mmap with room for a large page more, align, and trim with mremap.
Reserve(t) ==
    /\ At(t, "reserve")
    /\ \/ \E b \in VA :
             LET top == AlignUp(b) + op[t].left
             IN  /\ AllFree(Span(b, op[t].left + Large))
                 /\ Uses(b .. top - 1, "reserved")
                 /\ op' = [op EXCEPT ![t].pc = "shrink", ![t].base = b, ![t].len = top - b,
                                     ![t].va = top, ![t].flags.end = TRUE]
                 /\ UNCHANGED <<lock, why>>
       \/ /\ \A b \in VA : ~AllFree(Span(b, op[t].left + Large))
          /\ Fails(t, "full") /\ UNCHANGED vm
    /\ UNCHANGED <<service, hw, pins, table, bufs, count>>

\* Small pages down to a multiple of a large page, then large ones, or small
\* ones from where a large one could not be had.
InLargeLoop(t) == op[t].fell \/ op[t].va % Large = 0

\* Mutant: large pages to begin with.
PageSize_Large(t) == IF op[t].fell THEN 1 ELSE Large

PageSize(t) == IF InLargeLoop(t) /\ ~op[t].fell THEN Large ELSE 1

\* The reservation is cut at its end.  The loop over small pages cannot cut it
\* down to nothing: mremap refuses a length of 0.
Shrink(t) ==
    /\ At(t, "shrink")
    /\ LET size == PageSize(t)
       IN  IF op[t].len = size /\ ~InLargeLoop(t)
           THEN Fails(t, "empty") /\ UNCHANGED vm
           ELSE /\ Uses(Span(op[t].va - size, size), "free")
                /\ op' = [op EXCEPT ![t].pc = "pin", ![t].len = @ - size, ![t].va = @ - size,
                                    ![t].size = size,
                                    ![t].flags.start = @ \/ op[t].left <= size]
                /\ UNCHANGED <<lock, why>>
    /\ UNCHANGED <<service, hw, pins, table, bufs, count>>

\* A page was not to be had: a large one is tried as small ones.
PageFails(t, reason) ==
    IF op[t].size = Large
    THEN Goto(t, "restore") /\ why' = why \union {reason} /\ UNCHANGED lock
    ELSE Fails(t, reason)

\* _allocate asks ALI for a page at this address.  It is somewhere else if
\* another mapping was made in the hole.
Pin(t) ==
    /\ At(t, "pin")
    /\ LET hole == Span(op[t].va, op[t].size)
       IN  \/ /\ AllFree(hole) /\ Uses(hole, "ali")
              /\ pins' = pins \union {[va |-> op[t].va, size |-> op[t].size]}
              /\ Goto(t, "insert") /\ NoFault /\ UNCHANGED <<lock, why>>
           \/ /\ ~AllFree(hole)
              /\ PageFails(t, "taken") /\ NoFault /\ UNCHANGED <<vm, pins>>
           \/ /\ PageFails(t, "refused") /\ Fault /\ UNCHANGED <<vm, pins>>
    /\ UNCHANGED <<service, hw, table, bufs>>

\* ptInsertPageMapping.  An old node that is empty is first put on the free
\* list, which writes to its entries.
Insert(t) ==
    /\ At(t, "insert")
    /\ LET a == op[t].va
           e == root[RegionOf(a)]
       IN  \/ /\ Refuses(a, op[t].size)
              /\ PageFails(t, "entry") /\ UNCHANGED table
           \/ /\ ~Refuses(a, op[t].size) /\ op[t].size = 1
              /\ InsertSmall(a, op[t].flags)
              /\ Goto(t, "next") /\ UNCHANGED <<lock, why>>
           \/ /\ e = Absent /\ op[t].size = Large
              /\ root' = [root EXCEPT ![RegionOf(a)] = PageEntry(op[t].flags)]
              /\ Goto(t, "next") /\ UNCHANGED <<lock, why, node, ptov, freeList>>
           \/ /\ ~Refuses(a, op[t].size) /\ op[t].size = Large /\ e.is = "node"
              /\ node' = [node EXCEPT ![e.to][0] = Link(freeList), ![e.to][1] = Link(e.to)]
              /\ freeList' = e.to
              /\ Goto(t, "replace") /\ UNCHANGED <<lock, why, root, ptov>>
    /\ UNCHANGED <<service, hw, vm, pins, bufs, count>>

\* The node is invalidated in the FPGA, and its place taken by the page.
Replace(t) ==
    /\ At(t, "replace")
    /\ root' = [root EXCEPT ![RegionOf(op[t].va)] = PageEntry(op[t].flags)]
    /\ Goto(t, "next")
    /\ UNCHANGED <<service, hw, lock, vm, pins, node, ptov, freeList, bufs, why, count>>

\* Mutant: the next page is marked as this one was.
NextPage_KeepsFlags(t) ==
    /\ At(t, "next")
    /\ LET left == op[t].left - op[t].size
       IN  IF left > 0
           THEN /\ op' = [op EXCEPT ![t].pc = "shrink", ![t].left = left]
                /\ UNCHANGED <<lock, vm, bufs>>
           ELSE /\ op' = [op EXCEPT ![t] = Idle] /\ lock' = Free
                /\ Uses(Span(op[t].base, op[t].len), "free")
                /\ bufs' = bufs \union {[base |-> op[t].va, len |-> op[t].whole, fell |-> op[t].fell]}
    /\ UNCHANGED <<service, hw, pins, table, why, count>>

\* Mutant: the addresses in front of the buffer stay reserved.
NextPage_KeepsFront(t) ==
    /\ At(t, "next")
    /\ LET left == op[t].left - op[t].size
       IN  IF left > 0
           THEN /\ op' = [op EXCEPT ![t].pc = "shrink", ![t].left = left, ![t].flags = NoFlags]
                /\ UNCHANGED <<lock, bufs>>
           ELSE /\ op' = [op EXCEPT ![t] = Idle] /\ lock' = Free
                /\ bufs' = bufs \union {[base |-> op[t].va, len |-> op[t].whole, fell |-> op[t].fell]}
    /\ UNCHANGED <<service, hw, vm, pins, table, why, count>>

\* On to the next page.  At the end what is left of the reservation, in front
\* of the buffer, is unmapped.
NextPage(t) ==
    /\ At(t, "next")
    /\ LET left == op[t].left - op[t].size
       IN  IF left > 0
           THEN /\ op' = [op EXCEPT ![t].pc = "shrink", ![t].left = left, ![t].flags = NoFlags]
                /\ UNCHANGED <<lock, vm, bufs>>
           ELSE /\ op' = [op EXCEPT ![t] = Idle] /\ lock' = Free
                /\ Uses(Span(op[t].base, op[t].len), "free")
                /\ bufs' = bufs \union {[base |-> op[t].va, len |-> op[t].whole, fell |-> op[t].fell]}
    /\ UNCHANGED <<service, hw, pins, table, why, count>>

\* Mutant: any reservation is restored with mmap at a fixed address.
Restore_Fixed(t) ==
    /\ At(t, "restore")
    /\ Uses(Span(op[t].va, Large), "reserved")
    /\ op' = [op EXCEPT ![t].pc = "shrink", ![t].fell = TRUE, ![t].len = @ + Large,
                        ![t].va = @ + Large, ![t].base = IF op[t].len = 0 THEN op[t].va ELSE @]
    /\ UNCHANGED <<service, hw, lock, pins, table, bufs, why, count>>

\* The reservation is given its large page back: mmap at a fixed address, which
\* takes the place of whatever is there, or mremap, which does not.
Restore(t) ==
    /\ At(t, "restore")
    /\ LET hole == Span(op[t].va, Large)
           again == [op EXCEPT ![t].pc = "shrink", ![t].fell = TRUE, ![t].len = @ + Large,
                               ![t].va = @ + Large, ![t].base = IF op[t].len = 0 THEN op[t].va ELSE @]
       IN  IF op[t].len = 0 \/ AllFree(hole)
           THEN Uses(hole, "reserved") /\ op' = again /\ UNCHANGED <<lock, why>>
           ELSE Fails(t, "grow") /\ UNCHANGED vm
    /\ UNCHANGED <<service, hw, pins, table, bufs, count>>

-----------------------------------------------------------------------------
(* bufferFree.                                                             *)

\* The address must translate to a page that is marked as the start of a region.
\* The program frees a buffer once and from one thread.
BufferFree(t) ==
    /\ At(t, "idle") /\ service = "up"
    /\ \E b \in bufs :
          /\ \A u \in Thread : op[u].buf # b
          /\ \E a \in {b.base + o : o \in Offsets} \intersect Span(b.base, b.len) :
                /\ Translates(a) /\ EntryOf(a).flags.start
                /\ op' = [op EXCEPT ![t] = [Idle EXCEPT !.pc = "walk", !.va = a, !.buf = b]]
    /\ UNCHANGED <<service, hw, lock, vm, pins, table, bufs, why, count>>

Stops(t, reason) ==
    /\ op' = [op EXCEPT ![t] = Idle]
    /\ bufs' = bufs \ {op[t].buf}
    /\ why' = why \union {reason}

\* ptRemovePageMapping reads the upper level, where it finds a large page or a
\* node that it looks up in PtoV.
Walk(t) ==
    /\ At(t, "walk")
    /\ LET r == RegionOf(op[t].va)
           e == root[r]
       IN  \/ /\ e.is = "page"
              /\ root' = [root EXCEPT ![r] = Absent]
              /\ op' = [op EXCEPT ![t].pc = "inval", ![t].size = Large, ![t].flags = e.flags]
              /\ UNCHANGED <<bufs, why>>
           \/ /\ e.is = "node" /\ PtoV(e.to)
              /\ op' = [op EXCEPT ![t].pc = "leaf", ![t].node = e.to]
              /\ UNCHANGED <<root, bufs, why>>
           \/ /\ e.is = "absent" \/ (e.is = "node" /\ ~PtoV(e.to))
              /\ Stops(t, "cut") /\ UNCHANGED root
    /\ UNCHANGED <<service, hw, lock, vm, pins, node, ptov, freeList, count>>

\* Mutant: the entry stays.
WalkLeaf_Keeps(t) ==
    /\ At(t, "leaf")
    /\ LET e == node[op[t].node][op[t].va % Large]
       IN  /\ e.is = "page"
           /\ op' = [op EXCEPT ![t].pc = "inval", ![t].size = 1, ![t].flags = e.flags, ![t].node = 0]
    /\ UNCHANGED <<service, hw, lock, vm, pins, table, bufs, why, count>>

\* The lower level: the small page is taken out of the node.
WalkLeaf(t) ==
    /\ At(t, "leaf")
    /\ LET n == op[t].node
           i == op[t].va % Large
       IN  \/ /\ node[n][i].is = "page"
              /\ node' = [node EXCEPT ![n][i] = Absent]
              /\ op' = [op EXCEPT ![t].pc = "inval", ![t].size = 1, ![t].flags = node[n][i].flags,
                                  ![t].node = 0]
              /\ UNCHANGED <<bufs, why>>
           \/ /\ node[n][i].is # "page"
              /\ Stops(t, "cut") /\ UNCHANGED node
    /\ UNCHANGED <<service, hw, lock, vm, pins, root, ptov, freeList, count>>

\* The page that a call of bufferFree took out of the table.
Removed(t) == [va |-> op[t].va, size |-> op[t].size]

\* Mutant: the FPGA is not told.
Inval_Skipped(t) ==
    /\ At(t, "inval") /\ Goto(t, "give")
    /\ UNCHANGED <<service, hw, lock, vm, pins, table, bufs, why, count>>

\* ptInvalVAMapping.
Inval(t) ==
    /\ At(t, "inval")
    /\ \/ /\ hw' = IF hw.tlb = Removed(t) THEN [hw EXCEPT !.tlb = NoPage] ELSE hw
          /\ Goto(t, "give") /\ NoFault /\ UNCHANGED <<bufs, why>>
       \/ /\ Stops(t, "csr") /\ Fault /\ UNCHANGED hw
    /\ UNCHANGED <<service, lock, vm, pins, table>>

\* The page is given back to ALI, which knows it by its first address, and so
\* on up to the one that is marked as the last.
Give(t) ==
    /\ At(t, "give")
    /\ pins' = pins \ {Removed(t)}
    /\ Uses(IF Removed(t) \in pins THEN Span(op[t].va, op[t].size) ELSE {}, "free")
    /\ IF op[t].flags.end
       THEN op' = [op EXCEPT ![t] = Idle] /\ bufs' = bufs \ {op[t].buf}
       ELSE op' = [op EXCEPT ![t].pc = "walk", ![t].va = @ + op[t].size] /\ UNCHANGED bufs
    /\ UNCHANGED <<service, hw, lock, table, why, count>>

-----------------------------------------------------------------------------
(* The FPGA and the rest of the program.                                   *)

\* The walker reads the table for the AFU or to prefetch.
Fill ==
    /\ hw.on /\ hw.root
    /\ \E a \in VA : Translates(a) /\ hw' = [hw EXCEPT !.tlb = PageOf(a)]
    /\ UNCHANGED <<service, op, lock, vm, pins, table, bufs, why, count>>

\* The kernel gives any free address to a mapping of the program.
ProgramMaps ==
    /\ count.app < MaxApp
    /\ \E a \in VA : vm[a] = "free" /\ Uses({a}, "program")
    /\ count' = [count EXCEPT !.app = @ + 1]
    /\ UNCHANGED <<service, hw, op, lock, pins, table, bufs, why>>

-----------------------------------------------------------------------------
Allocating(t) == Reserve(t) \/ Shrink(t) \/ Pin(t) \/ Insert(t) \/ Replace(t) \/ NextPage(t) \/ Restore(t)

Freeing(t) == Walk(t) \/ WalkLeaf(t) \/ Inval(t) \/ Give(t)

Next ==
    \/ ServiceInit \/ OtherShims \/ FindVtp \/ Construct \/ VtpReset \/ Release
    \/ \E t \in Thread : Allocate(t) \/ BufferFree(t) \/ Allocating(t) \/ Freeing(t)
    \/ Fill \/ ProgramMaps

Spec == Init /\ [][Next]_vars

-----------------------------------------------------------------------------
(* Properties.                                                             *)

\* Pages that a thread has taken out of the table and not given back yet.
InHand == {Removed(t) : t \in {u \in Thread : op[u].pc \in {"inval", "give"}}}

\* What the table or the FPGA translates is pinned, whatever calls overlap: a
\* page is pinned before it is entered, and given back only after it was taken
\* out and invalidated.
TranslatesPinned ==
    /\ \A a \in VA : Translates(a) => PageOf(a) \in pins \ InHand
    /\ hw.tlb # NoPage => hw.tlb \in pins

\* A page that was pinned at its address finds room in the table: nothing that
\* was freed or that failed left an entry behind there.
EntriesFree == "entry" \notin why

\* VTP is never on without a table to walk: a write that fails ends the reset.
OnWithRoot == hw.on => hw.root

\* The table translates no page that is not there, has room for every page that
\* is, and is known to the FPGA when it is on.
TableRight == TypeOK /\ TranslatesPinned /\ EntriesFree /\ OnWithRoot

\* A buffer that nobody is giving back translates from its first page to its
\* last, and only these are marked as such: a second mark is only found in a
\* buffer that fell back to small pages.
Marked(b) ==
    \A a \in Span(b.base, b.len) :
        /\ Translates(a)
        /\ LET p == PageOf(a)
               f == EntryOf(a).flags
           IN  /\ Span(p.va, p.size) \subseteq Span(b.base, b.len)
               /\ f.end <=> p.va + p.size = b.base + b.len
               /\ IF p.va = b.base THEN f.start ELSE f.start => b.fell
BuffersMarked == \A b \in bufs : (\A t \in Thread : op[t].buf # b) => Marked(b)

\* bufferFree takes no page out of the table that is not of its buffer, although
\* it only stops where an entry says so.
FreesItsOwn ==
    \A t \in Thread : op[t].pc \in {"inval", "give"} =>
        Span(op[t].va, op[t].size) \subseteq Span(op[t].buf.base, op[t].buf.len)

\* The marks bound each buffer, while it is made and while it is given back.
BuffersApart == BuffersMarked /\ FreesItsOwn

\* As long as no call fails on the way, every address is accounted for: what is
\* pinned belongs to a buffer or to the call that is making one, and what is
\* reserved to that call.
Held(t) == IF op[t].pc \in {"idle", "reserve"} THEN {}
           ELSE Span(op[t].base, op[t].len) \union Span(op[t].va, op[t].whole)
NothingLost ==
    why \subseteq {"full"} =>
        \A a \in VA :
            /\ vm[a] = "ali" <=> \E p \in pins : a \in Span(p.va, p.size)
            /\ vm[a] = "ali" => (\E b \in bufs : a \in Span(b.base, b.len))
                                \/ (lock # Free /\ a \in Held(lock))
            /\ vm[a] = "reserved" => lock # Free /\ a \in Span(op[lock].base, op[lock].len)

\* What the program maps for itself it keeps, even where a call looked for a
\* hole.  Only the mmap that restores a reservation's last page, at a fixed
\* address, takes it away.
ProgramKept ==
    [][\A a \in VA : vm[a] = "program" /\ vm'[a] # "program" =>
          \E t \in Thread : At(t, "restore") /\ op[t].len = 0 /\ a \in Span(op[t].va, Large)]_vars
=============================================================================
