---------------------------- MODULE VtpPageTable ----------------------------
(***************************************************************************)
(* VTP's page table (shim_vtp_pt.c) with the calls that libmpf makes on it *)
(* under its mutex.                                                        *)
(*                                                                         *)
(* The table is a radix tree.  An entry of a node is empty, points to a    *)
(* child node, or is terminal: a pinned page of the entry's size with a    *)
(* reference count.  Nodes are made when a page below needs them.          *)
(* Releasing one page leaves its nodes behind, releasing a range frees the *)
(* nodes in it that became empty, and a large page may replace an entry    *)
(* whose node is empty.  The last page found is remembered, so that the    *)
(* next search may start at its node.                                      *)
(*                                                                         *)
(* Addresses are numbers of 4KB pages.  An entry of level l covers Span[l] *)
(* of them, is named <<l, n>> when it is the n-th such region, and lives   *)
(* in the node to which the entry above it points.                         *)
(***************************************************************************)
EXTENDS Integers, FiniteSets

CONSTANTS
    Levels,        \* levels of the tree: 4
    Span,          \* pages covered by an entry, by level: 1, 512, 512^2, ...
    Va,            \* addresses that are asked for
    OsLevels,      \* sizes, as levels, of the pages the kernel maps
    Owners,        \* who pins: "alloc", "user" (preallocated), "demand"
    AllocMayFail,  \* a node may fail to be allocated, a page to be pinned
    HwVtp,         \* the FPGA has VTP, so that shootdowns are made
    MaxRefs,       \* bound: references to a page
    MaxDropped     \* bound: pins of a region that are dropped

Level == 0 .. Levels - 1
Top   == Levels - 1

ASSUME TableAssumption ==
    /\ Levels \in Nat \ {0}
    /\ Span \in [0 .. Levels -> Nat \ {0}]
    /\ Span[0] = 1
    /\ \A l \in Level : \E k \in 1 .. Span[l + 1] : Span[l + 1] = k * Span[l]
    /\ Va \subseteq 0 .. Span[Levels] - 1
    /\ OsLevels \subseteq Level
    /\ Owners \subseteq {"alloc", "user", "demand"}
    /\ AllocMayFail \in BOOLEAN /\ HwVtp \in BOOLEAN
    /\ MaxRefs \in Nat \ {0} /\ MaxDropped \in Nat

VARIABLES
    table,  \* the entries of all nodes
    prev,   \* the entry found last (prev_find_term_node, prev_idx, prev_va)
    pins,   \* how many pins of each region libmpf took and has not given back
    dropped,\* history: pins taken for an allocation where the table has a page
    retry,  \* vtpPinRegion goes on with a small page: <<address, owner>>
    err     \* what the last pinning call returned

ptVars == <<table, prev, pins, dropped, retry, err>>

-----------------------------------------------------------------------------
(* The tree.                                                               *)

At(l, va) == <<l, va \div Span[l]>>
Entry     == {At(l, va) : l \in Level, va \in 0 .. Span[Levels] - 1}
First(e)  == e[2] * Span[e[1]]
Past(e)   == First(e) + Span[e[1]]

\* The entries on the way to e, and the one whose node holds e.
Up(e) == At(e[1] + 1, First(e))
Above == [e \in Entry |-> {At(l, First(e)) : l \in e[1] + 1 .. Top}]
Under == [e \in Entry |-> {f \in Entry : e \in Above[f]}]

Empty      == [kind |-> "empty", refs |-> 0, owner |-> "none"]
Child      == [kind |-> "child", refs |-> 0, owner |-> "none"]
Page(n, o) == [kind |-> "page", refs |-> n, owner |-> o]

IsEmpty(e) == table[e].kind = "empty"
IsChild(e) == table[e].kind = "child"
IsPage(e)  == table[e].kind = "page"

\* No entry, and no page found.
Nothing == <<>>

PtTypeOK ==
    /\ table \in [Entry -> {Empty, Child} \union
                           {Page(n, o) : n \in 1 .. MaxRefs, o \in Owners}]
    /\ prev \in Entry \union {Nothing}
    /\ pins \in [Entry -> Nat] /\ dropped \in [Entry -> Nat]
    /\ retry \in (Va \X Owners) \union {Nothing}
    /\ err \in {"ok", "no_memory", "exception"}

PtInit ==
    /\ table = [e \in Entry |-> Empty]
    /\ prev = Nothing
    /\ pins = [e \in Entry |-> 0] /\ dropped = [e \in Entry |-> 0]
    /\ retry = Nothing /\ err = "ok"

-----------------------------------------------------------------------------
(* findTerminalNodeAndIndex.                                               *)

\* Where a walk down from level top ends: at the first entry on the way that
\* is not a child node.
StopFrom(top, va) ==
    CHOOSE l \in 0 .. top :
        /\ ~IsChild(At(l, va))
        /\ \A k \in l + 1 .. top : IsChild(At(k, va))

\* Mutant: the address is not compared.
StartOf_Any(va) == IF prev # Nothing THEN prev[1] ELSE Top

\* The walk starts at the node found last when the address matches down to the
\* page found there, else at the root.
StartOf(va) == IF prev # Nothing /\ At(prev[1], va) = prev THEN prev[1] ELSE Top

Stop(va)  == At(StopFrom(StartOf(va), va), va)
HasPage(va) == IsPage(Stop(va))

\* mpfVtpPtTranslateVAtoPA, mpfVtpPtClearInUseFlag.  A search that ends at an
\* empty entry leaves the last result.
Lookup(va) ==
    /\ retry = Nothing
    /\ prev' = IF HasPage(va) THEN Stop(va) ELSE prev
    /\ UNCHANGED <<table, pins, dropped, retry, err>>

-----------------------------------------------------------------------------
(* addVAtoTable, on behalf of a caller that holds a pin of e's region.     *)

Shared(p, o) == [p EXCEPT !.refs = @ + 1, !.owner = IF o = "user" THEN "user" ELSE @]

\* e is in a pinned page or is one: another reference.  The pin is not stored.
CountRef(e, o) ==
    \E a \in Above[e] \union {e} :
        /\ IsPage(a) /\ table[a].refs < MaxRefs
        /\ table' = [table EXCEPT ![a] = Shared(@, o)]
        /\ prev' = IF a = e THEN Nothing ELSE prev

NoPageAbove(e) == \A a \in Above[e] : ~IsPage(a)

\* A node on the way is needed and not to be had; those above it stay.
OutOfNodes(e) ==
    /\ AllocMayFail /\ NoPageAbove(e)
    /\ \E l \in e[1] + 1 .. Top :
          /\ IsEmpty(At(l, First(e)))
          /\ table' = [a \in Entry |-> IF a \in Above[e] /\ a[1] > l THEN Child ELSE table[a]]
    /\ UNCHANGED prev

\* Mutant: a node is taken as empty when no page is directly in it.
NodeIsEmpty_NoPages(e) == \A f \in Under[e] : e = Up(f) => ~IsPage(f)

\* nodeIsEmpty, of the node that e points to.
NodeIsEmpty(e) == \A f \in Under[e] : e = Up(f) => IsEmpty(f)

\* The entry is free, or its node is empty and is freed.
AddPage(e, o) ==
    /\ NoPageAbove(e)
    /\ IsEmpty(e) \/ (IsChild(e) /\ NodeIsEmpty(e))
    /\ table' = [a \in Entry |-> IF a = e THEN Page(1, o)
                                 ELSE IF a \in Above[e] THEN Child ELSE table[a]]
    /\ prev' = Nothing

\* There are smaller pages in the region.
Refused(e) == NoPageAbove(e) /\ IsChild(e) /\ ~NodeIsEmpty(e)

\* mpfVtpPtInsertPageMapping at the level of the page's size.  A page that is
\* counted keeps its own pin, and the wsid of the new one is dropped.
InsertPageMapping(e, o) ==
    \/ AddPage(e, o) /\ UNCHANGED dropped
    \/ /\ CountRef(e, o)
       /\ dropped' = IF o = "alloc" THEN [dropped EXCEPT ![e] = @ + 1] ELSE dropped

\* mpfVtpPinAndInsertPage once the kernel has pinned the region; a pin that was
\* not inserted is released again.
Insert(e, o) ==
    /\ InsertPageMapping(e, o)
    /\ pins' = [pins EXCEPT ![e] = @ + 1]

InsertFails(e, code) ==
    /\ \/ code = "no_memory" /\ OutOfNodes(e)
       \/ code = "exception" /\ Refused(e) /\ prev' = Nothing /\ UNCHANGED table
    /\ UNCHANGED <<pins, dropped>>

-----------------------------------------------------------------------------
(* vtpPinRegion, one turn of its loop.                                     *)

\* Preallocated memory that is pinned already is found and counted.
PinFound(va) ==
    /\ retry = Nothing /\ "user" \in Owners /\ HasPage(va)
    /\ CountRef(Stop(va), "user")
    /\ err' = "ok"
    /\ UNCHANGED <<pins, dropped, retry>>

\* Mutant: preallocated memory is pinned without looking it up.
MayPin_NoLookup(va, o) == o \in {"user", "alloc"}

\* Bounds: an allocation that meets a page can be counted.
InBounds(va) ==
    HasPage(va) => table[Stop(va)].refs < MaxRefs /\ \A e \in Entry : dropped[e] < MaxDropped

\* Memory that is to be pinned: preallocated and not found, or allocated.  Only
\* the former is looked up, and an allocation may lie where a page was left in
\* the table.
MayPin(va, o) == (o = "alloc" /\ InBounds(va)) \/ (o = "user" /\ ~HasPage(va))

Aligned(va) == Top > 0 /\ va % Span[1] = 0

\* A large page is tried first wherever the address is aligned.
PinLarge(va, o) ==
    LET e == At(1, va)
    IN  /\ retry = Nothing /\ Aligned(va) /\ \E os \in OsLevels : os >= 1
        /\ MayPin(va, o)
        /\ \/ Insert(e, o) /\ err' = "ok" /\ UNCHANGED retry
           \/ /\ \E code \in {"no_memory", "exception"} : InsertFails(e, code)
              /\ retry' = <<va, o>>
              /\ UNCHANGED err

\* The kernel refused the large page, or the table did.
PinSmall(va, o) ==
    LET e == At(0, va)
    IN  /\ \/ retry = <<va, o>>
           \/ retry = Nothing /\ (~Aligned(va) \/ 0 \in OsLevels \/ AllocMayFail)
        /\ MayPin(va, o)
        /\ \/ Insert(e, o) /\ err' = "ok"
           \/ InsertFails(e, "no_memory") /\ err' = "no_memory"
        /\ retry' = Nothing

-----------------------------------------------------------------------------
(* mpfVtpPinAndGetIOAddressVec of a page that is not found.                *)

\* Mutant: the size is always the kernel's.
DemandSize_Os(va, os) == os

\* Failure at the 4KB level says that the page is a small one.
DemandSize(va, os) == IF Stop(va)[1] = 0 THEN 0 ELSE os

PinDemand(va, os) ==
    LET e == At(DemandSize(va, os), va)
    IN  /\ retry = Nothing /\ ~HasPage(va)
        /\ \/ Insert(e, "demand") /\ err' = "ok"
           \/ \E code \in {"no_memory", "exception"} : InsertFails(e, code) /\ err' = code
        /\ UNCHANGED retry

-----------------------------------------------------------------------------
(* Releasing.                                                              *)

\* Mutant: the count goes down to 0 and the entry stays.
Less_Keeps(p) == [p EXCEPT !.refs = @ - 1]

Less(p) == IF p.refs > 1 THEN [p EXCEPT !.refs = @ - 1] ELSE Empty

\* mpfVtpPtRemovePageMapping: the last reference hands the pin to the caller.
Remove(va) ==
    LET e == At(StopFrom(Top, va), va)
    IN  /\ retry = Nothing /\ IsPage(e)
        /\ table' = [table EXCEPT ![e] = Less(@)]
        /\ IF table[e].refs > 1 THEN UNCHANGED <<prev, pins>>
           ELSE prev' = Nothing /\ pins' = [pins EXCEPT ![e] = @ - 1]
        /\ UNCHANGED <<dropped, retry, err>>

Hits(e, lo, hi) == lo < Past(e) /\ First(e) < hi

\* Mutant: a node whose pages outside the range are still there is freed.
Active_InRange(e, lo, hi) ==
    \E f \in Under[e] : IsPage(f) /\ table[f].refs > 1 /\ Hits(f, lo, hi)

\* What releaseRange returns for e's node: something in it stays.
Active(e, lo, hi) ==
    \E f \in Under[e] : ~IsEmpty(f) /\ (~Hits(f, lo, hi) \/ (IsPage(f) /\ table[f].refs > 1))

\* A node that is freed, and a page whose last reference goes.
Freed(e, lo, hi)   == IsChild(e) /\ Hits(e, lo, hi) /\ ~Active(e, lo, hi)
Dropped(e, lo, hi) == IsPage(e) /\ table[e].refs = 1 /\ Hits(e, lo, hi)

\* Mutant: freeing a node leaves the last result.
SetsPrev_NotFreed(e, lo, hi) == HwVtp /\ Dropped(e, lo, hi)

\* The shootdown of a page looks it up, to clear its in-use flag; freeing a node
\* forgets the last result.
SetsPrev(e, lo, hi) == Freed(e, lo, hi) \/ (HwVtp /\ Dropped(e, lo, hi))

\* The order in which releaseRange leaves the entries.
Later(e, f) == Past(f) < Past(e) \/ (Past(f) = Past(e) /\ f[1] < e[1])

\* mpfVtpPtReleaseRange.
ReleaseRange(lo, hi) ==
    /\ retry = Nothing
    /\ table' = [e \in Entry |-> IF Freed(e, lo, hi) THEN Empty
                                 ELSE IF IsPage(e) /\ Hits(e, lo, hi) THEN Less(table[e])
                                 ELSE table[e]]
    /\ pins' = [e \in Entry |-> IF Dropped(e, lo, hi) THEN pins[e] - 1 ELSE pins[e]]
    /\ \/ (\A e \in Entry : ~SetsPrev(e, lo, hi)) /\ UNCHANGED prev
       \/ \E last \in Entry :
             /\ SetsPrev(last, lo, hi)
             /\ \A e \in Entry : Later(e, last) => ~SetsPrev(e, lo, hi)
             /\ prev' = IF IsPage(last) THEN last ELSE Nothing
    /\ UNCHANGED <<dropped, retry, err>>

\* mpfVtpPtTerm and a new mpfVtpPtInit: the pages that a walk of the whole tree
\* meets are released.
Reached(e) == \A a \in Above[e] : IsChild(a)

Term ==
    /\ retry = Nothing
    /\ table' = [e \in Entry |-> Empty]
    /\ pins' = [e \in Entry |-> IF IsPage(e) /\ Reached(e) THEN pins[e] - 1 ELSE pins[e]]
    /\ prev' = Nothing /\ err' = "ok"
    /\ UNCHANGED <<dropped, retry>>

-----------------------------------------------------------------------------
PtNext ==
    \/ \E va \in Va :
          \/ Lookup(va) \/ PinFound(va) \/ Remove(va)
          \/ \E o \in Owners : PinLarge(va, o) \/ PinSmall(va, o)
          \/ "demand" \in Owners /\ \E os \in OsLevels : PinDemand(va, os)
    \/ \E lo \in Va, hi \in Va \union {Span[Levels]} : lo < hi /\ ReleaseRange(lo, hi)
    \/ Term

PtSpec == PtInit /\ [][PtNext]_ptVars

-----------------------------------------------------------------------------
(* Safety.                                                                 *)

\* The tree is one: an entry in use lives in a node that the entry above points
\* to.  A node that is freed holds nothing, a page is never above another one.
Rooted == \A e \in Entry : ~IsEmpty(e) /\ e[1] < Top => IsChild(Up(e))

\* The remembered node has not been freed.
PrevLive == prev # Nothing /\ prev[1] < Top => IsChild(Up(prev))

\* Starting from the remembered node finds what a walk from the root finds, and
\* stops at the same level: mpfVtpPinAndGetIOAddressVec reads the page size off
\* a search that failed.
PrevTransparent == \A va \in Va : Stop(va) = At(StopFrom(Top, va), va)

\* The tree hangs together, and so does the cache of its last search.
WellFormed == PtTypeOK /\ Rooted /\ PrevLive /\ PrevTransparent

\* The table keeps exactly one pin of each of its pages: a pin is neither lost
\* with a node that was freed nor in a page that was counted instead.  The one
\* case that loses pins is an allocation where an earlier page was left in the
\* table: nothing looks it up first (shim_vtp.c:117).
PinsKept ==
    \A e \in Entry : pins[e] = dropped[e] + (IF IsPage(e) /\ Reached(e) THEN 1 ELSE 0)

\* Translating an address that the kernel maps with 4KB or 2MB pages is not
\* refused by the table: there may be smaller pages, and then the search has
\* shown it ("we already know the new page must also be a 4KB page",
\* shim_vtp.c:1050-1053).  A refusal of the FPGA's request aborts the process.
DemandServed ==
    [][err' = "exception" =>
          \A va \in Va, os \in OsLevels \intersect {0, 1} : ~PinDemand(va, os)]_ptVars

\* Without its tree, the table is a map of pinned regions.
Overlapping == {p \in Entry \X Entry : p[2] \in {p[1]} \union Above[p[1]] \union Under[p[1]]}
RangeEnds == Va \union {Span[Levels]}
Ranges == {{e \in Entry : Hits(e, lo, hi)} : lo \in Va, hi \in RangeEnds}

Map == INSTANCE PageMap WITH
    Regions <- Entry, Overlap <- Overlapping, InRange <- Ranges,
    map <- [e \in Entry |-> [refs |-> table[e].refs, owner |-> table[e].owner]]

IsPageMap == Map!Spec
=============================================================================
