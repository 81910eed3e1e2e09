---------------------------- MODULE AalVtpProofs ----------------------------
(***************************************************************************)
(* Proofs about AalVtp, for any number of threads, address spaces, page    *)
(* sizes and nodes, where bufferFree is given the address that             *)
(* bufferAllocate returned.  The inductive invariant, AalInv, is in parts: *)
(* the locals of the calls; what addresses are used for; the nodes and     *)
(* their free list; what is pinned, translated and in a thread's hand; and *)
(* the ranges of pages that buffers and calls lay claim to.                *)
(***************************************************************************)
EXTENDS AalVtp, TLAPS

\* The situation the theorems are about.  An address inside a buffer's first
\* large page is accepted as well, and then the walk takes the wrong pages.
AtStart == Offsets \subseteq {0}

-----------------------------------------------------------------------------
(* The inductive invariant.                                                *)

Size == Regions * Large
Aligned(a) == \E k \in 0 .. a : a = k * Large
Within(p)  == Span(p.va, p.size)

Making  == {"shrink", "pin", "insert", "replace", "next", "restore"}
Clearing == {"walk", "leaf", "inval", "give"}
InAlloc(t) == op[t].pc \in Making
InFree(t)  == op[t].pc \in Clearing

\* The buffer that a call of bufferAllocate makes, from its first address, and
\* the part of it that it has made.
Bottom(me) == IF me.pc = "shrink" THEN me.va - me.left ELSE me.va + me.size - me.left
Top(me)    == Bottom(me) + me.whole
Done(me)   == IF me.pc \in {"shrink", "next"} THEN me.va ELSE me.va + me.size

\* The part of its buffer that a call of bufferFree has not taken out of the
\* table yet.
Ahead(me) == IF me.pc \in {"walk", "leaf"} THEN me.va ELSE me.va + me.size
End(b)    == b.base + b.len

\* The locals of a call.
AllocShape(me) ==
    /\ me.left # 0 /\ me.left <= me.whole
    /\ me.va = me.base + me.len
    /\ me.base <= Bottom(me) /\ Aligned(Bottom(me)) /\ Top(me) <= Size
    /\ me.flags.end <=> me.left = me.whole
    /\ me.pc = "shrink" => (me.flags.start => me.fell)
    /\ me.pc # "shrink" =>
          /\ me.size \in {1, Large} /\ me.size <= me.left
          /\ me.size = Large => Aligned(me.va) /\ ~me.fell
          /\ me.left = me.size => me.flags.start
          /\ me.flags.start => me.left = me.size \/ me.fell
    /\ me.pc \in {"replace", "restore"} => me.size = Large
FreeShape(me) ==
    /\ me.buf.base <= me.va
    /\ me.pc \in {"walk", "leaf"} => me.va < End(me.buf)
    /\ me.pc \in {"inval", "give"} =>
          /\ me.size \in {1, Large}
          /\ me.va + me.size <= End(me.buf)
          /\ me.flags.end <=> me.va + me.size = End(me.buf)
Shaped(me) ==
    /\ me.pc = "reserve" =>
          /\ me.left # 0 /\ me.left = me.whole
          /\ ~me.flags.start /\ ~me.flags.end /\ ~me.fell
    /\ me.pc \in Making => AllocShape(me)
    /\ me.pc \in Clearing => FreeShape(me)
    /\ me.pc \notin Clearing => me.buf = NoBuffer
Shapes ==
    /\ \A t \in Thread : lock = t <=> op[t].pc \notin {"idle"} \union Clearing
    /\ \A t \in Thread : Shaped(op[t])
    /\ \A t \in Thread : InFree(t) => op[t].buf \in bufs
    /\ \A t, u \in Thread : InFree(t) /\ InFree(u) /\ t # u => op[t].buf # op[u].buf
    /\ \A b \in bufs : End(b) <= Size

\* What addresses are used for.
Addresses ==
    /\ \A p \in pins : /\ Within(p) \subseteq VA /\ (p.size = Large => Aligned(p.va))
                       /\ \A a \in Within(p) : vm[a] = "ali"
    /\ \A p, q \in pins : p # q => Within(p) \intersect Within(q) = {}
    /\ \A a \in VA : vm[a] = "ali" => \E p \in pins : a \in Within(p)
    /\ \A t \in Thread :
          /\ InAlloc(t) => \A a \in Span(op[t].base, op[t].len) : vm[a] = "reserved"
          /\ op[t].pc \in {"pin", "restore"} =>
                \A a \in Span(op[t].va, op[t].size) : vm[a] \in {"free", "program"}

\* The nodes: an entry of the root points to one that PtoV knows, no two to the
\* same; a node on the free list holds the list and itself.
OnList(n) == n \in ptov /\ node[n][1] = Link(n)
Replacing(r) == \E t \in Thread : op[t].pc = "replace" /\ RegionOf(op[t].va) = r
FreeNodes ==
    /\ freeList # 0 => OnList(freeList)
    /\ \A n \in Node : OnList(n) =>
          /\ node[n][0].is = "node"
          /\ node[n][0].to # 0 => OnList(node[n][0].to) /\ node[n][0].to # n /\ node[n][0].to # freeList
    /\ \A n, m \in Node : OnList(n) /\ OnList(m) /\ n # m /\ node[n][0].to # 0 => node[n][0].to # node[m][0].to
Linked ==
    /\ \A r \in Region : root[r].is = "node" => root[r].to \in ptov
    /\ \A r, s \in Region : root[r].is = "node" /\ root[r] = root[s] => r = s
    /\ \A r \in Region : root[r].is = "node" /\ ~Replacing(r) =>
          \A i \in 0 .. Large - 1 : node[root[r].to][i].is # "node"
NodesRight == FreeNodes /\ Linked

\* What a call that enters or removes a page has of it.
Pending(t) == [va |-> op[t].va, size |-> op[t].size]
Hands ==
    /\ \A t \in Thread : op[t].pc \in {"insert", "replace"} =>
          /\ Pending(t) \in pins \ InHand
          /\ \A a \in Within(Pending(t)) : ~Translates(a)
    /\ \A t \in Thread : op[t].pc = "replace" =>
          /\ root[RegionOf(op[t].va)] = Link(freeList) /\ freeList # 0
    /\ \A t \in Thread : op[t].pc = "leaf" =>
          /\ root[RegionOf(op[t].va)] = Link(op[t].node)
          /\ node[op[t].node][op[t].va % Large].is = "page"
    /\ \A t \in Thread : op[t].pc \in {"inval", "give"} => Removed(t) \in pins
    /\ \A t, u \in Thread : op[t].pc \in {"inval", "give"} /\ op[u].pc \in {"inval", "give"} /\ t # u =>
          Removed(t) # Removed(u)
    /\ \A t \in Thread : op[t].pc = "give" => hw.tlb # Removed(t)

\* A range of addresses in which every page is there, and the last is marked.
Run(from, end) ==
    \A a \in from .. end - 1 :
        /\ Translates(a)
        /\ from <= PageOf(a).va /\ PageOf(a).va + PageOf(a).size <= end
        /\ EntryOf(a).flags.end <=> PageOf(a).va + PageOf(a).size = end
From(me) == IF me.pc \in Making THEN Done(me) ELSE IF me.pc \in Clearing THEN Ahead(me) ELSE 0
To(me)   == IF me.pc \in Making THEN Top(me) ELSE IF me.pc \in Clearing THEN End(me.buf) ELSE 0
Owned(t) == From(op[t]) .. To(op[t]) - 1
Untouched == {b \in bufs : \A t \in Thread : op[t].buf # b}
Claims ==
    /\ \A t \in Thread : Run(From(op[t]), To(op[t]))
    /\ \A b \in Untouched : Run(b.base, End(b))
    /\ \A t, u \in Thread : t # u => Owned(t) \intersect Owned(u) = {}
    /\ \A t \in Thread : \A b \in Untouched : Owned(t) \intersect Span(b.base, b.len) = {}
    /\ \A b, c \in Untouched : b # c => Span(b.base, b.len) \intersect Span(c.base, c.len) = {}
StartsRight(t) ==
    InAlloc(t) =>
        \A a \in Owned(t) :
            /\ EntryOf(a).flags.start =>
                  op[t].fell \/ (op[t].pc = "next" /\ op[t].left = op[t].size /\ PageOf(a).va = op[t].va)
            /\ op[t].pc = "next" /\ op[t].left = op[t].size /\ a = op[t].va => EntryOf(a).flags.start
Starts ==
    /\ \A t \in Thread : StartsRight(t)
    /\ \A b \in Untouched : \A a \in Span(b.base, b.len) :
          IF PageOf(a).va = b.base THEN EntryOf(a).flags.start ELSE EntryOf(a).flags.start => b.fell

\* Every address that is pinned or reserved belongs to somebody.
Coming(me) == IF me.pc \in {"pin", "restore"} THEN me.va + me.size ELSE me.va
Belongs(a) ==
    \/ \E b \in Untouched : a \in Span(b.base, b.len)
    \/ \E t \in Thread : InFree(t) /\ a \in op[t].va .. End(op[t].buf) - 1
    \/ \E t \in Thread : InAlloc(t) /\ a \in Coming(op[t]) .. Top(op[t]) - 1
Accounted ==
    why \subseteq {"full"} =>
        \A a \in VA :
            /\ vm[a] = "ali" => Belongs(a)
            /\ vm[a] = "reserved" => \E t \in Thread : InAlloc(t) /\ a \in Span(op[t].base, op[t].len)

Service == OnWithRoot /\ (service = "enable" => hw.root)

AalInv ==
    /\ TypeOK /\ Shapes /\ Addresses /\ NodesRight /\ Hands /\ TranslatesPinned /\ Claims /\ Starts
    /\ Accounted /\ Service /\ why \intersect {"entry", "cut"} = {}

-----------------------------------------------------------------------------
(* Addresses.                                                              *)

LEMMA Sizes ==
  /\ Large \in Nat /\ Large > 1 /\ Regions \in Nat /\ Regions > 0
  /\ Size \in Nat /\ Size >= Large /\ VA = 0 .. Size - 1
  <1>1. /\ Large \in Nat /\ Large > 1 /\ Regions \in Nat /\ Regions > 0
    BY AalAssumption
  <1>2. Size \in Nat /\ Size >= Large
    <2>1. \A r \in Nat \ {0}, l \in Nat : r * l \in Nat /\ r * l >= l
      OBVIOUS
    <2> QED BY <1>1, <2>1 DEF Size
  <1> QED BY <1>1, <1>2 DEF VA, Size

LEMMA MulMono ==
  ASSUME NEW a \in Nat, NEW b \in Nat, NEW c \in Nat, a <= b
  PROVE  a * c <= b * c
  OBVIOUS

LEMMA AlignedIs ==
  ASSUME NEW a \in Nat
  PROVE  /\ Aligned(a) <=> \E k \in Nat : a = k * Large
         /\ Aligned(a) <=> a % Large = 0
  <1>1. ASSUME NEW k \in Nat, a = k * Large PROVE k \in 0 .. a
    <2>1. 1 <= Large /\ Large \in Nat
      BY Sizes
    <2>2. k * 1 <= k * Large
      <3>1. \A x \in Nat, y \in Nat : 1 <= y => x <= x * y
        OBVIOUS
      <3> QED BY <2>1, <3>1
    <2> QED BY <1>1, <2>2
  <1>2. Aligned(a) <=> \E k \in Nat : a = k * Large
    BY <1>1 DEF Aligned
  <1>3. ASSUME a % Large = 0 PROVE \E k \in Nat : a = k * Large
    <2>1. a = Large * (a \div Large) + (a % Large) /\ a \div Large \in Nat
      BY Sizes
    <2>2. a = (a \div Large) * Large
      BY <1>3, <2>1, Sizes
    <2> QED BY <2>1, <2>2
  <1>4. ASSUME NEW k \in Nat, a = k * Large PROVE a % Large = 0
    <2>1. \A x \in Nat, y \in Nat \ {0} : (x * y) % y = 0
      OBVIOUS
    <2> QED BY <1>4, <2>1, Sizes
  <1> QED BY <1>2, <1>3, <1>4

LEMMA AlignedStep ==
  ASSUME NEW x \in Nat, NEW y \in Nat, Aligned(x), Aligned(y), x < y
  PROVE  x + Large <= y
  <1>1. PICK i \in Nat, j \in Nat : x = i * Large /\ y = j * Large
    BY AlignedIs
  <1>2. i < j
    BY <1>1, MulMono, Sizes
  <1>3. (i + 1) * Large <= j * Large
    BY <1>2, MulMono, Sizes
  <1>4. (i + 1) * Large = i * Large + Large
    BY Sizes
  <1> QED BY <1>1, <1>3, <1>4

LEMMA AlignedSum ==
  ASSUME NEW x \in Nat, Aligned(x)
  PROVE  Aligned(x + Large) /\ (x >= Large => Aligned(x - Large))
  <1>1. PICK i \in Nat : x = i * Large
    BY AlignedIs
  <1>2. (i + 1) * Large = x + Large /\ i + 1 \in Nat /\ x + Large \in Nat
    BY <1>1, Sizes
  <1>3. Aligned(x + Large)
    <2>1. \E k \in Nat : x + Large = k * Large
      BY <1>2
    <2> QED BY <1>2, <2>1, AlignedIs
  <1>4. ASSUME x >= Large PROVE Aligned(x - Large)
    <2>1. i # 0
      BY <1>1, <1>4, Sizes
    <2>2. i - 1 \in Nat /\ (i - 1) * Large = x - Large
      BY <1>1, <2>1, Sizes
    <2>3. x - Large \in Nat
      BY <1>4, Sizes
    <2> QED BY <2>2, <2>3, AlignedIs
  <1> QED BY <1>3, <1>4

\* A large page: its number and where it begins.
Start(a) == RegionOf(a) * Large
Index(a) == a % Large
LEMMA RegionIs ==
  ASSUME NEW a \in VA
  PROVE  /\ a \in Nat /\ RegionOf(a) \in Region /\ Index(a) \in 0 .. Large - 1
         /\ Start(a) \in VA /\ Aligned(Start(a)) /\ Start(a) <= a /\ a < Start(a) + Large
         /\ Start(a) + Large <= Size /\ a = Start(a) + Index(a)
  <1>1. a \in Nat /\ a < Size
    BY Sizes
  <1>2. /\ a = Large * (a \div Large) + Index(a) /\ a \div Large \in Nat
        /\ Index(a) \in 0 .. Large - 1
    BY <1>1, Sizes DEF Index
  <1>3. Start(a) = Large * (a \div Large) /\ Start(a) \in Nat
    BY <1>2, Sizes DEF Start, RegionOf
  <1>4. Aligned(Start(a))
    BY <1>2, <1>3, AlignedIs DEF Start, RegionOf
  <1>5. Aligned(Size)
    BY AlignedIs, Sizes DEF Size
  <1>6. Start(a) + Large <= Size
    BY <1>1, <1>2, <1>3, <1>4, <1>5, AlignedStep, Sizes
  <1>7. RegionOf(a) < Regions
    <2>1. ASSUME Regions <= a \div Large PROVE FALSE
      <3>1. Regions * Large <= (a \div Large) * Large
        BY <1>2, <2>1, MulMono, Sizes
      <3>2. Size <= Start(a)
        BY <3>1 DEF Start, RegionOf, Size
      <3>3. Start(a) <= a
        BY <1>2, <1>3, Sizes
      <3> QED BY <1>1, <1>3, <3>2, <3>3, Sizes
    <2> QED BY <1>2, <2>1, Sizes DEF RegionOf
  <1>8. RegionOf(a) \in Region
    BY <1>2, <1>7, Sizes DEF Region, RegionOf
  <1>9. a = Start(a) + Index(a) /\ Start(a) <= a /\ a < Start(a) + Large
    BY <1>1, <1>2, <1>3, Sizes
  <1>10. Start(a) \in VA
    BY <1>1, <1>3, <1>9, Sizes
  <1> QED BY <1>1, <1>2, <1>4, <1>6, <1>8, <1>9, <1>10

\* Addresses in one large page are those from its start on.
LEMMA SameRegion ==
  ASSUME NEW a \in VA, NEW b \in VA
  PROVE  /\ RegionOf(a) = RegionOf(b) <=> Start(b) <= a /\ a < Start(b) + Large
         /\ RegionOf(a) = RegionOf(b) => Start(a) = Start(b)
         /\ RegionOf(a) = RegionOf(b) /\ Index(a) = Index(b) => a = b
  <1>1. RegionOf(a) = RegionOf(b) => Start(a) = Start(b)
    BY DEF Start
  <1>2. ASSUME Start(b) <= a, a < Start(b) + Large PROVE RegionOf(a) = RegionOf(b)
    <2>1. Start(a) = Start(b)
      <3>1. /\ Start(a) \in Nat /\ Start(b) \in Nat /\ Aligned(Start(a)) /\ Aligned(Start(b))
            /\ a \in Nat /\ b \in Nat /\ Start(a) <= a /\ a < Start(a) + Large
        BY RegionIs, Sizes
      <3>2. Start(a) < Start(b) => Start(a) + Large <= Start(b)
        BY <3>1, AlignedStep
      <3>3. Start(b) < Start(a) => Start(b) + Large <= Start(a)
        BY <3>1, AlignedStep
      <3> QED BY <1>2, <3>1, <3>2, <3>3, Sizes
    <2>2. RegionOf(a) \in Nat /\ RegionOf(b) \in Nat
      BY RegionIs DEF Region
    <2>3. \A x \in Nat, y \in Nat, l \in Nat : l > 0 /\ x < y => x * l < y * l
      OBVIOUS
    <2>4. ~(RegionOf(a) < RegionOf(b)) /\ ~(RegionOf(b) < RegionOf(a))
      <3>1. Start(a) \in Nat /\ Start(b) \in Nat
        BY RegionIs, Sizes
      <3> QED BY <2>1, <2>2, <2>3, <3>1, Sizes DEF Start
    <2> QED BY <2>2, <2>4
  <1>3. ASSUME RegionOf(a) = RegionOf(b) PROVE Start(b) <= a /\ a < Start(b) + Large
    BY <1>1, <1>3, RegionIs
  <1>4. ASSUME RegionOf(a) = RegionOf(b), Index(a) = Index(b) PROVE a = b
    <2>1. /\ a = Start(a) + Index(a) /\ Index(a) \in Nat
          /\ b = Start(b) + Index(b) /\ Index(b) \in Nat /\ Start(b) \in Nat
      BY RegionIs, Sizes
    <2>2. Start(a) = Start(b) /\ Index(a) = Index(b)
      BY <1>1, <1>4
    <2> HIDE <1>4
    <2> QED BY <2>1, <2>2
  <1> QED BY <1>1, <1>2, <1>3, <1>4

LEMMA AlignedStart ==
  ASSUME NEW a \in VA, Aligned(a)
  PROVE  Start(a) = a /\ a + Large <= Size
  <1>1. ~(Start(a) < a)
    BY RegionIs, AlignedStep, Sizes
  <1> QED BY <1>1, RegionIs, Sizes

LEMMA AlignUpIs ==
  ASSUME NEW a \in Nat
  PROVE  AlignUp(a) \in Nat /\ a <= AlignUp(a) /\ AlignUp(a) < a + Large /\ Aligned(AlignUp(a))
  <1> DEFINE b == a + (Large - 1)
  <1>1. b \in Nat
    BY Sizes
  <1>2. b = Large * (b \div Large) + (b % Large) /\ b \div Large \in Nat /\ b % Large \in 0 .. Large - 1
    BY <1>1, Sizes
  <1>3. AlignUp(a) = (b \div Large) * Large
    BY DEF AlignUp
  <1>4. AlignUp(a) \in Nat /\ AlignUp(a) + (b % Large) = b
    BY <1>2, <1>3, Sizes
  <1>5. Aligned(AlignUp(a))
    BY <1>2, <1>3, <1>4, AlignedIs
  <1> QED BY <1>2, <1>4, <1>5, Sizes

-----------------------------------------------------------------------------
(* The entries of the table, and what they translate.                      *)

LEMMA RootIs ==
  ASSUME TypeOK, NEW r \in Region
  PROVE  /\ root[r].is \in {"absent", "page", "node"}
         /\ root[r].is = "absent" <=> root[r] = Absent
         /\ root[r].is = "page" => root[r].flags \in Flags /\ root[r] = PageEntry(root[r].flags)
         /\ root[r].is = "node" => root[r].to \in Node /\ root[r] = Link(root[r].to)
  <1>1. root[r] \in Leaf \union [is : {"node"}, to : Node]
    BY DEF TypeOK
  <1>2. CASE root[r] = Absent
    BY <1>2 DEF Absent
  <1>3. CASE root[r] \in [is : {"page"}, flags : Flags]
    BY <1>3 DEF Absent, PageEntry
  <1>4. CASE root[r] \in [is : {"node"}, to : Node]
    BY <1>4 DEF Absent, Link
  <1> QED BY <1>1, <1>2, <1>3, <1>4 DEF Leaf

LEMMA NodeIs ==
  ASSUME TypeOK, NEW n \in Node, NEW i \in 0 .. Large - 1
  PROVE  /\ node[n][i].is \in {"absent", "page", "node"}
         /\ node[n][i].is = "absent" <=> node[n][i] = Absent
         /\ node[n][i].is = "page" => node[n][i].flags \in Flags /\ node[n][i] = PageEntry(node[n][i].flags)
         /\ node[n][i].is = "node" => node[n][i].to \in {0} \union Node /\ node[n][i] = Link(node[n][i].to)
  <1>1. node[n][i] \in Leaf \union [is : {"node"}, to : {0} \union Node]
    <2>1. node[n] \in [0 .. Large - 1 -> Leaf \union [is : {"node"}, to : {0} \union Node]]
      BY DEF TypeOK
    <2> QED BY <2>1
  <1>2. CASE node[n][i] = Absent
    BY <1>2 DEF Absent
  <1>3. CASE node[n][i] \in [is : {"page"}, flags : Flags]
    BY <1>3 DEF Absent, PageEntry
  <1>4. CASE node[n][i] \in [is : {"node"}, to : {0} \union Node]
    BY <1>4 DEF Absent, Link
  <1> QED BY <1>1, <1>2, <1>3, <1>4 DEF Leaf

LEMMA LinkIs ==
  /\ \A n : Link(n).is = "node" /\ Link(n).to = n
  /\ \A f : PageEntry(f).is = "page" /\ PageEntry(f).flags = f
  /\ Absent.is = "absent"
  BY DEF Link, PageEntry, Absent

LEMMA NodeNumbers == Node \subseteq Nat \ {0}
  BY AalAssumption DEF Node

LEMMA SpanIs ==
  ASSUME NEW v \in Nat, NEW s \in Nat
  PROVE  /\ \A b : b \in Span(v, s) <=> b \in Nat /\ v <= b /\ b < v + s
         /\ \A b : b \in Within([va |-> v, size |-> s]) <=> b \in Nat /\ v <= b /\ b < v + s
  BY DEF Within, Span

\* A page that is translated contains the address.
LEMMA PageIs ==
  ASSUME TypeOK, NEW a \in VA
  PROVE  /\ PageOf(a) = IF InRoot(a) THEN [va |-> Start(a), size |-> Large] ELSE [va |-> a, size |-> 1]
         /\ PageOf(a) \in Page /\ PageOf(a).va \in Nat /\ PageOf(a).size \in {1, Large}
         /\ PageOf(a).va <= a /\ a < PageOf(a).va + PageOf(a).size
         /\ PageOf(a).va + PageOf(a).size <= Size
         /\ PageOf(a).size = Large => Aligned(PageOf(a).va)
         /\ a \in Within(PageOf(a)) /\ Within(PageOf(a)) \subseteq VA
  <1>1. PageOf(a) = IF InRoot(a) THEN [va |-> Start(a), size |-> Large] ELSE [va |-> a, size |-> 1]
    BY DEF PageOf, Start
  <1>2. a \in Nat /\ a < Size /\ Start(a) \in VA /\ Aligned(Start(a)) /\ Start(a) <= a /\ a < Start(a) + Large
        /\ Start(a) + Large <= Size
    BY RegionIs, Sizes
  <1>3. PageOf(a).va \in Nat /\ PageOf(a).size \in {1, Large} /\ PageOf(a) \in Page
    BY <1>1, <1>2, Sizes DEF Page
  <1>4. PageOf(a).va <= a /\ a < PageOf(a).va + PageOf(a).size /\ PageOf(a).va + PageOf(a).size <= Size
    BY <1>1, <1>2, Sizes
  <1>5. PageOf(a).size = Large => Aligned(PageOf(a).va)
    BY <1>1, <1>2, Sizes
  <1>6. Within(PageOf(a)) \subseteq VA /\ a \in Within(PageOf(a))
    BY <1>2, <1>3, <1>4, Sizes DEF Within, Span
  <1> QED BY <1>1, <1>3, <1>4, <1>5, <1>6

\* All addresses of a page have the same entry.
LEMMA PageWhole ==
  ASSUME TypeOK, NEW a \in VA, NEW b \in Within(PageOf(a))
  PROVE  /\ b \in VA /\ PageOf(b) = PageOf(a)
         /\ Translates(b) <=> Translates(a)
         /\ EntryOf(b) = EntryOf(a)
  <1>1. b \in VA
    BY PageIs
  <1>2. CASE InRoot(a)
    <2>1. PageOf(a) = [va |-> Start(a), size |-> Large] /\ Start(a) \in Nat
      BY <1>2, PageIs, RegionIs, Sizes
    <2>2. Start(a) <= b /\ b < Start(a) + Large
      BY <2>1, Sizes DEF Within, Span
    <2>3. RegionOf(a) = RegionOf(b) /\ Start(a) = Start(b)
      BY <1>1, <2>2, SameRegion
    <2>4. InRoot(b)
      BY <1>2, <2>3 DEF InRoot
    <2> QED BY <1>1, <1>2, <2>3, <2>4 DEF PageOf, Translates, EntryOf
  <1>3. CASE ~InRoot(a)
    <2>1. PageOf(a) = [va |-> a, size |-> 1] /\ a \in Nat
      BY <1>3, PageIs, Sizes
    <2>2. b = a
      BY <2>1 DEF Within, Span
    <2> QED BY <1>1, <2>2
  <1> QED BY <1>2, <1>3

LEMMA EntryIs ==
  ASSUME TypeOK, NEW a \in VA, Translates(a)
  PROVE  EntryOf(a).flags \in Flags
  <1>1. RegionOf(a) \in Region /\ a % Large \in 0 .. Large - 1
    BY RegionIs DEF Index
  <1>2. CASE InRoot(a)
    BY <1>1, <1>2, RootIs DEF InRoot, EntryOf
  <1>3. CASE ~InRoot(a)
    <2>1. InNode(a)
      BY <1>3 DEF Translates
    <2>2. root[RegionOf(a)].to \in Node /\ node[root[RegionOf(a)].to][a % Large].is = "page"
      BY <1>1, <2>1, RootIs DEF InNode
    <2> QED BY <1>1, <1>3, <2>2, NodeIs DEF EntryOf
  <1> QED BY <1>2, <1>3

-----------------------------------------------------------------------------
(* What a step does to the translations.                                   *)

Same(a) ==
    /\ Translates(a)' <=> Translates(a)
    /\ Translates(a) => PageOf(a)' = PageOf(a) /\ EntryOf(a)' = EntryOf(a)
TableKept == \A a \in VA : Same(a)
Entered(p, f) ==
    \A a \in VA : IF a \in Within(p)
                  THEN Translates(a)' /\ PageOf(a)' = p /\ EntryOf(a)'.flags = f
                  ELSE Same(a)
Dropped(p) == \A a \in VA : IF a \in Within(p) THEN ~Translates(a)' ELSE Same(a)

LEMMA TableUnchanged ==
  ASSUME UNCHANGED <<root, node, ptov>>
  PROVE  TableKept
  BY DEF TableKept, Same, Translates, InRoot, InNode, PtoV, PageOf, EntryOf

\* An address whose entry in the root is as before, and its entry in the node.
LEMMA SameIf ==
  ASSUME NEW a, root'[RegionOf(a)] = root[RegionOf(a)],
         root[RegionOf(a)].is = "node" =>
             LET n == root[RegionOf(a)].to
             IN  (n \in ptov' <=> n \in ptov) /\ node'[n][a % Large] = node[n][a % Large]
  PROVE  Same(a)
  <1>1. InRoot(a)' <=> InRoot(a)
    BY DEF InRoot
  <1>2. InNode(a)' <=> InNode(a)
    BY DEF InNode, PtoV
  <1>3. PageOf(a)' = PageOf(a)
    BY <1>1 DEF PageOf
  <1>4. Translates(a) => EntryOf(a)' = EntryOf(a)
    BY <1>1 DEF Translates, EntryOf, InNode
  <1> QED BY <1>1, <1>2, <1>3, <1>4 DEF Same, Translates

LEMMA EnterRoot ==
  ASSUME TypeOK, NEW a \in VA, Aligned(a), NEW f,
         root' = [root EXCEPT ![RegionOf(a)] = PageEntry(f)], UNCHANGED <<node, ptov>>
  PROVE  Entered([va |-> a, size |-> Large], f)
  <1>1. RegionOf(a) \in Region /\ Start(a) = a /\ a \in Nat
    BY RegionIs, AlignedStart
  <1>2. root'[RegionOf(a)] = PageEntry(f) /\ \A r \in Region \ {RegionOf(a)} : root'[r] = root[r]
    BY <1>1 DEF TypeOK
  <1> SUFFICES ASSUME NEW b \in VA
               PROVE  IF b \in Within([va |-> a, size |-> Large])
                      THEN Translates(b)' /\ PageOf(b)' = [va |-> a, size |-> Large] /\ EntryOf(b)'.flags = f
                      ELSE Same(b)
    BY DEF Entered
  <1>3. b \in Within([va |-> a, size |-> Large]) <=> RegionOf(b) = RegionOf(a)
    <2>1. b \in Within([va |-> a, size |-> Large]) <=> b \in Nat /\ a <= b /\ b < a + Large
      BY <1>1, SpanIs, Sizes
    <2> QED BY <1>1, <2>1, SameRegion, RegionIs
  <1>4. CASE RegionOf(b) = RegionOf(a)
    <2>1. InRoot(b)'
      BY <1>2, <1>4, LinkIs DEF InRoot
    <2>2. PageOf(b)' = [va |-> a, size |-> Large]
      BY <1>1, <1>4, <2>1 DEF PageOf, Start
    <2>3. EntryOf(b)'.flags = f
      BY <1>2, <1>4, <2>1, LinkIs DEF EntryOf
    <2> QED BY <1>3, <1>4, <2>1, <2>2, <2>3 DEF Translates
  <1>5. CASE RegionOf(b) # RegionOf(a)
    <2>1. RegionOf(b) \in Region
      BY RegionIs
    <2> QED BY <1>2, <1>3, <1>5, <2>1, SameIf
  <1> QED BY <1>4, <1>5

LEMMA DropRoot ==
  ASSUME TypeOK, NEW a \in VA, root' = [root EXCEPT ![RegionOf(a)] = Absent], UNCHANGED <<node, ptov>>
  PROVE  Dropped([va |-> Start(a), size |-> Large])
  <1>1. RegionOf(a) \in Region /\ Start(a) \in Nat
    BY RegionIs, Sizes
  <1>2. root'[RegionOf(a)] = Absent /\ \A r \in Region \ {RegionOf(a)} : root'[r] = root[r]
    BY <1>1 DEF TypeOK
  <1> SUFFICES ASSUME NEW b \in VA
               PROVE  IF b \in Within([va |-> Start(a), size |-> Large]) THEN ~Translates(b)' ELSE Same(b)
    BY DEF Dropped
  <1>3. b \in Within([va |-> Start(a), size |-> Large]) <=> RegionOf(b) = RegionOf(a)
    <2>1. b \in Within([va |-> Start(a), size |-> Large]) <=> b \in Nat /\ Start(a) <= b /\ b < Start(a) + Large
      BY <1>1, SpanIs, Sizes
    <2> QED BY <1>1, <2>1, SameRegion, RegionIs
  <1>4. CASE RegionOf(b) = RegionOf(a)
    BY <1>2, <1>3, <1>4, LinkIs DEF Translates, InRoot, InNode
  <1>5. CASE RegionOf(b) # RegionOf(a)
    <2>1. RegionOf(b) \in Region
      BY RegionIs
    <2> QED BY <1>2, <1>3, <1>5, <2>1, SameIf
  <1> QED BY <1>4, <1>5

\* No other address has its entry where a small page has it.
LEMMA OneAddress ==
  ASSUME TypeOK, Linked, NEW a \in VA, NEW b \in VA,
         root[RegionOf(a)].is = "node", root[RegionOf(b)].is = "node",
         root[RegionOf(b)].to = root[RegionOf(a)].to
  PROVE  RegionOf(a) = RegionOf(b) /\ (a # b => a % Large # b % Large)
  <1>1. RegionOf(a) \in Region /\ RegionOf(b) \in Region
    BY RegionIs
  <1>2. root[RegionOf(a)] = root[RegionOf(b)]
    BY <1>1, RootIs
  <1>3. RegionOf(a) = RegionOf(b)
    BY <1>1, <1>2 DEF Linked
  <1> QED BY <1>3, SameRegion DEF Index

LEMMA EnterNode ==
  ASSUME TypeOK, Linked, NEW a \in VA, NEW f, root[RegionOf(a)].is = "node", PtoV(root[RegionOf(a)].to),
         node' = [node EXCEPT ![root[RegionOf(a)].to][a % Large] = PageEntry(f)], UNCHANGED <<root, ptov>>
  PROVE  Entered([va |-> a, size |-> 1], f)
  <1> DEFINE n == root[RegionOf(a)].to
  <1>1. RegionOf(a) \in Region /\ a % Large \in 0 .. Large - 1 /\ a \in Nat /\ n \in Node
    BY RegionIs, RootIs DEF Index
  <1>2. /\ node'[n][a % Large] = PageEntry(f)
        /\ \A m \in Node, i \in 0 .. Large - 1 : m # n \/ i # a % Large => node'[m][i] = node[m][i]
    BY <1>1 DEF TypeOK
  <1> SUFFICES ASSUME NEW b \in VA
               PROVE  IF b \in Within([va |-> a, size |-> 1])
                      THEN Translates(b)' /\ PageOf(b)' = [va |-> a, size |-> 1] /\ EntryOf(b)'.flags = f
                      ELSE Same(b)
    BY DEF Entered
  <1>3. b \in Within([va |-> a, size |-> 1]) <=> b = a
    BY <1>1, Sizes DEF Within, Span
  <1>4. CASE b = a
    <2>1. ~InRoot(b)' /\ InNode(b)'
      BY <1>2, <1>4, LinkIs DEF InRoot, InNode, PtoV
    <2>2. PageOf(b)' = [va |-> a, size |-> 1]
      BY <1>4, <2>1 DEF PageOf
    <2>3. EntryOf(b)'.flags = f
      BY <1>2, <1>4, <2>1, LinkIs DEF EntryOf
    <2> QED BY <1>3, <1>4, <2>1, <2>2, <2>3 DEF Translates
  <1>5. CASE b # a
    <2>1. RegionOf(b) \in Region /\ b % Large \in 0 .. Large - 1
      BY RegionIs DEF Index
    <2>2. root[RegionOf(b)].is = "node" =>
             root[RegionOf(b)].to \in Node /\ node'[root[RegionOf(b)].to][b % Large] = node[root[RegionOf(b)].to][b % Large]
      BY <1>2, <1>5, <2>1, RootIs, OneAddress
    <2> QED BY <1>3, <1>5, <2>2, SameIf
  <1> QED BY <1>4, <1>5

LEMMA DropNode ==
  ASSUME TypeOK, Linked, NEW a \in VA, root[RegionOf(a)].is = "node",
         node' = [node EXCEPT ![root[RegionOf(a)].to][a % Large] = Absent], UNCHANGED <<root, ptov>>
  PROVE  Dropped([va |-> a, size |-> 1])
  <1> DEFINE n == root[RegionOf(a)].to
  <1>1. RegionOf(a) \in Region /\ a % Large \in 0 .. Large - 1 /\ a \in Nat /\ n \in Node
    BY RegionIs, RootIs DEF Index
  <1>2. /\ node'[n][a % Large] = Absent
        /\ \A m \in Node, i \in 0 .. Large - 1 : m # n \/ i # a % Large => node'[m][i] = node[m][i]
    BY <1>1 DEF TypeOK
  <1> SUFFICES ASSUME NEW b \in VA
               PROVE  IF b \in Within([va |-> a, size |-> 1]) THEN ~Translates(b)' ELSE Same(b)
    BY DEF Dropped
  <1>3. b \in Within([va |-> a, size |-> 1]) <=> b = a
    BY <1>1, Sizes DEF Within, Span
  <1>4. CASE b = a
    BY <1>2, <1>3, <1>4, LinkIs DEF Translates, InRoot, InNode
  <1>5. CASE b # a
    <2>1. RegionOf(b) \in Region /\ b % Large \in 0 .. Large - 1
      BY RegionIs DEF Index
    <2>2. root[RegionOf(b)].is = "node" =>
             root[RegionOf(b)].to \in Node /\ node'[root[RegionOf(b)].to][b % Large] = node[root[RegionOf(b)].to][b % Large]
      BY <1>2, <1>5, <2>1, RootIs, OneAddress
    <2> QED BY <1>3, <1>5, <2>2, SameIf
  <1> QED BY <1>4, <1>5

-----------------------------------------------------------------------------
(* The locals of a call, and what each step does to them.                  *)

LEMMA BoundIs ==
  Bound = 0 .. Size
  BY DEF Bound, Size

LEMMA BoundSum ==
  ASSUME NEW x \in Nat, NEW s \in Nat
  PROVE  (x + s <= Size => x + s \in Bound) /\ (x <= Size /\ s <= x => x - s \in Bound)
  BY BoundIs, Sizes

LEMMA CallIs ==
  ASSUME TypeOK, NEW t \in Thread
  PROVE  /\ op[t] \in Activity
         /\ op[t].va \in Nat /\ op[t].va <= Size /\ op[t].size \in {0, 1, Large} /\ op[t].size \in Nat
         /\ op[t].base \in Nat /\ op[t].base <= Size /\ op[t].len \in Nat /\ op[t].len <= Size
         /\ op[t].left \in Nat /\ op[t].whole \in Nat
         /\ op[t].flags \in Flags /\ op[t].flags.start \in BOOLEAN /\ op[t].flags.end \in BOOLEAN
         /\ op[t].fell \in BOOLEAN /\ op[t].node \in {0} \union Node /\ op[t].buf \in Buffer \union {NoBuffer}
  <1>1. op[t] \in Activity
    BY DEF TypeOK
  <1>2. /\ op[t].va \in 0 .. Size /\ op[t].size \in {0, 1, Large} /\ op[t].base \in 0 .. Size
        /\ op[t].len \in 0 .. Size /\ op[t].left \in Nat /\ op[t].whole \in Nat /\ op[t].flags \in Flags
        /\ op[t].fell \in BOOLEAN /\ op[t].node \in {0} \union Node /\ op[t].buf \in Buffer \union {NoBuffer}
    BY <1>1, BoundIs DEF Activity
  <1>3. op[t].flags.start \in BOOLEAN /\ op[t].flags.end \in BOOLEAN
    BY <1>2 DEF Flags
  <1> QED BY <1>1, <1>2, <1>3, Sizes

LEMMA BufferIs ==
  ASSUME TypeOK, NEW b \in bufs
  PROVE  /\ b \in Buffer /\ b.base \in Nat /\ b.base < Size /\ b.len \in Nat /\ b.len > 0 /\ b.fell \in BOOLEAN
         /\ b # NoBuffer /\ End(b) \in Nat /\ b.base < End(b) /\ End(b) = b.base + b.len
         /\ \A a : a \in Span(b.base, b.len) <=> a \in Nat /\ b.base <= a /\ a < End(b)
  <1>1. b \in Buffer
    BY DEF TypeOK
  <1>2. b.base \in Nat /\ b.base < Size /\ b.len \in Nat /\ b.len > 0 /\ b.fell \in BOOLEAN
    BY <1>1, Sizes DEF Buffer, Size
  <1>3. b # NoBuffer
    BY <1>2 DEF NoBuffer
  <1>4. \A a : a \in Span(b.base, b.len) <=> a \in Nat /\ b.base <= a /\ a < End(b)
    BY <1>2, SpanIs DEF End
  <1> QED BY <1>1, <1>2, <1>3, <1>4 DEF End

LEMMA IdleIs ==
  /\ Idle \in Activity /\ Idle.pc = "idle" /\ Idle.buf = NoBuffer
  /\ Idle.flags = NoFlags /\ NoFlags \in Flags /\ ~NoFlags.start /\ ~NoFlags.end
  BY Sizes, BoundIs DEF Idle, Activity, NoFlags, Flags, NoBuffer

Others(t) == /\ op' \in [Thread -> Activity]
             /\ \A u \in Thread \ {t} : op'[u] = op[u]

\* Only the place of a call changes.
Moves(t, p) ==
    /\ Others(t) /\ op'[t].pc = p
    /\ op'[t].va = op[t].va /\ op'[t].size = op[t].size /\ op'[t].flags = op[t].flags
    /\ op'[t].base = op[t].base /\ op'[t].len = op[t].len /\ op'[t].left = op[t].left
    /\ op'[t].whole = op[t].whole /\ op'[t].fell = op[t].fell /\ op'[t].node = op[t].node
    /\ op'[t].buf = op[t].buf

\* A call returns.
Ends(t) == Others(t) /\ op'[t] = Idle

LEMMA GotoIs ==
  ASSUME TypeOK, NEW t \in Thread, NEW p, Goto(t, p),
         p \in {"insert", "restore", "replace", "next", "give"}
  PROVE  Moves(t, p)
  <1>1. op[t] \in Activity /\ op \in [Thread -> Activity]
    BY DEF TypeOK
  <1>2. op' = [op EXCEPT ![t] = [op[t] EXCEPT !.pc = p]]
    BY DEF Goto
  <1>3. [op[t] EXCEPT !.pc = p] \in Activity
    BY <1>1 DEF Activity
  <1> QED BY <1>1, <1>2, <1>3 DEF Moves, Others, Activity

LEMMA EndIs ==
  ASSUME TypeOK, NEW t \in Thread, op' = [op EXCEPT ![t] = Idle]
  PROVE  Ends(t)
  BY IdleIs DEF TypeOK, Ends, Others

LEMMA AllocateIs ==
  ASSUME TypeOK, NEW t \in Thread, Allocate(t)
  PROVE  /\ Others(t) /\ op[t].pc = "idle" /\ op'[t].pc = "reserve"
         /\ op'[t].left # 0 /\ op'[t].left = op'[t].whole /\ ~op'[t].flags.start /\ ~op'[t].flags.end
         /\ ~op'[t].fell /\ op'[t].buf = NoBuffer /\ op'[t].base = 0 /\ op'[t].len = 0
         /\ lock = Free /\ lock' = t
         /\ UNCHANGED <<service, hw, vm, pins, table, bufs, why>>
  <1>1. PICK n \in Requests :
           op' = [op EXCEPT ![t] = [Idle EXCEPT !.pc = "reserve", !.left = Padded(n), !.whole = Padded(n)]]
    BY DEF Allocate
  <1>2. Padded(n) \in Nat /\ Padded(n) # 0
    <2>1. n \in Nat \ {0} /\ n % Large \in 0 .. Large - 1 /\ n = Large * (n \div Large) + (n % Large)
          /\ n \div Large \in Nat
      BY AalAssumption, Sizes
    <2>2. n % Large <= n
      <3>1. Large * (n \div Large) \in Nat
        BY <2>1, Sizes
      <3>2. PICK m \in Nat, q \in Nat : m = n % Large /\ q = Large * (n \div Large) /\ n = q + m
        BY <2>1, <3>1
      <3> QED BY <3>2
    <2>3. PICK m \in Nat : m = n % Large /\ m <= n
      BY <2>1, <2>2
    <2>4. Padded(n) = IF m > Threshold THEN (n - m) + Large ELSE n
      BY <2>3 DEF Padded
    <2> QED BY <2>1, <2>3, <2>4, Sizes
  <1> DEFINE me == [Idle EXCEPT !.pc = "reserve", !.left = Padded(n), !.whole = Padded(n)]
  <1>3. me \in Activity
    BY <1>2, IdleIs DEF Activity
  <1>4. op'[t] = me /\ Others(t)
    BY <1>1, <1>3 DEF TypeOK, Others
  <1>5. /\ me.pc = "reserve" /\ me.left = Padded(n) /\ me.whole = Padded(n) /\ me.flags = NoFlags
        /\ ~me.fell /\ me.buf = NoBuffer /\ me.base = 0 /\ me.len = 0
    BY DEF Idle
  <1> QED BY <1>2, <1>4, <1>5, IdleIs DEF Allocate, At

LEMMA ReserveIs ==
  ASSUME TypeOK, NEW t \in Thread, op[t].pc = "reserve", NEW b \in VA,
         op' = [op EXCEPT ![t].pc = "shrink", ![t].base = b, ![t].len = (AlignUp(b) + op[t].left) - b,
                          ![t].va = AlignUp(b) + op[t].left, ![t].flags.end = TRUE],
         AlignUp(b) + op[t].left <= Size
  PROVE  /\ Others(t) /\ op'[t].pc = "shrink" /\ op'[t].base = b
         /\ op'[t].len = (AlignUp(b) + op[t].left) - b /\ op'[t].va = AlignUp(b) + op[t].left
         /\ op'[t].flags.end /\ op'[t].flags.start = op[t].flags.start
         /\ op'[t].left = op[t].left /\ op'[t].whole = op[t].whole /\ op'[t].fell = op[t].fell
         /\ op'[t].buf = op[t].buf
  <1>1. b \in Nat /\ b < Size /\ AlignUp(b) \in Nat /\ b <= AlignUp(b) /\ op[t].left \in Nat
    BY AlignUpIs, CallIs, Sizes
  <1> DEFINE top == AlignUp(b) + op[t].left
             len == top - b
             f == [op[t].flags EXCEPT !.end = TRUE]
  <1>2. len \in Bound /\ top \in Bound
    BY <1>1, BoundIs, Sizes
  <1>3. f \in Flags /\ f.end /\ f.start = op[t].flags.start
    <2>1. op[t].flags \in [start : BOOLEAN, end : BOOLEAN]
      BY CallIs DEF Flags
    <2> QED BY <2>1 DEF Flags
  <1> DEFINE me == [op[t] EXCEPT !.pc = "shrink", !.base = b, !.len = len, !.va = top, !.flags = f]
  <1>4. op \in [Thread -> Activity]
    BY DEF TypeOK
  <1>5. op' = [op EXCEPT ![t].pc = "shrink", ![t].base = b, ![t].len = len, ![t].va = top, ![t].flags.end = TRUE]
    OBVIOUS
  <1>6. op'[t] = me /\ \A u \in Thread \ {t} : op'[u] = op[u]
    BY <1>4, <1>5
  <1> HIDE DEF top, len, f
  <1>7. me \in Activity
    <2>1. b \in Bound
      BY <1>1, BoundIs, Sizes
    <2> QED BY <1>2, <1>3, <2>1, CallIs DEF Activity
  <1>8. op' \in [Thread -> Activity]
    BY <1>4, <1>5, <1>6, <1>7
  <1> HIDE DEF me
  <1>9. /\ me.pc = "shrink" /\ me.base = b /\ me.len = len /\ me.va = top /\ me.flags = f
        /\ me.left = op[t].left /\ me.whole = op[t].whole /\ me.fell = op[t].fell /\ me.buf = op[t].buf
    BY CallIs DEF Activity, me
  <1> QED BY <1>3, <1>6, <1>8, <1>9 DEF Others, top, len

\* The next page is taken off the end of the reservation.
LEMMA ShrinkIs ==
  ASSUME TypeOK, NEW t \in Thread, op[t].pc = "shrink", NEW size \in {1, Large}, NEW start \in BOOLEAN,
         size <= op[t].len, size <= op[t].va,
         op' = [op EXCEPT ![t].pc = "pin", ![t].len = @ - size, ![t].va = @ - size, ![t].size = size,
                          ![t].flags.start = @ \/ start]
  PROVE  /\ Others(t) /\ op'[t].pc = "pin" /\ op'[t].base = op[t].base
         /\ op'[t].len = op[t].len - size /\ op'[t].va = op[t].va - size /\ op'[t].size = size
         /\ (op'[t].flags.end <=> op[t].flags.end) /\ (op'[t].flags.start <=> op[t].flags.start \/ start)
         /\ op'[t].left = op[t].left /\ op'[t].whole = op[t].whole /\ op'[t].fell = op[t].fell
         /\ op'[t].buf = op[t].buf
  <1> DEFINE len == op[t].len - size
             va == op[t].va - size
             f == [op[t].flags EXCEPT !.start = op[t].flags.start \/ start]
  <1>1. f \in Flags /\ (f.end <=> op[t].flags.end) /\ (f.start <=> op[t].flags.start \/ start)
    <2>1. op[t].flags \in [start : BOOLEAN, end : BOOLEAN]
      BY CallIs DEF Flags
    <2>2. PICK b \in BOOLEAN : b <=> op[t].flags.start \/ start
      OBVIOUS
    <2>3. f = [op[t].flags EXCEPT !.start = b]
      BY <2>2, CallIs
    <2> QED BY <2>1, <2>2, <2>3 DEF Flags
  <1>2. len \in Bound /\ va \in Bound
    <2>1. op[t].va \in Nat /\ op[t].va <= Size /\ op[t].base \in Nat /\ op[t].len \in Nat /\ op[t].len <= Size
      BY CallIs
    <2>2. len \in Bound
      BY <2>1, BoundSum, Sizes
    <2>3. va \in Bound
      BY <2>1, BoundSum, Sizes
    <2> QED BY <2>2, <2>3
  <1> DEFINE me == [op[t] EXCEPT !.pc = "pin", !.len = len, !.va = va, !.size = size, !.flags = f]
  <1>3. op \in [Thread -> Activity]
    BY DEF TypeOK
  <1>4. op'[t] = me /\ \A u \in Thread \ {t} : op'[u] = op[u]
    BY <1>3
  <1> HIDE DEF len, va, f
  <1>5. me \in Activity
    <2>1. op[t] \in Activity /\ size \in {0, 1, Large}
      BY CallIs
    <2> QED BY <1>1, <1>2, <2>1 DEF Activity
  <1>6. op' \in [Thread -> Activity]
    BY <1>3, <1>4, <1>5
  <1>7. /\ me.pc = "pin" /\ me.base = op[t].base /\ me.len = len /\ me.va = va /\ me.flags = f /\ me.size = size
        /\ me.left = op[t].left /\ me.whole = op[t].whole /\ me.fell = op[t].fell /\ me.buf = op[t].buf
    BY CallIs DEF Activity
  <1> HIDE DEF me
  <1> QED BY <1>1, <1>4, <1>6, <1>7 DEF Others, len, va

LEMMA NextIs ==
  ASSUME TypeOK, NEW t \in Thread, NEW left \in Nat,
         op' = [op EXCEPT ![t].pc = "shrink", ![t].left = left, ![t].flags = NoFlags]
  PROVE  /\ Others(t) /\ op'[t].pc = "shrink" /\ op'[t].left = left /\ op'[t].flags = NoFlags
         /\ op'[t].va = op[t].va /\ op'[t].base = op[t].base /\ op'[t].len = op[t].len
         /\ op'[t].whole = op[t].whole /\ op'[t].fell = op[t].fell /\ op'[t].buf = op[t].buf
  <1> DEFINE me == [op[t] EXCEPT !.pc = "shrink", !.left = left, !.flags = NoFlags]
  <1>1. op \in [Thread -> Activity]
    BY DEF TypeOK
  <1>2. op'[t] = me /\ \A u \in Thread \ {t} : op'[u] = op[u]
    BY <1>1
  <1>3. me \in Activity
    BY CallIs, IdleIs DEF Activity
  <1>4. op' \in [Thread -> Activity]
    BY <1>1, <1>2, <1>3
  <1>5. /\ me.pc = "shrink" /\ me.left = left /\ me.flags = NoFlags /\ me.va = op[t].va /\ me.base = op[t].base
        /\ me.len = op[t].len /\ me.whole = op[t].whole /\ me.fell = op[t].fell /\ me.buf = op[t].buf
    BY CallIs DEF Activity
  <1> QED BY <1>2, <1>4, <1>5 DEF Others

LEMMA RestoreIs ==
  ASSUME TypeOK, NEW t \in Thread, op[t].va = op[t].base + op[t].len, op[t].va + Large <= Size,
         op' = [op EXCEPT ![t].pc = "shrink", ![t].fell = TRUE, ![t].len = @ + Large,
                          ![t].va = @ + Large, ![t].base = IF op[t].len = 0 THEN op[t].va ELSE @]
  PROVE  /\ Others(t) /\ op'[t].pc = "shrink" /\ op'[t].fell /\ op'[t].base = op[t].base
         /\ op'[t].len = op[t].len + Large /\ op'[t].va = op[t].va + Large
         /\ op'[t].flags = op[t].flags /\ op'[t].left = op[t].left /\ op'[t].whole = op[t].whole
         /\ op'[t].buf = op[t].buf
  <1>1. (IF op[t].len = 0 THEN op[t].va ELSE op[t].base) = op[t].base
    BY CallIs
  <1> DEFINE len == op[t].len + Large
             va == op[t].va + Large
  <1>2. len \in Bound /\ va \in Bound
    <2>1. op[t].va \in Nat /\ op[t].va <= Size /\ op[t].base \in Nat /\ op[t].len \in Nat /\ op[t].len <= Size
      BY CallIs
    <2>2. len \in Bound
      BY <2>1, BoundSum, Sizes
    <2>3. va \in Bound
      BY <2>1, BoundSum, Sizes
    <2> QED BY <2>2, <2>3
  <1> DEFINE me == [op[t] EXCEPT !.pc = "shrink", !.fell = TRUE, !.len = len, !.va = va, !.base = op[t].base]
  <1>3. op \in [Thread -> Activity]
    BY DEF TypeOK
  <1>4. op'[t] = me /\ \A u \in Thread \ {t} : op'[u] = op[u]
    BY <1>1, <1>3
  <1> HIDE DEF len, va
  <1>5. me \in Activity
    BY <1>2, CallIs DEF Activity
  <1>6. op' \in [Thread -> Activity]
    BY <1>3, <1>4, <1>5
  <1>7. /\ me.pc = "shrink" /\ me.fell /\ me.base = op[t].base /\ me.len = len /\ me.va = va
        /\ me.flags = op[t].flags /\ me.left = op[t].left /\ me.whole = op[t].whole /\ me.buf = op[t].buf
    BY CallIs DEF Activity
  <1> HIDE DEF me
  <1> QED BY <1>4, <1>6, <1>7 DEF Others, len, va

LEMMA BufferFreeIs ==
  ASSUME TypeOK, AtStart, NEW t \in Thread, BufferFree(t)
  PROVE  \E b \in bufs :
           /\ op[t].pc = "idle" /\ \A u \in Thread : op[u].buf # b
           /\ Translates(b.base)
           /\ Others(t) /\ op'[t].pc = "walk" /\ op'[t].va = b.base /\ op'[t].buf = b
           /\ UNCHANGED <<service, hw, lock, vm, pins, table, bufs, why, count>>
  <1>1. PICK b \in bufs, o \in Offsets :
           /\ \A u \in Thread : op[u].buf # b
           /\ Translates(b.base + o)
           /\ op' = [op EXCEPT ![t] = [Idle EXCEPT !.pc = "walk", !.va = b.base + o, !.buf = b]]
    BY DEF BufferFree
  <1>2. o = 0 /\ b.base + o = b.base /\ b.base \in Nat /\ b.base < Size /\ b \in Buffer
    BY BufferIs DEF AtStart
  <1> DEFINE me == [Idle EXCEPT !.pc = "walk", !.va = b.base, !.buf = b]
  <1>3. me \in Activity
    <2>1. b.base \in Bound /\ b \in Buffer \union {NoBuffer} /\ Idle \in Activity
      BY <1>2, BoundIs, Sizes, IdleIs
    <2> QED BY <2>1 DEF Activity
  <1>4. op' = [op EXCEPT ![t] = me]
    BY <1>1, <1>2
  <1>5. op'[t] = me /\ Others(t)
    BY <1>3, <1>4 DEF TypeOK, Others
  <1>6. me.pc = "walk" /\ me.va = b.base /\ me.buf = b
    BY DEF Idle
  <1> QED BY <1>1, <1>2, <1>5, <1>6 DEF BufferFree, At

\* bufferFree goes from one page to the next, or from the upper level to a node.
LEMMA LeafIs ==
  ASSUME TypeOK, NEW t \in Thread, NEW n \in Node, op' = [op EXCEPT ![t].pc = "leaf", ![t].node = n]
  PROVE  /\ Others(t) /\ op'[t].pc = "leaf" /\ op'[t].node = n /\ op'[t].va = op[t].va /\ op'[t].buf = op[t].buf
  <1> DEFINE me == [op[t] EXCEPT !.pc = "leaf", !.node = n]
  <1>1. op \in [Thread -> Activity]
    BY DEF TypeOK
  <1>2. op'[t] = me /\ \A u \in Thread \ {t} : op'[u] = op[u]
    BY <1>1
  <1>3. me \in Activity
    BY CallIs DEF Activity
  <1>4. op' \in [Thread -> Activity]
    BY <1>1, <1>2, <1>3
  <1>5. me.pc = "leaf" /\ me.node = n /\ me.va = op[t].va /\ me.buf = op[t].buf
    BY CallIs DEF Activity
  <1> QED BY <1>2, <1>4, <1>5 DEF Others

LEMMA TakeLarge ==
  ASSUME TypeOK, NEW t \in Thread, NEW f \in Flags,
         op' = [op EXCEPT ![t].pc = "inval", ![t].size = Large, ![t].flags = f]
  PROVE  /\ Others(t) /\ op'[t].pc = "inval" /\ op'[t].size = Large /\ op'[t].flags = f
         /\ op'[t].va = op[t].va /\ op'[t].buf = op[t].buf
  <1> DEFINE me == [op[t] EXCEPT !.pc = "inval", !.size = Large, !.flags = f]
  <1>1. op \in [Thread -> Activity]
    BY DEF TypeOK
  <1>2. op'[t] = me /\ \A u \in Thread \ {t} : op'[u] = op[u]
    BY <1>1
  <1>3. me \in Activity
    BY CallIs DEF Activity
  <1>4. op' \in [Thread -> Activity]
    BY <1>1, <1>2, <1>3
  <1>5. me.pc = "inval" /\ me.size = Large /\ me.flags = f /\ me.va = op[t].va /\ me.buf = op[t].buf
    BY CallIs DEF Activity
  <1> QED BY <1>2, <1>4, <1>5 DEF Others

LEMMA TakeSmall ==
  ASSUME TypeOK, NEW t \in Thread, NEW f \in Flags,
         op' = [op EXCEPT ![t].pc = "inval", ![t].size = 1, ![t].flags = f, ![t].node = 0]
  PROVE  /\ Others(t) /\ op'[t].pc = "inval" /\ op'[t].size = 1 /\ op'[t].flags = f
         /\ op'[t].va = op[t].va /\ op'[t].buf = op[t].buf
  <1> DEFINE me == [op[t] EXCEPT !.pc = "inval", !.size = 1, !.flags = f, !.node = 0]
  <1>1. op \in [Thread -> Activity]
    BY DEF TypeOK
  <1>2. op'[t] = me /\ \A u \in Thread \ {t} : op'[u] = op[u]
    BY <1>1
  <1>3. me \in Activity
    BY CallIs DEF Activity
  <1>4. op' \in [Thread -> Activity]
    BY <1>1, <1>2, <1>3
  <1>5. me.pc = "inval" /\ me.size = 1 /\ me.flags = f /\ me.va = op[t].va /\ me.buf = op[t].buf
    BY CallIs DEF Activity
  <1> QED BY <1>2, <1>4, <1>5 DEF Others

LEMMA OnwardIs ==
  ASSUME TypeOK, NEW t \in Thread, op[t].va + op[t].size <= Size,
         op' = [op EXCEPT ![t].pc = "walk", ![t].va = @ + op[t].size]
  PROVE  /\ Others(t) /\ op'[t].pc = "walk" /\ op'[t].va = op[t].va + op[t].size /\ op'[t].buf = op[t].buf
  <1>1. PICK va \in Bound : va = op[t].va + op[t].size
    BY CallIs, BoundSum
  <1> DEFINE me == [op[t] EXCEPT !.pc = "walk", !.va = va]
  <1>2. op \in [Thread -> Activity]
    BY DEF TypeOK
  <1>3. op'[t] = me /\ \A u \in Thread \ {t} : op'[u] = op[u]
    BY <1>1, <1>2
  <1>4. me \in Activity
    BY CallIs, Sizes DEF Activity
  <1>5. op' \in [Thread -> Activity]
    BY <1>2, <1>3, <1>4
  <1>6. me.pc = "walk" /\ me.va = va /\ me.buf = op[t].buf
    BY CallIs DEF Activity
  <1> QED BY <1>1, <1>3, <1>5, <1>6 DEF Others

-----------------------------------------------------------------------------
(* What the shape of a call says.                                          *)

LEMMA AllocIs ==
  ASSUME TypeOK, Shapes, NEW t \in Thread, InAlloc(t)
  PROVE  /\ Bottom(op[t]) \in Nat /\ From(op[t]) \in Nat /\ To(op[t]) \in Nat
         /\ From(op[t]) = IF op[t].pc \in {"shrink", "next"} THEN op[t].va ELSE op[t].va + op[t].size
         /\ To(op[t]) = Bottom(op[t]) + op[t].whole
         /\ op[t].pc = "shrink" => Bottom(op[t]) + op[t].left = op[t].va
         /\ op[t].pc # "shrink" => /\ Bottom(op[t]) + op[t].left = op[t].va + op[t].size
                                   /\ op[t].size \in {1, Large} /\ op[t].size <= op[t].left
         /\ op[t].left > 0 /\ op[t].left <= op[t].whole
         /\ op[t].base + op[t].len = op[t].va /\ op[t].base <= Bottom(op[t]) /\ Bottom(op[t]) <= op[t].va
         /\ op[t].va <= From(op[t]) /\ From(op[t]) <= To(op[t]) /\ To(op[t]) <= Size
         /\ lock = t
  <1>1. AllocShape(op[t]) /\ lock = t
    BY DEF Shapes, Shaped, InAlloc, Making, Clearing
  <1>2. /\ op[t].va \in Nat /\ op[t].size \in Nat /\ op[t].base \in Nat /\ op[t].len \in Nat
        /\ op[t].left \in Nat /\ op[t].whole \in Nat
    BY CallIs
  <1>3. /\ op[t].left # 0 /\ op[t].left <= op[t].whole /\ op[t].va = op[t].base + op[t].len
        /\ op[t].base <= Bottom(op[t]) /\ Top(op[t]) <= Size
    BY <1>1 DEF AllocShape
  <1>4. op[t].pc # "shrink" => op[t].size \in {1, Large} /\ op[t].size <= op[t].left
    BY <1>1 DEF AllocShape
  <1>5. Bottom(op[t]) = IF op[t].pc = "shrink" THEN op[t].va - op[t].left ELSE op[t].va + op[t].size - op[t].left
    BY DEF Bottom
  <1>6. Bottom(op[t]) \in Nat /\ Top(op[t]) = Bottom(op[t]) + op[t].whole
    BY <1>2, <1>3, <1>5 DEF Top
  <1>7. /\ From(op[t]) = IF op[t].pc \in {"shrink", "next"} THEN op[t].va ELSE op[t].va + op[t].size
        /\ To(op[t]) = Top(op[t])
    BY DEF From, To, Done, InAlloc
  <1>8. Bottom(op[t]) <= op[t].va
    BY <1>2, <1>4, <1>5
  <1>9. op[t].va <= From(op[t]) /\ From(op[t]) <= To(op[t]) /\ From(op[t]) \in Nat
    BY <1>2, <1>3, <1>4, <1>5, <1>6, <1>7
  <1> QED BY <1>1, <1>2, <1>3, <1>4, <1>5, <1>6, <1>7, <1>8, <1>9

LEMMA FreeIs ==
  ASSUME TypeOK, Shapes, NEW t \in Thread, InFree(t)
  PROVE  /\ op[t].buf \in bufs /\ End(op[t].buf) \in Nat /\ End(op[t].buf) <= Size
         /\ From(op[t]) \in Nat /\ To(op[t]) = End(op[t].buf)
         /\ From(op[t]) = IF op[t].pc \in {"walk", "leaf"} THEN op[t].va ELSE op[t].va + op[t].size
         /\ op[t].buf.base \in Nat /\ op[t].buf.base <= op[t].va /\ op[t].va <= From(op[t])
         /\ From(op[t]) <= To(op[t])
         /\ op[t].pc \in {"walk", "leaf"} => op[t].va < To(op[t])
         /\ op[t].pc \in {"inval", "give"} => op[t].size \in {1, Large} /\ op[t].va < From(op[t])
         /\ lock # t
  <1>1. FreeShape(op[t]) /\ op[t].pc \notin Making /\ lock # t /\ op[t].buf \in bufs
    BY DEF Shapes, Shaped, InFree, Clearing, Making
  <1>2. op[t].va \in Nat /\ op[t].size \in Nat
    BY CallIs
  <1>3. op[t].buf \in bufs /\ End(op[t].buf) \in Nat /\ op[t].buf.base \in Nat
    BY <1>1, BufferIs
  <1>4. End(op[t].buf) <= Size
    BY <1>3 DEF Shapes
  <1>5. /\ From(op[t]) = IF op[t].pc \in {"walk", "leaf"} THEN op[t].va ELSE op[t].va + op[t].size
        /\ To(op[t]) = End(op[t].buf)
    BY <1>1 DEF From, To, Ahead, InFree
  <1>6. op[t].pc \in {"walk", "leaf", "inval", "give"}
    BY DEF InFree, Clearing
  <1>7. /\ op[t].buf.base <= op[t].va
        /\ op[t].pc \in {"walk", "leaf"} => op[t].va < End(op[t].buf)
        /\ op[t].pc \in {"inval", "give"} => op[t].size \in {1, Large} /\ op[t].va + op[t].size <= End(op[t].buf)
    BY <1>1 DEF FreeShape
  <1> QED BY <1>1, <1>2, <1>3, <1>4, <1>5, <1>6, <1>7, Sizes

LEMMA OwnedIs ==
  ASSUME TypeOK, Shapes, NEW t \in Thread
  PROVE  /\ From(op[t]) \in Nat /\ To(op[t]) \in Nat /\ To(op[t]) <= Size /\ Owned(t) \subseteq VA
         /\ \A a : a \in Owned(t) <=> a \in Nat /\ From(op[t]) <= a /\ a < To(op[t])
         /\ ~InAlloc(t) /\ ~InFree(t) => From(op[t]) = 0 /\ To(op[t]) = 0 /\ Owned(t) = {}
  <1>1. ~InAlloc(t) /\ ~InFree(t) => From(op[t]) = 0 /\ To(op[t]) = 0
    BY DEF InAlloc, InFree, From, To
  <1>2. From(op[t]) \in Nat /\ To(op[t]) \in Nat /\ To(op[t]) <= Size
    BY <1>1, AllocIs, FreeIs, Sizes
  <1> QED BY <1>1, <1>2, Sizes DEF Owned

LEMMA UntouchedIs ==
  ASSUME TypeOK, Shapes, NEW b \in Untouched
  PROVE  /\ b \in bufs /\ b.base \in Nat /\ End(b) \in Nat /\ b.base < End(b) /\ End(b) <= Size
         /\ End(b) = b.base + b.len /\ Span(b.base, b.len) \subseteq VA
         /\ \A a : a \in Span(b.base, b.len) <=> a \in Nat /\ b.base <= a /\ a < End(b)
  <1>1. b \in bufs
    BY DEF Untouched
  <1>2. End(b) <= Size
    BY <1>1 DEF Shapes
  <1>3. /\ b.base \in Nat /\ End(b) \in Nat /\ b.base < End(b) /\ End(b) = b.base + b.len
        /\ \A a : a \in Span(b.base, b.len) <=> a \in Nat /\ b.base <= a /\ a < End(b)
    BY <1>1, BufferIs
  <1>4. Span(b.base, b.len) \subseteq VA
    BY <1>2, <1>3, Sizes
  <1> QED BY <1>1, <1>2, <1>3, <1>4

LEMMA OneAllocates ==
  ASSUME Shapes, NEW t \in Thread, NEW u \in Thread, op[t].pc \notin {"idle"} \union Clearing, t # u
  PROVE  ~InAlloc(u) /\ op[u].pc \in {"idle"} \union Clearing
  BY DEF Shapes, InAlloc, Making, Clearing

-----------------------------------------------------------------------------
(* The steps of bufferAllocate.                                            *)

\* A call gives up, for a reason.
Abandons(t, reason) ==
    /\ Ends(t) /\ lock' = Free /\ why' = why \union {reason}
    /\ UNCHANGED <<service, hw, vm, pins, table, bufs>>

LEMMA FailsIs ==
  ASSUME TypeOK, NEW t \in Thread, NEW reason, Fails(t, reason)
  PROVE  Ends(t) /\ lock' = Free /\ why' = why \union {reason}
  BY EndIs DEF Fails

LEMMA UsesIs ==
  ASSUME TypeOK, NEW as, NEW use, Uses(as, use)
  PROVE  /\ \A a \in VA : vm'[a] = IF a \in as THEN use ELSE vm[a]
         /\ use \in {"free", "reserved", "ali", "program"} => vm' \in [VA -> {"free", "reserved", "ali", "program"}]
  BY DEF Uses, TypeOK

ReserveDoes(t) ==
    \E b \in VA :
        LET top == AlignUp(b) + op[t].left
        IN  /\ Span(b, top - b) \subseteq VA /\ \A a \in Span(b, top - b) : vm[a] = "free"
            /\ AlignUp(b) \in Nat /\ b <= AlignUp(b) /\ Aligned(AlignUp(b)) /\ top \in Nat /\ top <= Size
            /\ Uses(Span(b, top - b), "reserved")
            /\ Others(t) /\ op'[t].pc = "shrink" /\ op'[t].base = b /\ op'[t].len = top - b /\ op'[t].va = top
            /\ op'[t].flags.end /\ op'[t].flags.start = op[t].flags.start
            /\ op'[t].left = op[t].left /\ op'[t].whole = op[t].whole /\ op'[t].fell = op[t].fell
            /\ op'[t].buf = op[t].buf
            /\ UNCHANGED <<lock, why>>

LEMMA ReserveStep ==
  ASSUME TypeOK, NEW t \in Thread, Reserve(t)
  PROVE  /\ op[t].pc = "reserve" /\ UNCHANGED <<service, hw, pins, table, bufs, count>>
         /\ Abandons(t, "full") \/ ReserveDoes(t)
  <1>1. op[t].pc = "reserve" /\ UNCHANGED <<service, hw, pins, table, bufs, count>>
    BY DEF Reserve, At
  <1>2. CASE \A b \in VA : ~AllFree(Span(b, op[t].left + Large))
    <2>1. Fails(t, "full") /\ UNCHANGED vm
      <3>1. \A b \in VA : ~AllFree(Span(b, op[t].left + Large))
        BY <1>2
      <3> QED BY <3>1 DEF Reserve
    <2> QED BY <1>1, <2>1, FailsIs DEF Abandons
  <1>3. CASE \E b \in VA :
                LET top == AlignUp(b) + op[t].left
                IN  /\ AllFree(Span(b, op[t].left + Large))
                    /\ Uses(b .. top - 1, "reserved")
                    /\ op' = [op EXCEPT ![t].pc = "shrink", ![t].base = b, ![t].len = top - b,
                                        ![t].va = top, ![t].flags.end = TRUE]
                    /\ UNCHANGED <<lock, why>>
    <2>1. PICK b \in VA :
                 /\ AllFree(Span(b, op[t].left + Large))
                 /\ Uses(b .. (AlignUp(b) + op[t].left) - 1, "reserved")
                 /\ op' = [op EXCEPT ![t].pc = "shrink", ![t].base = b, ![t].len = (AlignUp(b) + op[t].left) - b,
                                     ![t].va = AlignUp(b) + op[t].left, ![t].flags.end = TRUE]
                 /\ UNCHANGED <<lock, why>>
      BY <1>3
    <2> DEFINE top == AlignUp(b) + op[t].left
    <2>2. b \in Nat /\ op[t].left \in Nat
      BY Sizes, CallIs
    <2>3. AlignUp(b) \in Nat /\ b <= AlignUp(b) /\ AlignUp(b) < b + Large /\ Aligned(AlignUp(b))
      BY <2>2, AlignUpIs
    <2>4. Span(b, op[t].left + Large) \subseteq VA /\ \A a \in Span(b, op[t].left + Large) : vm[a] = "free"
      BY <2>1 DEF AllFree
    <2>5. top <= Size
      <3>1. (b + (op[t].left + Large)) - 1 \in Span(b, op[t].left + Large)
        BY <2>2, Sizes DEF Span
      <3>2. (b + (op[t].left + Large)) - 1 < Size
        BY <2>4, <3>1, Sizes
      <3> QED BY <2>2, <2>3, <3>2, Sizes
    <2>6. Span(b, top - b) = b .. top - 1 /\ Span(b, top - b) \subseteq Span(b, op[t].left + Large)
      <3>1. top \in Nat /\ b + (top - b) = top /\ top <= b + (op[t].left + Large)
        BY <2>2, <2>3, Sizes
      <3> HIDE DEF top
      <3>2. Span(b, top - b) = b .. top - 1
        BY <3>1 DEF Span
      <3> QED BY <2>2, <3>1, <3>2, Sizes DEF Span
    <2>7. /\ Others(t) /\ op'[t].pc = "shrink" /\ op'[t].base = b /\ op'[t].len = top - b /\ op'[t].va = top
          /\ op'[t].flags.end /\ op'[t].flags.start = op[t].flags.start
          /\ op'[t].left = op[t].left /\ op'[t].whole = op[t].whole /\ op'[t].fell = op[t].fell
          /\ op'[t].buf = op[t].buf
      BY <1>1, <2>1, <2>5, ReserveIs
    <2>8. Uses(Span(b, top - b), "reserved") /\ UNCHANGED <<lock, why>>
      BY <2>1, <2>6
    <2>9. Span(b, top - b) \subseteq VA /\ (\A a \in Span(b, top - b) : vm[a] = "free") /\ top \in Nat
      BY <2>2, <2>3, <2>4, <2>6
    <2> HIDE DEF top
    <2>10. ReserveDoes(t)
      BY <2>3, <2>5, <2>7, <2>8, <2>9 DEF ReserveDoes, top
    <2> QED BY <1>1, <2>10
  <1> QED BY <1>1, <1>2, <1>3 DEF Reserve

ShrinkDoes(t) ==
    \E size \in {1, Large} :
        /\ size <= op[t].left /\ (size = Large => Aligned(op[t].va - size) /\ ~op[t].fell)
        /\ Uses(Span(op[t].va - size, size), "free")
        /\ Others(t) /\ op'[t].pc = "pin" /\ op'[t].base = op[t].base
        /\ op'[t].len = op[t].len - size /\ op'[t].va = op[t].va - size /\ op'[t].size = size
        /\ (op'[t].flags.end <=> op[t].flags.end)
        /\ (op'[t].flags.start <=> op[t].flags.start \/ op[t].left = size)
        /\ op'[t].left = op[t].left /\ op'[t].whole = op[t].whole /\ op'[t].fell = op[t].fell
        /\ op'[t].buf = op[t].buf
        /\ UNCHANGED <<lock, why>>

LEMMA ShrinkStep ==
  ASSUME TypeOK, Shapes, NEW t \in Thread, Shrink(t)
  PROVE  /\ op[t].pc = "shrink" /\ UNCHANGED <<service, hw, pins, table, bufs, count>>
         /\ Abandons(t, "empty") \/ ShrinkDoes(t)
  <1>1. op[t].pc = "shrink" /\ UNCHANGED <<service, hw, pins, table, bufs, count>>
    BY DEF Shrink, At
  <1>2. InAlloc(t)
    BY <1>1 DEF InAlloc, Making
  <1>3. AllocShape(op[t])
    BY <1>2 DEF Shapes, Shaped, InAlloc
  <1>4. /\ op[t].va \in Nat /\ op[t].left \in Nat /\ op[t].left > 0 /\ op[t].len \in Nat /\ op[t].base \in Nat
        /\ Bottom(op[t]) \in Nat /\ Bottom(op[t]) + op[t].left = op[t].va /\ op[t].base + op[t].len = op[t].va
        /\ op[t].base <= Bottom(op[t])
    BY <1>1, <1>2, CallIs, AllocIs
  <1>5. Aligned(Bottom(op[t]))
    BY <1>3 DEF AllocShape
  <1> DEFINE size == PageSize(t)
  <1>6. /\ size \in {1, Large}
        /\ size = Large => op[t].va % Large = 0 /\ ~op[t].fell
    BY Sizes DEF PageSize, InLargeLoop
  <1>7. size = Large => Aligned(op[t].va)
    BY <1>4, <1>6, AlignedIs
  <1>8. CASE op[t].len = size /\ ~InLargeLoop(t)
    <2>1. Fails(t, "empty") /\ UNCHANGED vm
      BY <1>8 DEF Shrink
    <2> QED BY <1>1, <2>1, FailsIs DEF Abandons
  <1>9. CASE ~(op[t].len = size /\ ~InLargeLoop(t))
    <2>1. /\ Uses(Span(op[t].va - size, size), "free")
          /\ op' = [op EXCEPT ![t].pc = "pin", ![t].len = @ - size, ![t].va = @ - size, ![t].size = size,
                              ![t].flags.start = @ \/ op[t].left <= size]
          /\ UNCHANGED <<lock, why>>
      BY <1>9 DEF Shrink
    <2> HIDE DEF size
    <2>2. size <= op[t].left
      <3>1. CASE size = 1
        BY <1>4, <3>1
      <3>2. CASE size = Large
        <4>1. Bottom(op[t]) + Large <= op[t].va
          BY <1>4, <1>5, <1>7, <3>2, AlignedStep
        <4> QED BY <1>4, <3>2, <4>1, Sizes
      <3> QED BY <1>6, <3>1, <3>2
    <2>3. size \in Nat /\ size <= op[t].len /\ size <= op[t].va
      BY <1>4, <1>6, <2>2, Sizes
    <2>4. size = Large => Aligned(op[t].va - size)
      BY <1>4, <1>7, <2>3, AlignedSum
    <2>5. PICK start \in BOOLEAN : start <=> op[t].left <= size
      OBVIOUS
    <2>6. start <=> op[t].left = size
      BY <1>4, <2>2, <2>3, <2>5
    <2>7. op' = [op EXCEPT ![t].pc = "pin", ![t].len = @ - size, ![t].va = @ - size, ![t].size = size,
                           ![t].flags.start = @ \/ start]
      BY <2>1, <2>5
    <2>8. /\ Others(t) /\ op'[t].pc = "pin" /\ op'[t].base = op[t].base
          /\ op'[t].len = op[t].len - size /\ op'[t].va = op[t].va - size /\ op'[t].size = size
          /\ (op'[t].flags.end <=> op[t].flags.end) /\ (op'[t].flags.start <=> op[t].flags.start \/ start)
          /\ op'[t].left = op[t].left /\ op'[t].whole = op[t].whole /\ op'[t].fell = op[t].fell
          /\ op'[t].buf = op[t].buf
      BY <1>1, <1>6, <2>3, <2>7, ShrinkIs
    <2>9. ShrinkDoes(t)
      BY <1>6, <2>1, <2>2, <2>4, <2>6, <2>8 DEF ShrinkDoes
    <2> QED BY <1>1, <2>9
  <1> QED BY <1>8, <1>9

-----------------------------------------------------------------------------
(* Steps that write to the table.                                          *)

Entry == Leaf \union [is : {"node"}, to : {0} \union Node]
TableOK ==
    /\ root \in [Region -> Leaf \union [is : {"node"}, to : Node]]
    /\ node \in [Node -> [0 .. Large - 1 -> Entry]]
    /\ ptov \subseteq Node /\ freeList \in {0} \union Node

\* A call of bufferFree that has read the upper level finds its page below.
AtLeaf(t) ==
    /\ root[RegionOf(op[t].va)] = Link(op[t].node)
    /\ node[op[t].node][op[t].va % Large].is = "page"
LeavesKept(t) ==
    \A u \in Thread \ {t} : op[u].pc = "leaf" =>
        /\ root'[RegionOf(op[u].va)] = Link(op[u].node)
        /\ node'[op[u].node][op[u].va % Large].is = "page"

LEMMA TableIs ==
  ASSUME TypeOK
  PROVE  TableOK
  BY DEF TypeOK, TableOK, Entry

LEMMA EntriesAre ==
  /\ Absent \in Entry /\ \A f \in Flags : PageEntry(f) \in Leaf /\ PageEntry(f) \in Entry
  /\ \A n \in {0} \union Node : Link(n) \in Entry
  /\ \A n \in Node : Link(n) \in [is : {"node"}, to : Node]
  /\ Absent \in Leaf /\ \A n : Link(n) # Absent /\ \A f : PageEntry(f) # Link(n) /\ PageEntry(f) # Absent
  <1>1. Absent \in Leaf /\ \A f \in Flags : PageEntry(f) \in Leaf
    BY DEF Leaf, Absent, PageEntry
  <1>2. \A n \in {0} \union Node : Link(n) \in [is : {"node"}, to : {0} \union Node]
    BY DEF Link
  <1>3. \A n \in Node : Link(n) \in [is : {"node"}, to : Node]
    BY DEF Link
  <1> QED BY <1>1, <1>2, <1>3, LinkIs DEF Entry

LEMMA NobodyReplaces ==
  ASSUME Shapes, NEW t \in Thread, op[t].pc \notin {"idle", "replace"} \union Clearing, NEW r
  PROVE  ~Replacing(r)
  BY OneAllocates DEF Replacing, Clearing

\* An address in a large page.
LEMMA InLarge ==
  ASSUME NEW a \in VA, Aligned(a), NEW i \in 0 .. Large - 1
  PROVE  a + i \in VA /\ RegionOf(a + i) = RegionOf(a) /\ (a + i) % Large = i
  <1>1. a \in Nat /\ i \in Nat /\ i < Large /\ Start(a) = a /\ a + Large <= Size
    BY AlignedStart, Sizes
  <1>2. a + i \in VA
    BY <1>1, Sizes
  <1>3. RegionOf(a + i) = RegionOf(a) /\ Start(a + i) = a
    <2>1. PICK c \in VA : c = a + i /\ Start(a) <= c /\ c < Start(a) + Large
      BY <1>1, <1>2, Sizes
    <2>2. RegionOf(c) = RegionOf(a) /\ Start(c) = Start(a)
      BY <2>1, SameRegion
    <2> QED BY <1>1, <2>1, <2>2
  <1>4. a + i = Start(a + i) + Index(a + i) /\ Index(a + i) \in 0 .. Large - 1
    BY <1>2, RegionIs
  <1>5. Index(a + i) = i
    BY <1>1, <1>3, <1>4
  <1> QED BY <1>2, <1>3, <1>5 DEF Index

\* A page that was pinned finds room in the table.
LEMMA PendingIs ==
  ASSUME TypeOK, Addresses, Hands, NEW t \in Thread, op[t].pc \in {"insert", "replace"}
  PROVE  /\ op[t].va \in VA /\ op[t].size \in {1, Large} /\ Pending(t) \in pins /\ Pending(t) \in Page
         /\ op[t].size = Large => Aligned(op[t].va)
         /\ op[t].va \in Within(Pending(t)) /\ Within(Pending(t)) \subseteq VA
         /\ \A a \in Within(Pending(t)) : ~Translates(a)
         /\ \A a : a \in Within(Pending(t)) <=> a \in Nat /\ op[t].va <= a /\ a < op[t].va + op[t].size
  <1>1. Pending(t) \in pins /\ \A a \in Within(Pending(t)) : ~Translates(a)
    BY DEF Hands
  <1>2. Pending(t) \in Page
    BY <1>1 DEF TypeOK
  <1>3. op[t].va \in VA /\ op[t].size \in {1, Large}
    BY <1>2 DEF Pending, Page
  <1>4. Within(Pending(t)) \subseteq VA /\ (op[t].size = Large => Aligned(op[t].va))
    BY <1>1 DEF Addresses, Pending
  <1>5. \A a : a \in Within(Pending(t)) <=> a \in Nat /\ op[t].va <= a /\ a < op[t].va + op[t].size
    BY <1>3, SpanIs, Sizes DEF Pending
  <1>6. op[t].va \in Within(Pending(t))
    BY <1>3, <1>5, Sizes
  <1> QED BY <1>1, <1>2, <1>3, <1>4, <1>5, <1>6

LEMMA NotRefused ==
  ASSUME TypeOK, Shapes, Addresses, NodesRight, Hands, NEW t \in Thread, op[t].pc = "insert"
  PROVE  ~Refuses(op[t].va, op[t].size)
  <1> DEFINE a == op[t].va
             e == root[RegionOf(a)]
  <1>1. /\ a \in VA /\ op[t].size \in {1, Large} /\ ~Translates(a)
        /\ op[t].size = Large => Aligned(a)
        /\ \A b : b \in Within(Pending(t)) <=> b \in Nat /\ a <= b /\ b < a + op[t].size
        /\ \A b \in Within(Pending(t)) : ~Translates(b)
    BY PendingIs
  <1>2. RegionOf(a) \in Region /\ a % Large \in 0 .. Large - 1
    BY <1>1, RegionIs DEF Index
  <1>3. e.is # "page"
    BY <1>1 DEF Translates, InRoot
  <1>4. e.is = "node" => PtoV(e.to) /\ e.to \in Node
    BY <1>2, RootIs DEF NodesRight, Linked, PtoV
  <1>5. \A i \in 0 .. Large - 1 : e.is = "node" => node[e.to][i].is # "node"
    <2>1. ~Replacing(RegionOf(a))
      BY NobodyReplaces DEF Clearing
    <2> QED BY <1>2, <2>1 DEF NodesRight, Linked
  <1>6. e.is = "node" => node[e.to][a % Large] = Absent
    <2>1. SUFFICES ASSUME e.is = "node" PROVE node[e.to][a % Large] = Absent
      OBVIOUS
    <2>2. node[e.to][a % Large].is # "page"
      BY <1>1, <1>4, <2>1 DEF Translates, InNode
    <2> QED BY <1>2, <1>4, <1>5, <2>1, <2>2, NodeIs
  <1>7. e.is = "node" /\ op[t].size = Large => Empty(e.to)
    <2>1. SUFFICES ASSUME e.is = "node", op[t].size = Large, NEW i \in 0 .. Large - 1
                   PROVE  node[e.to][i] = Absent
      BY DEF Empty
    <2>2. a + i \in VA /\ RegionOf(a + i) = RegionOf(a) /\ (a + i) % Large = i
      BY <1>1, <2>1, InLarge
    <2>3. a + i \in Within(Pending(t))
      <3>1. a + i \in Nat /\ a <= a + i /\ a + i < a + Large
        BY <1>1, Sizes
      <3> QED BY <1>1, <2>1, <3>1
    <2>4. ~InNode(a + i)
      BY <1>1, <2>3 DEF Translates
    <2>5. node[e.to][i].is # "page"
      BY <1>4, <2>1, <2>2, <2>4 DEF InNode
    <2> QED BY <1>4, <1>5, <2>1, <2>5, NodeIs
  <1> QED BY <1>3, <1>4, <1>6, <1>7 DEF Refuses

\* A node that is on the free list, or new, is no part of the table.
LEMMA NewNodeIs ==
  ASSUME TypeOK, NodesRight, NEW n \in Node, NewNode(n), \A r \in Region : ~Replacing(r)
  PROVE  /\ \A r \in Region : root[r].is = "node" => root[r].to # n /\ root[r].to \in ptov
         /\ ptov \subseteq ptov' /\ n \in ptov' /\ ptov' \subseteq Node
         /\ ptov' \subseteq ptov \union {n}
         /\ freeList' \in {0} \union Node
  <1>1. CASE freeList # 0
    <2>1. n = freeList /\ node[n][1] = Link(n) /\ freeList' = node[n][0].to /\ UNCHANGED ptov
      BY <1>1 DEF NewNode
    <2>2. OnList(n) /\ node[n][0].is = "node"
      BY <1>1, <2>1 DEF NodesRight, FreeNodes
    <2>3. n \in ptov
      BY <2>2 DEF OnList
    <2>4. node[n][0].to \in {0} \union Node
      BY <2>2, NodeIs, Sizes
    <2>5. \A r \in Region : root[r].is = "node" => root[r].to # n
      <3>1. node[n][1].is = "node" /\ 1 \in 0 .. Large - 1
        BY <2>1, LinkIs, Sizes
      <3> QED BY <3>1 DEF NodesRight, Linked
    <2>6. \A r \in Region : root[r].is = "node" => root[r].to \in ptov
      BY DEF NodesRight, Linked
    <2> QED BY <2>1, <2>3, <2>4, <2>5, <2>6 DEF TypeOK
  <1>2. CASE freeList = 0
    <2>1. n \notin ptov /\ ptov' = ptov \union {n} /\ UNCHANGED freeList
      BY <1>2 DEF NewNode, FreshNode, PtoV, AddPAtoVA
    <2>2. \A r \in Region : root[r].is = "node" => root[r].to \in ptov
      BY DEF NodesRight, Linked
    <2> QED BY <1>2, <2>1, <2>2 DEF TypeOK
  <1> QED BY <1>1, <1>2

LEMMA EnterNew ==
  ASSUME TypeOK, NodesRight, NEW a \in VA, NEW f, root[RegionOf(a)] = Absent, NEW n \in Node, NewNode(n),
         \A r \in Region : ~Replacing(r),
         node' = [node EXCEPT ![n] = [[i \in 0 .. Large - 1 |-> Absent] EXCEPT ![a % Large] = PageEntry(f)]],
         root' = [root EXCEPT ![RegionOf(a)] = Link(n)]
  PROVE  Entered([va |-> a, size |-> 1], f)
  <1>1. RegionOf(a) \in Region /\ a % Large \in 0 .. Large - 1 /\ a \in Nat
    BY RegionIs DEF Index
  <1>2. /\ \A r \in Region : root[r].is = "node" => root[r].to # n /\ root[r].to \in ptov
        /\ ptov \subseteq ptov' /\ n \in ptov'
    BY NewNodeIs
  <1>3. /\ root'[RegionOf(a)] = Link(n)
        /\ \A r \in Region : r # RegionOf(a) => root'[r] = root[r]
        /\ node'[n][a % Large] = PageEntry(f)
        /\ \A i \in 0 .. Large - 1 : i # a % Large => node'[n][i] = Absent
        /\ \A m \in Node : m # n => node'[m] = node[m]
    BY <1>1 DEF TypeOK
  <1>4. SUFFICES ASSUME NEW b \in VA
                 PROVE  IF b \in Within([va |-> a, size |-> 1])
                        THEN Translates(b)' /\ PageOf(b)' = [va |-> a, size |-> 1] /\ EntryOf(b)'.flags = f
                        ELSE Same(b)
    BY DEF Entered
  <1>5. b \in Within([va |-> a, size |-> 1]) <=> b = a
    BY <1>1, Sizes DEF Within, Span
  <1>6. CASE b = a
    <2>1. Translates(b)' /\ ~InRoot(b)'
      BY <1>2, <1>3, <1>6, LinkIs DEF Translates, InRoot, InNode, PtoV
    <2>2. PageOf(b)' = [va |-> a, size |-> 1]
      BY <1>6, <2>1 DEF PageOf
    <2>3. EntryOf(b)'.flags = f
      BY <1>3, <1>6, <2>1, LinkIs DEF EntryOf
    <2> QED BY <1>5, <1>6, <2>1, <2>2, <2>3
  <1>7. CASE b # a /\ RegionOf(b) = RegionOf(a)
    <2>1. b % Large \in 0 .. Large - 1 /\ b % Large # a % Large
      BY <1>7, RegionIs, SameRegion DEF Index
    <2>2. ~Translates(b)
      BY <1>7, LinkIs DEF Translates, InRoot, InNode
    <2>3. ~Translates(b)'
      BY <1>3, <1>7, <2>1, LinkIs DEF Translates, InRoot, InNode
    <2> QED BY <1>5, <1>7, <2>2, <2>3 DEF Same
  <1>8. CASE b # a /\ RegionOf(b) # RegionOf(a)
    <2>1. RegionOf(b) \in Region
      BY RegionIs
    <2>2. root'[RegionOf(b)] = root[RegionOf(b)]
      BY <1>3, <1>8, <2>1
    <2>3. root[RegionOf(b)].is = "node" =>
             LET m == root[RegionOf(b)].to
             IN  (m \in ptov' <=> m \in ptov) /\ node'[m][b % Large] = node[m][b % Large]
      BY <1>2, <1>3, <2>1, RootIs
    <2> QED BY <1>5, <1>8, <2>2, <2>3, SameIf
  <1> QED BY <1>6, <1>7, <1>8

-----------------------------------------------------------------------------
(* The nodes and their free list.                                          *)

\* Small pages stay where they are.
PagesKept ==
    \A r \in Region, m \in Node, i \in 0 .. Large - 1 :
        root[r] = Link(m) /\ node[m][i].is = "page" => root'[r] = Link(m) /\ node'[m][i].is = "page"

\* A node in which one entry changes that is no part of the free list.
LEMMA OneEntry ==
  ASSUME TypeOK, NodesRight, NEW n \in Node, NEW i \in 0 .. Large - 1, NEW e \in Leaf, ~OnList(n),
         node' \in [Node -> [0 .. Large - 1 -> Entry]], node'[n][i] = e,
         \A m \in Node, j \in 0 .. Large - 1 : m # n \/ j # i => node'[m][j] = node[m][j],
         ptov' = ptov, freeList' = freeList
  PROVE  FreeNodes'
  <1>1. e.is # "node"
    BY LinkIs DEF Leaf, Absent
  <1>2. node'[n][i] = e /\ \A m \in Node, j \in 0 .. Large - 1 : m # n \/ j # i => node'[m][j] = node[m][j]
    OBVIOUS
  <1>3. {0, 1} \subseteq 0 .. Large - 1
    BY Sizes
  <1>4. \A m \in Node : OnList(m)' <=> OnList(m)
    <2>1. SUFFICES ASSUME NEW m \in Node PROVE OnList(m)' <=> OnList(m)
      OBVIOUS
    <2>2. CASE m = n
      <3>1. n \notin ptov \/ node[n][1] # Link(n)
        BY DEF OnList
      <3>2. node'[n][1] = e \/ node'[n][1] = node[n][1]
        BY <1>2, <1>3
      <3>3. e # Link(n)
        BY <1>1, LinkIs
      <3> QED BY <2>2, <3>1, <3>2, <3>3 DEF OnList
    <2>3. CASE m # n
      BY <1>2, <1>3, <2>3 DEF OnList
    <2> QED BY <2>2, <2>3
  <1>5. \A m \in Node : OnList(m) => node'[m][0] = node[m][0]
    BY <1>2, <1>3
  <1>6. \A m \in Node : OnList(m) => node[m][0].to \in {0} \union Node
    BY <1>3, NodeIs DEF NodesRight, FreeNodes
  <1>7. freeList \in {0} \union Node
    BY DEF TypeOK
  <1> QED BY <1>2, <1>4, <1>5, <1>6, <1>7 DEF NodesRight, FreeNodes

\* A small page is entered in a node that is there.
LEMMA SmallOld ==
  ASSUME TypeOK, NodesRight, NEW r0 \in Region, NEW k \in 0 .. Large - 1, NEW f \in Flags, NEW n \in Node,
         root[r0] = Link(n), node[n][k] = Absent, \A r \in Region : ~Replacing(r),
         node' = [node EXCEPT ![n][k] = PageEntry(f)], UNCHANGED <<root, ptov, freeList>>
  PROVE  NodesRight' /\ TableOK' /\ PagesKept
  <1>1. PageEntry(f) \in Leaf
    BY EntriesAre
  <1>2. ~OnList(n)
    <2>1. 1 \in 0 .. Large - 1 /\ root[r0].is = "node" /\ root[r0].to = n
      BY LinkIs, Sizes
    <2>2. node[n][1].is # "node"
      BY <2>1 DEF NodesRight, Linked
    <2> QED BY <2>2, LinkIs DEF OnList
  <1>3. TableOK
    BY TableIs
  <1>4. /\ node' \in [Node -> [0 .. Large - 1 -> Entry]]
        /\ node'[n][k] = PageEntry(f)
        /\ \A m \in Node, j \in 0 .. Large - 1 : m # n \/ j # k => node'[m][j] = node[m][j]
    BY <1>3, EntriesAre DEF TableOK
  <1>5. FreeNodes'
    BY <1>1, <1>2, <1>4, OneEntry
  <1>6. Linked'
    <2>1. ASSUME NEW r \in Region, root[r].is = "node", NEW i \in 0 .. Large - 1
          PROVE  node'[root[r].to][i].is # "node"
      <3>1. root[r].to \in Node /\ node[root[r].to][i].is # "node"
        BY <2>1, RootIs DEF NodesRight, Linked
      <3> QED BY <1>4, <3>1, LinkIs
    <2> QED BY <2>1 DEF NodesRight, Linked
  <1>7. PagesKept
    BY <1>4, LinkIs DEF PagesKept
  <1> QED BY <1>5, <1>3, <1>4, <1>6, <1>7 DEF NodesRight, TableOK

\* A small page is entered in a node that is taken from the free list or is new.
LEMMA SmallNew ==
  ASSUME TypeOK, NodesRight, NEW a \in VA, NEW f \in Flags, root[RegionOf(a)] = Absent, NEW n \in Node, NewNode(n),
         \A r \in Region : ~Replacing(r),
         node' = [node EXCEPT ![n] = [[i \in 0 .. Large - 1 |-> Absent] EXCEPT ![a % Large] = PageEntry(f)]],
         root' = [root EXCEPT ![RegionOf(a)] = Link(n)]
  PROVE  NodesRight' /\ TableOK' /\ PagesKept
  <1>1. RegionOf(a) \in Region /\ a % Large \in 0 .. Large - 1
    BY RegionIs DEF Index
  <1>2. /\ \A r \in Region : root[r].is = "node" => root[r].to # n /\ root[r].to \in ptov
        /\ ptov \subseteq ptov' /\ n \in ptov' /\ ptov' \subseteq Node /\ ptov' \subseteq ptov \union {n}
        /\ freeList' \in {0} \union Node
    BY NewNodeIs
  <1> DEFINE fresh == [[i \in 0 .. Large - 1 |-> Absent] EXCEPT ![a % Large] = PageEntry(f)]
  <1>3. fresh \in [0 .. Large - 1 -> Entry] /\ \A i \in 0 .. Large - 1 : fresh[i] \in {Absent, PageEntry(f)}
    BY EntriesAre
  <1>4. node' = [node EXCEPT ![n] = fresh]
    OBVIOUS
  <1> HIDE DEF fresh
  <1>5. TableOK
    BY TableIs
  <1>6. /\ node'[n] = fresh /\ \A m \in Node \ {n} : node'[m] = node[m]
        /\ node' \in [Node -> [0 .. Large - 1 -> Entry]]
    BY <1>3, <1>4, <1>5 DEF TableOK
  <1>7. /\ root'[RegionOf(a)] = Link(n) /\ \A r \in Region \ {RegionOf(a)} : root'[r] = root[r]
        /\ root' \in [Region -> Leaf \union [is : {"node"}, to : Node]]
    BY <1>1, <1>5, EntriesAre DEF TableOK
  <1>8. \A i \in 0 .. Large - 1 : node'[n][i].is # "node" /\ node'[n][i] # Link(n)
    BY <1>3, <1>6, LinkIs
  <1>9. {0, 1} \subseteq 0 .. Large - 1
    BY Sizes
  <1>10. FreeNodes'
    <2>1. ~OnList(n)'
      BY <1>8, <1>9 DEF OnList
    <2>2. \A m \in Node \ {n} : OnList(m)' <=> OnList(m)
      BY <1>2, <1>6, <1>9 DEF OnList
    <2>3. \A m \in Node : OnList(m) => node[m][0].to \in {0} \union Node
      BY <1>9, NodeIs DEF NodesRight, FreeNodes
    <2>4. CASE freeList # 0
      <3>1. n = freeList /\ freeList' = node[n][0].to /\ OnList(n)
        BY <2>4 DEF NewNode, NodesRight, FreeNodes
      <3>2. freeList' # 0 => freeList' \in Node /\ freeList' # n /\ OnList(freeList')
        BY <2>3, <3>1 DEF NodesRight, FreeNodes
      <3>3. freeList' # 0 => OnList(freeList)'
        BY <2>2, <3>2
      <3>4. ASSUME NEW m \in Node, OnList(m)'
            PROVE  /\ m # n /\ OnList(m) /\ node'[m][0] = node[m][0] /\ node[m][0].is = "node"
                   /\ node[m][0].to # 0 => /\ node[m][0].to \in Node /\ OnList(node[m][0].to) /\ node[m][0].to # m
                                           /\ node[m][0].to # n /\ node[m][0].to # freeList'
        <4>1. m # n /\ OnList(m) /\ node'[m][0] = node[m][0]
          BY <1>6, <2>1, <2>2, <3>4
        <4> QED BY <2>3, <3>1, <4>1 DEF NodesRight, FreeNodes
      <3>5. \A m, l \in Node : OnList(m) /\ OnList(l) /\ m # l /\ node[m][0].to # 0 => node[m][0].to # node[l][0].to
        BY DEF NodesRight, FreeNodes
      <3> QED BY <2>2, <3>3, <3>4, <3>5 DEF FreeNodes
    <2>5. CASE freeList = 0
      <3>1. freeList' = 0 /\ n \notin ptov
        BY <2>5 DEF NewNode, FreshNode, PtoV
      <3>2. ASSUME NEW m \in Node, OnList(m)'
            PROVE  /\ m # n /\ OnList(m) /\ node'[m][0] = node[m][0] /\ node[m][0].is = "node"
                   /\ node[m][0].to # 0 => /\ node[m][0].to \in Node /\ OnList(node[m][0].to) /\ node[m][0].to # m
                                           /\ node[m][0].to # n /\ node[m][0].to # freeList'
        <4>1. m # n /\ OnList(m) /\ node'[m][0] = node[m][0]
          BY <1>6, <2>1, <2>2, <3>2
        <4>2. node[m][0].to # 0 => node[m][0].to \in ptov
          BY <4>1 DEF NodesRight, FreeNodes, OnList
        <4> QED BY <2>3, <3>1, <4>1, <4>2 DEF NodesRight, FreeNodes
      <3>3. \A m, l \in Node : OnList(m) /\ OnList(l) /\ m # l /\ node[m][0].to # 0 => node[m][0].to # node[l][0].to
        BY DEF NodesRight, FreeNodes
      <3> QED BY <2>2, <3>1, <3>2, <3>3 DEF FreeNodes
    <2> QED BY <2>4, <2>5
  <1>11. Linked'
    <2>1. \A r \in Region : root'[r].is = "node" => root'[r].to \in ptov'
      BY <1>2, <1>7, LinkIs
    <2>2. ASSUME NEW r \in Region, NEW s \in Region, root'[r].is = "node", root'[r] = root'[s]
          PROVE  r = s
      <3>1. CASE r = RegionOf(a) \/ s = RegionOf(a)
        BY <1>2, <1>7, <2>2, <3>1, LinkIs
      <3>2. CASE r # RegionOf(a) /\ s # RegionOf(a)
        BY <1>7, <2>2, <3>2 DEF NodesRight, Linked
      <3> QED BY <3>1, <3>2
    <2>3. ASSUME NEW r \in Region, root'[r].is = "node", NEW i \in 0 .. Large - 1
          PROVE  node'[root'[r].to][i].is # "node"
      <3>1. CASE r = RegionOf(a)
        BY <1>7, <1>8, <3>1, LinkIs
      <3>2. CASE r # RegionOf(a)
        <4>1. root'[r] = root[r] /\ root[r].to \in Node \ {n}
          BY <1>2, <1>7, <2>3, <3>2, RootIs
        <4> QED BY <1>6, <2>3, <4>1 DEF NodesRight, Linked
      <3> QED BY <3>1, <3>2
    <2> QED BY <2>1, <2>2, <2>3 DEF Linked
  <1>12. PagesKept
    <2>1. SUFFICES ASSUME NEW r \in Region, NEW m \in Node, NEW i \in 0 .. Large - 1,
                          root[r] = Link(m), node[m][i].is = "page"
                   PROVE  root'[r] = Link(m) /\ node'[m][i].is = "page"
      BY DEF PagesKept
    <2>2. r # RegionOf(a) /\ m # n
      BY <1>2, <2>1, LinkIs
    <2> QED BY <1>6, <1>7, <2>1, <2>2
  <1> QED BY <1>2, <1>6, <1>7, <1>10, <1>11, <1>12 DEF NodesRight, TableOK

\* An empty node is put on the free list.
LEMMA Push ==
  ASSUME TypeOK, NodesRight, NEW r0 \in Region, NEW n \in Node, root[r0] = Link(n), Empty(n),
         \A r \in Region : ~Replacing(r), Replacing(r0)',
         node' \in [Node -> [0 .. Large - 1 -> Entry]],
         node'[n][0] = Link(freeList), node'[n][1] = Link(n),
         \A m \in Node, j \in 0 .. Large - 1 : m # n \/ j \notin {0, 1} => node'[m][j] = node[m][j],
         freeList' = n, root' = root, ptov' = ptov
  PROVE  NodesRight' /\ TableOK' /\ PagesKept /\ TableKept
  <1>1. {0, 1} \subseteq 0 .. Large - 1
    BY Sizes
  <1>2. n # 0
    BY NodeNumbers
  <1>3. \A j \in 0 .. Large - 1 : node[n][j] = Absent /\ node[n][j].is = "absent" /\ node'[n][j].is # "page"
    <2>1. \A j \in 0 .. Large - 1 : node[n][j] = Absent
      BY DEF Empty
    <2> QED BY <2>1, LinkIs
  <1>4. n \in ptov
    BY LinkIs DEF NodesRight, Linked
  <1>5. ~OnList(n) /\ OnList(n)'
    BY <1>1, <1>3, <1>4, LinkIs DEF OnList
  <1>6. \A m \in Node \ {n} : OnList(m)' <=> OnList(m)
    BY <1>1 DEF OnList
  <1>7. \A m \in Node : OnList(m) => node[m][0].to \in {0} \union Node
    BY <1>1, NodeIs DEF NodesRight, FreeNodes
  <1>8. freeList # 0 => \E l \in Node \ {n} : l = freeList /\ OnList(l)'
    <2>1. freeList # 0 => freeList \in Node /\ OnList(freeList)
      BY DEF TypeOK, NodesRight, FreeNodes
    <2>2. freeList # 0 => freeList # n
      BY <1>5, <2>1
    <2> QED BY <1>6, <2>1, <2>2
  <1>9. FreeNodes'
    <2>1. ASSUME NEW m \in Node, OnList(m)', m # n
          PROVE  /\ OnList(m) /\ node'[m][0] = node[m][0] /\ node[m][0].is = "node"
                 /\ node[m][0].to # 0 => /\ node[m][0].to \in Node /\ OnList(node[m][0].to) /\ node[m][0].to # m
                                         /\ node[m][0].to # n /\ node[m][0].to # freeList
      <3>1. OnList(m) /\ node'[m][0] = node[m][0]
        BY <1>1, <1>6, <2>1
      <3> QED BY <1>5, <1>7, <3>1 DEF NodesRight, FreeNodes
    <2>2. \A m, l \in Node : OnList(m) /\ OnList(l) /\ m # l /\ node[m][0].to # 0 => node[m][0].to # node[l][0].to
      BY DEF NodesRight, FreeNodes
    <2>3. node'[n][0].is = "node" /\ node'[n][0].to = freeList
      BY LinkIs
    <2>4. \A m \in Node : OnList(m)' =>
             /\ node'[m][0].is = "node"
             /\ node'[m][0].to # 0 =>
                   \E l \in Node : l = node'[m][0].to /\ OnList(l)' /\ l # m /\ l # n
      <3>1. SUFFICES ASSUME NEW m \in Node, OnList(m)'
                     PROVE  /\ node'[m][0].is = "node"
                            /\ node'[m][0].to # 0 =>
                                  \E l \in Node : l = node'[m][0].to /\ OnList(l)' /\ l # m /\ l # n
        OBVIOUS
      <3>2. CASE m = n
        BY <1>8, <2>3, <3>2
      <3>3. CASE m # n
        BY <1>6, <2>1, <3>1, <3>3
      <3> QED BY <3>2, <3>3
    <2>5. ASSUME NEW m \in Node, NEW l \in Node, OnList(m)', OnList(l)', m # l, node'[m][0].to # 0
          PROVE  node'[m][0].to # node'[l][0].to
      <3>1. CASE m # n /\ l # n
        BY <2>1, <2>2, <2>5, <3>1
      <3>2. CASE m = n \/ l = n
        BY <2>1, <2>3, <2>5, <3>2
      <3> QED BY <3>1, <3>2
    <2> QED BY <1>5, <2>4, <2>5 DEF FreeNodes
  <1>10. Linked'
    <2>1. ASSUME NEW r \in Region, root[r].is = "node", r # r0
          PROVE  root[r].to \in Node \ {n}
      <3>1. root[r].to \in Node /\ root[r] = Link(root[r].to)
        BY <2>1, RootIs
      <3> QED BY <2>1, <3>1 DEF NodesRight, Linked
    <2>2. ASSUME NEW r \in Region, root[r].is = "node", r # r0, NEW i \in 0 .. Large - 1
          PROVE  node'[root[r].to][i].is # "node"
      BY <2>1, <2>2 DEF NodesRight, Linked
    <2> QED BY <2>2 DEF NodesRight, Linked
  <1>11. PagesKept
    BY <1>3 DEF PagesKept
  <1>12. TableKept
    <2>1. SUFFICES ASSUME NEW b \in VA PROVE Same(b)
      BY DEF TableKept
    <2>2. RegionOf(b) \in Region /\ b % Large \in 0 .. Large - 1
      BY RegionIs DEF Index
    <2>3. CASE root[RegionOf(b)].is = "node" /\ root[RegionOf(b)].to = n
      <3>1. ~Translates(b)
        BY <1>3, <2>2, <2>3 DEF Translates, InRoot, InNode
      <3>2. ~Translates(b)'
        BY <1>3, <2>2, <2>3 DEF Translates, InRoot, InNode
      <3> QED BY <3>1, <3>2 DEF Same
    <2>4. CASE ~(root[RegionOf(b)].is = "node" /\ root[RegionOf(b)].to = n)
      <3>1. root[RegionOf(b)].is = "node" =>
               LET m == root[RegionOf(b)].to
               IN  (m \in ptov' <=> m \in ptov) /\ node'[m][b % Large] = node[m][b % Large]
        BY <2>2, <2>4, RootIs
      <3> QED BY <3>1, SameIf
    <2> QED BY <2>3, <2>4
  <1>13. TableOK
    BY TableIs
  <1> QED BY <1>9, <1>10, <1>11, <1>12, <1>13 DEF NodesRight, TableOK

\* A large page is entered where there was nothing or an empty node.
LEMMA LargeEntered ==
  ASSUME TypeOK, NodesRight, NEW r0 \in Region, NEW f \in Flags, root[r0].is # "page",
         \A i \in 0 .. Large - 1 : root[r0].is = "node" => node[root[r0].to][i].is # "page",
         \A r \in Region : r # r0 => ~Replacing(r), \A r \in Region : ~Replacing(r)',
         root' = [root EXCEPT ![r0] = PageEntry(f)], UNCHANGED <<node, ptov, freeList>>
  PROVE  NodesRight' /\ TableOK' /\ PagesKept
  <1>1. TableOK
    BY TableIs
  <1>2. /\ root'[r0] = PageEntry(f) /\ \A r \in Region \ {r0} : root'[r] = root[r]
        /\ root' \in [Region -> Leaf \union [is : {"node"}, to : Node]]
    BY <1>1, EntriesAre DEF TableOK
  <1>3. FreeNodes'
    <2>1. \A n \in Node : OnList(n)' <=> OnList(n)
      BY DEF OnList
    <2>2. \A n \in Node : OnList(n) => node[n][0].to \in {0} \union Node
      BY NodeIs, Sizes DEF NodesRight, FreeNodes
    <2>3. freeList \in {0} \union Node
      BY DEF TypeOK
    <2> QED BY <2>1, <2>2, <2>3 DEF NodesRight, FreeNodes
  <1>4. Linked'
    <2>1. \A r \in Region : root'[r].is = "node" => r # r0 /\ root'[r] = root[r]
      BY <1>2, LinkIs
    <2> QED BY <2>1 DEF NodesRight, Linked
  <1>5. PagesKept
    <2>1. SUFFICES ASSUME NEW r \in Region, NEW m \in Node, NEW i \in 0 .. Large - 1,
                          root[r] = Link(m), node[m][i].is = "page"
                   PROVE  root'[r] = Link(m) /\ node'[m][i].is = "page"
      BY DEF PagesKept
    <2>2. r # r0
      BY <2>1, LinkIs
    <2> QED BY <1>2, <2>1, <2>2
  <1> QED BY <1>1, <1>2, <1>3, <1>4, <1>5 DEF NodesRight, TableOK

\* A large page is taken out.
LEMMA LargeDropped ==
  ASSUME TypeOK, NodesRight, NEW r0 \in Region, root[r0].is = "page",
         \A r \in Region : Replacing(r)' <=> Replacing(r),
         root' = [root EXCEPT ![r0] = Absent], UNCHANGED <<node, ptov, freeList>>
  PROVE  NodesRight' /\ TableOK' /\ PagesKept
  <1>1. TableOK
    BY TableIs
  <1>2. /\ root'[r0] = Absent /\ \A r \in Region \ {r0} : root'[r] = root[r]
        /\ root' \in [Region -> Leaf \union [is : {"node"}, to : Node]]
    BY <1>1, EntriesAre DEF TableOK
  <1>3. FreeNodes'
    <2>1. \A n \in Node : OnList(n)' <=> OnList(n)
      BY DEF OnList
    <2>2. \A n \in Node : OnList(n) => node[n][0].to \in {0} \union Node
      BY NodeIs, Sizes DEF NodesRight, FreeNodes
    <2>3. freeList \in {0} \union Node
      BY DEF TypeOK
    <2> QED BY <2>1, <2>2, <2>3 DEF NodesRight, FreeNodes
  <1>4. Linked'
    <2>1. \A r \in Region : root'[r].is = "node" => r # r0 /\ root'[r] = root[r]
      BY <1>2, LinkIs
    <2> QED BY <2>1 DEF NodesRight, Linked
  <1>5. PagesKept
    <2>1. SUFFICES ASSUME NEW r \in Region, NEW m \in Node, NEW i \in 0 .. Large - 1,
                          root[r] = Link(m), node[m][i].is = "page"
                   PROVE  root'[r] = Link(m) /\ node'[m][i].is = "page"
      BY DEF PagesKept
    <2>2. r # r0
      BY <2>1, LinkIs
    <2> QED BY <1>2, <2>1, <2>2
  <1> QED BY <1>1, <1>2, <1>3, <1>4, <1>5 DEF NodesRight, TableOK

\* A small page is taken out.
LEMMA SmallDropped ==
  ASSUME TypeOK, NodesRight, NEW n \in Node, NEW k \in 0 .. Large - 1, node[n][k].is = "page",
         \A r \in Region : Replacing(r)' <=> Replacing(r),
         node' = [node EXCEPT ![n][k] = Absent], UNCHANGED <<root, ptov, freeList>>
  PROVE  /\ NodesRight' /\ TableOK'
         /\ \A m \in Node, j \in 0 .. Large - 1 : m # n \/ j # k => node'[m][j] = node[m][j]
  <1>1. TableOK
    BY TableIs
  <1>2. /\ node' \in [Node -> [0 .. Large - 1 -> Entry]] /\ node'[n][k] = Absent
        /\ \A m \in Node, j \in 0 .. Large - 1 : m # n \/ j # k => node'[m][j] = node[m][j]
    BY <1>1, EntriesAre DEF TableOK
  <1>3. {0, 1} \subseteq 0 .. Large - 1
    BY Sizes
  <1>4. \A m \in Node : OnList(m)' <=> OnList(m)
    <2>1. SUFFICES ASSUME NEW m \in Node PROVE OnList(m)' <=> OnList(m)
      OBVIOUS
    <2>2. CASE m = n /\ k = 1
      BY <1>2, <2>2, LinkIs DEF OnList
    <2>3. CASE m # n \/ k # 1
      <3>1. node'[m][1] = node[m][1]
        BY <1>2, <1>3, <2>3
      <3> QED BY <3>1 DEF OnList
    <2> QED BY <2>2, <2>3
  <1>5. \A m \in Node : OnList(m) => node'[m][0] = node[m][0]
    <2>1. SUFFICES ASSUME NEW m \in Node, OnList(m) PROVE node'[m][0] = node[m][0]
      OBVIOUS
    <2>2. node[m][0].is = "node"
      BY <2>1 DEF NodesRight, FreeNodes
    <2>3. m # n \/ k # 0
      BY <2>2
    <2> QED BY <1>2, <1>3, <2>3
  <1>6. FreeNodes'
    <2>1. \A m \in Node : OnList(m) => node[m][0].to \in {0} \union Node
      BY <1>3, NodeIs DEF NodesRight, FreeNodes
    <2>2. freeList \in {0} \union Node
      BY DEF TypeOK
    <2> QED BY <1>4, <1>5, <2>1, <2>2 DEF NodesRight, FreeNodes
  <1>7. Linked'
    <2>1. ASSUME NEW r \in Region, root[r].is = "node", ~Replacing(r), NEW i \in 0 .. Large - 1
          PROVE  node'[root[r].to][i].is # "node"
      <3>1. root[r].to \in Node /\ node[root[r].to][i].is # "node"
        BY <2>1, RootIs DEF NodesRight, Linked
      <3> QED BY <1>2, <3>1, LinkIs
    <2> QED BY <2>1 DEF NodesRight, Linked
  <1> QED BY <1>1, <1>2, <1>6, <1>7 DEF NodesRight, TableOK

-----------------------------------------------------------------------------
(* The steps of bufferAllocate that pin and enter a page.                  *)

LEMMA SameReplacing ==
  ASSUME NEW t \in Thread, Others(t), op[t].pc # "replace", op'[t].pc # "replace", NEW r
  PROVE  Replacing(r)' <=> Replacing(r)
  BY DEF Others, Replacing

\* A large page could not be had.
FallsBack(t, reason) ==
    /\ op[t].size = Large /\ Moves(t, "restore") /\ why' = why \union {reason}
    /\ UNCHANGED <<service, hw, lock, vm, pins, table, bufs>>

LEMMA PageFailsIs ==
  ASSUME TypeOK, NEW t \in Thread, NEW reason, PageFails(t, reason),
         UNCHANGED <<service, hw, vm, pins, table, bufs>>
  PROVE  FallsBack(t, reason) \/ Abandons(t, reason)
  <1>1. CASE op[t].size = Large
    BY <1>1, GotoIs DEF PageFails, FallsBack
  <1>2. CASE op[t].size # Large
    BY <1>2, FailsIs DEF PageFails, Abandons
  <1> QED BY <1>1, <1>2

PinDoes(t) ==
    /\ AllFree(Within(Pending(t))) /\ Uses(Within(Pending(t)), "ali") /\ pins' = pins \union {Pending(t)}
    /\ Moves(t, "insert") /\ UNCHANGED <<lock, why, count>>

LEMMA PinStep ==
  ASSUME TypeOK, NEW t \in Thread, Pin(t)
  PROVE  /\ op[t].pc = "pin" /\ UNCHANGED <<service, hw, table, bufs>>
         /\ \/ PinDoes(t)
            \/ \E reason \in {"taken", "refused"} : FallsBack(t, reason) \/ Abandons(t, reason)
  <1>1. op[t].pc = "pin" /\ UNCHANGED <<service, hw, table, bufs>>
    BY DEF Pin, At
  <1> DEFINE hole == Span(op[t].va, op[t].size)
  <1>2. hole = Within(Pending(t))
    BY DEF Within, Pending
  <1>3. CASE /\ AllFree(hole) /\ Uses(hole, "ali")
             /\ pins' = pins \union {[va |-> op[t].va, size |-> op[t].size]}
             /\ Goto(t, "insert") /\ NoFault /\ UNCHANGED <<lock, why>>
    BY <1>1, <1>2, <1>3, GotoIs DEF PinDoes, Pending, NoFault
  <1>4. CASE PageFails(t, "taken") /\ UNCHANGED <<vm, pins>>
    BY <1>1, <1>4, PageFailsIs
  <1>5. CASE PageFails(t, "refused") /\ UNCHANGED <<vm, pins>>
    BY <1>1, <1>5, PageFailsIs
  <1> QED BY <1>3, <1>4, <1>5 DEF Pin

InsertDoes(t) ==
    /\ Moves(t, "next") /\ Entered(Pending(t), op[t].flags)
    /\ NodesRight' /\ TableOK' /\ PagesKept
    /\ UNCHANGED <<service, hw, lock, vm, pins, bufs, why, count>>

PushDoes(t) ==
    /\ Moves(t, "replace") /\ TableKept /\ op[t].size = Large
    /\ \E n \in Node : freeList' = n /\ n # 0 /\ root'[RegionOf(op[t].va)] = Link(n)
    /\ NodesRight' /\ TableOK' /\ PagesKept
    /\ UNCHANGED <<service, hw, lock, vm, pins, bufs, why, count>>

LEMMA InsertStep ==
  ASSUME TypeOK, Shapes, Addresses, NodesRight, Hands, NEW t \in Thread, Insert(t)
  PROVE  op[t].pc = "insert" /\ (InsertDoes(t) \/ PushDoes(t))
  <1>1. op[t].pc = "insert" /\ UNCHANGED <<service, hw, vm, pins, bufs, count>>
    BY DEF Insert, At
  <1> DEFINE a == op[t].va
             e == root[RegionOf(a)]
             r == RegionOf(a)
             k == a % Large
  <1>2. /\ a \in VA /\ op[t].size \in {1, Large} /\ (op[t].size = Large => Aligned(a))
        /\ Pending(t) = [va |-> a, size |-> op[t].size]
    BY <1>1, PendingIs DEF Pending
  <1>3. ~Refuses(a, op[t].size)
    BY <1>1, NotRefused
  <1>4. \A s : ~Replacing(s)
    BY <1>1, NobodyReplaces DEF Clearing
  <1>5. r \in Region /\ k \in 0 .. Large - 1 /\ op[t].flags \in Flags
    BY <1>2, RegionIs, CallIs DEF Index
  <1>6. /\ Moves(t, "next") /\ lock' = lock /\ why' = why /\ Entered(Pending(t), op[t].flags)
        /\ (\A s \in Region : ~Replacing(s)') => NodesRight' /\ TableOK' /\ PagesKept
        => InsertDoes(t)
    <2> HAVE /\ Moves(t, "next") /\ lock' = lock /\ why' = why /\ Entered(Pending(t), op[t].flags)
             /\ (\A s \in Region : ~Replacing(s)') => NodesRight' /\ TableOK' /\ PagesKept
    <2>1. \A s \in Region : ~Replacing(s)'
      BY <1>1, <1>4, SameReplacing DEF Moves
    <2> QED BY <1>1, <2>1 DEF InsertDoes
  <1>7. CASE /\ op[t].size = 1 /\ InsertSmall(a, op[t].flags) /\ Goto(t, "next") /\ UNCHANGED <<lock, why>>
    <2>1. CASE /\ e = Absent
               /\ \E n \in Node :
                     /\ NewNode(n)
                     /\ node' = [node EXCEPT ![n] = [[i \in 0 .. Large - 1 |-> Absent]
                                                        EXCEPT ![a % Large] = PageEntry(op[t].flags)]]
                     /\ root' = [root EXCEPT ![RegionOf(a)] = Link(n)]
      <3>1. PICK n \in Node :
                     /\ NewNode(n)
                     /\ node' = [node EXCEPT ![n] = [[i \in 0 .. Large - 1 |-> Absent]
                                                        EXCEPT ![a % Large] = PageEntry(op[t].flags)]]
                     /\ root' = [root EXCEPT ![RegionOf(a)] = Link(n)]
        BY <2>1
      <3>2. Entered([va |-> a, size |-> 1], op[t].flags)
        BY <1>2, <1>4, <2>1, <3>1, EnterNew
      <3>3. NodesRight' /\ TableOK' /\ PagesKept
        BY <1>2, <1>4, <1>5, <2>1, <3>1, SmallNew
      <3>4. Entered(Pending(t), op[t].flags)
        BY <1>2, <1>7, <3>2
      <3>5. Moves(t, "next") /\ lock' = lock /\ why' = why
        BY <1>7, GotoIs
      <3> HIDE DEF a, e, r, k
      <3> QED BY <1>1, <1>6, <3>3, <3>4, <3>5
    <2>2. CASE /\ e.is = "node" /\ PtoV(e.to) /\ node[e.to][a % Large] = Absent
               /\ node' = [node EXCEPT ![e.to][a % Large] = PageEntry(op[t].flags)]
               /\ UNCHANGED <<root, ptov, freeList>>
      <3>1. e.to \in Node /\ e = Link(e.to)
        BY <1>5, <2>2, RootIs
      <3>2. Entered([va |-> a, size |-> 1], op[t].flags)
        BY <1>2, <2>2, EnterNode DEF NodesRight
      <3>3. NodesRight' /\ TableOK' /\ PagesKept
        BY <1>4, <1>5, <2>2, <3>1, SmallOld
      <3>4. Entered(Pending(t), op[t].flags)
        BY <1>2, <1>7, <3>2
      <3>5. Moves(t, "next") /\ lock' = lock /\ why' = why
        BY <1>7, GotoIs
      <3> HIDE DEF a, e, r, k
      <3> QED BY <1>1, <1>6, <3>3, <3>4, <3>5
    <2> QED BY <1>7, <2>1, <2>2 DEF InsertSmall
  <1>8. CASE /\ e = Absent /\ op[t].size = Large
             /\ root' = [root EXCEPT ![RegionOf(a)] = PageEntry(op[t].flags)]
             /\ Goto(t, "next") /\ UNCHANGED <<lock, why, node, ptov, freeList>>
    <2>1. Entered([va |-> a, size |-> Large], op[t].flags)
      BY <1>2, <1>8, EnterRoot
    <2>2. (\A s \in Region : ~Replacing(s)') => NodesRight' /\ TableOK' /\ PagesKept
      <3>1. e.is = "absent"
        BY <1>8, LinkIs
      <3> QED BY <1>4, <1>5, <1>8, <3>1, LargeEntered
    <2>3. Entered(Pending(t), op[t].flags)
      BY <1>2, <1>8, <2>1
    <2>4. Moves(t, "next") /\ lock' = lock /\ why' = why
      BY <1>8, GotoIs
    <2> HIDE DEF a, e, r, k
    <2> QED BY <1>1, <1>6, <2>2, <2>3, <2>4
  <1>9. CASE /\ ~Refuses(a, op[t].size) /\ op[t].size = Large /\ e.is = "node"
             /\ node' = [node EXCEPT ![e.to][0] = Link(freeList), ![e.to][1] = Link(e.to)]
             /\ freeList' = e.to
             /\ Goto(t, "replace") /\ UNCHANGED <<lock, why, root, ptov>>
    <2>1. e.to \in Node /\ e = Link(e.to) /\ e.to # 0
      BY <1>5, <1>9, RootIs, NodeNumbers
    <2>2. Empty(e.to)
      BY <1>9 DEF Refuses
    <2>3. Moves(t, "replace")
      BY <1>9, GotoIs
    <2>4. PICK s \in Region : s = r /\ Replacing(s)'
      <3>1. PICK s \in Region : s = r
        BY <1>5
      <3>2. op'[t].pc = "replace" /\ RegionOf(op'[t].va) = s
        BY <2>3, <3>1 DEF Moves
      <3>3. Replacing(s)'
        BY <3>2 DEF Replacing
      <3> QED BY <3>1, <3>3
    <2> DEFINE n == e.to
    <2>5. TableOK /\ Link(freeList) \in Entry /\ Link(n) \in Entry /\ {0, 1} \subseteq 0 .. Large - 1
      <3>1. freeList \in {0} \union Node
        BY DEF TypeOK
      <3>2. Link(freeList) \in Entry /\ Link(n) \in Entry
        BY <2>1, <3>1, EntriesAre
      <3>3. {0, 1} \subseteq 0 .. Large - 1
        BY Sizes
      <3> QED BY <3>2, <3>3, TableIs
    <2>6. /\ node' \in [Node -> [0 .. Large - 1 -> Entry]]
          /\ node'[n][0] = Link(freeList) /\ node'[n][1] = Link(n)
          /\ \A m \in Node, j \in 0 .. Large - 1 : m # n \/ j \notin {0, 1} => node'[m][j] = node[m][j]
      <3>1. node' = [node EXCEPT ![n][0] = Link(freeList), ![n][1] = Link(n)]
        BY <1>9
      <3>2. n \in Node /\ node \in [Node -> [0 .. Large - 1 -> Entry]]
        BY <2>1, <2>5 DEF TableOK
      <3> HIDE DEF n
      <3>3. node'[n] = [node[n] EXCEPT ![0] = Link(freeList), ![1] = Link(n)] /\ \A m \in Node \ {n} : node'[m] = node[m]
        BY <3>1, <3>2
      <3>4. node'[n] \in [0 .. Large - 1 -> Entry]
        <4>1. node[n] \in [0 .. Large - 1 -> Entry]
          BY <3>2
        <4> QED BY <2>5, <3>3, <4>1
      <3>5. node' \in [Node -> [0 .. Large - 1 -> Entry]]
        BY <3>1, <3>2, <3>4
      <3>6. node'[n][0] = Link(freeList) /\ node'[n][1] = Link(n)
        <4>1. node[n] \in [0 .. Large - 1 -> Entry] /\ 0 \in 0 .. Large - 1 /\ 1 \in 0 .. Large - 1 /\ 0 # 1
          BY <2>5, <3>2
        <4> QED BY <3>3, <4>1
      <3>7. \A j \in 0 .. Large - 1 : j \notin {0, 1} => node'[n][j] = node[n][j]
        BY <3>2, <3>3
      <3> QED BY <3>3, <3>5, <3>6, <3>7
    <2>7. NodesRight' /\ TableOK' /\ PagesKept /\ TableKept
      <3>1. root[s] = Link(n) /\ freeList' = n /\ root' = root /\ ptov' = ptov /\ n \in Node /\ Empty(n)
        BY <1>9, <2>1, <2>2, <2>4
      <3> HIDE DEF n, r
      <3> QED BY <1>4, <1>5, <2>4, <2>6, <3>1, Push
    <2>8. root'[RegionOf(op[t].va)] = Link(n) /\ freeList' = n
      BY <1>9, <2>1
    <2> QED BY <1>1, <1>9, <2>1, <2>3, <2>7, <2>8 DEF PushDoes
  <1> QED BY <1>1, <1>3, <1>7, <1>8, <1>9 DEF Insert

LEMMA ReplaceStep ==
  ASSUME TypeOK, Shapes, Addresses, NodesRight, Hands, NEW t \in Thread, Replace(t)
  PROVE  op[t].pc = "replace" /\ InsertDoes(t)
  <1>1. /\ op[t].pc = "replace" /\ UNCHANGED <<service, hw, lock, vm, pins, node, ptov, freeList, bufs, why, count>>
        /\ root' = [root EXCEPT ![RegionOf(op[t].va)] = PageEntry(op[t].flags)]
    BY DEF Replace, At
  <1>2. Moves(t, "next")
    BY GotoIs DEF Replace
  <1> DEFINE a == op[t].va
             r == RegionOf(a)
  <1>3. op[t].size = Large
    <2>1. InAlloc(t)
      BY <1>1 DEF InAlloc, Making
    <2> QED BY <1>1, <2>1 DEF Shapes, Shaped, InAlloc, AllocShape
  <1>4. a \in VA /\ Aligned(a) /\ Pending(t) = [va |-> a, size |-> Large]
    BY <1>1, <1>3, PendingIs DEF Pending
  <1>5. /\ \A b \in Within(Pending(t)) : ~Translates(b)
        /\ \A b : b \in Within(Pending(t)) <=> b \in Nat /\ a <= b /\ b < a + Large
    BY <1>1, <1>3, PendingIs
  <1>6. r \in Region /\ op[t].flags \in Flags
    BY <1>4, RegionIs, CallIs
  <1>7. root[r] = Link(freeList)
    BY <1>1 DEF Hands
  <1>8. root[r].is = "node" /\ root[r].to \in Node /\ PtoV(root[r].to)
    BY <1>6, <1>7, LinkIs, RootIs DEF NodesRight, Linked, PtoV
  <1>9. \A i \in 0 .. Large - 1 : node[root[r].to][i].is # "page"
    <2>1. SUFFICES ASSUME NEW i \in 0 .. Large - 1 PROVE node[root[r].to][i].is # "page"
      OBVIOUS
    <2>2. a + i \in VA /\ RegionOf(a + i) = RegionOf(a) /\ (a + i) % Large = i
      BY <1>4, InLarge
    <2>3. a + i \in Within(Pending(t))
      <3>1. a + i \in Nat /\ a <= a + i /\ a + i < a + Large
        BY <1>4, Sizes
      <3> QED BY <1>5, <3>1
    <2>4. ~InNode(a + i)
      BY <1>5, <2>3 DEF Translates
    <2> QED BY <1>8, <2>2, <2>4 DEF InNode
  <1>10. \A s \in Region : s # r => ~Replacing(s)
    BY <1>1, OneAllocates DEF Replacing, Clearing
  <1>11. \A s \in Region : ~Replacing(s)'
    <2>1. SUFFICES ASSUME NEW s \in Region, NEW u \in Thread, op'[u].pc = "replace" PROVE FALSE
      BY DEF Replacing
    <2>2. u # t /\ op[u].pc = "replace"
      BY <1>2, <2>1 DEF Moves, Others
    <2> QED BY <1>1, <2>2, OneAllocates DEF Clearing
  <1>12. NodesRight' /\ TableOK' /\ PagesKept
    BY <1>1, <1>6, <1>8, <1>9, <1>10, <1>11, LargeEntered
  <1>13. Entered(Pending(t), op[t].flags)
    BY <1>1, <1>4, EnterRoot
  <1> QED BY <1>1, <1>2, <1>12, <1>13 DEF InsertDoes

-----------------------------------------------------------------------------
(* The other steps of bufferAllocate.                                      *)

Made(t) == [base |-> op[t].va, len |-> op[t].whole, fell |-> op[t].fell]

ContinueDoes(t) ==
    /\ op[t].size < op[t].left
    /\ Others(t) /\ op'[t].pc = "shrink" /\ op'[t].left = op[t].left - op[t].size /\ op'[t].flags = NoFlags
    /\ op'[t].va = op[t].va /\ op'[t].base = op[t].base /\ op'[t].len = op[t].len
    /\ op'[t].whole = op[t].whole /\ op'[t].fell = op[t].fell /\ op'[t].buf = op[t].buf
    /\ UNCHANGED <<lock, vm, bufs>>

FinishDoes(t) ==
    /\ op[t].left = op[t].size /\ Made(t) \in Buffer /\ op[t].va = From(op[t]) /\ End(Made(t)) = To(op[t])
    /\ From(op[t]) < To(op[t])
    /\ Ends(t) /\ lock' = Free /\ Uses(Span(op[t].base, op[t].len), "free") /\ bufs' = bufs \union {Made(t)}

LEMMA NextStep ==
  ASSUME TypeOK, Shapes, NEW t \in Thread, NextPage(t)
  PROVE  /\ op[t].pc = "next" /\ UNCHANGED <<service, hw, pins, table, why, count>>
         /\ ContinueDoes(t) \/ FinishDoes(t)
  <1>1. op[t].pc = "next" /\ UNCHANGED <<service, hw, pins, table, why, count>>
    BY DEF NextPage, At
  <1>2. InAlloc(t)
    BY <1>1 DEF InAlloc, Making
  <1>3. /\ op[t].va \in Nat /\ op[t].size \in Nat /\ op[t].left \in Nat /\ op[t].whole \in Nat /\ op[t].fell \in BOOLEAN
        /\ op[t].size \in {1, Large} /\ op[t].size <= op[t].left /\ op[t].left <= op[t].whole /\ op[t].left > 0
        /\ Bottom(op[t]) + op[t].left = op[t].va + op[t].size /\ Bottom(op[t]) \in Nat
        /\ To(op[t]) = Bottom(op[t]) + op[t].whole /\ To(op[t]) <= Size /\ From(op[t]) = op[t].va
    BY <1>1, <1>2, CallIs, AllocIs
  <1>4. PICK left \in Nat : left = op[t].left - op[t].size
    BY <1>3
  <1>5. CASE left > 0
    <2>1. /\ op' = [op EXCEPT ![t].pc = "shrink", ![t].left = left, ![t].flags = NoFlags]
          /\ UNCHANGED <<lock, vm, bufs>>
      BY <1>4, <1>5 DEF NextPage
    <2>2. /\ Others(t) /\ op'[t].pc = "shrink" /\ op'[t].left = left /\ op'[t].flags = NoFlags
          /\ op'[t].va = op[t].va /\ op'[t].base = op[t].base /\ op'[t].len = op[t].len
          /\ op'[t].whole = op[t].whole /\ op'[t].fell = op[t].fell /\ op'[t].buf = op[t].buf
      BY <2>1, NextIs
    <2>3. op[t].size < op[t].left
      BY <1>3, <1>4, <1>5
    <2>4. ContinueDoes(t)
      BY <1>4, <2>1, <2>2, <2>3 DEF ContinueDoes
    <2> QED BY <1>1, <2>4
  <1>6. CASE ~(left > 0)
    <2>1. /\ op' = [op EXCEPT ![t] = Idle] /\ lock' = Free
          /\ Uses(Span(op[t].base, op[t].len), "free") /\ bufs' = bufs \union {Made(t)}
      BY <1>4, <1>6 DEF NextPage, Made
    <2>2. op[t].left = op[t].size
      BY <1>3, <1>4, <1>6
    <2>3. Bottom(op[t]) = op[t].va /\ To(op[t]) = op[t].va + op[t].whole /\ op[t].whole > 0
      BY <1>3, <2>2
    <2>4. Made(t).base = op[t].va /\ Made(t).len = op[t].whole
      BY DEF Made
    <2>5. Made(t) \in Buffer
      <3>1. op[t].va \in 0 .. Size - 1 /\ op[t].whole \in 1 .. Size
        BY <1>3, <2>3, Sizes
      <3> QED BY <1>3, <3>1 DEF Made, Buffer, VA, Size
    <2>6. End(Made(t)) = To(op[t])
      BY <2>3, <2>4 DEF End
    <2>7. op[t].va = From(op[t]) /\ From(op[t]) < To(op[t])
      BY <1>3, <2>3
    <2>8. Ends(t)
      BY <2>1, EndIs
    <2>9. FinishDoes(t)
      BY <2>1, <2>2, <2>5, <2>6, <2>7, <2>8 DEF FinishDoes
    <2> QED BY <1>1, <2>9
  <1> QED BY <1>5, <1>6

RestoreDoes(t) ==
    /\ op[t].len = 0 \/ AllFree(Span(op[t].va, Large))
    /\ op[t].size = Large /\ Span(op[t].va, Large) \subseteq VA
    /\ Uses(Span(op[t].va, Large), "reserved")
    /\ Others(t) /\ op'[t].pc = "shrink" /\ op'[t].fell /\ op'[t].base = op[t].base
    /\ op'[t].len = op[t].len + Large /\ op'[t].va = op[t].va + Large
    /\ op'[t].flags = op[t].flags /\ op'[t].left = op[t].left /\ op'[t].whole = op[t].whole
    /\ op'[t].buf = op[t].buf
    /\ UNCHANGED <<lock, why>>

LEMMA RestoreStep ==
  ASSUME TypeOK, Shapes, NEW t \in Thread, Restore(t)
  PROVE  /\ op[t].pc = "restore" /\ UNCHANGED <<service, hw, pins, table, bufs, count>>
         /\ Abandons(t, "grow") \/ RestoreDoes(t)
  <1>1. op[t].pc = "restore" /\ UNCHANGED <<service, hw, pins, table, bufs, count>>
    BY DEF Restore, At
  <1>2. InAlloc(t)
    BY <1>1 DEF InAlloc, Making
  <1>3. /\ op[t].va \in Nat /\ op[t].size \in Nat /\ op[t].left \in Nat /\ op[t].whole \in Nat
        /\ op[t].base + op[t].len = op[t].va
        /\ From(op[t]) = op[t].va + op[t].size /\ From(op[t]) <= To(op[t]) /\ To(op[t]) <= Size
        /\ To(op[t]) \in Nat
    BY <1>1, <1>2, CallIs, AllocIs
  <1>4. op[t].size = Large
    BY <1>1, <1>2 DEF Shapes, Shaped, InAlloc, AllocShape
  <1>5. op[t].va + Large <= Size
    BY <1>3, <1>4, Sizes
  <1>6. CASE op[t].len = 0 \/ AllFree(Span(op[t].va, Large))
    <2>1. /\ Uses(Span(op[t].va, Large), "reserved")
          /\ op' = [op EXCEPT ![t].pc = "shrink", ![t].fell = TRUE, ![t].len = @ + Large,
                              ![t].va = @ + Large, ![t].base = IF op[t].len = 0 THEN op[t].va ELSE @]
          /\ UNCHANGED <<lock, why>>
      BY <1>6 DEF Restore
    <2>2. /\ Others(t) /\ op'[t].pc = "shrink" /\ op'[t].fell /\ op'[t].base = op[t].base
          /\ op'[t].len = op[t].len + Large /\ op'[t].va = op[t].va + Large
          /\ op'[t].flags = op[t].flags /\ op'[t].left = op[t].left /\ op'[t].whole = op[t].whole
          /\ op'[t].buf = op[t].buf
      BY <1>3, <1>5, <2>1, RestoreIs
    <2>3. Span(op[t].va, Large) \subseteq VA
      <3>1. \A a \in Span(op[t].va, Large) : a \in Nat /\ a < op[t].va + Large
        BY <1>3, Sizes DEF Span
      <3> QED BY <1>3, <1>5, <3>1, Sizes
    <2>4. RestoreDoes(t)
      BY <1>4, <1>6, <2>1, <2>2, <2>3 DEF RestoreDoes
    <2> QED BY <1>1, <2>4
  <1>7. CASE ~(op[t].len = 0 \/ AllFree(Span(op[t].va, Large)))
    <2>1. Fails(t, "grow") /\ UNCHANGED vm
      BY <1>7 DEF Restore
    <2> QED BY <1>1, <2>1, FailsIs DEF Abandons
  <1> QED BY <1>6, <1>7

-----------------------------------------------------------------------------
(* The steps of bufferFree.                                                *)

\* A call of bufferFree gives up.
Leaves(t, reason) ==
    /\ Ends(t) /\ bufs' = bufs \ {op[t].buf} /\ why' = why \union {reason}
    /\ UNCHANGED <<service, hw, lock, vm, pins, table>>

LEMMA StopsIs ==
  ASSUME TypeOK, NEW t \in Thread, NEW reason, Stops(t, reason)
  PROVE  Ends(t) /\ bufs' = bufs \ {op[t].buf} /\ why' = why \union {reason}
  BY EndIs DEF Stops

\* The walk finds the next page of its buffer.
LEMMA WalkFinds ==
  ASSUME TypeOK, Shapes, Claims, NEW t \in Thread, op[t].pc \in {"walk", "leaf"}
  PROVE  /\ op[t].va \in VA /\ Translates(op[t].va) /\ PageOf(op[t].va).va = op[t].va
         /\ From(op[t]) = op[t].va /\ op[t].va + PageOf(op[t].va).size <= To(op[t])
         /\ EntryOf(op[t].va).flags.end <=> op[t].va + PageOf(op[t].va).size = To(op[t])
         /\ EntryOf(op[t].va).flags \in Flags /\ To(op[t]) = End(op[t].buf)
         /\ op[t].va \in Owned(t) /\ Within(PageOf(op[t].va)) \subseteq Owned(t)
  <1> DEFINE a == op[t].va
  <1>1. InFree(t)
    BY DEF InFree, Clearing
  <1>2. /\ From(op[t]) = a /\ a < To(op[t]) /\ To(op[t]) \in Nat /\ To(op[t]) <= Size /\ To(op[t]) = End(op[t].buf)
        /\ a \in Nat
    BY <1>1, FreeIs, CallIs
  <1>3. a \in VA /\ a \in From(op[t]) .. To(op[t]) - 1
    BY <1>2, Sizes
  <1>4. Run(From(op[t]), To(op[t]))
    BY DEF Claims
  <1>5. /\ Translates(a) /\ From(op[t]) <= PageOf(a).va /\ PageOf(a).va + PageOf(a).size <= To(op[t])
        /\ EntryOf(a).flags.end <=> PageOf(a).va + PageOf(a).size = To(op[t])
    BY <1>3, <1>4 DEF Run
  <1>6. PageOf(a).va \in Nat /\ PageOf(a).va <= a /\ PageOf(a).size \in Nat
    BY <1>3, PageIs, Sizes
  <1>7. PageOf(a).va = a
    BY <1>2, <1>5, <1>6
  <1>8. EntryOf(a).flags \in Flags
    BY <1>3, <1>5, EntryIs
  <1>9. Within(PageOf(a)) \subseteq Owned(t)
    BY <1>2, <1>5, <1>6, <1>7 DEF Within, Span, Owned
  <1> QED BY <1>2, <1>3, <1>5, <1>7, <1>8, <1>9 DEF Owned

\* The nodes stay where they are.
LinksKept == freeList' = freeList /\ \A r \in Region : root[r].is = "node" => root'[r] = root[r]

Takes(t) ==
    LET p == PageOf(op[t].va)
    IN  /\ Others(t) /\ op'[t].pc = "inval" /\ op'[t].va = op[t].va /\ op'[t].size = p.size
        /\ op'[t].buf = op[t].buf /\ op'[t].flags = EntryOf(op[t].va).flags
        /\ Dropped(p) /\ NodesRight' /\ TableOK' /\ LeavesKept(t) /\ LinksKept
        /\ UNCHANGED <<service, hw, lock, vm, pins, bufs, why, count>>

Descends(t) ==
    /\ Others(t) /\ op'[t].pc = "leaf" /\ op'[t].va = op[t].va /\ op'[t].buf = op[t].buf
    /\ root[RegionOf(op[t].va)] = Link(op'[t].node) /\ node[op'[t].node][op[t].va % Large].is = "page"
    /\ UNCHANGED <<service, hw, lock, vm, pins, table, bufs, why, count>>

LEMMA LeavesAre ==
  ASSUME TypeOK, Shapes, NEW t \in Thread, PagesKept, \A u \in Thread \ {t} : op[u].pc = "leaf" => AtLeaf(u)
  PROVE  LeavesKept(t)
  <1>1. SUFFICES ASSUME NEW u \in Thread \ {t}, op[u].pc = "leaf"
                 PROVE  /\ root'[RegionOf(op[u].va)] = Link(op[u].node)
                        /\ node'[op[u].node][op[u].va % Large].is = "page"
    BY DEF LeavesKept
  <1>2. AtLeaf(u)
    BY <1>1
  <1>3. op[u].va \in VA
    <2>1. InFree(u)
      BY <1>1 DEF InFree, Clearing
    <2>2. op[u].va \in Nat /\ op[u].va < To(op[u]) /\ To(op[u]) \in Nat /\ To(op[u]) <= Size
      BY <1>1, <2>1, FreeIs, CallIs
    <2> QED BY <2>2, Sizes
  <1>4. PICK r \in Region, i \in 0 .. Large - 1 : r = RegionOf(op[u].va) /\ i = op[u].va % Large
    BY <1>3, RegionIs DEF Index
  <1>5. root[r] = Link(op[u].node) /\ node[op[u].node][i].is = "page"
    BY <1>2, <1>4 DEF AtLeaf
  <1>6. op[u].node \in Node
    BY <1>5, LinkIs, RootIs
  <1> QED BY <1>4, <1>5, <1>6 DEF PagesKept

LEMMA WalkStep ==
  ASSUME TypeOK, Shapes, NodesRight, Claims, Hands, NEW t \in Thread, Walk(t)
  PROVE  op[t].pc = "walk" /\ (Takes(t) \/ Descends(t))
  <1> DEFINE a == op[t].va
             e == root[RegionOf(a)]
             r == RegionOf(a)
  <1>1. op[t].pc = "walk" /\ UNCHANGED <<service, hw, lock, vm, pins, node, ptov, freeList, count>>
    BY DEF Walk, At
  <1>2. a \in VA /\ Translates(a) /\ PageOf(a).va = a /\ EntryOf(a).flags \in Flags
    BY <1>1, WalkFinds
  <1>3. r \in Region
    BY <1>2, RegionIs
  <1>4. CASE e.is = "page"
    <2>1. /\ root' = [root EXCEPT ![r] = Absent]
          /\ op' = [op EXCEPT ![t].pc = "inval", ![t].size = Large, ![t].flags = e.flags]
          /\ UNCHANGED <<bufs, why>>
      BY <1>4 DEF Walk
    <2>2. InRoot(a) /\ EntryOf(a) = e /\ PageOf(a) = [va |-> Start(a), size |-> Large]
      BY <1>4 DEF InRoot, EntryOf, PageOf, Start
    <2>3. /\ Others(t) /\ op'[t].pc = "inval" /\ op'[t].size = Large /\ op'[t].flags = e.flags
          /\ op'[t].va = op[t].va /\ op'[t].buf = op[t].buf
      BY <1>2, <2>1, <2>2, TakeLarge
    <2>4. Dropped([va |-> Start(a), size |-> Large])
      BY <1>1, <1>2, <2>1, DropRoot
    <2>5. \A s \in Region : Replacing(s)' <=> Replacing(s)
      BY <1>1, <2>3, SameReplacing
    <2>6. NodesRight' /\ TableOK' /\ PagesKept
      BY <1>1, <1>3, <1>4, <2>1, <2>5, LargeDropped
    <2>7. LeavesKept(t)
      BY <2>6, LeavesAre DEF Hands, AtLeaf
    <2>8. Dropped(PageOf(a)) /\ PageOf(a).size = Large
      BY <2>2, <2>4
    <2>9. LinksKept
      BY <1>1, <1>3, <1>4, <2>1 DEF LinksKept, TypeOK
    <2>10. Takes(t)
      BY <1>1, <2>1, <2>2, <2>3, <2>6, <2>7, <2>8, <2>9 DEF Takes
    <2> QED BY <1>1, <2>10
  <1>5. CASE e.is # "page"
    <2>1. InNode(a) /\ e.is = "node" /\ PtoV(e.to)
      BY <1>2, <1>5 DEF Translates, InRoot, InNode
    <2>2. op' = [op EXCEPT ![t].pc = "leaf", ![t].node = e.to] /\ UNCHANGED <<root, bufs, why>>
      BY <2>1 DEF Walk
    <2>3. e.to \in Node /\ e = Link(e.to)
      BY <1>3, <2>1, RootIs
    <2>4. Others(t) /\ op'[t].pc = "leaf" /\ op'[t].node = e.to /\ op'[t].va = op[t].va /\ op'[t].buf = op[t].buf
      BY <2>2, <2>3, LeafIs
    <2>5. node[e.to][a % Large].is = "page"
      BY <2>1 DEF InNode
    <2>6. root[RegionOf(op[t].va)] = Link(op'[t].node) /\ node[op'[t].node][op[t].va % Large].is = "page"
      BY <2>3, <2>4, <2>5
    <2>7. UNCHANGED table
      BY <1>1, <2>2 DEF table
    <2> HIDE DEF a, e, r
    <2>8. Descends(t)
      BY <1>1, <2>2, <2>4, <2>6, <2>7 DEF Descends
    <2> QED BY <1>1, <2>8
  <1> QED BY <1>4, <1>5

LEMMA WalkLeafStep ==
  ASSUME TypeOK, Shapes, NodesRight, Claims, Hands, NEW t \in Thread, WalkLeaf(t)
  PROVE  op[t].pc = "leaf" /\ Takes(t)
  <1> DEFINE a == op[t].va
             n == op[t].node
             k == a % Large
  <1>1. op[t].pc = "leaf" /\ UNCHANGED <<service, hw, lock, vm, pins, root, ptov, freeList, count>>
    BY DEF WalkLeaf, At
  <1>2. a \in VA /\ Translates(a) /\ EntryOf(a).flags \in Flags /\ a \in Owned(t)
    BY <1>1, WalkFinds
  <1>3. RegionOf(a) \in Region /\ k \in 0 .. Large - 1
    BY <1>2, RegionIs DEF Index
  <1>4. root[RegionOf(a)] = Link(n) /\ node[n][k].is = "page"
    BY <1>1 DEF Hands
  <1>5. root[RegionOf(a)].is = "node" /\ root[RegionOf(a)].to = n /\ n \in Node
    BY <1>3, <1>4, LinkIs, RootIs
  <1>6. ~InRoot(a) /\ EntryOf(a) = node[n][k] /\ PageOf(a) = [va |-> a, size |-> 1]
    BY <1>5 DEF InRoot, EntryOf, PageOf
  <1>7. /\ node' = [node EXCEPT ![n][k] = Absent]
        /\ op' = [op EXCEPT ![t].pc = "inval", ![t].size = 1, ![t].flags = node[n][k].flags, ![t].node = 0]
        /\ UNCHANGED <<bufs, why>>
    BY <1>4 DEF WalkLeaf
  <1>8. /\ Others(t) /\ op'[t].pc = "inval" /\ op'[t].size = 1 /\ op'[t].flags = node[n][k].flags
        /\ op'[t].va = op[t].va /\ op'[t].buf = op[t].buf
    BY <1>2, <1>6, <1>7, TakeSmall
  <1>9. Dropped([va |-> a, size |-> 1])
    BY <1>1, <1>2, <1>5, <1>7, DropNode DEF NodesRight
  <1>10. \A s \in Region : Replacing(s)' <=> Replacing(s)
    BY <1>1, <1>8, SameReplacing
  <1>11. /\ NodesRight' /\ TableOK'
         /\ \A m \in Node, j \in 0 .. Large - 1 : m # n \/ j # k => node'[m][j] = node[m][j]
    BY <1>1, <1>3, <1>4, <1>5, <1>7, <1>10, SmallDropped
  <1>12. LeavesKept(t)
    <2>1. SUFFICES ASSUME NEW u \in Thread \ {t}, op[u].pc = "leaf"
                   PROVE  /\ root'[RegionOf(op[u].va)] = Link(op[u].node)
                          /\ node'[op[u].node][op[u].va % Large].is = "page"
      BY DEF LeavesKept
    <2>2. root[RegionOf(op[u].va)] = Link(op[u].node) /\ node[op[u].node][op[u].va % Large].is = "page"
      BY <2>1 DEF Hands
    <2>3. op[u].va \in VA /\ op[u].va \in Owned(u)
      BY <2>1, WalkFinds
    <2>4. RegionOf(op[u].va) \in Region /\ op[u].va % Large \in 0 .. Large - 1
      BY <2>3, RegionIs DEF Index
    <2>5. op[u].node \in Node
      BY <2>2, <2>4, LinkIs, RootIs
    <2>6. op[u].va # a
      BY <1>2, <2>1, <2>3 DEF Claims
    <2>7. op[u].node # n \/ op[u].va % Large # k
      <3>1. SUFFICES ASSUME op[u].node = n, op[u].va % Large = k PROVE FALSE
        OBVIOUS
      <3>2. RegionOf(op[u].va) = RegionOf(a)
        BY <1>3, <1>4, <1>5, <2>2, <2>4, <3>1 DEF NodesRight, Linked
      <3> QED BY <1>2, <2>3, <2>6, <3>1, <3>2, SameRegion DEF Index
    <2> QED BY <1>1, <1>11, <2>2, <2>4, <2>5, <2>7
  <1>13. Dropped(PageOf(a)) /\ op'[t].size = PageOf(a).size /\ op'[t].flags = EntryOf(a).flags
    BY <1>6, <1>8, <1>9
  <1>14. LinksKept
    BY <1>1 DEF LinksKept
  <1> HIDE DEF n, k
  <1> QED BY <1>1, <1>7, <1>8, <1>11, <1>12, <1>13, <1>14 DEF Takes

LEMMA InvalStep ==
  ASSUME TypeOK, NEW t \in Thread, Inval(t)
  PROVE  /\ op[t].pc = "inval"
         /\ \/ /\ hw' = IF hw.tlb = Removed(t) THEN [hw EXCEPT !.tlb = NoPage] ELSE hw
               /\ Moves(t, "give") /\ UNCHANGED <<service, lock, vm, pins, table, bufs, why>>
            \/ Leaves(t, "csr")
  <1>1. op[t].pc = "inval" /\ UNCHANGED <<service, lock, vm, pins, table>>
    BY DEF Inval, At
  <1>2. CASE /\ hw' = IF hw.tlb = Removed(t) THEN [hw EXCEPT !.tlb = NoPage] ELSE hw
             /\ Goto(t, "give") /\ NoFault /\ UNCHANGED <<bufs, why>>
    BY <1>1, <1>2, GotoIs
  <1>3. CASE Stops(t, "csr") /\ Fault /\ UNCHANGED hw
    BY <1>1, <1>3, StopsIs DEF Leaves
  <1> QED BY <1>2, <1>3 DEF Inval

GiveDoes(t) ==
    /\ Removed(t) \in pins /\ Removed(t) \in Page
    /\ pins' = pins \ {Removed(t)} /\ Uses(Within(Removed(t)), "free")
    /\ \/ /\ op[t].va + op[t].size = To(op[t])
          /\ Ends(t) /\ bufs' = bufs \ {op[t].buf}
       \/ /\ op[t].va + op[t].size < To(op[t])
          /\ Others(t) /\ op'[t].pc = "walk" /\ op'[t].va = op[t].va + op[t].size /\ op'[t].buf = op[t].buf
          /\ UNCHANGED bufs

LEMMA GiveStep ==
  ASSUME TypeOK, Shapes, Hands, NEW t \in Thread, Give(t)
  PROVE  op[t].pc = "give" /\ GiveDoes(t) /\ UNCHANGED <<service, hw, lock, table, why, count>>
  <1>1. op[t].pc = "give" /\ UNCHANGED <<service, hw, lock, table, why, count>> /\ pins' = pins \ {Removed(t)}
    BY DEF Give, At
  <1>2. InFree(t)
    BY <1>1 DEF InFree, Clearing
  <1>3. Removed(t) \in pins
    BY <1>1 DEF Hands
  <1>4. Removed(t) \in Page
    BY <1>3 DEF TypeOK
  <1>5. Uses(Within(Removed(t)), "free")
    BY <1>3 DEF Give, Within, Removed
  <1>6. /\ op[t].va \in Nat /\ op[t].size \in Nat /\ To(op[t]) \in Nat /\ To(op[t]) <= Size
        /\ op[t].va + op[t].size <= To(op[t]) /\ To(op[t]) = End(op[t].buf)
    BY <1>1, <1>2, FreeIs, CallIs
  <1>7. op[t].flags.end <=> op[t].va + op[t].size = To(op[t])
    BY <1>1, <1>2, <1>6 DEF Shapes, Shaped, InFree, FreeShape
  <1>8. CASE op[t].flags.end
    <2>1. op' = [op EXCEPT ![t] = Idle] /\ bufs' = bufs \ {op[t].buf}
      BY <1>8 DEF Give
    <2>2. Ends(t)
      BY <2>1, EndIs
    <2> QED BY <1>1, <1>3, <1>4, <1>5, <1>7, <1>8, <2>1, <2>2 DEF GiveDoes
  <1>9. CASE ~op[t].flags.end
    <2>1. op' = [op EXCEPT ![t].pc = "walk", ![t].va = @ + op[t].size] /\ UNCHANGED bufs
      BY <1>9 DEF Give
    <2>2. op[t].va + op[t].size < To(op[t]) /\ op[t].va + op[t].size <= Size
      BY <1>6, <1>7, <1>9, Sizes
    <2>3. Others(t) /\ op'[t].pc = "walk" /\ op'[t].va = op[t].va + op[t].size /\ op'[t].buf = op[t].buf
      BY <2>1, <2>2, OnwardIs
    <2> QED BY <1>1, <1>3, <1>4, <1>5, <2>1, <2>2, <2>3 DEF GiveDoes
  <1> QED BY <1>8, <1>9

-----------------------------------------------------------------------------
(* All steps, by what they do.                                             *)

Calls(t) ==
    /\ op[t].pc = "idle" /\ lock = Free /\ lock' = t
    /\ Others(t) /\ op'[t].pc = "reserve" /\ op'[t].left # 0 /\ op'[t].left = op'[t].whole
    /\ ~op'[t].flags.start /\ ~op'[t].flags.end /\ ~op'[t].fell /\ op'[t].buf = NoBuffer
    /\ UNCHANGED <<service, hw, vm, pins, table, bufs, why>>
Opens(t) ==
    \E b \in Untouched :
        /\ op[t].pc = "idle" /\ Others(t) /\ op'[t].pc = "walk" /\ op'[t].va = b.base /\ op'[t].buf = b
        /\ UNCHANGED <<service, hw, lock, vm, pins, table, bufs, why>>
GivesUp(t) ==
    \E reason \in {"full", "empty", "taken", "refused", "grow"} :
        /\ op[t].pc \in {"reserve", "shrink", "pin", "restore"}
        /\ reason = "full" => op[t].pc = "reserve"
        /\ Abandons(t, reason)
Reserves(t)  == op[t].pc = "reserve" /\ ReserveDoes(t) /\ UNCHANGED <<service, hw, pins, table, bufs>>
Shrinks(t)   == op[t].pc = "shrink" /\ ShrinkDoes(t) /\ UNCHANGED <<service, hw, pins, table, bufs>>
Pins(t)      == op[t].pc = "pin" /\ PinDoes(t) /\ UNCHANGED <<service, hw, table, bufs>>
Retreats(t)  == op[t].pc = "pin" /\ \E reason \in {"taken", "refused"} : FallsBack(t, reason)
Enters(t)    == op[t].pc \in {"insert", "replace"} /\ InsertDoes(t)
Pushes(t)    == op[t].pc = "insert" /\ PushDoes(t)
Continues(t) == op[t].pc = "next" /\ ContinueDoes(t) /\ UNCHANGED <<service, hw, pins, table, why>>
Finishes(t)  == op[t].pc = "next" /\ FinishDoes(t) /\ UNCHANGED <<service, hw, pins, table, why>>
Restores(t)  == op[t].pc = "restore" /\ RestoreDoes(t) /\ UNCHANGED <<service, hw, pins, table, bufs>>
Removes(t)   == op[t].pc \in {"walk", "leaf"} /\ Takes(t)
Lowers(t)    == op[t].pc = "walk" /\ Descends(t)
Tells(t) ==
    /\ op[t].pc = "inval" /\ Moves(t, "give")
    /\ hw' = IF hw.tlb = Removed(t) THEN [hw EXCEPT !.tlb = NoPage] ELSE hw
    /\ UNCHANGED <<service, lock, vm, pins, table, bufs, why>>
Drops(t)     == op[t].pc = "inval" /\ Leaves(t, "csr")
Gives(t)     == op[t].pc = "give" /\ GiveDoes(t) /\ UNCHANGED <<service, hw, lock, table, why>>

\* The service, the FPGA and the rest of the program.
Rests ==
    /\ hw'.tlb \in {NoPage, hw.tlb} \/ \E a \in VA : Translates(a) /\ hw'.tlb = PageOf(a)
    /\ UNCHANGED <<op, lock, vm, pins, table, bufs, why>>
Maps ==
    /\ \E a \in VA : vm[a] = "free" /\ Uses({a}, "program")
    /\ UNCHANGED <<service, hw, op, lock, pins, table, bufs, why>>

Makes(t) == Calls(t) \/ GivesUp(t) \/ Reserves(t) \/ Shrinks(t) \/ Pins(t) \/ Retreats(t) \/ Enters(t) \/ Pushes(t)
              \/ Continues(t) \/ Finishes(t) \/ Restores(t)
Clears(t) == Opens(t) \/ Removes(t) \/ Lowers(t) \/ Tells(t) \/ Drops(t) \/ Gives(t)

LEMMA AllocatingIs ==
  ASSUME AalInv, NEW t \in Thread, Allocate(t) \/ Allocating(t)
  PROVE  Makes(t)
  <1> USE DEF AalInv
  <1>1. CASE Allocate(t)
    BY <1>1, AllocateIs DEF Makes, Calls
  <1>2. CASE Reserve(t)
    <2>1. /\ op[t].pc = "reserve" /\ UNCHANGED <<service, hw, pins, table, bufs, count>>
          /\ Abandons(t, "full") \/ ReserveDoes(t)
      BY <1>2, ReserveStep
    <2> QED BY <2>1 DEF Makes, GivesUp, Reserves
  <1>3. CASE Shrink(t)
    <2>1. /\ op[t].pc = "shrink" /\ UNCHANGED <<service, hw, pins, table, bufs, count>>
          /\ Abandons(t, "empty") \/ ShrinkDoes(t)
      BY <1>3, ShrinkStep
    <2> QED BY <2>1 DEF Makes, GivesUp, Shrinks
  <1>4. CASE Pin(t)
    <2>1. /\ op[t].pc = "pin" /\ UNCHANGED <<service, hw, table, bufs>>
          /\ \/ PinDoes(t)
             \/ \E reason \in {"taken", "refused"} : FallsBack(t, reason) \/ Abandons(t, reason)
      BY <1>4, PinStep
    <2> QED BY <2>1 DEF Makes, GivesUp, Pins, Retreats
  <1>5. CASE Insert(t)
    <2>1. op[t].pc = "insert" /\ (InsertDoes(t) \/ PushDoes(t))
      BY <1>5, InsertStep
    <2> QED BY <2>1 DEF Makes, Enters, Pushes
  <1>6. CASE Replace(t)
    <2>1. op[t].pc = "replace" /\ InsertDoes(t)
      BY <1>6, ReplaceStep
    <2> QED BY <2>1 DEF Makes, Enters
  <1>7. CASE NextPage(t)
    <2>1. /\ op[t].pc = "next" /\ UNCHANGED <<service, hw, pins, table, why, count>>
          /\ ContinueDoes(t) \/ FinishDoes(t)
      BY <1>7, NextStep
    <2> QED BY <2>1 DEF Makes, Continues, Finishes
  <1>8. CASE Restore(t)
    <2>1. /\ op[t].pc = "restore" /\ UNCHANGED <<service, hw, pins, table, bufs, count>>
          /\ Abandons(t, "grow") \/ RestoreDoes(t)
      BY <1>8, RestoreStep
    <2> QED BY <2>1 DEF Makes, GivesUp, Restores
  <1> QED BY <1>1, <1>2, <1>3, <1>4, <1>5, <1>6, <1>7, <1>8 DEF Allocating

LEMMA FreeingIs ==
  ASSUME AalInv, AtStart, NEW t \in Thread, BufferFree(t) \/ Freeing(t)
  PROVE  Clears(t)
  <1> USE DEF AalInv
  <1>1. CASE BufferFree(t)
    <2>1. PICK b \in bufs :
             /\ op[t].pc = "idle" /\ \A u \in Thread : op[u].buf # b
             /\ Others(t) /\ op'[t].pc = "walk" /\ op'[t].va = b.base /\ op'[t].buf = b
             /\ UNCHANGED <<service, hw, lock, vm, pins, table, bufs, why, count>>
      BY <1>1, BufferFreeIs
    <2>2. b \in Untouched
      BY <2>1 DEF Untouched
    <2> QED BY <2>1, <2>2 DEF Clears, Opens
  <1>2. CASE Walk(t)
    <2>1. op[t].pc = "walk" /\ (Takes(t) \/ Descends(t))
      BY <1>2, WalkStep
    <2> QED BY <2>1 DEF Clears, Removes, Lowers
  <1>3. CASE WalkLeaf(t)
    <2>1. op[t].pc = "leaf" /\ Takes(t)
      BY <1>3, WalkLeafStep
    <2> QED BY <2>1 DEF Clears, Removes
  <1>4. CASE Inval(t)
    <2>1. /\ op[t].pc = "inval"
          /\ \/ /\ hw' = IF hw.tlb = Removed(t) THEN [hw EXCEPT !.tlb = NoPage] ELSE hw
                /\ Moves(t, "give") /\ UNCHANGED <<service, lock, vm, pins, table, bufs, why>>
             \/ Leaves(t, "csr")
      BY <1>4, InvalStep
    <2> QED BY <2>1 DEF Clears, Tells, Drops
  <1>5. CASE Give(t)
    <2>1. op[t].pc = "give" /\ GiveDoes(t) /\ UNCHANGED <<service, hw, lock, table, why, count>>
      BY <1>5, GiveStep
    <2> QED BY <2>1 DEF Clears, Gives
  <1> QED BY <1>1, <1>2, <1>3, <1>4, <1>5 DEF Freeing

LEMMA RestIs ==
  ASSUME TypeOK, ServiceInit \/ OtherShims \/ FindVtp \/ Construct \/ VtpReset \/ Release \/ Fill
  PROVE  Rests
  <1>1. hw \in [on : BOOLEAN, root : BOOLEAN, tlb : Page \union {NoPage}]
    BY DEF TypeOK
  <1>2. CASE ServiceInit \/ OtherShims \/ FindVtp \/ Construct \/ Release
    BY <1>2 DEF ServiceInit, OtherShims, FindVtp, Construct, Release, Rests
  <1>3. CASE VtpReset
    BY <1>1, <1>3 DEF VtpReset, WriteCsr, Rests, table
  <1>4. CASE Fill
    BY <1>1, <1>4 DEF Fill, Rests
  <1> QED BY <1>2, <1>3, <1>4

-----------------------------------------------------------------------------
(* The locals of the calls.                                                *)

LEMMA ShapesFrom ==
  ASSUME TypeOK, Shapes, NEW t \in Thread, Others(t),
         lock' = t <=> op'[t].pc \notin {"idle"} \union Clearing,
         lock' = lock \/ (lock \in {t, Free} /\ lock' \in {t, Free}),
         Shaped(op'[t]),
         op'[t].pc \in Clearing =>
             op'[t].buf \in bufs' /\ \A u \in Thread \ {t} : InFree(u) => op[u].buf # op'[t].buf,
         \A u \in Thread \ {t} : InFree(u) => op[u].buf \in bufs',
         \A b \in bufs' : End(b) <= Size
  PROVE  Shapes'
  <1>1. \A u \in Thread \ {t} : op'[u] = op[u]
    BY DEF Others
  <1>2. \A u \in Thread : lock' = u <=> op'[u].pc \notin {"idle"} \union Clearing
    <2>1. SUFFICES ASSUME NEW u \in Thread, u # t PROVE lock' = u <=> op'[u].pc \notin {"idle"} \union Clearing
      OBVIOUS
    <2>2. lock' = u <=> lock = u
      BY <2>1, AalAssumption
    <2> QED BY <1>1, <2>1, <2>2 DEF Shapes
  <1>3. \A u \in Thread : Shaped(op'[u])
    BY <1>1 DEF Shapes
  <1>4. \A u \in Thread : op'[u].pc \in Clearing => op'[u].buf \in bufs'
    BY <1>1 DEF InFree
  <1>5. \A u, w \in Thread : op'[u].pc \in Clearing /\ op'[w].pc \in Clearing /\ u # w => op'[u].buf # op'[w].buf
    <2>1. SUFFICES ASSUME NEW u \in Thread, NEW w \in Thread, op'[u].pc \in Clearing, op'[w].pc \in Clearing, u # w
                   PROVE  op'[u].buf # op'[w].buf
      OBVIOUS
    <2>2. CASE u # t /\ w # t
      BY <1>1, <2>1, <2>2 DEF Shapes, InFree
    <2>3. CASE u = t \/ w = t
      BY <1>1, <2>1, <2>3 DEF InFree
    <2> QED BY <2>2, <2>3
  <1> QED BY <1>2, <1>3, <1>4, <1>5 DEF Shapes, InFree

\* The phases of a call tell it apart.
LEMMA PhaseIs ==
  ASSUME NEW t \in Thread
  PROVE  /\ InAlloc(t) <=> op[t].pc \in {"shrink", "pin", "insert", "replace", "next", "restore"}
         /\ InFree(t) <=> op[t].pc \in {"walk", "leaf", "inval", "give"}
         /\ ~(InAlloc(t) /\ InFree(t))
  BY DEF InAlloc, InFree, Making, Clearing

LEMMA IdleShaped ==
  Shaped(Idle) /\ Idle.pc \notin Making /\ Idle.pc \notin Clearing
  BY IdleIs DEF Shaped, Making, Clearing

LEMMA ShapesEnd ==
  ASSUME TypeOK, Shapes, NEW t \in Thread, Ends(t),
         \/ lock = t /\ lock' = Free /\ bufs' = bufs
         \/ lock # t /\ lock' = lock /\ bufs' = bufs \ {op[t].buf} /\ InFree(t)
  PROVE  Shapes'
  <1>1. Others(t) /\ op'[t] = Idle
    BY DEF Ends
  <1>2. Shaped(op'[t]) /\ op'[t].pc = "idle" /\ op'[t].pc \notin Clearing
    BY <1>1, IdleShaped, IdleIs
  <1>3. lock' = t <=> op'[t].pc \notin {"idle"} \union Clearing
    BY <1>2, AalAssumption
  <1>4. lock' = lock \/ (lock \in {t, Free} /\ lock' \in {t, Free})
    OBVIOUS
  <1>5. \A u \in Thread \ {t} : InFree(u) => op[u].buf \in bufs'
    BY DEF Shapes
  <1>6. \A b \in bufs' : End(b) <= Size
    BY DEF Shapes
  <1> QED BY <1>1, <1>2, <1>3, <1>4, <1>5, <1>6, ShapesFrom

LEMMA ShapesSame ==
  ASSUME TypeOK, Shapes, NEW t \in Thread, Others(t), Shaped(op'[t]), lock' = lock, bufs' = bufs,
         \/ op[t].pc \in Making /\ op'[t].pc \in Making
         \/ op[t].pc = "reserve" /\ op'[t].pc \in Making
         \/ op[t].pc \in Clearing /\ op'[t].pc \in Clearing /\ op'[t].buf = op[t].buf
  PROVE  Shapes'
  <1>1. lock' = t <=> op'[t].pc \notin {"idle"} \union Clearing
    BY DEF Shapes, Making, Clearing
  <1>2. op'[t].pc \in Clearing => op[t].pc \in Clearing /\ op'[t].buf = op[t].buf
    BY DEF Making, Clearing
  <1>3. op'[t].pc \in Clearing =>
             op'[t].buf \in bufs' /\ \A u \in Thread \ {t} : InFree(u) => op[u].buf # op'[t].buf
    BY <1>2 DEF Shapes, InFree
  <1>4. \A u \in Thread \ {t} : InFree(u) => op[u].buf \in bufs'
    BY DEF Shapes
  <1>5. \A b \in bufs' : End(b) <= Size
    BY DEF Shapes
  <1> QED BY <1>1, <1>3, <1>4, <1>5, ShapesFrom

\* The parts of the shape of a call of bufferAllocate.
LEMMA AllocShapeIs ==
  ASSUME TypeOK, Shapes, NEW t \in Thread, InAlloc(t)
  PROVE  /\ Aligned(Bottom(op[t])) /\ (op[t].flags.end <=> op[t].left = op[t].whole)
         /\ op[t].pc = "shrink" => (op[t].flags.start => op[t].fell)
         /\ op[t].pc # "shrink" =>
              /\ op[t].size = Large => Aligned(op[t].va) /\ ~op[t].fell
              /\ op[t].left = op[t].size => op[t].flags.start
              /\ op[t].flags.start => op[t].left = op[t].size \/ op[t].fell
         /\ op[t].pc \in {"replace", "restore"} => op[t].size = Large
         /\ op[t].buf = NoBuffer
  <1>1. Shaped(op[t]) /\ op[t].pc \in Making /\ op[t].pc \notin Clearing
    BY DEF Shapes, InAlloc, Making, Clearing
  <1> QED BY <1>1 DEF Shaped, AllocShape

LEMMA MakesShaped ==
  ASSUME NEW me, me.pc \in Making, AllocShape(me), me.buf = NoBuffer
  PROVE  Shaped(me)
  BY DEF Shaped, Making, Clearing

LEMMA ClearsShaped ==
  ASSUME NEW me, me.pc \in Clearing, FreeShape(me)
  PROVE  Shaped(me)
  BY DEF Shaped, Making, Clearing

\* A call of bufferAllocate goes on with the same page.
LEMMA MoveShaped ==
  ASSUME TypeOK, Shapes, NEW t \in Thread, NEW p, Moves(t, p), op[t].pc \in {"pin", "insert", "replace"},
         p \in {"insert", "replace", "next", "restore"},
         p \in {"replace", "restore"} => op[t].size = Large
  PROVE  Shaped(op'[t]) /\ Bottom(op'[t]) = Bottom(op[t])
  <1>1. InAlloc(t)
    BY DEF InAlloc, Making
  <1>2. /\ op'[t].pc = p /\ op'[t].va = op[t].va /\ op'[t].size = op[t].size /\ op'[t].flags = op[t].flags
        /\ op'[t].base = op[t].base /\ op'[t].len = op[t].len /\ op'[t].left = op[t].left
        /\ op'[t].whole = op[t].whole /\ op'[t].fell = op[t].fell /\ op'[t].buf = op[t].buf
    BY DEF Moves
  <1>3. Bottom(op'[t]) = Bottom(op[t]) /\ Top(op'[t]) = Top(op[t])
    BY <1>2 DEF Bottom, Top
  <1>4. AllocShape(op[t])
    BY <1>1 DEF Shapes, Shaped, InAlloc
  <1>5. AllocShape(op'[t])
    BY <1>2, <1>3, <1>4 DEF AllocShape
  <1> QED BY <1>1, <1>2, <1>3, <1>5, AllocShapeIs, MakesShaped DEF Making

LEMMA ReserveShaped ==
  ASSUME TypeOK, Shapes, NEW t \in Thread, op[t].pc = "reserve", ReserveDoes(t)
  PROVE  /\ Shaped(op'[t]) /\ op'[t].pc = "shrink" /\ Others(t) /\ UNCHANGED <<lock, why>>
         /\ Bottom(op'[t]) + op'[t].left = op'[t].va /\ op'[t].left = op'[t].whole
  <1>1. PICK b \in VA :
            /\ AlignUp(b) \in Nat /\ b <= AlignUp(b) /\ Aligned(AlignUp(b)) /\ AlignUp(b) + op[t].left <= Size
            /\ Others(t) /\ op'[t].pc = "shrink" /\ op'[t].base = b /\ op'[t].len = (AlignUp(b) + op[t].left) - b
            /\ op'[t].va = AlignUp(b) + op[t].left
            /\ op'[t].flags.end /\ op'[t].flags.start = op[t].flags.start
            /\ op'[t].left = op[t].left /\ op'[t].whole = op[t].whole /\ op'[t].fell = op[t].fell
            /\ op'[t].buf = op[t].buf
            /\ UNCHANGED <<lock, why>>
    BY DEF ReserveDoes
  <1>2. /\ op[t].left # 0 /\ op[t].left = op[t].whole /\ ~op[t].flags.start /\ op[t].buf = NoBuffer
    BY DEF Shapes, Shaped, Clearing
  <1>3. op[t].left \in Nat /\ op[t].whole \in Nat /\ b \in Nat
    BY CallIs, Sizes
  <1>4. Bottom(op'[t]) = AlignUp(b)
    BY <1>1, <1>3 DEF Bottom
  <1>5. Top(op'[t]) = AlignUp(b) + op[t].left
    BY <1>1, <1>2, <1>4 DEF Top
  <1>6. /\ op'[t].left # 0 /\ op'[t].left <= op'[t].whole /\ op'[t].va = op'[t].base + op'[t].len
    BY <1>1, <1>2, <1>3
  <1>7. AllocShape(op'[t])
    BY <1>1, <1>2, <1>4, <1>5, <1>6 DEF AllocShape
  <1> QED BY <1>1, <1>2, <1>4, <1>7, MakesShaped DEF Making

LEMMA ShrinkShaped ==
  ASSUME TypeOK, Shapes, NEW t \in Thread, op[t].pc = "shrink", ShrinkDoes(t)
  PROVE  /\ Shaped(op'[t]) /\ op'[t].pc = "pin" /\ Others(t) /\ UNCHANGED <<lock, why>>
         /\ Bottom(op'[t]) = Bottom(op[t]) /\ op'[t].whole = op[t].whole /\ op'[t].va + op'[t].size = op[t].va
         /\ op'[t].fell = op[t].fell
  <1>1. PICK size \in {1, Large} :
            /\ size <= op[t].left /\ (size = Large => Aligned(op[t].va - size) /\ ~op[t].fell)
            /\ Others(t) /\ op'[t].pc = "pin" /\ op'[t].base = op[t].base
            /\ op'[t].len = op[t].len - size /\ op'[t].va = op[t].va - size /\ op'[t].size = size
            /\ (op'[t].flags.end <=> op[t].flags.end)
            /\ (op'[t].flags.start <=> op[t].flags.start \/ op[t].left = size)
            /\ op'[t].left = op[t].left /\ op'[t].whole = op[t].whole /\ op'[t].fell = op[t].fell
            /\ op'[t].buf = op[t].buf
            /\ UNCHANGED <<lock, why>>
    BY DEF ShrinkDoes
  <1>2. InAlloc(t)
    BY DEF InAlloc, Making
  <1>3. /\ op[t].va \in Nat /\ op[t].left \in Nat /\ op[t].whole \in Nat /\ op[t].base \in Nat /\ op[t].len \in Nat
        /\ size \in Nat
    BY CallIs, Sizes
  <1>4. /\ Bottom(op[t]) \in Nat /\ Bottom(op[t]) + op[t].left = op[t].va /\ op[t].left > 0 /\ op[t].left <= op[t].whole
        /\ op[t].base + op[t].len = op[t].va /\ op[t].base <= Bottom(op[t])
    BY <1>2, AllocIs
  <1>5. Bottom(op'[t]) = Bottom(op[t]) /\ Top(op'[t]) = Top(op[t])
    BY <1>1, <1>3, <1>4 DEF Bottom, Top
  <1>6. AllocShape(op[t]) /\ op[t].buf = NoBuffer
    BY <1>2, AllocShapeIs DEF Shapes, Shaped, InAlloc
  <1>7. op'[t].left # 0 /\ op'[t].left <= op'[t].whole /\ op'[t].va = op'[t].base + op'[t].len
    BY <1>1, <1>3, <1>4
  <1>8. AllocShape(op'[t])
    BY <1>1, <1>5, <1>6, <1>7 DEF AllocShape
  <1>9. op'[t].va + op'[t].size = op[t].va
    BY <1>1, <1>3
  <1> QED BY <1>1, <1>5, <1>6, <1>8, <1>9, MakesShaped DEF Making

LEMMA ContinueShaped ==
  ASSUME TypeOK, Shapes, NEW t \in Thread, op[t].pc = "next", ContinueDoes(t)
  PROVE  Shaped(op'[t]) /\ Bottom(op'[t]) = Bottom(op[t])
  <1>1. InAlloc(t)
    BY DEF InAlloc, Making
  <1>2. /\ op[t].va \in Nat /\ op[t].size \in Nat /\ op[t].left \in Nat /\ op[t].whole \in Nat /\ op[t].base \in Nat
        /\ op[t].len \in Nat /\ Bottom(op[t]) \in Nat
        /\ Bottom(op[t]) + op[t].left = op[t].va + op[t].size /\ op[t].left <= op[t].whole
        /\ op[t].base + op[t].len = op[t].va /\ op[t].size > 0
    <2>1. /\ op[t].va \in Nat /\ op[t].size \in Nat /\ op[t].left \in Nat /\ op[t].whole \in Nat
          /\ op[t].base \in Nat /\ op[t].len \in Nat
      BY CallIs
    <2>2. /\ Bottom(op[t]) \in Nat /\ Bottom(op[t]) + op[t].left = op[t].va + op[t].size
          /\ op[t].left <= op[t].whole /\ op[t].base + op[t].len = op[t].va /\ op[t].size \in {1, Large}
      BY <1>1, AllocIs
    <2> QED BY <2>1, <2>2, Sizes
  <1>3. Bottom(op'[t]) = Bottom(op[t]) /\ Top(op'[t]) = Top(op[t])
    BY <1>2 DEF ContinueDoes, Bottom, Top
  <1>4. AllocShape(op[t]) /\ op[t].buf = NoBuffer
    BY <1>1, AllocShapeIs DEF Shapes, Shaped, InAlloc
  <1>5. /\ op'[t].left # 0 /\ op'[t].left < op'[t].whole /\ op'[t].va = op'[t].base + op'[t].len
        /\ op'[t].base = op[t].base /\ op'[t].pc = "shrink" /\ op'[t].flags = NoFlags /\ op'[t].buf = op[t].buf
    BY <1>2 DEF ContinueDoes
  <1>6. AllocShape(op'[t])
    <2>1. ~op'[t].flags.end /\ ~op'[t].flags.start
      BY <1>5 DEF NoFlags
    <2>2. op'[t].left <= op'[t].whole /\ op'[t].left # op'[t].whole
      BY <1>2, <1>5 DEF ContinueDoes
    <2> QED BY <1>3, <1>4, <1>5, <2>1, <2>2 DEF AllocShape
  <1> QED BY <1>3, <1>4, <1>5, <1>6, MakesShaped DEF Making

LEMMA RestoreShaped ==
  ASSUME TypeOK, Shapes, NEW t \in Thread, op[t].pc = "restore", RestoreDoes(t)
  PROVE  Shaped(op'[t]) /\ Bottom(op'[t]) = Bottom(op[t])
  <1>1. InAlloc(t)
    BY DEF InAlloc, Making
  <1>2. /\ op[t].va \in Nat /\ op[t].left \in Nat /\ op[t].whole \in Nat /\ op[t].base \in Nat
        /\ op[t].len \in Nat /\ Bottom(op[t]) \in Nat /\ op[t].size = Large
        /\ Bottom(op[t]) + op[t].left = op[t].va + op[t].size /\ op[t].left <= op[t].whole /\ op[t].left > 0
        /\ op[t].base + op[t].len = op[t].va
    BY <1>1, CallIs, AllocIs DEF RestoreDoes
  <1>3. Bottom(op'[t]) = Bottom(op[t]) /\ Top(op'[t]) = Top(op[t])
    BY <1>2, Sizes DEF RestoreDoes, Bottom, Top
  <1>4. AllocShape(op[t]) /\ op[t].buf = NoBuffer
    BY <1>1, AllocShapeIs DEF Shapes, Shaped, InAlloc
  <1>5. /\ op'[t].left = op[t].left /\ op'[t].whole = op[t].whole /\ op'[t].va = op'[t].base + op'[t].len
        /\ op'[t].base = op[t].base /\ op'[t].pc = "shrink" /\ op'[t].flags = op[t].flags /\ op'[t].buf = op[t].buf
        /\ op'[t].fell
    BY <1>2, Sizes DEF RestoreDoes
  <1>6. AllocShape(op'[t])
    BY <1>3, <1>4, <1>5 DEF AllocShape
  <1> QED BY <1>3, <1>4, <1>5, <1>6, MakesShaped DEF Making

LEMMA FreeShapeIs ==
  ASSUME TypeOK, Shapes, NEW t \in Thread, InFree(t)
  PROVE  FreeShape(op[t])
  BY DEF Shapes, Shaped, InFree

\* A call of bufferFree has taken a page out of the table, or reads the node.
LEMMA TakesShaped ==
  ASSUME TypeOK, Shapes, Claims, NEW t \in Thread, op[t].pc \in {"walk", "leaf"}, Takes(t)
  PROVE  Shaped(op'[t])
  <1> DEFINE s == PageOf(op[t].va).size
  <1>1. InFree(t)
    BY DEF InFree, Clearing
  <1>2. op[t].buf.base <= op[t].va
    BY <1>1, FreeShapeIs DEF FreeShape
  <1>3. /\ op[t].va + s <= End(op[t].buf)
        /\ EntryOf(op[t].va).flags.end <=> op[t].va + s = End(op[t].buf)
        /\ op[t].va \in VA
    BY WalkFinds
  <1>4. s \in {1, Large}
    BY <1>3, PageIs
  <1>5. /\ op'[t].pc = "inval" /\ op'[t].va = op[t].va /\ op'[t].size = s
        /\ op'[t].buf = op[t].buf /\ op'[t].flags = EntryOf(op[t].va).flags
    BY DEF Takes
  <1> HIDE DEF s
  <1>6. FreeShape(op'[t])
    BY <1>2, <1>3, <1>4, <1>5 DEF FreeShape
  <1> QED BY <1>5, <1>6, ClearsShaped DEF Clearing

LEMMA MakesShapes ==
  ASSUME AalInv, NEW t \in Thread, Makes(t)
  PROVE  Shapes'
  <1>1. TypeOK /\ Shapes
    BY DEF AalInv
  <1>2. \A u \in Thread : InFree(u) => op[u].buf \in bufs
    BY <1>1 DEF Shapes
  <1>3. \A b \in bufs : End(b) <= Size
    BY <1>1 DEF Shapes
  <1>4. CASE Calls(t)
    <2>1. /\ lock = Free /\ lock' = t /\ Others(t) /\ op'[t].pc = "reserve" /\ bufs' = bufs
          /\ op'[t].left # 0 /\ op'[t].left = op'[t].whole
          /\ ~op'[t].flags.start /\ ~op'[t].flags.end /\ ~op'[t].fell /\ op'[t].buf = NoBuffer
      BY <1>4 DEF Calls
    <2>2. Shaped(op'[t])
      BY <2>1 DEF Shaped, Making, Clearing
    <2>3. op'[t].pc \notin {"idle"} \union Clearing
      BY <2>1 DEF Clearing
    <2> QED BY <1>1, <1>2, <1>3, <2>1, <2>2, <2>3, ShapesFrom
  <1>5. CASE GivesUp(t)
    <2>1. op[t].pc \in {"reserve", "shrink", "pin", "restore"} /\ Ends(t) /\ lock' = Free /\ bufs' = bufs
      BY <1>5 DEF GivesUp, Abandons
    <2>2. lock = t
      BY <1>1, <2>1 DEF Shapes, Clearing
    <2> QED BY <1>1, <2>1, <2>2, ShapesEnd
  <1>6. CASE Reserves(t)
    <2>1. op[t].pc = "reserve" /\ ReserveDoes(t) /\ bufs' = bufs
      BY <1>6 DEF Reserves
    <2>2. Shaped(op'[t]) /\ op'[t].pc \in Making /\ Others(t) /\ lock' = lock
      BY <1>1, <2>1, ReserveShaped DEF Making
    <2> QED BY <1>1, <2>1, <2>2, ShapesSame
  <1>7. CASE Shrinks(t)
    <2>1. op[t].pc = "shrink" /\ ShrinkDoes(t) /\ bufs' = bufs
      BY <1>7 DEF Shrinks
    <2>2. Shaped(op'[t]) /\ op'[t].pc \in Making /\ op[t].pc \in Making /\ Others(t) /\ lock' = lock
      BY <1>1, <2>1, ShrinkShaped DEF Making
    <2> QED BY <1>1, <2>1, <2>2, ShapesSame
  <1>8. CASE Pins(t) \/ Retreats(t) \/ Enters(t) \/ Pushes(t)
    <2>1. /\ op[t].pc \in {"pin", "insert", "replace"} /\ bufs' = bufs /\ lock' = lock
          /\ \E p \in {"insert", "replace", "next", "restore"} :
                Moves(t, p) /\ (p \in {"replace", "restore"} => op[t].size = Large)
      BY <1>8 DEF Pins, PinDoes, Retreats, FallsBack, Enters, InsertDoes, Pushes, PushDoes
    <2>2. PICK p \in {"insert", "replace", "next", "restore"} :
             Moves(t, p) /\ (p \in {"replace", "restore"} => op[t].size = Large)
      BY <2>1
    <2>3. Shaped(op'[t])
      BY <1>1, <2>1, <2>2, MoveShaped
    <2>4. Others(t) /\ op'[t].pc \in Making /\ op[t].pc \in Making
      BY <2>1, <2>2 DEF Moves, Making
    <2> QED BY <1>1, <2>1, <2>3, <2>4, ShapesSame
  <1>9. CASE Continues(t)
    <2>1. op[t].pc = "next" /\ ContinueDoes(t)
      BY <1>9 DEF Continues
    <2>2. Others(t) /\ op'[t].pc \in Making /\ op[t].pc \in Making /\ lock' = lock /\ bufs' = bufs
      BY <2>1 DEF ContinueDoes, Making
    <2> QED BY <1>1, <2>1, <2>2, ContinueShaped, ShapesSame
  <1>10. CASE Finishes(t)
    <2>1. op[t].pc = "next" /\ FinishDoes(t)
      BY <1>10 DEF Finishes
    <2>2. InAlloc(t)
      BY <2>1 DEF InAlloc, Making
    <2>3. lock = t /\ To(op[t]) <= Size
      BY <1>1, <2>2, AllocIs
    <2>4. Ends(t) /\ lock' = Free /\ bufs' = bufs \union {Made(t)} /\ End(Made(t)) <= Size
      BY <2>1, <2>3 DEF FinishDoes
    <2>5. Others(t) /\ op'[t] = Idle
      BY <2>4 DEF Ends
    <2>6. Shaped(op'[t]) /\ op'[t].pc = "idle" /\ op'[t].pc \notin Clearing
      BY <2>5, IdleShaped, IdleIs
    <2>7. lock' = t <=> op'[t].pc \notin {"idle"} \union Clearing
      BY <2>4, <2>6, AalAssumption
    <2>8. \A b \in bufs' : End(b) <= Size
      BY <1>3, <2>4
    <2>9. \A u \in Thread \ {t} : InFree(u) => op[u].buf \in bufs'
      BY <1>2, <2>4
    <2> QED BY <1>1, <2>3, <2>4, <2>5, <2>6, <2>7, <2>8, <2>9, ShapesFrom
  <1>11. CASE Restores(t)
    <2>1. op[t].pc = "restore" /\ RestoreDoes(t) /\ bufs' = bufs
      BY <1>11 DEF Restores
    <2>2. Others(t) /\ op'[t].pc \in Making /\ op[t].pc \in Making /\ lock' = lock
      BY <2>1 DEF RestoreDoes, Making
    <2> QED BY <1>1, <2>1, <2>2, RestoreShaped, ShapesSame
  <1> QED BY <1>4, <1>5, <1>6, <1>7, <1>8, <1>9, <1>10, <1>11 DEF Makes

LEMMA ClearsShapes ==
  ASSUME AalInv, NEW t \in Thread, Clears(t)
  PROVE  Shapes'
  <1>1. TypeOK /\ Shapes /\ Claims
    BY DEF AalInv
  <1>2. \A u \in Thread : InFree(u) => op[u].buf \in bufs
    BY <1>1 DEF Shapes
  <1>3. \A b \in bufs : End(b) <= Size
    BY <1>1 DEF Shapes
  <1>4. CASE Opens(t)
    <2>1. PICK b \in Untouched :
             /\ op[t].pc = "idle" /\ Others(t) /\ op'[t].pc = "walk" /\ op'[t].va = b.base /\ op'[t].buf = b
             /\ lock' = lock /\ bufs' = bufs
      BY <1>4 DEF Opens
    <2>2. b \in bufs /\ (\A u \in Thread : op[u].buf # b) /\ b.base \in Nat /\ b.base < End(b)
      BY <1>1, UntouchedIs DEF Untouched
    <2>3. FreeShape(op'[t])
      BY <2>1, <2>2 DEF FreeShape
    <2>4. Shaped(op'[t])
      BY <2>1, <2>3, ClearsShaped DEF Clearing
    <2>5. lock' = t <=> op'[t].pc \notin {"idle"} \union Clearing
      BY <1>1, <2>1 DEF Shapes, Clearing
    <2>6. \A u \in Thread \ {t} : InFree(u) => op[u].buf # op'[t].buf
      BY <2>1, <2>2
    <2>7. op'[t].buf \in bufs'
      BY <2>1, <2>2
    <2> QED BY <1>1, <1>2, <1>3, <2>1, <2>4, <2>5, <2>6, <2>7, ShapesFrom
  <1>5. CASE Removes(t)
    <2>1. op[t].pc \in {"walk", "leaf"} /\ Takes(t)
      BY <1>5 DEF Removes
    <2>2. /\ Others(t) /\ op'[t].pc \in Clearing /\ op[t].pc \in Clearing /\ op'[t].buf = op[t].buf
          /\ lock' = lock /\ bufs' = bufs
      BY <2>1 DEF Takes, Clearing
    <2> QED BY <1>1, <2>1, <2>2, TakesShaped, ShapesSame
  <1>6. CASE Lowers(t)
    <2>1. /\ op[t].pc = "walk" /\ Others(t) /\ op'[t].pc = "leaf" /\ op'[t].va = op[t].va
          /\ op'[t].buf = op[t].buf /\ lock' = lock /\ bufs' = bufs
      BY <1>6 DEF Lowers, Descends
    <2>2. op[t].pc \in Clearing /\ op'[t].pc \in Clearing
      BY <2>1 DEF Clearing
    <2>3. FreeShape(op[t])
      BY <1>1, <2>2, FreeShapeIs DEF InFree
    <2>4. FreeShape(op'[t])
      BY <2>1, <2>3 DEF FreeShape
    <2> QED BY <1>1, <2>1, <2>2, <2>4, ClearsShaped, ShapesSame
  <1>7. CASE Tells(t)
    <2>1. /\ op[t].pc = "inval" /\ Others(t) /\ op'[t].pc = "give" /\ op'[t].va = op[t].va
          /\ op'[t].size = op[t].size /\ op'[t].flags = op[t].flags
          /\ op'[t].buf = op[t].buf /\ lock' = lock /\ bufs' = bufs
      BY <1>7 DEF Tells, Moves
    <2>2. op[t].pc \in Clearing /\ op'[t].pc \in Clearing
      BY <2>1 DEF Clearing
    <2>3. FreeShape(op[t])
      BY <1>1, <2>2, FreeShapeIs DEF InFree
    <2>4. FreeShape(op'[t])
      BY <2>1, <2>3 DEF FreeShape
    <2> QED BY <1>1, <2>1, <2>2, <2>4, ClearsShaped, ShapesSame
  <1>8. CASE Drops(t)
    <2>1. op[t].pc = "inval" /\ Ends(t) /\ bufs' = bufs \ {op[t].buf} /\ lock' = lock
      BY <1>8 DEF Drops, Leaves
    <2>2. InFree(t) /\ lock # t
      BY <1>1, <2>1 DEF InFree, Clearing, Shapes
    <2> QED BY <1>1, <2>1, <2>2, ShapesEnd
  <1>9. CASE Gives(t)
    <2>1. op[t].pc = "give" /\ GiveDoes(t) /\ lock' = lock
      BY <1>9 DEF Gives
    <2>2. InFree(t) /\ lock # t /\ op[t].pc \in Clearing
      BY <1>1, <2>1 DEF InFree, Clearing, Shapes
    <2>3. CASE Ends(t) /\ bufs' = bufs \ {op[t].buf}
      BY <1>1, <2>1, <2>2, <2>3, ShapesEnd
    <2>4. CASE /\ op[t].va + op[t].size < To(op[t])
               /\ Others(t) /\ op'[t].pc = "walk" /\ op'[t].va = op[t].va + op[t].size /\ op'[t].buf = op[t].buf
               /\ UNCHANGED bufs
      <3>1. /\ op[t].buf.base \in Nat /\ op[t].buf.base <= op[t].va /\ op[t].va \in Nat /\ op[t].size \in Nat
            /\ To(op[t]) = End(op[t].buf)
        BY <1>1, <2>2, FreeIs, CallIs
      <3>2. FreeShape(op'[t])
        BY <2>4, <3>1 DEF FreeShape
      <3>3. op'[t].pc \in Clearing
        BY <2>4 DEF Clearing
      <3> QED BY <1>1, <2>1, <2>2, <2>4, <3>2, <3>3, ClearsShaped, ShapesSame
    <2> QED BY <2>1, <2>3, <2>4 DEF GiveDoes
  <1> QED BY <1>4, <1>5, <1>6, <1>7, <1>8, <1>9 DEF Clears

-----------------------------------------------------------------------------
(* The types.                                                              *)

Counts == [calls : 0 .. MaxCalls, app : 0 .. MaxApp, faults : 0 .. MaxFaults]
Outside ==
    /\ service \in {"start", "shims", "vtp", "guid", "reset", "root", "enable", "up", "absent", "failed",
                    "released"}
    /\ hw \in [on : BOOLEAN, root : BOOLEAN, tlb : Page \union {NoPage}]
    /\ count \in Counts /\ Service

LEMMA CountIs ==
  ASSUME count \in Counts
  PROVE  /\ NoFault => count' \in Counts
         /\ Fault => count' \in Counts
         /\ count.calls < MaxCalls /\ count' = [count EXCEPT !.calls = @ + 1] => count' \in Counts
         /\ count.app < MaxApp /\ count' = [count EXCEPT !.app = @ + 1] => count' \in Counts
  <1>1. MaxCalls \in Nat /\ MaxApp \in Nat /\ MaxFaults \in Nat
    BY AalAssumption
  <1>2. count.calls \in 0 .. MaxCalls /\ count.app \in 0 .. MaxApp /\ count.faults \in 0 .. MaxFaults
    BY DEF Counts
  <1>3. Fault => count' \in Counts
    <2>1. SUFFICES ASSUME Fault PROVE count' \in Counts
      OBVIOUS
    <2>2. count.faults + 1 \in 0 .. MaxFaults
      BY <1>1, <1>2, <2>1 DEF Fault
    <2> QED BY <2>1, <2>2 DEF Fault, Counts
  <1>4. count.calls < MaxCalls => count.calls + 1 \in 0 .. MaxCalls
    BY <1>1, <1>2
  <1>5. count.app < MaxApp => count.app + 1 \in 0 .. MaxApp
    BY <1>1, <1>2
  <1> QED BY <1>3, <1>4, <1>5 DEF NoFault, Counts

LEMMA OutsideStep ==
  ASSUME TypeOK, Service, Next
  PROVE  Outside'
  <1>1. /\ service \in {"start", "shims", "vtp", "guid", "reset", "root", "enable", "up", "absent", "failed",
                        "released"}
        /\ hw \in [on : BOOLEAN, root : BOOLEAN, tlb : Page \union {NoPage}]
        /\ count \in Counts
    BY DEF TypeOK, Counts
  <1>2. (hw.on => hw.root) /\ (service = "enable" => hw.root)
    BY DEF Service, OnWithRoot
  <1>3. ASSUME UNCHANGED <<service, hw>>, count' \in Counts PROVE Outside'
    BY <1>1, <1>2, <1>3 DEF Outside, Service, OnWithRoot
  <1>4. ASSUME UNCHANGED <<service, hw, count>> PROVE Outside'
    BY <1>1, <1>3, <1>4
  <1>5. CASE ServiceInit \/ OtherShims \/ FindVtp \/ Construct \/ Release
    <2>1. UNCHANGED <<hw, count>> /\ service' \in {"shims", "vtp", "guid", "reset", "absent", "failed", "released"}
      BY <1>5 DEF ServiceInit, OtherShims, FindVtp, Construct, Release
    <2> QED BY <1>1, <1>2, <2>1 DEF Outside, Service, OnWithRoot
  <1>6. CASE VtpReset
    <2>1. ASSUME NEW from, NEW to, NEW new, WriteCsr(from, to, new),
                 to \in {"root", "enable", "up"},
                 new \in [on : BOOLEAN, root : BOOLEAN, tlb : Page \union {NoPage}],
                 (new.on => new.root) /\ (to = "enable" => new.root)
          PROVE  Outside'
      <3>1. count' \in Counts
        BY <1>1, <2>1, CountIs DEF WriteCsr
      <3> QED BY <1>1, <1>2, <2>1, <3>1 DEF WriteCsr, Outside, Service, OnWithRoot
    <2>2. CASE WriteCsr("reset", "root", [hw EXCEPT !.on = FALSE, !.tlb = NoPage])
      <3> DEFINE new == [hw EXCEPT !.on = FALSE, !.tlb = NoPage]
      <3>1. new \in [on : BOOLEAN, root : BOOLEAN, tlb : Page \union {NoPage}] /\ ~new.on
        BY <1>1
      <3> HIDE DEF new
      <3>2. WriteCsr("reset", "root", new)
        BY <2>2 DEF new
      <3> QED BY <2>1, <3>1, <3>2
    <2>3. CASE WriteCsr("root", "enable", [hw EXCEPT !.root = TRUE])
      <3> DEFINE new == [hw EXCEPT !.root = TRUE]
      <3>1. new \in [on : BOOLEAN, root : BOOLEAN, tlb : Page \union {NoPage}] /\ new.root
        BY <1>1
      <3> HIDE DEF new
      <3>2. WriteCsr("root", "enable", new)
        BY <2>3 DEF new
      <3> QED BY <2>1, <3>1, <3>2
    <2>4. CASE WriteCsr("enable", "up", [hw EXCEPT !.on = TRUE])
      <3> DEFINE new == [hw EXCEPT !.on = TRUE]
      <3>1. service = "enable"
        BY <2>4 DEF WriteCsr
      <3>2. new \in [on : BOOLEAN, root : BOOLEAN, tlb : Page \union {NoPage}] /\ new.root
        BY <1>1, <1>2, <3>1
      <3> HIDE DEF new
      <3>3. WriteCsr("enable", "up", new)
        BY <2>4 DEF new
      <3> QED BY <2>1, <3>2, <3>3
    <2> QED BY <1>6, <2>2, <2>3, <2>4 DEF VtpReset
  <1>7. CASE Fill
    <2>1. PICK a \in VA : hw' = [hw EXCEPT !.tlb = PageOf(a)] /\ UNCHANGED <<service, count>>
      BY <1>7 DEF Fill
    <2>2. PageOf(a) \in Page
      BY PageIs
    <2>3. hw' \in [on : BOOLEAN, root : BOOLEAN, tlb : Page \union {NoPage}] /\ hw'.on = hw.on /\ hw'.root = hw.root
      BY <1>1, <2>1, <2>2
    <2> QED BY <1>1, <1>2, <2>1, <2>3 DEF Outside, Service, OnWithRoot
  <1>8. CASE ProgramMaps
    BY <1>1, <1>3, <1>8, CountIs DEF ProgramMaps
  <1>9. ASSUME NEW t \in Thread, Allocate(t) \/ BufferFree(t) \/ Allocating(t) \/ Freeing(t)
        PROVE  Outside'
    <2>1. CASE Allocate(t)
      BY <1>1, <1>3, <2>1, CountIs DEF Allocate
    <2>2. CASE BufferFree(t) \/ Reserve(t) \/ Shrink(t) \/ Insert(t) \/ Replace(t) \/ NextPage(t) \/ Restore(t)
                 \/ Walk(t) \/ WalkLeaf(t) \/ Give(t)
      BY <1>4, <2>2 DEF BufferFree, Reserve, Shrink, Insert, Replace, NextPage, Restore, Walk, WalkLeaf, Give
    <2>3. CASE Pin(t)
      BY <1>1, <1>3, <2>3, CountIs DEF Pin
    <2>4. CASE Inval(t)
      <3>1. service' = service /\ (hw' = hw \/ hw' = [hw EXCEPT !.tlb = NoPage]) /\ (NoFault \/ Fault)
        BY <2>4 DEF Inval
      <3>2. count' \in Counts
        BY <1>1, <3>1, CountIs
      <3>3. hw' \in [on : BOOLEAN, root : BOOLEAN, tlb : Page \union {NoPage}] /\ hw'.on = hw.on /\ hw'.root = hw.root
        BY <1>1, <3>1
      <3> QED BY <1>1, <1>2, <3>1, <3>2, <3>3 DEF Outside, Service, OnWithRoot
    <2> QED BY <1>9, <2>1, <2>2, <2>3, <2>4 DEF Allocating, Freeing
  <1> QED BY <1>5, <1>6, <1>7, <1>8, <1>9 DEF Next

Inside ==
    /\ op \in [Thread -> Activity] /\ lock \in Thread \union {Free}
    /\ vm \in [VA -> {"free", "reserved", "ali", "program"}] /\ pins \subseteq Page
    /\ TableOK /\ bufs \subseteq Buffer /\ why \subseteq Why

LEMMA TypeIs ==
  /\ TypeOK => Inside
  /\ Outside /\ Inside => TypeOK /\ Service
  BY DEF TypeOK, Outside, Inside, TableOK, Entry, Counts

LEMMA TableSame ==
  ASSUME UNCHANGED table
  PROVE  (TableOK => TableOK') /\ TableKept
  BY TableUnchanged DEF table, TableOK

LEMMA InsideMakes ==
  ASSUME AalInv, NEW t \in Thread, Makes(t)
  PROVE  Inside'
  <1>1. TypeOK /\ Inside /\ Addresses
    BY TypeIs DEF AalInv
  <1>2. Others(t)
    BY DEF Makes, Calls, GivesUp, Abandons, Ends, Reserves, ReserveDoes, Shrinks, ShrinkDoes, Pins, PinDoes,
           Retreats, FallsBack, Enters, InsertDoes, Pushes, PushDoes, Moves, Continues, ContinueDoes,
           Finishes, FinishDoes, Restores, RestoreDoes
  <1>3. op' \in [Thread -> Activity]
    BY <1>2 DEF Others
  <1>4. lock' \in Thread \union {Free}
    BY <1>1 DEF Makes, Calls, GivesUp, Abandons, Reserves, ReserveDoes, Shrinks, ShrinkDoes, Pins, PinDoes,
           Retreats, FallsBack, Enters, InsertDoes, Pushes, PushDoes, Continues, ContinueDoes,
           Finishes, FinishDoes, Restores, RestoreDoes, Inside
  <1>5. vm' \in [VA -> {"free", "reserved", "ali", "program"}]
    <2>1. vm' = vm \/ \E as, use : Uses(as, use) /\ use \in {"free", "reserved", "ali", "program"}
      BY DEF Makes, Calls, GivesUp, Abandons, Reserves, ReserveDoes, Shrinks, ShrinkDoes, Pins, PinDoes,
             Retreats, FallsBack, Enters, InsertDoes, Pushes, PushDoes, Continues, ContinueDoes,
             Finishes, FinishDoes, Restores, RestoreDoes
    <2> QED BY <1>1, <2>1, UsesIs DEF Inside
  <1>6. pins' \subseteq Page
    <2>1. CASE pins' = pins
      BY <1>1, <2>1 DEF Inside
    <2>2. CASE Pins(t)
      <3>1. op[t].pc = "pin" /\ Within(Pending(t)) \subseteq VA /\ pins' = pins \union {Pending(t)}
        BY <2>2 DEF Pins, PinDoes, AllFree
      <3>2. op[t].size \in {1, Large} /\ op[t].va \in Nat
        BY <1>1, <3>1, AllocIs, CallIs DEF AalInv, InAlloc, Making
      <3>3. op[t].va \in Within(Pending(t))
        BY <3>2, SpanIs, Sizes DEF Pending
      <3>4. Pending(t) \in Page
        BY <3>1, <3>2, <3>3 DEF Pending, Page
      <3> QED BY <1>1, <3>1, <3>4 DEF Inside
    <2> QED BY <2>1, <2>2 DEF Makes, Calls, GivesUp, Abandons, Reserves, Shrinks, Retreats, FallsBack, Enters,
             InsertDoes, Pushes, PushDoes, Continues, Finishes, Restores
  <1>7. TableOK'
    <2>1. UNCHANGED table \/ TableOK'
      BY DEF Makes, Calls, GivesUp, Abandons, Reserves, Shrinks, Pins, Retreats, FallsBack, Enters,
             InsertDoes, Pushes, PushDoes, Continues, Finishes, Restores
    <2> QED BY <1>1, <2>1, TableSame DEF Inside
  <1>8. bufs' \subseteq Buffer
    <2>1. bufs' = bufs \/ (Made(t) \in Buffer /\ bufs' = bufs \union {Made(t)})
      BY DEF Makes, Calls, GivesUp, Abandons, Reserves, Shrinks, Pins, Retreats, FallsBack, Enters,
             InsertDoes, Pushes, PushDoes, Continues, ContinueDoes, Finishes, FinishDoes, Restores
    <2> QED BY <1>1, <2>1 DEF Inside
  <1>9. why' \subseteq Why
    <2>1. why' = why \/ \E reason \in {"full", "empty", "taken", "refused", "grow"} : why' = why \union {reason}
      BY DEF Makes, Calls, GivesUp, Abandons, Reserves, ReserveDoes, Shrinks, ShrinkDoes, Pins, PinDoes, Retreats,
             FallsBack, Enters, InsertDoes, Pushes, PushDoes, Continues, Finishes, Restores, RestoreDoes
    <2> QED BY <1>1, <2>1 DEF Inside, Why
  <1> QED BY <1>3, <1>4, <1>5, <1>6, <1>7, <1>8, <1>9 DEF Inside

LEMMA InsideClears ==
  ASSUME AalInv, NEW t \in Thread, Clears(t)
  PROVE  Inside'
  <1>1. TypeOK /\ Inside
    BY TypeIs DEF AalInv
  <1>2. Others(t)
    BY DEF Clears, Opens, Removes, Takes, Lowers, Descends, Tells, Moves, Drops, Leaves, Ends, Gives, GiveDoes
  <1>3. op' \in [Thread -> Activity]
    BY <1>2 DEF Others
  <1>4. lock' = lock /\ bufs' \subseteq bufs /\ pins' \subseteq pins
    BY DEF Clears, Opens, Removes, Takes, Lowers, Descends, Tells, Drops, Leaves, Gives, GiveDoes
  <1>5. vm' \in [VA -> {"free", "reserved", "ali", "program"}]
    <2>1. vm' = vm \/ \E as, use : Uses(as, use) /\ use \in {"free", "reserved", "ali", "program"}
      BY DEF Clears, Opens, Removes, Takes, Lowers, Descends, Tells, Drops, Leaves, Gives, GiveDoes
    <2> QED BY <1>1, <2>1, UsesIs DEF Inside
  <1>6. TableOK'
    <2>1. UNCHANGED table \/ TableOK'
      BY DEF Clears, Opens, Removes, Takes, Lowers, Descends, Tells, Drops, Leaves, Gives
    <2> QED BY <1>1, <2>1, TableSame DEF Inside
  <1>7. why' \subseteq Why
    <2>1. why' = why \/ why' = why \union {"csr"}
      BY DEF Clears, Opens, Removes, Takes, Lowers, Descends, Tells, Drops, Leaves, Gives
    <2> QED BY <1>1, <2>1 DEF Inside, Why
  <1> QED BY <1>1, <1>3, <1>4, <1>5, <1>6, <1>7 DEF Inside

LEMMA InsideElse ==
  ASSUME AalInv, Rests \/ Maps
  PROVE  Inside' /\ Shapes' /\ NodesRight' /\ Claims' /\ Starts' /\ why' = why
  <1>1. TypeOK /\ Inside /\ Shapes /\ NodesRight /\ Claims /\ Starts
    BY TypeIs DEF AalInv
  <1>2. UNCHANGED <<op, lock, pins, root, node, ptov, freeList, bufs, why>>
    BY DEF Rests, Maps, table
  <1>3. vm' \in [VA -> {"free", "reserved", "ali", "program"}]
    <2>1. vm' = vm \/ \E a \in VA : Uses({a}, "program")
      BY DEF Rests, Maps
    <2> QED BY <1>1, <2>1, UsesIs DEF Inside
  <1>4. Inside'
    BY <1>1, <1>2, <1>3 DEF Inside, TableOK
  <1>5. Shapes'
    BY <1>1, <1>2 DEF Shapes, InFree
  <1>6. NodesRight'
    BY <1>1, <1>2 DEF NodesRight, FreeNodes, Linked, OnList, Replacing
  <1>7. Claims'
    BY <1>1, <1>2 DEF Claims, Run, Untouched, Owned, Translates, InRoot, InNode, PtoV, PageOf, EntryOf
  <1>8. Starts'
    <2>1. \A a : EntryOf(a)' = EntryOf(a) /\ PageOf(a)' = PageOf(a)
      BY <1>2 DEF EntryOf, PageOf, InRoot
    <2>2. Untouched' = Untouched
      BY <1>2 DEF Untouched
    <2>3. \A t \in Thread : Owned(t)' = Owned(t) /\ (InAlloc(t)' <=> InAlloc(t)) /\ op'[t] = op[t]
      BY <1>2 DEF Owned, InAlloc
    <2> QED BY <1>1, <2>1, <2>2, <2>3 DEF Starts, StartsRight
  <1> QED BY <1>2, <1>4, <1>5, <1>6, <1>7, <1>8

-----------------------------------------------------------------------------
(* What addresses are used for.                                            *)

PinsRight ==
    /\ \A p \in pins : /\ Within(p) \subseteq VA /\ (p.size = Large => Aligned(p.va))
                       /\ \A a \in Within(p) : vm[a] = "ali"
    /\ \A p, q \in pins : p # q => Within(p) \intersect Within(q) = {}
    /\ \A a \in VA : vm[a] = "ali" => \E p \in pins : a \in Within(p)
Holding(t) ==
    /\ InAlloc(t) => \A a \in Span(op[t].base, op[t].len) : vm[a] = "reserved"
    /\ op[t].pc \in {"pin", "restore"} =>
          \A a \in Span(op[t].va, op[t].size) : vm[a] \in {"free", "program"}

LEMMA AddressesAre ==
  /\ Addresses => PinsRight /\ \A t \in Thread : Holding(t)
  /\ PinsRight /\ (\A t \in Thread : Holding(t)) => Addresses
  /\ PinsRight' /\ (\A t \in Thread : Holding(t)') => Addresses'
  BY DEF Addresses, PinsRight, Holding

LEMMA PinsSame ==
  ASSUME PinsRight, pins' = pins, \A a \in VA : vm'[a] = "ali" <=> vm[a] = "ali"
  PROVE  PinsRight'
  <1>1. \A p \in pins : Within(p)' = Within(p)
    BY DEF Within
  <1>2. \A p \in pins' : /\ Within(p) \subseteq VA /\ (p.size = Large => Aligned(p.va))
                         /\ \A a \in Within(p) : vm'[a] = "ali"
    BY DEF PinsRight
  <1> QED BY <1>2 DEF PinsRight

\* The page of a call lies in the address space.
LEMMA HoleIs ==
  ASSUME TypeOK, Shapes, NEW u \in Thread, InAlloc(u), op[u].pc \notin {"shrink", "next"}
  PROVE  /\ op[u].va \in Nat /\ op[u].size \in Nat /\ op[u].va + op[u].size <= Size
         /\ \A a \in Span(op[u].va, op[u].size) : a \in VA
  <1>1. op[u].va \in Nat /\ op[u].size \in Nat
    BY CallIs
  <1>2. From(op[u]) = op[u].va + op[u].size /\ From(op[u]) <= To(op[u]) /\ To(op[u]) <= Size /\ To(op[u]) \in Nat
    BY AllocIs
  <1>3. op[u].va + op[u].size <= Size
    BY <1>1, <1>2, Sizes
  <1>4. SUFFICES ASSUME NEW a \in Span(op[u].va, op[u].size) PROVE a \in VA
    BY <1>1, <1>3
  <1>5. a \in Nat /\ op[u].va <= a /\ a < op[u].va + op[u].size
    BY <1>1, SpanIs
  <1> QED BY <1>1, <1>3, <1>5, Sizes

\* A reservation lies below the page that its call is working on.
LEMMA ReservedIs ==
  ASSUME TypeOK, Shapes, Addresses, NEW t \in Thread, InAlloc(t)
  PROVE  /\ Span(op[t].base, op[t].len) \subseteq VA /\ Span(op[t].base, op[t].len) = op[t].base .. op[t].va - 1
         /\ \A a \in op[t].base .. op[t].va - 1 : a \in VA /\ vm[a] = "reserved"
         /\ op[t].pc \in {"pin", "restore"} => \A a \in Within(Pending(t)) : vm[a] \in {"free", "program"}
  <1>1. /\ op[t].base \in Nat /\ op[t].va \in Nat /\ op[t].va <= Size /\ op[t].len \in Nat
        /\ op[t].base + op[t].len = op[t].va
    BY CallIs, AllocIs
  <1>2. Span(op[t].base, op[t].len) = op[t].base .. op[t].va - 1
    BY <1>1 DEF Span
  <1>3. op[t].base .. op[t].va - 1 \subseteq VA
    BY <1>1, Sizes
  <1>4. Within(Pending(t)) = Span(op[t].va, op[t].size)
    BY DEF Within, Pending
  <1>5. \A a \in Span(op[t].base, op[t].len) : vm[a] = "reserved"
    BY DEF Addresses
  <1>6. op[t].pc \in {"pin", "restore"} => \A a \in Span(op[t].va, op[t].size) : vm[a] \in {"free", "program"}
    BY DEF Addresses
  <1> QED BY <1>2, <1>3, <1>4, <1>5, <1>6

LEMMA HoldingElse ==
  ASSUME Shapes, NEW t \in Thread, op[t].pc \notin {"idle"} \union Clearing, Others(t)
  PROVE  \A u \in Thread \ {t} : Holding(u)'
  <1>1. SUFFICES ASSUME NEW u \in Thread \ {t} PROVE Holding(u)'
    OBVIOUS
  <1>2. op'[u] = op[u] /\ op[u].pc \in {"idle"} \union Clearing
    BY OneAllocates DEF Others
  <1> QED BY <1>2 DEF Holding, InAlloc, Making, Clearing

LEMMA HoldingSame ==
  ASSUME Addresses, NEW t \in Thread, vm' = vm, Others(t), Holding(t)'
  PROVE  \A u \in Thread : Holding(u)'
  BY AddressesAre DEF Others, Holding, InAlloc

LEMMA AddressesSame ==
  ASSUME AalInv, NEW t \in Thread, vm' = vm, pins' = pins, Others(t),
         \/ op'[t].pc \notin Making
         \/ /\ op[t].pc \in Making /\ op'[t].base = op[t].base /\ op'[t].len = op[t].len
            /\ op'[t].pc = "restore" => op'[t].va = op[t].va /\ op'[t].size = op[t].size /\ op[t].pc = "pin"
            /\ op'[t].pc # "pin"
  PROVE  Addresses'
  <1>1. PinsRight /\ Holding(t) /\ Addresses
    BY AddressesAre DEF AalInv
  <1>2. PinsRight'
    BY <1>1, PinsSame
  <1>3. Holding(t)'
    <2>1. CASE op'[t].pc \notin Making
      BY <2>1 DEF Holding, InAlloc, Making
    <2>2. CASE op'[t].pc \in Making
      <3>1. /\ op[t].pc \in Making /\ op'[t].base = op[t].base /\ op'[t].len = op[t].len
            /\ op'[t].pc = "restore" => op'[t].va = op[t].va /\ op'[t].size = op[t].size /\ op[t].pc = "pin"
            /\ op'[t].pc # "pin"
        BY <2>2
      <3> QED BY <1>1, <3>1 DEF Holding, InAlloc
    <2> QED BY <2>1, <2>2
  <1> QED BY <1>1, <1>2, <1>3, HoldingSame, AddressesAre

LEMMA ReservesAddresses ==
  ASSUME AalInv, NEW t \in Thread, Reserves(t)
  PROVE  Addresses'
  <1>1. PinsRight /\ TypeOK /\ Shapes
    BY AddressesAre DEF AalInv
  <1>2. op[t].pc = "reserve" /\ pins' = pins /\ Others(t)
    BY DEF Reserves, ReserveDoes
  <1>3. PICK b \in VA :
           LET s == Span(b, (AlignUp(b) + op[t].left) - b)
           IN  /\ s \subseteq VA /\ \A a \in s : vm[a] = "free"
               /\ Uses(s, "reserved") /\ op'[t].pc = "shrink" /\ op'[t].base = b
               /\ op'[t].len = (AlignUp(b) + op[t].left) - b
    BY DEF Reserves, ReserveDoes
  <1>4. PICK s \in SUBSET VA : /\ \A a \in s : vm[a] = "free"
                               /\ Uses(s, "reserved") /\ op'[t].pc = "shrink" /\ s = Span(op'[t].base, op'[t].len)
    BY <1>3
  <1>5. \A a \in VA : vm'[a] = IF a \in s THEN "reserved" ELSE vm[a]
    BY <1>1, <1>4, UsesIs
  <1>6. PinsRight'
    BY <1>1, <1>2, <1>4, <1>5, PinsSame
  <1>7. Holding(t)'
    BY <1>4, <1>5 DEF Holding
  <1>8. \A u \in Thread \ {t} : Holding(u)'
    BY <1>1, <1>2, HoldingElse DEF Clearing
  <1> QED BY <1>6, <1>7, <1>8, AddressesAre

LEMMA ShrinksAddresses ==
  ASSUME AalInv, NEW t \in Thread, Shrinks(t)
  PROVE  Addresses'
  <1>1. PinsRight /\ TypeOK /\ Shapes /\ Addresses
    BY AddressesAre DEF AalInv
  <1>2. op[t].pc = "shrink" /\ pins' = pins /\ Others(t) /\ InAlloc(t)
    BY DEF Shrinks, ShrinkDoes, InAlloc, Making
  <1>3. PICK size \in {1, Large} :
            /\ size <= op[t].left /\ Uses(Span(op[t].va - size, size), "free") /\ op'[t].pc = "pin"
            /\ op'[t].base = op[t].base /\ op'[t].len = op[t].len - size
            /\ op'[t].va = op[t].va - size /\ op'[t].size = size
    BY DEF Shrinks, ShrinkDoes
  <1>4. /\ op[t].va \in Nat /\ op[t].left \in Nat /\ op[t].base \in Nat /\ op[t].len \in Nat /\ size \in Nat
    BY <1>1, CallIs, Sizes
  <1>5. /\ Bottom(op[t]) \in Nat /\ Bottom(op[t]) + op[t].left = op[t].va
        /\ op[t].base + op[t].len = op[t].va /\ op[t].base <= Bottom(op[t])
    BY <1>1, <1>2, AllocIs
  <1>6. op[t].base <= op[t].va - size /\ op[t].va - size \in Nat
    BY <1>3, <1>4, <1>5
  <1> DEFINE s == Span(op[t].va - size, size)
  <1>7. /\ s = op[t].va - size .. op[t].va - 1
        /\ Span(op[t].base, op[t].len - size) = op[t].base .. (op[t].va - size) - 1
    <2>1. size <= op[t].len
      BY <1>3, <1>4, <1>5
    <2>2. PICK b \in Nat : b = op[t].base
      BY <1>4
    <2>3. PICK l \in Nat : l = op[t].len
      BY <1>4
    <2>4. PICK v \in Nat : v = op[t].va
      BY <1>4
    <2>5. PICK z \in Nat : z = size
      BY <1>4
    <2>6. b + l = v /\ z <= l
      BY <1>5, <2>1, <2>2, <2>3, <2>4, <2>5
    <2>7. Span(v - z, z) = v - z .. v - 1 /\ Span(b, l - z) = b .. (v - z) - 1
      <3>1. (v - z) + z = v /\ b + (l - z) = v - z
        BY <2>6
      <3> QED BY <3>1 DEF Span
    <2> QED BY <2>2, <2>3, <2>4, <2>5, <2>7
  <1>8. /\ \A a \in s : a \in VA /\ vm[a] = "reserved"
        /\ \A a \in Span(op[t].base, op[t].len - size) : a \in VA /\ vm[a] = "reserved" /\ a \notin s
    <2>1. \A a \in op[t].base .. op[t].va - 1 : a \in VA /\ vm[a] = "reserved"
      BY <1>1, <1>2, ReservedIs
    <2>2. size <= op[t].len
      BY <1>3, <1>4, <1>5
    <2>3. /\ \A a \in op[t].va - size .. op[t].va - 1 :
                 a \in op[t].base .. op[t].va - 1 /\ a \notin op[t].base .. (op[t].va - size) - 1
          /\ \A a \in op[t].base .. (op[t].va - size) - 1 : a \in op[t].base .. op[t].va - 1
      BY <1>4, <1>5, <1>6, <2>2
    <2> HIDE DEF s
    <2> QED BY <1>7, <2>1, <2>3
  <1>9. \A a \in VA : vm'[a] = IF a \in s THEN "free" ELSE vm[a]
    BY <1>1, <1>3, UsesIs
  <1>10. s = Span(op'[t].va, op'[t].size)
    BY <1>3
  <1> HIDE DEF s
  <1>11. PinsRight'
    BY <1>1, <1>2, <1>8, <1>9, PinsSame
  <1>12. Holding(t)'
    BY <1>3, <1>8, <1>9, <1>10 DEF Holding
  <1>13. \A u \in Thread \ {t} : Holding(u)'
    BY <1>1, <1>2, HoldingElse DEF Clearing
  <1> QED BY <1>11, <1>12, <1>13, AddressesAre

LEMMA PinsAddresses ==
  ASSUME AalInv, NEW t \in Thread, Pins(t)
  PROVE  Addresses'
  <1>1. PinsRight /\ TypeOK /\ Shapes /\ Addresses
    BY AddressesAre DEF AalInv
  <1> DEFINE s == Within(Pending(t))
  <1>2. /\ op[t].pc = "pin" /\ Others(t) /\ InAlloc(t) /\ pins' = pins \union {Pending(t)}
        /\ s \subseteq VA /\ (\A a \in s : vm[a] = "free") /\ Uses(s, "ali")
        /\ op'[t].pc = "insert" /\ op'[t].base = op[t].base /\ op'[t].len = op[t].len
    BY DEF Pins, PinDoes, AllFree, Moves, InAlloc, Making
  <1>3. \A a \in VA : vm'[a] = IF a \in s THEN "ali" ELSE vm[a]
    BY <1>1, <1>2, UsesIs
  <1>4. Pending(t).size = Large => Aligned(Pending(t).va)
    BY <1>1, <1>2, AllocShapeIs DEF Pending
  <1>5. PinsRight'
    <2>1. \A p \in pins' : /\ Within(p) \subseteq VA /\ (p.size = Large => Aligned(p.va))
                           /\ \A a \in Within(p) : vm'[a] = "ali"
      BY <1>1, <1>2, <1>3, <1>4 DEF PinsRight
    <2>2. \A p \in pins : Within(p) \intersect s = {}
      BY <1>1, <1>2 DEF PinsRight
    <2>3. \A p, q \in pins' : p # q => Within(p) \intersect Within(q) = {}
      BY <1>1, <1>2, <2>2 DEF PinsRight
    <2>4. \A a \in VA : vm'[a] = "ali" => \E p \in pins' : a \in Within(p)
      BY <1>1, <1>2, <1>3 DEF PinsRight
    <2> QED BY <2>1, <2>3, <2>4 DEF PinsRight
  <1>6. \A a \in Span(op[t].base, op[t].len) : vm'[a] = "reserved"
    <2>1. \A a \in Span(op[t].base, op[t].len) : a \in VA /\ vm[a] = "reserved"
      BY <1>1, <1>2, ReservedIs
    <2> QED BY <1>2, <1>3, <2>1
  <1>7. Holding(t)'
    BY <1>2, <1>6 DEF Holding
  <1>8. \A u \in Thread \ {t} : Holding(u)'
    BY <1>1, <1>2, HoldingElse DEF Clearing
  <1> QED BY <1>5, <1>7, <1>8, AddressesAre

LEMMA FinishesAddresses ==
  ASSUME AalInv, NEW t \in Thread, Finishes(t)
  PROVE  Addresses'
  <1>1. PinsRight /\ TypeOK /\ Shapes /\ Addresses
    BY AddressesAre DEF AalInv
  <1> DEFINE s == Span(op[t].base, op[t].len)
  <1>2. op[t].pc = "next" /\ InAlloc(t) /\ Ends(t) /\ Uses(s, "free") /\ pins' = pins
    BY DEF Finishes, FinishDoes, InAlloc, Making
  <1>3. \A a \in VA : vm'[a] = IF a \in s THEN "free" ELSE vm[a]
    BY <1>1, <1>2, UsesIs
  <1>4. \A a \in s : vm[a] = "reserved"
    BY <1>1, <1>2, ReservedIs
  <1> HIDE DEF s
  <1>5. PinsRight'
    BY <1>1, <1>2, <1>3, <1>4, PinsSame
  <1>6. Others(t) /\ op'[t].pc = "idle"
    BY <1>2, IdleIs DEF Ends
  <1>7. Holding(t)'
    BY <1>6 DEF Holding, InAlloc, Making
  <1>8. \A u \in Thread \ {t} : Holding(u)'
    BY <1>1, <1>2, <1>6, HoldingElse DEF Clearing
  <1> QED BY <1>5, <1>7, <1>8, AddressesAre

LEMMA RestoresAddresses ==
  ASSUME AalInv, NEW t \in Thread, Restores(t)
  PROVE  Addresses'
  <1>1. PinsRight /\ TypeOK /\ Shapes /\ Addresses
    BY AddressesAre DEF AalInv
  <1> DEFINE s == Span(op[t].va, Large)
  <1>2. /\ op[t].pc = "restore" /\ InAlloc(t) /\ op[t].size = Large /\ Uses(s, "reserved") /\ pins' = pins
        /\ Others(t) /\ op'[t].pc = "shrink" /\ op'[t].base = op[t].base /\ op'[t].len = op[t].len + Large
    BY DEF Restores, RestoreDoes, InAlloc, Making
  <1>3. \A a \in VA : vm'[a] = IF a \in s THEN "reserved" ELSE vm[a]
    BY <1>1, <1>2, UsesIs
  <1>4. \A a \in s : vm[a] \in {"free", "program"}
    BY <1>1, <1>2 DEF Addresses
  <1>5. \A a \in Span(op[t].base, op[t].len + Large) : a \in s \/ (a \in VA /\ vm[a] = "reserved")
    <2>1. op[t].base \in Nat /\ op[t].len \in Nat /\ op[t].va \in Nat /\ op[t].base + op[t].len = op[t].va
      BY <1>1, <1>2, CallIs, AllocIs
    <2>2. \A a \in op[t].base .. op[t].va - 1 : a \in VA /\ vm[a] = "reserved"
      BY <1>1, <1>2, ReservedIs
    <2>3. SUFFICES ASSUME NEW a \in Span(op[t].base, op[t].len + Large), a \notin s
                   PROVE  a \in op[t].base .. op[t].va - 1
      BY <2>2
    <2>4. a \in Nat /\ op[t].base <= a /\ a < op[t].base + (op[t].len + Large)
      <3>1. op[t].len + Large \in Nat
        BY <2>1, Sizes
      <3> QED BY <2>1, <2>3, <3>1, SpanIs
    <2>5. ~(op[t].va <= a /\ a < op[t].va + Large)
      BY <2>1, <2>3, <2>4, SpanIs, Sizes
    <2>6. Large \in Nat
      BY Sizes
    <2> HIDE DEF s
    <2> QED BY <2>1, <2>4, <2>5, <2>6
  <1>6. s \subseteq VA
    BY DEF Restores, RestoreDoes
  <1> HIDE DEF s
  <1>7. PinsRight'
    BY <1>1, <1>2, <1>3, <1>4, PinsSame
  <1>8. Holding(t)'
    BY <1>2, <1>3, <1>5, <1>6 DEF Holding
  <1>9. \A u \in Thread \ {t} : Holding(u)'
    BY <1>1, <1>2, HoldingElse DEF Clearing
  <1> QED BY <1>7, <1>8, <1>9, AddressesAre

LEMMA GivesAddresses ==
  ASSUME AalInv, NEW t \in Thread, Gives(t)
  PROVE  Addresses'
  <1>1. PinsRight /\ TypeOK /\ Shapes /\ Addresses
    BY AddressesAre DEF AalInv
  <1> DEFINE s == Within(Removed(t))
  <1>2. Removed(t) \in pins /\ pins' = pins \ {Removed(t)} /\ Uses(s, "free") /\ Others(t)
    BY DEF Gives, GiveDoes, Ends
  <1>3. \A a \in VA : vm'[a] = IF a \in s THEN "free" ELSE vm[a]
    BY <1>1, <1>2, UsesIs
  <1>4. (\A a \in s : vm[a] = "ali") /\ \A p \in pins' : Within(p) \intersect s = {}
    BY <1>1, <1>2 DEF PinsRight
  <1>5. PinsRight'
    <2>1. \A p \in pins' : /\ Within(p) \subseteq VA /\ (p.size = Large => Aligned(p.va))
                           /\ \A a \in Within(p) : vm'[a] = "ali"
      BY <1>1, <1>2, <1>3, <1>4 DEF PinsRight
    <2>2. \A p, q \in pins' : p # q => Within(p) \intersect Within(q) = {}
      BY <1>1, <1>2 DEF PinsRight
    <2>3. \A a \in VA : vm'[a] = "ali" => \E p \in pins' : a \in Within(p)
      <3>1. SUFFICES ASSUME NEW a \in VA, vm'[a] = "ali" PROVE \E p \in pins' : a \in Within(p)
        OBVIOUS
      <3>2. a \notin s /\ vm[a] = "ali"
        BY <1>3, <3>1
      <3>3. PICK p \in pins : a \in Within(p)
        BY <1>1, <3>2 DEF PinsRight
      <3> QED BY <1>2, <3>2, <3>3
    <2> QED BY <2>1, <2>2, <2>3 DEF PinsRight
  <1>6. Holding(t)'
    <2>1. op'[t].pc \in {"idle", "walk"}
      BY IdleIs DEF Gives, GiveDoes, Ends
    <2> QED BY <2>1 DEF Holding, InAlloc, Making
  <1>7. ASSUME NEW u \in Thread \ {t} PROVE Holding(u)'
    <2>1. op'[u] = op[u]
      BY <1>2 DEF Others
    <2>2. InAlloc(u) => \A a \in Span(op[u].base, op[u].len) : a \in VA /\ vm[a] = "reserved"
      BY <1>1, ReservedIs
    <2>3. op[u].pc \in {"pin", "restore"} => \A a \in Span(op[u].va, op[u].size) : a \in VA /\ vm[a] \in {"free", "program"}
      <3>1. SUFFICES ASSUME op[u].pc \in {"pin", "restore"}
                     PROVE  \A a \in Span(op[u].va, op[u].size) : a \in VA /\ vm[a] \in {"free", "program"}
        OBVIOUS
      <3>2. \A a \in Span(op[u].va, op[u].size) : a \in VA
        BY <1>1, <3>1, HoleIs DEF InAlloc, Making
      <3> QED BY <1>1, <3>1, <3>2 DEF Addresses
    <2>4. InAlloc(u)' <=> InAlloc(u)
      BY <2>1 DEF InAlloc
    <2>5. InAlloc(u) => \A a \in Span(op[u].base, op[u].len) : vm'[a] = "reserved"
      BY <1>3, <1>4, <2>2
    <2>6. op[u].pc \in {"pin", "restore"} => \A a \in Span(op[u].va, op[u].size) : vm'[a] \in {"free", "program"}
      BY <1>3, <2>3
    <2> QED BY <2>1, <2>4, <2>5, <2>6 DEF Holding
  <1> QED BY <1>5, <1>6, <1>7, AddressesAre

LEMMA AddressesMakes ==
  ASSUME AalInv, NEW t \in Thread, Makes(t)
  PROVE  Addresses'
  <1>1. CASE Calls(t) \/ GivesUp(t)
    <2>1. vm' = vm /\ pins' = pins /\ Others(t) /\ op'[t].pc \in {"reserve", "idle"}
      BY <1>1, IdleIs DEF Calls, GivesUp, Abandons, Ends
    <2> QED BY <2>1, AddressesSame DEF Making
  <1>2. CASE Retreats(t) \/ Enters(t) \/ Pushes(t) \/ Continues(t)
    <2>1. /\ vm' = vm /\ pins' = pins /\ Others(t) /\ op'[t].base = op[t].base /\ op'[t].len = op[t].len
          /\ op[t].pc \in {"pin", "insert", "replace", "next"} /\ op'[t].pc \in {"restore", "replace", "next", "shrink"}
          /\ op'[t].pc = "restore" => op'[t].va = op[t].va /\ op'[t].size = op[t].size /\ op[t].pc = "pin"
      BY <1>2 DEF Retreats, FallsBack, Enters, InsertDoes, Pushes, PushDoes, Moves, Continues, ContinueDoes
    <2> QED BY <2>1, AddressesSame DEF Making
  <1>3. CASE Reserves(t) \/ Shrinks(t) \/ Pins(t) \/ Finishes(t) \/ Restores(t)
    BY <1>3, ReservesAddresses, ShrinksAddresses, PinsAddresses, FinishesAddresses, RestoresAddresses
  <1> QED BY <1>1, <1>2, <1>3 DEF Makes

LEMMA AddressesClears ==
  ASSUME AalInv, NEW t \in Thread, Clears(t)
  PROVE  Addresses'
  <1>1. CASE Gives(t)
    BY <1>1, GivesAddresses
  <1>2. CASE Opens(t) \/ Removes(t) \/ Lowers(t) \/ Tells(t) \/ Drops(t)
    <2>1. vm' = vm /\ pins' = pins /\ Others(t) /\ op'[t].pc \in {"idle", "walk", "leaf", "inval", "give"}
      BY <1>2, IdleIs DEF Opens, Removes, Takes, Lowers, Descends, Tells, Moves, Drops, Leaves, Ends
    <2> QED BY <2>1, AddressesSame DEF Making
  <1> QED BY <1>1, <1>2 DEF Clears

LEMMA AddressesElse ==
  ASSUME AalInv, Rests \/ Maps
  PROVE  Addresses'
  <1>1. PinsRight /\ TypeOK /\ Shapes /\ Addresses
    BY AddressesAre DEF AalInv
  <1>2. op' = op /\ pins' = pins
    BY DEF Rests, Maps
  <1>3. \A a \in VA : vm'[a] = vm[a] \/ (vm[a] = "free" /\ vm'[a] = "program")
    <2>1. CASE Rests
      BY <2>1 DEF Rests
    <2>2. CASE Maps
      <3>1. PICK a \in VA : vm[a] = "free" /\ Uses({a}, "program")
        BY <2>2 DEF Maps
      <3> QED BY <1>1, <3>1, UsesIs
    <2> QED BY <2>1, <2>2
  <1>4. PinsRight'
    BY <1>1, <1>2, <1>3, PinsSame
  <1>5. ASSUME NEW u \in Thread PROVE Holding(u)'
    <2>1. InAlloc(u) => \A a \in Span(op[u].base, op[u].len) : a \in VA /\ vm[a] = "reserved"
      BY <1>1, ReservedIs
    <2>2. op[u].pc \in {"pin", "restore"} =>
             \A a \in Span(op[u].va, op[u].size) : a \in VA /\ vm[a] \in {"free", "program"}
      <3>1. SUFFICES ASSUME op[u].pc \in {"pin", "restore"}
                     PROVE  \A a \in Span(op[u].va, op[u].size) : a \in VA /\ vm[a] \in {"free", "program"}
        OBVIOUS
      <3>2. \A a \in Span(op[u].va, op[u].size) : a \in VA
        BY <1>1, <3>1, HoleIs DEF InAlloc, Making
      <3> QED BY <1>1, <3>1, <3>2 DEF Addresses
    <2>3. InAlloc(u)' <=> InAlloc(u)
      BY <1>2 DEF InAlloc
    <2>4. InAlloc(u) => \A a \in Span(op[u].base, op[u].len) : vm'[a] = "reserved"
      BY <1>3, <2>1
    <2>5. op[u].pc \in {"pin", "restore"} => \A a \in Span(op[u].va, op[u].size) : vm'[a] \in {"free", "program"}
      BY <1>3, <2>2
    <2> QED BY <1>2, <2>3, <2>4, <2>5 DEF Holding
  <1> QED BY <1>4, <1>5, AddressesAre

-----------------------------------------------------------------------------
(* The nodes and their free list, for all steps.                           *)

LEMMA NodesSame ==
  ASSUME TypeOK, NodesRight, UNCHANGED table, \A r : Replacing(r)' <=> Replacing(r)
  PROVE  NodesRight'
  BY DEF NodesRight, FreeNodes, Linked, OnList, table

LEMMA NodesMakes ==
  ASSUME AalInv, NEW t \in Thread, Makes(t)
  PROVE  NodesRight'
  <1>1. TypeOK /\ NodesRight
    BY DEF AalInv
  <1>2. CASE Enters(t) \/ Pushes(t)
    BY <1>2 DEF Enters, InsertDoes, Pushes, PushDoes
  <1>3. CASE ~(Enters(t) \/ Pushes(t))
    <2>1. UNCHANGED table /\ Others(t) /\ op[t].pc # "replace" /\ op'[t].pc # "replace"
      BY <1>3, IdleIs DEF Makes, Calls, GivesUp, Abandons, Ends, Reserves, ReserveDoes, Shrinks, ShrinkDoes, Pins,
         PinDoes, Retreats, FallsBack, Moves, Continues, ContinueDoes, Finishes, FinishDoes, Restores, RestoreDoes
    <2> QED BY <1>1, <2>1, SameReplacing, NodesSame
  <1> QED BY <1>2, <1>3

LEMMA NodesClears ==
  ASSUME AalInv, NEW t \in Thread, Clears(t)
  PROVE  NodesRight'
  <1>1. TypeOK /\ NodesRight
    BY DEF AalInv
  <1>2. CASE Removes(t)
    BY <1>2 DEF Removes, Takes
  <1>3. CASE ~Removes(t)
    <2>1. UNCHANGED table /\ Others(t) /\ op[t].pc # "replace" /\ op'[t].pc # "replace"
      BY <1>3, IdleIs DEF Clears, Opens, Lowers, Descends, Tells, Moves, Drops, Leaves, Ends, Gives, GiveDoes
    <2> QED BY <1>1, <2>1, SameReplacing, NodesSame
  <1> QED BY <1>2, <1>3

-----------------------------------------------------------------------------
(* What is pinned, translated and in a thread's hand.                      *)

HasInHand(t) == op[t].pc \in {"inval", "give"}
EntersRight(t) ==
    /\ op[t].pc \in {"insert", "replace"} =>
          Pending(t) \in pins \ InHand /\ \A a \in Within(Pending(t)) : ~Translates(a)
    /\ op[t].pc = "replace" => root[RegionOf(op[t].va)] = Link(freeList) /\ freeList # 0
RemovedRight(t) ==
    /\ HasInHand(t) => Removed(t) \in pins
    /\ op[t].pc = "give" => hw.tlb # Removed(t)
LeafRight(t) == op[t].pc = "leaf" => AtLeaf(t)
HandsApart ==
    \A t, u \in Thread : HasInHand(t) /\ HasInHand(u) /\ t # u => Removed(t) # Removed(u)

LEMMA HandsAre ==
  /\ Hands <=> HandsApart /\ \A t \in Thread : EntersRight(t) /\ LeafRight(t) /\ RemovedRight(t)
  /\ Hands' <=> HandsApart' /\ \A t \in Thread : EntersRight(t)' /\ LeafRight(t)' /\ RemovedRight(t)'
  BY DEF Hands, EntersRight, LeafRight, AtLeaf, RemovedRight, HandsApart, HasInHand

LEMMA InHandIs ==
  /\ \A p : p \in InHand <=> \E t \in Thread : HasInHand(t) /\ p = Removed(t)
  /\ \A p : p \in InHand' <=> \E t \in Thread : HasInHand(t)' /\ p = Removed(t)'
  BY DEF InHand, HasInHand

\* The hands of the other threads are as they were.
LEMMA HandsElse ==
  ASSUME NEW t \in Thread, Others(t)
  PROVE  /\ \A u \in Thread \ {t} : (HasInHand(u)' <=> HasInHand(u)) /\ Removed(u)' = Removed(u)
                                    /\ Pending(u)' = Pending(u)
         /\ \A p : p \in InHand' => p \in InHand \/ (HasInHand(t)' /\ p = Removed(t)')
         /\ ~HasInHand(t) /\ ~HasInHand(t)' => InHand' = InHand
  <1>1. \A u \in Thread \ {t} : op'[u] = op[u]
    BY DEF Others
  <1>2. \A u \in Thread \ {t} : (HasInHand(u)' <=> HasInHand(u)) /\ Removed(u)' = Removed(u) /\ Pending(u)' = Pending(u)
    BY <1>1 DEF HasInHand, Removed, Pending
  <1> QED BY <1>2, InHandIs

\* A page that is pinned or translated is no page of the free address space.
LEMMA PinnedIs ==
  ASSUME TypeOK, Addresses, TranslatesPinned, Hands
  PROVE  /\ \A p \in pins : p \in Page /\ p # NoPage /\ \A a \in Within(p) : vm[a] = "ali"
         /\ InHand \subseteq pins
         /\ \A a \in VA : Translates(a) => vm[a] = "ali" /\ PageOf(a) \in pins /\ PageOf(a) \notin InHand
  <1>1. \A p \in pins : p \in Page /\ p # NoPage /\ \A a \in Within(p) : vm[a] = "ali"
    <2>1. \A p \in pins : p \in Page /\ \A a \in Within(p) : vm[a] = "ali"
      BY DEF TypeOK, Addresses
    <2>2. \A p \in Page : p.size # 0
      BY Sizes DEF Page
    <2> QED BY <2>1, <2>2 DEF NoPage
  <1>2. InHand \subseteq pins
    BY InHandIs, HandsAre DEF RemovedRight
  <1>3. \A a \in VA : Translates(a) => vm[a] = "ali" /\ PageOf(a) \in pins /\ PageOf(a) \notin InHand
    BY <1>1, PageIs DEF TranslatesPinned
  <1> QED BY <1>1, <1>2, <1>3

\* A step of bufferAllocate touches no page that is in hand.
LEMMA MakesHands ==
  ASSUME AalInv, NEW t \in Thread, Others(t), ~HasInHand(t), ~HasInHand(t)', op[t].pc # "leaf", op'[t].pc # "leaf",
         pins \subseteq pins', hw' = hw, LeavesKept(t), EntersRight(t)',
         op[t].pc \in {"idle"} \union Clearing => UNCHANGED <<pins, table>>
  PROVE  Hands'
  <1>1. TypeOK /\ Shapes /\ Hands
    BY DEF AalInv
  <1>2. HandsApart'
    BY <1>1, HandsElse, HandsAre DEF HandsApart
  <1>3. ASSUME NEW u \in Thread \ {t} PROVE EntersRight(u)' /\ LeafRight(u)' /\ RemovedRight(u)'
    <2>1. op'[u] = op[u]
      BY DEF Others
    <2>2. RemovedRight(u)'
      <3>1. RemovedRight(u)
        BY <1>1, HandsAre
      <3> QED BY <2>1, <3>1 DEF RemovedRight, HasInHand, Removed
    <2>3. LeafRight(u)'
      BY <2>1 DEF LeafRight, AtLeaf, LeavesKept
    <2>4. EntersRight(u)'
      <3>1. CASE op[u].pc \notin {"insert", "replace"}
        BY <2>1, <3>1 DEF EntersRight
      <3>2. CASE op[u].pc \in {"insert", "replace"}
        <4>1. op[t].pc \in {"idle"} \union Clearing
          BY <1>1, <3>2, OneAllocates DEF InAlloc, Making
        <4>2. UNCHANGED <<pins, root, node, ptov, freeList>>
          BY <4>1 DEF table
        <4>3. InHand' = InHand /\ Pending(u)' = Pending(u)
          BY HandsElse
        <4>4. EntersRight(u)
          BY <1>1, HandsAre
        <4> QED BY <2>1, <4>2, <4>3, <4>4 DEF EntersRight, Translates, InRoot, InNode, PtoV
      <3> QED BY <3>1, <3>2
    <2> QED BY <2>2, <2>3, <2>4
  <1>4. LeafRight(t)' /\ RemovedRight(t)'
    BY DEF LeafRight, RemovedRight, HasInHand
  <1> QED BY <1>2, <1>3, <1>4, HandsAre

LEMMA PinsHands ==
  ASSUME AalInv, NEW t \in Thread, Pins(t)
  PROVE  EntersRight(t)'
  <1>1. TypeOK /\ Shapes /\ Addresses /\ TranslatesPinned /\ Hands
    BY DEF AalInv
  <1> DEFINE s == Within(Pending(t))
  <1>2. /\ op[t].pc = "pin" /\ s \subseteq VA /\ (\A a \in s : vm[a] = "free") /\ pins' = pins \union {Pending(t)}
        /\ Moves(t, "insert") /\ UNCHANGED table
    BY DEF Pins, PinDoes, AllFree
  <1>3. Others(t) /\ op'[t].pc = "insert" /\ Pending(t)' = Pending(t) /\ ~HasInHand(t) /\ ~HasInHand(t)'
    BY <1>2 DEF Moves, Pending, HasInHand
  <1>4. InHand' = InHand
    BY <1>3, HandsElse
  <1>5. op[t].va \in s
    <2>1. op[t].va \in Nat /\ op[t].size \in {1, Large}
      BY <1>1, <1>2, CallIs, AllocIs DEF InAlloc, Making
    <2> QED BY <2>1, SpanIs, Sizes DEF Pending
  <1>6. Pending(t) \notin InHand
    BY <1>1, <1>2, <1>5, PinnedIs
  <1>7. \A a \in s : ~Translates(a)
    BY <1>1, <1>2, PinnedIs
  <1>8. \A a \in s : ~Translates(a)'
    BY <1>2, <1>7, TableUnchanged DEF table, TableKept, Same
  <1> QED BY <1>2, <1>3, <1>4, <1>6, <1>8 DEF EntersRight

LEMMA PushesHands ==
  ASSUME AalInv, NEW t \in Thread, Pushes(t)
  PROVE  EntersRight(t)'
  <1>1. TypeOK /\ Shapes /\ Addresses /\ Hands
    BY DEF AalInv
  <1>2. /\ op[t].pc = "insert" /\ Moves(t, "replace") /\ TableKept /\ pins' = pins
        /\ \E n \in Node : freeList' = n /\ n # 0 /\ root'[RegionOf(op[t].va)] = Link(n)
    BY DEF Pushes, PushDoes
  <1>3. Others(t) /\ op'[t].pc = "replace" /\ op'[t].va = op[t].va /\ Pending(t)' = Pending(t)
        /\ ~HasInHand(t) /\ ~HasInHand(t)'
    BY <1>2 DEF Moves, Pending, HasInHand
  <1>4. InHand' = InHand
    BY <1>3, HandsElse
  <1>5. /\ Pending(t) \in pins \ InHand
        /\ \A a \in Within(Pending(t)) : ~Translates(a) /\ a \in VA
    BY <1>1, <1>2, PendingIs DEF Hands
  <1>6. \A a \in Within(Pending(t)) : ~Translates(a)'
    BY <1>2, <1>5 DEF TableKept, Same
  <1> QED BY <1>2, <1>3, <1>4, <1>5, <1>6 DEF EntersRight

LEMMA HandsMakes ==
  ASSUME AalInv, NEW t \in Thread, Makes(t)
  PROVE  Hands'
  <1>1. TypeOK /\ Shapes /\ Hands
    BY DEF AalInv
  <1>2. /\ Others(t) /\ pins \subseteq pins' /\ hw' = hw
        /\ op[t].pc \notin {"leaf", "inval", "give"} /\ op'[t].pc \notin {"leaf", "inval", "give"}
        /\ op[t].pc \in {"idle"} \union Clearing => UNCHANGED <<pins, table>>
    BY IdleIs DEF Makes, Calls, GivesUp, Abandons, Ends, Reserves, ReserveDoes, Shrinks, ShrinkDoes, Pins, PinDoes,
           Retreats, FallsBack, Enters, InsertDoes, Pushes, PushDoes, Moves, Continues, ContinueDoes,
           Finishes, FinishDoes, Restores, RestoreDoes, Clearing
  <1>3. ~HasInHand(t) /\ ~HasInHand(t)'
    BY <1>2 DEF HasInHand
  <1>4. LeavesKept(t)
    <2>1. CASE UNCHANGED table
      <3>1. \A u \in Thread : LeafRight(u)
        BY <1>1, HandsAre
      <3> QED BY <2>1, <3>1 DEF table, LeavesKept, LeafRight, AtLeaf
    <2>2. CASE PagesKept
      BY <1>1, <2>2, LeavesAre, HandsAre DEF LeafRight
    <2> QED BY <2>1, <2>2 DEF Makes, Calls, GivesUp, Abandons, Reserves, Shrinks, Pins, Retreats, FallsBack,
           Enters, InsertDoes, Pushes, PushDoes, Continues, Finishes, Restores
  <1>5. EntersRight(t)'
    <2>1. CASE op'[t].pc \notin {"insert", "replace"}
      BY <2>1 DEF EntersRight
    <2>2. CASE op'[t].pc \in {"insert", "replace"}
      <3>1. Pins(t) \/ Pushes(t)
        BY <2>2, IdleIs DEF Makes, Calls, GivesUp, Abandons, Ends, Reserves, ReserveDoes, Shrinks, ShrinkDoes,
           Retreats, FallsBack, Enters, InsertDoes, Moves, Continues, ContinueDoes,
           Finishes, FinishDoes, Restores, RestoreDoes
      <3> QED BY <3>1, PinsHands, PushesHands
    <2> QED BY <2>1, <2>2
  <1> QED BY <1>2, <1>3, <1>4, <1>5, MakesHands

LEMMA TranslatesMakes ==
  ASSUME AalInv, NEW t \in Thread, Makes(t)
  PROVE  TranslatesPinned'
  <1>1. TypeOK /\ Shapes /\ Addresses /\ Hands /\ TranslatesPinned
    BY DEF AalInv
  <1>2. /\ Others(t) /\ pins \subseteq pins' /\ hw' = hw
        /\ op[t].pc \notin {"inval", "give"} /\ op'[t].pc \notin {"inval", "give"}
    BY IdleIs DEF Makes, Calls, GivesUp, Abandons, Ends, Reserves, ReserveDoes, Shrinks, ShrinkDoes, Pins, PinDoes,
           Retreats, FallsBack, Enters, InsertDoes, Pushes, PushDoes, Moves, Continues, ContinueDoes,
           Finishes, FinishDoes, Restores, RestoreDoes
  <1>3. InHand' = InHand
    BY <1>2, HandsElse DEF HasInHand
  <1>4. ASSUME NEW a \in VA, Translates(a)' PROVE PageOf(a)' \in pins' \ InHand
    <2>1. CASE Same(a)
      <3>1. PageOf(a)' = PageOf(a) /\ Translates(a)
        BY <1>4, <2>1 DEF Same
      <3> QED BY <1>1, <1>2, <1>3, <3>1 DEF TranslatesPinned
    <2>2. CASE Enters(t)
      <3>1. op[t].pc \in {"insert", "replace"} /\ Entered(Pending(t), op[t].flags)
        BY <2>2 DEF Enters, InsertDoes
      <3>2. PageOf(a)' = Pending(t) \/ Same(a)
        BY <3>1 DEF Entered
      <3>3. Pending(t) \in pins \ InHand
        BY <1>1, <3>1 DEF Hands
      <3> QED BY <1>2, <2>1, <3>2, <3>3
    <2>3. CASE ~Enters(t)
      <3>1. TableKept
        BY <2>3, TableSame DEF Makes, Calls, GivesUp, Abandons, Reserves, Shrinks, Pins, Retreats, FallsBack,
           Pushes, PushDoes, Continues, Finishes, Restores
      <3> QED BY <2>1, <3>1 DEF TableKept
    <2> QED BY <2>2, <2>3
  <1>5. hw'.tlb # NoPage => hw'.tlb \in pins'
    BY <1>1, <1>2 DEF TranslatesPinned
  <1> QED BY <1>3, <1>4, <1>5 DEF TranslatesPinned

\* A step of bufferFree leaves the page that another call is about to enter.
LEMMA ClearsEnters ==
  ASSUME AalInv, NEW t \in Thread, Clears(t), NEW u \in Thread \ {t}
  PROVE  EntersRight(u)'
  <1>1. TypeOK /\ Shapes /\ Addresses /\ Hands /\ Claims
    BY DEF AalInv
  <1>2. Others(t) /\ op'[u] = op[u]
    BY DEF Others, Clears, Opens, Removes, Takes, Lowers, Descends, Tells, Moves, Drops, Leaves, Ends, Gives, GiveDoes
  <1>3. CASE op[u].pc \notin {"insert", "replace"}
    BY <1>2, <1>3 DEF EntersRight
  <1>4. CASE op[u].pc \in {"insert", "replace"}
    <2> DEFINE p == Pending(u)
    <2>1. p \in pins \ InHand /\ (\A a \in Within(p) : ~Translates(a)) /\ Within(p) \subseteq VA /\ p' = p
      BY <1>1, <1>2, <1>4, PendingIs DEF Hands, Pending
    <2>2. op[u].pc = "replace" => root[RegionOf(op[u].va)] = Link(freeList) /\ freeList # 0
      BY <1>1 DEF Hands
    <2>3. RegionOf(op[u].va) \in Region
      BY <1>1, <1>4, PendingIs, RegionIs
    <2> HIDE DEF p
    <2>4. CASE Removes(t)
      <3>1. op[t].pc \in {"walk", "leaf"} /\ Takes(t) /\ pins' = pins
        BY <2>4 DEF Removes, Takes
      <3> DEFINE q == PageOf(op[t].va)
      <3>2. op[t].va \in VA /\ Translates(op[t].va) /\ q.va = op[t].va /\ op[t].va \in Within(q)
        BY <1>1, <3>1, WalkFinds, PageIs
      <3>3. q \in Page /\ q = [va |-> op[t].va, size |-> q.size]
        <4>1. q \in Page
          BY <1>1, <3>2, PageIs
        <4> HIDE DEF q
        <4> QED BY <3>2, <4>1 DEF Page
      <3>4. Removed(t)' = q
        BY <3>1, <3>3 DEF Takes, Removed
      <3>5. p # q
        BY <2>1, <3>2
      <3>6. p \notin InHand'
        BY <1>2, <2>1, <3>4, <3>5, HandsElse
      <3>7. Dropped(q) /\ LinksKept
        BY <3>1 DEF Takes
      <3>8. \A a \in Within(p) : ~Translates(a)'
        BY <2>1, <3>7 DEF Dropped, Same
      <3>9. op[u].pc = "replace" => root'[RegionOf(op[u].va)] = Link(freeList')
        BY <2>2, <2>3, <3>7, LinkIs DEF LinksKept
      <3>10. op[u].pc = "replace" => freeList' # 0
        BY <2>2, <3>7 DEF LinksKept
      <3>11. p' \in pins' \ InHand' /\ \A a \in Within(p)' : ~Translates(a)'
        BY <2>1, <3>1, <3>6, <3>8 DEF Within
      <3> QED BY <1>2, <3>9, <3>10, <3>11 DEF EntersRight, p
    <2>5. CASE ~Removes(t)
      <3>1. /\ UNCHANGED table /\ pins \ {Removed(t)} \subseteq pins' /\ (HasInHand(t)' => HasInHand(t))
            /\ HasInHand(t)' => Removed(t)' = Removed(t)
            /\ pins' # pins => HasInHand(t)
        BY <2>5, IdleIs DEF Clears, Opens, Lowers, Descends, Tells, Moves, Drops, Leaves, Ends, Gives, GiveDoes,
           HasInHand, Removed
      <3>2. HasInHand(t) => Removed(t) \in InHand
        BY InHandIs
      <3>3. p \in pins'
        BY <2>1, <3>1, <3>2
      <3>4. p \notin InHand'
        BY <1>2, <2>1, <3>1, <3>2, HandsElse
      <3>5. \A a \in Within(p) : ~Translates(a)'
        BY <2>1, <3>1, TableSame DEF TableKept, Same
      <3>6. p' \in pins' \ InHand' /\ \A a \in Within(p)' : ~Translates(a)'
        BY <2>1, <3>3, <3>4, <3>5 DEF Within
      <3>7. freeList' = freeList /\ root' = root
        BY <3>1 DEF table
      <3> QED BY <1>2, <2>2, <3>6, <3>7 DEF EntersRight, p
    <2> QED BY <2>4, <2>5
  <1> QED BY <1>3, <1>4

LEMMA LeavesOn ==
  ASSUME AalInv, NEW t \in Thread, Clears(t)
  PROVE  LeavesKept(t)
  <1>1. CASE Removes(t)
    BY <1>1 DEF Removes, Takes
  <1>2. CASE ~Removes(t)
    <2>1. UNCHANGED table
      BY <1>2 DEF Clears, Opens, Lowers, Descends, Tells, Drops, Leaves, Gives
    <2>2. \A u \in Thread : LeafRight(u)
      BY HandsAre DEF AalInv
    <2> QED BY <2>1, <2>2 DEF table, LeavesKept, LeafRight, AtLeaf
  <1> QED BY <1>1, <1>2

LEMMA ClearsLeaves ==
  ASSUME AalInv, NEW t \in Thread, Clears(t)
  PROVE  \A u \in Thread : LeafRight(u)'
  <1>1. Others(t)
    BY DEF Clears, Opens, Removes, Takes, Lowers, Descends, Tells, Moves, Drops, Leaves, Ends, Gives, GiveDoes
  <1>2. ASSUME NEW u \in Thread \ {t} PROVE LeafRight(u)'
    <2>1. op'[u] = op[u]
      BY <1>1 DEF Others
    <2>2. LeavesKept(t)
      BY LeavesOn
    <2> QED BY <2>1, <2>2 DEF LeafRight, AtLeaf, LeavesKept
  <1>3. LeafRight(t)'
    <2>1. CASE Lowers(t)
      <3>1. /\ op'[t].va = op[t].va /\ root' = root /\ node' = node
            /\ root[RegionOf(op[t].va)] = Link(op'[t].node) /\ node[op'[t].node][op[t].va % Large].is = "page"
        BY <2>1 DEF Lowers, Descends, table
      <3> QED BY <3>1 DEF LeafRight, AtLeaf
    <2>2. CASE ~Lowers(t)
      <3>1. op'[t].pc # "leaf"
        BY <2>2, IdleIs DEF Clears, Opens, Removes, Takes, Tells, Moves, Drops, Leaves, Ends, Gives, GiveDoes
      <3> QED BY <3>1 DEF LeafRight
    <2> QED BY <2>1, <2>2
  <1> QED BY <1>2, <1>3

\* The page that a call of bufferFree takes out of the table is pinned and no other's.
LEMMA TakesPage ==
  ASSUME AalInv, NEW t \in Thread, Removes(t)
  PROVE  /\ Removed(t)' = PageOf(op[t].va) /\ HasInHand(t)' /\ ~HasInHand(t) /\ op'[t].pc = "inval"
         /\ Removed(t)' \in pins /\ Removed(t)' \notin InHand
         /\ Removed(t)' \in Page /\ op[t].va \in VA /\ Dropped(PageOf(op[t].va))
  <1>1. TypeOK /\ Shapes /\ TranslatesPinned /\ Claims
    BY DEF AalInv
  <1>2. op[t].pc \in {"walk", "leaf"} /\ Takes(t)
    BY DEF Removes
  <1> DEFINE q == PageOf(op[t].va)
  <1>3. op[t].va \in VA /\ Translates(op[t].va) /\ q.va = op[t].va
    BY <1>1, <1>2, WalkFinds
  <1>4. q \in Page
    BY <1>1, <1>3, PageIs
  <1>5. /\ op'[t].pc = "inval" /\ op'[t].va = op[t].va /\ op'[t].size = q.size /\ Dropped(q)
    BY <1>2 DEF Takes
  <1>6. q \in pins \ InHand
    BY <1>1, <1>3 DEF TranslatesPinned
  <1> HIDE DEF q
  <1>7. Removed(t)' = q
    BY <1>3, <1>4, <1>5 DEF Removed, Page
  <1> QED BY <1>2, <1>3, <1>4, <1>5, <1>6, <1>7 DEF HasInHand, q

LEMMA HandsClears ==
  ASSUME AalInv, NEW t \in Thread, Clears(t)
  PROVE  Hands'
  <1>1. TypeOK /\ Addresses /\ Hands /\ TranslatesPinned
    BY DEF AalInv
  <1>2. Others(t)
    BY DEF Clears, Opens, Removes, Takes, Lowers, Descends, Tells, Moves, Drops, Leaves, Ends, Gives, GiveDoes
  <1>3. HandsApart /\ \A u \in Thread : RemovedRight(u)
    BY <1>1, HandsAre
  <1>4. \A u \in Thread : EntersRight(u)'
    <2>1. EntersRight(t)'
      <3>1. op'[t].pc \notin {"insert", "replace"}
        BY IdleIs DEF Clears, Opens, Removes, Takes, Lowers, Descends, Tells, Moves, Drops, Leaves, Ends, Gives, GiveDoes
      <3> QED BY <3>1 DEF EntersRight
    <2> QED BY <2>1, ClearsEnters
  <1>5. \A u \in Thread : LeafRight(u)'
    BY ClearsLeaves
  <1>6. \A u \in Thread \ {t} : (HasInHand(u)' <=> HasInHand(u)) /\ Removed(u)' = Removed(u) /\ op'[u] = op[u]
    BY <1>2, HandsElse DEF Others
  <1>7. \A u \in Thread : HasInHand(u) => Removed(u) \in pins /\ Removed(u) # NoPage
    BY <1>1, <1>3, PinnedIs DEF RemovedRight
  <1>8. CASE Removes(t)
    <2>1. pins' = pins /\ hw' = hw
      BY <1>8 DEF Removes, Takes
    <2>2. /\ Removed(t)' \in pins /\ op'[t].pc = "inval" /\ ~HasInHand(t)
          /\ \A u \in Thread : HasInHand(u) => Removed(u) # Removed(t)'
      BY <1>8, TakesPage, InHandIs
    <2>3. HandsApart'
      BY <1>3, <1>6, <2>2 DEF HandsApart
    <2>4. \A u \in Thread : RemovedRight(u)'
      BY <1>3, <1>6, <2>1, <2>2 DEF RemovedRight
    <2> QED BY <1>4, <1>5, <2>3, <2>4, HandsAre
  <1>9. CASE Tells(t)
    <2>1. /\ op[t].pc = "inval" /\ pins' = pins /\ hw'.tlb \in {NoPage, hw.tlb} /\ hw'.tlb # Removed(t)
          /\ op'[t].pc = "give" /\ Removed(t)' = Removed(t)
      <3>1. hw' = IF hw.tlb = Removed(t) THEN [hw EXCEPT !.tlb = NoPage] ELSE hw
        BY <1>9 DEF Tells
      <3>2. hw \in [on : BOOLEAN, root : BOOLEAN, tlb : Page \union {NoPage}]
        BY <1>1 DEF TypeOK
      <3>3. op[t].pc = "inval" /\ pins' = pins /\ op'[t].pc = "give" /\ Removed(t)' = Removed(t)
        BY <1>9 DEF Tells, Moves, Removed
      <3>4. Removed(t) # NoPage
        BY <1>7, <3>3 DEF HasInHand
      <3> QED BY <3>1, <3>2, <3>3, <3>4
    <2>2. HasInHand(t)' /\ HasInHand(t)
      BY <2>1 DEF HasInHand
    <2>3. HandsApart'
      BY <1>3, <1>6, <2>1, <2>2 DEF HandsApart
    <2>4. ASSUME NEW u \in Thread PROVE RemovedRight(u)'
      <3>1. CASE u = t
        BY <1>3, <2>1, <2>2, <3>1 DEF RemovedRight
      <3>2. CASE u # t
        <4>1. RemovedRight(u) /\ (HasInHand(u) => Removed(u) # NoPage) /\ (op[u].pc = "give" => HasInHand(u))
          BY <1>3, <1>7 DEF HasInHand
        <4> QED BY <1>6, <2>1, <3>2, <4>1 DEF RemovedRight
      <3> QED BY <3>1, <3>2
    <2> QED BY <1>4, <1>5, <2>3, <2>4, HandsAre
  <1>10. CASE Gives(t)
    <2>1. op[t].pc = "give" /\ pins' = pins \ {Removed(t)} /\ hw' = hw /\ ~HasInHand(t)' /\ op'[t].pc # "give"
      BY <1>10, IdleIs DEF Gives, GiveDoes, Ends, HasInHand
    <2>2. HasInHand(t)
      BY <2>1 DEF HasInHand
    <2>3. HandsApart'
      BY <1>3, <1>6, <2>1 DEF HandsApart
    <2>4. \A u \in Thread : RemovedRight(u)'
      BY <1>3, <1>6, <2>1, <2>2 DEF RemovedRight, HandsApart
    <2> QED BY <1>4, <1>5, <2>3, <2>4, HandsAre
  <1>11. CASE Opens(t) \/ Lowers(t) \/ Drops(t)
    <2>1. pins' = pins /\ hw' = hw /\ ~HasInHand(t)' /\ op'[t].pc # "give"
      BY <1>11, IdleIs DEF Opens, Lowers, Descends, Drops, Leaves, Ends, HasInHand
    <2>2. HandsApart'
      BY <1>3, <1>6, <2>1 DEF HandsApart
    <2>3. \A u \in Thread : RemovedRight(u)'
      BY <1>3, <1>6, <2>1 DEF RemovedRight
    <2> QED BY <1>4, <1>5, <2>2, <2>3, HandsAre
  <1> QED BY <1>8, <1>9, <1>10, <1>11 DEF Clears

LEMMA TranslatesClears ==
  ASSUME AalInv, NEW t \in Thread, Clears(t)
  PROVE  TranslatesPinned'
  <1>1. TypeOK /\ Shapes /\ Addresses /\ Hands /\ TranslatesPinned
    BY DEF AalInv
  <1>2. Others(t)
    BY DEF Clears, Opens, Removes, Takes, Lowers, Descends, Tells, Moves, Drops, Leaves, Ends, Gives, GiveDoes
  <1>3. \A a \in VA : Translates(a) => PageOf(a) \in pins \ InHand
    BY <1>1 DEF TranslatesPinned
  <1>4. HasInHand(t) => Removed(t) \in InHand
    BY InHandIs
  <1>5. CASE Removes(t)
    <2> DEFINE q == PageOf(op[t].va)
    <2>1. Removed(t)' = q /\ op[t].va \in VA /\ Dropped(q) /\ pins' = pins /\ hw' = hw
      BY <1>5, TakesPage DEF Removes, Takes
    <2>2. ASSUME NEW a \in VA, Translates(a)' PROVE PageOf(a)' \in pins' \ InHand'
      <3>1. a \notin Within(q) /\ Translates(a) /\ PageOf(a)' = PageOf(a)
        BY <2>1, <2>2 DEF Dropped, Same
      <3>2. PageOf(a) # q
        BY <1>1, <3>1, PageIs
      <3>3. PageOf(a) \in pins \ InHand
        BY <1>3, <3>1
      <3> QED BY <1>2, <2>1, <3>1, <3>2, <3>3, HandsElse
    <2>3. hw'.tlb # NoPage => hw'.tlb \in pins'
      BY <1>1, <2>1 DEF TranslatesPinned
    <2> QED BY <2>2, <2>3 DEF TranslatesPinned
  <1>6. CASE ~Removes(t)
    <2>1. /\ UNCHANGED table /\ pins \ {Removed(t)} \subseteq pins' /\ (HasInHand(t)' => HasInHand(t))
          /\ HasInHand(t)' => Removed(t)' = Removed(t)
          /\ pins' # pins => HasInHand(t)
      BY <1>6, IdleIs DEF Clears, Opens, Lowers, Descends, Tells, Moves, Drops, Leaves, Ends, Gives, GiveDoes,
         HasInHand, Removed
    <2>2. ASSUME NEW a \in VA, Translates(a)' PROVE PageOf(a)' \in pins' \ InHand'
      <3>1. Translates(a) /\ PageOf(a)' = PageOf(a)
        BY <2>1, <2>2, TableSame DEF TableKept, Same
      <3>2. PageOf(a) \in pins \ InHand
        BY <1>3, <3>1
      <3> QED BY <1>2, <1>4, <2>1, <3>1, <3>2, HandsElse
    <2>3. hw'.tlb # NoPage => hw'.tlb \in pins'
      <3>1. CASE Gives(t)
        <4>1. op[t].pc = "give" /\ hw' = hw /\ pins' = pins \ {Removed(t)}
          BY <3>1 DEF Gives, GiveDoes
        <4>2. hw.tlb # Removed(t)
          BY <1>1, <4>1 DEF Hands
        <4> QED BY <1>1, <4>1, <4>2 DEF TranslatesPinned
      <3>2. CASE ~Gives(t)
        <4>1. pins' = pins /\ hw'.tlb \in {NoPage, hw.tlb}
          <5>1. hw \in [on : BOOLEAN, root : BOOLEAN, tlb : Page \union {NoPage}]
            BY <1>1 DEF TypeOK
          <5> QED BY <1>6, <3>2, <5>1 DEF Clears, Opens, Lowers, Descends, Tells, Drops, Leaves
        <4> QED BY <1>1, <4>1 DEF TranslatesPinned
      <3> QED BY <3>1, <3>2
    <2> QED BY <2>2, <2>3 DEF TranslatesPinned
  <1> QED BY <1>5, <1>6

LEMMA HandsElsewhere ==
  ASSUME AalInv, Rests \/ Maps
  PROVE  Hands' /\ TranslatesPinned'
  <1>1. TypeOK /\ Addresses /\ Hands /\ TranslatesPinned
    BY DEF AalInv
  <1>2. UNCHANGED <<op, pins, root, node, ptov, freeList>>
    BY DEF Rests, Maps, table
  <1>3. hw'.tlb \in {NoPage, hw.tlb} \/ \E a \in VA : Translates(a) /\ hw'.tlb = PageOf(a)
    BY DEF Rests, Maps
  <1>4. InHand' = InHand /\ InHand \subseteq pins
    BY <1>1, <1>2, PinnedIs DEF InHand, Removed
  <1>5. /\ HandsApart /\ \A u \in Thread : EntersRight(u) /\ LeafRight(u) /\ RemovedRight(u)
        /\ \A u \in Thread : HasInHand(u) => Removed(u) \in InHand /\ Removed(u) # NoPage
    BY <1>1, <1>4, HandsAre, InHandIs, PinnedIs
  <1>6. \A u \in Thread : EntersRight(u)' /\ LeafRight(u)'
    BY <1>2, <1>4, <1>5 DEF EntersRight, LeafRight, AtLeaf, Translates, InRoot, InNode, PtoV, Pending
  <1>7. HandsApart'
    BY <1>2, <1>5 DEF HandsApart, HasInHand, Removed
  <1>8. ASSUME NEW u \in Thread PROVE RemovedRight(u)'
    <2>1. (HasInHand(u)' <=> HasInHand(u)) /\ Removed(u)' = Removed(u) /\ op' = op /\ pins' = pins
      BY <1>2 DEF HasInHand, Removed
    <2>2. RemovedRight(u) /\ (HasInHand(u) => Removed(u) \in InHand /\ Removed(u) # NoPage)
      BY <1>5
    <2>3. op[u].pc = "give" => HasInHand(u)
      BY DEF HasInHand
    <2>4. \A a \in VA : Translates(a) => PageOf(a) \notin InHand
      BY <1>1 DEF TranslatesPinned
    <2> QED BY <1>3, <2>1, <2>2, <2>3, <2>4 DEF RemovedRight
  <1>9. TranslatesPinned'
    <2>1. \A a \in VA : (Translates(a)' <=> Translates(a)) /\ PageOf(a)' = PageOf(a)
      BY <1>2 DEF Translates, InRoot, InNode, PtoV, PageOf
    <2>2. \A a \in VA : Translates(a) => PageOf(a) \in pins \ InHand
      BY <1>1 DEF TranslatesPinned
    <2>3. hw'.tlb # NoPage => hw'.tlb \in pins'
      BY <1>1, <1>2, <1>3, <2>2 DEF TranslatesPinned
    <2> QED BY <1>2, <1>4, <2>1, <2>2, <2>3 DEF TranslatesPinned
  <1> QED BY <1>6, <1>7, <1>8, <1>9, HandsAre

-----------------------------------------------------------------------------
(* The ranges that buffers and calls lay claim to.                         *)

\* What Run says of the table after the step.
RunNext(from, end) ==
    \A a \in from .. end - 1 :
        /\ Translates(a)'
        /\ from <= PageOf(a)'.va /\ PageOf(a)'.va + PageOf(a)'.size <= end
        /\ EntryOf(a)'.flags.end <=> PageOf(a)'.va + PageOf(a)'.size = end

LEMMA RunKept ==
  ASSUME NEW from, NEW end, Run(from, end), \A a \in from .. end - 1 : Same(a)
  PROVE  RunNext(from, end)
  BY DEF Run, RunNext, Same

LEMMA ClaimsAre ==
  ASSUME \A t \in Thread : RunNext(From(op'[t]), To(op'[t])),
         \A b \in Untouched' : RunNext(b.base, End(b)),
         \A t, u \in Thread : t # u => Owned(t)' \intersect Owned(u)' = {},
         \A t \in Thread : \A b \in Untouched' : Owned(t)' \intersect Span(b.base, b.len) = {},
         \A b, c \in Untouched' : b # c => Span(b.base, b.len) \intersect Span(c.base, c.len) = {}
  PROVE  Claims'
  BY DEF Claims, Run, RunNext

\* The claims of the other threads and of the buffers are in the table as before.
RestKept(t) ==
    /\ \A u \in Thread \ {t} : \A a \in Owned(u) : Same(a)
    /\ \A b \in Untouched : \A a \in Span(b.base, b.len) : Same(a)

LEMMA ElseKept ==
  ASSUME TypeOK, Shapes, Claims, NEW t \in Thread, Others(t), RestKept(t)
  PROVE  /\ \A u \in Thread \ {t} : RunNext(From(op'[u]), To(op'[u])) /\ Owned(u)' = Owned(u)
         /\ \A b \in Untouched : RunNext(b.base, End(b))
  <1>1. ASSUME NEW u \in Thread \ {t} PROVE RunNext(From(op'[u]), To(op'[u])) /\ Owned(u)' = Owned(u)
    <2>1. op'[u] = op[u]
      BY DEF Others
    <2>2. Run(From(op[u]), To(op[u])) /\ \A a \in From(op[u]) .. To(op[u]) - 1 : Same(a)
      BY DEF Claims, RestKept, Owned
    <2>3. RunNext(From(op[u]), To(op[u]))
      BY <2>2, RunKept
    <2> QED BY <2>1, <2>3 DEF Owned
  <1>2. ASSUME NEW b \in Untouched PROVE RunNext(b.base, End(b))
    <2>1. Span(b.base, b.len) = b.base .. End(b) - 1
      BY DEF Span, End
    <2>2. Run(b.base, End(b)) /\ \A a \in b.base .. End(b) - 1 : Same(a)
      BY <2>1 DEF Claims, RestKept
    <2> QED BY <2>2, RunKept
  <1> QED BY <1>1, <1>2

LEMMA ClaimsElse ==
  ASSUME TypeOK, Shapes, Claims, NEW t \in Thread, Others(t), RestKept(t), Untouched' \subseteq Untouched,
         RunNext(From(op'[t]), To(op'[t])),
         \A u \in Thread \ {t} : Owned(t)' \intersect Owned(u) = {},
         \A b \in Untouched' : Owned(t)' \intersect Span(b.base, b.len) = {}
  PROVE  Claims'
  <1>1. /\ \A u \in Thread \ {t} : RunNext(From(op'[u]), To(op'[u])) /\ Owned(u)' = Owned(u)
        /\ \A b \in Untouched : RunNext(b.base, End(b))
    BY ElseKept
  <1>2. \A u \in Thread : RunNext(From(op'[u]), To(op'[u]))
    BY <1>1
  <1>3. \A u, w \in Thread : u # w => Owned(u)' \intersect Owned(w)' = {}
    <2>1. \A u, w \in Thread \ {t} : u # w => Owned(u)' \intersect Owned(w)' = {}
      BY <1>1 DEF Claims
    <2>2. \A u \in Thread \ {t} : Owned(t)' \intersect Owned(u)' = {}
      BY <1>1
    <2> QED BY <2>1, <2>2
  <1>4. \A u \in Thread : \A b \in Untouched' : Owned(u)' \intersect Span(b.base, b.len) = {}
    BY <1>1 DEF Claims
  <1>5. \A b, c \in Untouched' : b # c => Span(b.base, b.len) \intersect Span(c.base, c.len) = {}
    BY DEF Claims
  <1> QED BY <1>1, <1>2, <1>3, <1>4, <1>5, ClaimsAre

LEMMA StartsElse ==
  ASSUME TypeOK, Shapes, Claims, Starts, NEW t \in Thread, Others(t), RestKept(t), Untouched' \subseteq Untouched,
         StartsRight(t)'
  PROVE  Starts'
  <1>1. ASSUME NEW u \in Thread \ {t} PROVE StartsRight(u)'
    <2>1. op'[u] = op[u] /\ Owned(u)' = Owned(u) /\ (InAlloc(u)' <=> InAlloc(u))
      BY DEF Others, Owned, InAlloc
    <2>2. \A a \in Owned(u) : Translates(a) /\ Same(a)
      BY DEF Claims, RestKept, Run, Owned
    <2>3. \A a \in Owned(u) : EntryOf(a)' = EntryOf(a) /\ PageOf(a)' = PageOf(a)
      BY <2>2 DEF Same
    <2>4. StartsRight(u)
      BY DEF Starts
    <2> QED BY <2>1, <2>3, <2>4 DEF StartsRight
  <1>2. ASSUME NEW b \in Untouched', NEW a \in Span(b.base, b.len)
        PROVE  IF PageOf(a)'.va = b.base THEN EntryOf(a)'.flags.start ELSE EntryOf(a)'.flags.start => b.fell
    <2>1. b \in Untouched /\ Span(b.base, b.len) = b.base .. End(b) - 1
      BY DEF Span, End
    <2>2. Translates(a) /\ Same(a)
      BY <2>1 DEF Claims, RestKept, Run
    <2>3. EntryOf(a)' = EntryOf(a) /\ PageOf(a)' = PageOf(a)
      BY <2>2 DEF Same
    <2> QED BY <2>1, <2>3 DEF Starts
  <1> QED BY <1>1, <1>2 DEF Starts

LEMMA UntouchedLess ==
  ASSUME TypeOK, Shapes, NEW t \in Thread, Others(t), bufs' \subseteq bufs,
         op'[t].buf = op[t].buf \/ op[t].buf \notin bufs' \/ op[t].buf = NoBuffer
  PROVE  Untouched' \subseteq Untouched
  <1>1. \A b \in bufs : b # NoBuffer
    BY BufferIs
  <1> QED BY <1>1 DEF Untouched, Others

\* The table stays, and the claim of the thread as well or it has none.
LEMMA ClaimsLess ==
  ASSUME TypeOK, Shapes, Claims, Starts, NEW t \in Thread, Others(t), TableKept, Untouched' \subseteq Untouched,
         \/ From(op'[t]) = From(op[t]) /\ To(op'[t]) = To(op[t])
         \/ From(op'[t]) \in Nat /\ To(op'[t]) = From(op'[t]),
         op'[t].pc \in Making =>
             /\ From(op'[t]) # To(op'[t]) => op[t].pc \in Making /\ (op[t].fell => op'[t].fell)
             /\ op[t].pc = "next" => op[t].left # op[t].size
             /\ op'[t].pc # "next"
  PROVE  Claims' /\ Starts'
  <1>1. Owned(t) \subseteq VA /\ Owned(t)' \in {{}, Owned(t)} /\ (Owned(t)' # {} => From(op'[t]) # To(op'[t]))
    <2>1. Owned(t)' = From(op'[t]) .. To(op'[t]) - 1
      BY DEF Owned
    <2>2. Owned(t) = From(op[t]) .. To(op[t]) - 1
      BY DEF Owned
    <2>3. Owned(t) \subseteq VA
      BY OwnedIs
    <2>4. \A x \in Nat : x .. x - 1 = {}
      OBVIOUS
    <2>5. From(op'[t]) \in Nat /\ To(op'[t]) = From(op'[t]) => Owned(t)' = {}
      BY <2>1, <2>4
    <2>6. From(op'[t]) \in Nat
      BY OwnedIs
    <2> QED BY <2>1, <2>2, <2>3, <2>5, <2>6
  <1>2. RestKept(t)
    BY OwnedIs, UntouchedIs DEF RestKept, TableKept
  <1>3. RunNext(From(op'[t]), To(op'[t]))
    <2>1. CASE Owned(t)' = {}
      BY <2>1 DEF RunNext, Owned
    <2>2. CASE From(op'[t]) = From(op[t]) /\ To(op'[t]) = To(op[t])
      <3>1. Run(From(op[t]), To(op[t])) /\ \A a \in From(op[t]) .. To(op[t]) - 1 : Same(a)
        BY <1>1 DEF Claims, TableKept, Owned
      <3>2. RunNext(From(op[t]), To(op[t]))
        BY <3>1, RunKept
      <3> QED BY <2>2, <3>2
    <2>3. CASE From(op'[t]) \in Nat /\ To(op'[t]) = From(op'[t])
      <3>1. \A x \in Nat : x .. x - 1 = {}
        OBVIOUS
      <3> QED BY <2>3, <3>1 DEF RunNext
    <2> QED BY <2>2, <2>3
  <1>4. /\ \A u \in Thread \ {t} : Owned(t)' \intersect Owned(u) = {}
        /\ \A b \in Untouched' : Owned(t)' \intersect Span(b.base, b.len) = {}
    <2>1. Owned(t)' \subseteq Owned(t)
      BY <1>1
    <2> QED BY <2>1 DEF Claims
  <1>5. StartsRight(t)'
    <2>1. SUFFICES ASSUME op'[t].pc \in Making, NEW a \in Owned(t)'
                   PROVE  EntryOf(a)'.flags.start => op'[t].fell
      BY DEF StartsRight, InAlloc
    <2>2. a \in Owned(t) /\ op[t].pc \in Making /\ (op[t].fell => op'[t].fell)
      BY <1>1, <2>1
    <2>3. Translates(a) /\ Same(a)
      BY <1>1, <2>2 DEF Claims, Run, Owned, TableKept
    <2>4. EntryOf(a)' = EntryOf(a)
      BY <2>3 DEF Same
    <2>5. EntryOf(a).flags.start => op[t].fell
      BY <2>1, <2>2 DEF Starts, StartsRight, InAlloc
    <2> QED BY <2>2, <2>4, <2>5
  <1> QED BY <1>2, <1>3, <1>4, <1>5, ClaimsElse, StartsElse

LEMMA FromTo ==
  ASSUME NEW me
  PROVE  /\ me.pc \in {"shrink", "next"} => From(me) = me.va
         /\ me.pc \in {"pin", "insert", "replace", "restore"} => From(me) = me.va + me.size
         /\ me.pc \in Making => To(me) = Bottom(me) + me.whole
         /\ me.pc \in {"walk", "leaf"} => From(me) = me.va
         /\ me.pc \in {"inval", "give"} => From(me) = me.va + me.size
         /\ me.pc \in Clearing => To(me) = End(me.buf)
         /\ me.pc \in {"idle", "reserve"} => From(me) = 0 /\ To(me) = 0
  BY DEF From, To, Done, Ahead, Top, Making, Clearing

LEMMA ClaimsMakes ==
  ASSUME AalInv, NEW t \in Thread, Makes(t), ~Enters(t), ~Finishes(t)
  PROVE  Claims' /\ Starts'
  <1>1. TypeOK /\ Shapes /\ Claims /\ Starts
    BY DEF AalInv
  <1>2. Others(t) /\ TableKept /\ bufs' = bufs /\ op[t].pc \notin Clearing
    BY TableSame DEF Makes, Calls, GivesUp, Abandons, Ends, Reserves, ReserveDoes, Shrinks, ShrinkDoes, Pins, PinDoes,
           Retreats, FallsBack, Pushes, PushDoes, Moves, Continues, ContinueDoes, Restores, RestoreDoes, Clearing
  <1>3. Untouched' \subseteq Untouched
    <2>1. op[t].buf = NoBuffer
      BY <1>1, <1>2 DEF Shapes, Shaped
    <2> QED BY <1>1, <1>2, <2>1, UntouchedLess
  <1>4. CASE Calls(t) \/ GivesUp(t)
    <2>1. op'[t].pc \in {"reserve", "idle"}
      BY <1>4, IdleIs DEF Calls, GivesUp, Abandons, Ends
    <2>2. From(op'[t]) = 0 /\ To(op'[t]) = 0 /\ op'[t].pc \notin Making
      BY <2>1, FromTo DEF Making
    <2> QED BY <1>1, <1>2, <1>3, <2>2, ClaimsLess
  <1>5. CASE Reserves(t)
    <2>1. op[t].pc = "reserve" /\ ReserveDoes(t)
      BY <1>5 DEF Reserves
    <2>2. op'[t].pc = "shrink" /\ Bottom(op'[t]) + op'[t].left = op'[t].va /\ op'[t].left = op'[t].whole
      BY <1>1, <2>1, ReserveShaped
    <2>3. From(op'[t]) = op'[t].va /\ To(op'[t]) = op'[t].va
      BY <2>2, FromTo DEF Making
    <2>4. op'[t].va \in Nat
      <3>1. op'[t].va \in 0 .. Size
        BY <1>2, BoundIs DEF Others, Activity
      <3> QED BY <3>1, Sizes
    <2> QED BY <1>1, <1>2, <1>3, <2>1, <2>2, <2>3, <2>4, ClaimsLess
  <1>6. CASE Shrinks(t)
    <2>1. op[t].pc = "shrink" /\ ShrinkDoes(t)
      BY <1>6 DEF Shrinks
    <2>2. /\ op'[t].pc = "pin" /\ Bottom(op'[t]) = Bottom(op[t]) /\ op'[t].whole = op[t].whole
          /\ op'[t].va + op'[t].size = op[t].va /\ op'[t].fell = op[t].fell
      BY <1>1, <2>1, ShrinkShaped
    <2>3. From(op'[t]) = From(op[t]) /\ To(op'[t]) = To(op[t])
      BY <2>1, <2>2, FromTo DEF Making
    <2> QED BY <1>1, <1>2, <1>3, <2>1, <2>2, <2>3, ClaimsLess DEF Making
  <1>7. CASE Pins(t) \/ Retreats(t) \/ Pushes(t)
    <2>1. /\ op[t].pc \in {"pin", "insert"} /\ op'[t].pc \in {"insert", "replace", "restore"}
          /\ op'[t].va = op[t].va /\ op'[t].size = op[t].size /\ op'[t].left = op[t].left
          /\ op'[t].whole = op[t].whole /\ op'[t].fell = op[t].fell
      BY <1>7 DEF Pins, PinDoes, Retreats, FallsBack, Pushes, PushDoes, Moves
    <2>2. Bottom(op'[t]) = Bottom(op[t])
      BY <2>1 DEF Bottom
    <2>3. From(op'[t]) = From(op[t]) /\ To(op'[t]) = To(op[t])
      BY <2>1, <2>2, FromTo DEF Making
    <2> QED BY <1>1, <1>2, <1>3, <2>1, <2>3, ClaimsLess DEF Making
  <1>8. CASE Continues(t)
    <2>1. /\ op[t].pc = "next" /\ ContinueDoes(t)
          /\ op[t].size < op[t].left /\ op'[t].pc = "shrink" /\ op'[t].va = op[t].va
          /\ op'[t].whole = op[t].whole /\ op'[t].fell = op[t].fell
      BY <1>8 DEF Continues, ContinueDoes
    <2>2. Bottom(op'[t]) = Bottom(op[t])
      BY <1>1, <2>1, ContinueShaped
    <2>3. From(op'[t]) = From(op[t]) /\ To(op'[t]) = To(op[t])
      BY <2>1, <2>2, FromTo DEF Making
    <2>4. op[t].left # op[t].size
      BY <1>1, <2>1, CallIs
    <2> QED BY <1>1, <1>2, <1>3, <2>1, <2>3, <2>4, ClaimsLess DEF Making
  <1>9. CASE Restores(t)
    <2>1. /\ op[t].pc = "restore" /\ RestoreDoes(t) /\ op[t].size = Large
          /\ op'[t].pc = "shrink" /\ op'[t].va = op[t].va + Large
          /\ op'[t].whole = op[t].whole /\ op'[t].fell
      BY <1>9 DEF Restores, RestoreDoes
    <2>2. Bottom(op'[t]) = Bottom(op[t])
      BY <1>1, <2>1, RestoreShaped
    <2>3. From(op'[t]) = From(op[t]) /\ To(op'[t]) = To(op[t])
      BY <2>1, <2>2, FromTo DEF Making
    <2> QED BY <1>1, <1>2, <1>3, <2>1, <2>3, ClaimsLess DEF Making
  <1> QED BY <1>4, <1>5, <1>6, <1>7, <1>8, <1>9 DEF Makes

LEMMA ClaimsClears ==
  ASSUME AalInv, NEW t \in Thread, Clears(t), ~Opens(t), ~Removes(t)
  PROVE  Claims' /\ Starts'
  <1>1. TypeOK /\ Shapes /\ Claims /\ Starts
    BY DEF AalInv
  <1>2. Others(t) /\ TableKept /\ op[t].pc \in Clearing /\ op'[t].pc \notin Making
    BY TableSame, IdleIs DEF Clears, Lowers, Descends, Tells, Moves, Drops, Leaves, Ends, Gives, GiveDoes, Clearing,
           Making
  <1>3. InFree(t) /\ op[t].buf \in bufs
    BY <1>1, <1>2 DEF InFree, Shapes
  <1>4. CASE Ends(t) /\ bufs' = bufs \ {op[t].buf}
    <2>1. Untouched' \subseteq Untouched
      BY <1>1, <1>2, <1>4, UntouchedLess
    <2>2. From(op'[t]) = 0 /\ To(op'[t]) = 0
      BY <1>4, IdleIs, FromTo DEF Ends
    <2> QED BY <1>1, <1>2, <2>1, <2>2, ClaimsLess
  <1>5. CASE ~(Ends(t) /\ bufs' = bufs \ {op[t].buf})
    <2>1. /\ bufs' = bufs /\ op'[t].buf = op[t].buf
          /\ \/ op[t].pc = "walk" /\ op'[t].pc = "leaf" /\ op'[t].va = op[t].va
             \/ op[t].pc = "inval" /\ op'[t].pc = "give" /\ op'[t].va = op[t].va /\ op'[t].size = op[t].size
             \/ op[t].pc = "give" /\ op'[t].pc = "walk" /\ op'[t].va = op[t].va + op[t].size
      BY <1>5 DEF Clears, Lowers, Descends, Tells, Moves, Drops, Leaves, Gives, GiveDoes
    <2>2. Untouched' \subseteq Untouched
      BY <1>1, <1>2, <2>1, UntouchedLess
    <2>3. From(op'[t]) = From(op[t]) /\ To(op'[t]) = To(op[t])
      BY <1>2, <2>1, FromTo DEF Clearing
    <2> QED BY <1>1, <1>2, <2>2, <2>3, ClaimsLess
  <1> QED BY <1>4, <1>5

LEMMA OpensClaims ==
  ASSUME AalInv, NEW t \in Thread, Opens(t)
  PROVE  Claims' /\ Starts'
  <1>1. TypeOK /\ Shapes /\ Claims /\ Starts
    BY DEF AalInv
  <1>2. PICK b \in Untouched :
           /\ op[t].pc = "idle" /\ Others(t) /\ op'[t].pc = "walk" /\ op'[t].va = b.base /\ op'[t].buf = b
           /\ bufs' = bufs /\ UNCHANGED table
    BY DEF Opens
  <1>3. TableKept /\ RestKept(t)
    BY <1>1, <1>2, TableSame, OwnedIs, UntouchedIs DEF RestKept, TableKept
  <1>4. op[t].buf = NoBuffer
    BY <1>1, <1>2 DEF Shapes, Shaped, Clearing
  <1>5. Untouched' \subseteq Untouched \ {b}
    <2>1. Untouched' \subseteq Untouched
      <3>1. \A c \in bufs : c # NoBuffer
        BY <1>1, BufferIs
      <3> QED BY <1>2, <1>4, <3>1 DEF Untouched, Others
    <2>2. b \notin Untouched'
      BY <1>2 DEF Untouched
    <2> QED BY <2>1, <2>2
  <1>6. From(op'[t]) = b.base /\ To(op'[t]) = End(b)
    BY <1>2, FromTo DEF Clearing
  <1>7. RunNext(From(op'[t]), To(op'[t]))
    BY <1>1, <1>2, <1>3, <1>6, ElseKept
  <1>8. Owned(t)' = Span(b.base, b.len)
    BY <1>6 DEF Owned, Span, End
  <1>9. /\ \A u \in Thread \ {t} : Owned(t)' \intersect Owned(u) = {}
        /\ \A c \in Untouched' : Owned(t)' \intersect Span(c.base, c.len) = {}
    BY <1>1, <1>5, <1>8 DEF Claims
  <1>10. StartsRight(t)'
    BY <1>2 DEF StartsRight, InAlloc, Making
  <1>11. Untouched' \subseteq Untouched
    BY <1>5
  <1> QED BY <1>1, <1>2, <1>3, <1>7, <1>9, <1>10, <1>11, ClaimsElse, StartsElse

LEMMA EntersClaims ==
  ASSUME AalInv, NEW t \in Thread, Enters(t)
  PROVE  Claims' /\ Starts'
  <1>1. TypeOK /\ Shapes /\ Addresses /\ Hands /\ Claims /\ Starts
    BY DEF AalInv
  <1> DEFINE p == Pending(t)
  <1>2. /\ op[t].pc \in {"insert", "replace"} /\ Moves(t, "next") /\ Entered(p, op[t].flags) /\ bufs' = bufs
    BY DEF Enters, InsertDoes
  <1>3. /\ Others(t) /\ op'[t].pc = "next" /\ op'[t].va = op[t].va /\ op'[t].size = op[t].size
        /\ op'[t].left = op[t].left /\ op'[t].whole = op[t].whole /\ op'[t].fell = op[t].fell
        /\ op'[t].buf = op[t].buf
    BY <1>2 DEF Moves
  <1>4. InAlloc(t) /\ op[t].pc \notin {"shrink", "next"}
    BY <1>2 DEF InAlloc, Making
  <1>5. /\ p.va = op[t].va /\ p.size = op[t].size /\ Within(p) \subseteq VA /\ p \in pins
        /\ \A a : a \in Within(p) <=> a \in Nat /\ op[t].va <= a /\ a < op[t].va + op[t].size
        /\ \A a \in Within(p) : ~Translates(a)
    BY <1>1, <1>2, PendingIs DEF Pending
  <1> HIDE DEF p
  <1>6. Untouched' \subseteq Untouched
    BY <1>1, <1>2, <1>3, UntouchedLess
  <1>7. \A a \in VA : Translates(a) => Same(a) /\ a \notin Within(p)
    BY <1>2, <1>5 DEF Entered
  <1>8. /\ \A u \in Thread : \A a \in Owned(u) : a \in VA /\ Translates(a)
        /\ \A b \in Untouched : \A a \in Span(b.base, b.len) : a \in VA /\ Translates(a)
    <2>1. ASSUME NEW u \in Thread, NEW a \in Owned(u) PROVE a \in VA /\ Translates(a)
      <3>1. a \in VA
        BY <1>1, OwnedIs
      <3> QED BY <1>1, <3>1 DEF Claims, Run, Owned
    <2>2. ASSUME NEW b \in Untouched, NEW a \in Span(b.base, b.len) PROVE a \in VA /\ Translates(a)
      <3>1. a \in VA /\ a \in b.base .. End(b) - 1
        BY <1>1, UntouchedIs DEF Span, End
      <3> QED BY <1>1, <3>1 DEF Claims, Run
    <2> QED BY <2>1, <2>2
  <1>9. RestKept(t)
    BY <1>7, <1>8 DEF RestKept
  <1>10. /\ op[t].va \in Nat /\ op[t].size \in {1, Large} /\ op[t].size \in Nat /\ To(op[t]) \in Nat
         /\ From(op[t]) = op[t].va + op[t].size /\ From(op[t]) <= To(op[t]) /\ To(op[t]) <= Size
         /\ To(op[t]) = Bottom(op[t]) + op[t].whole /\ Bottom(op[t]) + op[t].left = op[t].va + op[t].size
         /\ Bottom(op[t]) \in Nat /\ op[t].left \in Nat /\ op[t].whole \in Nat
    BY <1>1, <1>4, AllocIs, CallIs
  <1>11. From(op'[t]) = op[t].va /\ To(op'[t]) = To(op[t])
    <2>1. Bottom(op'[t]) = Bottom(op[t])
      BY <1>2, <1>3 DEF Bottom
    <2>2. To(op[t]) = Bottom(op[t]) + op[t].whole
      BY <1>10
    <2> QED BY <1>3, <2>1, <2>2, FromTo DEF Making
  <1>12. \A a \in Owned(t)' : a \in Within(p) \/ (a \in Owned(t) /\ a \notin Within(p))
    <2>1. SUFFICES ASSUME NEW a \in Owned(t)' PROVE a \in Within(p) \/ (a \in Owned(t) /\ a \notin Within(p))
      OBVIOUS
    <2>2. a \in op[t].va .. To(op[t]) - 1
      BY <1>11, <2>1 DEF Owned
    <2>3. a \in Nat /\ op[t].va <= a /\ a < To(op[t])
      BY <1>10, <2>2
    <2>4. Owned(t) = From(op[t]) .. To(op[t]) - 1
      BY DEF Owned
    <2> QED BY <1>5, <1>10, <2>3, <2>4
  <1>13. op[t].flags.end <=> op[t].va + op[t].size = To(op[t])
    <2>1. op[t].flags.end <=> op[t].left = op[t].whole
      BY <1>1, <1>4, AllocShapeIs
    <2> QED BY <1>10, <2>1
  <1>14. RunNext(From(op'[t]), To(op'[t]))
    <2>1. SUFFICES ASSUME NEW a \in Owned(t)'
                   PROVE  /\ Translates(a)'
                          /\ op[t].va <= PageOf(a)'.va /\ PageOf(a)'.va + PageOf(a)'.size <= To(op[t])
                          /\ EntryOf(a)'.flags.end <=> PageOf(a)'.va + PageOf(a)'.size = To(op[t])
      BY <1>11 DEF RunNext, Owned
    <2>2. CASE a \in Within(p)
      <3>1. Translates(a)' /\ PageOf(a)' = p /\ EntryOf(a)'.flags = op[t].flags
        BY <1>2, <1>5, <2>2 DEF Entered
      <3> QED BY <1>5, <1>10, <1>13, <3>1
    <2>3. CASE a \in Owned(t) /\ a \notin Within(p)
      <3>1. a \in VA /\ Translates(a) /\ Same(a)
        BY <1>7, <1>8, <2>3
      <3>2. /\ Translates(a)' /\ PageOf(a)' = PageOf(a) /\ EntryOf(a)' = EntryOf(a)
        BY <3>1 DEF Same
      <3>3. /\ From(op[t]) <= PageOf(a).va /\ PageOf(a).va + PageOf(a).size <= To(op[t])
            /\ EntryOf(a).flags.end <=> PageOf(a).va + PageOf(a).size = To(op[t])
        BY <1>1, <2>3 DEF Claims, Run, Owned
      <3>4. PageOf(a).va \in Nat
        BY <1>1, <3>1, PageIs
      <3>5. op[t].va <= PageOf(a).va
        BY <1>10, <3>3, <3>4
      <3> QED BY <3>2, <3>3, <3>5
    <2> QED BY <1>12, <2>1, <2>2, <2>3
  <1>15. /\ \A u \in Thread \ {t} : Owned(t)' \intersect Owned(u) = {}
         /\ \A b \in Untouched' : Owned(t)' \intersect Span(b.base, b.len) = {}
    BY <1>1, <1>5, <1>6, <1>8, <1>12 DEF Claims
  <1>16. StartsRight(t)'
    <2>1. SUFFICES ASSUME NEW a \in Owned(t)'
                   PROVE  /\ EntryOf(a)'.flags.start =>
                                op[t].fell \/ (op[t].left = op[t].size /\ PageOf(a)'.va = op[t].va)
                          /\ op[t].left = op[t].size /\ a = op[t].va => EntryOf(a)'.flags.start
      BY <1>3 DEF StartsRight
    <2>2. CASE a \in Within(p)
      <3>1. PageOf(a)' = p /\ EntryOf(a)'.flags = op[t].flags
        BY <1>2, <1>5, <2>2 DEF Entered
      <3>2. /\ op[t].left = op[t].size => op[t].flags.start
            /\ op[t].flags.start => op[t].left = op[t].size \/ op[t].fell
        BY <1>1, <1>4, AllocShapeIs
      <3> QED BY <1>5, <3>1, <3>2
    <2>3. CASE a \in Owned(t) /\ a \notin Within(p)
      <3>1. Translates(a) /\ Same(a)
        BY <1>7, <1>8, <2>3
      <3>2. EntryOf(a)' = EntryOf(a)
        BY <3>1 DEF Same
      <3>3. EntryOf(a).flags.start => op[t].fell
        BY <1>1, <1>4, <2>3 DEF Starts, StartsRight
      <3>4. a # op[t].va
        <4>1. op[t].va \in Within(p)
          BY <1>5, <1>10, Sizes
        <4> QED BY <2>3, <4>1
      <3> QED BY <3>2, <3>3, <3>4
    <2> QED BY <1>12, <2>1, <2>2, <2>3
  <1> QED BY <1>1, <1>3, <1>6, <1>9, <1>14, <1>15, <1>16, ClaimsElse, StartsElse

\* The page that is taken out is the next of its buffer.
LEMMA RemovesClaims ==
  ASSUME AalInv, NEW t \in Thread, Removes(t)
  PROVE  Claims' /\ Starts'
  <1>1. TypeOK /\ Shapes /\ Claims /\ Starts
    BY DEF AalInv
  <1>2. op[t].pc \in {"walk", "leaf"} /\ Takes(t)
    BY DEF Removes
  <1> DEFINE p == PageOf(op[t].va)
             x == op[t].va
  <1>3. /\ x \in VA /\ Translates(x) /\ p.va = x /\ From(op[t]) = x /\ x + p.size <= To(op[t])
        /\ To(op[t]) = End(op[t].buf) /\ Within(p) \subseteq Owned(t)
    BY <1>1, <1>2, WalkFinds
  <1>4. /\ Others(t) /\ op'[t].pc = "inval" /\ op'[t].va = x /\ op'[t].size = p.size /\ op'[t].buf = op[t].buf
        /\ Dropped(p) /\ bufs' = bufs
    BY <1>2 DEF Takes
  <1>5. /\ p.size \in Nat /\ x \in Nat /\ To(op[t]) \in Nat
        /\ \A a : a \in Within(p) <=> a \in Nat /\ x <= a /\ a < x + p.size
    <2>1. p.size \in Nat /\ p.va \in Nat
      BY <1>1, <1>3, PageIs, Sizes
    <2>2. x \in Nat /\ To(op[t]) \in Nat
      BY <1>1, <1>3, OwnedIs, RegionIs
    <2> HIDE DEF p, x
    <2> QED BY <1>3, <2>1, <2>2 DEF Within, Span
  <1>6. \A b \in Within(p) : b \in VA /\ PageOf(b) = p
    BY <1>1, <1>3, PageWhole
  <1>7. From(op'[t]) = x + p.size /\ To(op'[t]) = To(op[t])
    BY <1>3, <1>4, FromTo DEF Clearing
  <1> HIDE DEF p, x
  <1>8. Untouched' \subseteq Untouched
    BY <1>1, <1>4, UntouchedLess
  <1>9. \A a \in VA : a \notin Within(p) => Same(a)
    BY <1>4 DEF Dropped
  <1>10. RestKept(t)
    <2>1. \A u \in Thread \ {t} : \A a \in Owned(u) : a \in VA /\ a \notin Within(p)
      BY <1>1, <1>3, OwnedIs DEF Claims
    <2>2. \A b \in Untouched : \A a \in Span(b.base, b.len) : a \in VA /\ a \notin Within(p)
      BY <1>1, <1>3, UntouchedIs DEF Claims
    <2> QED BY <1>9, <2>1, <2>2 DEF RestKept
  <1>11. \A a \in Owned(t)' : a \in Owned(t) /\ a \in VA /\ a \notin Within(p)
    <2>1. SUFFICES ASSUME NEW a \in Owned(t)' PROVE a \in Owned(t) /\ a \in VA /\ a \notin Within(p)
      OBVIOUS
    <2>2. a \in x + p.size .. To(op[t]) - 1
      BY <1>7, <2>1 DEF Owned
    <2>3. a \in Nat /\ x + p.size <= a /\ a < To(op[t])
      BY <1>5, <2>2
    <2>4. a \in Owned(t)
      BY <1>1, <1>3, <1>5, <2>3, OwnedIs
    <2>5. a \in VA
      BY <1>1, <2>4, OwnedIs
    <2> QED BY <1>5, <2>3, <2>4, <2>5
  <1>12. RunNext(From(op'[t]), To(op'[t]))
    <2>1. SUFFICES ASSUME NEW a \in Owned(t)'
                   PROVE  /\ Translates(a)'
                          /\ x + p.size <= PageOf(a)'.va /\ PageOf(a)'.va + PageOf(a)'.size <= To(op[t])
                          /\ EntryOf(a)'.flags.end <=> PageOf(a)'.va + PageOf(a)'.size = To(op[t])
      BY <1>7 DEF RunNext, Owned
    <2>2. a \in Owned(t) /\ a \in VA /\ a \notin Within(p) /\ Same(a)
      BY <1>9, <1>11, <2>1
    <2>3. /\ Translates(a) /\ x <= PageOf(a).va /\ PageOf(a).va + PageOf(a).size <= To(op[t])
          /\ EntryOf(a).flags.end <=> PageOf(a).va + PageOf(a).size = To(op[t])
      BY <1>1, <1>3, <2>2 DEF Claims, Run, Owned
    <2>4. Translates(a)' /\ PageOf(a)' = PageOf(a) /\ EntryOf(a)' = EntryOf(a)
      BY <2>2, <2>3 DEF Same
    <2>5. PageOf(a).va \in Nat /\ a \in Within(PageOf(a)) /\ PageOf(a).va \in Within(PageOf(a))
      <3>1. /\ PageOf(a).va \in Nat /\ a \in Within(PageOf(a)) /\ PageOf(a).size \in Nat /\ PageOf(a).size > 0
        BY <1>1, <2>2, PageIs, Sizes
      <3> QED BY <3>1 DEF Within, Span
    <2>6. PageOf(a).va \notin Within(p)
      <3>1. SUFFICES ASSUME PageOf(a).va \in Within(p) PROVE FALSE
        OBVIOUS
      <3>2. PageOf(PageOf(a).va) = p
        BY <1>6, <3>1
      <3>3. PageOf(PageOf(a).va) = PageOf(a)
        BY <1>1, <2>2, <2>5, PageWhole
      <3> QED BY <2>2, <2>5, <3>2, <3>3
    <2>7. x + p.size <= PageOf(a).va
      BY <1>5, <2>3, <2>5, <2>6
    <2> QED BY <2>3, <2>4, <2>7
  <1>13. /\ \A u \in Thread \ {t} : Owned(t)' \intersect Owned(u) = {}
         /\ \A b \in Untouched' : Owned(t)' \intersect Span(b.base, b.len) = {}
    BY <1>1, <1>8, <1>11 DEF Claims
  <1>14. StartsRight(t)'
    BY <1>4 DEF StartsRight, InAlloc, Making
  <1> QED BY <1>1, <1>4, <1>8, <1>10, <1>12, <1>13, <1>14, ClaimsElse, StartsElse

\* The claim of a call that ends well becomes that of the buffer which it returns.
LEMMA FinishesClaims ==
  ASSUME AalInv, NEW t \in Thread, Finishes(t)
  PROVE  Claims' /\ Starts'
  <1>1. TypeOK /\ Shapes /\ Claims /\ Starts
    BY DEF AalInv
  <1> DEFINE m == Made(t)
  <1>2. /\ op[t].pc = "next" /\ op[t].left = op[t].size /\ m \in Buffer /\ m.base = From(op[t]) /\ End(m) = To(op[t])
        /\ From(op[t]) < To(op[t]) /\ Ends(t) /\ bufs' = bufs \union {m} /\ UNCHANGED table
        /\ m.base = op[t].va /\ m.fell = op[t].fell
    BY DEF Finishes, FinishDoes, Made
  <1>3. Others(t) /\ op'[t].pc = "idle" /\ op'[t].buf = NoBuffer
    BY <1>2, IdleIs DEF Ends
  <1>4. InAlloc(t) /\ op[t].buf = NoBuffer
    <2>1. InAlloc(t)
      BY <1>2 DEF InAlloc, Making
    <2> QED BY <1>1, <2>1, AllocShapeIs
  <1>5. Span(m.base, m.len) = Owned(t)
    BY <1>2 DEF Owned, Span, End
  <1> HIDE DEF m
  <1>6. TableKept /\ RestKept(t)
    BY <1>1, <1>2, TableSame, OwnedIs, UntouchedIs DEF RestKept, TableKept
  <1>7. Untouched' \subseteq Untouched \union {m}
    <2>1. \A b \in bufs : b # NoBuffer
      BY <1>1, BufferIs
    <2> QED BY <1>2, <1>3, <1>4, <2>1 DEF Untouched, Others
  <1>8. /\ \A u \in Thread \ {t} : RunNext(From(op'[u]), To(op'[u])) /\ Owned(u)' = Owned(u)
        /\ \A b \in Untouched : RunNext(b.base, End(b))
    BY <1>1, <1>3, <1>6, ElseKept
  <1>9. From(op'[t]) = 0 /\ To(op'[t]) = 0 /\ Owned(t)' = {}
    <2>1. From(op'[t]) = 0 /\ To(op'[t]) = 0
      BY <1>3, FromTo
    <2> QED BY <2>1 DEF Owned
  <1>10. \A u \in Thread : RunNext(From(op'[u]), To(op'[u]))
    <2>1. RunNext(0, 0)
      BY DEF RunNext
    <2> QED BY <1>8, <1>9, <2>1
  <1>11. \A a \in Owned(t) : a \in VA /\ Translates(a) /\ Same(a)
    BY <1>1, <1>6, OwnedIs DEF Claims, Run, Owned, TableKept
  <1>12. RunNext(m.base, End(m))
    <2>1. Run(From(op[t]), To(op[t])) /\ \A a \in From(op[t]) .. To(op[t]) - 1 : Same(a)
      BY <1>1, <1>11 DEF Claims, Owned
    <2> QED BY <1>2, <2>1, RunKept
  <1>13. \A b \in Untouched' : RunNext(b.base, End(b))
    BY <1>7, <1>8, <1>12
  <1>14. \A u, w \in Thread : u # w => Owned(u)' \intersect Owned(w)' = {}
    <2>1. \A u, w \in Thread \ {t} : u # w => Owned(u)' \intersect Owned(w)' = {}
      BY <1>1, <1>8 DEF Claims
    <2> QED BY <1>9, <2>1
  <1>15. \A u \in Thread : \A b \in Untouched' : Owned(u)' \intersect Span(b.base, b.len) = {}
    <2>1. \A u \in Thread \ {t} : \A b \in Untouched : Owned(u)' \intersect Span(b.base, b.len) = {}
      BY <1>1, <1>8 DEF Claims
    <2>2. \A u \in Thread \ {t} : Owned(u)' \intersect Span(m.base, m.len) = {}
      BY <1>1, <1>5, <1>8 DEF Claims
    <2> QED BY <1>7, <1>9, <2>1, <2>2
  <1>16. \A b, c \in Untouched' : b # c => Span(b.base, b.len) \intersect Span(c.base, c.len) = {}
    <2>1. \A b, c \in Untouched : b # c => Span(b.base, b.len) \intersect Span(c.base, c.len) = {}
      BY <1>1 DEF Claims
    <2>2. \A b \in Untouched : Span(b.base, b.len) \intersect Span(m.base, m.len) = {}
      BY <1>1, <1>5 DEF Claims
    <2> QED BY <1>7, <2>1, <2>2
  <1>17. Claims'
    BY <1>10, <1>13, <1>14, <1>15, <1>16, ClaimsAre
  <1>18. ASSUME NEW u \in Thread PROVE StartsRight(u)'
    <2>1. op[t].pc \notin {"idle"} \union Clearing
      BY <1>2 DEF Clearing
    <2>2. u # t => ~InAlloc(u)
      BY <1>1, <2>1, OneAllocates
    <2>3. ~InAlloc(u)'
      BY <1>3, <2>2 DEF InAlloc, Others, Making
    <2> QED BY <2>3 DEF StartsRight
  <1>19. ASSUME NEW b \in Untouched', NEW a \in Span(b.base, b.len)
         PROVE  IF PageOf(a)'.va = b.base THEN EntryOf(a)'.flags.start ELSE EntryOf(a)'.flags.start => b.fell
    <2>1. CASE b = m
      <3>1. a \in Owned(t) /\ a \in VA /\ Translates(a) /\ Same(a)
        BY <1>5, <1>11, <2>1
      <3>2. EntryOf(a)' = EntryOf(a) /\ PageOf(a)' = PageOf(a)
        BY <3>1 DEF Same
      <3>3. StartsRight(t)
        BY <1>1 DEF Starts
      <3>4. op[t].va \in Owned(t)
        <4>1. From(op[t]) \in Nat /\ op[t].va = From(op[t])
          BY <1>1, <1>2, OwnedIs
        <4> QED BY <1>1, <1>2, <4>1, OwnedIs
      <3>5. EntryOf(op[t].va).flags.start
        BY <1>2, <1>4, <3>3, <3>4 DEF StartsRight
      <3>6. PageOf(a).va = op[t].va => EntryOf(op[t].va) = EntryOf(a)
        <4>1. PageOf(a).va \in Within(PageOf(a))
          <5>1. PageOf(a).va \in Nat /\ PageOf(a).size \in Nat /\ PageOf(a).size > 0
            BY <1>1, <3>1, PageIs, Sizes
          <5> QED BY <5>1 DEF Within, Span
        <4> QED BY <1>1, <3>1, <4>1, PageWhole
      <3>7. EntryOf(a).flags.start => op[t].fell \/ PageOf(a).va = op[t].va
        BY <1>4, <3>1, <3>3 DEF StartsRight
      <3> QED BY <1>2, <2>1, <3>2, <3>5, <3>6, <3>7
    <2>2. CASE b \in Untouched
      <3>1. Span(b.base, b.len) = b.base .. End(b) - 1
        BY DEF Span, End
      <3>2. Translates(a) /\ Same(a)
        BY <1>1, <1>6, <2>2, <3>1 DEF Claims, RestKept, Run
      <3>3. EntryOf(a)' = EntryOf(a) /\ PageOf(a)' = PageOf(a)
        BY <3>2 DEF Same
      <3> QED BY <1>1, <2>2, <3>3 DEF Starts
    <2> QED BY <1>7, <2>1, <2>2
  <1>20. Starts'
    BY <1>18, <1>19 DEF Starts
  <1> QED BY <1>17, <1>20

LEMMA ClaimsStep ==
  ASSUME AalInv, NEW t \in Thread, Makes(t) \/ Clears(t)
  PROVE  Claims' /\ Starts'
  BY ClaimsMakes, ClaimsClears, EntersClaims, FinishesClaims, OpensClaims, RemovesClaims

-----------------------------------------------------------------------------
(* No address is lost.                                                     *)

\* What a call accounts for: what is pinned, and what is reserved.
Mine(t, a) ==
    \/ InFree(t) /\ a \in op[t].va .. End(op[t].buf) - 1
    \/ InAlloc(t) /\ a \in Coming(op[t]) .. Top(op[t]) - 1
Keeps(t, a) == InAlloc(t) /\ a \in Span(op[t].base, op[t].len)

LEMMA BelongsIs ==
  ASSUME NEW a
  PROVE  /\ Belongs(a) <=> (\E b \in Untouched : a \in Span(b.base, b.len)) \/ \E t \in Thread : Mine(t, a)
         /\ Belongs(a)' <=> (\E b \in Untouched' : a \in Span(b.base, b.len)) \/ \E t \in Thread : Mine(t, a)'
  BY DEF Belongs, Mine

LEMMA MineElse ==
  ASSUME NEW t \in Thread, Others(t), NEW u \in Thread \ {t}, NEW a
  PROVE  (Mine(u, a)' <=> Mine(u, a)) /\ (Keeps(u, a)' <=> Keeps(u, a))
  <1>1. op'[u] = op[u]
    BY DEF Others
  <1>2. (InFree(u)' <=> InFree(u)) /\ (InAlloc(u)' <=> InAlloc(u))
    BY <1>1 DEF InFree, InAlloc
  <1> QED BY <1>1, <1>2 DEF Mine, Keeps

\* A step of one call.
LEMMA AccountedStep ==
  ASSUME Accounted, NEW t \in Thread, Others(t), why \subseteq why',
         why \subseteq {"full"} =>
           \A a \in VA :
             /\ vm'[a] = "ali" => vm[a] = "ali" \/ Mine(t, a)'
             /\ vm'[a] = "ali" /\ Mine(t, a) => Mine(t, a)' \/ \E b \in Untouched' : a \in Span(b.base, b.len)
             /\ \A b \in Untouched : b \in Untouched' \/ (a \in Span(b.base, b.len) => Mine(t, a)')
             /\ vm'[a] = "reserved" => vm[a] = "reserved" \/ Keeps(t, a)'
             /\ vm'[a] = "reserved" /\ Keeps(t, a) => Keeps(t, a)'
  PROVE  Accounted'
  <1>1. SUFFICES ASSUME why' \subseteq {"full"}, NEW a \in VA
                 PROVE  /\ vm'[a] = "ali" => Belongs(a)'
                        /\ vm'[a] = "reserved" => \E u \in Thread : Keeps(u, a)'
    BY DEF Accounted, Keeps
  <1>2. why \subseteq {"full"}
    BY <1>1
  <1>3. vm[a] = "ali" => Belongs(a)
    BY <1>2 DEF Accounted
  <1>4. vm[a] = "reserved" => \E u \in Thread : Keeps(u, a)
    BY <1>2 DEF Accounted, Keeps
  <1>5. vm'[a] = "ali" => Belongs(a)'
    BY <1>2, <1>3, BelongsIs, MineElse
  <1>6. vm'[a] = "reserved" => \E u \in Thread : Keeps(u, a)'
    BY <1>2, <1>4, MineElse
  <1> QED BY <1>5, <1>6

LEMMA UntouchedMore ==
  ASSUME TypeOK, NEW t \in Thread, Others(t), bufs \ {op[t].buf} \subseteq bufs',
         op'[t].buf = op[t].buf \/ op'[t].buf = NoBuffer
  PROVE  Untouched \subseteq Untouched'
  <1>1. \A b \in bufs : b # NoBuffer
    BY BufferIs
  <1> QED BY <1>1 DEF Untouched, Others

LEMMA MineIs ==
  ASSUME TypeOK, Shapes, NEW t \in Thread
  PROVE  /\ InFree(t) => \A a : Mine(t, a) <=> a \in Nat /\ op[t].va <= a /\ a < End(op[t].buf)
         /\ InAlloc(t) => \A a : Mine(t, a) <=> a \in Nat /\ Coming(op[t]) <= a /\ a < Top(op[t])
         /\ ~InFree(t) /\ ~InAlloc(t) => \A a : ~Mine(t, a) /\ ~Keeps(t, a)
         /\ InFree(t) => \A a : ~Keeps(t, a)
         /\ InAlloc(t) => \A a : Keeps(t, a) <=> a \in Nat /\ op[t].base <= a /\ a < op[t].va
         /\ InAlloc(t) => Top(op[t]) \in Nat /\ Coming(op[t]) \in Nat /\ Top(op[t]) = Bottom(op[t]) + op[t].whole
  <1>1. ~(InAlloc(t) /\ InFree(t))
    BY PhaseIs
  <1>2. ASSUME InFree(t)
        PROVE  /\ \A a : Mine(t, a) <=> a \in Nat /\ op[t].va <= a /\ a < End(op[t].buf)
               /\ \A a : ~Keeps(t, a)
    <2>1. op[t].va \in Nat /\ End(op[t].buf) \in Nat
      BY <1>2, FreeIs, CallIs
    <2> QED BY <1>1, <1>2, <2>1 DEF Mine, Keeps
  <1>3. ASSUME InAlloc(t)
        PROVE  /\ \A a : Mine(t, a) <=> a \in Nat /\ Coming(op[t]) <= a /\ a < Top(op[t])
               /\ \A a : Keeps(t, a) <=> a \in Nat /\ op[t].base <= a /\ a < op[t].va
               /\ Top(op[t]) \in Nat /\ Coming(op[t]) \in Nat /\ Top(op[t]) = Bottom(op[t]) + op[t].whole
    <2>1. /\ op[t].va \in Nat /\ op[t].size \in Nat /\ op[t].base \in Nat /\ op[t].len \in Nat /\ op[t].whole \in Nat
      BY CallIs
    <2>2. Bottom(op[t]) \in Nat /\ op[t].base + op[t].len = op[t].va
      BY <1>3, AllocIs
    <2>3. Top(op[t]) = Bottom(op[t]) + op[t].whole
      BY DEF Top
    <2>4. Top(op[t]) \in Nat /\ Coming(op[t]) \in Nat
      BY <2>1, <2>2, <2>3 DEF Coming
    <2>5. \A a : a \in Coming(op[t]) .. Top(op[t]) - 1 <=> a \in Nat /\ Coming(op[t]) <= a /\ a < Top(op[t])
      BY <2>4
    <2>6. \A a : a \in Span(op[t].base, op[t].len) <=> a \in Nat /\ op[t].base <= a /\ a < op[t].va
      BY <2>1, <2>2 DEF Span
    <2> QED BY <1>1, <1>3, <2>3, <2>4, <2>5, <2>6 DEF Mine, Keeps
  <1> QED BY <1>1, <1>2, <1>3 DEF Mine, Keeps

LEMMA MineNext ==
  ASSUME NEW t \in Thread, NEW a
  PROVE  /\ Mine(t, a)' <=> \/ op'[t].pc \in Clearing /\ a \in op'[t].va .. End(op'[t].buf) - 1
                            \/ op'[t].pc \in Making /\ a \in Coming(op'[t]) .. Top(op'[t]) - 1
         /\ Keeps(t, a)' <=> op'[t].pc \in Making /\ a \in Span(op'[t].base, op'[t].len)
         /\ Mine(t, a) <=> \/ op[t].pc \in Clearing /\ a \in op[t].va .. End(op[t].buf) - 1
                           \/ op[t].pc \in Making /\ a \in Coming(op[t]) .. Top(op[t]) - 1
         /\ Keeps(t, a) <=> op[t].pc \in Making /\ a \in Span(op[t].base, op[t].len)
  BY DEF Mine, Keeps, InFree, InAlloc

\* A call that has nothing yet, and nobody who has something reserved.
LEMMA NoneReserved ==
  ASSUME AalInv, NEW t \in Thread, op[t].pc = "reserve", why \subseteq {"full"}
  PROVE  \A a \in VA : vm[a] # "reserved"
  <1>1. \A u \in Thread : ~InAlloc(u)
    <2>1. ~InAlloc(t)
      BY DEF InAlloc, Making
    <2>2. \A u \in Thread : u # t => ~InAlloc(u)
      BY OneAllocates DEF AalInv, Clearing
    <2> QED BY <2>1, <2>2
  <1> QED BY <1>1 DEF AalInv, Accounted

\* A step that leaves the addresses and the buffers as they are.
LEMMA AccountedSame ==
  ASSUME AalInv, NEW t \in Thread, Others(t), why \subseteq why', vm' = vm, bufs' = bufs,
         op'[t].buf = op[t].buf \/ op'[t].buf = NoBuffer,
         why \subseteq {"full"} => \A a \in VA : /\ vm[a] = "ali" /\ Mine(t, a) => Mine(t, a)'
                                                 /\ vm[a] = "reserved" /\ Keeps(t, a) => Keeps(t, a)'
  PROVE  Accounted'
  <1>1. Untouched \subseteq Untouched'
    BY UntouchedMore DEF AalInv
  <1> QED BY <1>1, AccountedStep DEF AalInv

LEMMA AccountedMakes ==
  ASSUME AalInv, NEW t \in Thread, Makes(t), ~Finishes(t)
  PROVE  Accounted'
  <1>1. TypeOK /\ Shapes /\ Addresses /\ Accounted
    BY DEF AalInv
  <1>2. Others(t) /\ why \subseteq why' /\ bufs' = bufs /\ op[t].pc \notin Clearing /\ op'[t].buf \in {op[t].buf, NoBuffer}
    BY <1>1, IdleIs DEF Makes, Calls, GivesUp, Abandons, Ends, Reserves, ReserveDoes, Shrinks, ShrinkDoes, Pins, PinDoes,
           Retreats, FallsBack, Enters, InsertDoes, Pushes, PushDoes, Moves, Continues, ContinueDoes, Restores,
           RestoreDoes, Clearing
  <1>3. Untouched \subseteq Untouched'
    BY <1>1, <1>2, UntouchedMore
  <1>4. CASE Calls(t) \/ GivesUp(t) \/ Retreats(t)
    <2>1. vm' = vm
      BY <1>4 DEF Calls, GivesUp, Abandons, Retreats, FallsBack
    <2>2. CASE op[t].pc \in {"idle", "reserve"}
      <3>1. \A a : ~Mine(t, a) /\ ~Keeps(t, a)
        BY <1>1, <2>2, MineIs DEF InFree, InAlloc, Making, Clearing
      <3> QED BY <1>2, <2>1, <3>1, AccountedSame
    <2>3. CASE op[t].pc \notin {"idle", "reserve"}
      <3>1. ~(why' \subseteq {"full"})
        BY <1>4, <2>3 DEF Calls, GivesUp, Abandons, Retreats, FallsBack
      <3> QED BY <3>1 DEF Accounted
    <2> QED BY <2>2, <2>3
  <1>5. CASE Reserves(t)
    <2>1. op[t].pc = "reserve" /\ ReserveDoes(t) /\ bufs' = bufs
      BY <1>5 DEF Reserves
    <2>2. \A a : ~Mine(t, a) /\ ~Keeps(t, a)
      BY <1>1, <2>1, MineIs DEF InFree, InAlloc, Making, Clearing
    <2>3. PICK b \in VA, len \in Nat : /\ Uses(Span(b, len), "reserved")
                                       /\ op'[t].pc = "shrink" /\ op'[t].base = b /\ op'[t].len = len
      <3>1. op'[t].len \in Nat
        <4>1. op'[t].len \in 0 .. Size
          BY <1>2, BoundIs DEF Others, Activity
        <4> QED BY <4>1, Sizes
      <3> QED BY <2>1, <3>1 DEF ReserveDoes
    <2>4. \A a \in VA : vm'[a] = IF a \in Span(b, len) THEN "reserved" ELSE vm[a]
      BY <1>1, <2>3, UsesIs
    <2>5. \A a : Keeps(t, a)' <=> a \in Span(b, len)
      BY <2>3, MineNext DEF Making
    <2>6. \A a \in VA : /\ vm'[a] = "ali" => vm[a] = "ali"
                        /\ vm'[a] = "reserved" => vm[a] = "reserved" \/ Keeps(t, a)'
      BY <2>4, <2>5
    <2> QED BY <1>1, <1>2, <1>3, <2>2, <2>6, AccountedStep
  <1>6. CASE Shrinks(t)
    <2>1. op[t].pc = "shrink" /\ ShrinkDoes(t)
      BY <1>6 DEF Shrinks
    <2>2. PICK size \in {1, Large} :
             /\ Uses(Span(op[t].va - size, size), "free") /\ size <= op[t].left
             /\ op'[t].pc = "pin" /\ op'[t].base = op[t].base
             /\ op'[t].len = op[t].len - size /\ op'[t].va = op[t].va - size /\ op'[t].size = size
      BY <2>1 DEF ShrinkDoes
    <2>3. /\ Bottom(op'[t]) = Bottom(op[t]) /\ op'[t].whole = op[t].whole /\ op'[t].va + op'[t].size = op[t].va
      BY <1>1, <2>1, ShrinkShaped
    <2>4. /\ op[t].va \in Nat /\ op[t].base \in Nat /\ op[t].len \in Nat /\ op[t].left \in Nat /\ size \in Nat
          /\ op[t].base + op[t].len = op[t].va /\ op[t].base <= Bottom(op[t]) /\ Bottom(op[t]) \in Nat
          /\ Bottom(op[t]) + op[t].left = op[t].va /\ InAlloc(t)
      <3>1. InAlloc(t)
        BY <2>1 DEF InAlloc, Making
      <3> QED BY <1>1, <2>1, <3>1, CallIs, AllocIs, Sizes
    <2>5. \A a \in VA : vm'[a] = IF a \in Span(op[t].va - size, size) THEN "free" ELSE vm[a]
      BY <1>1, <2>2, UsesIs
    <2>6. Coming(op'[t]) = Coming(op[t]) /\ Top(op'[t]) = Top(op[t])
      BY <2>1, <2>2, <2>3 DEF Coming, Top
    <2>7. \A a : Mine(t, a)' <=> Mine(t, a)
      BY <2>1, <2>2, <2>6, MineNext DEF Making, Clearing
    <2>8. \A a : Keeps(t, a) /\ ~Keeps(t, a)' => a \in Span(op[t].va - size, size)
      <3>1. SUFFICES ASSUME NEW a, Keeps(t, a), ~Keeps(t, a)' PROVE a \in Span(op[t].va - size, size)
        OBVIOUS
      <3>2. a \in Nat /\ op[t].base <= a /\ a < op[t].va
        BY <1>1, <2>4, <3>1, MineIs
      <3>3. a \notin Span(op[t].base, op[t].len - size)
        BY <2>2, <3>1, MineNext DEF Making
      <3>4. size <= op[t].len
        BY <2>2, <2>4
      <3>5. op[t].len - size \in Nat /\ op[t].va - size \in Nat /\ op[t].base + (op[t].len - size) = op[t].va - size
        BY <2>4, <3>4
      <3>6. a >= op[t].va - size
        BY <2>4, <3>2, <3>3, <3>5 DEF Span
      <3> QED BY <2>4, <3>2, <3>5, <3>6 DEF Span
    <2>9. \A a \in VA : /\ vm'[a] = "ali" => vm[a] = "ali"
                        /\ vm'[a] = "reserved" => vm[a] = "reserved"
                        /\ vm'[a] = "reserved" /\ Keeps(t, a) => Keeps(t, a)'
      BY <2>5, <2>8
    <2> QED BY <1>1, <1>2, <1>3, <2>7, <2>9, AccountedStep
  <1>7. CASE Pins(t)
    <2>1. op[t].pc = "pin" /\ PinDoes(t)
      BY <1>7 DEF Pins
    <2>2. /\ Uses(Within(Pending(t)), "ali") /\ op'[t].pc = "insert" /\ op'[t].base = op[t].base
          /\ op'[t].len = op[t].len /\ op'[t].va = op[t].va /\ op'[t].size = op[t].size
          /\ op'[t].left = op[t].left /\ op'[t].whole = op[t].whole
      BY <2>1 DEF PinDoes, Moves
    <2>3. \A a \in VA : vm'[a] = IF a \in Within(Pending(t)) THEN "ali" ELSE vm[a]
      BY <1>1, <2>2, UsesIs
    <2>4. InAlloc(t)
      BY <2>1 DEF InAlloc, Making
    <2>5. /\ op[t].va \in Nat /\ op[t].size \in Nat /\ Bottom(op[t]) \in Nat /\ Bottom(op[t]) <= op[t].va
          /\ op[t].whole \in Nat /\ op[t].left \in Nat /\ op[t].left <= op[t].whole /\ op[t].size <= op[t].left
          /\ Bottom(op[t]) + op[t].left = op[t].va + op[t].size
      BY <1>1, <2>1, <2>4, CallIs, AllocIs
    <2>6. /\ Coming(op[t]) = op[t].va + op[t].size /\ Coming(op'[t]) = op[t].va
          /\ Top(op[t]) = Bottom(op[t]) + op[t].whole /\ Top(op'[t]) = Top(op[t])
      BY <2>1, <2>2 DEF Coming, Top, Bottom
    <2>7. \A a : Keeps(t, a)' <=> Keeps(t, a)
      BY <2>1, <2>2, MineNext DEF Making
    <2>8. \A a : Mine(t, a)' <=> a \in op[t].va .. Top(op[t]) - 1
      BY <2>2, <2>6, MineNext DEF Making, Clearing
    <2>9. \A a : Mine(t, a) \/ a \in Within(Pending(t)) => Mine(t, a)'
      <3>1. SUFFICES ASSUME NEW a, Mine(t, a) \/ a \in Within(Pending(t)) PROVE a \in op[t].va .. Top(op[t]) - 1
        BY <2>8
      <3>2. a \in Nat /\ op[t].va <= a /\ a < Top(op[t]) /\ Top(op[t]) \in Nat
        <4>1. CASE Mine(t, a)
          BY <1>1, <2>4, <2>5, <2>6, <4>1, MineIs
        <4>2. CASE a \in Within(Pending(t))
          <5>1. a \in Nat /\ op[t].va <= a /\ a < op[t].va + op[t].size
            BY <2>5, <4>2, SpanIs DEF Pending
          <5> QED BY <2>5, <2>6, <5>1
        <4> QED BY <3>1, <4>1, <4>2
      <3> QED BY <2>5, <3>2
    <2>10. \A a \in VA : /\ vm'[a] = "ali" => vm[a] = "ali" \/ Mine(t, a)'
                         /\ vm'[a] = "reserved" => vm[a] = "reserved"
      BY <2>3, <2>9
    <2> QED BY <1>1, <1>2, <1>3, <2>7, <2>9, <2>10, AccountedStep
  <1>8. CASE Enters(t) \/ Pushes(t)
    <2>1. /\ vm' = vm /\ op[t].pc \in {"insert", "replace"} /\ op'[t].pc \in {"replace", "next"}
          /\ op'[t].base = op[t].base /\ op'[t].len = op[t].len /\ op'[t].va = op[t].va /\ op'[t].size = op[t].size
          /\ op'[t].left = op[t].left /\ op'[t].whole = op[t].whole
      BY <1>8 DEF Enters, InsertDoes, Pushes, PushDoes, Moves
    <2>2. Coming(op'[t]) = Coming(op[t]) /\ Top(op'[t]) = Top(op[t])
      BY <2>1 DEF Coming, Top, Bottom
    <2>3. \A a : (Mine(t, a)' <=> Mine(t, a)) /\ (Keeps(t, a)' <=> Keeps(t, a))
      BY <2>1, <2>2, MineNext DEF Making, Clearing
    <2> QED BY <1>2, <2>1, <2>3, AccountedSame
  <1>9. CASE Continues(t)
    <2>1. /\ vm' = vm /\ op[t].pc = "next" /\ op'[t].pc = "shrink" /\ ContinueDoes(t)
          /\ op'[t].base = op[t].base /\ op'[t].len = op[t].len /\ op'[t].va = op[t].va
          /\ op'[t].whole = op[t].whole
      BY <1>9 DEF Continues, ContinueDoes
    <2>2. Coming(op'[t]) = Coming(op[t]) /\ Top(op'[t]) = Top(op[t])
      BY <1>1, <2>1, ContinueShaped DEF Coming, Top
    <2>3. \A a : (Mine(t, a)' <=> Mine(t, a)) /\ (Keeps(t, a)' <=> Keeps(t, a))
      BY <2>1, <2>2, MineNext DEF Making, Clearing
    <2> QED BY <1>2, <2>1, <2>3, AccountedSame
  <1>10. CASE Restores(t)
    <2>1. op[t].pc = "restore" /\ RestoreDoes(t) /\ InAlloc(t)
      BY <1>10 DEF Restores, InAlloc, Making
    <2>2. /\ op[t].size = Large /\ Uses(Span(op[t].va, Large), "reserved") /\ op'[t].pc = "shrink"
          /\ op'[t].base = op[t].base /\ op'[t].len = op[t].len + Large /\ op'[t].va = op[t].va + Large
          /\ op'[t].whole = op[t].whole
      BY <2>1 DEF RestoreDoes
    <2>3. \A a \in VA : vm'[a] = IF a \in Span(op[t].va, Large) THEN "reserved" ELSE vm[a]
      BY <1>1, <2>2, UsesIs
    <2>4. Coming(op'[t]) = Coming(op[t]) /\ Top(op'[t]) = Top(op[t])
      BY <1>1, <2>1, <2>2, RestoreShaped DEF Coming, Top
    <2>5. \A a : Mine(t, a)' <=> Mine(t, a)
      BY <2>1, <2>2, <2>4, MineNext DEF Making, Clearing
    <2>6. \A a : Keeps(t, a) \/ a \in Span(op[t].va, Large) => Keeps(t, a)'
      <3>1. /\ op[t].va \in Nat /\ op[t].base \in Nat /\ op[t].len \in Nat /\ Large \in Nat
            /\ op[t].base + op[t].len = op[t].va
        BY <1>1, <2>1, CallIs, AllocIs, Sizes
      <3>2. SUFFICES ASSUME NEW a, Keeps(t, a) \/ a \in Span(op[t].va, Large)
                     PROVE  a \in Span(op[t].base, op[t].len + Large)
        BY <2>2, MineNext DEF Making
      <3>3. a \in Nat /\ op[t].base <= a /\ a < op[t].va + Large
        <4>1. CASE Keeps(t, a)
          BY <1>1, <2>1, <3>1, <4>1, MineIs
        <4>2. CASE a \in Span(op[t].va, Large)
          BY <3>1, <4>2 DEF Span
        <4> QED BY <3>2, <4>1, <4>2
      <3> QED BY <3>1, <3>3 DEF Span
    <2>7. \A a \in VA : /\ vm'[a] = "ali" => vm[a] = "ali"
                        /\ vm'[a] = "reserved" => vm[a] = "reserved" \/ Keeps(t, a)'
      BY <2>3, <2>6
    <2> QED BY <1>1, <1>2, <1>3, <2>5, <2>6, <2>7, AccountedStep
  <1> QED BY <1>4, <1>5, <1>6, <1>7, <1>8, <1>9, <1>10 DEF Makes

\* A buffer that is returned has no double: a call that still gives one back at
\* its place would have its last page in hand, or left in the table.
LEMMA MadeIsNew ==
  ASSUME AalInv, NEW t \in Thread, Finishes(t), NEW u \in Thread, InFree(u)
  PROVE  op[u].buf # Made(t)
  <1>1. TypeOK /\ Shapes /\ Addresses /\ Hands /\ TranslatesPinned /\ Claims
    BY DEF AalInv
  <1>2. op[t].pc = "next" /\ Made(t) \in Buffer /\ End(Made(t)) = To(op[t]) /\ From(op[t]) < To(op[t])
    BY DEF Finishes, FinishDoes
  <1>3. SUFFICES ASSUME op[u].buf = Made(t) PROVE FALSE
    OBVIOUS
  <1>4. t # u
    BY <1>2 DEF InFree, Clearing
  <1>5. /\ From(op[t]) \in Nat /\ To(op[t]) \in Nat /\ From(op[u]) \in Nat /\ To(op[u]) = To(op[t])
        /\ From(op[u]) <= To(op[u])
    BY <1>1, <1>2, <1>3, FreeIs, OwnedIs
  <1> DEFINE z == To(op[t]) - 1
  <1>6. z \in Nat /\ z < To(op[t]) /\ From(op[t]) <= z
    BY <1>2, <1>5
  <1>7. z \in Owned(t) /\ z \in VA /\ Translates(z)
    <2> HIDE DEF z
    <2>1. z \in Owned(t)
      BY <1>1, <1>6, OwnedIs
    <2>2. z \in VA
      BY <1>1, <2>1, OwnedIs
    <2> QED BY <1>1, <2>1, <2>2 DEF Claims, Run, Owned
  <1>8. CASE From(op[u]) < To(op[u])
    <2>1. From(op[u]) <= z
      BY <1>5, <1>8
    <2> HIDE DEF z
    <2>2. z \in Owned(u)
      BY <1>1, <1>5, <1>6, <2>1, OwnedIs
    <2> QED BY <1>1, <1>4, <1>7, <2>2 DEF Claims
  <1>9. CASE From(op[u]) = To(op[u])
    <2>1. op[u].pc \in {"inval", "give"}
      <3>1. op[u].pc \in {"walk", "leaf"} => From(op[u]) < To(op[u])
        BY <1>1, FreeIs
      <3> QED BY <1>5, <1>9, <3>1 DEF InFree, Clearing
    <2>2. op[u].va + op[u].size = To(op[t]) /\ op[u].va < To(op[t]) /\ op[u].va \in Nat /\ op[u].size \in Nat
      <3>1. /\ op[u].pc \notin {"walk", "leaf"} /\ From(op[u]) = op[u].va + op[u].size /\ op[u].va < From(op[u])
        BY <1>1, <2>1, FreeIs
      <3>2. op[u].va \in Nat /\ op[u].size \in Nat
        BY <1>1, CallIs
      <3> QED BY <1>5, <1>9, <3>1, <3>2
    <2>3. z \in Within(Removed(u))
      <3>1. op[u].va <= z /\ z < op[u].va + op[u].size
        BY <1>5, <2>2
      <3> HIDE DEF z
      <3> QED BY <1>6, <2>2, <3>1, SpanIs DEF Removed
    <2>4. Removed(u) \in pins /\ Removed(u) \in InHand
      BY <1>1, <2>1, InHandIs DEF Hands, HasInHand
    <2> HIDE DEF z
    <2>5. PageOf(z) \in pins /\ PageOf(z) \notin InHand /\ z \in Within(PageOf(z))
      BY <1>1, <1>7, PageIs DEF TranslatesPinned
    <2>6. PageOf(z) # Removed(u)
      BY <2>4, <2>5
    <2> QED BY <1>1, <2>3, <2>4, <2>5, <2>6 DEF Addresses
  <1> QED BY <1>5, <1>8, <1>9

LEMMA AccountedFinishes ==
  ASSUME AalInv, NEW t \in Thread, Finishes(t)
  PROVE  Accounted'
  <1>1. TypeOK /\ Shapes /\ Addresses /\ Accounted
    BY DEF AalInv
  <1> DEFINE m == Made(t)
             s == Span(op[t].base, op[t].len)
  <1>2. /\ op[t].pc = "next" /\ op[t].left = op[t].size /\ m \in Buffer /\ m.base = op[t].va /\ End(m) = To(op[t])
        /\ Ends(t) /\ bufs' = bufs \union {m} /\ Uses(s, "free") /\ why' = why
    BY DEF Finishes, FinishDoes, Made
  <1>3. Others(t) /\ op'[t].pc = "idle" /\ op'[t].buf = NoBuffer
    BY <1>2, IdleIs DEF Ends
  <1>4. InAlloc(t) /\ op[t].buf = NoBuffer
    <2>1. InAlloc(t)
      BY <1>2 DEF InAlloc, Making
    <2> QED BY <1>1, <2>1, AllocShapeIs
  <1>5. \A a \in VA : vm'[a] = IF a \in s THEN "free" ELSE vm[a]
    BY <1>1, <1>2, UsesIs
  <1>6. Untouched \subseteq Untouched'
    BY <1>1, <1>2, <1>3, UntouchedMore
  <1>7. m \in Untouched'
    <2>1. \A u \in Thread : op[u].buf # m
      <3>1. SUFFICES ASSUME NEW u \in Thread, op[u].buf = m PROVE FALSE
        OBVIOUS
      <3>2. InFree(u) \/ op[u].buf = NoBuffer
        BY <1>1 DEF Shapes, Shaped, InFree
      <3>3. m # NoBuffer
        BY <1>2 DEF Buffer, NoBuffer
      <3> QED BY <3>1, <3>2, <3>3, MadeIsNew
    <2>2. m # NoBuffer
      BY <1>2 DEF Buffer, NoBuffer
    <2> QED BY <1>2, <1>3, <2>1, <2>2 DEF Untouched, Others
  <1>8. \A a : Mine(t, a) => a \in Span(m.base, m.len)
    <2>1. Coming(op[t]) = op[t].va /\ To(op[t]) = Top(op[t])
      BY <1>2 DEF Coming, To, Making
    <2>2. Span(m.base, m.len) = op[t].va .. Top(op[t]) - 1
      BY <1>2, <2>1 DEF Span, End
    <2> QED BY <1>2, <2>1, <2>2, MineNext DEF Making, Clearing
  <1>9. \A a : Keeps(t, a) => a \in s
    BY DEF Keeps
  <1> HIDE DEF m, s
  <1>10. \A a \in VA : /\ vm'[a] = "ali" => vm[a] = "ali"
                       /\ vm'[a] = "reserved" => vm[a] = "reserved" /\ ~Keeps(t, a)
    BY <1>5, <1>9
  <1> QED BY <1>1, <1>2, <1>3, <1>6, <1>7, <1>8, <1>10, AccountedStep

LEMMA AccountedClears ==
  ASSUME AalInv, NEW t \in Thread, Clears(t)
  PROVE  Accounted'
  <1>1. TypeOK /\ Shapes /\ Addresses /\ Accounted
    BY DEF AalInv
  <1>2. Others(t) /\ why \subseteq why'
    BY DEF Clears, Opens, Removes, Takes, Lowers, Descends, Tells, Moves, Drops, Leaves, Ends, Gives, GiveDoes
  <1>3. \A a : ~Keeps(t, a)
    BY <1>1, MineIs DEF Clears, Opens, Removes, Lowers, Tells, Drops, Gives, InFree, InAlloc, Making, Clearing
  <1>4. CASE Opens(t)
    <2>1. PICK b \in Untouched :
             /\ op[t].pc = "idle" /\ op'[t].pc = "walk" /\ op'[t].va = b.base /\ op'[t].buf = b
             /\ bufs' = bufs /\ vm' = vm
      BY <1>4 DEF Opens
    <2>2. \A c \in Untouched : c # b => c \in Untouched'
      <3>1. \A c \in Untouched : c \in bufs /\ \A u \in Thread : op[u].buf # c
        BY DEF Untouched
      <3> QED BY <1>2, <2>1, <3>1 DEF Untouched, Others
    <2>3. \A a : a \in Span(b.base, b.len) => Mine(t, a)'
      BY <2>1, MineNext DEF Span, End, Clearing
    <2>4. \A a : ~Mine(t, a)
      BY <1>1, <2>1, MineIs DEF InFree, InAlloc, Making, Clearing
    <2> QED BY <1>1, <1>2, <1>3, <2>1, <2>2, <2>3, <2>4, AccountedStep
  <1>5. CASE Removes(t) \/ Lowers(t) \/ Tells(t)
    <2>1. /\ vm' = vm /\ bufs' = bufs /\ op[t].pc \in Clearing /\ op'[t].pc \in Clearing
          /\ op'[t].va = op[t].va /\ op'[t].buf = op[t].buf
      BY <1>5 DEF Removes, Takes, Lowers, Descends, Tells, Moves, Clearing
    <2>2. \A a : Mine(t, a)' <=> Mine(t, a)
      BY <2>1, MineNext DEF Making, Clearing
    <2> QED BY <1>2, <1>3, <2>1, <2>2, AccountedSame
  <1>6. CASE Drops(t)
    <2>1. "csr" \in why'
      BY <1>6 DEF Drops, Leaves
    <2> QED BY <2>1 DEF Accounted
  <1>7. CASE Gives(t)
    <2>1. op[t].pc = "give" /\ GiveDoes(t)
      BY <1>7 DEF Gives
    <2>2. InFree(t)
      BY <2>1 DEF InFree, Clearing
    <2>3. Uses(Within(Removed(t)), "free")
      BY <2>1 DEF GiveDoes
    <2>4. \A a \in VA : vm'[a] = IF a \in Within(Removed(t)) THEN "free" ELSE vm[a]
      BY <1>1, <2>3, UsesIs
    <2>5. Untouched \subseteq Untouched'
      <3>1. bufs \ {op[t].buf} \subseteq bufs' /\ op'[t].buf \in {op[t].buf, NoBuffer}
        BY <2>1, IdleIs DEF GiveDoes, Ends
      <3> QED BY <1>1, <1>2, <3>1, UntouchedMore
    <2>6. /\ op[t].va \in Nat /\ op[t].size \in Nat /\ To(op[t]) \in Nat /\ To(op[t]) = End(op[t].buf)
      BY <1>1, <2>2, CallIs, FreeIs
    <2>7. \A a : Mine(t, a) => a \in Within(Removed(t)) \/ Mine(t, a)'
      <3>1. SUFFICES ASSUME NEW a, Mine(t, a), a \notin Within(Removed(t)) PROVE Mine(t, a)'
        OBVIOUS
      <3>2. a \in Nat /\ op[t].va <= a /\ a < To(op[t])
        BY <1>1, <2>2, <2>6, <3>1, MineIs
      <3>3. op[t].va + op[t].size <= a
        BY <2>6, <3>1, <3>2, SpanIs DEF Removed
      <3>4. op'[t].pc = "walk" /\ op'[t].va = op[t].va + op[t].size /\ op'[t].buf = op[t].buf
        BY <2>1, <2>6, <3>2, <3>3 DEF GiveDoes
      <3>5. a \in op[t].va + op[t].size .. To(op[t]) - 1
        BY <2>6, <3>2, <3>3
      <3>6. a \in op'[t].va .. End(op'[t].buf) - 1
        BY <2>6, <3>4, <3>5
      <3> QED BY <3>4, <3>6, MineNext DEF Clearing
    <2>8. \A a \in VA : /\ vm'[a] = "ali" => vm[a] = "ali" /\ a \notin Within(Removed(t))
                        /\ vm'[a] = "reserved" => vm[a] = "reserved"
      BY <2>4
    <2> QED BY <1>1, <1>2, <1>3, <2>5, <2>7, <2>8, AccountedStep
  <1> QED BY <1>4, <1>5, <1>6, <1>7 DEF Clears

LEMMA AccountedElse ==
  ASSUME AalInv, Rests \/ Maps
  PROVE  Accounted'
  <1>1. TypeOK /\ Accounted
    BY DEF AalInv
  <1>2. op' = op /\ bufs' = bufs /\ why' = why
    BY DEF Rests, Maps
  <1>3. \A a \in VA : vm'[a] \in {"ali", "reserved"} => vm'[a] = vm[a]
    <2>1. vm' = vm \/ \E b \in VA : Uses({b}, "program")
      BY DEF Rests, Maps
    <2> QED BY <1>1, <2>1, UsesIs
  <1>4. \A a : Belongs(a)' <=> Belongs(a)
    BY <1>2 DEF Belongs, Untouched, InFree, InAlloc
  <1> QED BY <1>1, <1>2, <1>3, <1>4 DEF Accounted, InAlloc

-----------------------------------------------------------------------------
(* The invariant is inductive.                                             *)

LEMMA AalInit ==
  ASSUME Init
  PROVE  AalInv
  <1>1. \A t \in Thread : op[t] = Idle /\ op[t].pc = "idle" /\ op[t].buf = NoBuffer
    BY IdleIs DEF Init
  <1>2. TypeOK
    <2>1. op \in [Thread -> Activity]
      BY IdleIs DEF Init
    <2>2. root \in [Region -> Leaf \union [is : {"node"}, to : Node]]
      BY EntriesAre DEF Init
    <2>3. node \in [Node -> [0 .. Large - 1 -> Leaf \union [is : {"node"}, to : {0} \union Node]]]
      BY EntriesAre DEF Init
    <2>4. count \in [calls : 0 .. MaxCalls, app : 0 .. MaxApp, faults : 0 .. MaxFaults]
      <3>1. MaxCalls \in Nat /\ MaxApp \in Nat /\ MaxFaults \in Nat
        BY AalAssumption
      <3>2. 0 \in 0 .. MaxCalls /\ 0 \in 0 .. MaxApp /\ 0 \in 0 .. MaxFaults
        BY <3>1
      <3> QED BY <3>2 DEF Init
    <2>5. hw \in [on : BOOLEAN, root : BOOLEAN, tlb : Page \union {NoPage}]
      BY DEF Init
    <2>6. vm \in [VA -> {"free", "reserved", "ali", "program"}]
      BY DEF Init
    <2> QED BY <2>1, <2>2, <2>3, <2>4, <2>5, <2>6 DEF TypeOK, Init
  <1>3. \A t \in Thread : ~InAlloc(t) /\ ~InFree(t)
    BY <1>1 DEF InAlloc, InFree, Making, Clearing
  <1>4. Shapes
    <2>1. \A t \in Thread : lock # t
      BY AalAssumption DEF Init
    <2>2. \A t \in Thread : Shaped(op[t])
      BY <1>1, IdleShaped
    <2> QED BY <1>1, <1>3, <2>1, <2>2 DEF Shapes, Init
  <1>5. Addresses
    <2>1. \A a \in VA : vm[a] = "free"
      BY DEF Init
    <2> QED BY <1>1, <1>3, <2>1 DEF Addresses, Init
  <1>6. (\A r \in Region : root[r] = Absent) /\ \A n \in Node, i \in 0 .. Large - 1 : node[n][i] = Absent
    BY DEF Init
  <1>7. \A a \in VA : ~Translates(a)
    BY <1>6, RegionIs, LinkIs DEF Translates, InRoot, InNode
  <1>8. NodesRight
    <2>1. \A r \in Region : root[r].is # "node"
      BY <1>6, LinkIs
    <2>2. freeList = 0 /\ \A n \in Node : ~OnList(n)
      BY DEF Init, OnList
    <2> QED BY <2>1, <2>2 DEF NodesRight, FreeNodes, Linked
  <1>9. Hands
    BY <1>1 DEF Hands
  <1>10. TranslatesPinned
    BY <1>7 DEF TranslatesPinned, Init
  <1>11. bufs = {} /\ Untouched = {} /\ \A t \in Thread : From(op[t]) = 0 /\ To(op[t]) = 0 /\ Owned(t) = {}
    <2>1. \A t \in Thread : From(op[t]) = 0 /\ To(op[t]) = 0 /\ Owned(t) = {}
      BY <1>2, <1>3, <1>4, OwnedIs
    <2> QED BY <2>1 DEF Untouched, Init
  <1>12. Claims
    <2>1. Run(0, 0)
      BY DEF Run
    <2> QED BY <1>11, <2>1 DEF Claims
  <1>13. Starts
    BY <1>3, <1>11 DEF Starts, StartsRight
  <1>14. Accounted
    BY DEF Accounted, Init
  <1>15. Service /\ why \intersect {"entry", "cut"} = {}
    BY DEF Service, OnWithRoot, Init
  <1> QED BY <1>2, <1>4, <1>5, <1>8, <1>9, <1>10, <1>12, <1>13, <1>14, <1>15 DEF AalInv

LEMMA ReasonsKept ==
  ASSUME AalInv, NEW t \in Thread, Makes(t) \/ Clears(t)
  PROVE  why' \intersect {"entry", "cut"} = {}
  <1>1. why' = why \/ \E reason \in {"full", "empty", "taken", "refused", "grow", "csr"} : why' = why \union {reason}
    BY DEF Makes, Calls, GivesUp, Abandons, Reserves, ReserveDoes, Shrinks, ShrinkDoes, Pins, PinDoes, Retreats,
       FallsBack, Enters, InsertDoes, Pushes, PushDoes, Continues, Finishes, Restores, RestoreDoes, Clears, Opens,
       Removes, Takes, Lowers, Descends, Tells, Drops, Leaves, Gives
  <1> QED BY <1>1 DEF AalInv

LEMMA StepIs ==
  ASSUME AalInv, AtStart, Next
  PROVE  (\E t \in Thread : Makes(t) \/ Clears(t)) \/ Rests \/ Maps
  <1>1. TypeOK
    BY DEF AalInv
  <1>2. CASE ServiceInit \/ OtherShims \/ FindVtp \/ Construct \/ VtpReset \/ Release \/ Fill
    BY <1>1, <1>2, RestIs
  <1>3. CASE \E t \in Thread : Allocate(t) \/ BufferFree(t) \/ Allocating(t) \/ Freeing(t)
    BY <1>3, AllocatingIs, FreeingIs
  <1>4. CASE ProgramMaps
    BY <1>4 DEF ProgramMaps, Maps
  <1> QED BY <1>2, <1>3, <1>4 DEF Next

LEMMA AalElse ==
  ASSUME AalInv, Rests \/ Maps, Outside'
  PROVE  AalInv'
  <1>1. Inside' /\ Shapes' /\ NodesRight' /\ Claims' /\ Starts' /\ why' = why
    BY InsideElse
  <1>2. TypeOK' /\ Service'
    BY <1>1 DEF TypeOK, Outside, Inside, TableOK, Entry, Counts
  <1>3. Hands' /\ TranslatesPinned'
    BY HandsElsewhere
  <1>4. Addresses' /\ Accounted'
    BY AddressesElse, AccountedElse
  <1> QED BY <1>1, <1>2, <1>3, <1>4 DEF AalInv

LEMMA AalStep ==
  ASSUME AalInv, AtStart, [Next]_vars
  PROVE  AalInv'
  <1>1. TypeOK /\ Service
    BY DEF AalInv
  <1>2. CASE Next
    <2>1. Outside'
      BY <1>1, <1>2, OutsideStep
    <2>2. ASSUME NEW t \in Thread, Makes(t) \/ Clears(t) PROVE AalInv'
      <3>1. Inside'
        BY <2>2, InsideMakes, InsideClears
      <3>2. TypeOK' /\ Service'
        BY <2>1, <3>1 DEF TypeOK, Outside, Inside, TableOK, Entry, Counts
      <3>3. Shapes'
        BY <2>2, MakesShapes, ClearsShapes
      <3>4. Addresses'
        BY <2>2, AddressesMakes, AddressesClears
      <3>5. NodesRight'
        BY <2>2, NodesMakes, NodesClears
      <3>6. Hands'
        BY <2>2, HandsMakes, HandsClears
      <3>7. TranslatesPinned'
        BY <2>2, TranslatesMakes, TranslatesClears
      <3>8. Claims' /\ Starts'
        BY <2>2, ClaimsStep
      <3>9. Accounted'
        BY <2>2, AccountedMakes, AccountedFinishes, AccountedClears
      <3>10. why' \intersect {"entry", "cut"} = {}
        BY <2>2, ReasonsKept
      <3> QED BY <3>2, <3>3, <3>4, <3>5, <3>6, <3>7, <3>8, <3>9, <3>10 DEF AalInv
    <2>3. CASE Rests \/ Maps
      BY <2>1, <2>3, AalElse
    <2> QED BY <1>2, <2>2, <2>3, StepIs
  <1>3. CASE UNCHANGED vars
    <2>1. UNCHANGED <<service, hw, op, lock, vm, pins, table, bufs, why, count>>
      BY <1>3 DEF vars
    <2>2. Outside'
      BY <1>1, <2>1 DEF TypeOK, Outside, Service, OnWithRoot, Counts
    <2>3. Rests
      BY <2>1 DEF Rests
    <2> QED BY <2>2, <2>3, AalElse
  <1> QED BY <1>2, <1>3

-----------------------------------------------------------------------------
(* What follows from it.                                                   *)

LEMMA ApartFrom ==
  ASSUME AalInv
  PROVE  BuffersApart
  <1>1. TypeOK /\ Shapes /\ Claims /\ Starts
    BY DEF AalInv
  <1>2. BuffersMarked
    <2>1. SUFFICES ASSUME NEW b \in Untouched, NEW a \in Span(b.base, b.len)
                   PROVE  /\ Translates(a)
                          /\ Span(PageOf(a).va, PageOf(a).size) \subseteq Span(b.base, b.len)
                          /\ EntryOf(a).flags.end <=> PageOf(a).va + PageOf(a).size = b.base + b.len
                          /\ IF PageOf(a).va = b.base THEN EntryOf(a).flags.start
                             ELSE EntryOf(a).flags.start => b.fell
      BY DEF BuffersMarked, Marked, Untouched
    <2>2. /\ a \in VA /\ a \in b.base .. End(b) - 1 /\ End(b) = b.base + b.len /\ b.base \in Nat /\ End(b) \in Nat
          /\ \A x : x \in Span(b.base, b.len) <=> x \in Nat /\ b.base <= x /\ x < End(b)
      BY <1>1, <2>1, UntouchedIs DEF Span
    <2>3. /\ Translates(a) /\ b.base <= PageOf(a).va /\ PageOf(a).va + PageOf(a).size <= End(b)
          /\ EntryOf(a).flags.end <=> PageOf(a).va + PageOf(a).size = End(b)
      BY <1>1, <2>2 DEF Claims, Run
    <2>4. PageOf(a).va \in Nat /\ PageOf(a).size \in Nat
      BY <1>1, <2>2, PageIs, Sizes
    <2>5. Span(PageOf(a).va, PageOf(a).size) \subseteq Span(b.base, b.len)
      <3>1. SUFFICES ASSUME NEW x \in Span(PageOf(a).va, PageOf(a).size) PROVE x \in Nat /\ b.base <= x /\ x < End(b)
        BY <2>2
      <3>2. x \in Nat /\ PageOf(a).va <= x /\ x < PageOf(a).va + PageOf(a).size
        BY <2>4, SpanIs
      <3> QED BY <2>2, <2>3, <2>4, <3>2
    <2>6. IF PageOf(a).va = b.base THEN EntryOf(a).flags.start ELSE EntryOf(a).flags.start => b.fell
      BY <1>1, <2>1 DEF Starts
    <2> QED BY <2>2, <2>3, <2>5, <2>6
  <1>3. FreesItsOwn
    <2>1. SUFFICES ASSUME NEW t \in Thread, op[t].pc \in {"inval", "give"}
                   PROVE  Span(op[t].va, op[t].size) \subseteq Span(op[t].buf.base, op[t].buf.len)
      BY DEF FreesItsOwn
    <2>2. InFree(t)
      BY <2>1 DEF InFree, Clearing
    <2>3. /\ op[t].va \in Nat /\ op[t].size \in Nat /\ op[t].buf \in bufs /\ op[t].buf.base <= op[t].va
          /\ op[t].va + op[t].size <= End(op[t].buf)
      <3>1. op[t].buf \in bufs /\ op[t].buf.base <= op[t].va /\ From(op[t]) <= To(op[t]) /\ To(op[t]) = End(op[t].buf)
        BY <1>1, <2>2, FreeIs
      <3>2. From(op[t]) = op[t].va + op[t].size
        BY <2>1, FromTo
      <3> QED BY <1>1, <3>1, <3>2, CallIs
    <2>4. /\ op[t].buf.base \in Nat /\ End(op[t].buf) \in Nat
          /\ \A x : x \in Span(op[t].buf.base, op[t].buf.len) <=> x \in Nat /\ op[t].buf.base <= x /\ x < End(op[t].buf)
      BY <1>1, <2>3, BufferIs
    <2>5. SUFFICES ASSUME NEW x \in Span(op[t].va, op[t].size)
                   PROVE  x \in Nat /\ op[t].buf.base <= x /\ x < End(op[t].buf)
      BY <2>4
    <2>6. x \in Nat /\ op[t].va <= x /\ x < op[t].va + op[t].size
      BY <2>3, SpanIs
    <2> QED BY <2>3, <2>4, <2>6
  <1> QED BY <1>2, <1>3 DEF BuffersApart

LEMMA LostFrom ==
  ASSUME AalInv
  PROVE  NothingLost
  <1>1. TypeOK /\ Shapes /\ Addresses /\ Accounted
    BY DEF AalInv
  <1>2. SUFFICES ASSUME why \subseteq {"full"}, NEW a \in VA
                 PROVE  /\ vm[a] = "ali" <=> \E p \in pins : a \in Span(p.va, p.size)
                        /\ vm[a] = "ali" => (\E b \in bufs : a \in Span(b.base, b.len))
                                            \/ (lock # Free /\ a \in Held(lock))
                        /\ vm[a] = "reserved" => lock # Free /\ a \in Span(op[lock].base, op[lock].len)
    BY DEF NothingLost
  <1>3. vm[a] = "ali" <=> \E p \in pins : a \in Span(p.va, p.size)
    BY <1>1 DEF Addresses, Within
  <1>4. \A t \in Thread : InAlloc(t) => lock = t /\ lock # Free
    BY <1>1, AllocIs, AalAssumption
  <1>5. vm[a] = "reserved" => lock # Free /\ a \in Span(op[lock].base, op[lock].len)
    BY <1>1, <1>2, <1>4 DEF Accounted
  <1>6. ASSUME NEW t \in Thread, InAlloc(t), a \in Coming(op[t]) .. Top(op[t]) - 1 PROVE a \in Held(t)
    <2>1. /\ op[t].va \in Nat /\ op[t].size \in Nat /\ op[t].whole \in Nat /\ Bottom(op[t]) \in Nat
          /\ Bottom(op[t]) <= op[t].va
      BY <1>1, <1>6, CallIs, AllocIs
    <2>2. a \in Nat /\ Coming(op[t]) <= a /\ a < Top(op[t]) /\ Top(op[t]) = Bottom(op[t]) + op[t].whole
      BY <1>1, <1>6, MineIs DEF Mine
    <2>3. op[t].va <= Coming(op[t])
      BY <2>1 DEF Coming
    <2>4. Coming(op[t]) \in Nat
      BY <1>1, <1>6, MineIs
    <2>5. a \in Span(op[t].va, op[t].whole)
      <3>1. op[t].va <= a /\ a < op[t].va + op[t].whole
        BY <2>1, <2>2, <2>3, <2>4
      <3> QED BY <2>1, <2>2, <3>1, SpanIs
    <2>6. op[t].pc \notin {"idle", "reserve"}
      BY <1>6 DEF InAlloc, Making
    <2> QED BY <2>5, <2>6 DEF Held
  <1>7. ASSUME NEW t \in Thread, InFree(t), a \in op[t].va .. End(op[t].buf) - 1
        PROVE  \E b \in bufs : a \in Span(b.base, b.len)
    <2>1. /\ op[t].buf \in bufs /\ op[t].buf.base \in Nat /\ op[t].buf.base <= op[t].va /\ End(op[t].buf) \in Nat
          /\ op[t].va \in Nat
      BY <1>1, <1>7, FreeIs, CallIs
    <2>2. a \in Nat /\ op[t].buf.base <= a /\ a < End(op[t].buf)
      BY <1>7, <2>1
    <2>3. a \in Span(op[t].buf.base, op[t].buf.len)
      BY <1>1, <2>1, <2>2, BufferIs
    <2> QED BY <2>1, <2>3
  <1>8. vm[a] = "ali" => (\E b \in bufs : a \in Span(b.base, b.len)) \/ (lock # Free /\ a \in Held(lock))
    <2>1. SUFFICES ASSUME vm[a] = "ali"
                   PROVE  (\E b \in bufs : a \in Span(b.base, b.len)) \/ (lock # Free /\ a \in Held(lock))
      OBVIOUS
    <2>2. Belongs(a)
      BY <1>1, <1>2, <2>1 DEF Accounted
    <2>3. CASE \E b \in Untouched : a \in Span(b.base, b.len)
      BY <2>3 DEF Untouched
    <2>4. CASE \E t \in Thread : InFree(t) /\ a \in op[t].va .. End(op[t].buf) - 1
      BY <1>7, <2>4
    <2>5. CASE \E t \in Thread : InAlloc(t) /\ a \in Coming(op[t]) .. Top(op[t]) - 1
      BY <1>4, <1>6, <2>5
    <2> QED BY <2>2, <2>3, <2>4, <2>5 DEF Belongs
  <1> QED BY <1>3, <1>5, <1>8

\* The addresses of the program that a step takes away.
LEMMA ProgramStep ==
  ASSUME AalInv, AtStart, [Next]_vars, NEW a \in VA, vm[a] = "program", vm'[a] # "program"
  PROVE  \E t \in Thread : At(t, "restore") /\ op[t].len = 0 /\ a \in Span(op[t].va, Large)
  <1>1. TypeOK /\ Shapes /\ Addresses
    BY DEF AalInv
  <1>2. vm' # vm
    OBVIOUS
  <1>3. ~Rests /\ ~Maps
    <2>1. ~Rests
      BY <1>2 DEF Rests
    <2>2. ~Maps
      BY <1>1, UsesIs DEF Maps
    <2> QED BY <2>1, <2>2
  <1>4. Next
    BY <1>2 DEF vars
  <1>5. PICK t \in Thread : Makes(t) \/ Clears(t)
    BY <1>3, <1>4, StepIs
  <1>6. CASE Reserves(t)
    <2>1. PICK area \in SUBSET VA : (\A x \in area : vm[x] = "free") /\ Uses(area, "reserved")
      BY <1>6 DEF Reserves, ReserveDoes
    <2> QED BY <1>1, <2>1, UsesIs
  <1>7. CASE Shrinks(t)
    <2>1. PICK size \in {1, Large} : Uses(Span(op[t].va - size, size), "free") /\ size <= op[t].left
      BY <1>7 DEF Shrinks, ShrinkDoes
    <2>2. a \in Span(op[t].va - size, size)
      BY <1>1, <2>1, UsesIs
    <2>3. InAlloc(t) /\ op[t].pc = "shrink"
      BY <1>7 DEF Shrinks, InAlloc, Making
    <2>4. /\ op[t].va \in Nat /\ op[t].base \in Nat /\ Bottom(op[t]) \in Nat /\ op[t].left \in Nat /\ size \in Nat
          /\ op[t].base <= Bottom(op[t]) /\ Bottom(op[t]) + op[t].left = op[t].va
      BY <1>1, <2>3, CallIs, AllocIs, Sizes
    <2>5. a \in op[t].base .. op[t].va - 1
      BY <2>1, <2>2, <2>4 DEF Span
    <2> QED BY <1>1, <2>3, <2>5, ReservedIs
  <1>8. CASE Pins(t)
    <2>1. AllFree(Within(Pending(t))) /\ Uses(Within(Pending(t)), "ali")
      BY <1>8 DEF Pins, PinDoes
    <2> QED BY <1>1, <2>1, UsesIs DEF AllFree
  <1>9. CASE Finishes(t)
    <2>1. Uses(Span(op[t].base, op[t].len), "free") /\ InAlloc(t)
      BY <1>9 DEF Finishes, FinishDoes, InAlloc, Making
    <2>2. a \in Span(op[t].base, op[t].len)
      BY <1>1, <2>1, UsesIs
    <2> QED BY <1>1, <2>1, <2>2, ReservedIs
  <1>10. CASE Restores(t)
    <2>1. /\ op[t].pc = "restore" /\ Uses(Span(op[t].va, Large), "reserved")
          /\ op[t].len = 0 \/ AllFree(Span(op[t].va, Large))
      BY <1>10 DEF Restores, RestoreDoes
    <2>2. a \in Span(op[t].va, Large)
      BY <1>1, <2>1, UsesIs
    <2> QED BY <2>1, <2>2 DEF At, AllFree
  <1>11. CASE Gives(t)
    <2>1. Removed(t) \in pins /\ Uses(Within(Removed(t)), "free")
      BY <1>11 DEF Gives, GiveDoes
    <2>2. a \in Within(Removed(t))
      BY <1>1, <2>1, UsesIs
    <2> QED BY <1>1, <2>1, <2>2 DEF Addresses
  <1>12. CASE ~(Reserves(t) \/ Shrinks(t) \/ Pins(t) \/ Finishes(t) \/ Restores(t) \/ Gives(t))
    <2>1. vm' = vm
      BY <1>5, <1>12 DEF Makes, Calls, GivesUp, Abandons, Retreats, FallsBack, Enters, InsertDoes, Pushes, PushDoes,
         Continues, ContinueDoes, Clears, Opens, Removes, Takes, Lowers, Descends, Tells, Drops, Leaves
    <2> QED BY <1>2, <2>1
  <1> QED BY <1>6, <1>7, <1>8, <1>9, <1>10, <1>11, <1>12

-----------------------------------------------------------------------------
(* The theorems.                                                           *)

\* Whatever calls of bufferAllocate and bufferFree overlap: the table and the
\* FPGA translate only pages that are pinned and that no thread is about to
\* give back, a page that was pinned always finds its entry free, and VTP is
\* never on without a table.
THEOREM TableStaysRight ==
  ASSUME AtStart
  PROVE  Spec => []TableRight
  <1>1. AalInv /\ [Next]_vars => AalInv'
    BY AalStep
  <1>2. Init => AalInv
    BY AalInit
  <1>3. AalInv => TableRight
    BY DEF AalInv, TableRight, EntriesFree, Service
  <1> QED BY <1>1, <1>2, <1>3, PTL DEF Spec

\* Every buffer translates from its first page to its last, only the last is
\* marked as such, and bufferFree, which stops where the mark is, takes no page
\* that is not of its buffer.
THEOREM BuffersStayApart ==
  ASSUME AtStart
  PROVE  Spec => []BuffersApart
  <1>1. AalInv /\ [Next]_vars => AalInv'
    BY AalStep
  <1>2. Init => AalInv
    BY AalInit
  <1>3. AalInv => BuffersApart
    BY ApartFrom
  <1> QED BY <1>1, <1>2, <1>3, PTL DEF Spec

\* As long as no call fails on the way, every address that is pinned belongs to
\* a buffer or to the call that holds the lock, and every one that is reserved
\* to that call.
THEOREM NothingIsLost ==
  ASSUME AtStart
  PROVE  Spec => []NothingLost
  <1>1. AalInv /\ [Next]_vars => AalInv'
    BY AalStep
  <1>2. Init => AalInv
    BY AalInit
  <1>3. AalInv => NothingLost
    BY LostFrom
  <1> QED BY <1>1, <1>2, <1>3, PTL DEF Spec

\* The program keeps what it has mapped, but for the mmap at a fixed address
\* that restores the last page of a reservation.
THEOREM ProgramIsKept ==
  ASSUME AtStart
  PROVE  Spec => ProgramKept
  <1> DEFINE Kept == \A a \in VA : vm[a] = "program" /\ vm'[a] # "program" =>
                        \E t \in Thread : At(t, "restore") /\ op[t].len = 0 /\ a \in Span(op[t].va, Large)
  <1>1. AalInv /\ [Next]_vars => AalInv'
    BY AalStep
  <1>2. Init => AalInv
    BY AalInit
  <1>3. AalInv /\ [Next]_vars => [Kept]_vars
    BY ProgramStep
  <1> QED BY <1>1, <1>2, <1>3, PTL DEF Spec, ProgramKept
=============================================================================
