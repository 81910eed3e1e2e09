--------------------------- MODULE VtpBuffersProofs ---------------------------
(***************************************************************************)
(* Proofs about VtpBuffers, for any number of threads, any page sizes, any *)
(* memory and any buffers.  The inductive invariant, BuffersInv, is        *)
(* defined in parts: the shape of the locals and of the table; what is     *)
(* counted on is in the table and counted; as many descriptors as buffers, *)
(* and as long ones; OPAE's pins; whose memory a release may unmap; and,   *)
(* while the mutex is not left locked, what of it is in use.               *)
(***************************************************************************)
EXTENDS VtpBuffers, FiniteSetTheorems, TLAPS

-----------------------------------------------------------------------------
(* The inductive invariant.                                                *)

\* A multiple of a page's size.
Aligned(x, s) == \E k \in 0 .. x : x = k * s

\* The range of addresses that a call counts on.
Lo(t) == IF thr[t].pc = "pin" THEN thr[t].start ELSE thr[t].at
Hi(t) == IF thr[t].pc = "pin" THEN thr[t].at
         ELSE IF thr[t].pc = "break" THEN 0 ELSE thr[t].end

\* What the locals of a call are at each step.
Removing == {"remove", "inval", "unpin", "unmap", "break"}
CallShape(me) ==
    /\ me.pc = "idle" => me = Idle
    /\ me.pc # "idle" =>
          /\ Aligned(me.at, Small) /\ Aligned(me.start, Small)
          /\ me.start <= me.at /\ me.start <= me.vaddr
          /\ me.len # 0 /\ me.vaddr + me.len <= me.end /\ me.end <= Units
    /\ me.pc = "pin" =>
          /\ ~me.busy /\ me.at <= Units
          /\ me.alloc => me.start = me.vaddr /\ Aligned(me.end, Small)
          /\ ~me.alloc => me.end = me.vaddr + me.len
    /\ me.pc \in Removing => me.end = me.vaddr + me.len
    /\ me.pc = "remove" => me.at < me.end
    /\ me.pc = "unmap" => me.at >= me.end
    /\ me.pc \in {"inval", "unpin"} =>
          /\ me.page \in Region
          /\ me.page.at + me.page.size <= me.at /\ me.at < me.page.at + me.page.size + me.page.size
    /\ me.pc = "break" => wedged

DescShape(d) ==
    /\ Aligned(d.start, Small) /\ d.start <= d.vaddr
    /\ d.len # 0 /\ d.vaddr + d.len <= Units

Shapes ==
    /\ \A t \in Thread : CallShape(thr[t])
    /\ \A d \in BagToSet(bufs) : DescShape(d)
    /\ IsFiniteSet(Copies(bufs, BagToSet(bufs)))
    /\ IsFiniteSet(Copies(held, BagToSet(held)))
    /\ BagToSet(held) \subseteq [vaddr : Address, len : Lengths]

\* No two entries of the table overlap.
Disjoint ==
    \A r, s \in Region : Pinned(r) /\ Pinned(s) /\ r # s => ~Meets(r, s.at, s.at + s.size)

\* What a buffer or a call counts on is in the table.
Covered(from, end) == \A p \in Pages(from, end) : Found(p) # {}
AllCovered ==
    /\ \A d \in BagToSet(bufs) : Covered(d.start, EndOf(d))
    /\ \A t \in Thread : Covered(Lo(t), Hi(t))

\* What a call has pinned beyond its end, or holds twice, lies in one entry.
OneEntry(t) == LET me == thr[t]
               IN  me.pc = "pin" =>
                     /\ me.end < me.at =>
                           \E r \in Region : Pinned(r) /\ r.at < me.end /\ me.at <= r.at + r.size
                     /\ \A r \in Region : Pinned(r) /\ Meets(r, me.start, me.at) /\ me.at < r.at + r.size =>
                           me.alloc
Counts ==
    /\ \A r \in Region : Pinned(r) => pt[r].refs >= Users(r) /\ (r \notin lost => pt[r].refs = Users(r))
    /\ \A t \in Thread : OneEntry(t)

\* At each address there are as many descriptors as buffers that the user holds,
\* and as many that are at least so long.
Held(a, n) == Cardinality(Copies(held, {h \in BagToSet(held) : h.vaddr = a /\ h.len >= n}))
Described(a, n) == Cardinality(Copies(bufs, {d \in BagToSet(bufs) : d.vaddr = a /\ d.len >= n}))
Dominated ==
    \A a \in Address :
        /\ Held(a, 0) = Described(a, 0)
        /\ \A n \in Nat : Held(a, n) <= Described(a, n)

\* OPAE's pins: one for the entry and one for each call that has taken it out of
\* the table; and one more than will be given back if the FPGA may know it.
Taken(r, pcs) == {t \in Thread : thr[t].pc \in pcs /\ thr[t].page = r}
PinsKept ==
    \A r \in Region :
        /\ pinned[r] >= Cardinality(Taken(r, {"inval", "unpin"})) + (IF Pinned(r) THEN 1 ELSE 0)
        /\ r \in cached => pinned[r] >= Cardinality(Taken(r, {"unpin"})) + 1

\* Memory that a call may unmap: it is MPF's, and no two calls have the same.
MayUnmap(from, end) == \E r \in Region : Pinned(r) /\ pt[r].alloc /\ Meets(r, from, end)
DescOwns(d) == MayUnmap(d.start, EndOf(d))
CallOwns(t) == LET me == thr[t]
               IN  \/ me.pc = "pin" /\ me.alloc
                   \/ me.pc \in Removing /\ (me.alloc \/ MayUnmap(me.at, me.end))
Land(t) == Pages(thr[t].start, thr[t].end)
DescLand(d) == Pages(d.start, EndOf(d))
Owners ==
    /\ \A d \in BagToSet(bufs) :
          DescOwns(d) => d.start = d.vaddr /\ bufs[d] = 1 /\ \A p \in DescLand(d) : mem[p] = "mpf"
    /\ \A d, e \in BagToSet(bufs) :
          DescOwns(d) /\ DescOwns(e) /\ d # e => DescLand(d) \intersect DescLand(e) = {}
    /\ \A t \in Thread :
          CallOwns(t) => thr[t].start = thr[t].vaddr /\ \A p \in Land(t) : mem[p] = "mpf"
    /\ \A t \in Thread : \A d \in BagToSet(bufs) :
          CallOwns(t) /\ DescOwns(d) => Land(t) \intersect DescLand(d) = {}
    /\ \A t, u \in Thread :
          CallOwns(t) /\ CallOwns(u) /\ t # u => Land(t) \intersect Land(u) = {}
    /\ \A t \in Thread :
          thr[t].pc = "pin" /\ ~thr[t].alloc => ~MayUnmap(thr[t].start, thr[t].at)

\* A page that a buffer has in use.
InBuffer(p) == \E d \in BagToSet(bufs) : p \in Pages(d.vaddr, EndOf(d))

\* What a call prepares is the user's, or newly allocated, or in use.
Seen(p) == Found(p) \intersect skipped # {}
Ready(t) ==
    \A p \in Pages(thr[t].vaddr, thr[t].vaddr + thr[t].len) :
        mem[p] = "user" \/ thr[t].alloc \/ (InBuffer(p) /\ (mem[p] = "mpf" \/ Seen(p)))
Prepared == \A t \in Thread : thr[t].pc = "pin" => Ready(t)

\* A release that found nothing shared left no page in use behind, but for
\* those that it stepped over.
Behind(t) ==
    \A p \in Land(t) : p < thr[t].at /\ InBuffer(p) =>
        \E s \in Found(p) : s \in skipped \/ Meets(s, thr[t].at, thr[t].end)
LeftBehind == \A t \in Thread : thr[t].pc \in Removing /\ CallOwns(t) /\ ~thr[t].busy => Behind(t)

-----------------------------------------------------------------------------
(* Addresses, pages and regions.                                           *)

LEMMA Sizes ==
  /\ Small \in Nat \ {0} /\ Large \in Nat \ {0} /\ Small < Large /\ Units \in Nat
  /\ \E k \in Nat : Large = k * Small
  /\ \E k \in Nat : Units = k * Large
  <1>1. \A a \in Nat, b \in Nat \ {0} : a % b = 0 => \E k \in Nat : a = k * b
    <2> SUFFICES ASSUME NEW a \in Nat, NEW b \in Nat \ {0}, a % b = 0
                 PROVE  \E k \in Nat : a = k * b
      OBVIOUS
    <2>1. a = b * (a \div b) + (a % b) /\ a \div b \in Nat
      OBVIOUS
    <2>2. \A k \in Nat : k * b = b * k
      OBVIOUS
    <2>3. a = (a \div b) * b
      BY <2>1, <2>2
    <2> QED BY <2>1, <2>3
  <1> QED BY <1>1, BuffersAssumption

LEMMA MulMono ==
  ASSUME NEW a \in Nat, NEW b \in Nat, NEW c \in Nat, a <= b
  PROVE  a * c <= b * c
  OBVIOUS

\* Multiples of a page's size.
LEMMA MultipleIs ==
  ASSUME NEW k \in Nat, NEW s \in Nat \ {0}
  PROVE  k * s \in Nat /\ Aligned(k * s, s)
  <1>1. k <= k * s
    <2>1. s * k >= 1 * k
      BY MulMono
    <2> QED BY <2>1
  <1> QED BY <1>1 DEF Aligned

LEMMA AlignedStep ==
  ASSUME NEW x \in Nat, NEW y \in Nat, NEW s \in Nat \ {0}, Aligned(x, s), Aligned(y, s), x < y
  PROVE  x + s <= y
  <1>1. PICK i \in Nat, j \in Nat : x = i * s /\ y = j * s
    BY DEF Aligned
  <1>2. i < j
    BY <1>1, MulMono
  <1>3. (i + 1) * s <= j * s
    BY <1>2, MulMono
  <1> QED BY <1>1, <1>3

LEMMA AlignedSum ==
  ASSUME NEW x \in Nat, NEW y \in Nat, NEW s \in Nat \ {0}, Aligned(x, s), Aligned(y, s)
  PROVE  Aligned(x + y, s)
  <1>1. PICK i \in Nat, j \in Nat : x = i * s /\ y = j * s
    BY DEF Aligned
  <1>2. i + j \in Nat /\ (i + j) * s = x + y
    BY <1>1
  <1> QED BY <1>2, MultipleIs

LEMMA AlignedBasics ==
  /\ Aligned(0, Small) /\ Aligned(0, Large)
  /\ Aligned(Small, Small) /\ Aligned(Large, Small) /\ Aligned(Large, Large)
  /\ Aligned(Units, Small) /\ Aligned(Units, Large)
  /\ \A x \in Nat : Aligned(x, Large) => Aligned(x, Small)
  <1>1. \A s \in Nat \ {0} : Aligned(0, s) /\ Aligned(s, s)
    <2> SUFFICES ASSUME NEW s \in Nat \ {0} PROVE Aligned(0, s) /\ Aligned(s, s)
      OBVIOUS
    <2>1. 0 * s = 0 /\ 1 * s = s
      OBVIOUS
    <2> QED BY <2>1, MultipleIs
  <1>2. \A x \in Nat : Aligned(x, Large) => Aligned(x, Small)
    <2> SUFFICES ASSUME NEW x \in Nat, Aligned(x, Large) PROVE Aligned(x, Small)
      OBVIOUS
    <2>1. PICK i \in Nat, j \in Nat : x = i * Large /\ Large = j * Small
      BY Sizes DEF Aligned
    <2>2. i * j \in Nat /\ (i * j) * Small = x
      BY <2>1, Sizes
    <2> QED BY <2>2, MultipleIs, Sizes
  <1>3. Aligned(Units, Large)
    BY Sizes, MultipleIs
  <1> QED BY <1>1, <1>2, <1>3, Sizes

LEMMA DownIs ==
  ASSUME NEW a \in Nat, NEW s \in Nat \ {0}
  PROVE  /\ Down(a, s) \in Nat /\ Down(a, s) <= a /\ a < Down(a, s) + s
         /\ Aligned(Down(a, s), s)
  <1>1. a = s * (a \div s) + (a % s) /\ a \div s \in Nat /\ a % s \in 0 .. s - 1
    OBVIOUS
  <1>2. Down(a, s) = (a \div s) * s
    BY <1>1 DEF Down
  <1> QED BY <1>1, <1>2, MultipleIs

LEMMA DownUnique ==
  ASSUME NEW a \in Nat, NEW s \in Nat \ {0}, NEW x \in Nat, Aligned(x, s), x <= a, a < x + s
  PROVE  x = Down(a, s)
  <1>1. /\ Down(a, s) \in Nat /\ Down(a, s) <= a /\ a < Down(a, s) + s /\ Aligned(Down(a, s), s)
    BY DownIs
  <1>2. ~(x < Down(a, s)) /\ ~(Down(a, s) < x)
    BY <1>1, AlignedStep
  <1> QED BY <1>1, <1>2

\* A page is a multiple of its size.
LEMMA PageIs ==
  ASSUME NEW p
  PROVE  p \in Page <=> p \in Nat /\ p < Units /\ Aligned(p, Small)
  <1>1. ASSUME p \in Page PROVE p \in Nat /\ p < Units /\ Aligned(p, Small)
    <2>1. PICK a \in 0 .. Units - 1 : p = Down(a, Small)
      BY <1>1 DEF Page, Address
    <2> QED BY <2>1, DownIs, Sizes
  <1>2. ASSUME p \in Nat, p < Units, Aligned(p, Small) PROVE p \in Page
    <2>1. p = Down(p, Small) /\ p \in 0 .. Units - 1
      BY <1>2, DownUnique, Sizes
    <2> QED BY <2>1 DEF Page, Address
  <1> QED BY <1>1, <1>2

LEMMA AddressIs == \A a : a \in Address <=> a \in Nat /\ a < Units
  BY Sizes DEF Address

LEMMA AtIs ==
  ASSUME NEW a \in Address, NEW s \in {Small, Large}
  PROVE  /\ At(a, s) \in Region /\ At(a, s).size = s /\ At(a, s).at = Down(a, s)
         /\ At(a, s).at <= a /\ a < At(a, s).at + s
  BY DownIs, Sizes, AddressIs DEF At, Region

\* A region is one page of memory, of either size, at a multiple of the size.
LEMMA RegionIs ==
  ASSUME NEW r \in Region
  PROVE  /\ r.at \in Nat /\ r.at \in Address /\ r.size \in Nat \ {0} /\ r.size \in {Small, Large}
         /\ r = [at |-> r.at, size |-> r.size] /\ r = At(r.at, r.size)
         /\ Aligned(r.at, r.size) /\ Aligned(r.at, Small) /\ Aligned(r.size, Small)
         /\ Aligned(r.at + r.size, Small) /\ r.at + r.size <= Units
  <1>1. PICK a \in Nat, s \in {Small, Large} : a < Units /\ r = At(a, s)
    BY AddressIs DEF Region
  <1>2. /\ r.at = Down(a, s) /\ r.size = s /\ r = [at |-> r.at, size |-> r.size]
    BY <1>1 DEF At
  <1>3. s \in Nat \ {0}
    BY Sizes
  <1>4. /\ r.at \in Nat /\ r.at <= a /\ Aligned(r.at, s)
    BY <1>2, <1>3, DownIs
  <1>5. Aligned(r.at, Small) /\ Aligned(r.size, Small)
    BY <1>2, <1>4, AlignedBasics
  <1>6. Aligned(r.at + r.size, Small)
    BY <1>2, <1>3, <1>4, <1>5, AlignedSum, Sizes
  <1>7. r.at + r.size <= Units
    <2>1. Aligned(Units, s) /\ r.at < Units
      BY <1>1, <1>4, AlignedBasics, Sizes
    <2> QED BY <2>1, <1>2, <1>3, <1>4, AlignedStep, Sizes
  <1>8. r.at = Down(r.at, s)
    BY <1>3, <1>4, DownUnique
  <1>9. r = At(r.at, r.size)
    BY <1>2, <1>8 DEF At
  <1>10. r.at \in Address
    BY <1>1, <1>4, AddressIs, Sizes
  <1> QED BY <1>2, <1>3, <1>4, <1>5, <1>6, <1>7, <1>9, <1>10

LEMMA RegionEqual ==
  ASSUME NEW r \in Region, NEW s \in Region, r.at = s.at, r.size = s.size
  PROVE  r = s
  BY RegionIs

\* A small page lies inside a region or outside of it.
LEMMA PageWhole ==
  ASSUME NEW p \in Nat, Aligned(p, Small), NEW r \in Region
  PROVE  \/ r.at <= p /\ p + Small <= r.at + r.size
         \/ p + Small <= r.at
         \/ r.at + r.size <= p
  <1>1. /\ r.at \in Nat /\ r.size \in Nat /\ r.at + r.size \in Nat
        /\ Aligned(r.at, Small) /\ Aligned(r.at + r.size, Small)
    BY RegionIs
  <1>2. p < r.at => p + Small <= r.at
    BY <1>1, AlignedStep, Sizes
  <1>3. p < r.at + r.size => p + Small <= r.at + r.size
    BY <1>1, AlignedStep, Sizes
  <1> QED BY <1>1, <1>2, <1>3

\* Two regions are disjoint or one lies in the other; of one size they are
\* disjoint or the same.
LEMMA Nested ==
  ASSUME NEW r \in Region, NEW s \in Region, r.size <= s.size
  PROVE  \/ r.at + r.size <= s.at
         \/ s.at + s.size <= r.at
         \/ s.at <= r.at /\ r.at + r.size <= s.at + s.size /\ (r.size = s.size => r = s)
  <1>1. /\ r.at \in Nat /\ r.size \in Nat \ {0} /\ s.at \in Nat /\ s.size \in Nat \ {0}
        /\ r.size \in {Small, Large} /\ s.size \in {Small, Large}
        /\ Aligned(r.at, Small) /\ Aligned(r.at, r.size) /\ Aligned(s.at, s.size)
    BY RegionIs
  <1>2. CASE r.size = s.size
    <2>1. r.at < s.at => r.at + r.size <= s.at
      BY <1>1, <1>2, AlignedStep
    <2>2. s.at < r.at => s.at + s.size <= r.at
      BY <1>1, <1>2, AlignedStep
    <2> QED BY <1>1, <1>2, <2>1, <2>2, RegionEqual
  <1>3. CASE r.size # s.size
    <2>1. r.size = Small
      BY <1>1, <1>3, Sizes
    <2> QED BY <1>1, <1>3, <2>1, PageWhole, Sizes
  <1> QED BY <1>2, <1>3

-----------------------------------------------------------------------------
(* Pages of a range, and what is found at an address.                      *)

\* The pages that a range touches.
LEMMA PagesTouched ==
  ASSUME NEW from \in Nat, NEW end \in Nat, end <= Units, NEW p
  PROVE  p \in Pages(from, end) <=> p \in Page /\ p < end /\ from < p + Small /\ from < end
  <1>1. ASSUME p \in Pages(from, end)
        PROVE  p \in Page /\ p < end /\ from < p + Small /\ from < end
    <2>1. PICK a \in from .. end - 1 : p = Down(a, Small)
      BY <1>1 DEF Pages
    <2>2. a \in Nat /\ a < Units /\ from <= a /\ a < end
      BY <2>1, Sizes
    <2>3. p \in Page
      BY <2>1, <2>2, AddressIs DEF Page
    <2>4. p \in Nat /\ p <= a /\ a < p + Small
      BY <2>1, <2>2, DownIs, Sizes
    <2> QED BY <2>2, <2>3, <2>4, Sizes
  <1>2. ASSUME p \in Page, p < end, from < p + Small, from < end PROVE p \in Pages(from, end)
    <2>1. p \in Nat /\ Aligned(p, Small)
      BY <1>2, PageIs
    <2> DEFINE a == IF from <= p THEN p ELSE from
    <2>2. a \in from .. end - 1 /\ a \in Nat /\ p <= a /\ a < p + Small
      BY <1>2, <2>1, Sizes
    <2> HIDE DEF a
    <2>3. p = Down(a, Small)
      BY <2>1, <2>2, DownUnique, Sizes
    <2> QED BY <2>2, <2>3 DEF Pages
  <1> QED BY <1>1, <1>2

\* From a page on, they are the pages in it.
LEMMA PagesIn ==
  ASSUME NEW from \in Nat, NEW end \in Nat, end <= Units, Aligned(from, Small), NEW p
  PROVE  p \in Pages(from, end) <=> p \in Page /\ from <= p /\ p < end
  <1>1. ASSUME p \in Page PROVE from < p + Small <=> from <= p
    <2>1. p \in Nat /\ Aligned(p, Small)
      BY <1>1, PageIs
    <2>2. p < from => p + Small <= from
      BY <2>1, AlignedStep, Sizes
    <2> QED BY <2>1, <2>2, Sizes
  <1>2. p \in Page => p \in Nat
    BY PageIs
  <1> QED BY <1>1, <1>2, PagesTouched

LEMMA PagesOfRegion ==
  ASSUME NEW r \in Region, NEW p
  PROVE  p \in Pages(r.at, r.at + r.size) <=> p \in Page /\ r.at <= p /\ p < r.at + r.size
  <1>1. r.at \in Nat /\ r.size \in Nat /\ r.at + r.size \in Nat /\ r.at + r.size <= Units /\ Aligned(r.at, Small)
    BY RegionIs
  <1> QED BY <1>1, PagesIn

LEMMA FoundIs ==
  ASSUME NEW a \in Address, NEW r
  PROVE  r \in Found(a) <=> r \in Region /\ Pinned(r) /\ r.at <= a /\ a < r.at + r.size
  <1>1. ASSUME r \in Found(a) PROVE r \in Region /\ Pinned(r) /\ r.at <= a /\ a < r.at + r.size
    <2>1. PICK s \in {Small, Large} : r = At(a, s) /\ Pinned(r)
      BY <1>1 DEF Found
    <2> QED BY <2>1, AtIs
  <1>2. ASSUME r \in Region, Pinned(r), r.at <= a, a < r.at + r.size PROVE r \in Found(a)
    <2>1. /\ r.at \in Nat /\ r.size \in Nat \ {0} /\ r.size \in {Small, Large} /\ Aligned(r.at, r.size)
          /\ r = [at |-> r.at, size |-> r.size]
      BY <1>2, RegionIs
    <2>2. r.at = Down(a, r.size)
      BY <1>2, <2>1, DownUnique, AddressIs
    <2>3. r = At(a, r.size)
      BY <2>1, <2>2 DEF At
    <2> QED BY <1>2, <2>1, <2>3 DEF Found
  <1> QED BY <1>1, <1>2

\* What is found at a page is found at every address in it.
LEMMA FoundAtPage ==
  ASSUME NEW a \in Address, NEW p \in Page, p <= a, a < p + Small
  PROVE  Found(a) = Found(p)
  <1>1. p \in Nat /\ p \in Address /\ a \in Nat /\ Aligned(p, Small)
    BY PageIs, AddressIs
  <1>2. ASSUME NEW r \in Region
        PROVE  r.at <= a /\ a < r.at + r.size <=> r.at <= p /\ p < r.at + r.size
    <2>1. r.at \in Nat /\ r.size \in Nat
      BY RegionIs
    <2> QED BY <1>1, <2>1, PageWhole, Sizes
  <1>3. \A r : r \in Found(a) <=> r \in Found(p)
    BY <1>1, <1>2, FoundIs
  <1> QED BY <1>3

\* A range is covered when each page from its first address on is.
LEMMA CoveredIs ==
  ASSUME NEW from \in Nat, NEW end \in Nat, end <= Units, Aligned(from, Small)
  PROVE  Covered(from, end) <=>
             \A p \in Page : from <= p /\ p < end =>
                 \E r \in Region : Pinned(r) /\ r.at <= p /\ p < r.at + r.size
  <1>1. \A p \in Page : p \in Address
    BY PageIs, AddressIs
  <1>2. ASSUME NEW p \in Page
        PROVE  Found(p) # {} <=> \E r \in Region : Pinned(r) /\ r.at <= p /\ p < r.at + r.size
    BY <1>1, FoundIs
  <1> QED BY <1>2, PagesIn DEF Covered

-----------------------------------------------------------------------------
(* Counting the members of a bag.                                          *)

LEMMA CopiesWithin == \A B, S, x : x \in Copies(B, S) <=> \E e \in S : \E i \in 1 .. B[e] : x = <<e, i>>
  BY DEF Copies

\* One more: one new copy in every set that the member is in.
LEMMA CopiesAdd ==
  ASSUME NEW B, IsABag(B), NEW x, NEW S, NEW T, S \subseteq BagToSet(B), T = S \union {x},
         x \in BagToSet(B) => x \in S
  PROVE  \E c : c \notin Copies(B, S) /\ Copies(BagAdd(B, x), T) = Copies(B, S) \union {c}
  <1> DEFINE A == BagAdd(B, x)
             n == IF x \in BagToSet(B) THEN B[x] + 1 ELSE 1
  <1>1. \A e \in BagToSet(B) : B[e] \in Nat \ {0}
    BY DEF IsABag, BagToSet
  <1>2. n \in Nat \ {0} /\ A[x] = n /\ \A e \in S : e # x => A[e] = B[e]
    BY <1>1 DEF BagAdd, BagToSet
  <1> HIDE DEF A
  <1>3. \A e \in S : \A i \in 1 .. B[e] : i # n \/ e # x
    BY <1>1 DEF BagToSet
  <1>4. <<x, n>> \notin Copies(B, S)
    BY <1>3, CopiesWithin
  <1>5. ASSUME NEW c PROVE c \in Copies(A, T) <=> c \in Copies(B, S) \/ c = <<x, n>>
    <2>1. CASE x \in BagToSet(B)
      <3>1. 1 .. A[x] = (1 .. B[x]) \union {n} /\ x \in S
        BY <1>1, <1>2, <2>1
      <3> QED BY <1>2, <3>1, CopiesWithin
    <2>2. CASE x \notin BagToSet(B)
      <3>1. 1 .. A[x] = {n} /\ x \notin S
        BY <1>2, <2>2
      <3> QED BY <1>2, <3>1, CopiesWithin
    <2> QED BY <2>1, <2>2
  <1>6. Copies(A, T) = Copies(B, S) \union {<<x, n>>}
    BY <1>5
  <1> QED BY <1>4, <1>6 DEF A

LEMMA CopiesAddOther ==
  ASSUME NEW B, IsABag(B), NEW x, NEW S, S \subseteq BagToSet(B), x \notin S
  PROVE  Copies(BagAdd(B, x), S) = Copies(B, S)
  <1>1. \A e \in S : BagAdd(B, x)[e] = B[e]
    BY DEF BagAdd, BagToSet
  <1> QED BY <1>1 DEF Copies

LEMMA BagAddIs ==
  ASSUME NEW B, IsABag(B), NEW x
  PROVE  /\ IsABag(BagAdd(B, x)) /\ BagToSet(BagAdd(B, x)) = BagToSet(B) \union {x}
         /\ \A e \in BagToSet(B) : e # x => BagAdd(B, x)[e] = B[e]
         /\ BagAdd(B, x)[x] = IF x \in BagToSet(B) THEN B[x] + 1 ELSE 1
  BY DEF BagAdd, BagToSet, IsABag

LEMMA BagRemoveIs ==
  ASSUME NEW B, IsABag(B), NEW x \in BagToSet(B)
  PROVE  /\ IsABag(BagRemove(B, x))
         /\ BagToSet(BagRemove(B, x)) = (IF B[x] = 1 THEN BagToSet(B) \ {x} ELSE BagToSet(B))
         /\ \A e \in BagToSet(B) : e # x => BagRemove(B, x)[e] = B[e]
         /\ B[x] # 1 => BagRemove(B, x)[x] = B[x] - 1
  <1>1. B[x] \in Nat \ {0}
    BY DEF IsABag, BagToSet
  <1> QED BY <1>1 DEF BagRemove, BagToSet, IsABag

\* One less: one copy fewer in every set that the member is in.
LEMMA CopiesRemove ==
  ASSUME NEW B, IsABag(B), NEW x \in BagToSet(B), NEW S, S \subseteq BagToSet(B), x \in S
  PROVE  \E c \in Copies(B, S) :
             Copies(BagRemove(B, x), S \intersect BagToSet(BagRemove(B, x))) = Copies(B, S) \ {c}
  <1> DEFINE A == BagRemove(B, x)
             T == S \intersect BagToSet(A)
             n == B[x]
  <1>1. n \in Nat \ {0}
    BY DEF IsABag, BagToSet
  <1>2. <<x, n>> \in Copies(B, S)
    BY <1>1, CopiesWithin
  <1>3. \A e \in S : e # x => A[e] = B[e] /\ e \in T
    BY BagRemoveIs
  <1>4. (IF n = 1 THEN x \notin T ELSE x \in T /\ A[x] = n - 1)
    BY <1>1, BagRemoveIs
  <1>5. T \subseteq S
    OBVIOUS
  <1> HIDE DEF A, T
  <1>6. ASSUME NEW c PROVE c \in Copies(A, T) <=> c \in Copies(B, S) /\ c # <<x, n>>
    <2>1. CASE n = 1
      <3>1. T = S \ {x} /\ 1 .. B[x] = {1}
        BY <1>3, <1>4, <1>5, <2>1
      <3> QED BY <1>3, <2>1, <3>1, CopiesWithin
    <2>2. CASE n # 1
      <3>1. T = S /\ 1 .. A[x] = (1 .. B[x]) \ {n}
        <4>1. T = S
          BY <1>3, <1>4, <1>5, <2>2
        <4>2. 1 .. n - 1 = (1 .. n) \ {n}
          BY <1>1
        <4> QED BY <1>4, <2>2, <4>1, <4>2
      <3>2. \A e \in S : e # x => 1 .. A[e] = 1 .. B[e]
        BY <1>3
      <3>3. ASSUME c \in Copies(A, T) PROVE c \in Copies(B, S) /\ c # <<x, n>>
        <4>1. PICK e \in S : \E i \in 1 .. A[e] : c = <<e, i>>
          BY <3>1, <3>3, CopiesWithin
        <4>2. PICK i \in 1 .. A[e] : c = <<e, i>>
          BY <4>1
        <4>3. i \in 1 .. B[e] /\ (e = x => i # n)
          BY <3>1, <3>2, <4>2
        <4> QED BY <4>2, <4>3, CopiesWithin
      <3>4. ASSUME c \in Copies(B, S), c # <<x, n>> PROVE c \in Copies(A, T)
        <4>1. PICK e \in S : \E i \in 1 .. B[e] : c = <<e, i>>
          BY <3>4, CopiesWithin
        <4>2. PICK i \in 1 .. B[e] : c = <<e, i>>
          BY <4>1
        <4>3. i \in 1 .. A[e]
          BY <3>1, <3>2, <3>4, <4>2
        <4> QED BY <3>1, <4>2, <4>3, CopiesWithin
      <3> QED BY <3>3, <3>4
    <2> QED BY <2>1, <2>2
  <1>7. Copies(A, T) = Copies(B, S) \ {<<x, n>>}
    BY <1>6
  <1> QED BY <1>2, <1>7 DEF A, T

LEMMA CopiesRemoveOther ==
  ASSUME NEW B, IsABag(B), NEW x \in BagToSet(B), NEW S, S \subseteq BagToSet(B), x \notin S
  PROVE  /\ Copies(BagRemove(B, x), S) = Copies(B, S)
         /\ S \subseteq BagToSet(BagRemove(B, x))
  <1>1. \A e \in S : BagRemove(B, x)[e] = B[e]
    <2>1. \A e \in S : e \in BagToSet(B) /\ e # x
      OBVIOUS
    <2> QED BY <2>1, BagRemoveIs
  <1>2. S \subseteq BagToSet(BagRemove(B, x))
    BY BagRemoveIs
  <1> DEFINE A == BagRemove(B, x)
  <1>3. \A e \in S : 1 .. A[e] = 1 .. B[e]
    BY <1>1
  <1> HIDE DEF A
  <1>4. ASSUME NEW c PROVE c \in Copies(A, S) <=> c \in Copies(B, S)
    <2>1. \A e \in S : (\E i \in 1 .. A[e] : c = <<e, i>>) <=> (\E i \in 1 .. B[e] : c = <<e, i>>)
      BY <1>3
    <2> QED BY <2>1, CopiesWithin
  <1> QED BY <1>2, <1>4 DEF A

LEMMA FewerIn ==
  ASSUME NEW S, NEW T, S \subseteq T, IsFiniteSet(T)
  PROVE  /\ IsFiniteSet(S) /\ Cardinality(S) \in Nat /\ Cardinality(T) \in Nat
         /\ Cardinality(S) <= Cardinality(T)
  BY FS_Subset, FS_CardinalityType

LEMMA CopiesSubset ==
  ASSUME NEW B, NEW S, NEW T, S \subseteq T, IsFiniteSet(Copies(B, T))
  PROVE  /\ IsFiniteSet(Copies(B, S)) /\ Cardinality(Copies(B, S)) \in Nat
         /\ Cardinality(Copies(B, T)) \in Nat
         /\ Cardinality(Copies(B, S)) <= Cardinality(Copies(B, T))
  <1>1. Copies(B, S) \subseteq Copies(B, T)
    BY DEF Copies
  <1> QED BY <1>1, FewerIn

-----------------------------------------------------------------------------
(* What the invariant says of a call.                                      *)

LEMMA LengthIs == \A n \in Lengths : n \in Nat /\ n # 0
  BY BuffersAssumption

LEMMA ThreadIs ==
  ASSUME TypeOK, NEW t \in Thread
  PROVE  /\ thr[t] \in Activity
         /\ thr[t].pc \in {"idle", "pin", "remove", "inval", "unpin", "unmap", "break"}
         /\ thr[t].at \in Nat /\ thr[t].end \in Nat /\ thr[t].start \in Nat /\ thr[t].start \in Address
         /\ thr[t].vaddr \in Nat /\ thr[t].vaddr \in Address /\ thr[t].len \in Nat
         /\ thr[t].len \in Lengths \union {0}
         /\ thr[t].alloc \in BOOLEAN /\ thr[t].busy \in BOOLEAN
  <1>1. thr[t] \in Activity
    BY DEF TypeOK
  <1>2. thr[t].start \in Address /\ thr[t].vaddr \in Address /\ thr[t].len \in Lengths \union {0}
    BY <1>1 DEF Activity
  <1>3. thr[t].len \in Nat
    BY <1>2, LengthIs
  <1> QED BY <1>1, <1>2, <1>3, AddressIs DEF Activity

LEMMA DescIs ==
  ASSUME TypeOK, NEW d \in BagToSet(bufs)
  PROVE  /\ d \in [vaddr : Address, len : Lengths, start : Address]
         /\ d.vaddr \in Nat /\ d.len \in Nat \ {0} /\ d.start \in Nat /\ EndOf(d) \in Nat
         /\ d.vaddr \in Address /\ d.start \in Address /\ d.len \in Lengths
  <1>1. d \in [vaddr : Address, len : Lengths, start : Address]
    BY DEF TypeOK
  <1>2. d.vaddr \in Address /\ d.start \in Address /\ d.len \in Lengths
    BY <1>1
  <1> QED BY <1>1, <1>2, LengthIs, AddressIs DEF EndOf

LEMMA BufferIs ==
  ASSUME TypeOK, NEW h \in BagToSet(held)
  PROVE  /\ h \in [vaddr : Address, len : Lengths]
         /\ h.vaddr \in Nat /\ h.len \in Nat \ {0} /\ h.vaddr \in Address /\ h.len \in Lengths
  <1>1. h \in [vaddr : Address, len : Lengths]
    BY DEF TypeOK
  <1>2. h.vaddr \in Address /\ h.len \in Lengths
    BY <1>1
  <1> QED BY <1>1, <1>2, LengthIs, AddressIs

LEMMA EntryIs ==
  ASSUME TypeOK, NEW r \in Region
  PROVE  pt[r] \in [refs : Nat, alloc : BOOLEAN] /\ pt[r].refs \in Nat /\ pt[r].alloc \in BOOLEAN
  BY DEF TypeOK

\* The range that a call counts on, as InCall says it.
LEMMA InCallIs ==
  ASSUME NEW t \in Thread, NEW r \in Region
  PROVE  /\ InCall(r, t) <=> Meets(r, Lo(t), Hi(t))
         /\ InCall(r, t)' <=> Meets(r, Lo(t)', Hi(t)')
  <1>1. r.at \in Nat
    BY RegionIs
  <1>2. InCall(r, t) <=> Meets(r, Lo(t), Hi(t))
    BY <1>1 DEF InCall, Meets, Lo, Hi
  <1>3. InCall(r, t)' <=> Meets(r, Lo(t)', Hi(t)')
    BY <1>1 DEF InCall, Meets, Lo, Hi
  <1> QED BY <1>2, <1>3

\* The start, the next address and the end of a call that is at work.
LEMMA CallIs ==
  ASSUME TypeOK, Shapes, NEW t \in Thread, thr[t].pc # "idle"
  PROVE  /\ Aligned(thr[t].at, Small) /\ Aligned(thr[t].start, Small)
         /\ thr[t].start <= thr[t].at /\ thr[t].start <= thr[t].vaddr
         /\ thr[t].len \in Nat \ {0} /\ thr[t].vaddr + thr[t].len <= thr[t].end /\ thr[t].end <= Units
         /\ thr[t].at < thr[t].end => thr[t].at \in Page /\ thr[t].at \in Address
  <1>1. CallShape(thr[t])
    BY DEF Shapes
  <1>2. /\ Aligned(thr[t].at, Small) /\ Aligned(thr[t].start, Small)
        /\ thr[t].start <= thr[t].at /\ thr[t].start <= thr[t].vaddr
        /\ thr[t].len # 0 /\ thr[t].vaddr + thr[t].len <= thr[t].end /\ thr[t].end <= Units
    BY <1>1 DEF CallShape
  <1>3. thr[t].at < thr[t].end => thr[t].at < Units
    BY <1>2, ThreadIs, Sizes
  <1> QED BY <1>2, <1>3, ThreadIs, PageIs, AddressIs

LEMMA DescShapeIs ==
  ASSUME TypeOK, Shapes, NEW d \in BagToSet(bufs)
  PROVE  Aligned(d.start, Small) /\ d.start <= d.vaddr /\ EndOf(d) <= Units /\ d.start < EndOf(d)
  BY DescIs DEF Shapes, DescShape, EndOf

\* What is found at a page that a range with entries has.
LEMMA CoveredPage ==
  ASSUME NEW from \in Nat, NEW end \in Nat, end <= Units, Aligned(from, Small), Covered(from, end),
         NEW p \in Page, from <= p, p < end
  PROVE  \E r \in Region : Pinned(r) /\ r.at <= p /\ p < r.at + r.size /\ r \in Found(p)
  <1>1. p \in Address
    BY PageIs, AddressIs
  <1>2. PICK r \in Region : Pinned(r) /\ r.at <= p /\ p < r.at + r.size
    BY CoveredIs
  <1> QED BY <1>1, <1>2, FoundIs

\* A call counts on a range of pages, which has entries.
LEMMA CallRange ==
  ASSUME TypeOK, Shapes, NEW t \in Thread
  PROVE  /\ Lo(t) \in Nat /\ Hi(t) \in Nat
         /\ Lo(t) < Hi(t) => Aligned(Lo(t), Small)
         /\ Hi(t) <= Units
  <1>1. CASE thr[t].pc = "idle"
    <2>1. thr[t] = Idle
      BY <1>1 DEF Shapes, CallShape
    <2> QED BY <1>1, <2>1, Sizes DEF Idle, Lo, Hi
  <1>2. CASE thr[t].pc # "idle"
    <2>1. thr[t].pc = "pin" => thr[t].at <= Units
      BY DEF Shapes, CallShape
    <2> QED BY <1>2, <2>1, CallIs, ThreadIs, Sizes DEF Lo, Hi
  <1> QED BY <1>1, <1>2

-----------------------------------------------------------------------------
(* Entries that do not overlap.                                            *)

LEMMA Apart ==
  ASSUME Disjoint, NEW r \in Region, NEW s \in Region, Pinned(r), Pinned(s), r # s
  PROVE  r.at + r.size <= s.at \/ s.at + s.size <= r.at
  <1>1. /\ r.at \in Nat /\ r.size \in Nat \ {0} /\ s.at \in Nat /\ s.size \in Nat \ {0}
    BY RegionIs
  <1>2. ~Meets(r, s.at, s.at + s.size)
    BY DEF Disjoint
  <1> QED BY <1>1, <1>2 DEF Meets

\* A range that grows inside one entry meets no other entry.
LEMMA Grow ==
  ASSUME NEW r \in Region, NEW s \in Region,
         r.at + r.size <= s.at \/ s.at + s.size <= r.at,
         NEW start \in Nat, NEW at \in Nat, NEW next \in Nat,
         start <= at, at < next, r.at <= at, next <= r.at + r.size
  PROVE  Meets(s, start, next) <=> Meets(s, start, at)
  <1>1. /\ r.at \in Nat /\ r.size \in Nat \ {0} /\ s.at \in Nat /\ s.size \in Nat \ {0}
    BY RegionIs
  <1> QED BY <1>1 DEF Meets

\* A range that shrinks by an entry's size, from an address in it, leaves the
\* entry, and those that it steps over.
LEMMA Shrink ==
  ASSUME Disjoint, NEW r \in Region, Pinned(r), NEW at \in Nat, NEW end \in Nat,
         r.at <= at, at < r.at + r.size, at < end
  PROVE  /\ Meets(r, at, end) /\ ~Meets(r, at + r.size, end)
         /\ r \notin Left(r.at + r.size, Lower(at + r.size, end), at + r.size, end)
         /\ \A s \in Region : Pinned(s) /\ s # r =>
               /\ Meets(s, at + r.size, end) => Meets(s, at, end)
               /\ Meets(s, at, end) /\ ~Meets(s, at + r.size, end) <=>
                     s \in Left(r.at + r.size, Lower(at + r.size, end), at + r.size, end)
  <1>1. r.at \in Nat /\ r.size \in Nat \ {0}
    BY RegionIs
  <1>2. Meets(r, at, end) /\ ~Meets(r, at + r.size, end)
    BY <1>1 DEF Meets
  <1>3. ASSUME NEW s \in Region, Pinned(s), s # r
        PROVE  /\ Meets(s, at + r.size, end) => Meets(s, at, end)
               /\ Meets(s, at, end) /\ ~Meets(s, at + r.size, end) <=>
                     s \in Left(r.at + r.size, Lower(at + r.size, end), at + r.size, end)
    <2>1. s.at \in Nat /\ s.size \in Nat \ {0}
      BY RegionIs
    <2>2. r.at + r.size <= s.at \/ s.at + s.size <= r.at
      BY <1>3, Apart
    <2>3. Meets(s, at + r.size, end) => Meets(s, at, end)
      BY <1>1, <2>1 DEF Meets
    <2>4. ASSUME ~Meets(s, at + r.size, end)
          PROVE  Meets(s, at, end) <=> Meets(s, r.at + r.size, Lower(at + r.size, end))
      BY <1>1, <2>1, <2>2, <2>4 DEF Meets, Lower
    <2> QED BY <1>3, <2>3, <2>4 DEF Left
  <1>4. r \notin Left(r.at + r.size, Lower(at + r.size, end), at + r.size, end)
    BY <1>1 DEF Left, Meets
  <1> QED BY <1>2, <1>3, <1>4

\* There is at most one entry at an address.
LEMMA FoundOne ==
  ASSUME Disjoint, NEW a \in Address, NEW r \in Found(a)
  PROVE  Found(a) = {r}
  <1>1. a \in Nat /\ r \in Region /\ Pinned(r) /\ r.at <= a /\ a < r.at + r.size
    BY FoundIs, AddressIs
  <1>2. ASSUME NEW s \in Found(a), s # r PROVE FALSE
    <2>1. s \in Region /\ Pinned(s) /\ s.at <= a /\ a < s.at + s.size
      BY FoundIs
    <2>2. r.at + r.size <= s.at \/ s.at + s.size <= r.at
      BY <1>1, <1>2, <2>1, Apart
    <2> QED BY <1>1, <2>1, <2>2, RegionIs
  <1> QED BY <1>2

\* Where a page can be inserted the entries there are at least as large.
LEMMA RoomFor ==
  ASSUME NEW r \in Region, MayInsert(r), NEW s \in Region, Pinned(s)
  PROVE  \/ ~Meets(s, r.at, r.at + r.size) /\ ~Meets(r, s.at, s.at + s.size)
         \/ s \in Found(r.at) /\ s.at <= r.at /\ r.at + r.size <= s.at + s.size
  <1>1. /\ r.at \in Nat /\ r.size \in Nat \ {0} /\ s.at \in Nat /\ s.size \in Nat \ {0} /\ r.at \in Address
    BY RegionIs
  <1>2. CASE s.size < r.size
    <2>1. ~Meets(s, r.at, r.at + r.size)
      BY <1>2 DEF MayInsert
    <2> QED BY <1>1, <2>1 DEF Meets
  <1>3. CASE r.size <= s.size
    <2>1. \/ r.at + r.size <= s.at
          \/ s.at + s.size <= r.at
          \/ s.at <= r.at /\ r.at + r.size <= s.at + s.size
      BY <1>3, Nested
    <2>2. ASSUME s.at <= r.at, r.at + r.size <= s.at + s.size PROVE s \in Found(r.at)
      BY <1>1, <2>2, FoundIs
    <2> QED BY <1>1, <2>1, <2>2 DEF Meets
  <1> QED BY <1>1, <1>2, <1>3

\* A new entry meets no range that has entries.
LEMMA Fresh ==
  ASSUME NEW r \in Region, MayInsert(r), Found(r.at) = {},
         NEW from \in Nat, NEW end \in Nat, end <= Units, from < end => Aligned(from, Small),
         Covered(from, end)
  PROVE  ~Meets(r, from, end)
  <1> SUFFICES ASSUME Meets(r, from, end) PROVE FALSE
    OBVIOUS
  <1>1. /\ r.at \in Nat /\ r.size \in Nat \ {0} /\ Aligned(r.at, Small) /\ r.at + r.size <= Units
    BY RegionIs
  <1>2. r.at < end /\ from < r.at + r.size /\ from < end
    BY DEF Meets
  <1> DEFINE p == IF from <= r.at THEN r.at ELSE from
  <1>3. p \in Nat /\ Aligned(p, Small) /\ p < Units /\ from <= p /\ p < end /\ r.at <= p /\ p < r.at + r.size
    BY <1>1, <1>2, Sizes
  <1> HIDE DEF p
  <1>4. p \in Page
    BY <1>3, PageIs
  <1>5. PICK s \in Region : Pinned(s) /\ s.at <= p /\ p < s.at + s.size
    BY <1>2, <1>3, <1>4, CoveredPage
  <1>6. ~Meets(s, r.at, r.at + r.size)
    BY <1>5, RoomFor
  <1>7. s.at \in Nat /\ s.size \in Nat
    BY RegionIs
  <1> QED BY <1>1, <1>3, <1>5, <1>6, <1>7 DEF Meets

-----------------------------------------------------------------------------
(* Counting the users of an entry.                                         *)

Callers(r) == {t \in Thread : InCall(r, t)}
Sharers(r) == Copies(bufs, Sharing(r))

LEMMA UsersIs ==
  ASSUME TypeOK, Shapes, NEW r
  PROVE  /\ IsFiniteSet(Sharers(r)) /\ IsFiniteSet(Callers(r))
         /\ Cardinality(Sharers(r)) \in Nat /\ Cardinality(Callers(r)) \in Nat
         /\ Users(r) = Cardinality(Sharers(r)) + Cardinality(Callers(r)) /\ Users(r) \in Nat
  <1>1. Sharing(r) \subseteq BagToSet(bufs) /\ IsFiniteSet(Copies(bufs, BagToSet(bufs)))
    BY DEF Sharing, Shapes
  <1>2. IsFiniteSet(Sharers(r)) /\ Cardinality(Sharers(r)) \in Nat
    BY <1>1, CopiesSubset DEF Sharers
  <1>3. Callers(r) \subseteq Thread /\ IsFiniteSet(Thread)
    BY BuffersAssumption DEF Callers
  <1>4. IsFiniteSet(Callers(r)) /\ Cardinality(Callers(r)) \in Nat
    BY <1>3, FewerIn
  <1>5. Users(r) = Cardinality(Sharers(r)) + Cardinality(Callers(r))
    BY DEF Users, Sharers, Callers
  <1> QED BY <1>2, <1>4, <1>5

\* A step of one thread changes the callers by that thread.
LEMMA CallersMove ==
  ASSUME NEW t \in Thread, NEW r, \A u \in Thread \ {t} : thr'[u] = thr[u]
  PROVE  /\ Cardinality(Callers(r)) \in Nat /\ Cardinality(Callers(r)') \in Nat
         /\ InCall(r, t) /\ InCall(r, t)' => Cardinality(Callers(r)') = Cardinality(Callers(r))
         /\ ~InCall(r, t) /\ ~InCall(r, t)' => Cardinality(Callers(r)') = Cardinality(Callers(r))
         /\ ~InCall(r, t) /\ InCall(r, t)' => Cardinality(Callers(r)') = Cardinality(Callers(r)) + 1
         /\ InCall(r, t) /\ ~InCall(r, t)' => Cardinality(Callers(r)') = Cardinality(Callers(r)) - 1
  <1> DEFINE C == Callers(r)
             D == Callers(r)'
  <1>1. \A u \in Thread \ {t} : u \in C <=> u \in D
    BY DEF Callers, InCall
  <1>2. C \subseteq Thread /\ D \subseteq Thread /\ IsFiniteSet(Thread)
    BY BuffersAssumption DEF Callers
  <1>3. (t \in C <=> InCall(r, t)) /\ (t \in D <=> InCall(r, t)')
    BY DEF Callers
  <1> HIDE DEF C, D
  <1>4. IsFiniteSet(C) /\ IsFiniteSet(D) /\ Cardinality(C) \in Nat /\ Cardinality(D) \in Nat
    BY <1>2, FewerIn
  <1>5. CASE InCall(r, t) <=> InCall(r, t)'
    <2>1. C = D
      BY <1>1, <1>2, <1>3, <1>5
    <2> QED BY <1>4, <1>5, <2>1 DEF C, D
  <1>6. CASE ~InCall(r, t) /\ InCall(r, t)'
    <2>1. D = C \union {t} /\ t \notin C
      BY <1>1, <1>2, <1>3, <1>6
    <2>2. Cardinality(D) = Cardinality(C) + 1
      BY <1>4, <2>1, FS_AddElement
    <2> QED BY <1>4, <1>6, <2>2 DEF C, D
  <1>7. CASE InCall(r, t) /\ ~InCall(r, t)'
    <2>1. D = C \ {t} /\ t \in C
      BY <1>1, <1>2, <1>3, <1>7
    <2>2. Cardinality(D) = Cardinality(C) - 1
      BY <1>4, <2>1, FS_RemoveElement
    <2> QED BY <1>4, <1>7, <2>2 DEF C, D
  <1> QED BY <1>5, <1>6, <1>7

-----------------------------------------------------------------------------
(* Types and shapes are kept.                                              *)

LEMMA BagsType ==
  /\ TypeOK => IsABag(bufs) /\ IsABag(held)
  BY DEF TypeOK

\* A call moves, the others stay where they are.
LEMMA ThreadMoves ==
  ASSUME TypeOK, NEW t \in Thread, NEW me \in Activity, thr' = [thr EXCEPT ![t] = me]
  PROVE  /\ thr' \in [Thread -> Activity] /\ thr'[t] = me
         /\ \A u \in Thread \ {t} : thr'[u] = thr[u]
  BY DEF TypeOK

LEMMA IdleIs == Units # 0 => Idle \in Activity
  BY Sizes, AddressIs DEF Idle, Activity

LEMMA ShapesMove ==
  ASSUME TypeOK, Shapes, NEW t \in Thread, NEW me \in Activity, thr' = [thr EXCEPT ![t] = me],
         wedged => wedged', CallShape(me)'
  PROVE  \A u \in Thread : CallShape(thr[u])'
  <1>1. thr'[t] = me /\ \A u \in Thread \ {t} : thr'[u] = thr[u]
    BY ThreadMoves
  <1>2. ASSUME NEW u \in Thread \ {t} PROVE CallShape(thr[u])'
    <2>1. CallShape(thr[u]) /\ thr'[u] = thr[u]
      BY <1>1 DEF Shapes
    <2> QED BY <2>1 DEF CallShape
  <1>3. CallShape(thr[t])'
    BY <1>1 DEF CallShape
  <1> QED BY <1>2, <1>3

\* What the buffers' part of the shapes says when they stay.
LEMMA ShapesOfBags ==
  ASSUME TypeOK, Shapes, UNCHANGED <<bufs, held>>, \A u \in Thread : CallShape(thr[u])'
  PROVE  Shapes'
  BY DEF Shapes, Copies, DescShape

\* A step that leaves every variable of a part alone keeps it.
LEMMA UserMapType ==
  ASSUME TypeOK, Shapes, NEW r \in Region, UserMap(r)
  PROVE  TypeOK' /\ Shapes'
  <1>1. mem' \in [Page -> {"free", "user", "mpf"}] /\ huge' \subseteq {s \in Region : s.size = Large}
    BY DEF TypeOK, UserMap
  <1>2. UNCHANGED <<pt, pinned, cached, bufs, held, thr, wedged, count, stale, lost, skipped>>
    BY DEF UserMap
  <1>3. \A u \in Thread : CallShape(thr[u])'
    BY <1>2 DEF Shapes, CallShape
  <1>4. Shapes'
    BY <1>2, <1>3, ShapesOfBags
  <1> QED BY <1>1, <1>2, <1>4 DEF TypeOK

LEMMA UnmappedType ==
  ASSUME TypeOK, NEW from, NEW end, Unmapped(from, end), Pages(from, end) \subseteq Page
  PROVE  /\ mem' \in [Page -> {"free", "user", "mpf"}] /\ huge' \subseteq {s \in Region : s.size = Large}
         /\ stale' \subseteq Page
  BY DEF TypeOK, Unmapped

LEMMA UserUnmapType ==
  ASSUME TypeOK, Shapes, NEW r \in Region, UserUnmap(r)
  PROVE  TypeOK' /\ Shapes'
  <1>1. Pages(r.at, r.at + r.size) \subseteq Page
    BY PagesOfRegion
  <1>2. /\ mem' \in [Page -> {"free", "user", "mpf"}] /\ huge' \subseteq {s \in Region : s.size = Large}
        /\ stale' \subseteq Page
    BY <1>1, UnmappedType DEF UserUnmap
  <1>3. UNCHANGED <<pt, pinned, cached, bufs, held, thr, wedged, lost, skipped>>
    BY DEF UserUnmap
  <1>4. count' \in [prepares : 0 .. MaxPrepares, unmaps : 0 .. MaxUnmaps, faults : 0 .. MaxFaults]
    <2>1. count.unmaps \in Nat /\ MaxUnmaps \in Nat /\ count.unmaps + 1 \in 0 .. MaxUnmaps
      BY BuffersAssumption DEF UserUnmap, TypeOK
    <2> QED BY <2>1 DEF UserUnmap, TypeOK
  <1>5. \A u \in Thread : CallShape(thr[u])'
    BY <1>3 DEF Shapes, CallShape
  <1>6. Shapes'
    BY <1>3, <1>5, ShapesOfBags
  <1> QED BY <1>2, <1>3, <1>4, <1>6 DEF TypeOK

\* What mpfVtpPrepareBuffer starts with.
Opening(vaddr, len, start, end, alloc) ==
    [Idle EXCEPT !.pc = "pin", !.at = start, !.end = end, !.start = start,
                 !.vaddr = vaddr, !.len = len, !.alloc = alloc]

LEMMA OpeningIs ==
  ASSUME NEW vaddr \in Address, NEW len \in Lengths, NEW start \in Address, NEW end \in Nat,
         NEW alloc \in BOOLEAN
  PROVE  \E me \in Activity :
            /\ me = Opening(vaddr, len, start, end, alloc)
            /\ me.pc = "pin" /\ me.at = start /\ me.end = end /\ me.start = start
            /\ me.vaddr = vaddr /\ me.len = len /\ (me.alloc <=> alloc) /\ ~me.busy
  <1>1. CASE alloc = TRUE
    <2> DEFINE me == Opening(vaddr, len, start, end, TRUE)
    <2>1. /\ me.pc = "pin" /\ me.at = start /\ me.end = end /\ me.start = start
          /\ me.vaddr = vaddr /\ me.len = len /\ me.alloc = TRUE /\ me.busy = FALSE
      BY DEF Opening, Idle
    <2>2. me \in Activity
      BY AddressIs DEF Opening, Idle, Activity
    <2> QED BY <1>1, <2>1, <2>2
  <1>2. CASE alloc = FALSE
    <2> DEFINE me == Opening(vaddr, len, start, end, FALSE)
    <2>1. /\ me.pc = "pin" /\ me.at = start /\ me.end = end /\ me.start = start
          /\ me.vaddr = vaddr /\ me.len = len /\ me.alloc = FALSE /\ me.busy = FALSE
      BY DEF Opening, Idle
    <2>2. me \in Activity
      BY AddressIs DEF Opening, Idle, Activity
    <2> QED BY <1>2, <2>1, <2>2
  <1> QED BY <1>1, <1>2

LEMMA BeginType ==
  ASSUME TypeOK, Shapes, NEW t \in Thread, NEW vaddr \in Address, NEW len \in Lengths,
         NEW start \in Address, NEW end \in Nat, NEW alloc \in BOOLEAN,
         Begin(t, vaddr, len, start, end, alloc),
         Aligned(start, Small), start <= vaddr, vaddr + len <= end, end <= Units,
         alloc => start = vaddr /\ Aligned(end, Small),
         ~alloc => end = vaddr + len,
         UNCHANGED <<pt, pinned, cached, bufs, held, wedged, stale, lost, skipped>>,
         mem' \in [Page -> {"free", "user", "mpf"}], huge' \subseteq {s \in Region : s.size = Large}
  PROVE  TypeOK' /\ Shapes'
  <1>1. PICK me \in Activity :
        /\ me = Opening(vaddr, len, start, end, alloc)
        /\ me.pc = "pin" /\ me.at = start /\ me.end = end /\ me.start = start
        /\ me.vaddr = vaddr /\ me.len = len /\ (me.alloc <=> alloc) /\ ~me.busy
    BY OpeningIs
  <1>2. thr' = [thr EXCEPT ![t] = me]
    BY <1>1 DEF Begin, Opening
  <1>3. CallShape(me)'
    <2>1. me.pc = "pin" /\ (me.alloc <=> alloc) /\ ~me.busy
      BY <1>1
    <2>2. /\ Aligned(me.at, Small) /\ Aligned(me.start, Small)
          /\ me.start <= me.at /\ me.start <= me.vaddr
          /\ me.len # 0 /\ me.vaddr + me.len <= me.end /\ me.end <= Units /\ me.at <= Units
      BY <1>1, LengthIs, AddressIs, Sizes
    <2>3. ~alloc => me.end = me.vaddr + me.len
      BY <1>1
    <2>4. alloc => me.start = me.vaddr /\ Aligned(me.end, Small)
      BY <1>1
    <2> HIDE <1>1
    <2> QED BY <2>1, <2>2, <2>3, <2>4 DEF CallShape, Removing
  <1>4. thr' \in [Thread -> Activity]
    BY <1>1, <1>2, ThreadMoves
  <1>5. Shapes'
    <2>1. \A u \in Thread : CallShape(thr[u])'
      BY <1>1, <1>2, <1>3, ShapesMove
    <2> QED BY <2>1, ShapesOfBags
  <1>6. count' \in [prepares : 0 .. MaxPrepares, unmaps : 0 .. MaxUnmaps, faults : 0 .. MaxFaults]
    <2>1. count.prepares \in Nat /\ MaxPrepares \in Nat /\ count.prepares + 1 \in 0 .. MaxPrepares
      BY BuffersAssumption DEF Begin, TypeOK
    <2> QED BY <2>1 DEF Begin, TypeOK
  <1> QED BY <1>4, <1>5, <1>6 DEF TypeOK

LEMMA PreallocIs ==
  ASSUME TypeOK, NEW t \in Thread, NEW n \in Lengths, NEW a \in Address, Prealloc(t, a, n)
  PROVE  \E start \in Address :
            /\ start \in Nat /\ Aligned(start, Small) /\ start <= a /\ a + n \in Nat /\ a + n <= Units
            /\ Begin(t, a, n, start, a + n, FALSE)
  <1> DEFINE s == IF At(a, Large) \in huge THEN Large ELSE Small
             start == Down(a, s)
  <1>1. s \in Nat \ {0} /\ s \in {Small, Large} /\ a \in Nat /\ a < Units /\ n \in Nat /\ n # 0
    BY Sizes, AddressIs, LengthIs
  <1> HIDE DEF s
  <1>2. start \in Nat /\ start <= a /\ Aligned(start, s)
    BY <1>1, DownIs
  <1>3. Aligned(start, Small)
    BY <1>1, <1>2, AlignedBasics
  <1>4. start \in Address
    BY <1>1, <1>2, AddressIs, Sizes
  <1>5. a + n <= Units /\ Begin(t, a, n, start, a + n, FALSE)
    BY DEF Prealloc, s
  <1>6. a + n \in Nat
    BY <1>1
  <1> HIDE DEF start
  <1> WITNESS start \in Address
  <1> QED BY <1>2, <1>3, <1>5, <1>6

LEMMA PreallocType ==
  ASSUME TypeOK, Shapes, NEW t \in Thread, NEW n \in Lengths, NEW a \in Address, Prealloc(t, a, n)
  PROVE  TypeOK' /\ Shapes'
  <1>1. PICK start \in Address :
            /\ start \in Nat /\ Aligned(start, Small) /\ start <= a /\ a + n \in Nat /\ a + n <= Units
            /\ Begin(t, a, n, start, a + n, FALSE)
    BY PreallocIs
  <1>2. UNCHANGED <<mem, huge, pt, pinned, cached, bufs, held, wedged, stale, lost, skipped>>
    BY DEF Prealloc
  <1>3. mem' \in [Page -> {"free", "user", "mpf"}] /\ huge' \subseteq {s \in Region : s.size = Large}
    BY <1>2 DEF TypeOK
  <1>4. a + n <= a + n
    BY <1>1
  <1> QED BY <1>1, <1>2, <1>3, <1>4, BeginType

\* What vtpAllocBuffer maps is free before, and a whole number of pages.
LEMMA AllocIs ==
  ASSUME TypeOK, NEW t \in Thread, NEW n \in Lengths, NEW a \in Address, Alloc(t, n, a)
  PROVE  \E end \in Nat :
            /\ a \in Nat /\ Aligned(a, Small) /\ Aligned(end, Small) /\ n \in Nat \ {0}
            /\ a + n <= end /\ end <= Units
            /\ Begin(t, a, n, a, end, TRUE)
            /\ \A p \in Pages(a, end) : mem[p] = "free"
            /\ mem' = [p \in Page |-> IF p \in Pages(a, end) THEN "mpf" ELSE mem[p]]
            /\ huge' \subseteq {s \in Region : s.size = Large}
            /\ \A r \in huge' : r \in huge \/ (a <= r.at /\ r.at + r.size <= end)
  <1> DEFINE s == IF n > Threshold THEN Large ELSE Small
             end == a + Up(n, s)
  <1>1. s \in Nat \ {0} /\ s \in {Small, Large} /\ a \in Nat /\ a < Units /\ n \in Nat \ {0}
    BY Sizes, AddressIs, LengthIs
  <1>2. \/ s = Large /\ a % Large = 0 /\ MapMemory(a, Up(n, s), TRUE)
        \/ a % Small = 0 /\ MapMemory(a, Up(n, s), FALSE)
    BY DEF Alloc
  <1>3. Begin(t, a, n, a, end, TRUE)
    BY DEF Alloc
  <1> HIDE DEF s
  <1>4. Up(n, s) \in Nat /\ n <= Up(n, s) /\ Aligned(Up(n, s), s)
    <2>1. n + s - 1 \in Nat /\ n + s - 1 = (n + s) - 1
      BY <1>1
    <2> DEFINE m == (n + s) - 1
    <2>2. Down(m, s) \in Nat /\ m < Down(m, s) + s /\ Aligned(Down(m, s), s)
      BY <1>1, <2>1, DownIs
    <2> QED BY <1>1, <2>2 DEF Up
  <1>5. Aligned(Up(n, s), Small)
    BY <1>1, <1>4, AlignedBasics
  <1>6. Aligned(a, Small)
    <2>1. \A b \in Nat \ {0} : a % b = 0 => Down(a, b) = a
      BY <1>1 DEF Down
    <2>2. \A b \in Nat \ {0} : a % b = 0 => Aligned(a, b)
      BY <1>1, <2>1, DownIs
    <2> QED BY <1>1, <1>2, <2>2, AlignedBasics, Sizes
  <1>7. Aligned(end, Small) /\ end \in Nat /\ a + n <= end
    BY <1>1, <1>4, <1>5, <1>6, AlignedSum, Sizes
  <1>8. /\ end <= Units
        /\ \A p \in Pages(a, end) : mem[p] = "free"
        /\ mem' = [p \in Page |-> IF p \in Pages(a, end) THEN "mpf" ELSE mem[p]]
    BY <1>2 DEF MapMemory
  <1>9. huge' \subseteq {r \in Region : r.size = Large}
    <2>1. \A p \in Pages(a, end) : p \in Address
      BY <1>1, <1>7, <1>8, PagesTouched, PageIs, AddressIs
    <2>2. \A p \in Pages(a, end) : At(p, Large) \in {r \in Region : r.size = Large}
      BY <2>1, AtIs
    <2> QED BY <1>2, <2>2 DEF MapMemory, TypeOK
  <1>10. ASSUME NEW r \in huge', r \notin huge PROVE a <= r.at /\ r.at + r.size <= end
    <2>1. s = Large /\ a % Large = 0 /\ \E p \in Pages(a, end) : r = At(p, Large)
      BY <1>2, <1>10 DEF MapMemory
    <2>2. Aligned(a, Large)
      <3>1. Down(a, Large) = a
        BY <1>1, <2>1 DEF Down
      <3> QED BY <1>1, <2>1, <3>1, DownIs
    <2>3. Aligned(end, Large)
      BY <1>1, <1>4, <2>1, <2>2, AlignedSum
    <2>4. PICK p \in Page : p \in Nat /\ a <= p /\ p < end /\ r = At(p, Large)
      BY <1>1, <1>6, <1>7, <1>8, <2>1, PagesIn, PageIs
    <2>5. /\ r.at = Down(p, Large) /\ r.size = Large /\ Down(p, Large) \in Nat
          /\ Down(p, Large) <= p /\ p < Down(p, Large) + Large /\ Aligned(Down(p, Large), Large)
      BY <1>1, <2>1, <2>4, DownIs DEF At
    <2>6. r.at < a => r.at + Large <= a
      BY <1>1, <2>1, <2>2, <2>5, AlignedStep
    <2>7. r.at < end => r.at + Large <= end
      BY <1>1, <1>7, <2>1, <2>3, <2>5, AlignedStep
    <2> QED BY <1>1, <1>7, <2>1, <2>4, <2>5, <2>6, <2>7
  <1> HIDE DEF end
  <1> QED BY <1>1, <1>3, <1>6, <1>7, <1>8, <1>9, <1>10

LEMMA AllocType ==
  ASSUME TypeOK, Shapes, NEW t \in Thread, NEW n \in Lengths, NEW a \in Address, Alloc(t, n, a)
  PROVE  TypeOK' /\ Shapes'
  <1>1. PICK end \in Nat :
            /\ a \in Nat /\ Aligned(a, Small) /\ Aligned(end, Small) /\ n \in Nat \ {0}
            /\ a + n <= end /\ end <= Units
            /\ Begin(t, a, n, a, end, TRUE)
            /\ \A p \in Pages(a, end) : mem[p] = "free"
            /\ mem' = [p \in Page |-> IF p \in Pages(a, end) THEN "mpf" ELSE mem[p]]
            /\ huge' \subseteq {s \in Region : s.size = Large}
            /\ \A r \in huge' : r \in huge \/ (a <= r.at /\ r.at + r.size <= end)
    BY AllocIs
  <1>2. UNCHANGED <<pt, pinned, cached, bufs, held, wedged, stale, lost, skipped>>
    BY DEF Alloc
  <1>3. mem' \in [Page -> {"free", "user", "mpf"}]
    BY <1>1 DEF TypeOK
  <1>4. a <= a
    BY <1>1
  <1> QED BY <1>1, <1>2, <1>3, <1>4, BeginType

\* The bound of failures.
LEMMA FaultCount ==
  ASSUME TypeOK, count.faults < MaxFaults, count' = [count EXCEPT !.faults = @ + 1]
  PROVE  count' \in [prepares : 0 .. MaxPrepares, unmaps : 0 .. MaxUnmaps, faults : 0 .. MaxFaults]
  <1>1. count.faults \in Nat /\ MaxFaults \in Nat /\ count.faults + 1 \in 0 .. MaxFaults
    BY BuffersAssumption DEF TypeOK
  <1> QED BY <1>1 DEF TypeOK

LEMMA LeftIn == \A a, b, c, d : Left(a, b, c, d) \subseteq Region
  BY DEF Left

\* A call that pins goes on behind the page.
LEMMA PastIs ==
  ASSUME TypeOK, NEW t \in Thread, NEW r \in Region, Past(t, r)
  PROVE  \E me \in Activity :
            /\ thr' = [thr EXCEPT ![t] = me] /\ me.at = r.at + r.size
            /\ me.pc = thr[t].pc /\ me.end = thr[t].end /\ me.start = thr[t].start
            /\ me.vaddr = thr[t].vaddr /\ me.len = thr[t].len
            /\ (me.alloc <=> thr[t].alloc) /\ (me.busy <=> thr[t].busy)
  <1> DEFINE me == [thr[t] EXCEPT !.at = r.at + r.size]
  <1>1. r.at + r.size \in Nat
    BY RegionIs
  <1>2. thr[t] \in Activity
    BY ThreadIs
  <1>3. /\ me \in Activity /\ me.at = r.at + r.size
        /\ me.pc = thr[t].pc /\ me.end = thr[t].end /\ me.start = thr[t].start
        /\ me.vaddr = thr[t].vaddr /\ me.len = thr[t].len
        /\ me.alloc = thr[t].alloc /\ me.busy = thr[t].busy
    BY <1>1, <1>2 DEF Activity
  <1>4. thr' = [thr EXCEPT ![t] = me]
    BY DEF Past
  <1> HIDE DEF me
  <1> QED BY <1>3, <1>4

LEMMA PastType ==
  ASSUME TypeOK, Shapes, NEW t \in Thread, NEW r \in Region, Past(t, r), thr[t].pc = "pin",
         thr[t].at < r.at + r.size, UNCHANGED <<bufs, held, wedged>>
  PROVE  thr' \in [Thread -> Activity] /\ Shapes'
  <1>1. PICK me \in Activity :
            /\ thr' = [thr EXCEPT ![t] = me] /\ me.at = r.at + r.size
            /\ me.pc = thr[t].pc /\ me.end = thr[t].end /\ me.start = thr[t].start
            /\ me.vaddr = thr[t].vaddr /\ me.len = thr[t].len
            /\ (me.alloc <=> thr[t].alloc) /\ (me.busy <=> thr[t].busy)
    BY PastIs
  <1>2. CallShape(thr[t])
    BY DEF Shapes
  <1>3. me.pc = "pin" /\ (me.alloc <=> thr[t].alloc) /\ (me.busy <=> thr[t].busy)
    BY <1>1
  <1>4. /\ Aligned(me.at, Small) /\ Aligned(me.start, Small)
        /\ me.start <= me.at /\ me.start <= me.vaddr
        /\ me.len # 0 /\ me.vaddr + me.len <= me.end /\ me.end <= Units /\ me.at <= Units
    <2>1. r.at + r.size \in Nat /\ Aligned(r.at + r.size, Small) /\ r.at + r.size <= Units
      BY RegionIs
    <2>2. thr[t].start <= r.at + r.size
      BY <2>1, CallIs, ThreadIs
    <2> QED BY <1>1, <2>1, <2>2, CallIs
  <1>5. ~thr[t].busy /\ (thr[t].alloc => thr[t].start = thr[t].vaddr /\ Aligned(thr[t].end, Small))
        /\ (~thr[t].alloc => thr[t].end = thr[t].vaddr + thr[t].len)
    BY <1>2 DEF CallShape
  <1>6. me.alloc => me.start = me.vaddr /\ Aligned(me.end, Small)
    BY <1>1, <1>5
  <1>7. ~me.alloc => me.end = me.vaddr + me.len
    BY <1>1, <1>5
  <1>8. CallShape(me)'
    BY <1>3, <1>4, <1>5, <1>6, <1>7 DEF CallShape, Removing
  <1>9. \A u \in Thread : CallShape(thr[u])'
    BY <1>1, <1>8, ShapesMove
  <1> QED BY <1>1, <1>9, ThreadMoves, ShapesOfBags

\* The page that is found lies at the address.
LEMMA PinFoundIs ==
  ASSUME TypeOK, Shapes, NEW t \in Thread, PinFound(t)
  PROVE  \E r \in Region :
            /\ thr[t].pc = "pin" /\ ~thr[t].alloc /\ thr[t].at < thr[t].end
            /\ thr[t].at \in Page /\ thr[t].at \in Address
            /\ Pinned(r) /\ r.at <= thr[t].at /\ thr[t].at < r.at + r.size
            /\ r \in Found(thr[t].at)
            /\ pt' = [pt EXCEPT ![r] = More(pt[r], FALSE)] /\ Past(t, r)
            /\ UNCHANGED <<mem, huge, pinned, cached, bufs, held, wedged, count, stale, lost, skipped>>
  <1>1. PICK r \in Found(thr[t].at) : pt' = [pt EXCEPT ![r] = More(pt[r], FALSE)] /\ Past(t, r)
    BY DEF PinFound
  <1>2. /\ thr[t].pc = "pin" /\ ~thr[t].alloc /\ thr[t].at < thr[t].end
        /\ UNCHANGED <<mem, huge, pinned, cached, bufs, held, wedged, count, stale, lost, skipped>>
    BY DEF PinFound, Pinning
  <1>3. thr[t].at \in Page /\ thr[t].at \in Address
    BY <1>2, CallIs
  <1>4. r \in Region /\ Pinned(r) /\ r.at <= thr[t].at /\ thr[t].at < r.at + r.size
    BY <1>3, FoundIs
  <1> QED BY <1>1, <1>2, <1>3, <1>4

\* An entry with one reference more.
LEMMA MoreIs ==
  ASSUME NEW e \in [refs : Nat, alloc : BOOLEAN], NEW alloc \in BOOLEAN
  PROVE  /\ More(e, alloc) \in [refs : Nat, alloc : BOOLEAN] /\ More(e, alloc).refs = e.refs + 1
         /\ More(e, alloc).alloc <=> (e.alloc /\ alloc)
  <1> DEFINE b == e.alloc /\ alloc
  <1>1. b \in BOOLEAN /\ More(e, alloc) = [refs |-> e.refs + 1, alloc |-> b]
    BY DEF More
  <1>2. b <=> e.alloc /\ alloc
    OBVIOUS
  <1> HIDE DEF b
  <1>3. More(e, alloc).alloc = b /\ More(e, alloc).refs = e.refs + 1
    BY <1>1
  <1>4. [refs |-> e.refs + 1, alloc |-> b] \in [refs : Nat, alloc : BOOLEAN]
    BY <1>1
  <1> QED BY <1>1, <1>2, <1>3, <1>4

LEMMA PinFoundType ==
  ASSUME TypeOK, Shapes, NEW t \in Thread, PinFound(t)
  PROVE  TypeOK' /\ Shapes'
  <1>1. PICK r \in Region :
            /\ thr[t].pc = "pin" /\ ~thr[t].alloc /\ thr[t].at < thr[t].end
            /\ thr[t].at \in Page /\ thr[t].at \in Address
            /\ Pinned(r) /\ r.at <= thr[t].at /\ thr[t].at < r.at + r.size
            /\ r \in Found(thr[t].at)
            /\ pt' = [pt EXCEPT ![r] = More(pt[r], FALSE)] /\ Past(t, r)
            /\ UNCHANGED <<mem, huge, pinned, cached, bufs, held, wedged, count, stale, lost, skipped>>
    BY PinFoundIs
  <1>2. More(pt[r], FALSE) \in [refs : Nat, alloc : BOOLEAN]
    BY EntryIs, MoreIs
  <1>3. pt' \in [Region -> [refs : Nat, alloc : BOOLEAN]]
    BY <1>1, <1>2 DEF TypeOK
  <1>4. thr' \in [Thread -> Activity] /\ Shapes'
    BY <1>1, PastType
  <1> QED BY <1>1, <1>3, <1>4 DEF TypeOK

\* A new page starts at the address.  The entry that is counted is the page, or
\* the one there already, in which the page lies.
LEMMA PinNewIs ==
  ASSUME TypeOK, Shapes, NEW t \in Thread, NEW size \in {Small, Large}, PinNew(t, size)
  PROVE  \E r \in Region :
            /\ thr[t].pc = "pin" /\ thr[t].at < thr[t].end
            /\ thr[t].at \in Page /\ thr[t].at \in Address /\ r.at = thr[t].at
            /\ Mapped(r) /\ MayInsert(r) /\ Past(t, r) /\ thr[t].at < r.at + r.size
            /\ pinned' = [pinned EXCEPT ![r] = @ + 1]
            /\ Shootdown(r.at, pt')
            /\ thr[t].alloc \/ Found(r.at) = {}
            /\ Insert(r, thr[t].alloc)
            /\ lost' = lost \union {s \in Found(r.at) : Meets(s, thr[t].start, thr[t].at)}
            /\ UNCHANGED <<mem, huge, bufs, held, wedged, count, stale, skipped>>
  <1> DEFINE r == At(thr[t].at, size)
  <1>1. thr[t].pc = "pin" /\ thr[t].at < thr[t].end
    BY DEF PinNew, Pinning
  <1>2. thr[t].at \in Page /\ thr[t].at \in Address
    BY <1>1, CallIs
  <1>3. r \in Region
    BY <1>2, AtIs
  <1>4. /\ r.at = thr[t].at /\ Mapped(r) /\ MayInsert(r) /\ Past(t, r)
        /\ pinned' = [pinned EXCEPT ![r] = @ + 1]
        /\ Shootdown(r.at, pt')
        /\ thr[t].alloc \/ Found(thr[t].at) = {}
        /\ Insert(r, thr[t].alloc)
        /\ lost' = lost \union {s \in Found(r.at) : Meets(s, thr[t].start, thr[t].at)}
        /\ UNCHANGED <<mem, huge, bufs, held, wedged, count, stale, skipped>>
    BY DEF PinNew
  <1> HIDE DEF r
  <1>5. thr[t].at < r.at + r.size
    BY <1>3, <1>4, RegionIs
  <1> QED BY <1>1, <1>2, <1>3, <1>4, <1>5

LEMMA InsertIs ==
  ASSUME TypeOK, NEW r \in Region, NEW alloc \in BOOLEAN, Insert(r, alloc)
  PROVE  /\ pt' \in [Region -> [refs : Nat, alloc : BOOLEAN]]
         /\ Found(r.at) = {} =>
               pt'[r].refs = 1 /\ (pt'[r].alloc <=> alloc) /\ \A s \in Region \ {r} : pt'[s] = pt[s]
         /\ Found(r.at) # {} =>
               /\ \A s \in Region \ Found(r.at) : pt'[s] = pt[s]
               /\ \A s \in Region \intersect Found(r.at) :
                     pt'[s].refs = pt[s].refs + 1 /\ (pt'[s].alloc <=> (pt[s].alloc /\ alloc))
  <1>1. CASE Found(r.at) = {}
    <2>1. pt' = [pt EXCEPT ![r] = [refs |-> 1, alloc |-> alloc]]
      BY <1>1 DEF Insert
    <2> DEFINE e == [refs |-> 1, alloc |-> alloc]
    <2>2. e \in [refs : Nat, alloc : BOOLEAN] /\ e.refs = 1 /\ (e.alloc <=> alloc)
      OBVIOUS
    <2>3. pt' = [pt EXCEPT ![r] = e]
      BY <2>1
    <2> HIDE DEF e
    <2> QED BY <1>1, <2>2, <2>3 DEF TypeOK
  <1>2. CASE Found(r.at) # {}
    <2>1. pt' = [s \in Region |-> IF s \in Found(r.at) THEN More(pt[s], alloc) ELSE pt[s]]
      BY <1>2 DEF Insert
    <2>2. \A s \in Region : /\ More(pt[s], alloc) \in [refs : Nat, alloc : BOOLEAN]
                            /\ More(pt[s], alloc).refs = pt[s].refs + 1
                            /\ More(pt[s], alloc).alloc <=> (pt[s].alloc /\ alloc)
      BY EntryIs, MoreIs
    <2>3. \A s \in Region : pt'[s] = IF s \in Found(r.at) THEN More(pt[s], alloc) ELSE pt[s]
      BY <2>1
    <2>4. pt' \in [Region -> [refs : Nat, alloc : BOOLEAN]]
      BY <2>1, <2>2, EntryIs
    <2> HIDE <2>1
    <2> QED BY <1>2, <2>2, <2>3, <2>4
  <1> QED BY <1>1, <1>2

LEMMA InsertShared ==
  ASSUME TypeOK, NEW r \in Region, NEW alloc \in BOOLEAN, Insert(r, alloc), Found(r.at) # {},
         NEW s \in Region
  PROVE  /\ s \notin Found(r.at) => pt'[s] = pt[s]
         /\ s \in Found(r.at) => pt'[s].refs = pt[s].refs + 1 /\ (pt'[s].alloc <=> (pt[s].alloc /\ alloc))
  BY InsertIs

LEMMA PinNewType ==
  ASSUME TypeOK, Shapes, NEW t \in Thread, NEW size \in {Small, Large}, PinNew(t, size)
  PROVE  TypeOK' /\ Shapes'
  <1>1. PICK r \in Region :
            /\ thr[t].pc = "pin" /\ thr[t].at < thr[t].end
            /\ thr[t].at \in Page /\ thr[t].at \in Address /\ r.at = thr[t].at
            /\ Mapped(r) /\ MayInsert(r) /\ Past(t, r) /\ thr[t].at < r.at + r.size
            /\ pinned' = [pinned EXCEPT ![r] = @ + 1]
            /\ Shootdown(r.at, pt')
            /\ thr[t].alloc \/ Found(r.at) = {}
            /\ Insert(r, thr[t].alloc)
            /\ lost' = lost \union {s \in Found(r.at) : Meets(s, thr[t].start, thr[t].at)}
            /\ UNCHANGED <<mem, huge, bufs, held, wedged, count, stale, skipped>>
    BY PinNewIs
  <1>2. pt' \in [Region -> [refs : Nat, alloc : BOOLEAN]]
    BY <1>1, ThreadIs, InsertIs
  <1>3. pinned' \in [Region -> Nat]
    BY <1>1 DEF TypeOK
  <1>4. cached' \subseteq Region
    BY <1>1 DEF Shootdown
  <1>5. lost' \subseteq Region
    BY <1>1, FoundIs DEF TypeOK
  <1>6. thr' \in [Thread -> Activity] /\ Shapes'
    BY <1>1, PastType
  <1> QED BY <1>1, <1>2, <1>3, <1>4, <1>5, <1>6 DEF TypeOK

LEMMA ToIdle ==
  ASSUME TypeOK, Shapes, NEW t \in Thread, thr' = [thr EXCEPT ![t] = Idle], wedged' = wedged
  PROVE  /\ thr' \in [Thread -> Activity] /\ thr'[t] = Idle
         /\ \A u \in Thread \ {t} : thr'[u] = thr[u]
         /\ \A u \in Thread : CallShape(thr[u])'
  <1>1. Idle \in Activity
    BY IdleIs, ThreadIs, AddressIs, Sizes
  <1>2. /\ Idle.pc = "idle" /\ CallShape(Idle)'
    BY DEF Idle, CallShape, Removing
  <1> QED BY <1>1, <1>2, ThreadMoves, ShapesMove

LEMMA PrepareFailsType ==
  ASSUME TypeOK, Shapes, NEW t \in Thread, PrepareFails(t)
  PROVE  TypeOK' /\ Shapes'
  <1>1. /\ thr' = [thr EXCEPT ![t] = Idle] /\ count.faults < MaxFaults
        /\ count' = [count EXCEPT !.faults = @ + 1]
        /\ lost' = lost \union Left(thr[t].start, thr[t].at, 0, 0)
        /\ UNCHANGED <<mem, huge, pt, pinned, cached, bufs, held, wedged, stale, skipped>>
    BY DEF PrepareFails
  <1>2. count' \in [prepares : 0 .. MaxPrepares, unmaps : 0 .. MaxUnmaps, faults : 0 .. MaxFaults]
    BY <1>1, FaultCount
  <1>3. lost' \subseteq Region
    BY <1>1, LeftIn DEF TypeOK
  <1>4. thr' \in [Thread -> Activity] /\ Shapes'
    BY <1>1, ToIdle, ShapesOfBags
  <1> QED BY <1>1, <1>2, <1>3, <1>4 DEF TypeOK

\* What a call has prepared becomes a buffer.
LEMMA TrackIs ==
  ASSUME TypeOK, Shapes, NEW t \in Thread, Track(t)
  PROVE  /\ thr[t].pc = "pin" /\ thr[t].end <= thr[t].at
         /\ bufs' = BagAdd(bufs, Descriptor(t)) /\ held' = BagAdd(held, Buffer(t))
         /\ thr' = [thr EXCEPT ![t] = Idle]
         /\ lost' = lost \union Left(EndOf(Descriptor(t)), thr[t].end, thr[t].start, EndOf(Descriptor(t)))
         /\ UNCHANGED <<mem, huge, pt, pinned, cached, wedged, count, stale, skipped>>
         /\ Descriptor(t) \in [vaddr : Address, len : Lengths, start : Address]
         /\ Buffer(t) \in [vaddr : Address, len : Lengths]
         /\ Descriptor(t).vaddr = thr[t].vaddr /\ Descriptor(t).len = thr[t].len
         /\ Descriptor(t).start = thr[t].start
         /\ Buffer(t).vaddr = thr[t].vaddr /\ Buffer(t).len = thr[t].len
         /\ EndOf(Descriptor(t)) = thr[t].vaddr + thr[t].len
         /\ DescShape(Descriptor(t))
  <1>1. /\ thr[t].pc = "pin" /\ thr[t].at >= thr[t].end
        /\ bufs' = BagAdd(bufs, Descriptor(t)) /\ held' = BagAdd(held, Buffer(t))
        /\ thr' = [thr EXCEPT ![t] = Idle]
        /\ lost' = lost \union Left(thr[t].vaddr + thr[t].len, thr[t].end, thr[t].start, thr[t].vaddr + thr[t].len)
        /\ UNCHANGED <<mem, huge, pt, pinned, cached, wedged, count, stale, skipped>>
    BY DEF Track
  <1>2. /\ Descriptor(t).vaddr = thr[t].vaddr /\ Descriptor(t).len = thr[t].len
        /\ Descriptor(t).start = thr[t].start
        /\ Buffer(t).vaddr = thr[t].vaddr /\ Buffer(t).len = thr[t].len
        /\ EndOf(Descriptor(t)) = thr[t].vaddr + thr[t].len
    BY DEF Descriptor, Buffer, EndOf
  <1>3. /\ Aligned(thr[t].start, Small) /\ thr[t].start <= thr[t].vaddr
        /\ thr[t].len \in Nat \ {0} /\ thr[t].vaddr + thr[t].len <= thr[t].end /\ thr[t].end <= Units
        /\ thr[t].end \in Nat /\ thr[t].at \in Nat /\ thr[t].vaddr \in Nat
        /\ thr[t].vaddr \in Address /\ thr[t].start \in Address /\ thr[t].len \in Lengths
    BY <1>1, CallIs, ThreadIs
  <1>4. /\ Descriptor(t) \in [vaddr : Address, len : Lengths, start : Address]
        /\ Buffer(t) \in [vaddr : Address, len : Lengths]
    BY <1>3 DEF Descriptor, Buffer
  <1>5. DescShape(Descriptor(t))
    BY <1>2, <1>3, Sizes DEF DescShape
  <1>6. thr[t].end <= thr[t].at
    BY <1>1, <1>3
  <1> QED BY <1>1, <1>2, <1>4, <1>5, <1>6

\* A bag with one member more, or less, has a finite number of copies.
LEMMA AddFinite ==
  ASSUME NEW B, IsABag(B), NEW x, IsFiniteSet(Copies(B, BagToSet(B)))
  PROVE  LET A == BagAdd(B, x) IN IsFiniteSet(Copies(A, BagToSet(A)))
  <1> DEFINE S == BagToSet(B)
             T == S \union {x}
  <1>1. BagToSet(BagAdd(B, x)) = T
    BY BagAddIs
  <1> HIDE DEF S, T
  <1>2. \E c : c \notin Copies(B, S) /\ Copies(BagAdd(B, x), T) = Copies(B, S) \union {c}
    BY CopiesAdd DEF S, T
  <1>3. PICK c : Copies(BagAdd(B, x), T) = Copies(B, S) \union {c}
    BY <1>2
  <1>4. IsFiniteSet(Copies(B, S) \union {c})
    BY FS_AddElement DEF S
  <1> QED BY <1>1, <1>3, <1>4

LEMMA RemoveFinite ==
  ASSUME NEW B, IsABag(B), NEW x \in BagToSet(B), IsFiniteSet(Copies(B, BagToSet(B)))
  PROVE  LET A == BagRemove(B, x) IN IsFiniteSet(Copies(A, BagToSet(A)))
  <1> DEFINE S == BagToSet(B)
             T == S \intersect BagToSet(BagRemove(B, x))
  <1>1. BagToSet(BagRemove(B, x)) \subseteq S
    BY BagRemoveIs
  <1>2. T = BagToSet(BagRemove(B, x))
    BY <1>1
  <1>3. \E c \in Copies(B, S) : Copies(BagRemove(B, x), T) = Copies(B, S) \ {c}
    BY CopiesRemove
  <1>4. PICK c : Copies(BagRemove(B, x), T) = Copies(B, S) \ {c}
    BY <1>3
  <1>5. IsFiniteSet(Copies(B, S) \ {c})
    BY FS_RemoveElement
  <1> QED BY <1>2, <1>4, <1>5

LEMMA TrackType ==
  ASSUME TypeOK, Shapes, NEW t \in Thread, Track(t)
  PROVE  TypeOK' /\ Shapes'
  <1> DEFINE d == Descriptor(t)
             h == Buffer(t)
  <1>1. /\ bufs' = BagAdd(bufs, d) /\ held' = BagAdd(held, h)
        /\ thr' = [thr EXCEPT ![t] = Idle]
        /\ lost' = lost \union Left(EndOf(d), thr[t].end, thr[t].start, EndOf(d))
        /\ UNCHANGED <<mem, huge, pt, pinned, cached, wedged, count, stale, skipped>>
        /\ d \in [vaddr : Address, len : Lengths, start : Address]
        /\ h \in [vaddr : Address, len : Lengths]
        /\ DescShape(d)
    BY TrackIs
  <1> HIDE DEF d, h
  <1>2. IsABag(bufs) /\ IsABag(held)
    BY BagsType
  <1>3. IsABag(bufs') /\ BagToSet(bufs') = BagToSet(bufs) \union {d}
    BY <1>1, <1>2, BagAddIs
  <1>4. IsABag(held') /\ BagToSet(held') = BagToSet(held) \union {h}
    BY <1>1, <1>2, BagAddIs
  <1>5. /\ BagToSet(bufs)' \subseteq [vaddr : Address, len : Lengths, start : Address]
        /\ BagToSet(held)' \subseteq [vaddr : Address, len : Lengths]
    <2>1. BagToSet(bufs)' = BagToSet(bufs') /\ BagToSet(held)' = BagToSet(held')
      OBVIOUS
    <2> QED BY <1>1, <1>3, <1>4, <2>1 DEF TypeOK
  <1>6. thr' \in [Thread -> Activity] /\ \A u \in Thread : CallShape(thr[u])'
    BY <1>1, ToIdle
  <1>7. lost' \subseteq Region
    BY <1>1, LeftIn DEF TypeOK
  <1>8. IsFiniteSet(Copies(bufs', BagToSet(bufs'))) /\ IsFiniteSet(Copies(held', BagToSet(held')))
    <2>1. IsFiniteSet(Copies(bufs, BagToSet(bufs))) /\ IsFiniteSet(Copies(held, BagToSet(held)))
      BY DEF Shapes
    <2> QED BY <1>1, <1>2, <2>1, AddFinite
  <1>9. \A e \in BagToSet(bufs') : DescShape(e)
    BY <1>1, <1>3 DEF Shapes
  <1>10. Shapes'
    BY <1>5, <1>6, <1>8, <1>9 DEF Shapes, DescShape
  <1> QED BY <1>1, <1>3, <1>4, <1>5, <1>6, <1>7, <1>10 DEF TypeOK

\* The release of a buffer takes a descriptor from the table.
Closing(d) == [Idle EXCEPT !.pc = "remove", !.at = d.start, !.end = EndOf(d), !.start = d.start,
                           !.vaddr = d.vaddr, !.len = d.len]

LEMMA ReleaseIs ==
  ASSUME TypeOK, Shapes, NEW t \in Thread, NEW h \in BagToSet(held), Release(t, h)
  PROVE  \E d \in BagToSet(bufs), me \in Activity :
            /\ thr[t].pc = "idle"
            /\ d.vaddr = h.vaddr /\ \A e \in BagToSet(bufs) : e.vaddr = h.vaddr => d.len <= e.len
            /\ \A u \in Working : \A p \in Pages(thr[u].start, thr[u].end) \intersect Pages(d.start, EndOf(d)) :
                  mem[p] = "user"
            /\ bufs' = BagRemove(bufs, d) /\ held' = BagRemove(held, h)
            /\ thr' = [thr EXCEPT ![t] = me]
            /\ me.pc = "remove" /\ me.at = d.start /\ me.end = EndOf(d) /\ me.start = d.start
            /\ me.vaddr = d.vaddr /\ me.len = d.len /\ ~me.alloc /\ ~me.busy
            /\ lost' = lost \union Left(h.vaddr + d.len, h.vaddr + h.len, d.start, h.vaddr + d.len)
            /\ UNCHANGED <<mem, huge, pt, pinned, cached, wedged, count, stale, skipped>>
  <1>1. PICK d \in Match(h.vaddr) :
            /\ ~Busy(t)
            /\ \A u \in Working : \A p \in Pages(thr[u].start, thr[u].end) \intersect Pages(d.start, EndOf(d)) :
                  mem[p] = "user"
            /\ bufs' = BagRemove(bufs, d) /\ held' = BagRemove(held, h)
            /\ thr' = [thr EXCEPT ![t] = Closing(d)]
            /\ lost' = lost \union Left(h.vaddr + d.len, h.vaddr + h.len, d.start, h.vaddr + d.len)
            /\ UNCHANGED <<mem, huge, pt, pinned, cached, wedged, count, stale, skipped>>
    BY DEF Release, Closing
  <1>2. /\ d \in BagToSet(bufs) /\ d.vaddr = h.vaddr
        /\ \A e \in BagToSet(bufs) : e.vaddr = h.vaddr => d.len <= e.len
    BY DEF Match
  <1>3. thr[t].pc = "idle"
    BY <1>1 DEF Busy
  <1>4. /\ d.start \in Address /\ d.vaddr \in Address /\ d.len \in Lengths /\ EndOf(d) \in Nat /\ d.start \in Nat
    BY <1>2, DescIs
  <1>5. PICK me \in Activity :
            /\ me = Closing(d)
            /\ me.pc = "remove" /\ me.at = d.start /\ me.end = EndOf(d) /\ me.start = d.start
            /\ me.vaddr = d.vaddr /\ me.len = d.len /\ ~me.alloc /\ ~me.busy
    <2> DEFINE c == Closing(d)
    <2>1. /\ c.pc = "remove" /\ c.at = d.start /\ c.end = EndOf(d) /\ c.start = d.start
          /\ c.vaddr = d.vaddr /\ c.len = d.len /\ ~c.alloc /\ ~c.busy
      BY DEF Closing, Idle
    <2>2. c \in Activity
      BY <1>4 DEF Closing, Idle, Activity
    <2> HIDE DEF c
    <2>3. c = Closing(d)
      BY DEF c
    <2> QED BY <2>1, <2>2, <2>3
  <1>6. thr' = [thr EXCEPT ![t] = me]
    BY <1>1, <1>5
  <1> QED BY <1>1, <1>2, <1>3, <1>5, <1>6

LEMMA ReleaseType ==
  ASSUME TypeOK, Shapes, NEW t \in Thread, NEW h \in BagToSet(held), Release(t, h)
  PROVE  TypeOK' /\ Shapes'
  <1>1. PICK d \in BagToSet(bufs), me \in Activity :
            /\ bufs' = BagRemove(bufs, d) /\ held' = BagRemove(held, h)
            /\ thr' = [thr EXCEPT ![t] = me]
            /\ me.pc = "remove" /\ me.at = d.start /\ me.end = EndOf(d) /\ me.start = d.start
            /\ me.vaddr = d.vaddr /\ me.len = d.len /\ ~me.alloc /\ ~me.busy
            /\ lost' = lost \union Left(h.vaddr + d.len, h.vaddr + h.len, d.start, h.vaddr + d.len)
            /\ UNCHANGED <<mem, huge, pt, pinned, cached, wedged, count, stale, skipped>>
    BY ReleaseIs
  <1>2. IsABag(bufs) /\ IsABag(held)
    BY BagsType
  <1>3. IsABag(bufs') /\ BagToSet(bufs') \subseteq BagToSet(bufs)
    BY <1>1, <1>2, BagRemoveIs
  <1>4. IsABag(held') /\ BagToSet(held') \subseteq BagToSet(held)
    BY <1>1, <1>2, BagRemoveIs
  <1>5. /\ BagToSet(bufs)' \subseteq [vaddr : Address, len : Lengths, start : Address]
        /\ BagToSet(held)' \subseteq [vaddr : Address, len : Lengths]
    <2>1. BagToSet(bufs)' = BagToSet(bufs') /\ BagToSet(held)' = BagToSet(held')
      OBVIOUS
    <2> QED BY <1>3, <1>4, <2>1 DEF TypeOK
  <1>6. CallShape(me)'
    <2>1. /\ Aligned(d.start, Small) /\ d.start <= d.vaddr /\ EndOf(d) <= Units /\ d.start < EndOf(d)
          /\ EndOf(d) = d.vaddr + d.len /\ d.len # 0 /\ d.start \in Nat
      BY DescShapeIs, DescIs DEF EndOf
    <2>2. /\ Aligned(me.at, Small) /\ Aligned(me.start, Small)
          /\ me.start <= me.at /\ me.start <= me.vaddr
          /\ me.len # 0 /\ me.end <= Units /\ me.at < me.end
      BY <1>1, <2>1
    <2>4. me.end = me.vaddr + me.len /\ me.end \in Nat
      BY <1>1, <2>1, DescIs
    <2>3. me.pc = "remove"
      BY <1>1
    <2> QED BY <2>2, <2>3, <2>4 DEF CallShape, Removing
  <1>7. thr' \in [Thread -> Activity] /\ \A u \in Thread : CallShape(thr[u])'
    BY <1>1, <1>6, ThreadMoves, ShapesMove
  <1>8. lost' \subseteq Region
    BY <1>1, LeftIn DEF TypeOK
  <1>9. IsFiniteSet(Copies(bufs', BagToSet(bufs'))) /\ IsFiniteSet(Copies(held', BagToSet(held')))
    <2>1. IsFiniteSet(Copies(bufs, BagToSet(bufs))) /\ IsFiniteSet(Copies(held, BagToSet(held)))
      BY DEF Shapes
    <2> QED BY <1>1, <1>2, <2>1, RemoveFinite
  <1>10. \A e \in BagToSet(bufs') : DescShape(e)
    BY <1>3 DEF Shapes
  <1>11. Shapes'
    BY <1>5, <1>7, <1>9, <1>10 DEF Shapes, DescShape
  <1> QED BY <1>1, <1>3, <1>4, <1>5, <1>7, <1>8, <1>11 DEF TypeOK

\* The entries that a release steps over behind a page.
Stepped(t, r) == Left(r.at + r.size, Lower(thr[t].at + r.size, thr[t].end), thr[t].at + r.size, thr[t].end)

\* What a release finds at its address, and what it does with it.
Taking(t, r, me) ==
    /\ thr[t].pc = "remove" /\ ~wedged /\ thr[t].at < thr[t].end
    /\ thr[t].at \in Page /\ thr[t].at \in Address
    /\ Pinned(r) /\ r.at <= thr[t].at /\ thr[t].at < r.at + r.size
    /\ thr' = [thr EXCEPT ![t] = me]
    /\ me.at = thr[t].at + r.size /\ me.end = thr[t].end /\ me.start = thr[t].start
    /\ me.vaddr = thr[t].vaddr /\ me.len = thr[t].len
    /\ me.alloc <=> (thr[t].alloc \/ pt[r].alloc)
    /\ skipped' = (IF pt[r].refs = 1 THEN skipped \ {r} ELSE skipped) \union Stepped(t, r)
    /\ UNCHANGED <<mem, huge, pinned, cached, bufs, held, wedged, count>>

TakesOne(t, r, me) ==
    /\ pt[r].refs > 1
    /\ pt' = [pt EXCEPT ![r].refs = @ - 1]
    /\ me.pc = AfterPage(me.at, me.end) /\ me.busy
    /\ lost' = lost \union Stepped(t, r) /\ stale' = stale

TakesLast(t, r, me) ==
    /\ pt[r].refs = 1
    /\ pt' = [pt EXCEPT ![r] = NoEntry]
    /\ me.pc = "inval" /\ me.page = r /\ (me.busy <=> thr[t].busy)
    /\ lost' = (lost \ {r}) \union Stepped(t, r)
    /\ stale' = stale \ Pages(r.at, r.at + r.size)

LEMMA RemovePageIs ==
  ASSUME TypeOK, Shapes, AllCovered, NEW t \in Thread, RemovePage(t)
  PROVE  \E r \in Region, me \in Activity : Taking(t, r, me) /\ (TakesOne(t, r, me) \/ TakesLast(t, r, me))
  <1>1. /\ thr[t].pc = "remove" /\ ~wedged
        /\ UNCHANGED <<mem, huge, pinned, cached, bufs, held, wedged, count>>
    BY DEF RemovePage
  <1>2. thr[t].at < thr[t].end
    BY <1>1 DEF Shapes, CallShape
  <1>3. thr[t].at \in Page /\ thr[t].at \in Address
    BY <1>1, <1>2, CallIs
  <1>4. Found(thr[t].at) # {}
    <2>1. Covered(thr[t].at, thr[t].end)
      BY <1>1 DEF AllCovered, Lo, Hi
    <2>2. PICK r \in Region : r \in Found(thr[t].at)
      BY <1>1, <1>2, <1>3, <2>1, CallIs, ThreadIs, CoveredPage
    <2> QED BY <2>2
  <1>5. PICK r \in Found(thr[t].at) :
          \/ /\ pt[r].refs > 1
             /\ pt' = [pt EXCEPT ![r].refs = @ - 1]
             /\ thr' = [thr EXCEPT ![t].at = thr[t].at + r.size, ![t].busy = TRUE,
                                   ![t].alloc = @ \/ pt[r].alloc,
                                   ![t].pc = AfterPage(thr[t].at + r.size, thr[t].end)]
             /\ lost' = lost \union Stepped(t, r) /\ skipped' = skipped \union Stepped(t, r)
             /\ UNCHANGED stale
          \/ /\ pt[r].refs = 1
             /\ pt' = [pt EXCEPT ![r] = NoEntry]
             /\ thr' = [thr EXCEPT ![t].at = thr[t].at + r.size, ![t].page = r, ![t].pc = "inval",
                                   ![t].alloc = @ \/ pt[r].alloc]
             /\ stale' = stale \ Pages(r.at, r.at + r.size)
             /\ lost' = (lost \ {r}) \union Stepped(t, r)
             /\ skipped' = (skipped \ {r}) \union Stepped(t, r)
    BY <1>4 DEF RemovePage, Stepped
  <1>6. r \in Region /\ Pinned(r) /\ r.at <= thr[t].at /\ thr[t].at < r.at + r.size
    BY <1>3, FoundIs
  <1>7. thr[t] \in Activity /\ thr[t].at + r.size \in Nat
    BY <1>6, ThreadIs, RegionIs
  <1>8. PICK b \in BOOLEAN : b = (thr[t].alloc \/ pt[r].alloc)
    OBVIOUS
  <1>9. CASE pt[r].refs > 1
    <2> DEFINE me == [thr[t] EXCEPT !.at = thr[t].at + r.size, !.busy = TRUE, !.alloc = b,
                                    !.pc = AfterPage(thr[t].at + r.size, thr[t].end)]
    <2>1. pt[r].refs # 1
      BY <1>9
    <2>2. /\ thr' = [thr EXCEPT ![t].at = thr[t].at + r.size, ![t].busy = TRUE,
                                   ![t].alloc = @ \/ pt[r].alloc,
                                   ![t].pc = AfterPage(thr[t].at + r.size, thr[t].end)]
          /\ pt' = [pt EXCEPT ![r].refs = @ - 1]
          /\ lost' = lost \union Stepped(t, r) /\ skipped' = skipped \union Stepped(t, r)
          /\ stale' = stale
      BY <1>5, <2>1
    <2>3. thr' = [thr EXCEPT ![t] = me]
      BY <1>7, <1>8, <2>2 DEF TypeOK
    <2>4. AfterPage(thr[t].at + r.size, thr[t].end) \in {"unmap", "remove"}
      BY DEF AfterPage
    <2>5. /\ me \in Activity /\ me.at = thr[t].at + r.size /\ me.end = thr[t].end /\ me.start = thr[t].start
          /\ me.vaddr = thr[t].vaddr /\ me.len = thr[t].len
          /\ me.pc = AfterPage(thr[t].at + r.size, thr[t].end) /\ me.busy = TRUE /\ me.alloc = b
      BY <1>7, <2>4 DEF Activity
    <2> HIDE DEF me
    <2>6. me.alloc <=> (thr[t].alloc \/ pt[r].alloc)
      BY <1>8, <2>5
    <2>7. me.pc = AfterPage(me.at, me.end) /\ me.busy
      BY <2>5
    <2>8. Taking(t, r, me)
      BY <1>1, <1>2, <1>3, <1>6, <2>1, <2>2, <2>3, <2>5, <2>6 DEF Taking
    <2>9. TakesOne(t, r, me)
      BY <1>9, <2>2, <2>7 DEF TakesOne
    <2> QED BY <1>6, <2>5, <2>8, <2>9
  <1>10. CASE pt[r].refs = 1
    <2> DEFINE me == [thr[t] EXCEPT !.at = thr[t].at + r.size, !.page = r, !.pc = "inval", !.alloc = b]
    <2>1. ~(pt[r].refs > 1)
      BY <1>10
    <2>2. /\ thr' = [thr EXCEPT ![t].at = thr[t].at + r.size, ![t].page = r, ![t].pc = "inval",
                                   ![t].alloc = @ \/ pt[r].alloc]
          /\ pt' = [pt EXCEPT ![r] = NoEntry]
          /\ stale' = stale \ Pages(r.at, r.at + r.size)
          /\ lost' = (lost \ {r}) \union Stepped(t, r)
          /\ skipped' = (skipped \ {r}) \union Stepped(t, r)
      BY <1>5, <2>1
    <2>3. thr' = [thr EXCEPT ![t] = me]
      BY <1>7, <1>8, <2>2 DEF TypeOK
    <2>5. /\ me \in Activity /\ me.at = thr[t].at + r.size /\ me.end = thr[t].end /\ me.start = thr[t].start
          /\ me.vaddr = thr[t].vaddr /\ me.len = thr[t].len /\ me.page = r
          /\ me.pc = "inval" /\ me.busy = thr[t].busy /\ me.alloc = b
      BY <1>6, <1>7 DEF Activity
    <2> HIDE DEF me
    <2>6. me.alloc <=> (thr[t].alloc \/ pt[r].alloc)
      BY <1>8, <2>5
    <2>7. me.busy <=> thr[t].busy
      BY <2>5
    <2>8. Taking(t, r, me)
      BY <1>1, <1>2, <1>3, <1>6, <1>10, <2>2, <2>3, <2>5, <2>6 DEF Taking
    <2>9. TakesLast(t, r, me)
      BY <1>10, <2>2, <2>5, <2>7 DEF TakesLast
    <2> QED BY <1>6, <2>5, <2>8, <2>9
  <1> QED BY <1>5, <1>9, <1>10

LEMMA RemovePageType ==
  ASSUME TypeOK, Shapes, AllCovered, NEW t \in Thread, RemovePage(t)
  PROVE  TypeOK' /\ Shapes'
  <1>1. PICK r \in Region, me \in Activity :
            Taking(t, r, me) /\ (TakesOne(t, r, me) \/ TakesLast(t, r, me))
    BY RemovePageIs
  <1>2. /\ thr[t].pc = "remove" /\ ~wedged /\ thr[t].at < thr[t].end
        /\ Pinned(r) /\ r.at <= thr[t].at /\ thr[t].at < r.at + r.size
        /\ thr' = [thr EXCEPT ![t] = me]
        /\ me.at = thr[t].at + r.size /\ me.end = thr[t].end /\ me.start = thr[t].start
        /\ me.vaddr = thr[t].vaddr /\ me.len = thr[t].len
        /\ UNCHANGED <<mem, huge, pinned, cached, bufs, held, wedged, count>>
    BY <1>1 DEF Taking
  <1>3. skipped' \subseteq Region /\ lost' \subseteq Region
    BY <1>1, LeftIn DEF Taking, TakesOne, TakesLast, Stepped, TypeOK
  <1>4. pt' \in [Region -> [refs : Nat, alloc : BOOLEAN]]
    <2>1. CASE TakesOne(t, r, me)
      <3>1. pt[r] \in [refs : Nat, alloc : BOOLEAN] /\ pt[r].refs - 1 \in Nat
        BY <2>1, EntryIs DEF TakesOne
      <3>2. pt' = [pt EXCEPT ![r] = [pt[r] EXCEPT !.refs = pt[r].refs - 1]]
        BY <2>1 DEF TakesOne, TypeOK
      <3>3. [pt[r] EXCEPT !.refs = pt[r].refs - 1] \in [refs : Nat, alloc : BOOLEAN]
        BY <3>1
      <3> QED BY <3>2, <3>3 DEF TypeOK
    <2>2. CASE TakesLast(t, r, me)
      <3>1. NoEntry \in [refs : Nat, alloc : BOOLEAN]
        BY DEF NoEntry
      <3> QED BY <2>2, <3>1 DEF TakesLast, TypeOK
    <2> QED BY <1>1, <2>1, <2>2
  <1>5. stale' \subseteq Page
    BY <1>1 DEF TakesOne, TakesLast, TypeOK
  <1>6. CallShape(me)'
    <2>1. /\ r.size \in Nat \ {0} /\ Aligned(r.size, Small) /\ r.at \in Nat
          /\ Aligned(thr[t].at, Small) /\ thr[t].at \in Nat
      BY <1>2, RegionIs, CallIs, ThreadIs
    <2>2. Aligned(thr[t].at + r.size, Small)
      BY <2>1, AlignedSum, Sizes
    <2>3. /\ Aligned(thr[t].start, Small)
          /\ thr[t].start <= thr[t].at + r.size /\ thr[t].start <= thr[t].vaddr
          /\ thr[t].len # 0 /\ thr[t].vaddr + thr[t].len <= thr[t].end /\ thr[t].end <= Units
      BY <1>2, <2>1, CallIs, ThreadIs
    <2>4. /\ Aligned(me.at, Small) /\ Aligned(me.start, Small)
          /\ me.start <= me.at /\ me.start <= me.vaddr
          /\ me.len # 0 /\ me.vaddr + me.len <= me.end /\ me.end <= Units
      BY <1>2, <2>2, <2>3
    <2>5. me.end = me.vaddr + me.len
      BY <1>2 DEF Shapes, CallShape, Removing
    <2>6. CASE TakesOne(t, r, me)
      <3>1. me.pc \in {"remove", "unmap"} /\ (me.pc = "remove" => me.at < me.end) /\ (me.pc = "unmap" => me.at >= me.end)
        <4>1. me.at \in Nat /\ me.end \in Nat
          BY <1>2, <2>1, ThreadIs
        <4> QED BY <2>6, <4>1 DEF TakesOne, AfterPage
      <3> QED BY <2>4, <2>5, <3>1 DEF CallShape, Removing
    <2>7. CASE TakesLast(t, r, me)
      <3>1. me.pc = "inval" /\ me.page = r
        BY <2>7 DEF TakesLast
      <3>2. me.page.at + me.page.size <= me.at /\ me.at < me.page.at + me.page.size + me.page.size
        BY <1>2, <2>1, <3>1
      <3> QED BY <2>4, <2>5, <3>1, <3>2 DEF CallShape, Removing
    <2> QED BY <1>1, <2>6, <2>7
  <1>7. thr' \in [Thread -> Activity] /\ \A u \in Thread : CallShape(thr[u])'
    BY <1>2, <1>6, ThreadMoves, ShapesMove
  <1>8. Shapes'
    BY <1>2, <1>7, ShapesOfBags
  <1> QED BY <1>2, <1>3, <1>4, <1>5, <1>7, <1>8 DEF TypeOK

\* A step of a release that goes on to another step at the same address.
Onward(t, pc) ==
    \E me \in Activity :
        /\ thr' = [thr EXCEPT ![t] = me] /\ me.pc = pc
        /\ me.at = thr[t].at /\ me.end = thr[t].end /\ me.start = thr[t].start
        /\ me.vaddr = thr[t].vaddr /\ me.len = thr[t].len /\ me.page = thr[t].page
        /\ (me.alloc <=> thr[t].alloc) /\ (me.busy <=> thr[t].busy)

LEMMA OnwardIs ==
  ASSUME TypeOK, NEW t \in Thread,
         NEW pc \in {"idle", "pin", "remove", "inval", "unpin", "unmap", "break"},
         thr' = [thr EXCEPT ![t].pc = pc]
  PROVE  Onward(t, pc)
  <1> DEFINE me == [thr[t] EXCEPT !.pc = pc]
  <1>1. thr[t] \in Activity
    BY ThreadIs
  <1>2. /\ me \in Activity /\ me.at = thr[t].at /\ me.pc = pc
        /\ me.end = thr[t].end /\ me.start = thr[t].start
        /\ me.vaddr = thr[t].vaddr /\ me.len = thr[t].len /\ me.page = thr[t].page
        /\ me.alloc = thr[t].alloc /\ me.busy = thr[t].busy
    BY <1>1 DEF Activity
  <1>3. thr' = [thr EXCEPT ![t] = me]
    OBVIOUS
  <1> HIDE DEF me
  <1> QED BY <1>2, <1>3 DEF Onward

LEMMA OnwardType ==
  ASSUME TypeOK, Shapes, NEW t \in Thread, NEW pc \in {"unpin", "remove", "unmap", "break"},
         Onward(t, pc), thr[t].pc \in {"inval", "unpin"}, UNCHANGED <<bufs, held>>,
         wedged => wedged',
         pc = "unpin" => thr[t].pc = "inval", pc = "remove" => thr[t].at < thr[t].end,
         pc = "unmap" => thr[t].at >= thr[t].end, pc = "break" => wedged'
  PROVE  thr' \in [Thread -> Activity] /\ Shapes'
  <1>1. PICK me \in Activity :
            /\ thr' = [thr EXCEPT ![t] = me] /\ me.pc = pc
            /\ me.at = thr[t].at /\ me.end = thr[t].end /\ me.start = thr[t].start
            /\ me.vaddr = thr[t].vaddr /\ me.len = thr[t].len /\ me.page = thr[t].page
    BY DEF Onward
  <1>2. CallShape(thr[t])
    BY DEF Shapes
  <1>3. CallShape(me)'
    <2>1. /\ Aligned(me.at, Small) /\ Aligned(me.start, Small)
          /\ me.start <= me.at /\ me.start <= me.vaddr
          /\ me.len # 0 /\ me.vaddr + me.len <= me.end /\ me.end <= Units
          /\ me.end = me.vaddr + me.len
      BY <1>1, <1>2 DEF CallShape, Removing
    <2>2. /\ me.page \in Region
          /\ me.page.at + me.page.size <= me.at /\ me.at < me.page.at + me.page.size + me.page.size
      BY <1>1, <1>2 DEF CallShape
    <2>3. /\ me.pc = "remove" => me.at < me.end
          /\ me.pc = "unmap" => me.at >= me.end
          /\ me.pc = "break" => wedged'
          /\ me.pc \in {"unpin", "remove", "unmap", "break"}
      BY <1>1
    <2> QED BY <2>1, <2>2, <2>3 DEF CallShape, Removing
  <1>4. thr' \in [Thread -> Activity] /\ \A u \in Thread : CallShape(thr[u])'
    BY <1>1, <1>3, ThreadMoves, ShapesMove
  <1> QED BY <1>4, ShapesOfBags

LEMMA InvalPageIs ==
  ASSUME TypeOK, NEW t \in Thread, InvalPage(t)
  PROVE  /\ thr[t].pc = "inval" /\ ~wedged /\ Onward(t, "unpin")
         /\ Shootdown(thr[t].at - thr[t].page.size, pt)
         /\ UNCHANGED <<mem, huge, pt, pinned, bufs, held, wedged, count, stale, lost, skipped>>
  <1>1. thr' = [thr EXCEPT ![t].pc = "unpin"]
    BY DEF InvalPage
  <1>2. Onward(t, "unpin")
    BY <1>1, OnwardIs
  <1> QED BY <1>2 DEF InvalPage

LEMMA InvalPageType ==
  ASSUME TypeOK, Shapes, NEW t \in Thread, InvalPage(t)
  PROVE  TypeOK' /\ Shapes'
  <1>1. /\ thr[t].pc = "inval" /\ Onward(t, "unpin")
        /\ Shootdown(thr[t].at - thr[t].page.size, pt)
        /\ UNCHANGED <<mem, huge, pt, pinned, bufs, held, wedged, count, stale, lost, skipped>>
    BY InvalPageIs
  <1>2. cached' \subseteq Region
    BY <1>1 DEF Shootdown
  <1>3. thr' \in [Thread -> Activity] /\ Shapes'
    BY <1>1, OnwardType
  <1> QED BY <1>1, <1>2, <1>3 DEF TypeOK

LEMMA InvalFailsIs ==
  ASSUME TypeOK, NEW t \in Thread, InvalFails(t)
  PROVE  /\ thr[t].pc = "inval" /\ Onward(t, "break") /\ wedged' = TRUE
         /\ count.faults < MaxFaults /\ count' = [count EXCEPT !.faults = @ + 1]
         /\ lost' = lost \union Left(thr[t].at, thr[t].end, 0, 0)
         /\ UNCHANGED <<mem, huge, pt, pinned, cached, bufs, held, stale, skipped>>
  <1>1. thr' = [thr EXCEPT ![t].pc = "break"]
    BY DEF InvalFails
  <1>2. Onward(t, "break")
    BY <1>1, OnwardIs
  <1> QED BY <1>2 DEF InvalFails

LEMMA InvalFailsType ==
  ASSUME TypeOK, Shapes, NEW t \in Thread, InvalFails(t)
  PROVE  TypeOK' /\ Shapes'
  <1>1. /\ thr[t].pc = "inval" /\ Onward(t, "break") /\ wedged' = TRUE
        /\ count.faults < MaxFaults /\ count' = [count EXCEPT !.faults = @ + 1]
        /\ lost' = lost \union Left(thr[t].at, thr[t].end, 0, 0)
        /\ UNCHANGED <<mem, huge, pt, pinned, cached, bufs, held, stale, skipped>>
    BY InvalFailsIs
  <1>2. lost' \subseteq Region
    BY <1>1, LeftIn DEF TypeOK
  <1>3. count' \in [prepares : 0 .. MaxPrepares, unmaps : 0 .. MaxUnmaps, faults : 0 .. MaxFaults]
    BY <1>1, FaultCount
  <1>4. thr' \in [Thread -> Activity] /\ Shapes'
    BY <1>1, OnwardType
  <1> QED BY <1>1, <1>2, <1>3, <1>4 DEF TypeOK

LEMMA UnpinPageIs ==
  ASSUME TypeOK, Shapes, NEW t \in Thread, UnpinPage(t)
  PROVE  \E pc \in {"remove", "unmap"} :
            /\ thr[t].pc = "unpin" /\ Onward(t, pc) /\ thr[t].page \in Region
            /\ pc = "remove" => thr[t].at < thr[t].end
            /\ pc = "unmap" => thr[t].at >= thr[t].end
            /\ pinned' = [pinned EXCEPT ![thr[t].page] = @ - 1]
            /\ UNCHANGED <<mem, huge, pt, cached, bufs, held, wedged, count, stale, lost, skipped>>
  <1> DEFINE pc == AfterPage(thr[t].at, thr[t].end)
  <1>1. /\ thr[t].pc = "unpin" /\ thr' = [thr EXCEPT ![t].pc = pc]
        /\ pinned' = [pinned EXCEPT ![thr[t].page] = @ - 1]
        /\ UNCHANGED <<mem, huge, pt, cached, bufs, held, wedged, count, stale, lost, skipped>>
    BY DEF UnpinPage, Handle
  <1>2. thr[t].page \in Region
    BY <1>1 DEF Shapes, CallShape
  <1>3. /\ pc \in {"remove", "unmap"}
        /\ pc = "remove" => thr[t].at < thr[t].end
        /\ pc = "unmap" => thr[t].at >= thr[t].end
    BY ThreadIs DEF AfterPage
  <1> HIDE DEF pc
  <1>4. Onward(t, pc)
    BY <1>1, <1>3, OnwardIs
  <1> QED BY <1>1, <1>2, <1>3, <1>4

LEMMA UnpinPageType ==
  ASSUME TypeOK, Shapes, PinsKept, NEW t \in Thread, UnpinPage(t)
  PROVE  TypeOK' /\ Shapes'
  <1>1. PICK pc \in {"remove", "unmap"} :
            /\ thr[t].pc = "unpin" /\ Onward(t, pc) /\ thr[t].page \in Region
            /\ pc = "remove" => thr[t].at < thr[t].end
            /\ pc = "unmap" => thr[t].at >= thr[t].end
            /\ pinned' = [pinned EXCEPT ![thr[t].page] = @ - 1]
            /\ UNCHANGED <<mem, huge, pt, cached, bufs, held, wedged, count, stale, lost, skipped>>
    BY UnpinPageIs
  <1> DEFINE r == thr[t].page
             T == Taken(r, {"inval", "unpin"})
  <1>2. T \subseteq Thread /\ t \in T /\ IsFiniteSet(Thread)
    BY <1>1, BuffersAssumption DEF Taken
  <1>3. Cardinality(T) \in Nat /\ Cardinality(T) # 0
    <2>1. IsFiniteSet(T) /\ Cardinality(T) \in Nat
      BY <1>2, FewerIn
    <2> QED BY <1>2, <2>1, FS_EmptySet
  <1>4. pinned[r] \in Nat /\ pinned[r] >= Cardinality(T) + (IF Pinned(r) THEN 1 ELSE 0)
    BY <1>1 DEF PinsKept, TypeOK
  <1> HIDE DEF T
  <1>5. pinned[r] - 1 \in Nat
    BY <1>3, <1>4
  <1>6. pinned' \in [Region -> Nat]
    BY <1>1, <1>5 DEF TypeOK
  <1>7. thr' \in [Thread -> Activity] /\ Shapes'
    BY <1>1, OnwardType
  <1> QED BY <1>1, <1>6, <1>7 DEF TypeOK

\* The end of a release, with what it unmaps.
LEMMA UnmapBufferIs ==
  ASSUME TypeOK, Shapes, NEW t \in Thread, UnmapBuffer(t)
  PROVE  /\ thr[t].pc \in {"unmap", "break"} /\ (thr[t].pc = "break" => wedged)
         /\ thr[t].start + thr[t].len \in Nat /\ thr[t].start + thr[t].len <= thr[t].end
         /\ \/ UNCHANGED <<mem, huge, stale>>
            \/ thr[t].alloc /\ ~thr[t].busy /\ Unmapped(thr[t].start, thr[t].start + thr[t].len)
         /\ thr' = [thr EXCEPT ![t] = Idle]
         /\ UNCHANGED <<pt, pinned, cached, bufs, held, wedged, count, lost, skipped>>
  <1>1. thr[t].pc \in {"unmap", "break"}
    BY DEF UnmapBuffer
  <1>2. thr[t].pc = "break" => wedged
    BY DEF Shapes, CallShape
  <1>3. thr[t].start + thr[t].len \in Nat /\ thr[t].start + thr[t].len <= thr[t].end
    BY <1>1, CallIs, ThreadIs
  <1> QED BY <1>1, <1>2, <1>3 DEF UnmapBuffer, Unmaps

LEMMA UnmapBufferType ==
  ASSUME TypeOK, Shapes, NEW t \in Thread, UnmapBuffer(t)
  PROVE  TypeOK' /\ Shapes'
  <1>1. /\ thr[t].pc \in {"unmap", "break"}
        /\ thr[t].start + thr[t].len \in Nat /\ thr[t].start + thr[t].len <= thr[t].end
        /\ \/ UNCHANGED <<mem, huge, stale>>
           \/ Unmapped(thr[t].start, thr[t].start + thr[t].len)
        /\ thr' = [thr EXCEPT ![t] = Idle]
        /\ UNCHANGED <<pt, pinned, cached, bufs, held, wedged, count, lost, skipped>>
    BY UnmapBufferIs
  <1>2. Pages(thr[t].start, thr[t].start + thr[t].len) \subseteq Page
    <2>1. thr[t].start + thr[t].len <= Units /\ thr[t].start \in Nat
      BY <1>1, CallIs, ThreadIs, Sizes
    <2> QED BY <1>1, <2>1, PagesTouched
  <1>3. /\ mem' \in [Page -> {"free", "user", "mpf"}] /\ huge' \subseteq {s \in Region : s.size = Large}
        /\ stale' \subseteq Page
    BY <1>1, <1>2, UnmappedType DEF TypeOK
  <1>4. thr' \in [Thread -> Activity] /\ Shapes'
    BY <1>1, ToIdle, ShapesOfBags
  <1> QED BY <1>1, <1>3, <1>4 DEF TypeOK

-----------------------------------------------------------------------------
(* Steps that leave the table and the buffers alone.                       *)

Quiet(t) ==
    /\ UNCHANGED <<pt, bufs>> /\ lost \subseteq lost'
    /\ \A u \in Thread \ {t} : thr'[u] = thr[u]
    /\ thr'[t].pc = "pin" => thr'[t].at = thr'[t].start /\ thr'[t].at <= thr'[t].end
    /\ \/ Lo(t)' = Lo(t) /\ Hi(t)' = Hi(t)
       \/ Hi(t)' <= Lo(t)' /\ \A r \in Region : Pinned(r) /\ Meets(r, Lo(t), Hi(t)) => r \in lost'

LEMMA IdleRange ==
  ASSUME TypeOK, Shapes, NEW t \in Thread, thr[t].pc = "idle"
  PROVE  Lo(t) = 0 /\ Hi(t) = 0 /\ \A r : ~Meets(r, Lo(t), Hi(t))
  <1>1. thr[t] = Idle
    BY DEF Shapes, CallShape
  <1> QED BY <1>1 DEF Idle, Lo, Hi, Meets

LEMMA IdleAfter ==
  ASSUME NEW t \in Thread, thr'[t] = Idle
  PROVE  Lo(t)' = 0 /\ Hi(t)' = 0 /\ thr'[t].pc = "idle"
  BY DEF Idle, Lo, Hi

LEMMA BeginQuiet ==
  ASSUME TypeOK, Shapes, NEW t \in Thread, NEW vaddr \in Address, NEW len \in Lengths,
         NEW start \in Address, NEW end \in Nat, NEW alloc \in BOOLEAN,
         Begin(t, vaddr, len, start, end, alloc), start <= end, thr[t].pc = "idle",
         UNCHANGED <<pt, bufs, lost>>
  PROVE  Quiet(t)
  <1>1. PICK me \in Activity :
        /\ me = Opening(vaddr, len, start, end, alloc)
        /\ me.pc = "pin" /\ me.at = start /\ me.end = end /\ me.start = start
        /\ me.vaddr = vaddr /\ me.len = len /\ (me.alloc <=> alloc) /\ ~me.busy
    BY OpeningIs
  <1>2. thr' = [thr EXCEPT ![t] = me]
    BY <1>1 DEF Begin, Opening
  <1>3. thr'[t] = me /\ \A u \in Thread \ {t} : thr'[u] = thr[u]
    BY <1>2, ThreadMoves
  <1>4. \A r : ~Meets(r, Lo(t), Hi(t))
    BY IdleRange
  <1>5. Lo(t)' = start /\ Hi(t)' = start /\ thr'[t].at = thr'[t].start /\ thr'[t].at <= thr'[t].end
    BY <1>1, <1>3 DEF Lo, Hi
  <1> QED BY <1>3, <1>4, <1>5, AddressIs DEF Quiet

LEMMA PreallocQuiet ==
  ASSUME TypeOK, Shapes, NEW t \in Thread, NEW n \in Lengths, NEW a \in Address, Prealloc(t, a, n)
  PROVE  Quiet(t)
  <1>1. PICK start \in Address :
            /\ start \in Nat /\ Aligned(start, Small) /\ start <= a /\ a + n \in Nat /\ a + n <= Units
            /\ Begin(t, a, n, start, a + n, FALSE)
    BY PreallocIs
  <1>2. start <= a + n
    BY <1>1, AddressIs, LengthIs
  <1>3. thr[t].pc = "idle" /\ UNCHANGED <<pt, bufs, lost>>
    BY DEF Prealloc, Busy
  <1> QED BY <1>1, <1>2, <1>3, BeginQuiet

LEMMA AllocQuiet ==
  ASSUME TypeOK, Shapes, NEW t \in Thread, NEW n \in Lengths, NEW a \in Address, Alloc(t, n, a)
  PROVE  Quiet(t)
  <1>1. PICK end \in Nat : a \in Nat /\ n \in Nat /\ a + n <= end /\ Begin(t, a, n, a, end, TRUE)
    BY AllocIs
  <1>2. a <= end
    BY <1>1
  <1>3. thr[t].pc = "idle" /\ UNCHANGED <<pt, bufs, lost>>
    BY DEF Alloc, Busy
  <1> QED BY <1>1, <1>2, <1>3, BeginQuiet

LEMMA PrepareFailsQuiet ==
  ASSUME TypeOK, Shapes, NEW t \in Thread, PrepareFails(t)
  PROVE  Quiet(t)
  <1>1. /\ thr' = [thr EXCEPT ![t] = Idle] /\ thr[t].pc = "pin"
        /\ lost' = lost \union Left(thr[t].start, thr[t].at, 0, 0)
        /\ UNCHANGED <<pt, bufs, wedged>>
    BY DEF PrepareFails
  <1>2. thr'[t] = Idle /\ \A u \in Thread \ {t} : thr'[u] = thr[u]
    BY <1>1, ToIdle
  <1>3. Lo(t)' = 0 /\ Hi(t)' = 0 /\ thr'[t].pc = "idle"
    BY <1>2, IdleAfter
  <1>4. \A r \in Region : Pinned(r) /\ Meets(r, Lo(t), Hi(t)) => r \in lost'
    BY <1>1 DEF Left, Lo, Hi, Meets
  <1> QED BY <1>1, <1>2, <1>3, <1>4 DEF Quiet

LEMMA OnwardRange ==
  ASSUME TypeOK, NEW t \in Thread, NEW pc, Onward(t, pc), thr[t].pc \in {"inval", "unpin"}
  PROVE  /\ thr'[t].pc = pc /\ \A u \in Thread \ {t} : thr'[u] = thr[u]
         /\ thr'[t].at = thr[t].at /\ thr'[t].end = thr[t].end /\ thr'[t].start = thr[t].start
         /\ thr'[t].vaddr = thr[t].vaddr /\ thr'[t].len = thr[t].len /\ thr'[t].page = thr[t].page
         /\ (thr'[t].alloc <=> thr[t].alloc) /\ (thr'[t].busy <=> thr[t].busy)
         /\ pc \notin {"pin", "break"} => Lo(t)' = Lo(t) /\ Hi(t)' = Hi(t)
  <1>1. PICK me \in Activity :
            /\ thr' = [thr EXCEPT ![t] = me] /\ me.pc = pc
            /\ me.at = thr[t].at /\ me.end = thr[t].end /\ me.start = thr[t].start
            /\ me.vaddr = thr[t].vaddr /\ me.len = thr[t].len /\ me.page = thr[t].page
            /\ (me.alloc <=> thr[t].alloc) /\ (me.busy <=> thr[t].busy)
    BY DEF Onward
  <1>2. thr'[t] = me /\ \A u \in Thread \ {t} : thr'[u] = thr[u]
    BY <1>1, ThreadMoves
  <1>3. pc \notin {"pin", "break"} => Lo(t)' = Lo(t) /\ Hi(t)' = Hi(t)
    BY <1>1, <1>2 DEF Lo, Hi
  <1> QED BY <1>1, <1>2, <1>3

LEMMA InvalPageQuiet ==
  ASSUME TypeOK, Shapes, NEW t \in Thread, InvalPage(t)
  PROVE  Quiet(t)
  <1>1. thr[t].pc = "inval" /\ Onward(t, "unpin") /\ UNCHANGED <<pt, bufs, lost>>
    BY InvalPageIs
  <1>2. /\ thr'[t].pc = "unpin" /\ \A u \in Thread \ {t} : thr'[u] = thr[u]
        /\ Lo(t)' = Lo(t) /\ Hi(t)' = Hi(t)
    BY <1>1, OnwardRange
  <1> QED BY <1>1, <1>2 DEF Quiet

LEMMA InvalFailsQuiet ==
  ASSUME TypeOK, Shapes, NEW t \in Thread, InvalFails(t)
  PROVE  Quiet(t)
  <1>1. /\ thr[t].pc = "inval" /\ Onward(t, "break")
        /\ lost' = lost \union Left(thr[t].at, thr[t].end, 0, 0) /\ UNCHANGED <<pt, bufs>>
    BY InvalFailsIs
  <1>2. thr'[t].pc = "break" /\ thr'[t].at = thr[t].at /\ \A u \in Thread \ {t} : thr'[u] = thr[u]
    BY <1>1, OnwardRange
  <1>3. Hi(t)' = 0 /\ Lo(t)' = thr[t].at
    BY <1>2 DEF Lo, Hi
  <1>4. \A r \in Region : Pinned(r) /\ Meets(r, Lo(t), Hi(t)) => r \in lost'
    BY <1>1 DEF Left, Lo, Hi, Meets
  <1> QED BY <1>1, <1>2, <1>3, <1>4, ThreadIs DEF Quiet

LEMMA UnpinPageQuiet ==
  ASSUME TypeOK, Shapes, NEW t \in Thread, UnpinPage(t)
  PROVE  Quiet(t)
  <1>1. PICK pc \in {"remove", "unmap"} :
            thr[t].pc = "unpin" /\ Onward(t, pc) /\ UNCHANGED <<pt, bufs, lost>>
    BY UnpinPageIs
  <1>2. /\ thr'[t].pc = pc /\ \A u \in Thread \ {t} : thr'[u] = thr[u]
        /\ Lo(t)' = Lo(t) /\ Hi(t)' = Hi(t)
    BY <1>1, OnwardRange
  <1> QED BY <1>1, <1>2 DEF Quiet

LEMMA UnmapBufferQuiet ==
  ASSUME TypeOK, Shapes, NEW t \in Thread, UnmapBuffer(t)
  PROVE  Quiet(t)
  <1>1. /\ thr[t].pc \in {"unmap", "break"} /\ thr' = [thr EXCEPT ![t] = Idle]
        /\ UNCHANGED <<pt, bufs, lost, wedged>>
    BY UnmapBufferIs
  <1>2. thr'[t] = Idle /\ \A u \in Thread \ {t} : thr'[u] = thr[u]
    BY <1>1, ToIdle
  <1>3. Lo(t)' = 0 /\ Hi(t)' = 0 /\ thr'[t].pc = "idle"
    BY <1>2, IdleAfter
  <1>4. Hi(t) <= Lo(t)
    BY <1>1, ThreadIs DEF Shapes, CallShape, Lo, Hi
  <1>5. Lo(t) \in Nat /\ Hi(t) \in Nat
    BY CallRange
  <1>6. \A r \in Region : ~Meets(r, Lo(t), Hi(t))
    BY <1>4, <1>5 DEF Meets
  <1> QED BY <1>1, <1>2, <1>3, <1>6 DEF Quiet

-----------------------------------------------------------------------------
(* The entries stay apart, and what is counted on stays in the table.      *)

LEMMA DisjointKept ==
  ASSUME Disjoint, \A s \in Region : Pinned(s)' => Pinned(s)
  PROVE  Disjoint'
  BY DEF Disjoint, Meets

LEMMA DisjointSame ==
  ASSUME Disjoint, pt' = pt
  PROVE  Disjoint'
  BY DisjointKept DEF Pinned

\* What is pinned after the steps that count an entry.
LEMMA PinFoundPinned ==
  ASSUME TypeOK, NEW r \in Region, Pinned(r), pt' = [pt EXCEPT ![r] = More(pt[r], FALSE)]
  PROVE  /\ \A s \in Region : Pinned(s)' <=> Pinned(s)
         /\ pt'[r].refs = pt[r].refs + 1 /\ ~pt'[r].alloc
         /\ \A s \in Region \ {r} : pt'[s] = pt[s]
  <1>1. pt'[r] = More(pt[r], FALSE) /\ \A s \in Region \ {r} : pt'[s] = pt[s]
    BY DEF TypeOK
  <1>2. pt[r] \in [refs : Nat, alloc : BOOLEAN] /\ pt[r].refs \in Nat
    BY EntryIs
  <1>3. More(pt[r], FALSE).refs = pt[r].refs + 1 /\ ~More(pt[r], FALSE).alloc
    BY <1>2, MoreIs
  <1>4. pt'[r].refs = pt[r].refs + 1
    BY <1>1, <1>3
  <1>6. ~pt'[r].alloc
    BY <1>1, <1>3
  <1>7. pt[r].refs + 1 > 0
    BY EntryIs
  <1>5. ASSUME NEW s \in Region PROVE Pinned(s)' <=> Pinned(s)
    <2>1. CASE s = r
      <3>1. pt'[r].refs > 0
        BY <1>4, <1>7
      <3> QED BY <2>1, <3>1 DEF Pinned
    <2>2. CASE s # r
      BY <1>1, <2>2 DEF Pinned
    <2> QED BY <2>1, <2>2
  <1> QED BY <1>1, <1>4, <1>5, <1>6

LEMMA InsertPinned ==
  ASSUME TypeOK, NEW r \in Region, NEW alloc \in BOOLEAN, Insert(r, alloc)
  PROVE  /\ Found(r.at) = {} => Pinned(r)' /\ \A s \in Region \ {r} : Pinned(s)' <=> Pinned(s)
         /\ Found(r.at) # {} => \A s \in Region : Pinned(s)' <=> Pinned(s)
  <1>1. CASE Found(r.at) = {}
    <2>1. pt'[r].refs = 1 /\ \A s \in Region \ {r} : pt'[s] = pt[s]
      BY <1>1, InsertIs
    <2> QED BY <1>1, <2>1 DEF Pinned
  <1>2. CASE Found(r.at) # {}
    <2>1. /\ \A s \in Region \ Found(r.at) : pt'[s] = pt[s]
          /\ \A s \in Region \intersect Found(r.at) : pt'[s].refs = pt[s].refs + 1
      BY <1>2, InsertShared
    <2>2. ASSUME NEW s \in Region PROVE Pinned(s)' <=> Pinned(s)
      <3>1. CASE s \in Found(r.at)
        <4>1. Pinned(s)
          BY <3>1 DEF Found
        <4>2. pt[s].refs \in Nat /\ pt'[s].refs = pt[s].refs + 1
          BY <2>1, <3>1, EntryIs
        <4> QED BY <4>1, <4>2 DEF Pinned
      <3>2. CASE s \notin Found(r.at)
        BY <2>1, <3>2 DEF Pinned
      <3> QED BY <3>1, <3>2
    <2> QED BY <1>2, <2>2
  <1> QED BY <1>1, <1>2

LEMMA TakingPinned ==
  ASSUME TypeOK, NEW t \in Thread, NEW r \in Region, NEW me \in Activity,
         Taking(t, r, me), TakesOne(t, r, me) \/ TakesLast(t, r, me)
  PROVE  /\ \A s \in Region \ {r} : pt'[s] = pt[s] /\ (Pinned(s)' <=> Pinned(s))
         /\ pt'[r].refs = pt[r].refs - 1 /\ pt[r].refs \in Nat /\ pt[r].refs >= 1
         /\ Pinned(r)' <=> pt[r].refs # 1
         /\ pt'[r].alloc => pt[r].alloc
  <1>1. pt[r] \in [refs : Nat, alloc : BOOLEAN] /\ pt[r].refs \in Nat
    BY EntryIs
  <1>2. CASE TakesOne(t, r, me)
    <2>1. pt[r].refs > 1 /\ pt' = [pt EXCEPT ![r].refs = @ - 1]
      BY <1>2 DEF TakesOne
    <2>2. /\ pt'[r] = [pt[r] EXCEPT !.refs = pt[r].refs - 1]
          /\ \A s \in Region \ {r} : pt'[s] = pt[s]
      BY <2>1 DEF TypeOK
    <2>3. pt'[r].refs = pt[r].refs - 1 /\ pt'[r].alloc = pt[r].alloc
      BY <1>1, <2>2
    <2> QED BY <1>1, <2>1, <2>2, <2>3 DEF Pinned
  <1>3. CASE TakesLast(t, r, me)
    <2>1. pt[r].refs = 1 /\ pt' = [pt EXCEPT ![r] = NoEntry]
      BY <1>3 DEF TakesLast
    <2>2. pt'[r] = NoEntry /\ \A s \in Region \ {r} : pt'[s] = pt[s]
      BY <2>1 DEF TypeOK
    <2>3. pt'[r].refs = 0 /\ ~pt'[r].alloc
      BY <2>2 DEF NoEntry
    <2> QED BY <1>1, <2>1, <2>2, <2>3 DEF Pinned
  <1> QED BY <1>2, <1>3

LEMMA PinNewDisjoint ==
  ASSUME TypeOK, Shapes, Disjoint, NEW t \in Thread, NEW size \in {Small, Large}, PinNew(t, size)
  PROVE  Disjoint'
  <1>1. PICK r \in Region : MayInsert(r) /\ Insert(r, thr[t].alloc)
    BY PinNewIs
  <1>2. thr[t].alloc \in BOOLEAN
    BY ThreadIs
  <1>3. CASE Found(r.at) # {}
    BY <1>1, <1>2, <1>3, InsertPinned, DisjointKept
  <1>4. CASE Found(r.at) = {}
    <2>1. \A s \in Region \ {r} : Pinned(s)' <=> Pinned(s)
      BY <1>1, <1>2, <1>4, InsertPinned
    <2>2. \A s \in Region : Pinned(s) =>
              ~Meets(s, r.at, r.at + r.size) /\ ~Meets(r, s.at, s.at + s.size)
      BY <1>1, <1>4, RoomFor
    <2>3. ASSUME NEW s \in Region, NEW q \in Region, Pinned(s)', Pinned(q)', s # q
          PROVE  ~Meets(s, q.at, q.at + q.size)
      <3>1. CASE s # r /\ q # r
        BY <2>1, <2>3, <3>1 DEF Disjoint
      <3>2. CASE s = r
        <4>1. Pinned(q)
          BY <2>1, <2>3, <3>2
        <4> QED BY <2>2, <3>2, <4>1
      <3>3. CASE q = r
        <4>1. Pinned(s)
          BY <2>1, <2>3, <3>3
        <4> QED BY <2>2, <3>3, <4>1
      <3> QED BY <3>1, <3>2, <3>3
    <2> QED BY <2>3 DEF Disjoint, Meets
  <1> QED BY <1>3, <1>4

\* A range keeps its entries when they stay pinned.
LEMMA CoveredKept ==
  ASSUME NEW from \in Nat, NEW end \in Nat, end <= Units, Covered(from, end),
         \A s \in Region : Pinned(s) /\ Meets(s, from, end) => Pinned(s)'
  PROVE  Covered(from, end)'
  <1>1. ASSUME NEW p \in Pages(from, end) PROVE Found(p)' # {}
    <2>1. p \in Page /\ p < end /\ from < p + Small /\ from < end /\ p \in Nat /\ p \in Address
      BY PagesTouched, PageIs, AddressIs
    <2>2. PICK s \in {At(p, Small), At(p, Large)} : Pinned(s)
      BY DEF Covered, Found
    <2>3. s \in Region /\ s.at <= p /\ p < s.at + s.size
      BY <2>1, <2>2, AtIs
    <2>4. s.at \in Nat /\ s.size \in Nat /\ p + Small <= s.at + s.size
      BY <2>1, <2>3, RegionIs, PageIs, PageWhole, Sizes
    <2>5. Meets(s, from, end)
      BY <2>1, <2>3, <2>4, Sizes DEF Meets
    <2>6. Pinned(s)'
      BY <2>2, <2>3, <2>5
    <2>7. s \in Found(p)'
      BY <2>2, <2>6 DEF Found
    <2> QED BY <2>7
  <1> QED BY <1>1 DEF Covered

\* A part of a range.
LEMMA CoveredPart ==
  ASSUME NEW from \in Nat, NEW end \in Nat, end <= Units, Covered(from, end),
         NEW from2 \in Nat, NEW end2 \in Nat, from <= from2, end2 <= end
  PROVE  Covered(from2, end2)
  <1>1. from2 .. end2 - 1 \subseteq from .. end - 1
    OBVIOUS
  <1>2. Pages(from2, end2) \subseteq Pages(from, end)
    BY <1>1 DEF Pages
  <1> QED BY <1>2 DEF Covered

LEMMA CoveredNone ==
  ASSUME NEW from \in Nat, NEW end \in Nat, end <= from
  PROVE  Covered(from, end)
  <1>1. Pages(from, end) = {}
    BY DEF Pages
  <1> QED BY <1>1 DEF Covered

-----------------------------------------------------------------------------
(* A page is pinned, or counted once more: the entry e grows.              *)

PinStep(t, e) ==
    /\ thr[t].pc = "pin" /\ thr'[t].pc = "pin" /\ \A u \in Thread \ {t} : thr'[u] = thr[u]
    /\ thr'[t].start = thr[t].start /\ thr'[t].end = thr[t].end
    /\ thr'[t].vaddr = thr[t].vaddr /\ thr'[t].len = thr[t].len /\ (thr'[t].alloc <=> thr[t].alloc)
    /\ thr[t].at < thr[t].end /\ thr[t].at < thr'[t].at /\ thr'[t].at \in Nat
    /\ e.at <= thr[t].at /\ thr'[t].at <= e.at + e.size
    /\ thr[t].alloc \/ thr'[t].at = e.at + e.size
    /\ \A s \in Region \ {e} : pt'[s] = pt[s]
    /\ \/ /\ Pinned(e) /\ pt'[e].refs = pt[e].refs + 1 /\ (pt'[e].alloc => pt[e].alloc)
          /\ ~thr[t].alloc => ~pt'[e].alloc
          /\ lost' = lost \union {s \in {e} : thr[t].alloc /\ Meets(s, thr[t].start, thr[t].at)}
       \/ /\ ~Pinned(e) /\ Found(e.at) = {} /\ MayInsert(e) /\ pt'[e].refs = 1
          /\ (pt'[e].alloc <=> thr[t].alloc) /\ lost' = lost
    /\ UNCHANGED <<mem, huge, bufs, held, wedged, skipped>>

LEMMA PastMoves ==
  ASSUME TypeOK, NEW t \in Thread, NEW r \in Region, Past(t, r)
  PROVE  /\ \A u \in Thread \ {t} : thr'[u] = thr[u]
         /\ thr'[t].pc = thr[t].pc /\ thr'[t].at = r.at + r.size /\ thr'[t].at \in Nat
         /\ thr'[t].start = thr[t].start /\ thr'[t].end = thr[t].end
         /\ thr'[t].vaddr = thr[t].vaddr /\ thr'[t].len = thr[t].len /\ (thr'[t].alloc <=> thr[t].alloc)
  <1>1. PICK me \in Activity :
            /\ thr' = [thr EXCEPT ![t] = me] /\ me.at = r.at + r.size
            /\ me.pc = thr[t].pc /\ me.end = thr[t].end /\ me.start = thr[t].start
            /\ me.vaddr = thr[t].vaddr /\ me.len = thr[t].len
            /\ (me.alloc <=> thr[t].alloc) /\ (me.busy <=> thr[t].busy)
    BY PastIs
  <1>2. thr'[t] = me /\ \A u \in Thread \ {t} : thr'[u] = thr[u]
    BY <1>1, ThreadMoves
  <1>3. r.at + r.size \in Nat
    BY RegionIs
  <1> QED BY <1>1, <1>2, <1>3

LEMMA PinFoundStep ==
  ASSUME TypeOK, Shapes, NEW t \in Thread, PinFound(t)
  PROVE  \E e \in Region : PinStep(t, e)
  <1>1. PICK r \in Region :
            /\ thr[t].pc = "pin" /\ ~thr[t].alloc /\ thr[t].at < thr[t].end
            /\ Pinned(r) /\ r.at <= thr[t].at /\ thr[t].at < r.at + r.size
            /\ pt' = [pt EXCEPT ![r] = More(pt[r], FALSE)] /\ Past(t, r)
            /\ UNCHANGED <<mem, huge, pinned, cached, bufs, held, wedged, count, stale, lost, skipped>>
    BY PinFoundIs
  <1>2. /\ \A u \in Thread \ {t} : thr'[u] = thr[u]
        /\ thr'[t].pc = thr[t].pc /\ thr'[t].at = r.at + r.size /\ thr'[t].at \in Nat
        /\ thr'[t].start = thr[t].start /\ thr'[t].end = thr[t].end
        /\ thr'[t].vaddr = thr[t].vaddr /\ thr'[t].len = thr[t].len /\ (thr'[t].alloc <=> thr[t].alloc)
    BY <1>1, PastMoves
  <1>3. /\ pt'[r].refs = pt[r].refs + 1 /\ ~pt'[r].alloc
        /\ \A s \in Region \ {r} : pt'[s] = pt[s]
    BY <1>1, PinFoundPinned
  <1>4. lost' = lost \union {s \in {r} : thr[t].alloc /\ Meets(s, thr[t].start, thr[t].at)}
    BY <1>1
  <1>5. thr'[t].at <= r.at + r.size
    BY <1>2
  <1> QED BY <1>1, <1>2, <1>3, <1>4, <1>5 DEF PinStep

LEMMA PinNewStep ==
  ASSUME TypeOK, Shapes, Disjoint, NEW t \in Thread, NEW size \in {Small, Large}, PinNew(t, size)
  PROVE  \E e \in Region : PinStep(t, e)
  <1>1. PICK r \in Region :
            /\ thr[t].pc = "pin" /\ thr[t].at < thr[t].end
            /\ thr[t].at \in Page /\ thr[t].at \in Address /\ r.at = thr[t].at
            /\ Mapped(r) /\ MayInsert(r) /\ Past(t, r) /\ thr[t].at < r.at + r.size
            /\ pinned' = [pinned EXCEPT ![r] = @ + 1]
            /\ Shootdown(r.at, pt')
            /\ thr[t].alloc \/ Found(r.at) = {}
            /\ Insert(r, thr[t].alloc)
            /\ lost' = lost \union {s \in Found(r.at) : Meets(s, thr[t].start, thr[t].at)}
            /\ UNCHANGED <<mem, huge, bufs, held, wedged, count, stale, skipped>>
    BY PinNewIs
  <1>2. /\ \A u \in Thread \ {t} : thr'[u] = thr[u]
        /\ thr'[t].pc = thr[t].pc /\ thr'[t].at = r.at + r.size /\ thr'[t].at \in Nat
        /\ thr'[t].start = thr[t].start /\ thr'[t].end = thr[t].end
        /\ thr'[t].vaddr = thr[t].vaddr /\ thr'[t].len = thr[t].len /\ (thr'[t].alloc <=> thr[t].alloc)
    BY <1>1, PastMoves
  <1>3. r.at \in Nat /\ r.size \in Nat \ {0} /\ thr[t].alloc \in BOOLEAN
    BY RegionIs, ThreadIs
  <1>4. CASE Found(r.at) = {}
    <2>1. ~Pinned(r)
      BY <1>1, <1>3, <1>4, FoundIs
    <2>2. pt'[r].refs = 1 /\ (pt'[r].alloc <=> thr[t].alloc) /\ \A s \in Region \ {r} : pt'[s] = pt[s]
      BY <1>1, <1>3, <1>4, InsertIs
    <2>3. lost' = lost
      BY <1>1, <1>4
    <2>4. r.at <= thr[t].at /\ thr'[t].at <= r.at + r.size
      BY <1>1, <1>2, <1>3
    <2> QED BY <1>1, <1>2, <1>4, <2>1, <2>2, <2>3, <2>4 DEF PinStep
  <1>5. CASE Found(r.at) # {}
    <2>1. PICK e : e \in Found(r.at)
      BY <1>5
    <2>2. Found(r.at) = {e} /\ e \in Region /\ Pinned(e) /\ e.at <= r.at /\ r.at < e.at + e.size
      BY <1>1, <2>1, FoundOne, FoundIs
    <2>3. r.at + r.size <= e.at + e.size
      <3>1. Meets(e, r.at, r.at + r.size)
        BY <1>3, <2>2, RegionIs DEF Meets
      <3> QED BY <1>1, <2>2, <3>1, RoomFor
    <2>4. /\ pt'[e].refs = pt[e].refs + 1 /\ (pt'[e].alloc <=> (pt[e].alloc /\ thr[t].alloc))
          /\ \A s \in Region \ {e} : pt'[s] = pt[s]
      <3>1. /\ \A s \in Region \ Found(r.at) : pt'[s] = pt[s]
            /\ \A s \in Region \intersect Found(r.at) :
                  pt'[s].refs = pt[s].refs + 1 /\ (pt'[s].alloc <=> (pt[s].alloc /\ thr[t].alloc))
        <4>1. PICK b \in BOOLEAN : b = thr[t].alloc
          BY <1>3
        <4>2. Insert(r, b)
          BY <1>1, <4>1
        <4>3. /\ \A s \in Region \ Found(r.at) : pt'[s] = pt[s]
              /\ \A s \in Region \intersect Found(r.at) :
                    pt'[s].refs = pt[s].refs + 1 /\ (pt'[s].alloc <=> (pt[s].alloc /\ b))
          BY <1>5, <4>2, InsertShared
        <4> QED BY <4>1, <4>3
      <3>2. e \in Region \intersect Found(r.at) /\ Region \ {e} = Region \ Found(r.at)
        BY <2>2
      <3>3. pt'[e].refs = pt[e].refs + 1 /\ (pt'[e].alloc <=> (pt[e].alloc /\ thr[t].alloc))
        BY <3>1, <3>2
      <3> QED BY <3>1, <3>2, <3>3
    <2>5. thr[t].alloc
      BY <1>1, <1>5
    <2>6. lost' = lost \union {s \in {e} : thr[t].alloc /\ Meets(s, thr[t].start, thr[t].at)}
      BY <1>1, <2>2, <2>5
    <2>7. e.at <= thr[t].at /\ thr'[t].at <= e.at + e.size
      BY <1>1, <1>2, <2>2, <2>3
    <2> QED BY <1>1, <1>2, <2>2, <2>4, <2>5, <2>6, <2>7 DEF PinStep
  <1> QED BY <1>4, <1>5

\* What such a step does to the other entries and to the ranges.
LEMMA PinStepIs ==
  ASSUME TypeOK, Shapes, Disjoint, NEW t \in Thread, NEW e \in Region, PinStep(t, e)
  PROVE  /\ Pinned(e)' /\ \A s \in Region : Pinned(s) => Pinned(s)'
         /\ \A s \in Region \ {e} : Pinned(s)' <=> Pinned(s)
         /\ \A s \in Region : Pinned(s) /\ s # e => e.at + e.size <= s.at \/ s.at + s.size <= e.at
         /\ Lo(t) = thr[t].start /\ Hi(t) = thr[t].at /\ Lo(t)' = thr[t].start /\ Hi(t)' = thr'[t].at
         /\ \A u \in Thread \ {t} : Lo(u)' = Lo(u) /\ Hi(u)' = Hi(u)
         /\ \A s \in Region \ {e} : Pinned(s) => (Meets(s, Lo(t)', Hi(t)') <=> Meets(s, Lo(t), Hi(t)))
         /\ Meets(e, Lo(t)', Hi(t)')
  <1>1. /\ thr[t].pc = "pin" /\ thr'[t].pc = "pin" /\ \A u \in Thread \ {t} : thr'[u] = thr[u]
        /\ thr'[t].start = thr[t].start /\ thr[t].at < thr'[t].at /\ thr'[t].at \in Nat
        /\ e.at <= thr[t].at /\ thr'[t].at <= e.at + e.size
        /\ \A s \in Region \ {e} : pt'[s] = pt[s]
    BY DEF PinStep
  <1>2. \/ Pinned(e) /\ pt'[e].refs = pt[e].refs + 1
        \/ ~Pinned(e) /\ Found(e.at) = {} /\ MayInsert(e) /\ pt'[e].refs = 1
    BY DEF PinStep
  <1>3. pt'[e].refs > 0
    <2>1. pt[e].refs + 1 > 0
      BY EntryIs
    <2> QED BY <1>2, <2>1
  <1>4. Pinned(e)' /\ \A s \in Region \ {e} : Pinned(s)' <=> Pinned(s)
    BY <1>1, <1>3 DEF Pinned
  <1>5. ASSUME NEW s \in Region, Pinned(s), s # e
        PROVE  e.at + e.size <= s.at \/ s.at + s.size <= e.at
    <2>1. CASE Pinned(e)
      BY <1>5, <2>1, Apart
    <2>2. CASE ~Pinned(e)
      <3>1. ~Meets(s, e.at, e.at + e.size)
        BY <1>2, <1>5, <2>2, RoomFor
      <3> QED BY <3>1, RegionIs DEF Meets
    <2> QED BY <2>1, <2>2
  <1>6. /\ Lo(t) = thr[t].start /\ Hi(t) = thr[t].at /\ Lo(t)' = thr[t].start /\ Hi(t)' = thr'[t].at
        /\ \A u \in Thread \ {t} : Lo(u)' = Lo(u) /\ Hi(u)' = Hi(u)
    BY <1>1 DEF Lo, Hi
  <1>7. /\ thr[t].start \in Nat /\ thr[t].at \in Nat /\ thr[t].start <= thr[t].at
    BY <1>1, ThreadIs, CallIs
  <1>8. ASSUME NEW s \in Region \ {e}, Pinned(s)
        PROVE  Meets(s, Lo(t)', Hi(t)') <=> Meets(s, Lo(t), Hi(t))
    <2>1. e.at + e.size <= s.at \/ s.at + s.size <= e.at
      BY <1>5, <1>8
    <2>2. Meets(s, thr[t].start, thr'[t].at) <=> Meets(s, thr[t].start, thr[t].at)
      BY <1>1, <1>7, <2>1, Grow
    <2> QED BY <1>6, <2>2
  <1>9. Meets(e, thr[t].start, thr'[t].at)
    BY <1>1, <1>7, RegionIs DEF Meets
  <1> QED BY <1>4, <1>5, <1>6, <1>8, <1>9

-----------------------------------------------------------------------------
(* The counts.                                                             *)

\* The users after a step that leaves the buffers alone.
LEMMA UsersMove ==
  ASSUME TypeOK, Shapes, NEW t \in Thread, NEW r \in Region,
         \A u \in Thread \ {t} : thr'[u] = thr[u], bufs' = bufs
  PROVE  /\ Users(r) \in Nat /\ Users(r)' \in Nat
         /\ (Meets(r, Lo(t), Hi(t)) <=> Meets(r, Lo(t)', Hi(t)')) => Users(r)' = Users(r)
         /\ ~Meets(r, Lo(t), Hi(t)) /\ Meets(r, Lo(t)', Hi(t)') => Users(r)' = Users(r) + 1
         /\ Meets(r, Lo(t), Hi(t)) /\ ~Meets(r, Lo(t)', Hi(t)') => Users(r)' = Users(r) - 1
  <1>1. /\ Cardinality(Sharers(r)) \in Nat /\ Cardinality(Callers(r)) \in Nat
        /\ Users(r) = Cardinality(Sharers(r)) + Cardinality(Callers(r))
    BY UsersIs
  <1>2. Users(r)' = Cardinality(Sharers(r)) + Cardinality(Callers(r)')
    <2>1. Users(r)' = Cardinality(Sharers(r)') + Cardinality(Callers(r)')
      BY DEF Users, Sharers, Callers
    <2>2. Sharers(r)' = Sharers(r)
      BY DEF Sharers, Sharing, Copies, Meets
    <2> QED BY <2>1, <2>2
  <1>3. /\ InCall(r, t) <=> Meets(r, Lo(t), Hi(t))
        /\ InCall(r, t)' <=> Meets(r, Lo(t)', Hi(t)')
    BY InCallIs
  <1>4. /\ Cardinality(Callers(r)) \in Nat /\ Cardinality(Callers(r)') \in Nat
        /\ InCall(r, t) /\ InCall(r, t)' => Cardinality(Callers(r)') = Cardinality(Callers(r))
        /\ ~InCall(r, t) /\ ~InCall(r, t)' => Cardinality(Callers(r)') = Cardinality(Callers(r))
        /\ ~InCall(r, t) /\ InCall(r, t)' => Cardinality(Callers(r)') = Cardinality(Callers(r)) + 1
        /\ InCall(r, t) /\ ~InCall(r, t)' => Cardinality(Callers(r)') = Cardinality(Callers(r)) - 1
    BY CallersMove
  <1> DEFINE s == Cardinality(Sharers(r))
             c == Cardinality(Callers(r))
             d == Cardinality(Callers(r)')
  <1> HIDE DEF s, c, d
  <1>5. s \in Nat /\ c \in Nat /\ d \in Nat /\ Users(r) = s + c /\ Users(r)' = s + d
    BY <1>1, <1>2, <1>4 DEF s, c, d
  <1>6. /\ (InCall(r, t) <=> InCall(r, t)') => d = c
        /\ ~InCall(r, t) /\ InCall(r, t)' => d = c + 1
        /\ InCall(r, t) /\ ~InCall(r, t)' => d = c - 1
    BY <1>4 DEF s, c, d
  <1> QED BY <1>3, <1>5, <1>6

\* An entry that a call alone counts on is no buffer's and no other call's.
LEMMA LastUser ==
  ASSUME TypeOK, Shapes, Counts, NEW t \in Thread, NEW r \in Region, Pinned(r), pt[r].refs = 1,
         Meets(r, Lo(t), Hi(t))
  PROVE  /\ \A d \in BagToSet(bufs) : ~Meets(r, d.start, EndOf(d))
         /\ \A u \in Thread \ {t} : ~Meets(r, Lo(u), Hi(u))
  <1> DEFINE C == Callers(r)
             S == Sharers(r)
  <1>1. IsFiniteSet(S) /\ IsFiniteSet(C) /\ Cardinality(S) \in Nat /\ Cardinality(C) \in Nat
        /\ Cardinality(S) + Cardinality(C) <= 1
    <2>1. pt[r].refs >= Users(r)
      BY DEF Counts
    <2> QED BY <2>1, UsersIs
  <1>2. t \in C
    BY InCallIs DEF Callers
  <1>3. \A u \in Thread : Meets(r, Lo(u), Hi(u)) => u \in C
    BY InCallIs DEF Callers
  <1>4. \A d \in BagToSet(bufs) : Meets(r, d.start, EndOf(d)) => <<d, 1>> \in S
    <2> SUFFICES ASSUME NEW d \in BagToSet(bufs), Meets(r, d.start, EndOf(d)) PROVE <<d, 1>> \in S
      OBVIOUS
    <2>1. d \in Sharing(r)
      BY DEF Sharing, EndOf
    <2>2. bufs[d] \in Nat \ {0}
      BY BagsType DEF IsABag, BagToSet
    <2>3. 1 \in 1 .. bufs[d]
      BY <2>2
    <2> QED BY <2>1, <2>3, CopiesWithin DEF Sharers
  <1> HIDE DEF C, S
  <1>5. Cardinality(C) # 0
    BY <1>1, <1>2, FS_EmptySet
  <1>6. Cardinality(C) = 1 /\ Cardinality(S) = 0
    BY <1>1, <1>5
  <1>7. S = {}
    BY <1>1, <1>6, FS_EmptySet
  <1>8. PICK x : C = {x}
    BY <1>1, <1>6, FS_Singleton
  <1> QED BY <1>2, <1>3, <1>4, <1>7, <1>8

\* In the table, so counted.
LEMMA CountsIs ==
  ASSUME Counts, NEW r \in Region, Pinned(r)
  PROVE  pt[r].refs >= Users(r) /\ (r \notin lost => pt[r].refs = Users(r))
  BY DEF Counts

LEMMA ThreadNext ==
  ASSUME TypeOK', NEW t \in Thread
  PROVE  /\ thr'[t].at \in Nat /\ thr'[t].end \in Nat /\ thr'[t].start \in Nat
         /\ thr'[t].vaddr \in Nat /\ thr'[t].len \in Nat
         /\ Lo(t)' \in Nat /\ Hi(t)' \in Nat
  <1>1. thr'[t] \in Activity
    BY DEF TypeOK
  <1>2. /\ thr'[t].at \in Nat /\ thr'[t].end \in Nat /\ thr'[t].start \in Address
        /\ thr'[t].vaddr \in Address /\ thr'[t].len \in Lengths \union {0}
    BY <1>1 DEF Activity
  <1>3. thr'[t].start \in Nat /\ thr'[t].vaddr \in Nat /\ thr'[t].len \in Nat
    BY <1>2, AddressIs, LengthIs
  <1>4. Lo(t)' \in Nat /\ Hi(t)' \in Nat
    BY <1>2, <1>3 DEF Lo, Hi
  <1> QED BY <1>2, <1>3, <1>4

LEMMA QuietCounts ==
  ASSUME TypeOK, Shapes, Counts, NEW t \in Thread, Quiet(t), TypeOK'
  PROVE  Counts'
  <1>1. /\ pt' = pt /\ bufs' = bufs /\ lost \subseteq lost' /\ \A u \in Thread \ {t} : thr'[u] = thr[u]
        /\ thr'[t].pc = "pin" => thr'[t].at = thr'[t].start /\ thr'[t].at <= thr'[t].end
        /\ \/ Lo(t)' = Lo(t) /\ Hi(t)' = Hi(t)
           \/ Hi(t)' <= Lo(t)' /\ \A r \in Region : Pinned(r) /\ Meets(r, Lo(t), Hi(t)) => r \in lost'
    BY DEF Quiet
  <1>2. ASSUME NEW r \in Region, Pinned(r)'
        PROVE  pt'[r].refs >= Users(r)' /\ (r \notin lost' => pt'[r].refs = Users(r)')
    <2>1. Pinned(r) /\ pt'[r].refs = pt[r].refs /\ pt[r].refs \in Nat
      BY <1>1, <1>2, EntryIs DEF Pinned
    <2>2. pt[r].refs >= Users(r) /\ (r \notin lost => pt[r].refs = Users(r))
      BY <2>1, CountsIs
    <2>3. /\ Users(r) \in Nat /\ Users(r)' \in Nat
          /\ (Meets(r, Lo(t), Hi(t)) <=> Meets(r, Lo(t)', Hi(t)')) => Users(r)' = Users(r)
          /\ Meets(r, Lo(t), Hi(t)) /\ ~Meets(r, Lo(t)', Hi(t)') => Users(r)' = Users(r) - 1
      BY <1>1, UsersMove
    <2>4. CASE Lo(t)' = Lo(t) /\ Hi(t)' = Hi(t)
      BY <1>1, <2>1, <2>2, <2>3, <2>4
    <2>5. CASE Hi(t)' <= Lo(t)' /\ (Meets(r, Lo(t), Hi(t)) => r \in lost')
      <3>1. ~Meets(r, Lo(t)', Hi(t)')
        <4>1. Lo(t)' \in Nat /\ Hi(t)' \in Nat
          BY ThreadNext
        <4>2. ~(Lo(t)' < Hi(t)')
          BY <2>5, <4>1
        <4> QED BY <4>2 DEF Meets
      <3> QED BY <1>1, <2>1, <2>2, <2>3, <2>5, <3>1
    <2> QED BY <1>1, <2>1, <2>4, <2>5
  <1>3. ASSUME NEW u \in Thread PROVE OneEntry(u)'
    <2>1. CASE u # t
      <3>1. OneEntry(u) /\ thr'[u] = thr[u]
        BY <1>1, <2>1 DEF Counts
      <3> QED BY <1>1, <3>1 DEF OneEntry, Pinned, Meets
    <2>2. CASE u = t
      <3>1. thr'[t].at \in Nat /\ thr'[t].end \in Nat /\ thr'[t].start \in Nat
        BY ThreadNext
      <3>2. thr'[t].pc = "pin" => ~(thr'[t].end < thr'[t].at) /\ ~(thr'[t].start < thr'[t].at)
        BY <1>1, <3>1
      <3>3. \A r \in Region : thr'[t].pc = "pin" => ~Meets(r, thr'[t].start, thr'[t].at)
        BY <3>2 DEF Meets
      <3> QED BY <2>2, <3>2, <3>3 DEF OneEntry, Meets
    <2> QED BY <2>1, <2>2
  <1> QED BY <1>2, <1>3 DEF Counts

\* The regions that an address lies in.
LEMMA InAt ==
  ASSUME NEW a \in Address, NEW r
  PROVE  r \in {At(a, Small), At(a, Large)} <=> r \in Region /\ r.at <= a /\ a < r.at + r.size
  <1>1. a \in Nat
    BY AddressIs
  <1>2. r \in {At(a, Small), At(a, Large)} => r \in Region /\ r.at <= a /\ a < r.at + r.size
    BY AtIs, RegionIs
  <1>3. ASSUME r \in Region, r.at <= a, a < r.at + r.size
        PROVE  r \in {At(a, Small), At(a, Large)}
    <2>1. r.at \in Nat /\ r.size \in {Small, Large} /\ Aligned(r.at, r.size) /\ r.size \in Nat \ {0}
          /\ r = [at |-> r.at, size |-> r.size]
      BY <1>3, RegionIs
    <2>2. r.at = Down(a, r.size)
      BY <1>1, <1>3, <2>1, DownUnique
    <2> QED BY <2>1, <2>2 DEF At
  <1> QED BY <1>2, <1>3

LEMMA FoundNext ==
  ASSUME NEW a \in Address, NEW r
  PROVE  r \in Found(a)' <=> r \in Region /\ Pinned(r)' /\ r.at <= a /\ a < r.at + r.size
  BY InAt DEF Found

LEMMA CoveredMoved ==
  ASSUME NEW u \in Thread, NEW from \in Nat, NEW end \in Nat, Lo(u)' = from, Hi(u)' = end,
         Covered(from, end)'
  PROVE  Covered(Lo(u), Hi(u))'
  BY DEF Covered

\* The ranges of the calls that do not move.
LEMMA OtherCovered ==
  ASSUME TypeOK, Shapes, AllCovered, NEW u \in Thread, Lo(u)' = Lo(u), Hi(u)' = Hi(u),
         \A s \in Region : Pinned(s) /\ Meets(s, Lo(u), Hi(u)) => Pinned(s)'
  PROVE  Covered(Lo(u), Hi(u))'
  <1> DEFINE from == Lo(u)
             end  == Hi(u)
  <1>1. from \in Nat /\ end \in Nat /\ end <= Units
    BY CallRange
  <1>2. Covered(from, end)
    BY DEF AllCovered
  <1>3. \A s \in Region : Pinned(s) /\ Meets(s, from, end) => Pinned(s)'
    OBVIOUS
  <1>4. PICK x, y : x = from /\ y = end
    OBVIOUS
  <1> HIDE DEF from, end
  <1>5. Covered(x, y)'
    BY <1>1, <1>2, <1>3, <1>4, CoveredKept
  <1> QED BY <1>1, <1>4, <1>5, CoveredMoved DEF from, end

LEMMA BuffersCovered ==
  ASSUME TypeOK, Shapes, AllCovered, NEW d \in BagToSet(bufs),
         \A s \in Region : Pinned(s) /\ Meets(s, d.start, EndOf(d)) => Pinned(s)'
  PROVE  Covered(d.start, EndOf(d))'
  <1>1. d.start \in Nat /\ EndOf(d) \in Nat /\ EndOf(d) <= Units
    BY DescIs, DescShapeIs
  <1>2. Covered(d.start, EndOf(d))
    BY DEF AllCovered
  <1>3. PICK x, y : x = d.start /\ y = EndOf(d)
    OBVIOUS
  <1>4. Covered(x, y)'
    BY <1>1, <1>2, <1>3, CoveredKept
  <1>5. EndOf(d)' = EndOf(d)
    BY DEF EndOf
  <1> QED BY <1>3, <1>4, <1>5

LEMMA QuietCovered ==
  ASSUME TypeOK, Shapes, AllCovered, NEW t \in Thread, Quiet(t), TypeOK'
  PROVE  AllCovered'
  <1>1. /\ UNCHANGED <<pt, bufs>> /\ \A u \in Thread \ {t} : thr'[u] = thr[u]
        /\ \/ Lo(t)' = Lo(t) /\ Hi(t)' = Hi(t)
           \/ Hi(t)' <= Lo(t)'
    BY DEF Quiet
  <1>2. \A s \in Region : Pinned(s) => Pinned(s)'
    BY <1>1 DEF Pinned
  <1>3. ASSUME NEW d \in BagToSet(bufs) PROVE Covered(d.start, EndOf(d))'
    BY <1>2, BuffersCovered
  <1>4. ASSUME NEW u \in Thread PROVE Covered(Lo(u), Hi(u))'
    <2>1. CASE Lo(u)' = Lo(u) /\ Hi(u)' = Hi(u)
      BY <1>2, <2>1, OtherCovered
    <2>2. CASE Hi(u)' <= Lo(u)'
      <3>1. Lo(u)' \in Nat /\ Hi(u)' \in Nat
        BY ThreadNext
      <3>2. ~\E x : x \in Lo(u)' .. Hi(u)' - 1
        BY <2>2, <3>1
      <3>3. Pages(Lo(u)', Hi(u)') = {}
        BY <3>2 DEF Pages
      <3> QED BY <3>3 DEF Covered, Pages
    <2>3. u # t => Lo(u)' = Lo(u) /\ Hi(u)' = Hi(u)
      BY <1>1 DEF Lo, Hi
    <2> QED BY <1>1, <2>1, <2>2, <2>3
  <1>5. BagToSet(bufs)' = BagToSet(bufs)
    BY <1>1
  <1> QED BY <1>3, <1>4, <1>5 DEF AllCovered, EndOf

LEMMA PinStepCovered ==
  ASSUME TypeOK, Shapes, Disjoint, AllCovered, NEW t \in Thread, NEW e \in Region, PinStep(t, e), TypeOK'
  PROVE  AllCovered'
  <1>1. /\ Pinned(e)' /\ \A s \in Region : Pinned(s) => Pinned(s)'
        /\ Lo(t) = thr[t].start /\ Hi(t) = thr[t].at /\ Lo(t)' = thr[t].start /\ Hi(t)' = thr'[t].at
        /\ \A u \in Thread \ {t} : Lo(u)' = Lo(u) /\ Hi(u)' = Hi(u)
    BY PinStepIs
  <1>2. /\ thr[t].pc = "pin" /\ thr[t].at < thr'[t].at /\ thr'[t].at \in Nat /\ bufs' = bufs
        /\ e.at <= thr[t].at /\ thr'[t].at <= e.at + e.size
    BY DEF PinStep
  <1>3. ASSUME NEW d \in BagToSet(bufs) PROVE Covered(d.start, EndOf(d))'
    BY <1>1, BuffersCovered
  <1>4. ASSUME NEW u \in Thread \ {t} PROVE Covered(Lo(u), Hi(u))'
    BY <1>1, OtherCovered
  <1>5. Covered(Lo(t), Hi(t))'
    <2>1. PICK from, at, end : from = thr[t].start /\ at = thr[t].at /\ end = thr'[t].at
      OBVIOUS
    <2>2. /\ from \in Nat /\ at \in Nat /\ end \in Nat /\ Aligned(from, Small) /\ from <= at
      BY <1>2, <2>1, ThreadIs, CallIs
    <2>3. e.at \in Nat /\ e.size \in Nat /\ e.at + e.size <= Units
      BY RegionIs
    <2>4. end <= Units /\ at <= Units
      <3>1. at < end /\ end <= e.at + e.size
        BY <1>2, <2>1
      <3> QED BY <2>2, <2>3, <3>1, Sizes
    <2>5. Covered(from, at)
      BY <1>1, <2>1 DEF AllCovered
    <2>6. ASSUME NEW p \in Pages(from, end) PROVE Found(p)' # {}
      <3>1. p \in Page /\ from <= p /\ p < end /\ p \in Nat /\ p \in Address
        BY <2>2, <2>4, PagesIn, PageIs, AddressIs
      <3>2. CASE p < at
        <4>1. PICK s \in Region : Pinned(s) /\ s.at <= p /\ p < s.at + s.size
          BY <2>2, <2>4, <2>5, <3>1, <3>2, CoveredIs
        <4>2. s \in Found(p)'
          BY <1>1, <3>1, <4>1, FoundNext
        <4> QED BY <4>2
      <3>3. CASE ~(p < at)
        <4>1. e.at <= p /\ p < e.at + e.size
          BY <1>2, <2>1, <2>2, <2>3, <3>1, <3>3
        <4>2. e \in Found(p)'
          BY <1>1, <3>1, <4>1, FoundNext
        <4> QED BY <4>2
      <3> QED BY <3>2, <3>3
    <2>7. Covered(from, end)'
      BY <2>6 DEF Covered
    <2> QED BY <1>1, <2>1, <2>2, <2>7, CoveredMoved
  <1> QED BY <1>2, <1>3, <1>4, <1>5 DEF AllCovered, EndOf

\* A call's range gets smaller, or empty.
LEMMA LessCovered ==
  ASSUME TypeOK, Shapes, AllCovered, TypeOK', NEW u \in Thread,
         \/ Hi(u)' <= Lo(u)'
         \/ /\ Lo(u) <= Lo(u)' /\ Hi(u)' = Hi(u)
            /\ \A s \in Region : Pinned(s) /\ Meets(s, Lo(u)', Hi(u)') => Pinned(s)'
  PROVE  Covered(Lo(u), Hi(u))'
  <1>1. Lo(u)' \in Nat /\ Hi(u)' \in Nat /\ Lo(u) \in Nat /\ Hi(u) \in Nat /\ Hi(u) <= Units
    BY ThreadNext, CallRange
  <1>2. CASE Hi(u)' <= Lo(u)'
    <2>1. ~\E x : x \in Lo(u)' .. Hi(u)' - 1
      BY <1>1, <1>2
    <2>2. Pages(Lo(u)', Hi(u)') = {}
      BY <2>1 DEF Pages
    <2> QED BY <2>2 DEF Covered, Pages
  <1>3. CASE /\ Lo(u) <= Lo(u)' /\ Hi(u)' = Hi(u)
             /\ \A s \in Region : Pinned(s) /\ Meets(s, Lo(u)', Hi(u)') => Pinned(s)'
    <2>1. PICK from, from2, end : from = Lo(u) /\ from2 = Lo(u)' /\ end = Hi(u)
      OBVIOUS
    <2>2. Covered(from, end)
      BY <2>1 DEF AllCovered
    <2>3. Covered(from2, end)
      BY <1>1, <1>3, <2>1, <2>2, CoveredPart
    <2>4. \A s \in Region : Pinned(s) /\ Meets(s, from2, end) => Pinned(s)'
      BY <1>3, <2>1
    <2>5. Covered(from2, end)'
      BY <1>1, <2>1, <2>3, <2>4, CoveredKept
    <2> QED BY <1>1, <1>3, <2>1, <2>5, CoveredMoved
  <1> QED BY <1>2, <1>3

LEMMA TrackCovered ==
  ASSUME TypeOK, Shapes, AllCovered, NEW t \in Thread, Track(t), TypeOK'
  PROVE  AllCovered'
  <1>0. PICK d : d = Descriptor(t)
    OBVIOUS
  <1>1. /\ thr[t].pc = "pin" /\ thr[t].end <= thr[t].at /\ bufs' = BagAdd(bufs, d)
        /\ thr' = [thr EXCEPT ![t] = Idle] /\ pt' = pt /\ wedged' = wedged
        /\ d.start = thr[t].start /\ EndOf(d) = thr[t].vaddr + thr[t].len
    BY <1>0, TrackIs
  <1>2. thr'[t] = Idle /\ \A u \in Thread \ {t} : thr'[u] = thr[u]
    BY <1>1, ToIdle
  <1>3. \A s \in Region : Pinned(s) => Pinned(s)'
    BY <1>1 DEF Pinned
  <1>4. BagToSet(bufs') = BagToSet(bufs) \union {d}
    BY <1>1, BagsType, BagAddIs
  <1>5. Covered(d.start, EndOf(d))'
    <2>1. PICK from, end, at : from = d.start /\ end = EndOf(d) /\ at = thr[t].at
      OBVIOUS
    <2>2. /\ from \in Nat /\ end \in Nat /\ at \in Nat /\ end <= at /\ at <= Units
      <3>1. thr[t].vaddr + thr[t].len <= thr[t].end /\ thr[t].at <= Units
        BY <1>1 DEF Shapes, CallShape
      <3> QED BY <1>1, <2>1, <3>1, ThreadIs
    <2>3. Covered(from, at)
      BY <1>1, <2>1 DEF AllCovered, Lo, Hi
    <2>4. Covered(from, end)
      BY <2>2, <2>3, CoveredPart
    <2>5. end <= Units
      BY <2>2, Sizes
    <2>6. Covered(from, end)'
      BY <1>3, <2>2, <2>4, <2>5, CoveredKept
    <2>7. EndOf(d)' = EndOf(d)
      BY DEF EndOf
    <2> QED BY <2>1, <2>6, <2>7
  <1>6. ASSUME NEW e \in BagToSet(bufs) PROVE Covered(e.start, EndOf(e))'
    BY <1>3, BuffersCovered
  <1>7. ASSUME NEW u \in Thread PROVE Covered(Lo(u), Hi(u))'
    <2>1. u # t => Lo(u)' = Lo(u) /\ Hi(u)' = Hi(u)
      BY <1>2 DEF Lo, Hi
    <2>2. Lo(t)' = 0 /\ Hi(t)' = 0
      BY <1>2, IdleAfter
    <2>3. CASE u # t
      BY <1>3, <2>1, <2>3, OtherCovered
    <2>4. CASE u = t
      <3>1. Hi(u)' <= Lo(u)'
        BY <2>2, <2>4
      <3> QED BY <3>1, LessCovered
    <2> QED BY <2>3, <2>4
  <1>8. \A e \in BagToSet(bufs)' : Covered(e.start, EndOf(e))'
    BY <1>4, <1>5, <1>6
  <1> QED BY <1>7, <1>8 DEF AllCovered

LEMMA ReleaseCovered ==
  ASSUME TypeOK, Shapes, AllCovered, NEW t \in Thread, NEW h \in BagToSet(held), Release(t, h), TypeOK'
  PROVE  AllCovered'
  <1>1. PICK d \in BagToSet(bufs), me \in Activity :
            /\ bufs' = BagRemove(bufs, d) /\ thr' = [thr EXCEPT ![t] = me]
            /\ me.pc = "remove" /\ me.at = d.start /\ me.end = EndOf(d) /\ pt' = pt
    BY ReleaseIs
  <1>2. thr'[t] = me /\ \A u \in Thread \ {t} : thr'[u] = thr[u]
    BY <1>1, ThreadMoves
  <1>3. \A s \in Region : Pinned(s) => Pinned(s)'
    BY <1>1 DEF Pinned
  <1>4. BagToSet(bufs)' \subseteq BagToSet(bufs)
    BY <1>1, BagsType, BagRemoveIs
  <1>5. ASSUME NEW e \in BagToSet(bufs) PROVE Covered(e.start, EndOf(e))'
    BY <1>3, BuffersCovered
  <1>6. Lo(t)' = d.start /\ Hi(t)' = EndOf(d)
    BY <1>1, <1>2 DEF Lo, Hi
  <1>7. Covered(Lo(t), Hi(t))'
    <2>1. PICK from, end : from = d.start /\ end = EndOf(d)
      OBVIOUS
    <2>2. from \in Nat /\ end \in Nat
      BY <2>1, DescIs
    <2>3. EndOf(d)' = EndOf(d)
      BY DEF EndOf
    <2>4. Covered(from, end)'
      BY <1>5, <2>1, <2>3
    <2> QED BY <1>6, <2>1, <2>2, <2>4, CoveredMoved
  <1>8. ASSUME NEW u \in Thread, u # t PROVE Covered(Lo(u), Hi(u))'
    <2>1. Lo(u)' = Lo(u) /\ Hi(u)' = Hi(u)
      BY <1>2, <1>8 DEF Lo, Hi
    <2> QED BY <1>3, <2>1, OtherCovered
  <1>9. \A e \in BagToSet(bufs)' : Covered(e.start, EndOf(e))'
    BY <1>4, <1>5
  <1> QED BY <1>7, <1>8, <1>9 DEF AllCovered

\* What a release takes from an entry, and the ranges after it.
LEMMA TakingRange ==
  ASSUME TypeOK, Disjoint, NEW t \in Thread, NEW r \in Region, NEW me \in Activity,
         Taking(t, r, me), TakesOne(t, r, me) \/ TakesLast(t, r, me)
  PROVE  /\ thr'[t] = me /\ \A u \in Thread \ {t} : thr'[u] = thr[u]
         /\ Lo(t) = thr[t].at /\ Hi(t) = thr[t].end /\ Lo(t)' = thr[t].at + r.size /\ Hi(t)' = thr[t].end
         /\ \A u \in Thread \ {t} : Lo(u)' = Lo(u) /\ Hi(u)' = Hi(u)
         /\ Meets(r, Lo(t), Hi(t)) /\ ~Meets(r, Lo(t)', Hi(t)')
         /\ \A s \in Region \ {r} : Pinned(s) =>
               /\ Meets(s, Lo(t)', Hi(t)') => Meets(s, Lo(t), Hi(t))
               /\ Meets(s, Lo(t), Hi(t)) /\ ~Meets(s, Lo(t)', Hi(t)') <=> s \in Stepped(t, r)
         /\ r \notin Stepped(t, r)
  <1>1. /\ thr[t].pc = "remove" /\ thr[t].at < thr[t].end
        /\ Pinned(r) /\ r.at <= thr[t].at /\ thr[t].at < r.at + r.size
        /\ thr' = [thr EXCEPT ![t] = me]
        /\ me.at = thr[t].at + r.size /\ me.end = thr[t].end
    BY DEF Taking
  <1>2. me.pc \in {"remove", "unmap", "inval"}
    BY DEF TakesOne, TakesLast, AfterPage
  <1>3. thr'[t] = me /\ \A u \in Thread \ {t} : thr'[u] = thr[u]
    BY <1>1, ThreadMoves
  <1>4. /\ Lo(t) = thr[t].at /\ Hi(t) = thr[t].end /\ Lo(t)' = thr[t].at + r.size /\ Hi(t)' = thr[t].end
        /\ \A u \in Thread \ {t} : Lo(u)' = Lo(u) /\ Hi(u)' = Hi(u)
    BY <1>1, <1>2, <1>3 DEF Lo, Hi
  <1>5. thr[t].at \in Nat /\ thr[t].end \in Nat
    BY ThreadIs
  <1>6. /\ Meets(r, thr[t].at, thr[t].end) /\ ~Meets(r, thr[t].at + r.size, thr[t].end)
        /\ \A s \in Region : Pinned(s) /\ s # r =>
              /\ Meets(s, thr[t].at + r.size, thr[t].end) => Meets(s, thr[t].at, thr[t].end)
              /\ Meets(s, thr[t].at, thr[t].end) /\ ~Meets(s, thr[t].at + r.size, thr[t].end) <=>
                    s \in Stepped(t, r)
        /\ r \notin Stepped(t, r)
    BY <1>1, <1>5, Shrink DEF Stepped
  <1> QED BY <1>3, <1>4, <1>6

LEMMA RemovePageCovered ==
  ASSUME TypeOK, Shapes, Disjoint, AllCovered, Counts, NEW t \in Thread, RemovePage(t), TypeOK'
  PROVE  AllCovered'
  <1>1. PICK r \in Region, me \in Activity : Taking(t, r, me) /\ (TakesOne(t, r, me) \/ TakesLast(t, r, me))
    BY RemovePageIs
  <1>2. /\ Lo(t) = thr[t].at /\ Hi(t) = thr[t].end /\ Lo(t)' = thr[t].at + r.size /\ Hi(t)' = thr[t].end
        /\ \A u \in Thread \ {t} : Lo(u)' = Lo(u) /\ Hi(u)' = Hi(u)
        /\ Meets(r, Lo(t), Hi(t)) /\ ~Meets(r, Lo(t)', Hi(t)')
    BY <1>1, TakingRange
  <1>3. /\ \A s \in Region \ {r} : Pinned(s)' <=> Pinned(s)
        /\ Pinned(r)' <=> pt[r].refs # 1
    BY <1>1, TakingPinned
  <1>4. Pinned(r) /\ bufs' = bufs
    BY <1>1 DEF Taking
  <1>5. ASSUME NEW d \in BagToSet(bufs) PROVE Covered(d.start, EndOf(d))'
    <2>1. pt[r].refs = 1 => ~Meets(r, d.start, EndOf(d))
      BY <1>2, <1>4, LastUser
    <2> QED BY <1>3, <2>1, BuffersCovered
  <1>6. ASSUME NEW u \in Thread \ {t} PROVE Covered(Lo(u), Hi(u))'
    <2>1. pt[r].refs = 1 => ~Meets(r, Lo(u), Hi(u))
      BY <1>2, <1>4, LastUser
    <2> QED BY <1>2, <1>3, <2>1, OtherCovered
  <1>7. Covered(Lo(t), Hi(t))'
    <2>1. Lo(t) <= Lo(t)'
      BY <1>2, ThreadIs, RegionIs
    <2> QED BY <1>2, <1>3, <2>1, LessCovered
  <1> QED BY <1>4, <1>5, <1>6, <1>7 DEF AllCovered, EndOf

\* Nobody counts on an entry that is not in the table.
LEMMA NoUsers ==
  ASSUME TypeOK, Shapes, AllCovered, NEW r \in Region, MayInsert(r), Found(r.at) = {}
  PROVE  /\ Users(r) = 0
         /\ \A t \in Thread : ~Meets(r, Lo(t), Hi(t))
         /\ \A d \in BagToSet(bufs) : ~Meets(r, d.start, EndOf(d))
  <1>1. ASSUME NEW d \in BagToSet(bufs) PROVE ~Meets(r, d.start, EndOf(d))
    <2>1. d.start \in Nat /\ EndOf(d) \in Nat /\ EndOf(d) <= Units /\ Aligned(d.start, Small)
      BY DescIs, DescShapeIs
    <2>2. Covered(d.start, EndOf(d))
      BY DEF AllCovered
    <2> QED BY <2>1, <2>2, Fresh
  <1>2. ASSUME NEW t \in Thread PROVE ~Meets(r, Lo(t), Hi(t))
    <2>1. Lo(t) \in Nat /\ Hi(t) \in Nat /\ Hi(t) <= Units /\ (Lo(t) < Hi(t) => Aligned(Lo(t), Small))
      BY CallRange
    <2>2. Covered(Lo(t), Hi(t))
      BY DEF AllCovered
    <2> QED BY <2>1, <2>2, Fresh
  <1>3. Sharing(r) = {}
    BY <1>1 DEF Sharing, EndOf
  <1>4. Sharers(r) = {}
    BY <1>3 DEF Sharers, Copies
  <1>5. Callers(r) = {}
    BY <1>2, InCallIs DEF Callers
  <1>6. Cardinality(Sharers(r)) = 0 /\ Cardinality(Callers(r)) = 0
    BY <1>4, <1>5, FS_EmptySet
  <1> QED BY <1>1, <1>2, <1>6, UsersIs

\* The call that is no part of a step.
LEMMA OtherOne ==
  ASSUME TypeOK, Shapes, AllCovered, Counts, NEW u \in Thread, thr'[u] = thr[u],
         \A s \in Region : Pinned(s) /\ Meets(s, Lo(u), Hi(u)) => Pinned(s)',
         \A s \in Region : Pinned(s)' /\ ~Pinned(s) => ~Meets(s, Lo(u), Hi(u))
  PROVE  OneEntry(u)'
  <1> SUFFICES ASSUME thr[u].pc = "pin" PROVE OneEntry(u)'
    BY DEF OneEntry
  <1>1. Lo(u) = thr[u].start /\ Hi(u) = thr[u].at
    BY DEF Lo, Hi
  <1>2. /\ thr[u].end < thr[u].at =>
              \E r \in Region : Pinned(r) /\ r.at < thr[u].end /\ thr[u].at <= r.at + r.size
        /\ \A r \in Region : Pinned(r) /\ Meets(r, thr[u].start, thr[u].at) /\ thr[u].at < r.at + r.size =>
              thr[u].alloc
    BY DEF Counts, OneEntry
  <1>3. ASSUME thr[u].end < thr[u].at
        PROVE  \E r \in Region : Pinned(r)' /\ r.at < thr[u].end /\ thr[u].at <= r.at + r.size
    <2>1. PICK r \in Region : Pinned(r) /\ r.at < thr[u].end /\ thr[u].at <= r.at + r.size
      BY <1>2, <1>3
    <2>2. /\ thr[u].start \in Nat /\ thr[u].at \in Nat /\ thr[u].end \in Nat
          /\ thr[u].vaddr \in Nat /\ thr[u].len \in Nat \ {0}
          /\ thr[u].start <= thr[u].vaddr /\ thr[u].vaddr + thr[u].len <= thr[u].end
      BY ThreadIs, CallIs
    <2>3. Meets(r, thr[u].start, thr[u].at)
      BY <1>3, <2>1, <2>2, RegionIs DEF Meets
    <2>4. Pinned(r)'
      BY <1>1, <2>1, <2>3
    <2> QED BY <2>1, <2>4
  <1>4. ASSUME NEW r \in Region, Pinned(r)', Meets(r, thr[u].start, thr[u].at), thr[u].at < r.at + r.size
        PROVE  thr[u].alloc
    <2>1. Pinned(r)
      BY <1>1, <1>4
    <2> QED BY <1>2, <1>4, <2>1
  <1> QED BY <1>3, <1>4 DEF OneEntry, Meets

LEMMA PinStepCounts ==
  ASSUME TypeOK, Shapes, Disjoint, AllCovered, Counts, NEW t \in Thread, NEW e \in Region, PinStep(t, e)
  PROVE  Counts'
  <1>1. /\ Pinned(e)' /\ \A s \in Region : Pinned(s) => Pinned(s)'
        /\ \A s \in Region \ {e} : Pinned(s)' <=> Pinned(s)
        /\ \A s \in Region : Pinned(s) /\ s # e => e.at + e.size <= s.at \/ s.at + s.size <= e.at
        /\ Lo(t) = thr[t].start /\ Hi(t) = thr[t].at /\ Lo(t)' = thr[t].start /\ Hi(t)' = thr'[t].at
        /\ \A s \in Region \ {e} : Pinned(s) => (Meets(s, Lo(t)', Hi(t)') <=> Meets(s, Lo(t), Hi(t)))
        /\ Meets(e, Lo(t)', Hi(t)')
    BY PinStepIs
  <1>2. /\ thr[t].pc = "pin" /\ thr'[t].pc = "pin" /\ \A u \in Thread \ {t} : thr'[u] = thr[u]
        /\ thr'[t].start = thr[t].start /\ thr'[t].end = thr[t].end /\ (thr'[t].alloc <=> thr[t].alloc)
        /\ thr[t].at < thr[t].end /\ thr[t].at < thr'[t].at /\ thr'[t].at \in Nat
        /\ e.at <= thr[t].at /\ thr'[t].at <= e.at + e.size
        /\ thr[t].alloc \/ thr'[t].at = e.at + e.size
        /\ \A s \in Region \ {e} : pt'[s] = pt[s]
        /\ bufs' = bufs
    BY DEF PinStep
  <1>3. \/ /\ Pinned(e) /\ pt'[e].refs = pt[e].refs + 1
           /\ lost' = lost \union {s \in {e} : thr[t].alloc /\ Meets(s, thr[t].start, thr[t].at)}
        \/ /\ ~Pinned(e) /\ Found(e.at) = {} /\ MayInsert(e) /\ pt'[e].refs = 1 /\ lost' = lost
    BY DEF PinStep
  <1>4. /\ thr[t].start \in Nat /\ thr[t].at \in Nat /\ thr[t].start <= thr[t].at /\ thr[t].end \in Nat
    BY <1>2, ThreadIs, CallIs
  <1>5. lost \subseteq lost' /\ \A s \in lost' : s \in lost \/ s = e
    BY <1>3
  <1>6. ASSUME NEW r \in Region, r # e, Pinned(r)'
        PROVE  pt'[r].refs >= Users(r)' /\ (r \notin lost' => pt'[r].refs = Users(r)')
    <2>1. Pinned(r) /\ pt'[r] = pt[r]
      BY <1>1, <1>2, <1>6
    <2>2. Users(r)' = Users(r)
      BY <1>1, <1>2, <1>6, <2>1, UsersMove
    <2> QED BY <1>5, <2>1, <2>2, CountsIs
  <1>7. pt'[e].refs >= Users(e)' /\ (e \notin lost' => pt'[e].refs = Users(e)')
    <2>1. /\ Users(e) \in Nat /\ Users(e)' \in Nat
          /\ Meets(e, Lo(t), Hi(t)) => Users(e)' = Users(e)
          /\ ~Meets(e, Lo(t), Hi(t)) => Users(e)' = Users(e) + 1
      BY <1>1, <1>2, UsersMove
    <2>2. CASE /\ Pinned(e) /\ pt'[e].refs = pt[e].refs + 1
               /\ lost' = lost \union {s \in {e} : thr[t].alloc /\ Meets(s, thr[t].start, thr[t].at)}
      <3>1. pt[e].refs >= Users(e) /\ (e \notin lost => pt[e].refs = Users(e)) /\ pt[e].refs \in Nat
        BY <2>2, CountsIs, EntryIs
      <3>2. CASE Meets(e, Lo(t), Hi(t))
        <4>1. thr[t].at < e.at + e.size
          BY <1>2, <1>4, RegionIs
        <4>2. thr[t].alloc
          BY <1>1, <1>2, <2>2, <3>2, <4>1 DEF Counts, OneEntry
        <4>3. e \in lost'
          BY <1>1, <2>2, <3>2, <4>2
        <4> QED BY <2>1, <2>2, <3>1, <3>2, <4>3
      <3>3. CASE ~Meets(e, Lo(t), Hi(t))
        BY <1>5, <2>1, <2>2, <3>1, <3>3
      <3> QED BY <3>2, <3>3
    <2>3. CASE ~Pinned(e) /\ Found(e.at) = {} /\ MayInsert(e) /\ pt'[e].refs = 1
      <3>1. Users(e) = 0 /\ ~Meets(e, Lo(t), Hi(t))
        BY <2>3, NoUsers
      <3> QED BY <2>1, <2>3, <3>1
    <2> QED BY <1>3, <2>2, <2>3
  <1>8. ASSUME NEW u \in Thread \ {t} PROVE OneEntry(u)'
    <2>1. \A s \in Region : Pinned(s)' /\ ~Pinned(s) => ~Meets(s, Lo(u), Hi(u))
      BY <1>1, <1>3, NoUsers
    <2> QED BY <1>1, <1>2, <2>1, OtherOne
  <1>9. OneEntry(t)'
    <2>1. Pinned(e)' /\ e.at < thr'[t].end /\ thr'[t].at <= e.at + e.size
      BY <1>1, <1>2, <1>4, RegionIs
    <2>2. ASSUME NEW r \in Region, Pinned(r)', Meets(r, thr'[t].start, thr'[t].at), thr'[t].at < r.at + r.size
          PROVE  thr'[t].alloc
      <3>1. /\ e.at \in Nat /\ e.size \in Nat \ {0} /\ r.at \in Nat /\ r.size \in Nat \ {0}
        BY RegionIs
      <3>2. CASE r = e
        BY <1>2, <2>2, <3>1, <3>2
      <3>3. CASE r # e
        <4>1. Pinned(r)
          BY <1>1, <2>2, <3>3
        <4>2. e.at + e.size <= r.at \/ r.at + r.size <= e.at
          BY <1>1, <3>3, <4>1
        <4>3. Meets(r, thr[t].start, thr[t].at)
          BY <1>1, <1>2, <2>2, <3>3, <4>1
        <4>4. r.at < thr[t].at
          BY <4>3 DEF Meets
        <4>5. FALSE
          BY <1>2, <1>4, <2>2, <3>1, <4>2, <4>4
        <4> QED BY <4>5
      <3> QED BY <3>2, <3>3
    <2> QED BY <2>1, <2>2 DEF OneEntry, Meets
  <1>10. \A u \in Thread : OneEntry(u)'
    BY <1>8, <1>9
  <1>11. \A r \in Region : Pinned(r)' =>
            pt'[r].refs >= Users(r)' /\ (r \notin lost' => pt'[r].refs = Users(r)')
    BY <1>6, <1>7
  <1> QED BY <1>10, <1>11 DEF Counts

\* The users of an entry once a buffer is described, or no longer.
LEMMA SharersAdd ==
  ASSUME TypeOK, Shapes, NEW d, bufs' = BagAdd(bufs, d), NEW r \in Region
  PROVE  /\ Meets(r, d.start, EndOf(d)) => Cardinality(Sharers(r)') = Cardinality(Sharers(r)) + 1
         /\ ~Meets(r, d.start, EndOf(d)) => Cardinality(Sharers(r)') = Cardinality(Sharers(r))
  <1>1. IsABag(bufs) /\ BagToSet(bufs') = BagToSet(bufs) \union {d}
    BY BagsType, BagAddIs
  <1>2. Sharers(r)' = Copies(BagAdd(bufs, d), Sharing(r)')
    BY DEF Sharers, Copies
  <1>3. Sharing(r)' = {e \in BagToSet(bufs) \union {d} : Meets(r, e.start, EndOf(e))}
    BY <1>1 DEF Sharing, EndOf, Meets
  <1>4. Sharing(r) = {e \in BagToSet(bufs) : Meets(r, e.start, EndOf(e))}
    BY DEF Sharing, EndOf
  <1>5. CASE Meets(r, d.start, EndOf(d))
    <2>1. Sharing(r)' = Sharing(r) \union {d} /\ Sharing(r) \subseteq BagToSet(bufs)
          /\ (d \in BagToSet(bufs) => d \in Sharing(r))
      BY <1>3, <1>4, <1>5
    <2>2. PICK c : c \notin Copies(bufs, Sharing(r))
                   /\ Copies(BagAdd(bufs, d), Sharing(r)') = Copies(bufs, Sharing(r)) \union {c}
      BY <1>1, <2>1, CopiesAdd
    <2>3. c \notin Sharers(r) /\ Sharers(r)' = Sharers(r) \union {c}
      BY <1>2, <2>2 DEF Sharers
    <2>4. IsFiniteSet(Sharers(r))
      BY UsersIs
    <2>5. Cardinality(Sharers(r) \union {c}) = Cardinality(Sharers(r)) + 1
      BY <2>3, <2>4, FS_AddElement
    <2> QED BY <1>5, <2>3, <2>5
  <1>6. CASE ~Meets(r, d.start, EndOf(d))
    <2>1. Sharing(r)' = Sharing(r) /\ Sharing(r) \subseteq BagToSet(bufs) /\ d \notin Sharing(r)
      BY <1>3, <1>4, <1>6
    <2>2. Copies(BagAdd(bufs, d), Sharing(r)) = Copies(bufs, Sharing(r))
      BY <1>1, <2>1, CopiesAddOther
    <2>3. Sharers(r)' = Sharers(r)
      BY <1>2, <2>1, <2>2 DEF Sharers
    <2> QED BY <1>6, <2>3
  <1> QED BY <1>5, <1>6

LEMMA SharersRemove ==
  ASSUME TypeOK, Shapes, NEW d \in BagToSet(bufs), bufs' = BagRemove(bufs, d), NEW r \in Region
  PROVE  /\ Meets(r, d.start, EndOf(d)) => Cardinality(Sharers(r)') = Cardinality(Sharers(r)) - 1
         /\ ~Meets(r, d.start, EndOf(d)) => Cardinality(Sharers(r)') = Cardinality(Sharers(r))
  <1>1. IsABag(bufs) /\ BagToSet(bufs') \subseteq BagToSet(bufs)
    BY BagsType, BagRemoveIs
  <1>2. Sharers(r)' = Copies(BagRemove(bufs, d), Sharing(r)')
    BY DEF Sharers, Copies
  <1>3. Sharing(r)' = {e \in BagToSet(bufs') : Meets(r, e.start, EndOf(e))}
    BY DEF Sharing, EndOf, Meets
  <1>4. Sharing(r) = {e \in BagToSet(bufs) : Meets(r, e.start, EndOf(e))}
    BY DEF Sharing, EndOf
  <1>5. Sharing(r)' = Sharing(r) \intersect BagToSet(BagRemove(bufs, d)) /\ Sharing(r) \subseteq BagToSet(bufs)
    BY <1>1, <1>3, <1>4
  <1>6. CASE Meets(r, d.start, EndOf(d))
    <2>1. d \in Sharing(r)
      BY <1>4, <1>6
    <2>2. PICK c \in Copies(bufs, Sharing(r)) :
              Copies(BagRemove(bufs, d), Sharing(r) \intersect BagToSet(BagRemove(bufs, d)))
                  = Copies(bufs, Sharing(r)) \ {c}
      BY <1>1, <1>5, <2>1, CopiesRemove
    <2>3. c \in Sharers(r) /\ Sharers(r)' = Sharers(r) \ {c}
      BY <1>2, <1>5, <2>2 DEF Sharers
    <2>4. IsFiniteSet(Sharers(r))
      BY UsersIs
    <2>5. Cardinality(Sharers(r) \ {c}) = Cardinality(Sharers(r)) - 1
      BY <2>3, <2>4, FS_RemoveElement
    <2> QED BY <1>6, <2>3, <2>5
  <1>7. CASE ~Meets(r, d.start, EndOf(d))
    <2>1. d \notin Sharing(r)
      BY <1>4, <1>7
    <2>2. /\ Copies(BagRemove(bufs, d), Sharing(r)) = Copies(bufs, Sharing(r))
          /\ Sharing(r) \subseteq BagToSet(BagRemove(bufs, d))
      BY <1>1, <1>5, <2>1, CopiesRemoveOther
    <2>3. Sharing(r)' = Sharing(r)
      BY <1>5, <2>2
    <2>4. Sharers(r)' = Sharers(r)
      BY <1>2, <2>2, <2>3 DEF Sharers
    <2> QED BY <1>7, <2>4
  <1> QED BY <1>6, <1>7

\* The users when a thread moves and the buffers may change.
LEMMA UsersChange ==
  ASSUME TypeOK, Shapes, NEW t \in Thread, NEW r \in Region, NEW k \in {0 - 1, 0, 1},
         \A u \in Thread \ {t} : thr'[u] = thr[u],
         Cardinality(Sharers(r)') = Cardinality(Sharers(r)) + k
  PROVE  /\ Users(r) \in Nat
         /\ (Meets(r, Lo(t), Hi(t)) <=> Meets(r, Lo(t)', Hi(t)')) => Users(r)' = Users(r) + k
         /\ ~Meets(r, Lo(t), Hi(t)) /\ Meets(r, Lo(t)', Hi(t)') => Users(r)' = Users(r) + 1 + k
         /\ Meets(r, Lo(t), Hi(t)) /\ ~Meets(r, Lo(t)', Hi(t)') => Users(r)' = (Users(r) - 1) + k
  <1>1. /\ Cardinality(Sharers(r)) \in Nat /\ Cardinality(Callers(r)) \in Nat
        /\ Users(r) = Cardinality(Sharers(r)) + Cardinality(Callers(r))
    BY UsersIs
  <1>2. Users(r)' = Cardinality(Sharers(r)') + Cardinality(Callers(r)')
    BY DEF Users, Sharers, Callers
  <1>3. /\ InCall(r, t) <=> Meets(r, Lo(t), Hi(t))
        /\ InCall(r, t)' <=> Meets(r, Lo(t)', Hi(t)')
    BY InCallIs
  <1>4. /\ Cardinality(Callers(r)) \in Nat /\ Cardinality(Callers(r)') \in Nat
        /\ InCall(r, t) /\ InCall(r, t)' => Cardinality(Callers(r)') = Cardinality(Callers(r))
        /\ ~InCall(r, t) /\ ~InCall(r, t)' => Cardinality(Callers(r)') = Cardinality(Callers(r))
        /\ ~InCall(r, t) /\ InCall(r, t)' => Cardinality(Callers(r)') = Cardinality(Callers(r)) + 1
        /\ InCall(r, t) /\ ~InCall(r, t)' => Cardinality(Callers(r)') = Cardinality(Callers(r)) - 1
    BY CallersMove
  <1> DEFINE s == Cardinality(Sharers(r))
             c == Cardinality(Callers(r))
             e == Cardinality(Callers(r)')
  <1> HIDE DEF s, c, e
  <1>5. s \in Nat /\ c \in Nat /\ e \in Nat /\ Users(r) = s + c /\ Users(r)' = (s + k) + e
    BY <1>1, <1>2, <1>4 DEF s, c, e
  <1>6. /\ (InCall(r, t) <=> InCall(r, t)') => e = c
        /\ ~InCall(r, t) /\ InCall(r, t)' => e = c + 1
        /\ InCall(r, t) /\ ~InCall(r, t)' => e = c - 1
    BY <1>4 DEF s, c, e
  <1> QED BY <1>3, <1>5, <1>6

LEMMA TrackCounts ==
  ASSUME TypeOK, Shapes, Disjoint, AllCovered, Counts, NEW t \in Thread, Track(t)
  PROVE  Counts'
  <1>0. PICK d : d = Descriptor(t)
    OBVIOUS
  <1>1. /\ thr[t].pc = "pin" /\ thr[t].end <= thr[t].at /\ bufs' = BagAdd(bufs, d)
        /\ thr' = [thr EXCEPT ![t] = Idle] /\ pt' = pt /\ wedged' = wedged
        /\ d.start = thr[t].start /\ EndOf(d) = thr[t].vaddr + thr[t].len
        /\ lost' = lost \union Left(EndOf(d), thr[t].end, thr[t].start, EndOf(d))
    BY <1>0, TrackIs
  <1>2. thr'[t] = Idle /\ \A u \in Thread \ {t} : thr'[u] = thr[u]
    BY <1>1, ToIdle
  <1>3. \A s \in Region : Pinned(s)' <=> Pinned(s)
    BY <1>1 DEF Pinned
  <1>4. PICK start, at, end, last :
            start = thr[t].start /\ at = thr[t].at /\ end = thr[t].end /\ last = EndOf(d)
    OBVIOUS
  <1>5. /\ start \in Nat /\ at \in Nat /\ end \in Nat /\ last \in Nat
        /\ start < last /\ last <= end /\ end <= at
    BY <1>1, <1>4, ThreadIs, CallIs
  <1>6. /\ Lo(t) = start /\ Hi(t) = at /\ Lo(t)' = 0 /\ Hi(t)' = 0
    BY <1>1, <1>2, <1>4, IdleAfter DEF Lo, Hi
  <1>7. \A r \in Region : ~Meets(r, Lo(t)', Hi(t)')
    BY <1>6 DEF Meets
  <1>8. ASSUME NEW r \in Region, Pinned(r)'
        PROVE  pt'[r].refs >= Users(r)' /\ (r \notin lost' => pt'[r].refs = Users(r)')
    <2>1. Pinned(r) /\ pt'[r] = pt[r] /\ pt[r].refs \in Nat
      BY <1>1, <1>3, <1>8, EntryIs
    <2>2. pt[r].refs >= Users(r) /\ (r \notin lost => pt[r].refs = Users(r)) /\ Users(r) \in Nat
      BY <2>1, CountsIs, UsersIs
    <2>3. Cardinality(Sharers(r)) \in Nat
      BY UsersIs
    <2>4. r.at \in Nat /\ r.size \in Nat \ {0}
      BY RegionIs
    <2>5. lost \subseteq lost'
      BY <1>1
    <2>6. CASE Meets(r, start, last)
      <3>1. Meets(r, start, at)
        BY <1>5, <2>4, <2>6 DEF Meets
      <3>2. Cardinality(Sharers(r)') = Cardinality(Sharers(r)) + 1
        BY <1>1, <1>4, <2>6, SharersAdd
      <3>3. Users(r)' = (Users(r) - 1) + 1
        BY <1>2, <1>6, <1>7, <3>1, <3>2, UsersChange
      <3> QED BY <2>1, <2>2, <2>5, <3>3
    <2>7. CASE ~Meets(r, start, last)
      <3>1. Cardinality(Sharers(r)') = Cardinality(Sharers(r)) + 0
        BY <1>1, <1>4, <2>3, <2>7, SharersAdd
      <3>2. CASE ~Meets(r, start, at)
        <4>1. Users(r)' = Users(r) + 0
          BY <1>2, <1>6, <1>7, <3>1, <3>2, UsersChange
        <4> QED BY <2>1, <2>2, <2>5, <4>1
      <3>3. CASE Meets(r, start, at)
        <4>1. Users(r)' = (Users(r) - 1) + 0
          BY <1>2, <1>6, <1>7, <3>1, <3>3, UsersChange
        <4>2. last <= r.at /\ r.at < at
          BY <1>5, <2>4, <2>7, <3>3 DEF Meets
        <4>3. r.at < end
          <5> SUFFICES ASSUME ~(r.at < end) PROVE FALSE
            OBVIOUS
          <5>1. end < at
            BY <1>5, <2>4, <4>2
          <5>2. PICK s \in Region : Pinned(s) /\ s.at < end /\ at <= s.at + s.size
            BY <1>1, <1>4, <5>1 DEF Counts, OneEntry
          <5>3. s.at \in Nat /\ s.size \in Nat \ {0} /\ s # r
            BY <5>2, RegionIs
          <5>4. s.at + s.size <= r.at \/ r.at + r.size <= s.at
            BY <2>1, <5>2, <5>3, Apart
          <5> QED BY <1>5, <2>4, <4>2, <5>2, <5>3, <5>4
        <4>4. Meets(r, last, end)
          BY <1>5, <2>4, <4>2, <4>3 DEF Meets
        <4>5. r \in lost'
          BY <1>1, <1>4, <2>1, <2>7, <4>4 DEF Left
        <4> QED BY <2>1, <2>2, <4>1, <4>5
      <3> QED BY <3>2, <3>3
    <2> QED BY <2>6, <2>7
  <1>9. ASSUME NEW u \in Thread PROVE OneEntry(u)'
    <2>1. CASE u = t
      BY <1>2, <2>1 DEF OneEntry, Idle
    <2>2. CASE u # t
      BY <1>2, <1>3, <2>2, OtherOne
    <2> QED BY <2>1, <2>2
  <1> QED BY <1>8, <1>9 DEF Counts

LEMMA ReleaseCounts ==
  ASSUME TypeOK, Shapes, AllCovered, Counts, NEW t \in Thread, NEW h \in BagToSet(held), Release(t, h)
  PROVE  Counts'
  <1>1. PICK d \in BagToSet(bufs), me \in Activity :
            /\ thr[t].pc = "idle" /\ bufs' = BagRemove(bufs, d) /\ thr' = [thr EXCEPT ![t] = me]
            /\ me.pc = "remove" /\ me.at = d.start /\ me.end = EndOf(d) /\ pt' = pt
            /\ lost \subseteq lost'
    BY ReleaseIs
  <1>2. thr'[t] = me /\ \A u \in Thread \ {t} : thr'[u] = thr[u]
    BY <1>1, ThreadMoves
  <1>3. \A s \in Region : Pinned(s)' <=> Pinned(s)
    BY <1>1 DEF Pinned
  <1>4. Lo(t)' = d.start /\ Hi(t)' = EndOf(d) /\ \A r : ~Meets(r, Lo(t), Hi(t))
    BY <1>1, <1>2, IdleRange DEF Lo, Hi
  <1>5. ASSUME NEW r \in Region, Pinned(r)'
        PROVE  pt'[r].refs >= Users(r)' /\ (r \notin lost' => pt'[r].refs = Users(r)')
    <2>1. Pinned(r) /\ pt'[r] = pt[r] /\ pt[r].refs \in Nat
      BY <1>1, <1>3, <1>5, EntryIs
    <2>2. pt[r].refs >= Users(r) /\ (r \notin lost => pt[r].refs = Users(r)) /\ Users(r) \in Nat
      BY <2>1, CountsIs, UsersIs
    <2>3. Cardinality(Sharers(r)) \in Nat
      BY UsersIs
    <2>4. CASE Meets(r, d.start, EndOf(d))
      <3>1. Cardinality(Sharers(r)') = Cardinality(Sharers(r)) + (0 - 1)
        BY <1>1, <2>3, <2>4, SharersRemove
      <3>2. Users(r)' = Users(r) + 1 + (0 - 1)
        BY <1>2, <1>4, <2>4, <3>1, UsersChange
      <3> QED BY <1>1, <2>1, <2>2, <3>2
    <2>5. CASE ~Meets(r, d.start, EndOf(d))
      <3>1. Cardinality(Sharers(r)') = Cardinality(Sharers(r)) + 0
        BY <1>1, <2>3, <2>5, SharersRemove
      <3>2. Users(r)' = Users(r) + 0
        BY <1>2, <1>4, <2>5, <3>1, UsersChange
      <3> QED BY <1>1, <2>1, <2>2, <3>2
    <2> QED BY <2>4, <2>5
  <1>6. ASSUME NEW u \in Thread PROVE OneEntry(u)'
    <2>1. CASE u = t
      BY <1>1, <1>2, <2>1 DEF OneEntry
    <2>2. CASE u # t
      BY <1>2, <1>3, <2>2, OtherOne
    <2> QED BY <2>1, <2>2
  <1> QED BY <1>5, <1>6 DEF Counts

LEMMA RemovePageCounts ==
  ASSUME TypeOK, Shapes, Disjoint, AllCovered, Counts, NEW t \in Thread, RemovePage(t)
  PROVE  Counts'
  <1>1. PICK r \in Region, me \in Activity : Taking(t, r, me) /\ (TakesOne(t, r, me) \/ TakesLast(t, r, me))
    BY RemovePageIs
  <1>2. /\ thr'[t] = me /\ \A u \in Thread \ {t} : thr'[u] = thr[u]
        /\ Meets(r, Lo(t), Hi(t)) /\ ~Meets(r, Lo(t)', Hi(t)')
        /\ \A s \in Region \ {r} : Pinned(s) =>
              /\ Meets(s, Lo(t)', Hi(t)') => Meets(s, Lo(t), Hi(t))
              /\ Meets(s, Lo(t), Hi(t)) /\ ~Meets(s, Lo(t)', Hi(t)') => s \in Stepped(t, r)
    BY <1>1, TakingRange
  <1>3. /\ \A s \in Region \ {r} : pt'[s] = pt[s] /\ (Pinned(s)' <=> Pinned(s))
        /\ pt'[r].refs = pt[r].refs - 1 /\ pt[r].refs \in Nat
        /\ Pinned(r)' <=> pt[r].refs # 1
    BY <1>1, TakingPinned
  <1>4. Pinned(r) /\ bufs' = bufs /\ thr[t].pc = "remove" /\ thr'[t].pc # "pin"
    BY <1>1, <1>2 DEF Taking, TakesOne, TakesLast, AfterPage
  <1>5. Stepped(t, r) \subseteq lost' /\ \A s \in lost : s \in lost' \/ (s = r /\ pt[r].refs = 1)
    BY <1>1 DEF TakesOne, TakesLast
  <1>6. ASSUME NEW s \in Region \ {r}, Pinned(s)'
        PROVE  pt'[s].refs >= Users(s)' /\ (s \notin lost' => pt'[s].refs = Users(s)')
    <2>1. Pinned(s) /\ pt'[s] = pt[s] /\ pt[s].refs \in Nat
      BY <1>3, <1>6, EntryIs
    <2>2. pt[s].refs >= Users(s) /\ (s \notin lost => pt[s].refs = Users(s)) /\ Users(s) \in Nat
      BY <2>1, CountsIs, UsersIs
    <2>3. /\ (Meets(s, Lo(t), Hi(t)) <=> Meets(s, Lo(t)', Hi(t)')) => Users(s)' = Users(s)
          /\ Meets(s, Lo(t), Hi(t)) /\ ~Meets(s, Lo(t)', Hi(t)') => Users(s)' = Users(s) - 1
      BY <1>2, <1>4, UsersMove
    <2>4. CASE Meets(s, Lo(t), Hi(t)) <=> Meets(s, Lo(t)', Hi(t)')
      BY <1>5, <2>1, <2>2, <2>3, <2>4
    <2>5. CASE Meets(s, Lo(t), Hi(t)) /\ ~Meets(s, Lo(t)', Hi(t)')
      <3>1. s \in lost'
        BY <1>2, <1>5, <2>1, <2>5
      <3> QED BY <2>1, <2>2, <2>3, <2>5, <3>1
    <2> QED BY <1>2, <2>1, <2>4, <2>5
  <1>7. ASSUME Pinned(r)'
        PROVE  pt'[r].refs >= Users(r)' /\ (r \notin lost' => pt'[r].refs = Users(r)')
    <2>1. pt[r].refs >= Users(r) /\ (r \notin lost => pt[r].refs = Users(r)) /\ Users(r) \in Nat
      BY <1>4, CountsIs, UsersIs
    <2>2. Users(r)' = Users(r) - 1
      BY <1>2, <1>4, UsersMove
    <2> QED BY <1>3, <1>5, <1>7, <2>1, <2>2
  <1>8. ASSUME NEW u \in Thread PROVE OneEntry(u)'
    <2>1. CASE u = t
      BY <1>4, <2>1 DEF OneEntry
    <2>2. CASE u # t
      <3>1. pt[r].refs = 1 => ~Meets(r, Lo(u), Hi(u))
        BY <1>2, <1>4, <2>2, LastUser
      <3> QED BY <1>2, <1>3, <1>4, <2>2, <3>1, OtherOne
    <2> QED BY <2>1, <2>2
  <1> QED BY <1>6, <1>7, <1>8 DEF Counts

-----------------------------------------------------------------------------
(* OPAE's pins.                                                            *)

Flushing == {"inval", "unpin"}
Takes(t, r, pcs) == thr[t].pc \in pcs /\ thr[t].page = r

LEMMA TakenIs ==
  ASSUME NEW r, NEW pcs
  PROVE  IsFiniteSet(Taken(r, pcs)) /\ Cardinality(Taken(r, pcs)) \in Nat
  <1>1. Taken(r, pcs) \subseteq Thread /\ IsFiniteSet(Thread)
    BY BuffersAssumption DEF Taken
  <1> QED BY <1>1, FewerIn

LEMMA TakenLess ==
  ASSUME NEW r, NEW pcs, NEW pcs2, pcs \subseteq pcs2
  PROVE  /\ Cardinality(Taken(r, pcs)) <= Cardinality(Taken(r, pcs2))
         /\ Cardinality(Taken(r, pcs)) \in Nat /\ Cardinality(Taken(r, pcs2)) \in Nat
  <1>1. Taken(r, pcs) \subseteq Taken(r, pcs2)
    BY DEF Taken
  <1> QED BY <1>1, TakenIs, FewerIn

\* A step of one thread changes the takers by that thread.
LEMMA TakenMove ==
  ASSUME NEW t \in Thread, NEW r, NEW pcs, \A u \in Thread \ {t} : thr'[u] = thr[u]
  PROVE  /\ Cardinality(Taken(r, pcs)) \in Nat /\ Cardinality(Taken(r, pcs)') \in Nat
         /\ (Takes(t, r, pcs) <=> Takes(t, r, pcs)') =>
               Cardinality(Taken(r, pcs)') = Cardinality(Taken(r, pcs))
         /\ ~Takes(t, r, pcs) /\ Takes(t, r, pcs)' =>
               Cardinality(Taken(r, pcs)') = Cardinality(Taken(r, pcs)) + 1
         /\ Takes(t, r, pcs) /\ ~Takes(t, r, pcs)' =>
               Cardinality(Taken(r, pcs)') = Cardinality(Taken(r, pcs)) - 1
  <1> DEFINE C == Taken(r, pcs)
             D == Taken(r, pcs)'
  <1>1. \A u \in Thread \ {t} : u \in C <=> u \in D
    BY DEF Taken
  <1>2. C \subseteq Thread /\ D \subseteq Thread /\ IsFiniteSet(Thread)
    BY BuffersAssumption DEF Taken
  <1>3. (t \in C <=> Takes(t, r, pcs)) /\ (t \in D <=> Takes(t, r, pcs)')
    BY DEF Taken, Takes
  <1> HIDE DEF C, D
  <1>4. IsFiniteSet(C) /\ IsFiniteSet(D) /\ Cardinality(C) \in Nat /\ Cardinality(D) \in Nat
    BY <1>2, FewerIn
  <1>5. CASE Takes(t, r, pcs) <=> Takes(t, r, pcs)'
    <2>1. C = D
      BY <1>1, <1>2, <1>3, <1>5
    <2> QED BY <1>4, <1>5, <2>1 DEF C, D
  <1>6. CASE ~Takes(t, r, pcs) /\ Takes(t, r, pcs)'
    <2>1. D = C \union {t} /\ t \notin C
      BY <1>1, <1>2, <1>3, <1>6
    <2>2. Cardinality(D) = Cardinality(C) + 1
      BY <1>4, <2>1, FS_AddElement
    <2> QED BY <1>4, <1>6, <2>2 DEF C, D
  <1>7. CASE Takes(t, r, pcs) /\ ~Takes(t, r, pcs)'
    <2>1. D = C \ {t} /\ t \in C
      BY <1>1, <1>2, <1>3, <1>7
    <2>2. Cardinality(D) = Cardinality(C) - 1
      BY <1>4, <2>1, FS_RemoveElement
    <2> QED BY <1>4, <1>7, <2>2 DEF C, D
  <1> QED BY <1>5, <1>6, <1>7

LEMMA PinsIs ==
  ASSUME PinsKept, NEW r \in Region
  PROVE  /\ pinned[r] >= Cardinality(Taken(r, Flushing)) + (IF Pinned(r) THEN 1 ELSE 0)
         /\ r \in cached => pinned[r] >= Cardinality(Taken(r, {"unpin"})) + 1
  BY DEF PinsKept, Flushing

\* Steps that neither pin nor unpin, and take no entry.
LEMMA PinsQuiet ==
  ASSUME TypeOK, PinsKept, NEW t \in Thread, pinned' = pinned, cached' \subseteq cached,
         \A u \in Thread \ {t} : thr'[u] = thr[u], thr'[t].pc \notin Flushing,
         \A r \in Region : Pinned(r)' => Pinned(r)
  PROVE  PinsKept'
  <1> SUFFICES ASSUME NEW r \in Region
               PROVE  /\ pinned'[r] >= Cardinality(Taken(r, Flushing)') + (IF Pinned(r)' THEN 1 ELSE 0)
                      /\ r \in cached' => pinned'[r] >= Cardinality(Taken(r, {"unpin"})') + 1
    BY DEF PinsKept, Flushing
  <1>1. /\ pinned[r] >= Cardinality(Taken(r, Flushing)) + (IF Pinned(r) THEN 1 ELSE 0)
        /\ r \in cached => pinned[r] >= Cardinality(Taken(r, {"unpin"})) + 1
    BY PinsIs
  <1>2. ~Takes(t, r, Flushing)' /\ ~Takes(t, r, {"unpin"})'
    BY DEF Takes, Flushing
  <1>3. /\ Cardinality(Taken(r, Flushing)') <= Cardinality(Taken(r, Flushing))
        /\ Cardinality(Taken(r, Flushing)') \in Nat /\ Cardinality(Taken(r, Flushing)) \in Nat
    BY <1>2, TakenMove
  <1>4. /\ Cardinality(Taken(r, {"unpin"})') <= Cardinality(Taken(r, {"unpin"}))
        /\ Cardinality(Taken(r, {"unpin"})') \in Nat /\ Cardinality(Taken(r, {"unpin"})) \in Nat
    BY <1>2, TakenMove
  <1>5. pinned[r] \in Nat
    BY DEF TypeOK
  <1> QED BY <1>1, <1>3, <1>4, <1>5

\* The call that does not move, and the memory around it.
LEMMA PinsSame ==
  ASSUME PinsKept, UNCHANGED <<pinned, cached, thr, pt>>
  PROVE  PinsKept'
  BY DEF PinsKept, Taken, Pinned

LEMMA PinNewPins ==
  ASSUME TypeOK, Shapes, PinsKept, NEW t \in Thread, NEW size \in {Small, Large}, PinNew(t, size)
  PROVE  PinsKept'
  <1>1. PICK r \in Region :
            /\ thr[t].pc = "pin" /\ Past(t, r) /\ pinned' = [pinned EXCEPT ![r] = @ + 1]
            /\ Shootdown(r.at, pt') /\ Insert(r, thr[t].alloc)
    BY PinNewIs
  <1>2. \A u \in Thread \ {t} : thr'[u] = thr[u] /\ thr'[t].pc = thr[t].pc
    BY <1>1, PastMoves
  <1>3. thr'[t].pc = thr[t].pc
    BY <1>1, PastMoves
  <1>4. \A s \in Region \ {r} : Pinned(s)' <=> Pinned(s)
    <2>1. thr[t].alloc \in BOOLEAN
      BY ThreadIs
    <2> QED BY <1>1, <2>1, InsertPinned
  <1>5. pinned'[r] = pinned[r] + 1 /\ \A s \in Region \ {r} : pinned'[s] = pinned[s]
    BY <1>1 DEF TypeOK
  <1>6. \A s \in cached' : Pinned(s)' \/ s \in cached
    BY <1>1 DEF Shootdown, Pinned
  <1> SUFFICES ASSUME NEW s \in Region
               PROVE  /\ pinned'[s] >= Cardinality(Taken(s, Flushing)') + (IF Pinned(s)' THEN 1 ELSE 0)
                      /\ s \in cached' => pinned'[s] >= Cardinality(Taken(s, {"unpin"})') + 1
    BY DEF PinsKept, Flushing
  <1>7. /\ pinned[s] >= Cardinality(Taken(s, Flushing)) + (IF Pinned(s) THEN 1 ELSE 0)
        /\ s \in cached => pinned[s] >= Cardinality(Taken(s, {"unpin"})) + 1
    BY PinsIs
  <1>8. /\ ~Takes(t, s, Flushing)' /\ ~Takes(t, s, {"unpin"})'
        /\ ~Takes(t, s, Flushing) /\ ~Takes(t, s, {"unpin"})
    BY <1>1, <1>3 DEF Takes, Flushing
  <1>9. /\ Cardinality(Taken(s, Flushing)') = Cardinality(Taken(s, Flushing))
        /\ Cardinality(Taken(s, Flushing)) \in Nat
    BY <1>2, <1>8, TakenMove
  <1>10. /\ Cardinality(Taken(s, {"unpin"})') = Cardinality(Taken(s, {"unpin"}))
         /\ Cardinality(Taken(s, {"unpin"})) \in Nat
    BY <1>2, <1>8, TakenMove
  <1>11. Cardinality(Taken(s, {"unpin"})) <= Cardinality(Taken(s, Flushing))
    BY TakenLess DEF Flushing
  <1>12. pinned[s] \in Nat /\ pinned'[s] \in Nat /\ pinned'[s] >= pinned[s] /\ (s = r => pinned'[s] = pinned[s] + 1)
    <2>1. pinned[s] \in Nat
      BY DEF TypeOK
    <2> QED BY <1>5, <2>1
  <1>13. pinned'[s] >= Cardinality(Taken(s, Flushing)') + (IF Pinned(s)' THEN 1 ELSE 0)
    BY <1>4, <1>7, <1>9, <1>12
  <1>14. ASSUME s \in cached' PROVE pinned'[s] >= Cardinality(Taken(s, {"unpin"})') + 1
    BY <1>6, <1>7, <1>9, <1>10, <1>11, <1>12, <1>13, <1>14
  <1> QED BY <1>13, <1>14

LEMMA RemovePagePins ==
  ASSUME TypeOK, Shapes, AllCovered, PinsKept, NEW t \in Thread, RemovePage(t)
  PROVE  PinsKept'
  <1>1. PICK r \in Region, me \in Activity : Taking(t, r, me) /\ (TakesOne(t, r, me) \/ TakesLast(t, r, me))
    BY RemovePageIs
  <1>2. /\ thr[t].pc = "remove" /\ pinned' = pinned /\ cached' = cached /\ Pinned(r)
        /\ thr' = [thr EXCEPT ![t] = me]
    BY <1>1 DEF Taking
  <1>3. thr'[t] = me /\ \A u \in Thread \ {t} : thr'[u] = thr[u]
    BY <1>2, ThreadMoves
  <1>4. /\ \A s \in Region \ {r} : Pinned(s)' <=> Pinned(s)
        /\ Pinned(r)' <=> pt[r].refs # 1
    BY <1>1, TakingPinned
  <1>5. CASE TakesOne(t, r, me)
    <2>1. me.pc \notin Flushing
      BY <1>5 DEF TakesOne, AfterPage, Flushing
    <2> QED BY <1>2, <1>3, <1>4, <2>1, PinsQuiet
  <1>6. CASE TakesLast(t, r, me)
    <2>1. me.pc = "inval" /\ me.page = r /\ pt[r].refs = 1
      BY <1>6 DEF TakesLast
    <2> SUFFICES ASSUME NEW s \in Region
                 PROVE  /\ pinned'[s] >= Cardinality(Taken(s, Flushing)') + (IF Pinned(s)' THEN 1 ELSE 0)
                        /\ s \in cached' => pinned'[s] >= Cardinality(Taken(s, {"unpin"})') + 1
      BY DEF PinsKept, Flushing
    <2>2. /\ pinned[s] >= Cardinality(Taken(s, Flushing)) + (IF Pinned(s) THEN 1 ELSE 0)
          /\ s \in cached => pinned[s] >= Cardinality(Taken(s, {"unpin"})) + 1
      BY PinsIs
    <2>3. /\ ~Takes(t, s, Flushing) /\ ~Takes(t, s, {"unpin"}) /\ ~Takes(t, s, {"unpin"})'
          /\ Takes(t, s, Flushing)' <=> s = r
      BY <1>2, <1>3, <2>1 DEF Takes, Flushing
    <2>4. Cardinality(Taken(s, {"unpin"})') = Cardinality(Taken(s, {"unpin"}))
      BY <1>3, <2>3, TakenMove
    <2>5. /\ Cardinality(Taken(s, Flushing)) \in Nat
          /\ Cardinality(Taken(s, Flushing)') = Cardinality(Taken(s, Flushing)) + (IF s = r THEN 1 ELSE 0)
      BY <1>3, <2>3, TakenMove
    <2>6. pinned[s] \in Nat
      BY DEF TypeOK
    <2> QED BY <1>2, <1>4, <2>1, <2>2, <2>4, <2>5, <2>6
  <1> QED BY <1>1, <1>5, <1>6

LEMMA InvalPagePins ==
  ASSUME TypeOK, Shapes, PinsKept, NEW t \in Thread, InvalPage(t)
  PROVE  PinsKept'
  <1>1. /\ thr[t].pc = "inval" /\ Onward(t, "unpin")
        /\ Shootdown(thr[t].at - thr[t].page.size, pt)
        /\ UNCHANGED <<pt, pinned>>
    BY InvalPageIs
  <1>2. thr'[t].pc = "unpin" /\ thr'[t].page = thr[t].page /\ \A u \in Thread \ {t} : thr'[u] = thr[u]
    BY <1>1, OnwardRange
  <1>3. PICK r \in Region, a \in Nat : r = thr[t].page /\ a = thr[t].at - r.size /\ a \in Span(r)
    <2>1. /\ thr[t].page \in Region
          /\ thr[t].page.at + thr[t].page.size <= thr[t].at
          /\ thr[t].at < thr[t].page.at + thr[t].page.size + thr[t].page.size
      BY <1>1 DEF Shapes, CallShape
    <2>2. thr[t].at - thr[t].page.size \in Nat /\ thr[t].at - thr[t].page.size \in Span(thr[t].page)
      BY <2>1, ThreadIs, RegionIs DEF Span
    <2> QED BY <2>1, <2>2
  <1>4. cached' = {s \in Region : pt[s].refs > 0 \/ (s \in cached /\ a \notin Span(s))}
    BY <1>1, <1>3 DEF Shootdown
  <1> SUFFICES ASSUME NEW s \in Region
               PROVE  /\ pinned'[s] >= Cardinality(Taken(s, Flushing)') + (IF Pinned(s)' THEN 1 ELSE 0)
                      /\ s \in cached' => pinned'[s] >= Cardinality(Taken(s, {"unpin"})') + 1
    BY DEF PinsKept, Flushing
  <1>5. /\ pinned[s] >= Cardinality(Taken(s, Flushing)) + (IF Pinned(s) THEN 1 ELSE 0)
        /\ s \in cached => pinned[s] >= Cardinality(Taken(s, {"unpin"})) + 1
    BY PinsIs
  <1>6. /\ Takes(t, s, Flushing) <=> Takes(t, s, Flushing)'
        /\ ~Takes(t, s, {"unpin"}) /\ (Takes(t, s, {"unpin"})' <=> s = r)
    BY <1>1, <1>2, <1>3 DEF Takes, Flushing
  <1>7. /\ Cardinality(Taken(s, Flushing)') = Cardinality(Taken(s, Flushing))
        /\ Cardinality(Taken(s, Flushing)) \in Nat
    BY <1>2, <1>6, TakenMove
  <1>8. /\ Cardinality(Taken(s, {"unpin"})) \in Nat /\ Cardinality(Taken(s, {"unpin"})') \in Nat
        /\ s # r => Cardinality(Taken(s, {"unpin"})') = Cardinality(Taken(s, {"unpin"}))
    BY <1>2, <1>6, TakenMove
  <1>9. Cardinality(Taken(s, {"unpin"})') <= Cardinality(Taken(s, Flushing)')
    <2>1. Taken(s, {"unpin"})' \subseteq Taken(s, Flushing)'
      BY DEF Taken, Flushing
    <2>2. IsFiniteSet(Taken(s, Flushing)')
      <3>1. Taken(s, Flushing)' \subseteq Thread
        BY DEF Taken
      <3> QED BY <3>1, BuffersAssumption, FewerIn
    <2> QED BY <2>1, <2>2, FewerIn
  <1>10. pinned[s] \in Nat /\ pinned'[s] = pinned[s] /\ (Pinned(s)' <=> Pinned(s))
    BY <1>1 DEF TypeOK, Pinned
  <1>11. ASSUME s \in cached' PROVE pinned'[s] >= Cardinality(Taken(s, {"unpin"})') + 1
    <2>1. CASE Pinned(s)
      BY <1>5, <1>7, <1>8, <1>9, <1>10, <2>1
    <2>2. CASE ~Pinned(s)
      <3>1. s \in cached /\ s # r
        BY <1>3, <1>4, <1>11, <2>2 DEF Pinned
      <3> QED BY <1>5, <1>8, <1>10, <3>1
    <2> QED BY <2>1, <2>2
  <1> QED BY <1>5, <1>7, <1>10, <1>11

LEMMA UnpinPagePins ==
  ASSUME TypeOK, Shapes, PinsKept, NEW t \in Thread, UnpinPage(t)
  PROVE  PinsKept'
  <1>1. PICK pc \in {"remove", "unmap"} :
            /\ thr[t].pc = "unpin" /\ Onward(t, pc) /\ thr[t].page \in Region
            /\ pinned' = [pinned EXCEPT ![thr[t].page] = @ - 1]
            /\ UNCHANGED <<pt, cached>>
    BY UnpinPageIs
  <1>2. thr'[t].pc = pc /\ \A u \in Thread \ {t} : thr'[u] = thr[u]
    BY <1>1, OnwardRange
  <1>3. PICK r \in Region : r = thr[t].page
    BY <1>1
  <1>4. pinned'[r] = pinned[r] - 1 /\ \A s \in Region \ {r} : pinned'[s] = pinned[s]
    BY <1>1, <1>3 DEF TypeOK
  <1> SUFFICES ASSUME NEW s \in Region
               PROVE  /\ pinned'[s] >= Cardinality(Taken(s, Flushing)') + (IF Pinned(s)' THEN 1 ELSE 0)
                      /\ s \in cached' => pinned'[s] >= Cardinality(Taken(s, {"unpin"})') + 1
    BY DEF PinsKept, Flushing
  <1>5. /\ pinned[s] >= Cardinality(Taken(s, Flushing)) + (IF Pinned(s) THEN 1 ELSE 0)
        /\ s \in cached => pinned[s] >= Cardinality(Taken(s, {"unpin"})) + 1
    BY PinsIs
  <1>6. /\ ~Takes(t, s, Flushing)' /\ ~Takes(t, s, {"unpin"})'
        /\ (Takes(t, s, Flushing) <=> s = r) /\ (Takes(t, s, {"unpin"}) <=> s = r)
    BY <1>1, <1>2, <1>3 DEF Takes, Flushing
  <1>7. /\ Cardinality(Taken(s, Flushing)) \in Nat
        /\ Cardinality(Taken(s, Flushing)') = Cardinality(Taken(s, Flushing)) - (IF s = r THEN 1 ELSE 0)
    BY <1>2, <1>6, TakenMove
  <1>8. /\ Cardinality(Taken(s, {"unpin"})) \in Nat
        /\ Cardinality(Taken(s, {"unpin"})') = Cardinality(Taken(s, {"unpin"})) - (IF s = r THEN 1 ELSE 0)
    BY <1>2, <1>6, TakenMove
  <1>9. pinned[s] \in Nat /\ (Pinned(s)' <=> Pinned(s)) /\ cached' = cached
    BY <1>1 DEF TypeOK, Pinned
  <1>10. pinned'[s] = pinned[s] - (IF s = r THEN 1 ELSE 0)
    BY <1>4, <1>9
  <1> QED BY <1>5, <1>7, <1>8, <1>9, <1>10

-----------------------------------------------------------------------------
(* The part of the invariant about entries, counts and pins.               *)

Core == TypeOK /\ Shapes /\ Disjoint /\ AllCovered /\ Counts /\ PinsKept

LEMMA CoreInit == Init => Core
  <1> SUFFICES ASSUME Init PROVE Core
    OBVIOUS
  <1>1. /\ mem = [p \in Page |-> IF p \in UserMemory THEN "user" ELSE "free"]
        /\ huge \in SUBSET {At(a, Large) : a \in Address}
        /\ pt = [r \in Region |-> NoEntry] /\ pinned = [r \in Region |-> 0]
        /\ cached = {} /\ bufs = EmptyBag /\ held = EmptyBag
        /\ thr = [t \in Thread |-> Idle] /\ wedged = FALSE
        /\ count = [prepares |-> 0, unmaps |-> 0, faults |-> 0]
        /\ stale = {} /\ lost = {} /\ skipped = {}
    BY DEF Init
  <1>2. IsABag(bufs) /\ IsABag(held) /\ BagToSet(bufs) = {} /\ BagToSet(held) = {}
    BY <1>1 DEF EmptyBag, IsABag, BagToSet, SetToBag
  <1>3. \A r \in Region : ~Pinned(r) /\ pt[r] = NoEntry
    BY <1>1 DEF Pinned, NoEntry
  <1>4. \A t \in Thread : thr[t] = Idle /\ Lo(t) = 0 /\ Hi(t) = 0
    BY <1>1 DEF Idle, Lo, Hi
  <1>5. TypeOK
    <2>1. mem \in [Page -> {"free", "user", "mpf"}]
      BY <1>1
    <2>2. huge \subseteq {r \in Region : r.size = Large}
      BY <1>1, AtIs, Sizes
    <2>3. pt \in [Region -> [refs : Nat, alloc : BOOLEAN]] /\ pinned \in [Region -> Nat]
      BY <1>1 DEF NoEntry
    <2>4. thr \in [Thread -> Activity]
      <3>1. thr = [t \in Thread |-> Idle] /\ Units # 0
        BY <1>1, BuffersAssumption
      <3> QED BY <3>1, IdleIs
    <2>5. count \in [prepares : 0 .. MaxPrepares, unmaps : 0 .. MaxUnmaps, faults : 0 .. MaxFaults]
      BY <1>1, BuffersAssumption
    <2> QED BY <1>1, <1>2, <2>1, <2>2, <2>3, <2>4, <2>5 DEF TypeOK
  <1>6. Shapes
    <2>1. \A t \in Thread : CallShape(thr[t])
      <3>1. Idle.pc = "idle"
        BY DEF Idle
      <3>2. \A t \in Thread : thr[t] = Idle /\ thr[t].pc = "idle"
        BY <1>4, <3>1
      <3> QED BY <3>2 DEF CallShape, Removing
    <2>2. Copies(bufs, BagToSet(bufs)) = {} /\ Copies(held, BagToSet(held)) = {}
      BY <1>2 DEF Copies
    <2> QED BY <1>2, <2>1, <2>2, FS_EmptySet DEF Shapes
  <1>7. Disjoint
    BY <1>3 DEF Disjoint
  <1>8. AllCovered
    <2>1. \A t \in Thread : Covered(Lo(t), Hi(t))
      BY <1>4, CoveredNone
    <2> QED BY <1>2, <2>1 DEF AllCovered
  <1>9. Counts
    BY <1>3, <1>4 DEF Counts, OneEntry, Idle
  <1>10. PinsKept
    <2>1. ASSUME NEW r \in Region, NEW pcs \in {{"inval", "unpin"}, {"unpin"}}
          PROVE  Cardinality(Taken(r, pcs)) = 0
      <3>1. Taken(r, pcs) = {}
        BY <1>4 DEF Taken, Idle
      <3> QED BY <3>1, FS_EmptySet
    <2> QED BY <1>1, <1>3, <2>1 DEF PinsKept
  <1> QED BY <1>5, <1>6, <1>7, <1>8, <1>9, <1>10 DEF Core

\* Steps of the user around the calls.
LEMMA StillKept ==
  ASSUME Disjoint, AllCovered, Counts, PinsKept, UNCHANGED <<pt, pinned, cached, bufs, thr, lost>>
  PROVE  Disjoint' /\ AllCovered' /\ Counts' /\ PinsKept'
  <1>1. Disjoint' /\ PinsKept'
    BY DisjointSame, PinsSame
  <1>2. AllCovered'
    BY DEF AllCovered, Covered, Found, Pinned, EndOf, Lo, Hi
  <1>3. Counts'
    <2>1. ASSUME NEW r \in Region PROVE Users(r)' = Users(r) /\ (Pinned(r)' <=> Pinned(r))
      BY DEF Users, Sharing, InCall, Copies, Meets, Pinned
    <2>2. ASSUME NEW t \in Thread PROVE OneEntry(t)'
      BY DEF Counts, OneEntry, Pinned, Meets
    <2> QED BY <2>1, <2>2 DEF Counts
  <1> QED BY <1>1, <1>2, <1>3

\* Steps of a call that leave the table and the buffers alone.
LEMMA QuietKept ==
  ASSUME TypeOK, Shapes, Disjoint, AllCovered, Counts, NEW t \in Thread, Quiet(t), TypeOK'
  PROVE  Disjoint' /\ AllCovered' /\ Counts'
  <1>1. pt' = pt
    BY DEF Quiet
  <1> QED BY <1>1, DisjointSame, QuietCovered, QuietCounts

LEMMA QuietPins ==
  ASSUME TypeOK, PinsKept, NEW t \in Thread, Quiet(t), thr'[t].pc \notin Flushing,
         pinned' = pinned, cached' = cached
  PROVE  PinsKept'
  <1>1. pt' = pt /\ \A u \in Thread \ {t} : thr'[u] = thr[u]
    BY DEF Quiet
  <1>2. \A r \in Region : Pinned(r)' => Pinned(r)
    BY <1>1 DEF Pinned
  <1> QED BY <1>1, <1>2, PinsQuiet

LEMMA BeginMoves ==
  ASSUME TypeOK, NEW t \in Thread, NEW vaddr, NEW len, NEW start, NEW end, NEW alloc,
         Begin(t, vaddr, len, start, end, alloc)
  PROVE  /\ thr'[t].pc = "pin" /\ thr'[t].at = start /\ thr'[t].end = end /\ thr'[t].start = start
         /\ thr'[t].vaddr = vaddr /\ thr'[t].len = len /\ thr'[t].alloc = alloc
         /\ \A u \in Thread \ {t} : thr'[u] = thr[u]
  BY DEF TypeOK, Begin, Idle

LEMMA CoreUser ==
  ASSUME Core, NEW r \in Region, UserMap(r) \/ UserUnmap(r)
  PROVE  Core'
  <1>1. TypeOK' /\ Shapes'
    BY UserMapType, UserUnmapType DEF Core
  <1>2. UNCHANGED <<pt, pinned, cached, bufs, thr, lost>>
    BY DEF UserMap, UserUnmap
  <1> QED BY <1>1, <1>2, StillKept DEF Core

LEMMA CoreBegin ==
  ASSUME Core, NEW t \in Thread, NEW n \in Lengths, NEW a \in Address, Prealloc(t, a, n) \/ Alloc(t, n, a)
  PROVE  Core'
  <1>1. TypeOK' /\ Shapes'
    BY PreallocType, AllocType DEF Core
  <1>2. Quiet(t)
    BY PreallocQuiet, AllocQuiet DEF Core
  <1>3. pinned' = pinned /\ cached' = cached
    BY DEF Prealloc, Alloc
  <1>4. thr'[t].pc \notin Flushing
    <2>1. CASE Prealloc(t, a, n)
      <3>1. PICK start : Begin(t, a, n, start, a + n, FALSE)
        BY <2>1, PreallocIs DEF Core
      <3>2. thr'[t].pc = "pin"
        BY <3>1 DEF Core, TypeOK, Begin, Idle
      <3> QED BY <3>2 DEF Flushing
    <2>2. CASE Alloc(t, n, a)
      <3>1. PICK end : Begin(t, a, n, a, end, TRUE)
        BY <2>2, AllocIs DEF Core
      <3>2. thr'[t].pc = "pin"
        BY <3>1 DEF Core, TypeOK, Begin, Idle
      <3> QED BY <3>2 DEF Flushing
    <2> QED BY <2>1, <2>2
  <1> QED BY <1>1, <1>2, <1>3, <1>4, QuietKept, QuietPins DEF Core

LEMMA CorePin ==
  ASSUME Core, NEW t \in Thread, PinFound(t) \/ PinNew(t, Large) \/ PinNew(t, Small)
  PROVE  Core'
  <1>1. TypeOK' /\ Shapes'
    BY PinFoundType, PinNewType DEF Core
  <1>2. PICK e \in Region : PinStep(t, e)
    BY PinFoundStep, PinNewStep DEF Core
  <1>3. AllCovered' /\ Counts'
    BY <1>1, <1>2, PinStepCovered, PinStepCounts DEF Core
  <1>4. CASE PinFound(t)
    <2>1. PICK r \in Region :
              /\ thr[t].pc = "pin" /\ Pinned(r) /\ pt' = [pt EXCEPT ![r] = More(pt[r], FALSE)] /\ Past(t, r)
              /\ pinned' = pinned /\ cached' = cached
      BY <1>4, PinFoundIs DEF Core
    <2>2. \A s \in Region : Pinned(s)' <=> Pinned(s)
      BY <2>1, PinFoundPinned DEF Core
    <2>3. thr'[t].pc = "pin" /\ \A u \in Thread \ {t} : thr'[u] = thr[u]
      BY <1>2 DEF PinStep
    <2>4. PinsKept'
      BY <2>1, <2>2, <2>3, PinsQuiet DEF Core, Flushing
    <2>5. Disjoint'
      BY <2>2, DisjointKept DEF Core
    <2> QED BY <1>1, <1>3, <2>4, <2>5 DEF Core
  <1>5. CASE PinNew(t, Large) \/ PinNew(t, Small)
    <2>1. Disjoint' /\ PinsKept'
      BY <1>5, PinNewDisjoint, PinNewPins DEF Core
    <2> QED BY <1>1, <1>3, <2>1 DEF Core
  <1> QED BY <1>4, <1>5

LEMMA CoreTrack ==
  ASSUME Core, NEW t \in Thread, Track(t)
  PROVE  Core'
  <1>1. TypeOK' /\ Shapes'
    BY TrackType DEF Core
  <1>2. AllCovered' /\ Counts'
    BY <1>1, TrackCovered, TrackCounts DEF Core
  <1>3. thr' = [thr EXCEPT ![t] = Idle] /\ UNCHANGED <<pt, pinned, cached, wedged>>
    BY TrackIs DEF Core
  <1>4. thr'[t] = Idle /\ \A u \in Thread \ {t} : thr'[u] = thr[u]
    BY <1>3, ToIdle DEF Core
  <1>5. thr'[t].pc \notin Flushing /\ \A r \in Region : Pinned(r)' => Pinned(r)
    BY <1>3, <1>4 DEF Idle, Flushing, Pinned
  <1>6. PinsKept'
    BY <1>3, <1>4, <1>5, PinsQuiet DEF Core
  <1>7. Disjoint'
    BY <1>3, DisjointSame DEF Core
  <1> QED BY <1>1, <1>2, <1>6, <1>7 DEF Core

LEMMA CoreRelease ==
  ASSUME Core, NEW t \in Thread, NEW h \in BagToSet(held), Release(t, h)
  PROVE  Core'
  <1>1. TypeOK' /\ Shapes'
    BY ReleaseType DEF Core
  <1>2. AllCovered' /\ Counts'
    BY <1>1, ReleaseCovered, ReleaseCounts DEF Core
  <1>3. PICK me \in Activity :
            /\ thr' = [thr EXCEPT ![t] = me] /\ me.pc = "remove"
            /\ UNCHANGED <<pt, pinned, cached>>
    BY ReleaseIs DEF Core
  <1>4. thr'[t] = me /\ \A u \in Thread \ {t} : thr'[u] = thr[u]
    BY <1>3, ThreadMoves DEF Core
  <1>5. thr'[t].pc \notin Flushing /\ \A r \in Region : Pinned(r)' => Pinned(r)
    BY <1>3, <1>4 DEF Flushing, Pinned
  <1>6. PinsKept'
    BY <1>3, <1>4, <1>5, PinsQuiet DEF Core
  <1>7. Disjoint'
    BY <1>3, DisjointSame DEF Core
  <1> QED BY <1>1, <1>2, <1>6, <1>7 DEF Core

LEMMA CoreRemove ==
  ASSUME Core, NEW t \in Thread, RemovePage(t)
  PROVE  Core'
  <1>1. TypeOK' /\ Shapes'
    BY RemovePageType DEF Core
  <1>2. AllCovered' /\ Counts' /\ PinsKept'
    BY <1>1, RemovePageCovered, RemovePageCounts, RemovePagePins DEF Core
  <1>3. PICK r \in Region, me \in Activity : Taking(t, r, me) /\ (TakesOne(t, r, me) \/ TakesLast(t, r, me))
    BY RemovePageIs DEF Core
  <1>4. Pinned(r) /\ \A s \in Region \ {r} : Pinned(s)' <=> Pinned(s)
    BY <1>3, TakingPinned DEF Core, Taking
  <1>5. Disjoint'
    BY <1>4, DisjointKept DEF Core
  <1> QED BY <1>1, <1>2, <1>5 DEF Core

LEMMA CoreQuiet ==
  ASSUME Core, NEW t \in Thread,
         PrepareFails(t) \/ InvalPage(t) \/ InvalFails(t) \/ UnpinPage(t) \/ UnmapBuffer(t)
  PROVE  Core'
  <1>1. TypeOK' /\ Shapes'
    BY PrepareFailsType, InvalPageType, InvalFailsType, UnpinPageType, UnmapBufferType DEF Core
  <1>2. Quiet(t)
    BY PrepareFailsQuiet, InvalPageQuiet, InvalFailsQuiet, UnpinPageQuiet, UnmapBufferQuiet DEF Core
  <1>3. Disjoint' /\ AllCovered' /\ Counts'
    BY <1>1, <1>2, QuietKept DEF Core
  <1>4. PinsKept'
    <2>1. CASE InvalPage(t) \/ UnpinPage(t)
      BY <2>1, InvalPagePins, UnpinPagePins DEF Core
    <2>2. CASE PrepareFails(t) \/ UnmapBuffer(t)
      <3>1. thr' = [thr EXCEPT ![t] = Idle] /\ pinned' = pinned /\ cached' = cached /\ wedged' = wedged
        BY <2>2 DEF PrepareFails, UnmapBuffer
      <3>2. thr'[t] = Idle
        BY <3>1, ToIdle DEF Core
      <3>3. thr'[t].pc \notin Flushing
        BY <3>2 DEF Idle, Flushing
      <3> QED BY <1>2, <3>1, <3>3, QuietPins DEF Core
    <2>3. CASE InvalFails(t)
      <3>1. thr[t].pc = "inval" /\ Onward(t, "break") /\ pinned' = pinned /\ cached' = cached
        BY <2>3, InvalFailsIs DEF Core
      <3>2. thr'[t].pc = "break"
        BY <3>1, OnwardRange DEF Core
      <3> QED BY <1>2, <3>1, <3>2, QuietPins DEF Core, Flushing
    <2> QED BY <2>1, <2>2, <2>3
  <1> QED BY <1>1, <1>3, <1>4 DEF Core

LEMMA CoreKept == Core /\ [Next]_vars => Core'
  <1> SUFFICES ASSUME Core, [Next]_vars PROVE Core'
    OBVIOUS
  <1>1. CASE UNCHANGED vars
    <2>1. Disjoint' /\ AllCovered' /\ Counts' /\ PinsKept'
      BY <1>1, StillKept DEF vars, Core
    <2>2. TypeOK'
      BY <1>1 DEF vars, Core, TypeOK
    <2>3. Shapes'
      <3>1. \A u \in Thread : CallShape(thr[u])'
        BY <1>1 DEF vars, Core, Shapes, CallShape
      <3> QED BY <1>1, <3>1, ShapesOfBags DEF vars, Core
    <2> QED BY <2>1, <2>2, <2>3 DEF Core
  <1>2. CASE \E r \in Region : UserMap(r) \/ UserUnmap(r)
    BY <1>2, CoreUser
  <1>3. ASSUME NEW t \in Thread,
               \/ \E n \in Lengths : \E a \in Address : Prealloc(t, a, n) \/ Alloc(t, n, a)
               \/ \E h \in BagToSet(held) : Release(t, h)
        PROVE  Core'
    BY <1>3, CoreBegin, CoreRelease
  <1>4. ASSUME NEW t \in Thread, Call(t)
        PROVE  Core'
    BY <1>4, CorePin, CoreTrack, CoreRemove, CoreQuiet DEF Call
  <1> QED BY <1>1, <1>2, <1>3, <1>4 DEF Next

-----------------------------------------------------------------------------
(* As many descriptors as buffers, and as long ones.                       *)

\* The members of a bag at an address that are long enough, and how many.
LongAt(B, a, n) == {e \in BagToSet(B) : e.vaddr = a /\ e.len >= n}
CountAt(B, a, n) == Cardinality(Copies(B, LongAt(B, a, n)))

LEMMA CountAtIs ==
  /\ \A a, n : Held(a, n) = CountAt(held, a, n)
  /\ \A a, n : Described(a, n) = CountAt(bufs, a, n)
  BY DEF Held, Described, CountAt, LongAt

LEMMA CountType ==
  ASSUME NEW B, IsFiniteSet(Copies(B, BagToSet(B))), NEW a, NEW n
  PROVE  IsFiniteSet(Copies(B, LongAt(B, a, n))) /\ CountAt(B, a, n) \in Nat
  <1>1. LongAt(B, a, n) \subseteq BagToSet(B)
    BY DEF LongAt
  <1> QED BY <1>1, CopiesSubset DEF CountAt

LEMMA CountAdd ==
  ASSUME NEW B, IsABag(B), IsFiniteSet(Copies(B, BagToSet(B))), NEW x, NEW a, NEW n
  PROVE  CountAt(BagAdd(B, x), a, n) = CountAt(B, a, n) + (IF x.vaddr = a /\ x.len >= n THEN 1 ELSE 0)
  <1> DEFINE A == BagAdd(B, x)
             S == LongAt(B, a, n)
             T == LongAt(A, a, n)
  <1>1. IsABag(A) /\ BagToSet(A) = BagToSet(B) \union {x}
    BY BagAddIs
  <1>2. IsFiniteSet(Copies(B, S)) /\ Cardinality(Copies(B, S)) \in Nat
    BY CountType DEF CountAt
  <1>3. CASE x.vaddr = a /\ x.len >= n
    <2>1. S \subseteq BagToSet(B) /\ T = S \union {x} /\ (x \in BagToSet(B) => x \in S)
      BY <1>1, <1>3 DEF LongAt
    <2>2. PICK c : c \notin Copies(B, S) /\ Copies(A, T) = Copies(B, S) \union {c}
      BY <2>1, CopiesAdd
    <2>3. Cardinality(Copies(A, T)) = Cardinality(Copies(B, S)) + 1
      BY <1>2, <2>2, FS_AddElement
    <2> QED BY <1>3, <2>3 DEF CountAt
  <1>4. CASE ~(x.vaddr = a /\ x.len >= n)
    <2>1. S \subseteq BagToSet(B) /\ T = S /\ x \notin S
      BY <1>1, <1>4 DEF LongAt
    <2>2. Copies(A, T) = Copies(B, S)
      BY <2>1, CopiesAddOther
    <2> QED BY <1>2, <1>4, <2>2 DEF CountAt
  <1> QED BY <1>3, <1>4

LEMMA CountRemove ==
  ASSUME NEW B, IsABag(B), IsFiniteSet(Copies(B, BagToSet(B))), NEW x \in BagToSet(B), NEW a, NEW n
  PROVE  CountAt(BagRemove(B, x), a, n) = CountAt(B, a, n) - (IF x.vaddr = a /\ x.len >= n THEN 1 ELSE 0)
  <1> DEFINE A == BagRemove(B, x)
             S == LongAt(B, a, n)
             T == LongAt(A, a, n)
  <1>1. IsABag(A) /\ BagToSet(A) \subseteq BagToSet(B)
    BY BagRemoveIs
  <1>2. IsFiniteSet(Copies(B, S)) /\ Cardinality(Copies(B, S)) \in Nat
    BY CountType DEF CountAt
  <1>3. S \subseteq BagToSet(B) /\ T = S \intersect BagToSet(A)
    BY <1>1 DEF LongAt
  <1>4. CASE x.vaddr = a /\ x.len >= n
    <2>1. x \in S
      BY <1>4 DEF LongAt
    <2>2. PICK c \in Copies(B, S) : Copies(A, T) = Copies(B, S) \ {c}
      BY <1>3, <2>1, CopiesRemove
    <2>3. Cardinality(Copies(A, T)) = Cardinality(Copies(B, S)) - 1
      <3>1. Cardinality(Copies(B, S) \ {c}) = Cardinality(Copies(B, S)) - 1
        BY <1>2, FS_RemoveElement
      <3> QED BY <2>2, <3>1
    <2> QED BY <1>4, <2>3 DEF CountAt
  <1>5. CASE ~(x.vaddr = a /\ x.len >= n)
    <2>1. x \notin S
      BY <1>5 DEF LongAt
    <2>2. Copies(A, S) = Copies(B, S) /\ S \subseteq BagToSet(A)
      BY <1>3, <2>1, CopiesRemoveOther
    <2>3. T = S
      BY <1>3, <2>2
    <2> QED BY <1>2, <1>5, <2>2, <2>3 DEF CountAt
  <1> QED BY <1>4, <1>5

LEMMA FiniteBags ==
  ASSUME TypeOK, Shapes
  PROVE  /\ IsABag(bufs) /\ IsABag(held)
         /\ IsFiniteSet(Copies(bufs, BagToSet(bufs))) /\ IsFiniteSet(Copies(held, BagToSet(held)))
  BY BagsType DEF Shapes

LEMMA HeldNat ==
  ASSUME TypeOK, Shapes, NEW a, NEW n
  PROVE  Held(a, n) \in Nat /\ Described(a, n) \in Nat
  BY FiniteBags, CountType, CountAtIs

\* How a buffer that is tracked, and one that is released, changes the counts.
LEMMA TrackCount ==
  ASSUME TypeOK, Shapes, NEW t \in Thread, Track(t), NEW a, NEW n
  PROVE  /\ Held(a, n) \in Nat /\ Described(a, n) \in Nat
         /\ \E k \in {0, 1} : Held(a, n)' = Held(a, n) + k /\ Described(a, n)' = Described(a, n) + k
  <1>1. PICK d, h :
            /\ d.vaddr = h.vaddr /\ d.len = h.len
            /\ bufs' = BagAdd(bufs, d) /\ held' = BagAdd(held, h)
    BY TrackIs
  <1>2. /\ CountAt(BagAdd(bufs, d), a, n) = CountAt(bufs, a, n) + (IF d.vaddr = a /\ d.len >= n THEN 1 ELSE 0)
        /\ CountAt(BagAdd(held, h), a, n) = CountAt(held, a, n) + (IF h.vaddr = a /\ h.len >= n THEN 1 ELSE 0)
    BY FiniteBags, CountAdd
  <1>3. /\ Held(a, n)' = CountAt(BagAdd(held, h), a, n)
        /\ Described(a, n)' = CountAt(BagAdd(bufs, d), a, n)
    BY <1>1 DEF Held, Described, CountAt, LongAt, Copies
  <1>4. CountAt(bufs, a, n) \in Nat /\ CountAt(held, a, n) \in Nat
    BY FiniteBags, CountType
  <1> QED BY <1>1, <1>2, <1>3, <1>4, CountAtIs

LEMMA ReleaseCount ==
  ASSUME TypeOK, Shapes, NEW h \in BagToSet(held), NEW d \in BagToSet(bufs), d.vaddr = h.vaddr,
         bufs' = BagRemove(bufs, d), held' = BagRemove(held, h), NEW a, NEW n
  PROVE  /\ Held(a, n) \in Nat /\ Described(a, n) \in Nat
         /\ Held(a, n)' = Held(a, n) - (IF h.vaddr = a /\ h.len >= n THEN 1 ELSE 0)
         /\ Described(a, n)' = Described(a, n) - (IF h.vaddr = a /\ d.len >= n THEN 1 ELSE 0)
  <1>1. /\ CountAt(BagRemove(bufs, d), a, n) = CountAt(bufs, a, n) - (IF d.vaddr = a /\ d.len >= n THEN 1 ELSE 0)
        /\ CountAt(BagRemove(held, h), a, n) = CountAt(held, a, n) - (IF h.vaddr = a /\ h.len >= n THEN 1 ELSE 0)
    BY FiniteBags, CountRemove
  <1>2. /\ Held(a, n)' = CountAt(BagRemove(held, h), a, n)
        /\ Described(a, n)' = CountAt(BagRemove(bufs, d), a, n)
    BY DEF Held, Described, CountAt, LongAt, Copies
  <1>3. CountAt(bufs, a, n) \in Nat /\ CountAt(held, a, n) \in Nat
    BY FiniteBags, CountType
  <1> QED BY <1>1, <1>2, <1>3, CountAtIs

\* A buffer that is counted.
LEMMA DescribedSome ==
  ASSUME TypeOK, Shapes, NEW d \in BagToSet(bufs), NEW n \in Nat, d.len >= n
  PROVE  Described(d.vaddr, n) # 0
  <1>1. d \in LongAt(bufs, d.vaddr, n)
    BY DEF LongAt
  <1>2. bufs[d] \in Nat \ {0}
    BY BagsType DEF IsABag, BagToSet
  <1>3. <<d, 1>> \in Copies(bufs, LongAt(bufs, d.vaddr, n))
    BY <1>1, <1>2, CopiesWithin
  <1>4. IsFiniteSet(Copies(bufs, LongAt(bufs, d.vaddr, n)))
    BY FiniteBags, CountType
  <1>5. CountAt(bufs, d.vaddr, n) # 0
    BY <1>3, <1>4, FS_EmptySet DEF CountAt
  <1> QED BY <1>5, CountAtIs

LEMMA HeldSome ==
  ASSUME TypeOK, Shapes, NEW a \in Address, NEW n \in Nat, Held(a, n) # 0
  PROVE  \E h \in BagToSet(held) : h.vaddr = a /\ h.len >= n
  <1> SUFFICES ASSUME \A h \in BagToSet(held) : ~(h.vaddr = a /\ h.len >= n) PROVE FALSE
    OBVIOUS
  <1>1. Copies(held, {h \in BagToSet(held) : h.vaddr = a /\ h.len >= n}) = {}
    BY CopiesWithin
  <1> QED BY <1>1, FS_EmptySet DEF Held

LEMMA DominatedSame ==
  ASSUME Dominated, UNCHANGED <<bufs, held>>
  PROVE  Dominated'
  BY DEF Dominated, Held, Described, Copies

LEMMA TrackDominated ==
  ASSUME TypeOK, Shapes, Dominated, NEW t \in Thread, Track(t)
  PROVE  Dominated'
  <1>1. ASSUME NEW a \in Address, NEW n \in Nat
        PROVE  Held(a, 0)' = Described(a, 0)' /\ Held(a, n)' <= Described(a, n)'
    <2>1. Held(a, 0) = Described(a, 0) /\ Held(a, n) <= Described(a, n)
      BY DEF Dominated
    <2>2. Held(a, 0)' = Described(a, 0)'
      BY <2>1, TrackCount
    <2>3. Held(a, n)' <= Described(a, n)'
      BY <2>1, TrackCount
    <2> QED BY <2>2, <2>3
  <1> QED BY <1>1 DEF Dominated

LEMMA ReleaseDominated ==
  ASSUME TypeOK, Shapes, Dominated, NEW t \in Thread, NEW h \in BagToSet(held), Release(t, h)
  PROVE  Dominated'
  <1>1. PICK d \in BagToSet(bufs) :
            /\ d.vaddr = h.vaddr /\ \A e \in BagToSet(bufs) : e.vaddr = h.vaddr => d.len <= e.len
            /\ bufs' = BagRemove(bufs, d) /\ held' = BagRemove(held, h)
    BY ReleaseIs
  <1>2. h.len \in Nat /\ d.len \in Nat
    BY BufferIs, DescIs
  <1>3. ASSUME NEW a, NEW n
        PROVE  /\ Held(a, n) \in Nat /\ Described(a, n) \in Nat
               /\ Held(a, n)' = Held(a, n) - (IF h.vaddr = a /\ h.len >= n THEN 1 ELSE 0)
               /\ Described(a, n)' = Described(a, n) - (IF h.vaddr = a /\ d.len >= n THEN 1 ELSE 0)
    BY <1>1, ReleaseCount
  <1>4. ASSUME NEW a \in Address, NEW n \in Nat
        PROVE  Held(a, 0)' = Described(a, 0)' /\ Held(a, n)' <= Described(a, n)'
    <2>1. Held(a, 0) = Described(a, 0) /\ Held(a, n) <= Described(a, n)
      BY DEF Dominated
    <2>2. Held(a, 0)' = Described(a, 0)'
      BY <1>2, <1>3, <2>1
    <2>3. CASE h.vaddr = a /\ d.len >= n /\ ~(h.len >= n)
      <3>1. LongAt(bufs, a, n) = LongAt(bufs, a, 0)
        <4>1. \A e \in BagToSet(bufs) : e.vaddr = a => e.len >= n /\ e.len >= 0
          BY <1>1, <1>2, <2>3, DescIs
        <4> QED BY <4>1 DEF LongAt
      <3>2. Described(a, n) = Described(a, 0)
        BY <3>1, CountAtIs DEF CountAt
      <3>3. Held(a, n) <= Held(a, 0) - 1
        <4> DEFINE X == Copies(held, LongAt(held, a, n))
                   Y == Copies(held, LongAt(held, a, 0))
        <4>1. <<h, 1>> \in Y
          <5>1. h \in LongAt(held, a, 0) /\ held[h] \in Nat \ {0}
            BY <1>2, <2>3, FiniteBags DEF LongAt, IsABag, BagToSet
          <5> QED BY <5>1, CopiesWithin
        <4>2. <<h, 1>> \notin X
          BY <2>3, CopiesWithin DEF LongAt
        <4>3. X \subseteq Y
          <5>1. LongAt(held, a, n) \subseteq LongAt(held, a, 0)
            BY BufferIs DEF LongAt
          <5> QED BY <5>1 DEF Copies
        <4>4. IsFiniteSet(Y) /\ IsFiniteSet(X) /\ Cardinality(X) = Held(a, n) /\ Cardinality(Y) = Held(a, 0)
          BY FiniteBags, CountType, CountAtIs DEF CountAt
        <4> HIDE DEF X, Y
        <4>5. X \subseteq Y \ {<<h, 1>>}
          BY <4>2, <4>3
        <4>6. Cardinality(Y \ {<<h, 1>>}) = Cardinality(Y) - 1 /\ IsFiniteSet(Y \ {<<h, 1>>})
          BY <4>1, <4>4, FS_RemoveElement
        <4>7. Cardinality(X) <= Cardinality(Y \ {<<h, 1>>})
          BY <4>5, <4>6, FewerIn
        <4> QED BY <4>4, <4>6, <4>7
      <3>4. Held(a, n) <= Described(a, n) - 1
        BY <2>1, <3>2, <3>3
      <3>5. Held(a, n)' = Held(a, n) - 0 /\ Described(a, n)' = Described(a, n) - 1
        BY <1>3, <2>3
      <3> QED BY <1>3, <2>2, <3>4, <3>5
    <2>4. CASE ~(h.vaddr = a /\ d.len >= n /\ ~(h.len >= n))
      <3>1. Held(a, n) \in Nat /\ Described(a, n) \in Nat
        BY <1>3
      <3>2. \/ Described(a, n)' = Described(a, n) /\ Held(a, n)' <= Held(a, n)
            \/ Described(a, n)' = Described(a, n) - 1 /\ Held(a, n)' = Held(a, n) - 1
        BY <1>3, <2>4, <3>1
      <3> QED BY <1>3, <2>1, <2>2, <3>1, <3>2
    <2> QED BY <2>3, <2>4
  <1> QED BY <1>4 DEF Dominated

\* The user holds a buffer where one is described.
LEMMA HeldAtDesc ==
  ASSUME TypeOK, Shapes, Dominated, NEW d \in BagToSet(bufs)
  PROVE  \E h \in BagToSet(held) : h.vaddr = d.vaddr
  <1>1. d.vaddr \in Address /\ d.len \in Nat \ {0}
    BY DescIs
  <1>2. Described(d.vaddr, 0) # 0
    BY <1>1, DescribedSome
  <1>3. Held(d.vaddr, 0) # 0
    BY <1>1, <1>2 DEF Dominated
  <1> QED BY <1>1, <1>3, HeldSome

LEMMA HeldDescribed ==
  ASSUME TypeOK, Shapes, Dominated, NEW h \in BagToSet(held)
  PROVE  \E d \in BagToSet(bufs) : d.vaddr = h.vaddr /\ d.len >= h.len
  <1> DEFINE X == Copies(held, LongAt(held, h.vaddr, h.len))
             Y == Copies(bufs, LongAt(bufs, h.vaddr, h.len))
  <1>1. h.vaddr \in Address /\ h.len \in Nat
    BY BufferIs
  <1>2. Cardinality(X) <= Cardinality(Y)
    <2>1. Held(h.vaddr, h.len) <= Described(h.vaddr, h.len)
      BY <1>1 DEF Dominated
    <2> QED BY <2>1, CountAtIs DEF CountAt
  <1>3. <<h, 1>> \in X
    <2>1. h \in LongAt(held, h.vaddr, h.len) /\ held[h] \in Nat \ {0}
      BY <1>1, FiniteBags DEF LongAt, IsABag, BagToSet
    <2> QED BY <2>1, CopiesWithin
  <1>4. IsFiniteSet(X) /\ IsFiniteSet(Y) /\ Cardinality(X) \in Nat /\ Cardinality(Y) \in Nat
    BY FiniteBags, CountType, FS_CardinalityType
  <1>5. \A y \in Y : \E d \in LongAt(bufs, h.vaddr, h.len) : TRUE
    BY CopiesWithin
  <1> HIDE DEF X, Y
  <1>6. Cardinality(X) # 0
    BY <1>3, <1>4, FS_EmptySet
  <1>7. Y # {}
    BY <1>2, <1>4, <1>6, FS_EmptySet
  <1> QED BY <1>5, <1>7 DEF LongAt

-----------------------------------------------------------------------------
(* Pages in use.                                                           *)

LEMMA PagesMono ==
  ASSUME NEW from \in Nat, NEW end \in Nat, NEW from2 \in Nat, NEW end2 \in Nat,
         from <= from2, end2 <= end
  PROVE  Pages(from2, end2) \subseteq Pages(from, end)
  <1>1. from2 .. end2 - 1 \subseteq from .. end - 1
    OBVIOUS
  <1> QED BY <1>1 DEF Pages

LEMMA PageMeets ==
  ASSUME NEW r \in Region, NEW from \in Nat, NEW end \in Nat, end <= Units, NEW p \in Pages(from, end),
         r.at <= p, p < r.at + r.size
  PROVE  p \in Page /\ p \in Nat /\ p \in Address /\ Meets(r, from, end)
  <1>1. p \in Page /\ p < end /\ from < p + Small /\ from < end
    BY PagesTouched
  <1>2. p \in Nat /\ Aligned(p, Small) /\ p \in Address /\ Small \in Nat \ {0}
    BY <1>1, PageIs, AddressIs, Sizes
  <1>3. r.at \in Nat /\ r.size \in Nat
    BY RegionIs
  <1>4. p + Small <= r.at + r.size
    BY <1>2, <1>3, PageWhole
  <1> QED BY <1>1, <1>2, <1>3, <1>4 DEF Meets

LEMMA LandOfDesc ==
  ASSUME TypeOK, Shapes, NEW d \in BagToSet(bufs)
  PROVE  /\ Pages(d.vaddr, EndOf(d)) \subseteq DescLand(d) /\ DescLand(d) \subseteq Page
         /\ \E p : p \in DescLand(d)
  <1>1. d.start \in Nat /\ d.vaddr \in Nat /\ EndOf(d) \in Nat /\ EndOf(d) <= Units
        /\ d.start <= d.vaddr /\ d.start < EndOf(d) /\ Aligned(d.start, Small)
    BY DescIs, DescShapeIs
  <1>2. Pages(d.vaddr, EndOf(d)) \subseteq Pages(d.start, EndOf(d))
    BY <1>1, PagesMono
  <1>3. \A p \in Pages(d.start, EndOf(d)) : p \in Page
    BY <1>1, PagesTouched
  <1>4. d.start \in Pages(d.start, EndOf(d))
    <2>1. d.start \in Page
      BY <1>1, PageIs, Sizes
    <2> QED BY <1>1, <2>1, PagesIn
  <1> QED BY <1>2, <1>3, <1>4 DEF DescLand

LEMMA InBufferIs ==
  ASSUME TypeOK, Shapes, NEW p, InBuffer(p)
  PROVE  /\ p \in Page /\ p \in Nat /\ p \in Address
         /\ \E d \in BagToSet(bufs) :
               /\ p \in Pages(d.vaddr, EndOf(d)) /\ p \in DescLand(d)
               /\ \A r \in Region : r.at <= p /\ p < r.at + r.size => Meets(r, d.start, EndOf(d))
  <1>1. PICK d \in BagToSet(bufs) : p \in Pages(d.vaddr, EndOf(d))
    BY DEF InBuffer
  <1>2. p \in DescLand(d) /\ p \in Page
    BY <1>1, LandOfDesc
  <1>3. d.start \in Nat /\ EndOf(d) \in Nat /\ EndOf(d) <= Units
    BY DescIs, DescShapeIs
  <1>4. \A r \in Region : r.at <= p /\ p < r.at + r.size => Meets(r, d.start, EndOf(d))
    BY <1>2, <1>3, PageMeets DEF DescLand
  <1> QED BY <1>1, <1>2, <1>4, PageIs, AddressIs

LEMMA HeldInBuffer ==
  ASSUME TypeOK, Shapes, Dominated, NEW h \in BagToSet(held), NEW p \in Pages(h.vaddr, h.vaddr + h.len)
  PROVE  InBuffer(p)
  <1>1. PICK d \in BagToSet(bufs) : d.vaddr = h.vaddr /\ d.len >= h.len
    BY HeldDescribed
  <1>2. h.vaddr \in Nat /\ h.len \in Nat /\ d.len \in Nat /\ EndOf(d) = d.vaddr + d.len
    BY BufferIs, DescIs DEF EndOf
  <1>3. Pages(h.vaddr, h.vaddr + h.len) \subseteq Pages(d.vaddr, EndOf(d))
    BY <1>1, <1>2, PagesMono
  <1> QED BY <1>3 DEF InBuffer

LEMMA InBufferFound ==
  ASSUME TypeOK, Shapes, AllCovered, NEW p, InBuffer(p)
  PROVE  Found(p) # {}
  <1>1. PICK d \in BagToSet(bufs) : p \in DescLand(d)
    BY InBufferIs
  <1> QED BY <1>1 DEF AllCovered, Covered, DescLand

\* What is found at a page in use stays, and so does what is known of it.
Keeps ==
    \A p : InBuffer(p) => \A s \in Found(p) : s \in Found(p)' /\ (s \in skipped => s \in skipped')

LEMMA KeepsPinned ==
  ASSUME skipped \subseteq skipped', \A s \in Region : Pinned(s) => Pinned(s)', TypeOK, Shapes
  PROVE  Keeps
  <1>1. ASSUME NEW p, InBuffer(p), NEW s \in Found(p) PROVE s \in Found(p)'
    <2>1. p \in Address
      BY <1>1, InBufferIs
    <2>2. s \in Region /\ Pinned(s) /\ s.at <= p /\ p < s.at + s.size
      BY <1>1, <2>1, FoundIs
    <2> QED BY <2>1, <2>2, FoundNext
  <1> QED BY <1>1 DEF Keeps

LEMMA KeepsRemove ==
  ASSUME Core, NEW t \in Thread, RemovePage(t)
  PROVE  Keeps
  <1> USE DEF Core
  <1>1. PICK r \in Region, me \in Activity : Taking(t, r, me) /\ (TakesOne(t, r, me) \/ TakesLast(t, r, me))
    BY RemovePageIs
  <1>2. Meets(r, Lo(t), Hi(t))
    BY <1>1, TakingRange
  <1>3. /\ \A s \in Region \ {r} : Pinned(s)' <=> Pinned(s)
        /\ Pinned(r)' <=> pt[r].refs # 1
    BY <1>1, TakingPinned
  <1>4. Pinned(r) /\ skipped' = (IF pt[r].refs = 1 THEN skipped \ {r} ELSE skipped) \union Stepped(t, r)
    BY <1>1 DEF Taking
  <1>5. ASSUME NEW p, InBuffer(p), NEW s \in Found(p)
        PROVE  s \in Found(p)' /\ (s \in skipped => s \in skipped')
    <2>1. p \in Address
      BY <1>5, InBufferIs
    <2>2. s \in Region /\ Pinned(s) /\ s.at <= p /\ p < s.at + s.size
      BY <1>5, <2>1, FoundIs
    <2>3. PICK d \in BagToSet(bufs) : Meets(s, d.start, EndOf(d))
      BY <1>5, <2>2, InBufferIs
    <2>4. s = r => pt[r].refs # 1
      BY <1>2, <1>4, <2>3, LastUser
    <2>5. Pinned(s)'
      BY <1>3, <2>2, <2>4
    <2>6. s \in Found(p)'
      BY <2>1, <2>2, <2>5, FoundNext
    <2> QED BY <1>4, <2>4, <2>6
  <1> QED BY <1>5 DEF Keeps

-----------------------------------------------------------------------------
(* Who may unmap which memory.                                             *)

NoNewAlloc == \A s \in Region : Pinned(s)' /\ pt'[s].alloc => Pinned(s) /\ pt[s].alloc

\* The owners of a state are owners of the one before, of the same memory.
LEMMA OwnersKept ==
  ASSUME Owners,
         \A d \in BagToSet(bufs') : DescOwns(d)' =>
             /\ d \in BagToSet(bufs) /\ DescOwns(d) /\ bufs'[d] = bufs[d]
             /\ \A p \in DescLand(d) : mem[p] = "mpf" => mem'[p] = "mpf",
         \A u \in Thread : CallOwns(u)' =>
             /\ CallOwns(u) /\ thr'[u].start = thr[u].start /\ thr'[u].end = thr[u].end
             /\ thr'[u].vaddr = thr[u].vaddr
             /\ \A p \in Land(u) : mem[p] = "mpf" => mem'[p] = "mpf",
         \A u \in Thread : thr'[u].pc = "pin" /\ ~thr'[u].alloc => ~MayUnmap(thr[u].start, thr[u].at)'
  PROVE  Owners'
  <1>1. \A d : DescLand(d)' = DescLand(d)
    BY DEF DescLand, EndOf
  <1>2. \A u \in Thread : CallOwns(u)' => Land(u)' = Land(u)
    BY DEF Land
  <1>3. \A d \in BagToSet(bufs') : DescOwns(d)' =>
            d.start = d.vaddr /\ bufs'[d] = 1 /\ \A p \in DescLand(d)' : mem'[p] = "mpf"
    BY <1>1 DEF Owners
  <1>4. \A d, e \in BagToSet(bufs') : DescOwns(d)' /\ DescOwns(e)' /\ d # e =>
            DescLand(d)' \intersect DescLand(e)' = {}
    BY <1>1 DEF Owners
  <1>5. \A u \in Thread : CallOwns(u)' => thr'[u].start = thr'[u].vaddr /\ \A p \in Land(u)' : mem'[p] = "mpf"
    BY <1>2 DEF Owners
  <1>6. \A u \in Thread : \A d \in BagToSet(bufs') :
            CallOwns(u)' /\ DescOwns(d)' => Land(u)' \intersect DescLand(d)' = {}
    BY <1>1, <1>2 DEF Owners
  <1>7. \A t, u \in Thread : CallOwns(t)' /\ CallOwns(u)' /\ t # u => Land(t)' \intersect Land(u)' = {}
    BY <1>2 DEF Owners
  <1> QED BY <1>3, <1>4, <1>5, <1>6, <1>7 DEF Owners

LEMMA MayUnmapLess ==
  ASSUME NEW from, NEW end,
         \A s \in Region : Pinned(s)' /\ pt'[s].alloc => (Pinned(s) /\ pt[s].alloc) \/ ~Meets(s, from, end)
  PROVE  MayUnmap(from, end)' => MayUnmap(from, end)
  BY DEF MayUnmap, Meets

LEMMA DescOwnsLess ==
  ASSUME NoNewAlloc, NEW d
  PROVE  DescOwns(d)' => DescOwns(d)
  <1>1. \A from, end : MayUnmap(from, end)' => MayUnmap(from, end)
    BY MayUnmapLess DEF NoNewAlloc
  <1> QED BY <1>1 DEF DescOwns, EndOf

LEMMA CallOwnsLess ==
  ASSUME NoNewAlloc, NEW u \in Thread, thr'[u].at = thr[u].at, thr'[u].end = thr[u].end,
         thr'[u].pc = thr[u].pc \/ (thr[u].pc \in Removing /\ thr'[u].pc # "pin"),
         thr'[u].alloc <=> thr[u].alloc
  PROVE  CallOwns(u)' => CallOwns(u)
  <1>1. \A from, end : MayUnmap(from, end)' => MayUnmap(from, end)
    BY MayUnmapLess DEF NoNewAlloc
  <1>2. MayUnmap(thr[u].at, thr[u].end)' => MayUnmap(thr[u].at, thr[u].end)
    <2>1. PICK from, end : from = thr[u].at /\ end = thr[u].end
      OBVIOUS
    <2>2. MayUnmap(thr[u].at, thr[u].end)' <=> MayUnmap(from, end)'
      BY <2>1 DEF MayUnmap, Meets
    <2> QED BY <1>1, <2>1, <2>2
  <1> QED BY <1>2 DEF CallOwns, Removing

\* A call for the user's own memory that does not move.
LEMMA UserPins ==
  ASSUME Owners, NEW u \in Thread, thr'[u] = thr[u],
         \A s \in Region : Pinned(s)' /\ pt'[s].alloc => (Pinned(s) /\ pt[s].alloc) \/ ~Meets(s, Lo(u), Hi(u))
  PROVE  thr'[u].pc = "pin" /\ ~thr'[u].alloc => ~MayUnmap(thr[u].start, thr[u].at)'
  <1> SUFFICES ASSUME thr[u].pc = "pin", ~thr[u].alloc
               PROVE  ~MayUnmap(thr[u].start, thr[u].at)'
    OBVIOUS
  <1>1. PICK from, end : from = thr[u].start /\ end = thr[u].at
    OBVIOUS
  <1>2. Lo(u) = from /\ Hi(u) = end
    BY <1>1 DEF Lo, Hi
  <1>3. ~MayUnmap(from, end)
    BY <1>1 DEF Owners
  <1>4. ~MayUnmap(from, end)'
    BY <1>2, <1>3, MayUnmapLess
  <1> QED BY <1>1, <1>4 DEF MayUnmap, Meets

\* Steps that neither count an entry nor touch a buffer or the memory.
LEMMA OwnersSteady ==
  ASSUME Owners, NEW t \in Thread, UNCHANGED <<pt, bufs, mem>>, \A u \in Thread \ {t} : thr'[u] = thr[u],
         thr'[t].pc # "pin",
         \/ thr'[t].pc = "idle"
         \/ /\ thr[t].pc \in Removing /\ thr'[t].at = thr[t].at /\ thr'[t].end = thr[t].end
            /\ thr'[t].start = thr[t].start /\ thr'[t].vaddr = thr[t].vaddr /\ (thr'[t].alloc <=> thr[t].alloc)
  PROVE  Owners'
  <1>1. NoNewAlloc
    BY DEF NoNewAlloc, Pinned
  <1>2. \A d : DescOwns(d)' => DescOwns(d)
    BY <1>1, DescOwnsLess
  <1>3. ASSUME NEW u \in Thread, CallOwns(u)'
        PROVE  /\ CallOwns(u) /\ thr'[u].start = thr[u].start /\ thr'[u].end = thr[u].end
               /\ thr'[u].vaddr = thr[u].vaddr
    <2>1. CASE u # t
      BY <1>1, <1>3, <2>1, CallOwnsLess
    <2>2. CASE u = t
      <3>1. thr'[t].pc # "idle"
        BY <1>3, <2>2 DEF CallOwns, Removing
      <3> QED BY <1>1, <1>3, <2>2, <3>1, CallOwnsLess
    <2> QED BY <2>1, <2>2
  <1>4. ASSUME NEW u \in Thread
        PROVE  thr'[u].pc = "pin" /\ ~thr'[u].alloc => ~MayUnmap(thr[u].start, thr[u].at)'
    BY <1>1, UserPins DEF NoNewAlloc
  <1>5. bufs' = bufs /\ mem' = mem
    OBVIOUS
  <1> QED BY <1>2, <1>3, <1>4, <1>5, OwnersKept

LEMMA OwnersUser ==
  ASSUME Owners, UNCHANGED <<pt, bufs, thr>>, \A p \in Page : mem[p] = "mpf" => mem'[p] = "mpf",
         \A d \in BagToSet(bufs) : DescLand(d) \subseteq Page,
         \A u \in Thread : CallOwns(u) => Land(u) \subseteq Page
  PROVE  Owners'
  <1>1. NoNewAlloc
    BY DEF NoNewAlloc, Pinned
  <1>2. \A d : DescOwns(d)' => DescOwns(d)
    BY <1>1, DescOwnsLess
  <1>3. ASSUME NEW u \in Thread, CallOwns(u)' PROVE CallOwns(u)
    BY <1>1, <1>3, CallOwnsLess
  <1>4. ASSUME NEW u \in Thread
        PROVE  thr'[u].pc = "pin" /\ ~thr'[u].alloc => ~MayUnmap(thr[u].start, thr[u].at)'
    BY <1>1, UserPins DEF NoNewAlloc
  <1>5. bufs' = bufs /\ thr' = thr
    OBVIOUS
  <1> QED BY <1>2, <1>3, <1>4, <1>5, OwnersKept

\* The memory of a call.
LEMMA LandOfCall ==
  ASSUME TypeOK, Shapes, NEW t \in Thread, thr[t].pc # "idle"
  PROVE  /\ Land(t) \subseteq Page
         /\ Pages(thr[t].vaddr, thr[t].vaddr + thr[t].len) \subseteq Land(t)
         /\ \A p : p \in Land(t) <=> p \in Page /\ thr[t].start <= p /\ p < thr[t].end
  <1>1. /\ thr[t].start \in Nat /\ thr[t].end \in Nat /\ thr[t].vaddr \in Nat /\ thr[t].len \in Nat
        /\ Aligned(thr[t].start, Small) /\ thr[t].end <= Units
        /\ thr[t].start <= thr[t].vaddr /\ thr[t].vaddr + thr[t].len <= thr[t].end
    BY ThreadIs, CallIs
  <1>2. \A p : p \in Land(t) <=> p \in Page /\ thr[t].start <= p /\ p < thr[t].end
    BY <1>1, PagesIn DEF Land
  <1>3. Pages(thr[t].vaddr, thr[t].vaddr + thr[t].len) \subseteq Pages(thr[t].start, thr[t].end)
    <2>1. thr[t].vaddr + thr[t].len \in Nat
      BY <1>1
    <2>2. /\ thr[t].start \in Nat /\ thr[t].end \in Nat /\ thr[t].vaddr \in Nat
          /\ thr[t].start <= thr[t].vaddr /\ thr[t].vaddr + thr[t].len <= thr[t].end
      BY <1>1
    <2> QED BY <2>1, <2>2, PagesMono
  <1> QED BY <1>2, <1>3 DEF Land

\* What MPF unmaps is the memory of the call alone.
LEMMA OwnersUnmap ==
  ASSUME TypeOK, Shapes, Owners, NEW t \in Thread, UnmapBuffer(t)
  PROVE  Owners'
  <1>1. /\ thr[t].pc \in {"unmap", "break"} /\ thr' = [thr EXCEPT ![t] = Idle] /\ UNCHANGED <<pt, bufs>>
        /\ wedged' = wedged
        /\ \/ mem' = mem
           \/ thr[t].alloc /\ Unmapped(thr[t].start, thr[t].start + thr[t].len)
    BY UnmapBufferIs
  <1>2. thr'[t] = Idle /\ \A u \in Thread \ {t} : thr'[u] = thr[u]
    BY <1>1, ToIdle
  <1>3. thr'[t].pc = "idle"
    BY <1>2 DEF Idle
  <1>4. CASE mem' = mem
    BY <1>1, <1>2, <1>3, <1>4, OwnersSteady
  <1>5. CASE thr[t].alloc /\ Unmapped(thr[t].start, thr[t].start + thr[t].len)
    <2>1. CallOwns(t) /\ thr[t].start = thr[t].vaddr /\ thr[t].end = thr[t].vaddr + thr[t].len
      <3>1. CallOwns(t)
        BY <1>1, <1>5 DEF CallOwns, Removing
      <3>2. thr[t].end = thr[t].vaddr + thr[t].len
        BY <1>1 DEF Shapes, CallShape, Removing
      <3> QED BY <3>1, <3>2 DEF Owners
    <2>2. \A p \in Page : p \notin Land(t) => mem'[p] = mem[p]
      BY <1>5, <2>1 DEF Unmapped, Land
    <2>3. NoNewAlloc
      BY <1>1 DEF NoNewAlloc, Pinned
    <2>4. ASSUME NEW d \in BagToSet(bufs'), DescOwns(d)'
          PROVE  /\ d \in BagToSet(bufs) /\ DescOwns(d) /\ bufs'[d] = bufs[d]
                 /\ \A p \in DescLand(d) : mem[p] = "mpf" => mem'[p] = "mpf"
      <3>1. d \in BagToSet(bufs) /\ DescOwns(d) /\ bufs'[d] = bufs[d]
        BY <1>1, <2>3, <2>4, DescOwnsLess
      <3>2. Land(t) \intersect DescLand(d) = {} /\ DescLand(d) \subseteq Page
        BY <2>1, <3>1, LandOfDesc DEF Owners
      <3> QED BY <2>2, <3>1, <3>2
    <2>5. ASSUME NEW u \in Thread, CallOwns(u)'
          PROVE  /\ CallOwns(u) /\ thr'[u].start = thr[u].start /\ thr'[u].end = thr[u].end
                 /\ thr'[u].vaddr = thr[u].vaddr
                 /\ \A p \in Land(u) : mem[p] = "mpf" => mem'[p] = "mpf"
      <3>1. u # t
        BY <1>3, <2>5 DEF CallOwns, Removing
      <3>2. CallOwns(u) /\ thr'[u] = thr[u]
        BY <1>2, <2>3, <2>5, <3>1, CallOwnsLess
      <3>3. thr[u].pc # "idle"
        BY <3>2 DEF CallOwns, Removing
      <3>4. Land(t) \intersect Land(u) = {} /\ Land(u) \subseteq Page
        BY <2>1, <3>1, <3>2, <3>3, LandOfCall DEF Owners
      <3> QED BY <2>2, <3>2, <3>4
    <2>6. ASSUME NEW u \in Thread
          PROVE  thr'[u].pc = "pin" /\ ~thr'[u].alloc => ~MayUnmap(thr[u].start, thr[u].at)'
      BY <1>2, <1>3, <2>3, UserPins DEF NoNewAlloc
    <2> QED BY <2>4, <2>5, <2>6, OwnersKept
  <1> QED BY <1>1, <1>4, <1>5

LEMMA CallOwnsRange ==
  ASSUME NEW u \in Thread, thr'[u] = thr[u],
         \A s \in Region : Pinned(s)' /\ pt'[s].alloc =>
             (Pinned(s) /\ pt[s].alloc) \/ ~Meets(s, thr[u].at, thr[u].end) \/ thr[u].pc = "pin"
  PROVE  CallOwns(u)' => CallOwns(u)
  <1>1. CASE thr[u].pc = "pin"
    BY <1>1 DEF CallOwns, Removing
  <1>2. CASE thr[u].pc # "pin"
    <2>1. PICK from, end : from = thr[u].at /\ end = thr[u].end
      OBVIOUS
    <2>2. MayUnmap(from, end)' => MayUnmap(from, end)
      BY <1>2, <2>1, MayUnmapLess
    <2>3. MayUnmap(thr[u].at, thr[u].end)' <=> MayUnmap(from, end)'
      BY <2>1 DEF MayUnmap, Meets
    <2> QED BY <1>2, <2>1, <2>2, <2>3 DEF CallOwns, Removing
  <1> QED BY <1>1, <1>2

\* Pinning gives no other call memory, and the call only what it allocated.
LEMMA PinCallOwns ==
  ASSUME Core, ~wedged, NEW t \in Thread, NEW e \in Region, PinStep(t, e), NEW u \in Thread, CallOwns(u)'
  PROVE  CallOwns(u)
  <1> USE DEF Core
  <1>1. /\ thr[t].pc = "pin" /\ thr'[t].pc = "pin" /\ \A v \in Thread \ {t} : thr'[v] = thr[v]
        /\ (thr'[t].alloc <=> thr[t].alloc)
        /\ \A s \in Region \ {e} : pt'[s] = pt[s]
    BY DEF PinStep
  <1>2. \/ Pinned(e) /\ (pt'[e].alloc => pt[e].alloc)
        \/ ~Pinned(e) /\ Found(e.at) = {} /\ MayInsert(e)
    BY DEF PinStep
  <1>3. ASSUME NEW s \in Region, Pinned(s)', pt'[s].alloc
        PROVE  \/ Pinned(s) /\ pt[s].alloc
               \/ s = e /\ MayInsert(e) /\ Found(e.at) = {}
    BY <1>1, <1>2, <1>3 DEF Pinned
  <1>4. MayInsert(e) /\ Found(e.at) = {} => ~Meets(e, Lo(u), Hi(u))
    BY NoUsers
  <1>5. CASE u = t
    BY <1>1, <1>5 DEF CallOwns, Removing
  <1>6. CASE u # t
    <2>1. thr[u].pc \in Removing => Lo(u) = thr[u].at /\ Hi(u) = thr[u].end
      BY DEF Removing, Lo, Hi, Shapes, CallShape
    <2>2. thr[u].pc \in Removing \/ thr[u].pc = "pin"
      BY <1>1, <1>6 DEF CallOwns
    <2>3. thr'[u] = thr[u]
      BY <1>1, <1>6
    <2>4. \A s \in Region : Pinned(s)' /\ pt'[s].alloc =>
              (Pinned(s) /\ pt[s].alloc) \/ ~Meets(s, thr[u].at, thr[u].end) \/ thr[u].pc = "pin"
      BY <1>3, <1>4, <2>1, <2>2
    <2> QED BY <2>3, <2>4, CallOwnsRange
  <1> QED BY <1>5, <1>6

LEMMA OwnersPin ==
  ASSUME Core, Owners, ~wedged, NEW t \in Thread, NEW e \in Region, PinStep(t, e)
  PROVE  Owners'
  <1> USE DEF Core
  <1>1. /\ thr[t].pc = "pin" /\ thr'[t].pc = "pin" /\ \A u \in Thread \ {t} : thr'[u] = thr[u]
        /\ thr'[t].start = thr[t].start /\ thr'[t].end = thr[t].end /\ thr'[t].vaddr = thr[t].vaddr
        /\ (thr'[t].alloc <=> thr[t].alloc)
        /\ \A s \in Region \ {e} : pt'[s] = pt[s]
        /\ bufs' = bufs /\ mem' = mem
    BY DEF PinStep
  <1>2. \/ Pinned(e) /\ (pt'[e].alloc => pt[e].alloc) /\ (~thr[t].alloc => ~pt'[e].alloc)
        \/ ~Pinned(e) /\ Found(e.at) = {} /\ MayInsert(e) /\ (pt'[e].alloc <=> thr[t].alloc)
    BY DEF PinStep
  <1>3. ASSUME NEW s \in Region, Pinned(s)', pt'[s].alloc
        PROVE  \/ Pinned(s) /\ pt[s].alloc
               \/ s = e /\ MayInsert(e) /\ Found(e.at) = {}
    BY <1>1, <1>2, <1>3 DEF Pinned
  <1>4. MayInsert(e) /\ Found(e.at) = {} =>
            /\ \A u \in Thread : ~Meets(e, Lo(u), Hi(u))
            /\ \A d \in BagToSet(bufs) : ~Meets(e, d.start, EndOf(d))
    BY NoUsers
  <1>5. ASSUME NEW d \in BagToSet(bufs), DescOwns(d)' PROVE DescOwns(d)
    <2>1. PICK from, end : from = d.start /\ end = EndOf(d)
      OBVIOUS
    <2>2. MayUnmap(from, end)' => MayUnmap(from, end)
      BY <1>3, <1>4, <2>1, MayUnmapLess
    <2>3. MayUnmap(from, end)'
      BY <1>5, <2>1 DEF DescOwns, EndOf, MayUnmap
    <2> QED BY <2>1, <2>2, <2>3 DEF DescOwns
  <1>6. ASSUME NEW u \in Thread, CallOwns(u)'
        PROVE  /\ CallOwns(u) /\ thr'[u].start = thr[u].start /\ thr'[u].end = thr[u].end
               /\ thr'[u].vaddr = thr[u].vaddr
    BY <1>1, <1>6, PinCallOwns
  <1>7. ASSUME NEW u \in Thread
        PROVE  thr'[u].pc = "pin" /\ ~thr'[u].alloc => ~MayUnmap(thr[u].start, thr[u].at)'
    <2>1. CASE u # t
      BY <1>1, <1>3, <1>4, <2>1, UserPins
    <2>2. CASE u = t
      <3> SUFFICES ASSUME ~thr[t].alloc, NEW s \in Region, Pinned(s)', pt'[s].alloc,
                          Meets(s, thr'[t].start, thr'[t].at)
                   PROVE  FALSE
        BY <1>1, <2>2 DEF MayUnmap, Meets
      <3>1. s # e
        BY <1>2
      <3>2. Pinned(s) /\ pt[s].alloc
        BY <1>3, <3>1
      <3>3. Meets(s, thr[t].start, thr[t].at)
        <4>1. /\ Lo(t) = thr[t].start /\ Hi(t) = thr[t].at /\ Lo(t)' = thr[t].start /\ Hi(t)' = thr'[t].at
              /\ \A q \in Region \ {e} : Pinned(q) => (Meets(q, Lo(t)', Hi(t)') <=> Meets(q, Lo(t), Hi(t)))
          BY PinStepIs
        <4> QED BY <1>1, <3>1, <3>2, <4>1
      <3>4. MayUnmap(thr[t].start, thr[t].at)
        BY <3>2, <3>3 DEF MayUnmap
      <3> QED BY <1>1, <3>4 DEF Owners
    <2> QED BY <2>1, <2>2
  <1> QED BY <1>1, <1>5, <1>6, <1>7, OwnersKept

\* A release that goes on has no memory that it did not have.
LEMMA RemoveOwns ==
  ASSUME Core, NEW t \in Thread, RemovePage(t), NEW u \in Thread, CallOwns(u)'
  PROVE  CallOwns(u)
  <1> USE DEF Core
  <1>1. PICK r \in Region, me \in Activity : Taking(t, r, me) /\ (TakesOne(t, r, me) \/ TakesLast(t, r, me))
    BY RemovePageIs
  <1>2. /\ thr[t].pc = "remove" /\ Pinned(r) /\ me.end = thr[t].end
        /\ (me.alloc <=> (thr[t].alloc \/ pt[r].alloc)) /\ me.pc \in Removing
    BY <1>1 DEF Taking, TakesOne, TakesLast, AfterPage, Removing
  <1>3. /\ thr'[t] = me /\ \A v \in Thread \ {t} : thr'[v] = thr[v]
        /\ Lo(t) = thr[t].at /\ Hi(t) = thr[t].end /\ Lo(t)' = thr[t].at + r.size /\ Hi(t)' = thr[t].end
        /\ Meets(r, Lo(t), Hi(t)) /\ ~Meets(r, Lo(t)', Hi(t)')
        /\ \A s \in Region \ {r} : Pinned(s) => (Meets(s, Lo(t)', Hi(t)') => Meets(s, Lo(t), Hi(t)))
    BY <1>1, TakingRange
  <1>4. NoNewAlloc
    <2>1. /\ \A s \in Region \ {r} : pt'[s] = pt[s] /\ (Pinned(s)' <=> Pinned(s))
          /\ pt'[r].alloc => pt[r].alloc
      BY <1>1, TakingPinned
    <2> QED BY <1>2, <2>1 DEF NoNewAlloc
  <1>5. CASE u # t
    BY <1>3, <1>4, <1>5, CallOwnsLess
  <1>6. CASE thr[t].alloc
    BY <1>2, <1>5, <1>6 DEF CallOwns, Removing
  <1>7. CASE pt[r].alloc
    <2>1. MayUnmap(thr[t].at, thr[t].end)
      BY <1>2, <1>3, <1>7 DEF MayUnmap
    <2> QED BY <1>2, <1>5, <2>1 DEF CallOwns, Removing
  <1>8. CASE u = t /\ ~thr[t].alloc /\ ~pt[r].alloc
    <2>1. ~me.alloc /\ MayUnmap(thr[t].at, thr[t].end)'
      BY <1>2, <1>3, <1>8 DEF CallOwns, Removing
    <2>2. PICK s \in Region : Pinned(s)' /\ pt'[s].alloc /\ Meets(s, thr'[t].at, thr'[t].end)
      BY <2>1 DEF MayUnmap, Meets
    <2>3. Meets(s, Lo(t)', Hi(t)')
      BY <1>1, <1>3, <2>2 DEF Taking
    <2>4. s # r /\ Pinned(s) /\ pt[s].alloc
      BY <1>3, <1>4, <2>2, <2>3 DEF NoNewAlloc
    <2>5. Meets(s, thr[t].at, thr[t].end)
      BY <1>3, <2>3, <2>4
    <2>6. MayUnmap(thr[t].at, thr[t].end)
      BY <2>4, <2>5 DEF MayUnmap
    <2> QED BY <1>2, <1>8, <2>6 DEF CallOwns, Removing
  <1> QED BY <1>5, <1>6, <1>7, <1>8

LEMMA OwnersRemove ==
  ASSUME Core, Owners, NEW t \in Thread, RemovePage(t)
  PROVE  Owners'
  <1> USE DEF Core
  <1>1. PICK r \in Region, me \in Activity : Taking(t, r, me) /\ (TakesOne(t, r, me) \/ TakesLast(t, r, me))
    BY RemovePageIs
  <1>2. /\ bufs' = bufs /\ mem' = mem /\ me.end = thr[t].end /\ me.start = thr[t].start
        /\ me.vaddr = thr[t].vaddr /\ me.pc \in Removing
    BY <1>1 DEF Taking, TakesOne, TakesLast, AfterPage, Removing
  <1>3. thr'[t] = me /\ \A u \in Thread \ {t} : thr'[u] = thr[u]
    BY <1>1, TakingRange
  <1>4. NoNewAlloc
    <2>1. /\ \A s \in Region \ {r} : pt'[s] = pt[s] /\ (Pinned(s)' <=> Pinned(s))
          /\ pt'[r].alloc => pt[r].alloc
      BY <1>1, TakingPinned
    <2>2. Pinned(r)
      BY <1>1 DEF Taking
    <2> QED BY <2>1, <2>2 DEF NoNewAlloc
  <1>5. \A d : DescOwns(d)' => DescOwns(d)
    BY <1>4, DescOwnsLess
  <1>6. ASSUME NEW u \in Thread, CallOwns(u)'
        PROVE  /\ CallOwns(u) /\ thr'[u].start = thr[u].start /\ thr'[u].end = thr[u].end
               /\ thr'[u].vaddr = thr[u].vaddr
    BY <1>2, <1>3, <1>6, RemoveOwns
  <1>7. ASSUME NEW u \in Thread
        PROVE  thr'[u].pc = "pin" /\ ~thr'[u].alloc => ~MayUnmap(thr[u].start, thr[u].at)'
    <2>1. u = t => thr'[u].pc # "pin"
      BY <1>2, <1>3 DEF Removing
    <2> QED BY <1>3, <1>4, <2>1, UserPins DEF NoNewAlloc
  <1> QED BY <1>2, <1>5, <1>6, <1>7, OwnersKept

LEMMA OwnersPrealloc ==
  ASSUME TypeOK, Shapes, Owners, NEW t \in Thread, NEW n \in Lengths, NEW a \in Address, Prealloc(t, a, n)
  PROVE  Owners'
  <1>1. PICK start : Begin(t, a, n, start, a + n, FALSE)
    BY PreallocIs
  <1>2. /\ thr'[t].pc = "pin" /\ thr'[t].at = thr'[t].start /\ thr'[t].start \in Nat /\ ~thr'[t].alloc
        /\ \A u \in Thread \ {t} : thr'[u] = thr[u]
    <2>1. TypeOK'
      BY PreallocType
    <2> QED BY <1>1, <2>1, BeginMoves, ThreadNext
  <1>3. UNCHANGED <<pt, bufs, mem>>
    BY DEF Prealloc
  <1>4. NoNewAlloc
    BY <1>3 DEF NoNewAlloc, Pinned
  <1>5. \A d : DescOwns(d)' => DescOwns(d)
    BY <1>4, DescOwnsLess
  <1>6. ASSUME NEW u \in Thread, CallOwns(u)'
        PROVE  /\ CallOwns(u) /\ thr'[u].start = thr[u].start /\ thr'[u].end = thr[u].end
               /\ thr'[u].vaddr = thr[u].vaddr
    <2>1. u # t
      BY <1>2, <1>6 DEF CallOwns, Removing
    <2> QED BY <1>2, <1>4, <1>6, <2>1, CallOwnsLess
  <1>7. ASSUME NEW u \in Thread
        PROVE  thr'[u].pc = "pin" /\ ~thr'[u].alloc => ~MayUnmap(thr[u].start, thr[u].at)'
    <2>1. CASE u # t
      BY <1>2, <1>4, <2>1, UserPins DEF NoNewAlloc
    <2>2. CASE u = t
      BY <1>2, <2>2 DEF MayUnmap, Meets
    <2> QED BY <2>1, <2>2
  <1> QED BY <1>3, <1>5, <1>6, <1>7, OwnersKept

LEMMA OwnersAlloc ==
  ASSUME TypeOK, Shapes, Owners, NEW t \in Thread, NEW n \in Lengths, NEW a \in Address, Alloc(t, n, a)
  PROVE  Owners'
  <1>1. PICK end \in Nat :
            /\ a \in Nat /\ Aligned(a, Small) /\ Aligned(end, Small) /\ n \in Nat \ {0}
            /\ a + n <= end /\ end <= Units
            /\ Begin(t, a, n, a, end, TRUE)
            /\ \A p \in Pages(a, end) : mem[p] = "free"
            /\ mem' = [p \in Page |-> IF p \in Pages(a, end) THEN "mpf" ELSE mem[p]]
            /\ huge' \subseteq {s \in Region : s.size = Large}
            /\ \A r \in huge' : r \in huge \/ (a <= r.at /\ r.at + r.size <= end)
    BY AllocIs
  <1>2. /\ thr'[t].pc = "pin" /\ thr'[t].start = a /\ thr'[t].end = end /\ thr'[t].vaddr = a /\ thr'[t].alloc
        /\ \A u \in Thread \ {t} : thr'[u] = thr[u]
    <2>1. Begin(t, a, n, a, end, TRUE)
      BY <1>1
    <2>2. /\ thr'[t].pc = "pin" /\ thr'[t].start = a /\ thr'[t].end = end /\ thr'[t].vaddr = a
      BY <2>1 DEF TypeOK, Begin, Idle
    <2>4. \A u \in Thread \ {t} : thr'[u] = thr[u]
      BY <2>1 DEF TypeOK, Begin
    <2>3. thr'[t].alloc
      BY <2>1 DEF TypeOK, Begin, Idle
    <2> QED BY <2>2, <2>3, <2>4
  <1>3. UNCHANGED <<pt, bufs>>
    BY DEF Alloc
  <1>4. NoNewAlloc
    BY <1>3 DEF NoNewAlloc, Pinned
  <1>5. \A p \in Pages(a, end) : p \in Page /\ mem'[p] = "mpf" /\ mem[p] = "free"
    BY <1>1, PagesIn
  <1>6. \A p \in Page : mem[p] = "mpf" => mem'[p] = "mpf"
    BY <1>1
  <1>7. ASSUME NEW d \in BagToSet(bufs), DescOwns(d)'
        PROVE  /\ DescOwns(d) /\ DescLand(d)' = DescLand(d) /\ DescLand(d) \subseteq Page
               /\ \A p \in DescLand(d) : mem[p] = "mpf"
    <2>1. DescOwns(d)
      BY <1>4, <1>7, DescOwnsLess
    <2> QED BY <2>1, LandOfDesc DEF Owners, DescLand, EndOf
  <1>8. ASSUME NEW u \in Thread, u # t, CallOwns(u)'
        PROVE  /\ CallOwns(u) /\ thr'[u] = thr[u] /\ Land(u)' = Land(u) /\ Land(u) \subseteq Page
               /\ \A p \in Land(u) : mem[p] = "mpf"
    <2>1. CallOwns(u) /\ thr'[u] = thr[u]
      BY <1>2, <1>4, <1>8, CallOwnsLess
    <2>2. thr[u].pc # "idle"
      BY <2>1 DEF CallOwns, Removing
    <2> QED BY <2>1, <2>2, LandOfCall DEF Owners, Land
  <1>9. Land(t)' = Pages(a, end)
    BY <1>2 DEF Land
  <1>10. \A d \in BagToSet(bufs') : DescOwns(d)' =>
             d.start = d.vaddr /\ bufs'[d] = 1 /\ \A p \in DescLand(d)' : mem'[p] = "mpf"
    BY <1>3, <1>6, <1>7 DEF Owners
  <1>11. \A d, e \in BagToSet(bufs') : DescOwns(d)' /\ DescOwns(e)' /\ d # e =>
             DescLand(d)' \intersect DescLand(e)' = {}
    BY <1>3, <1>7 DEF Owners
  <1>12. \A u \in Thread : CallOwns(u)' => thr'[u].start = thr'[u].vaddr /\ \A p \in Land(u)' : mem'[p] = "mpf"
    <2>1. thr'[t].start = thr'[t].vaddr /\ \A p \in Land(t)' : mem'[p] = "mpf"
      BY <1>2, <1>5, <1>9
    <2>2. ASSUME NEW u \in Thread, u # t, CallOwns(u)'
          PROVE  thr'[u].start = thr'[u].vaddr /\ \A p \in Land(u)' : mem'[p] = "mpf"
      BY <1>6, <1>8, <2>2 DEF Owners
    <2> QED BY <2>1, <2>2
  <1>13. \A u \in Thread : \A d \in BagToSet(bufs') :
             CallOwns(u)' /\ DescOwns(d)' => Land(u)' \intersect DescLand(d)' = {}
    <2>1. ASSUME NEW d \in BagToSet(bufs), DescOwns(d)' PROVE Land(t)' \intersect DescLand(d)' = {}
      BY <1>5, <1>7, <1>9, <2>1
    <2>2. ASSUME NEW u \in Thread, u # t, NEW d \in BagToSet(bufs), CallOwns(u)', DescOwns(d)'
          PROVE  Land(u)' \intersect DescLand(d)' = {}
      BY <1>7, <1>8, <2>2 DEF Owners
    <2> QED BY <1>3, <2>1, <2>2
  <1>14. \A u, v \in Thread : CallOwns(u)' /\ CallOwns(v)' /\ u # v => Land(u)' \intersect Land(v)' = {}
    <2>1. ASSUME NEW u \in Thread, u # t, CallOwns(u)' PROVE Land(t)' \intersect Land(u)' = {}
      BY <1>5, <1>8, <1>9, <2>1
    <2>2. ASSUME NEW u \in Thread, u # t, NEW v \in Thread, v # t, u # v, CallOwns(u)', CallOwns(v)'
          PROVE  Land(u)' \intersect Land(v)' = {}
      BY <1>8, <2>2 DEF Owners
    <2> QED BY <2>1, <2>2
  <1>15. \A u \in Thread : thr'[u].pc = "pin" /\ ~thr'[u].alloc => ~MayUnmap(thr[u].start, thr[u].at)'
    BY <1>2, <1>4, UserPins DEF NoNewAlloc
  <1> QED BY <1>10, <1>11, <1>12, <1>13, <1>14, <1>15 DEF Owners

LEMMA OwnersTrack ==
  ASSUME TypeOK, Shapes, Owners, NEW t \in Thread, Track(t)
  PROVE  Owners'
  <1>0. PICK d : d = Descriptor(t)
    OBVIOUS
  <1>1. /\ thr[t].pc = "pin" /\ thr[t].end <= thr[t].at /\ bufs' = BagAdd(bufs, d)
        /\ thr' = [thr EXCEPT ![t] = Idle] /\ pt' = pt /\ wedged' = wedged /\ mem' = mem
        /\ d.start = thr[t].start /\ d.vaddr = thr[t].vaddr /\ EndOf(d) = thr[t].vaddr + thr[t].len
    BY <1>0, TrackIs
  <1>2. thr'[t] = Idle /\ thr'[t].pc = "idle" /\ \A u \in Thread \ {t} : thr'[u] = thr[u]
    <2>1. thr'[t] = Idle /\ \A u \in Thread \ {t} : thr'[u] = thr[u]
      BY <1>1, ToIdle
    <2> QED BY <2>1 DEF Idle
  <1>3. /\ thr[t].start \in Nat /\ thr[t].end \in Nat /\ thr[t].at \in Nat /\ EndOf(d) \in Nat
        /\ EndOf(d) <= thr[t].end /\ EndOf(d) <= Units /\ thr[t].end <= Units
        /\ d.start < EndOf(d) /\ Aligned(thr[t].start, Small)
    BY <1>1, ThreadIs, CallIs, Sizes
  <1>4. NoNewAlloc
    BY <1>1 DEF NoNewAlloc, Pinned
  <1>5. \A e : DescLand(e)' = DescLand(e) /\ (DescOwns(e)' => DescOwns(e))
    BY <1>4, DescOwnsLess DEF DescLand, EndOf
  <1>6. ASSUME NEW u \in Thread, CallOwns(u)' PROVE u # t /\ CallOwns(u) /\ thr'[u] = thr[u] /\ Land(u)' = Land(u)
    <2>1. u # t
      BY <1>2, <1>6 DEF CallOwns, Removing
    <2> QED BY <1>2, <1>4, <1>6, <2>1, CallOwnsLess DEF Land
  <1>7. DescLand(d) \subseteq Land(t) /\ \E p : p \in DescLand(d)
    <2>1. DescLand(d) \subseteq Land(t)
      BY <1>1, <1>3, PagesMono DEF DescLand, Land
    <2>2. d.start \in Page
      <3>1. d.start \in Nat /\ d.start < Units /\ Aligned(d.start, Small)
        BY <1>1, <1>3, Sizes
      <3> QED BY <3>1, PageIs
    <2>3. d.start \in DescLand(d)
      BY <1>1, <1>3, <2>2, PagesIn DEF DescLand
    <2> QED BY <2>1, <2>3
  <1>8. DescOwns(d) => CallOwns(t)
    <2> SUFFICES ASSUME DescOwns(d), ~thr[t].alloc PROVE FALSE
      BY <1>1 DEF CallOwns
    <2>1. PICK s \in Region : Pinned(s) /\ pt[s].alloc /\ Meets(s, thr[t].start, EndOf(d))
      BY <1>1 DEF DescOwns, MayUnmap
    <2>2. Meets(s, thr[t].start, thr[t].at)
      <3>1. EndOf(d) <= thr[t].at
        BY <1>1, <1>3
      <3> QED BY <1>3, <2>1, <3>1, RegionIs DEF Meets
    <2>3. MayUnmap(thr[t].start, thr[t].at)
      BY <2>1, <2>2 DEF MayUnmap
    <2> QED BY <1>1, <2>3 DEF Owners
  <1>9. DescOwns(d) => d \notin BagToSet(bufs)
    BY <1>7, <1>8 DEF Owners
  <1>10. /\ BagToSet(bufs') = BagToSet(bufs) \union {d}
         /\ \A e \in BagToSet(bufs) : e # d => bufs'[e] = bufs[e]
         /\ d \notin BagToSet(bufs) => bufs'[d] = 1
    BY <1>1, BagsType, BagAddIs
  <1>11. \A e \in BagToSet(bufs') : DescOwns(e)' =>
             e.start = e.vaddr /\ bufs'[e] = 1 /\ \A p \in DescLand(e)' : mem'[p] = "mpf"
    <2>1. ASSUME DescOwns(d) PROVE d.start = d.vaddr /\ bufs'[d] = 1 /\ \A p \in DescLand(d) : mem[p] = "mpf"
      BY <1>1, <1>7, <1>8, <1>9, <1>10, <2>1 DEF Owners
    <2>2. ASSUME NEW e \in BagToSet(bufs), e # d, DescOwns(e)
          PROVE  e.start = e.vaddr /\ bufs'[e] = 1 /\ \A p \in DescLand(e) : mem[p] = "mpf"
      BY <1>10, <2>2 DEF Owners
    <2> QED BY <1>1, <1>5, <1>10, <2>1, <2>2
  <1>12. \A e, f \in BagToSet(bufs') : DescOwns(e)' /\ DescOwns(f)' /\ e # f =>
             DescLand(e)' \intersect DescLand(f)' = {}
    <2>1. ASSUME NEW e \in BagToSet(bufs), DescOwns(d), DescOwns(e)
          PROVE  DescLand(d) \intersect DescLand(e) = {}
      <3>1. Land(t) \intersect DescLand(e) = {}
        BY <1>8, <2>1 DEF Owners
      <3> QED BY <1>7, <3>1
    <2>2. ASSUME NEW e \in BagToSet(bufs), NEW f \in BagToSet(bufs), DescOwns(e), DescOwns(f), e # f
          PROVE  DescLand(e) \intersect DescLand(f) = {}
      BY <2>2 DEF Owners
    <2> QED BY <1>5, <1>10, <2>1, <2>2
  <1>13. \A u \in Thread : CallOwns(u)' => thr'[u].start = thr'[u].vaddr /\ \A p \in Land(u)' : mem'[p] = "mpf"
    BY <1>1, <1>6 DEF Owners
  <1>14. \A u \in Thread : \A e \in BagToSet(bufs') :
             CallOwns(u)' /\ DescOwns(e)' => Land(u)' \intersect DescLand(e)' = {}
    <2>1. ASSUME NEW u \in Thread, u # t, CallOwns(u), DescOwns(d) PROVE Land(u) \intersect DescLand(d) = {}
      <3>1. Land(u) \intersect Land(t) = {}
        BY <1>8, <2>1 DEF Owners
      <3> QED BY <1>7, <3>1
    <2>2. ASSUME NEW u \in Thread, NEW e \in BagToSet(bufs), CallOwns(u), DescOwns(e)
          PROVE  Land(u) \intersect DescLand(e) = {}
      BY <2>2 DEF Owners
    <2> QED BY <1>5, <1>6, <1>10, <2>1, <2>2
  <1>15. \A u, v \in Thread : CallOwns(u)' /\ CallOwns(v)' /\ u # v => Land(u)' \intersect Land(v)' = {}
    BY <1>6 DEF Owners
  <1>16. \A u \in Thread : thr'[u].pc = "pin" /\ ~thr'[u].alloc => ~MayUnmap(thr[u].start, thr[u].at)'
    BY <1>2, <1>4, UserPins DEF NoNewAlloc
  <1> QED BY <1>11, <1>12, <1>13, <1>14, <1>15, <1>16 DEF Owners

LEMMA OwnersRelease ==
  ASSUME TypeOK, Shapes, Owners, NEW t \in Thread, NEW h \in BagToSet(held), Release(t, h)
  PROVE  Owners'
  <1>1. PICK d \in BagToSet(bufs), me \in Activity :
            /\ thr[t].pc = "idle" /\ bufs' = BagRemove(bufs, d) /\ thr' = [thr EXCEPT ![t] = me]
            /\ me.pc = "remove" /\ me.at = d.start /\ me.end = EndOf(d) /\ me.start = d.start
            /\ me.vaddr = d.vaddr /\ ~me.alloc /\ pt' = pt /\ mem' = mem
    BY ReleaseIs
  <1>2. thr'[t] = me /\ \A u \in Thread \ {t} : thr'[u] = thr[u]
    BY <1>1, ThreadMoves
  <1>3. NoNewAlloc
    BY <1>1 DEF NoNewAlloc, Pinned
  <1>4. \A e : DescLand(e)' = DescLand(e) /\ (DescOwns(e)' => DescOwns(e))
    BY <1>3, DescOwnsLess DEF DescLand, EndOf
  <1>5. /\ \A e \in BagToSet(bufs') : e \in BagToSet(bufs)
        /\ \A e \in BagToSet(bufs') : e # d => bufs'[e] = bufs[e]
        /\ bufs[d] = 1 => d \notin BagToSet(bufs')
    BY <1>1, BagsType, BagRemoveIs
  <1>6. ASSUME NEW e \in BagToSet(bufs'), DescOwns(e)'
        PROVE  e # d /\ e \in BagToSet(bufs) /\ DescOwns(e) /\ bufs'[e] = bufs[e]
    BY <1>4, <1>5, <1>6 DEF Owners
  <1>7. Land(t)' = DescLand(d)
    BY <1>1, <1>2 DEF Land, DescLand
  <1>8. CallOwns(t)' => DescOwns(d)
    <2>1. CallOwns(t)' => MayUnmap(thr[t].at, thr[t].end)'
      BY <1>1, <1>2 DEF CallOwns
    <2>2. MayUnmap(thr[t].at, thr[t].end)' => DescOwns(d)
      BY <1>1, <1>2 DEF MayUnmap, Meets, Pinned, DescOwns
    <2> QED BY <2>1, <2>2
  <1>9. ASSUME NEW u \in Thread, u # t, CallOwns(u)' PROVE CallOwns(u) /\ thr'[u] = thr[u] /\ Land(u)' = Land(u)
    BY <1>2, <1>3, <1>9, CallOwnsLess DEF Land
  <1>11. \A e \in BagToSet(bufs') : DescOwns(e)' =>
             e.start = e.vaddr /\ bufs'[e] = 1 /\ \A p \in DescLand(e)' : mem'[p] = "mpf"
    BY <1>1, <1>4, <1>6 DEF Owners
  <1>12. \A e, f \in BagToSet(bufs') : DescOwns(e)' /\ DescOwns(f)' /\ e # f =>
             DescLand(e)' \intersect DescLand(f)' = {}
    BY <1>4, <1>6 DEF Owners
  <1>13. \A u \in Thread : CallOwns(u)' => thr'[u].start = thr'[u].vaddr /\ \A p \in Land(u)' : mem'[p] = "mpf"
    <2>1. ASSUME CallOwns(t)' PROVE thr'[t].start = thr'[t].vaddr /\ \A p \in Land(t)' : mem'[p] = "mpf"
      BY <1>1, <1>2, <1>7, <1>8, <2>1 DEF Owners
    <2>2. ASSUME NEW u \in Thread, u # t, CallOwns(u)'
          PROVE  thr'[u].start = thr'[u].vaddr /\ \A p \in Land(u)' : mem'[p] = "mpf"
      BY <1>1, <1>9, <2>2 DEF Owners
    <2> QED BY <2>1, <2>2
  <1>14. \A u \in Thread : \A e \in BagToSet(bufs') :
             CallOwns(u)' /\ DescOwns(e)' => Land(u)' \intersect DescLand(e)' = {}
    <2>1. ASSUME NEW e \in BagToSet(bufs'), CallOwns(t)', DescOwns(e)'
          PROVE  Land(t)' \intersect DescLand(e)' = {}
      BY <1>4, <1>6, <1>7, <1>8, <2>1 DEF Owners
    <2>2. ASSUME NEW u \in Thread, u # t, NEW e \in BagToSet(bufs'), CallOwns(u)', DescOwns(e)'
          PROVE  Land(u)' \intersect DescLand(e)' = {}
      BY <1>4, <1>6, <1>9, <2>2 DEF Owners
    <2> QED BY <2>1, <2>2
  <1>15. \A u, v \in Thread : CallOwns(u)' /\ CallOwns(v)' /\ u # v => Land(u)' \intersect Land(v)' = {}
    <2>1. ASSUME NEW u \in Thread, u # t, CallOwns(t)', CallOwns(u)' PROVE Land(t)' \intersect Land(u)' = {}
      <3>1. Land(u) \intersect DescLand(d) = {}
        BY <1>8, <1>9, <2>1 DEF Owners
      <3> QED BY <1>7, <1>9, <2>1, <3>1
    <2>2. ASSUME NEW u \in Thread, u # t, NEW v \in Thread, v # t, u # v, CallOwns(u)', CallOwns(v)'
          PROVE  Land(u)' \intersect Land(v)' = {}
      BY <1>9, <2>2 DEF Owners
    <2> QED BY <2>1, <2>2
  <1>16. \A u \in Thread : thr'[u].pc = "pin" /\ ~thr'[u].alloc => ~MayUnmap(thr[u].start, thr[u].at)'
    BY <1>1, <1>2, <1>3, UserPins DEF NoNewAlloc
  <1> QED BY <1>11, <1>12, <1>13, <1>14, <1>15, <1>16 DEF Owners

-----------------------------------------------------------------------------
(* What is prepared, what is held and what is left behind.                 *)

LEMMA SeenKept ==
  ASSUME Keeps, NEW p, InBuffer(p), Seen(p)
  PROVE  Seen(p)'
  BY DEF Keeps, Seen

LEMMA ReadyKept ==
  ASSUME NEW u \in Thread, Ready(u), Keeps,
         thr'[u].vaddr = thr[u].vaddr, thr'[u].len = thr[u].len, thr'[u].alloc <=> thr[u].alloc,
         \A p \in Pages(thr[u].vaddr, thr[u].vaddr + thr[u].len) :
             /\ mem[p] = "user" => mem'[p] = "user"
             /\ mem[p] # "user" /\ InBuffer(p) => InBuffer(p)'
             /\ mem[p] = "mpf" /\ InBuffer(p) => mem'[p] = "mpf" \/ Seen(p)'
  PROVE  Ready(u)'
  <1>1. ASSUME NEW p \in Pages(thr[u].vaddr, thr[u].vaddr + thr[u].len)
        PROVE  mem'[p] = "user" \/ thr'[u].alloc \/ (InBuffer(p)' /\ (mem'[p] = "mpf" \/ Seen(p)'))
    BY <1>1, SeenKept DEF Ready
  <1> QED BY <1>1 DEF Ready

\* The calls that a step does not begin.
LEMMA PreparedKept ==
  ASSUME TypeOK, Shapes, Prepared, Keeps,
         \A u \in Thread : thr'[u].pc = "pin" =>
             /\ thr[u].pc = "pin" /\ thr'[u].vaddr = thr[u].vaddr /\ thr'[u].len = thr[u].len
             /\ (thr'[u].alloc <=> thr[u].alloc),
         \A p \in Page : mem[p] = "user" => mem'[p] = "user",
         \A p \in Page : InBuffer(p) => InBuffer(p)',
         \A p \in Page : mem[p] = "mpf" /\ InBuffer(p) => mem'[p] = "mpf" \/ Seen(p)'
  PROVE  Prepared'
  <1>1. ASSUME NEW u \in Thread, thr'[u].pc = "pin" PROVE Ready(u)'
    <2>1. Pages(thr[u].vaddr, thr[u].vaddr + thr[u].len) \subseteq Page
      BY <1>1, LandOfCall
    <2> QED BY <1>1, <2>1, ReadyKept DEF Prepared
  <1> QED BY <1>1 DEF Prepared

LEMMA HeldMappedKept ==
  ASSUME TypeOK, Shapes, Dominated, ~wedged, HeldMapped, Keeps, BagToSet(held') \subseteq BagToSet(held),
         \A p : (\E h \in BagToSet(held) : p \in Pages(h.vaddr, h.vaddr + h.len)) /\ mem[p] # "free" =>
             mem'[p] # "free" \/ Seen(p)'
  PROVE  HeldMapped'
  <1>1. ASSUME NEW h \in BagToSet(held), NEW p \in Pages(h.vaddr, h.vaddr + h.len)
        PROVE  mem'[p] # "free" \/ Seen(p)'
    <2>1. InBuffer(p)
      BY <1>1, HeldInBuffer
    <2>2. mem[p] # "free" \/ Seen(p)
      BY <1>1 DEF HeldMapped, Seen
    <2> QED BY <1>1, <2>1, <2>2, SeenKept
  <1> QED BY <1>1 DEF HeldMapped, Seen

LEMMA BehindKept ==
  ASSUME NEW u \in Thread, Behind(u), Keeps,
         thr'[u].at = thr[u].at, thr'[u].start = thr[u].start, thr'[u].end = thr[u].end,
         \A p \in Land(u) : InBuffer(p)' => InBuffer(p)
  PROVE  Behind(u)'
  <1>1. Land(u)' = Land(u)
    BY DEF Land
  <1>2. ASSUME NEW p \in Land(u), p < thr[u].at, InBuffer(p)'
        PROVE  \E s \in Found(p)' : s \in skipped' \/ Meets(s, thr[u].at, thr[u].end)
    <2>1. InBuffer(p)
      BY <1>2
    <2>2. PICK s \in Found(p) : s \in skipped \/ Meets(s, thr[u].at, thr[u].end)
      BY <1>2, <2>1 DEF Behind
    <2> QED BY <2>1, <2>2 DEF Keeps
  <1>3. ASSUME NEW p \in Land(u)', p < thr'[u].at, InBuffer(p)'
        PROVE  \E s \in Found(p)' : s \in skipped' \/ Meets(s, thr'[u].at, thr'[u].end)
    BY <1>1, <1>2, <1>3
  <1> QED BY <1>3 DEF Behind, Meets

LEMMA LeftBehindKept ==
  ASSUME LeftBehind, Keeps, \A p : InBuffer(p)' => InBuffer(p),
         \A u \in Thread : thr'[u].pc \in Removing /\ CallOwns(u)' =>
             /\ thr[u].pc \in Removing /\ CallOwns(u) /\ (thr'[u].busy <=> thr[u].busy)
             /\ thr'[u].at = thr[u].at /\ thr'[u].start = thr[u].start /\ thr'[u].end = thr[u].end
  PROVE  LeftBehind'
  <1>1. ASSUME NEW u \in Thread, thr'[u].pc \in Removing, CallOwns(u)', ~thr'[u].busy
        PROVE  Behind(u)'
    BY <1>1, BehindKept DEF LeftBehind
  <1> QED BY <1>1 DEF LeftBehind

\* What the three of them need of a step that only moves calls.
InUse == Prepared /\ LeftBehind /\ HeldMapped
LEMMA InUseSame ==
  ASSUME TypeOK, Shapes, Dominated, ~wedged, InUse, NEW t \in Thread, UNCHANGED <<pt, bufs, held, mem, skipped>>,
         \A u \in Thread \ {t} : thr'[u] = thr[u],
         thr'[t].pc # "pin",
         \/ thr'[t].pc = "idle"
         \/ /\ thr[t].pc \in Removing /\ thr'[t].at = thr[t].at /\ thr'[t].end = thr[t].end
            /\ thr'[t].start = thr[t].start /\ (thr'[t].alloc <=> thr[t].alloc) /\ (thr'[t].busy <=> thr[t].busy)
  PROVE  InUse'
  <1> USE DEF InUse
  <1>1. Keeps
    <2>1. skipped \subseteq skipped' /\ \A s \in Region : Pinned(s) => Pinned(s)'
      BY DEF Pinned
    <2> QED BY <2>1, KeepsPinned
  <1>2. \A p : InBuffer(p)' <=> InBuffer(p)
    BY DEF InBuffer, EndOf
  <1>3. NoNewAlloc
    BY DEF NoNewAlloc, Pinned
  <1>4. Prepared'
    <2>1. \A u \in Thread : thr'[u].pc = "pin" => thr'[u] = thr[u]
      OBVIOUS
    <2> QED BY <1>1, <1>2, <2>1, PreparedKept
  <1>5. LeftBehind'
    <2>1. ASSUME NEW u \in Thread, thr'[u].pc \in Removing, CallOwns(u)'
          PROVE  /\ thr[u].pc \in Removing /\ CallOwns(u) /\ (thr'[u].busy <=> thr[u].busy)
                 /\ thr'[u].at = thr[u].at /\ thr'[u].start = thr[u].start /\ thr'[u].end = thr[u].end
      <3>1. CASE u # t
        BY <1>3, <2>1, <3>1, CallOwnsLess
      <3>2. CASE u = t
        <4>1. /\ thr[t].pc \in Removing /\ thr'[t].at = thr[t].at /\ thr'[t].end = thr[t].end
              /\ thr'[t].start = thr[t].start /\ (thr'[t].alloc <=> thr[t].alloc)
              /\ (thr'[t].busy <=> thr[t].busy)
          BY <2>1, <3>2 DEF Removing
        <4> QED BY <1>3, <2>1, <3>2, <4>1, CallOwnsLess DEF Removing
      <3> QED BY <3>1, <3>2
    <2> QED BY <1>1, <1>2, <2>1, LeftBehindKept
  <1>6. HeldMapped'
    BY <1>1, HeldMappedKept
  <1> QED BY <1>4, <1>5, <1>6

LEMMA InUseQuiet ==
  ASSUME TypeOK, Shapes, Dominated, ~wedged, InUse, NEW t \in Thread,
         PrepareFails(t) \/ InvalPage(t) \/ UnpinPage(t)
  PROVE  InUse'
  <1>1. CASE PrepareFails(t)
    <2>1. thr' = [thr EXCEPT ![t] = Idle] /\ UNCHANGED <<pt, bufs, held, mem, skipped, wedged>>
      BY <1>1 DEF PrepareFails
    <2>2. thr'[t] = Idle /\ \A u \in Thread \ {t} : thr'[u] = thr[u]
      BY <2>1, ToIdle
    <2>3. thr'[t].pc = "idle"
      BY <2>2 DEF Idle
    <2> QED BY <2>1, <2>2, <2>3, InUseSame
  <1>2. ASSUME NEW pc \in Removing, Onward(t, pc), thr[t].pc \in {"inval", "unpin"},
               UNCHANGED <<pt, bufs, held, mem, skipped>>
        PROVE  InUse'
    <2>1. /\ thr'[t].pc = pc /\ \A u \in Thread \ {t} : thr'[u] = thr[u]
          /\ thr'[t].at = thr[t].at /\ thr'[t].end = thr[t].end /\ thr'[t].start = thr[t].start
          /\ (thr'[t].alloc <=> thr[t].alloc) /\ (thr'[t].busy <=> thr[t].busy)
      BY <1>2, OnwardRange
    <2>2. thr[t].pc \in Removing /\ pc # "pin"
      BY <1>2 DEF Removing
    <2> QED BY <1>2, <2>1, <2>2, InUseSame
  <1>3. CASE InvalPage(t)
    <2>1. /\ thr[t].pc = "inval" /\ Onward(t, "unpin") /\ UNCHANGED <<pt, bufs, held, mem, skipped>>
      BY <1>3, InvalPageIs
    <2> QED BY <1>2, <2>1 DEF Removing
  <1>4. CASE UnpinPage(t)
    <2>1. PICK pc \in {"remove", "unmap"} :
              thr[t].pc = "unpin" /\ Onward(t, pc) /\ UNCHANGED <<pt, bufs, held, mem, skipped>>
      BY <1>4, UnpinPageIs
    <2> QED BY <1>2, <2>1 DEF Removing
  <1> QED BY <1>1, <1>3, <1>4

\* The user maps only what nobody has mapped.
LEMMA InUseUserMap ==
  ASSUME TypeOK, Shapes, Dominated, ~wedged, InUse, NEW r \in Region, UserMap(r)
  PROVE  InUse'
  <1> USE DEF InUse
  <1>1. /\ \A p \in Pages(r.at, r.at + r.size) : mem[p] = "free"
        /\ mem' = [p \in Page |-> IF p \in Span(r) THEN "user" ELSE mem[p]]
        /\ UNCHANGED <<pt, bufs, held, thr, skipped>>
    BY DEF UserMap
  <1>2. \A p \in Page : mem[p] # "free" => mem'[p] = mem[p]
    <2>1. ASSUME NEW p \in Page, p \in Span(r) PROVE mem[p] = "free"
      <3>1. r.at \in Nat /\ r.size \in Nat /\ p \in Nat
        BY RegionIs, PageIs
      <3>2. r.at <= p /\ p < r.at + r.size
        BY <2>1, <3>1 DEF Span
      <3>3. p \in Pages(r.at, r.at + r.size)
        BY <3>2, PagesOfRegion
      <3> QED BY <1>1, <3>3
    <2> QED BY <1>1, <2>1
  <1>3. Keeps
    <2>1. skipped \subseteq skipped' /\ \A s \in Region : Pinned(s) => Pinned(s)'
      BY <1>1 DEF Pinned
    <2> QED BY <2>1, KeepsPinned
  <1>4. \A p : InBuffer(p)' <=> InBuffer(p)
    BY <1>1 DEF InBuffer, EndOf
  <1>5. Prepared'
    BY <1>1, <1>2, <1>3, <1>4, PreparedKept
  <1>6. LeftBehind'
    <2>1. \A u \in Thread : CallOwns(u)' <=> CallOwns(u)
      BY <1>1 DEF CallOwns, MayUnmap, Meets, Pinned
    <2> QED BY <1>1, <1>3, <1>4, <2>1, LeftBehindKept
  <1>7. HeldMapped'
    <2>1. \A p : (\E h \in BagToSet(held) : p \in Pages(h.vaddr, h.vaddr + h.len)) => p \in Page
      BY HeldInBuffer, InBufferIs
    <2> QED BY <1>1, <1>2, <1>3, <2>1, HeldMappedKept
  <1> QED BY <1>5, <1>6, <1>7

\* The user unmaps nothing that it holds or has in a call.
LEMMA InUseUserUnmap ==
  ASSUME TypeOK, Shapes, Dominated, ~wedged, InUse, NEW r \in Region, UserUnmap(r)
  PROVE  InUse'
  <1> USE DEF InUse
  <1>1. /\ \A p \in Pages(r.at, r.at + r.size) : mem[p] = "user"
        /\ ~HeldIn(r) /\ ~BusyIn(r)
        /\ mem' = [p \in Page |-> IF p \in Pages(r.at, r.at + r.size) THEN "free" ELSE mem[p]]
        /\ UNCHANGED <<pt, bufs, held, thr, skipped>>
    BY DEF UserUnmap, Unmapped
  <1>2. \A p \in Page : mem'[p] = mem[p] \/ (p \in Pages(r.at, r.at + r.size) /\ mem[p] = "user")
    BY <1>1
  <1>3. Keeps
    <2>1. skipped \subseteq skipped' /\ \A s \in Region : Pinned(s) => Pinned(s)'
      BY <1>1 DEF Pinned
    <2> QED BY <2>1, KeepsPinned
  <1>4. \A p : InBuffer(p)' <=> InBuffer(p)
    BY <1>1 DEF InBuffer, EndOf
  <1>5. Prepared'
    <2>1. ASSUME NEW u \in Thread, thr[u].pc = "pin" PROVE Ready(u)'
      <3>1. ASSUME NEW p \in Pages(thr[u].vaddr, thr[u].vaddr + thr[u].len)
            PROVE  p \in Page /\ mem'[p] = mem[p]
        <4>1. p \in Page
          BY <2>1, <3>1, LandOfCall
        <4>2. p \notin Pages(r.at, r.at + r.size)
          <5> SUFFICES ASSUME p \in Pages(r.at, r.at + r.size) PROVE FALSE
            OBVIOUS
          <5>1. r.at <= p /\ p < r.at + r.size
            BY PagesOfRegion
          <5>2. /\ thr[u].start \in Nat /\ thr[u].vaddr \in Nat /\ thr[u].len \in Nat /\ thr[u].end \in Nat
                /\ thr[u].start <= thr[u].vaddr /\ thr[u].vaddr + thr[u].len <= thr[u].end /\ thr[u].end <= Units
            BY <2>1, ThreadIs, CallIs
          <5>3. thr[u].vaddr + thr[u].len \in Nat /\ thr[u].vaddr + thr[u].len <= Units
            BY <5>2, Sizes
          <5>4. Meets(r, thr[u].vaddr, thr[u].vaddr + thr[u].len)
            BY <3>1, <5>1, <5>2, <5>3, PageMeets
          <5>5. Meets(r, thr[u].start, thr[u].vaddr + thr[u].len)
            BY <5>2, <5>3, <5>4, RegionIs DEF Meets
          <5> QED BY <1>1, <2>1, <5>5 DEF BusyIn, Busy
        <4> QED BY <1>2, <4>1, <4>2
      <3>2. Ready(u)
        BY <2>1 DEF Prepared
      <3> QED BY <1>1, <1>3, <1>4, <3>1, <3>2, ReadyKept
    <2> QED BY <1>1, <2>1 DEF Prepared
  <1>6. LeftBehind'
    <2>1. \A u \in Thread : CallOwns(u)' <=> CallOwns(u)
      BY <1>1 DEF CallOwns, MayUnmap, Meets, Pinned
    <2> QED BY <1>1, <1>3, <1>4, <2>1, LeftBehindKept
  <1>7. HeldMapped'
    <2>1. ASSUME NEW h \in BagToSet(held), NEW p \in Pages(h.vaddr, h.vaddr + h.len) PROVE mem'[p] = mem[p]
      <3>1. PICK d \in BagToSet(bufs) : d.vaddr = h.vaddr /\ d.len >= h.len
        BY HeldDescribed
      <3>2. h.vaddr \in Nat /\ h.len \in Nat /\ h.vaddr + h.len \in Nat /\ h.vaddr + h.len <= Units
        BY <3>1, BufferIs, DescIs, DescShapeIs, Sizes DEF EndOf
      <3>3. p \in Page
        BY <2>1, HeldInBuffer, InBufferIs
      <3>4. p \notin Pages(r.at, r.at + r.size)
        <4> SUFFICES ASSUME p \in Pages(r.at, r.at + r.size) PROVE FALSE
          OBVIOUS
        <4>1. r.at <= p /\ p < r.at + r.size
          BY PagesOfRegion
        <4>2. Meets(r, h.vaddr, h.vaddr + h.len)
          BY <2>1, <3>2, <4>1, PageMeets
        <4> QED BY <1>1, <4>2 DEF HeldIn
      <3> QED BY <1>2, <3>3, <3>4
    <2> QED BY <1>1, <1>3, <2>1, HeldMappedKept
  <1> QED BY <1>5, <1>6, <1>7

\* A call begins: the others, and what is held, are as before.
LEMMA InUseBegin ==
  ASSUME TypeOK, Shapes, Dominated, ~wedged, InUse, NEW t \in Thread, thr'[t].pc = "pin", Ready(t)',
         \A u \in Thread \ {t} : thr'[u] = thr[u], UNCHANGED <<pt, bufs, held, skipped>>,
         \A p \in Page : mem[p] # "free" => mem'[p] = mem[p]
  PROVE  InUse'
  <1> USE DEF InUse
  <1>1. Keeps
    <2>1. skipped \subseteq skipped' /\ \A s \in Region : Pinned(s) => Pinned(s)'
      BY DEF Pinned
    <2> QED BY <2>1, KeepsPinned
  <1>2. \A p : InBuffer(p)' <=> InBuffer(p)
    BY DEF InBuffer, EndOf
  <1>3. NoNewAlloc
    BY DEF NoNewAlloc, Pinned
  <1>4. Prepared'
    <2>1. ASSUME NEW u \in Thread, u # t, thr'[u].pc = "pin" PROVE Ready(u)'
      <3>1. thr'[u] = thr[u] /\ Ready(u)
        BY <2>1 DEF Prepared
      <3>2. Pages(thr[u].vaddr, thr[u].vaddr + thr[u].len) \subseteq Page
        BY <2>1, <3>1, LandOfCall
      <3> QED BY <1>1, <1>2, <3>1, <3>2, ReadyKept
    <2> QED BY <2>1 DEF Prepared
  <1>5. LeftBehind'
    <2>1. ASSUME NEW u \in Thread, thr'[u].pc \in Removing, CallOwns(u)'
          PROVE  thr'[u] = thr[u] /\ CallOwns(u)
      <3>1. u # t
        BY <2>1 DEF Removing
      <3> QED BY <1>3, <2>1, <3>1, CallOwnsLess
    <2> QED BY <1>1, <1>2, <2>1, LeftBehindKept
  <1>6. HeldMapped'
    <2>1. \A p : (\E h \in BagToSet(held) : p \in Pages(h.vaddr, h.vaddr + h.len)) => p \in Page
      BY HeldInBuffer, InBufferIs
    <2> QED BY <1>1, <2>1, HeldMappedKept
  <1> QED BY <1>4, <1>5, <1>6

\* Memory of MPF that is prepared again lies in a buffer.
LEMMA InUsePrealloc ==
  ASSUME TypeOK, Shapes, Dominated, ~wedged, InUse, NEW t \in Thread, NEW n \in Lengths, NEW a \in Address,
         Prealloc(t, a, n)
  PROVE  InUse'
  <1>1. PICK start \in Address :
            start \in Nat /\ a + n \in Nat /\ a + n <= Units /\ Begin(t, a, n, start, a + n, FALSE)
    BY PreallocIs
  <1>2. /\ \A p \in Pages(a, a + n) : mem[p] = "user" \/ (mem[p] = "mpf" /\ HeldIn(At(p, Small)))
        /\ UNCHANGED <<pt, bufs, held, skipped, mem>>
    BY DEF Prealloc
  <1>3. /\ thr'[t].pc = "pin" /\ thr'[t].vaddr = a /\ thr'[t].len = n
        /\ \A u \in Thread \ {t} : thr'[u] = thr[u]
    <2>1. Begin(t, a, n, start, a + n, FALSE)
      BY <1>1
    <2>2. thr'[t].pc = "pin" /\ thr'[t].vaddr = a /\ thr'[t].len = n
      BY <2>1 DEF TypeOK, Begin, Idle
    <2>3. \A u \in Thread \ {t} : thr'[u] = thr[u]
      BY <2>1 DEF TypeOK, Begin
    <2> QED BY <2>2, <2>3
  <1>4. ASSUME NEW p \in Pages(a, a + n), HeldIn(At(p, Small)) PROVE InBuffer(p)
    <2>1. p \in Page /\ p \in Address /\ p \in Nat /\ p < Units
      <3>1. a \in Nat
        BY AddressIs
      <3>2. p \in Page
        BY <1>1, <3>1, <1>4, PagesTouched
      <3> QED BY <3>2, PageIs, AddressIs
    <2>2. PICK h \in BagToSet(held) : Meets(At(p, Small), h.vaddr, h.vaddr + h.len)
      BY <1>4 DEF HeldIn
    <2>3. At(p, Small).at = p /\ At(p, Small).size = Small
      <3>1. At(p, Small).at = Down(p, Small) /\ At(p, Small).size = Small
        BY <2>1, AtIs
      <3>2. Aligned(p, Small)
        BY <2>1, PageIs
      <3>3. p < p + Small
        BY <2>1, Sizes
      <3>4. p = Down(p, Small)
        BY <2>1, <3>2, <3>3, DownUnique, Sizes
      <3> QED BY <3>1, <3>4
    <2>4. PICK d \in BagToSet(bufs) : d.vaddr = h.vaddr /\ d.len >= h.len
      BY HeldDescribed
    <2>5. h.vaddr \in Nat /\ h.len \in Nat /\ h.vaddr + h.len \in Nat /\ h.vaddr + h.len <= Units
      BY <2>4, BufferIs, DescIs, DescShapeIs, Sizes DEF EndOf
    <2>6. p \in Pages(h.vaddr, h.vaddr + h.len)
      BY <2>1, <2>2, <2>3, <2>5, PagesTouched DEF Meets
    <2> QED BY <2>6, HeldInBuffer
  <1>5. \A p : InBuffer(p)' <=> InBuffer(p)
    BY <1>2 DEF InBuffer, EndOf
  <1>6. Ready(t)'
    BY <1>2, <1>3, <1>4, <1>5 DEF Ready
  <1> QED BY <1>2, <1>3, <1>6, InUseBegin

LEMMA InUseAlloc ==
  ASSUME TypeOK, Shapes, Dominated, ~wedged, InUse, NEW t \in Thread, NEW n \in Lengths, NEW a \in Address,
         Alloc(t, n, a)
  PROVE  InUse'
  <1>1. PICK end \in Nat :
            /\ a \in Nat /\ Aligned(a, Small) /\ Aligned(end, Small) /\ n \in Nat \ {0}
            /\ a + n <= end /\ end <= Units
            /\ Begin(t, a, n, a, end, TRUE)
            /\ \A p \in Pages(a, end) : mem[p] = "free"
            /\ mem' = [p \in Page |-> IF p \in Pages(a, end) THEN "mpf" ELSE mem[p]]
            /\ huge' \subseteq {s \in Region : s.size = Large}
            /\ \A r \in huge' : r \in huge \/ (a <= r.at /\ r.at + r.size <= end)
    BY AllocIs
  <1>2. UNCHANGED <<pt, bufs, held, skipped>>
    BY DEF Alloc
  <1>3. Begin(t, a, n, a, end, TRUE)
    BY <1>1
  <1>4. thr'[t].pc = "pin" /\ thr'[t].alloc
    BY <1>3 DEF TypeOK, Begin, Idle
  <1>5. \A u \in Thread \ {t} : thr'[u] = thr[u]
    BY <1>3 DEF TypeOK, Begin
  <1>6. Ready(t)'
    BY <1>4 DEF Ready
  <1>7. \A p \in Page : mem[p] # "free" => mem'[p] = mem[p]
    BY <1>1
  <1> QED BY <1>2, <1>4, <1>5, <1>6, <1>7, InUseBegin

LEMMA InUsePin ==
  ASSUME Core, Dominated, Owners, ~wedged, InUse, NEW t \in Thread, NEW e \in Region, PinStep(t, e)
  PROVE  InUse'
  <1> USE DEF Core, InUse
  <1>1. /\ thr[t].pc = "pin" /\ thr'[t].pc = "pin" /\ \A u \in Thread \ {t} : thr'[u] = thr[u]
        /\ thr'[t].vaddr = thr[t].vaddr /\ thr'[t].len = thr[t].len /\ (thr'[t].alloc <=> thr[t].alloc)
        /\ UNCHANGED <<mem, bufs, held, skipped>>
    BY DEF PinStep
  <1>2. Keeps
    <2>1. \A s \in Region : Pinned(s) => Pinned(s)'
      BY PinStepIs
    <2>2. skipped \subseteq skipped'
      BY <1>1
    <2> QED BY <2>1, <2>2, KeepsPinned
  <1>3. \A p : InBuffer(p)' <=> InBuffer(p)
    BY <1>1 DEF InBuffer, EndOf
  <1>4. Prepared'
    BY <1>1, <1>2, <1>3, PreparedKept
  <1>5. LeftBehind'
    <2>1. ASSUME NEW u \in Thread, thr'[u].pc \in Removing, CallOwns(u)'
          PROVE  thr'[u] = thr[u] /\ CallOwns(u)
      BY <1>1, <2>1, PinCallOwns DEF Removing
    <2> QED BY <1>2, <1>3, <2>1, LeftBehindKept
  <1>6. HeldMapped'
    BY <1>1, <1>2, HeldMappedKept
  <1> QED BY <1>4, <1>5, <1>6

\* What a call prepared is mapped, or known to be skipped.
LEMMA ReadyMapped ==
  ASSUME TypeOK, Shapes, Owners, NEW t \in Thread, thr[t].pc = "pin", Ready(t),
         NEW p \in Pages(thr[t].vaddr, thr[t].vaddr + thr[t].len)
  PROVE  mem[p] # "free" \/ Seen(p)
  <1>1. thr[t].alloc => mem[p] = "mpf"
    <2>1. p \in Land(t)
      BY LandOfCall
    <2>2. thr[t].alloc => CallOwns(t)
      BY DEF CallOwns
    <2> QED BY <2>1, <2>2 DEF Owners
  <1> QED BY <1>1 DEF Ready

LEMMA InUseTrack ==
  ASSUME Core, Dominated, Owners, ~wedged, InUse, NEW t \in Thread, Track(t)
  PROVE  InUse'
  <1> USE DEF Core, InUse
  <1>0. PICK d : d = Descriptor(t)
    OBVIOUS
  <1>1. /\ thr[t].pc = "pin" /\ bufs' = BagAdd(bufs, d) /\ held' = BagAdd(held, Buffer(t))
        /\ thr' = [thr EXCEPT ![t] = Idle] /\ UNCHANGED <<pt, mem, skipped, wedged>>
        /\ d.vaddr = thr[t].vaddr /\ EndOf(d) = thr[t].vaddr + thr[t].len
        /\ Buffer(t).vaddr = thr[t].vaddr /\ Buffer(t).len = thr[t].len
    BY <1>0, TrackIs
  <1>2. thr'[t].pc = "idle" /\ \A u \in Thread \ {t} : thr'[u] = thr[u]
    <2>1. thr'[t] = Idle /\ \A u \in Thread \ {t} : thr'[u] = thr[u]
      BY <1>1, ToIdle
    <2> QED BY <2>1 DEF Idle
  <1>3. /\ BagToSet(bufs') = BagToSet(bufs) \union {d}
        /\ BagToSet(held') = BagToSet(held) \union {Buffer(t)}
    BY <1>1, BagsType, BagAddIs
  <1>4. Keeps
    <2>1. skipped \subseteq skipped' /\ \A s \in Region : Pinned(s) => Pinned(s)'
      BY <1>1 DEF Pinned
    <2> QED BY <2>1, KeepsPinned
  <1>5. \A p : InBuffer(p)' <=> InBuffer(p) \/ p \in Pages(d.vaddr, EndOf(d))
    BY <1>3 DEF InBuffer, EndOf
  <1>6. NoNewAlloc
    BY <1>1 DEF NoNewAlloc, Pinned
  <1>7. Prepared'
    <2>1. \A u \in Thread : thr'[u].pc = "pin" => thr'[u] = thr[u]
      BY <1>2
    <2> QED BY <1>1, <1>4, <1>5, <2>1, PreparedKept
  <1>8. ASSUME NEW u \in Thread, thr[u].pc \in Removing, CallOwns(u),
               NEW p \in Land(u), p \in Pages(d.vaddr, EndOf(d))
        PROVE  InBuffer(p)
    <2>1. p \in Land(t)
      BY <1>1, <1>8, LandOfCall
    <2>2. mem[p] = "mpf"
      BY <1>8 DEF Owners
    <2>3. ~thr[t].alloc
      <3>1. u # t
        BY <1>1, <1>8 DEF Removing
      <3>2. thr[t].alloc => CallOwns(t)
        BY <1>1 DEF CallOwns
      <3> QED BY <1>8, <2>1, <3>1, <3>2 DEF Owners
    <2> QED BY <1>1, <1>8, <2>2, <2>3 DEF Prepared, Ready
  <1>9. LeftBehind'
    <2>1. ASSUME NEW u \in Thread, thr'[u].pc \in Removing, CallOwns(u)', ~thr'[u].busy
          PROVE  Behind(u)'
      <3>1. thr'[u] = thr[u] /\ CallOwns(u)
        <4>1. u # t
          BY <1>2, <2>1 DEF Removing
        <4> QED BY <1>2, <1>6, <2>1, <4>1, CallOwnsLess
      <3>2. Behind(u)
        BY <2>1, <3>1 DEF LeftBehind
      <3>3. \A p \in Land(u) : InBuffer(p)' => InBuffer(p)
        BY <1>5, <1>8, <2>1, <3>1
      <3> QED BY <1>4, <3>1, <3>2, <3>3, BehindKept
    <2> QED BY <2>1 DEF LeftBehind
  <1>10. HeldMapped'
    <2>1. \A p : Seen(p)' <=> Seen(p)
      BY <1>1 DEF Seen, Found, Pinned
    <2>2. ASSUME NEW p \in Pages(thr[t].vaddr, thr[t].vaddr + thr[t].len) PROVE mem'[p] # "free" \/ Seen(p)'
      <3>1. Ready(t)
        BY <1>1 DEF Prepared
      <3> QED BY <1>1, <2>1, <2>2, <3>1, ReadyMapped
    <2>3. ASSUME NEW h \in BagToSet(held), NEW p \in Pages(h.vaddr, h.vaddr + h.len)
          PROVE  mem'[p] # "free" \/ Seen(p)'
      BY <1>1, <2>1, <2>3 DEF HeldMapped, Seen
    <2>4. ASSUME NEW h \in BagToSet(held'), NEW p \in Pages(h.vaddr, h.vaddr + h.len)
          PROVE  mem'[p] # "free" \/ Seen(p)'
      BY <1>1, <1>3, <2>2, <2>3, <2>4
    <2> QED BY <2>4 DEF HeldMapped, Seen
  <1> QED BY <1>7, <1>9, <1>10

\* A release takes a descriptor; calls that prepare in it have it from the user.
LEMMA InUseRelease ==
  ASSUME TypeOK, Shapes, Dominated, ~wedged, InUse, NEW t \in Thread, NEW h \in BagToSet(held), Release(t, h)
  PROVE  InUse'
  <1> USE DEF InUse
  <1>1. PICK d \in BagToSet(bufs), me \in Activity :
            /\ thr[t].pc = "idle"
            /\ d.vaddr = h.vaddr /\ \A e \in BagToSet(bufs) : e.vaddr = h.vaddr => d.len <= e.len
            /\ \A u \in Working : \A p \in Pages(thr[u].start, thr[u].end) \intersect Pages(d.start, EndOf(d)) :
                  mem[p] = "user"
            /\ bufs' = BagRemove(bufs, d) /\ held' = BagRemove(held, h)
            /\ thr' = [thr EXCEPT ![t] = me]
            /\ me.pc = "remove" /\ me.at = d.start /\ me.end = EndOf(d) /\ me.start = d.start
            /\ me.vaddr = d.vaddr /\ me.len = d.len /\ ~me.alloc /\ ~me.busy
            /\ lost' = lost \union Left(h.vaddr + d.len, h.vaddr + h.len, d.start, h.vaddr + d.len)
            /\ UNCHANGED <<mem, huge, pt, pinned, cached, wedged, count, stale, skipped>>
    BY ReleaseIs
  <1>2. thr'[t] = me /\ \A u \in Thread \ {t} : thr'[u] = thr[u]
    BY <1>1, ThreadMoves
  <1>3. /\ BagToSet(bufs') \subseteq BagToSet(bufs) /\ BagToSet(held') \subseteq BagToSet(held)
        /\ \A e \in BagToSet(bufs) : e # d => e \in BagToSet(bufs')
    BY <1>1, BagsType, BagRemoveIs
  <1>4. Keeps
    <2>1. skipped \subseteq skipped' /\ \A s \in Region : Pinned(s) => Pinned(s)'
      BY <1>1 DEF Pinned
    <2> QED BY <2>1, KeepsPinned
  <1>5. /\ \A p : InBuffer(p)' => InBuffer(p)
        /\ \A p : InBuffer(p) /\ p \notin Pages(d.vaddr, EndOf(d)) => InBuffer(p)'
    BY <1>3 DEF InBuffer, EndOf
  <1>6. NoNewAlloc
    BY <1>1 DEF NoNewAlloc, Pinned
  <1>7. Prepared'
    <2>1. ASSUME NEW u \in Thread, thr'[u].pc = "pin" PROVE Ready(u)'
      <3>1. u # t
        BY <1>1, <1>2, <2>1
      <3>2. thr'[u] = thr[u] /\ thr[u].pc = "pin" /\ Ready(u)
        BY <1>2, <2>1, <3>1 DEF Prepared
      <3>3. ASSUME NEW p \in Pages(thr[u].vaddr, thr[u].vaddr + thr[u].len), mem[p] # "user"
            PROVE  p \notin Pages(d.vaddr, EndOf(d))
        <4>1. p \in Land(u)
          BY <3>2, <3>3, LandOfCall
        <4>2. Pages(d.vaddr, EndOf(d)) \subseteq DescLand(d)
          BY LandOfDesc
        <4>3. u \in Working
          BY <3>2 DEF Working
        <4> QED BY <1>1, <3>3, <4>1, <4>2, <4>3 DEF Land, DescLand
      <3> QED BY <1>1, <1>4, <1>5, <3>2, <3>3, ReadyKept
    <2> QED BY <2>1 DEF Prepared
  <1>8. LeftBehind'
    <2>1. ASSUME NEW u \in Thread, thr'[u].pc \in Removing, CallOwns(u)', ~thr'[u].busy
          PROVE  Behind(u)'
      <3>1. CASE u # t
        <4>1. thr'[u] = thr[u] /\ CallOwns(u)
          BY <1>2, <1>6, <2>1, <3>1, CallOwnsLess
        <4>2. Behind(u)
          BY <2>1, <4>1 DEF LeftBehind
        <4> QED BY <1>4, <1>5, <4>1, <4>2, BehindKept
      <3>2. CASE u = t
        <4>1. Land(u)' = DescLand(d) /\ thr'[u].at = d.start
          BY <1>1, <1>2, <3>2 DEF Land, DescLand
        <4>2. \A p \in DescLand(d) : p \in Page /\ d.start <= p
          <5>1. Aligned(d.start, Small) /\ EndOf(d) <= Units /\ d.start \in Nat /\ EndOf(d) \in Nat
            BY DescShapeIs, DescIs
          <5> QED BY <5>1, PagesIn DEF DescLand
        <4>3. \A p \in DescLand(d) : ~(p < d.start)
          BY <4>2, DescIs, PageIs
        <4> QED BY <4>1, <4>3 DEF Behind
      <3> QED BY <3>1, <3>2
    <2> QED BY <2>1 DEF LeftBehind
  <1>9. HeldMapped'
    BY <1>1, <1>3, <1>4, HeldMappedKept
  <1> QED BY <1>7, <1>8, <1>9

\* A release goes on: what it leaves behind and does not step over is in use by
\* nobody, or still ahead.
LEMMA RemoveBehind ==
  ASSUME Core, ~wedged, InUse, NEW t \in Thread, RemovePage(t), CallOwns(t)', ~thr'[t].busy
  PROVE  Behind(t)'
  <1> USE DEF Core
  <1>1. PICK r \in Region, me \in Activity : Taking(t, r, me) /\ (TakesOne(t, r, me) \/ TakesLast(t, r, me))
    BY RemovePageIs
  <1>2. /\ thr'[t] = me
        /\ Lo(t) = thr[t].at /\ Hi(t) = thr[t].end /\ Lo(t)' = thr[t].at + r.size /\ Hi(t)' = thr[t].end
        /\ \A s \in Region \ {r} : Pinned(s) =>
               (Meets(s, Lo(t), Hi(t)) /\ ~Meets(s, Lo(t)', Hi(t)') => s \in Stepped(t, r))
    BY <1>1, TakingRange
  <1>3. /\ thr[t].pc = "remove" /\ thr[t].at < thr[t].end /\ bufs' = bufs
        /\ me.at = thr[t].at + r.size /\ me.end = thr[t].end /\ me.start = thr[t].start
        /\ Stepped(t, r) \subseteq skipped'
    BY <1>1 DEF Taking
  <1>4. pt[r].refs = 1 /\ ~thr[t].busy
    BY <1>1, <1>2 DEF TakesOne, TakesLast
  <1>5. ~Pinned(r)'
    BY <1>1, <1>4, TakingPinned
  <1>6. Keeps
    BY KeepsRemove
  <1>7. Behind(t)
    <2>1. CallOwns(t)
      BY RemoveOwns
    <2> QED BY <1>3, <1>4, <2>1 DEF InUse, LeftBehind, Removing
  <1>8. Land(t)' = Land(t) /\ \A p : InBuffer(p)' <=> InBuffer(p)
    BY <1>2, <1>3 DEF Land, InBuffer, EndOf
  <1>9. ASSUME NEW p \in Land(t), p < me.at, InBuffer(p)
        PROVE  \E s \in Found(p)' : s \in skipped' \/ Meets(s, Lo(t)', Hi(t)')
    <2>1. p \in Nat /\ p \in Address /\ p < thr[t].end
      BY <1>3, <1>9, InBufferIs, LandOfCall
    <2>2. PICK s \in Found(p) : s \in skipped \/ Meets(s, thr[t].at, thr[t].end)
      <3>1. CASE p < thr[t].at
        BY <1>7, <1>9, <3>1 DEF Behind
      <3>2. CASE ~(p < thr[t].at)
        <4>1. PICK q : q \in Found(p)
          BY <1>9, InBufferFound
        <4>2. q \in Region /\ q.at <= p /\ p < q.at + q.size
          BY <2>1, <4>1, FoundIs
        <4>3. Meets(q, thr[t].at, thr[t].end)
          BY <1>3, <2>1, <3>2, <4>2, RegionIs, ThreadIs DEF Meets
        <4> QED BY <4>1, <4>3
      <3> QED BY <3>1, <3>2
    <2>3. s \in Found(p)' /\ (s \in skipped => s \in skipped')
      BY <1>6, <1>9, <2>2 DEF Keeps
    <2>4. s \in Region /\ Pinned(s) /\ Pinned(s)'
      BY <2>1, <2>2, <2>3, FoundIs, FoundNext
    <2>5. s # r
      BY <1>5, <2>4
    <2> QED BY <1>2, <1>3, <2>2, <2>3, <2>4, <2>5
  <1>10. ASSUME NEW p \in Land(t)', p < thr'[t].at, InBuffer(p)'
         PROVE  \E s \in Found(p)' : s \in skipped' \/ Meets(s, thr'[t].at, thr'[t].end)
    BY <1>2, <1>3, <1>8, <1>9, <1>10
  <1> QED BY <1>10 DEF Behind, Meets

LEMMA InUseRemove ==
  ASSUME Core, Dominated, ~wedged, InUse, NEW t \in Thread, RemovePage(t)
  PROVE  InUse'
  <1> USE DEF Core, InUse
  <1>1. PICK r \in Region, me \in Activity : Taking(t, r, me) /\ (TakesOne(t, r, me) \/ TakesLast(t, r, me))
    BY RemovePageIs
  <1>2. thr'[t] = me /\ \A u \in Thread \ {t} : thr'[u] = thr[u]
    BY <1>1, TakingRange
  <1>3. thr[t].pc = "remove" /\ UNCHANGED <<mem, bufs, held>> /\ me.pc # "pin"
    BY <1>1 DEF Taking, TakesOne, TakesLast, AfterPage
  <1>4. Keeps
    BY KeepsRemove
  <1>5. \A p : InBuffer(p)' <=> InBuffer(p)
    BY <1>3 DEF InBuffer, EndOf
  <1>6. Prepared'
    <2>1. \A u \in Thread : thr'[u].pc = "pin" => thr'[u] = thr[u]
      BY <1>2, <1>3
    <2> QED BY <1>3, <1>4, <1>5, <2>1, PreparedKept
  <1>7. LeftBehind'
    <2>1. ASSUME NEW u \in Thread, thr'[u].pc \in Removing, CallOwns(u)', ~thr'[u].busy
          PROVE  Behind(u)'
      <3>1. CASE u = t
        BY <2>1, <3>1, RemoveBehind
      <3>2. CASE u # t
        <4>1. thr'[u] = thr[u] /\ CallOwns(u)
          BY <1>2, <2>1, <3>2, RemoveOwns
        <4>2. Behind(u)
          BY <2>1, <4>1 DEF LeftBehind
        <4> QED BY <1>4, <1>5, <4>1, <4>2, BehindKept
      <3> QED BY <3>1, <3>2
    <2> QED BY <2>1 DEF LeftBehind
  <1>8. HeldMapped'
    BY <1>3, <1>4, HeldMappedKept
  <1> QED BY <1>6, <1>7, <1>8

\* What MPF unmaps is its own, and in no buffer whose entry it did not step over.
LEMMA UnmappedIs ==
  ASSUME Core, Owners, NEW t \in Thread, UnmapBuffer(t), NEW p \in Page, mem'[p] # mem[p]
  PROVE  mem[p] = "mpf" /\ (~wedged /\ InUse /\ InBuffer(p) => Seen(p) /\ Seen(p)')
  <1> USE DEF Core
  <1>1. /\ thr[t].pc \in {"unmap", "break"} /\ (thr[t].pc = "break" => wedged)
        /\ thr[t].start + thr[t].len \in Nat /\ thr[t].start + thr[t].len <= thr[t].end
        /\ thr[t].alloc /\ ~thr[t].busy /\ Unmapped(thr[t].start, thr[t].start + thr[t].len)
        /\ pt' = pt /\ skipped' = skipped
    BY UnmapBufferIs
  <1>2. CallOwns(t)
    BY <1>1 DEF CallOwns, Removing
  <1>3. p \in Land(t)
    <2>1. p \in Pages(thr[t].start, thr[t].start + thr[t].len)
      BY <1>1 DEF Unmapped
    <2>2. Pages(thr[t].start, thr[t].start + thr[t].len) \subseteq Land(t)
      BY <1>1, PagesMono, ThreadIs DEF Land
    <2> QED BY <2>1, <2>2
  <1>4. ASSUME ~wedged, InUse, InBuffer(p) PROVE Seen(p)
    <2>1. Behind(t)
      BY <1>1, <1>2, <1>4 DEF InUse, LeftBehind, Removing
    <2>2. ~(thr[t].at < thr[t].end)
      BY <1>1, <1>4, ThreadIs DEF Shapes, CallShape
    <2>3. p < thr[t].at
      <3>1. p < thr[t].end
        BY <1>1, <1>3, LandOfCall
      <3> QED BY <2>2, <3>1, ThreadIs, PageIs
    <2>4. PICK s \in Found(p) : s \in skipped \/ Meets(s, thr[t].at, thr[t].end)
      BY <1>3, <1>4, <2>1, <2>3 DEF Behind
    <2> QED BY <2>2, <2>4 DEF Meets, Seen
  <1>5. Seen(p) => Seen(p)'
    BY <1>1 DEF Seen, Found, Pinned
  <1> QED BY <1>2, <1>3, <1>4, <1>5 DEF Owners

\* The end of a release takes no memory in use.
LEMMA InUseUnmap ==
  ASSUME Core, Dominated, Owners, ~wedged, InUse, NEW t \in Thread, UnmapBuffer(t)
  PROVE  InUse'
  <1> USE DEF Core, InUse
  <1>1. /\ thr[t].pc = "unmap" /\ thr[t].start + thr[t].len \in Nat
        /\ thr[t].start + thr[t].len <= thr[t].end
        /\ \/ UNCHANGED <<mem, huge, stale>>
           \/ thr[t].alloc /\ ~thr[t].busy /\ Unmapped(thr[t].start, thr[t].start + thr[t].len)
        /\ thr' = [thr EXCEPT ![t] = Idle] /\ UNCHANGED <<pt, bufs, held, skipped, wedged>>
    BY UnmapBufferIs
  <1>2. thr'[t].pc = "idle" /\ \A u \in Thread \ {t} : thr'[u] = thr[u]
    <2>1. thr'[t] = Idle /\ \A u \in Thread \ {t} : thr'[u] = thr[u]
      BY <1>1, ToIdle
    <2> QED BY <2>1 DEF Idle
  <1>3. CASE UNCHANGED mem
    BY <1>1, <1>2, <1>3, InUseSame
  <1>4. CASE thr[t].alloc /\ ~thr[t].busy /\ Unmapped(thr[t].start, thr[t].start + thr[t].len)
    <2>2. \A p \in Page : mem'[p] # mem[p] => mem[p] = "mpf"
      BY UnmappedIs
    <2>3. \A p \in Page : mem'[p] # mem[p] /\ InBuffer(p) => Seen(p)'
      BY UnmappedIs
    <2>4. Keeps
      <3>1. skipped \subseteq skipped' /\ \A s \in Region : Pinned(s) => Pinned(s)'
        BY <1>1 DEF Pinned
      <3> QED BY <3>1, KeepsPinned
    <2>5. \A p : InBuffer(p)' <=> InBuffer(p)
      BY <1>1 DEF InBuffer, EndOf
    <2>6. NoNewAlloc
      BY <1>1 DEF NoNewAlloc, Pinned
    <2>7. Prepared'
      <3>1. \A u \in Thread : thr'[u].pc = "pin" => thr'[u] = thr[u]
        BY <1>2
      <3>2. \A p \in Page : mem[p] = "user" => mem'[p] = "user"
        BY <2>2
      <3>3. \A p \in Page : mem[p] = "mpf" /\ InBuffer(p) => mem'[p] = "mpf" \/ Seen(p)'
        BY <2>3
      <3> QED BY <2>4, <2>5, <3>1, <3>2, <3>3, PreparedKept
    <2>8. LeftBehind'
      <3>1. ASSUME NEW u \in Thread, thr'[u].pc \in Removing, CallOwns(u)'
            PROVE  thr'[u] = thr[u] /\ CallOwns(u)
        <4>1. u # t
          BY <1>2, <3>1 DEF Removing
        <4> QED BY <1>2, <2>6, <3>1, <4>1, CallOwnsLess
      <3> QED BY <2>4, <2>5, <3>1, LeftBehindKept
    <2>9. HeldMapped'
      <3>1. \A p : (\E h \in BagToSet(held) : p \in Pages(h.vaddr, h.vaddr + h.len)) =>
                p \in Page /\ InBuffer(p)
        BY HeldInBuffer, InBufferIs
      <3>2. \A p : (\E h \in BagToSet(held) : p \in Pages(h.vaddr, h.vaddr + h.len)) /\ mem[p] # "free" =>
                mem'[p] # "free" \/ Seen(p)'
        BY <2>3, <3>1
      <3> QED BY <1>1, <2>4, <3>2, HeldMappedKept
    <2> QED BY <2>7, <2>8, <2>9
  <1> QED BY <1>1, <1>3, <1>4

-----------------------------------------------------------------------------
(* The inductive invariant and what follows from it.                       *)

BuffersInv == Core /\ Dominated /\ Owners /\ (~wedged => InUse)

LEMMA BuffersInit == Init => BuffersInv
  <1> SUFFICES ASSUME Init PROVE BuffersInv
    OBVIOUS
  <1>1. Core
    BY CoreInit
  <1>2. /\ bufs = EmptyBag /\ held = EmptyBag /\ thr = [t \in Thread |-> Idle]
        /\ pt = [r \in Region |-> NoEntry]
    BY DEF Init
  <1>3. BagToSet(bufs) = {} /\ BagToSet(held) = {}
    BY <1>2 DEF EmptyBag, BagToSet, SetToBag
  <1>4. \A t \in Thread : thr[t].pc = "idle"
    BY <1>2 DEF Idle
  <1>5. Dominated
    <2>1. ASSUME NEW a, NEW n PROVE Held(a, n) = 0 /\ Described(a, n) = 0
      <3>1. /\ Copies(held, {h \in BagToSet(held) : h.vaddr = a /\ h.len >= n}) = {}
            /\ Copies(bufs, {d \in BagToSet(bufs) : d.vaddr = a /\ d.len >= n}) = {}
        BY <1>3 DEF Copies
      <3> QED BY <3>1, FS_EmptySet DEF Held, Described
    <2> QED BY <2>1 DEF Dominated
  <1>6. \A t \in Thread : ~CallOwns(t)
    BY <1>4 DEF CallOwns, Removing
  <1>7. Owners
    BY <1>3, <1>4, <1>6 DEF Owners
  <1>8. Prepared /\ LeftBehind /\ HeldMapped
    BY <1>3, <1>4, <1>6 DEF Prepared, LeftBehind, HeldMapped
  <1> QED BY <1>1, <1>5, <1>7, <1>8 DEF BuffersInv, InUse

LEMMA BuffersUser ==
  ASSUME BuffersInv, NEW r \in Region, UserMap(r) \/ UserUnmap(r)
  PROVE  BuffersInv'
  <1> USE DEF BuffersInv, Core
  <1>1. Core'
    BY CoreUser
  <1>2. UNCHANGED <<pt, bufs, held, thr, wedged>>
    BY DEF UserMap, UserUnmap
  <1>3. Dominated'
    BY <1>2, DominatedSame
  <1>4. \A p \in Page : mem[p] = "mpf" => mem'[p] = "mpf"
    <2>1. CASE UserMap(r)
      <3>1. /\ \A p \in Pages(r.at, r.at + r.size) : mem[p] = "free"
            /\ mem' = [p \in Page |-> IF p \in Span(r) THEN "user" ELSE mem[p]]
        BY <2>1 DEF UserMap
      <3>2. ASSUME NEW p \in Page, p \in Span(r) PROVE mem[p] = "free"
        <4>1. r.at \in Nat /\ r.size \in Nat /\ p \in Nat
          BY RegionIs, PageIs
        <4>2. r.at <= p /\ p < r.at + r.size
          BY <3>2, <4>1 DEF Span
        <4>3. p \in Pages(r.at, r.at + r.size)
          BY <4>2, PagesOfRegion
        <4> QED BY <3>1, <4>3
      <3> QED BY <3>1, <3>2
    <2>2. CASE UserUnmap(r)
      BY <2>2 DEF UserUnmap, Unmapped
    <2> QED BY <2>1, <2>2
  <1>5. Owners'
    <2>1. \A d \in BagToSet(bufs) : DescLand(d) \subseteq Page
      BY LandOfDesc
    <2>2. \A u \in Thread : CallOwns(u) => Land(u) \subseteq Page
      BY LandOfCall DEF CallOwns, Removing
    <2> QED BY <1>2, <1>4, <2>1, <2>2, OwnersUser
  <1>6. ~wedged' => InUse'
    BY <1>2, InUseUserMap, InUseUserUnmap
  <1> QED BY <1>1, <1>3, <1>5, <1>6

LEMMA BuffersBegin ==
  ASSUME BuffersInv, NEW t \in Thread, NEW n \in Lengths, NEW a \in Address, Prealloc(t, a, n) \/ Alloc(t, n, a)
  PROVE  BuffersInv'
  <1> USE DEF BuffersInv, Core
  <1>1. Core'
    BY CoreBegin
  <1>2. UNCHANGED <<bufs, held, wedged>>
    BY DEF Prealloc, Alloc
  <1>3. Dominated'
    BY <1>2, DominatedSame
  <1>4. Owners'
    BY OwnersPrealloc, OwnersAlloc
  <1>5. ~wedged' => InUse'
    BY <1>2, InUsePrealloc, InUseAlloc
  <1> QED BY <1>1, <1>3, <1>4, <1>5

LEMMA BuffersPin ==
  ASSUME BuffersInv, NEW t \in Thread, PinFound(t) \/ PinNew(t, Large) \/ PinNew(t, Small)
  PROVE  BuffersInv'
  <1> USE DEF BuffersInv, Core
  <1>1. Core'
    BY CorePin
  <1>2. PICK e \in Region : PinStep(t, e)
    BY PinFoundStep, PinNewStep
  <1>3. UNCHANGED <<bufs, held, wedged>>
    BY <1>2 DEF PinStep
  <1>4. Dominated'
    BY <1>3, DominatedSame
  <1>5. ~wedged
    BY DEF PinFound, PinNew, Pinning
  <1>6. Owners'
    BY <1>2, <1>5, OwnersPin
  <1>7. InUse'
    BY <1>2, <1>5, InUsePin
  <1> QED BY <1>1, <1>4, <1>6, <1>7

LEMMA BuffersTrack ==
  ASSUME BuffersInv, NEW t \in Thread, Track(t)
  PROVE  BuffersInv'
  <1> USE DEF BuffersInv, Core
  <1>1. Core'
    BY CoreTrack
  <1>2. Dominated' /\ Owners'
    BY TrackDominated, OwnersTrack
  <1>3. wedged' = wedged
    BY TrackIs
  <1>4. ~wedged' => InUse'
    BY <1>3, InUseTrack
  <1> QED BY <1>1, <1>2, <1>4

LEMMA BuffersRelease ==
  ASSUME BuffersInv, NEW t \in Thread, NEW h \in BagToSet(held), Release(t, h)
  PROVE  BuffersInv'
  <1> USE DEF BuffersInv, Core
  <1>1. Core'
    BY CoreRelease
  <1>2. Dominated' /\ Owners'
    BY ReleaseDominated, OwnersRelease
  <1>3. wedged' = wedged
    BY DEF Release
  <1>4. ~wedged' => InUse'
    BY <1>3, InUseRelease
  <1> QED BY <1>1, <1>2, <1>4

LEMMA BuffersRemove ==
  ASSUME BuffersInv, NEW t \in Thread, RemovePage(t)
  PROVE  BuffersInv'
  <1> USE DEF BuffersInv, Core
  <1>1. Core'
    BY CoreRemove
  <1>2. UNCHANGED <<bufs, held>> /\ ~wedged
    BY DEF RemovePage
  <1>3. Dominated' /\ Owners'
    BY <1>2, DominatedSame, OwnersRemove
  <1>4. InUse'
    BY <1>2, InUseRemove
  <1> QED BY <1>1, <1>3, <1>4

LEMMA BuffersQuiet ==
  ASSUME BuffersInv, NEW t \in Thread,
         PrepareFails(t) \/ InvalPage(t) \/ InvalFails(t) \/ UnpinPage(t) \/ UnmapBuffer(t)
  PROVE  BuffersInv'
  <1> USE DEF BuffersInv, Core
  <1>1. Core'
    BY CoreQuiet
  <1>2. UNCHANGED <<pt, bufs, held>> /\ (~wedged' => ~wedged)
    BY DEF PrepareFails, InvalPage, InvalFails, UnpinPage, UnmapBuffer
  <1>3. Dominated'
    BY <1>2, DominatedSame
  <1>4. ASSUME NEW pc \in Removing, Onward(t, pc), thr[t].pc \in {"inval", "unpin"}, mem' = mem
        PROVE  Owners'
    <2>1. /\ thr'[t].pc = pc /\ \A u \in Thread \ {t} : thr'[u] = thr[u]
          /\ thr'[t].at = thr[t].at /\ thr'[t].end = thr[t].end /\ thr'[t].start = thr[t].start
          /\ thr'[t].vaddr = thr[t].vaddr /\ (thr'[t].alloc <=> thr[t].alloc)
      BY <1>4, OnwardRange
    <2>2. thr[t].pc \in Removing /\ thr'[t].pc # "pin"
      BY <1>4, <2>1 DEF Removing
    <2> QED BY <1>2, <1>4, <2>1, <2>2, OwnersSteady
  <1>5. CASE PrepareFails(t)
    <2>1. thr' = [thr EXCEPT ![t] = Idle] /\ mem' = mem /\ wedged' = wedged
      BY <1>5 DEF PrepareFails
    <2>2. thr'[t] = Idle /\ \A u \in Thread \ {t} : thr'[u] = thr[u]
      BY <2>1, ToIdle
    <2>3. thr'[t].pc = "idle"
      BY <2>2 DEF Idle
    <2>4. Owners'
      BY <1>2, <2>1, <2>2, <2>3, OwnersSteady
    <2> QED BY <1>1, <1>2, <1>3, <1>5, <2>4, InUseQuiet
  <1>6. CASE InvalPage(t)
    <2>1. thr[t].pc = "inval" /\ Onward(t, "unpin") /\ mem' = mem
      BY <1>6, InvalPageIs
    <2>2. Owners'
      BY <1>4, <2>1 DEF Removing
    <2> QED BY <1>1, <1>2, <1>3, <1>6, <2>2, InUseQuiet
  <1>7. CASE InvalFails(t)
    <2>1. thr[t].pc = "inval" /\ Onward(t, "break") /\ mem' = mem /\ wedged' = TRUE
      BY <1>7, InvalFailsIs
    <2>2. Owners'
      BY <1>4, <2>1 DEF Removing
    <2> QED BY <1>1, <1>3, <2>1, <2>2
  <1>8. CASE UnpinPage(t)
    <2>1. PICK pc \in {"remove", "unmap"} :
              thr[t].pc = "unpin" /\ Onward(t, pc) /\ UNCHANGED <<mem, pt, bufs, held, skipped>>
      BY <1>8, UnpinPageIs
    <2>2. Owners'
      BY <1>4, <2>1 DEF Removing
    <2> QED BY <1>1, <1>2, <1>3, <1>8, <2>2, InUseQuiet
  <1>9. CASE UnmapBuffer(t)
    <2>1. Owners'
      BY <1>9, OwnersUnmap
    <2> QED BY <1>1, <1>2, <1>3, <1>9, <2>1, InUseUnmap
  <1> QED BY <1>5, <1>6, <1>7, <1>8, <1>9

LEMMA BuffersStutter ==
  ASSUME BuffersInv, UNCHANGED vars
  PROVE  BuffersInv'
  <1> USE DEF BuffersInv
  <1>1. UNCHANGED <<mem, huge, pt, pinned, cached, bufs, held, thr, wedged, skipped>>
    BY DEF vars
  <1>2. Core'
    BY CoreKept
  <1>3. Dominated'
    BY <1>1, DominatedSame
  <1>4. \A u \in Thread : CallOwns(u)' <=> CallOwns(u)
    BY <1>1 DEF CallOwns, MayUnmap, Meets, Pinned
  <1>5. Owners'
    <2>1. \A d \in BagToSet(bufs) : DescLand(d) \subseteq Page
      BY LandOfDesc DEF Core
    <2>2. \A u \in Thread : CallOwns(u) => Land(u) \subseteq Page
      BY LandOfCall DEF CallOwns, Removing, Core
    <2> QED BY <1>1, <2>1, <2>2, OwnersUser
  <1>6. ~wedged' => InUse'
    <2> SUFFICES ASSUME ~wedged PROVE InUse'
      BY <1>1
    <2> USE DEF Core, InUse
    <2>1. Keeps
      <3>1. skipped \subseteq skipped' /\ \A s \in Region : Pinned(s) => Pinned(s)'
        BY <1>1 DEF Pinned
      <3> QED BY <3>1, KeepsPinned
    <2>2. \A p : InBuffer(p)' <=> InBuffer(p)
      BY <1>1 DEF InBuffer, EndOf
    <2>3. Prepared'
      BY <1>1, <2>1, <2>2, PreparedKept
    <2>4. LeftBehind'
      BY <1>1, <1>4, <2>1, <2>2, LeftBehindKept
    <2>5. HeldMapped'
      BY <1>1, <2>1, HeldMappedKept
    <2> QED BY <2>3, <2>4, <2>5
  <1> QED BY <1>2, <1>3, <1>5, <1>6

LEMMA BuffersStep == BuffersInv /\ [Next]_vars => BuffersInv'
  <1> SUFFICES ASSUME BuffersInv, [Next]_vars PROVE BuffersInv'
    OBVIOUS
  <1>1. CASE UNCHANGED vars
    BY <1>1, BuffersStutter
  <1>2. CASE \E r \in Region : UserMap(r) \/ UserUnmap(r)
    BY <1>2, BuffersUser
  <1>3. ASSUME NEW t \in Thread,
               \/ \E n \in Lengths : \E a \in Address : Prealloc(t, a, n) \/ Alloc(t, n, a)
               \/ \E h \in BagToSet(held) : Release(t, h)
        PROVE  BuffersInv'
    BY <1>3, BuffersBegin, BuffersRelease
  <1>4. ASSUME NEW t \in Thread, Call(t)
        PROVE  BuffersInv'
    BY <1>4, BuffersPin, BuffersTrack, BuffersRemove, BuffersQuiet DEF Call
  <1> QED BY <1>1, <1>2, <1>3, <1>4 DEF Next

\* What is in use is pinned, counted and mapped.
LEMMA InUseOfInv == BuffersInv => InUseKept
  <1> SUFFICES ASSUME BuffersInv PROVE InUseKept
    OBVIOUS
  <1> USE DEF BuffersInv, Core
  <1>1. HeldPinned
    <2>1. ASSUME NEW h \in BagToSet(held), NEW p \in Pages(h.vaddr, h.vaddr + h.len) PROVE Found(p) # {}
      BY <2>1, HeldInBuffer, InBufferFound
    <2>2. \A r \in Region : Pinned(r) => pt[r].refs >= Users(r)
      BY CountsIs
    <2> QED BY <2>1, <2>2 DEF HeldPinned
  <1>2. HeldMapped
    <2>1. CASE wedged
      BY <2>1 DEF HeldMapped
    <2>2. CASE ~wedged
      BY <2>2 DEF InUse
    <2> QED BY <2>1, <2>2
  <1>3. CachedIsPinned
    <2>1. ASSUME NEW r \in cached PROVE pinned[r] > 0
      <3>1. r \in Region /\ pinned[r] \in Nat
        BY <2>1 DEF TypeOK
      <3>2. pinned[r] >= Cardinality(Taken(r, {"unpin"})) + 1
        BY <2>1, <3>1, PinsIs
      <3>3. Cardinality(Taken(r, {"unpin"})) \in Nat
        BY TakenIs
      <3> QED BY <3>1, <3>2, <3>3
    <2> QED BY <2>1 DEF CachedIsPinned
  <1> QED BY <1>1, <1>2, <1>3 DEF InUseKept

\* A buffer in use stays pinned and mapped: every page of a buffer that the
\* user holds has an entry, whose count is at least the number of buffers and
\* calls that need it; nothing that the FPGA may have cached is unpinned; and
\* the memory is mapped, unless a release stepped over the page or left the
\* mutex locked.
THEOREM BuffersKept == Spec => []InUseKept
  <1>1. BuffersInv /\ [Next]_vars => BuffersInv'
    BY BuffersStep
  <1> QED BY BuffersInit, <1>1, InUseOfInv, PTL DEF Spec

\* The table counts exactly: an entry whose count exceeds its users is one of
\* which a call is known to have left a reference behind.
THEOREM LeaksAccounted == Spec => []LeaksExplained
  <1>1. BuffersInv /\ [Next]_vars => BuffersInv'
    BY BuffersStep
  <1>2. BuffersInv => LeaksExplained
    <2> SUFFICES ASSUME BuffersInv, NEW r \in Region, Pinned(r), pt[r].refs > Users(r) PROVE r \in lost
      BY DEF LeaksExplained
    <2>1. r \notin lost => pt[r].refs = Users(r)
      BY CountsIs DEF BuffersInv, Core
    <2>2. Users(r) \in Nat
      BY UsersIs DEF BuffersInv, Core
    <2> QED BY <2>1, <2>2
  <1> QED BY BuffersInit, <1>1, <1>2, PTL DEF Spec
=============================================================================
