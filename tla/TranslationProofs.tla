-------------------------- MODULE TranslationProofs --------------------------
(***************************************************************************)
(* Theorems about the page table and about the caches of the translations  *)
(* that the FPGA reads from it.                                            *)
(*                                                                         *)
(* VtpPageTable, for every number of levels, size of nodes and set of      *)
(* addresses: the tree and the cache of its last search hang together,     *)
(* each page of it keeps one pin, and it is a map of pinned regions.       *)
(*                                                                         *)
(* VtpTlb, for every number of requests and of invalidations: an           *)
(* invalidation reaches every cache, but for the named races, and each     *)
(* request is answered once, with a translation of its own time.  Placed   *)
(* says where each request is, Fresh of which time each translation is,    *)
(* wherever it is held; together they are inductive.                       *)
(***************************************************************************)
EXTENDS VtpPageTable, VtpTlb, FiniteSetTheorems, WellFoundedInduction, TLAPS

-----------------------------------------------------------------------------
(* The page table: arithmetic.                                             *)

LEMMA NatLess == IsWellFoundedOn({p \in Nat \X Nat : p[1] < p[2]}, Nat)
  <1>1. OpToRel(<, Nat) = {p \in Nat \X Nat : p[1] < p[2]}
    BY DEF OpToRel
  <1> QED BY <1>1, NatLessThanWellFounded

\* Induction over numbers, as a fact about sets.
LEMMA Least ==
  ASSUME NEW T \in SUBSET Nat, T # {}
  PROVE  \E m \in T : \A k \in T : m <= k
  <1>1. PICK m \in T : \A k \in T : ~ (<<k, m>> \in {p \in Nat \X Nat : p[1] < p[2]})
    BY NatLess, WFMin
  <1>2. ASSUME NEW k \in T
        PROVE  m <= k
    <2>1. k \in Nat /\ m \in Nat /\ <<k, m>> \in Nat \X Nat
      OBVIOUS
    <2>2. ~ (<<k, m>>[1] < <<k, m>>[2])
      BY <1>1, <2>1
    <2> QED BY <2>1, <2>2
  <1> QED BY <1>2

LEMMA Times ==
  ASSUME NEW x \in Nat, NEW y \in Nat, NEW s \in Nat
  PROVE  /\ x * s \in Nat
         /\ x <= y => x * s <= y * s
         /\ x * s < y * s => x < y
         /\ (x + 1) * s = x * s + s
  OBVIOUS

LEMMA Quotient ==
  ASSUME NEW a \in Nat, NEW b \in Nat \ {0}
  PROVE  a \div b \in Nat /\ (a \div b) * b <= a /\ a < ((a \div b) + 1) * b
  OBVIOUS

LEMMA QuotientIs ==
  ASSUME NEW a \in Nat, NEW b \in Nat \ {0}, NEW q \in Nat, q * b <= a, a < (q + 1) * b
  PROVE  a \div b = q
  <1> DEFINE d == a \div b
  <1>1. d \in Nat /\ d * b <= a /\ a < (d + 1) * b
    BY Quotient
  <1> HIDE DEF d
  <1>2. q * b < (d + 1) * b /\ d * b < (q + 1) * b
    BY <1>1
  <1>3. q < d + 1 /\ d < q + 1
    BY <1>1, <1>2, Times
  <1> QED BY <1>1, <1>3 DEF d

\* The region of an address at a size is in its region at a multiple of the size.
LEMMA Nested ==
  ASSUME NEW a \in Nat, NEW s \in Nat \ {0}, NEW m \in Nat \ {0}
  PROVE  ((a \div s) * s) \div (m * s) = a \div (m * s)
  <1> DEFINE n == a \div s
             t == m * s
             q == a \div t
  <1>1. t \in Nat \ {0}
    OBVIOUS
  <1>2. n \in Nat /\ n * s <= a /\ a < (n + 1) * s
    BY Quotient
  <1>3. q \in Nat /\ q * t <= a /\ a < (q + 1) * t
    BY <1>1, Quotient
  <1> HIDE DEF n, q
  <1>4. q * t = (q * m) * s /\ q * m \in Nat
    BY <1>3
  <1>5. (q * m) * s < (n + 1) * s
    BY <1>2, <1>3, <1>4
  <1>6. q * m <= n
    BY <1>2, <1>4, <1>5, Times
  <1>7. (q * m) * s <= n * s
    BY <1>2, <1>4, <1>6, Times
  <1> HIDE DEF t
  <1>8. n * s \in Nat /\ q * t <= n * s /\ n * s < (q + 1) * t
    <2> DEFINE x == n * s
               y == (q + 1) * t
    <2>1. x \in Nat /\ y \in Nat
      BY <1>1, <1>2, <1>3
    <2>2. x <= a /\ a < y
      BY <1>2, <1>3
    <2>3. q * t <= x
      BY <1>4, <1>7
    <2> HIDE DEF x, y
    <2>4. x < y
      BY <2>1, <2>2
    <2> QED BY <2>1, <2>3, <2>4 DEF x, y
  <1>9. (n * s) \div t = q
    BY <1>1, <1>3, <1>8, QuotientIs
  <1> QED BY <1>9 DEF n, t, q

\* The span of a level divides those of the levels above.
LEMMA SpanDivides ==
  ASSUME NEW l \in 0 .. Levels, NEW k \in l .. Levels
  PROVE  /\ Span[l] \in Nat \ {0} /\ Span[k] \in Nat \ {0}
         /\ \E m \in Nat \ {0} : Span[k] = m * Span[l]
  <1>1. /\ Levels \in Nat /\ l \in Nat /\ k \in Nat /\ k \in 0 .. Levels
        /\ \A i \in 0 .. Levels : Span[i] \in Nat \ {0}
    BY TableAssumption
  <1> DEFINE Fails == {i \in l .. Levels : ~ \E m \in Nat \ {0} : Span[i] = m * Span[l]}
  <1>2. ASSUME Fails # {}
        PROVE  FALSE
    <2>1. Fails \in SUBSET Nat
      BY <1>1
    <2>2. PICK i \in Fails : \A j \in Fails : i <= j
      BY <1>2, <2>1, Least
    <2>3. i \in l .. Levels /\ ~ \E m \in Nat \ {0} : Span[i] = m * Span[l]
      OBVIOUS
    <2>4. i # l
      <3>1. Span[l] = 1 * Span[l]
        BY <1>1
      <3> QED BY <2>3, <3>1
    <2>5. i - 1 \in l .. Levels /\ i - 1 \notin Fails /\ i - 1 \in Level /\ (i - 1) + 1 = i
      BY <1>1, <2>2, <2>3, <2>4 DEF Level
    <2>6. PICK m \in Nat \ {0} : Span[i - 1] = m * Span[l]
      BY <2>5
    <2>7. PICK n \in 1 .. Span[i] : Span[i] = n * Span[i - 1]
      BY <2>5, TableAssumption
    <2>8. n \in Nat \ {0} /\ n * m \in Nat \ {0} /\ Span[l] \in Nat
      BY <1>1, <2>3
    <2>9. n * (m * Span[l]) = (n * m) * Span[l]
      BY <2>8
    <2> QED BY <2>3, <2>6, <2>7, <2>8, <2>9
  <1>3. k \notin Fails
    BY <1>2
  <1> QED BY <1>1, <1>3

-----------------------------------------------------------------------------
(* The tree of addresses.                                                  *)

Address == 0 .. Span[Levels] - 1

\* What an entry is.
LEMMA EntryIs ==
  ASSUME NEW e \in Entry
  PROVE  /\ e[1] \in Level /\ First(e) \in Address /\ e = At(e[1], First(e))
  <1>1. PICK l \in Level, va \in Address : e = At(l, va)
    BY DEF Entry, Address
  <1>2. l \in 0 .. Levels /\ Levels \in l .. Levels /\ va \in Nat
    BY TableAssumption DEF Level, Address
  <1>3. Span[l] \in Nat \ {0} /\ Span[Levels] \in Nat
    BY <1>2, SpanDivides
  <1>4. e[1] = l /\ e[2] = va \div Span[l] /\ First(e) = (va \div Span[l]) * Span[l]
    BY <1>1 DEF At, First
  <1>5. First(e) \in Address
    BY <1>2, <1>3, <1>4, Quotient DEF Address
  <1>6. 1 \in Nat \ {0} /\ 1 * Span[l] = Span[l]
    BY <1>3
  <1>7. First(e) \div Span[l] = va \div Span[l]
    BY <1>2, <1>3, <1>4, <1>6, Nested
  <1> QED BY <1>1, <1>4, <1>5, <1>7 DEF At

LEMMA AtIs ==
  ASSUME NEW l \in Level, NEW va \in Address
  PROVE  /\ At(l, va) \in Entry /\ At(l, va)[1] = l
         /\ \A k \in l .. Top : At(k, First(At(l, va))) = At(k, va)
  <1>1. At(l, va) \in Entry /\ At(l, va)[1] = l
    BY DEF At, Entry, Address
  <1>2. ASSUME NEW k \in l .. Top
        PROVE  At(k, First(At(l, va))) = At(k, va)
    <2>1. l \in 0 .. Levels /\ k \in l .. Levels /\ va \in Nat
      BY TableAssumption DEF Level, Top, Address
    <2>2. PICK m \in Nat \ {0} : Span[k] = m * Span[l]
      BY <2>1, SpanDivides
    <2>3. First(At(l, va)) = (va \div Span[l]) * Span[l] /\ Span[l] \in Nat \ {0}
      BY <2>1, SpanDivides DEF First, At
    <2>4. First(At(l, va)) \div Span[k] = va \div Span[k]
      BY <2>1, <2>2, <2>3, Nested
    <2> QED BY <2>4 DEF At
  <1> QED BY <1>1, <1>2

\* The way up from an entry.
LEMMA AboveIs ==
  ASSUME NEW e \in Entry
  PROVE  /\ Above[e] = {At(l, First(e)) : l \in e[1] + 1 .. Top}
         /\ \A a \in Above[e] : /\ a \in Entry /\ a[1] \in Level /\ a[1] > e[1]
                                /\ a = At(a[1], First(e)) /\ Above[a] \subseteq Above[e]
         /\ e \notin Above[e]
         /\ e[1] < Top => Up(e) \in Above[e] /\ Up(e)[1] = e[1] + 1
  <1>1. Above[e] = {At(l, First(e)) : l \in e[1] + 1 .. Top}
    BY DEF Above
  <1>2. e[1] \in Level /\ First(e) \in Address /\ e = At(e[1], First(e)) /\ Levels \in Nat
    BY EntryIs, TableAssumption
  <1>3. ASSUME NEW a \in Above[e]
        PROVE  /\ a \in Entry /\ a[1] \in Level /\ a[1] > e[1]
               /\ a = At(a[1], First(e)) /\ Above[a] \subseteq Above[e]
    <2>1. PICK l \in e[1] + 1 .. Top : a = At(l, First(e))
      BY <1>1
    <2>2. l \in Level /\ l > e[1]
      BY <1>2, <2>1 DEF Level, Top
    <2>3. a \in Entry /\ a[1] = l /\ \A k \in l .. Top : At(k, First(a)) = At(k, First(e))
      BY <1>2, <2>1, <2>2, AtIs
    <2>4. Above[a] = {At(k, First(a)) : k \in l + 1 .. Top}
      BY <2>3 DEF Above
    <2>5. ASSUME NEW k \in l + 1 .. Top
          PROVE  At(k, First(a)) \in Above[e]
      <3>1. k \in l .. Top /\ k \in e[1] + 1 .. Top
        BY <1>2, <2>2 DEF Level, Top
      <3> QED BY <1>1, <2>3, <3>1
    <2> QED BY <2>1, <2>2, <2>3, <2>4, <2>5
  <1>4. e \notin Above[e]
    BY <1>2, <1>3 DEF Level
  <1>5. ASSUME e[1] < Top
        PROVE  Up(e) \in Above[e] /\ Up(e)[1] = e[1] + 1
    <2>1. e[1] + 1 \in e[1] + 1 .. Top
      BY <1>2, <1>5 DEF Level, Top
    <2> QED BY <1>1, <2>1 DEF Up, At
  <1> QED BY <1>1, <1>3, <1>4, <1>5

\* What is below an entry is in it, or below something that is in it.
LEMMA BelowIs ==
  ASSUME NEW e \in Entry, NEW f \in Under[e]
  PROVE  /\ f \in Entry /\ e \in Above[f] /\ f[1] < e[1]
         /\ \E g \in Entry : /\ g = f \/ g \in Above[f]
                             /\ g[1] < Top /\ Up(g) = e /\ g \in Under[e]
  <1>1. f \in Entry /\ e \in Above[f]
    BY DEF Under
  <1>2. f[1] \in Level /\ First(f) \in Address /\ f = At(f[1], First(f)) /\ Levels \in Nat
    BY <1>1, EntryIs, TableAssumption
  <1>3. e[1] > f[1] /\ e[1] \in Level /\ e = At(e[1], First(f))
    BY <1>1, AboveIs
  <1> DEFINE g == At(e[1] - 1, First(f))
  <1>4. e[1] - 1 \in Level /\ e[1] \in (e[1] - 1) .. Top /\ (e[1] - 1) + 1 = e[1] /\ e[1] - 1 < Top
    BY <1>2, <1>3 DEF Level, Top
  <1>5. g \in Entry /\ g[1] = e[1] - 1 /\ At(e[1], First(g)) = e
    BY <1>2, <1>3, <1>4, AtIs
  <1>6. g = f \/ g \in Above[f]
    <2>1. CASE e[1] - 1 = f[1]
      BY <1>2, <2>1
    <2>2. CASE e[1] - 1 # f[1]
      <3>1. e[1] - 1 \in f[1] + 1 .. Top
        BY <1>2, <1>3, <1>4, <2>2 DEF Level, Top
      <3> QED BY <1>1, <3>1, AboveIs
    <2> QED BY <2>1, <2>2
  <1> HIDE DEF g
  <1>7. Up(g) = e
    BY <1>4, <1>5 DEF Up
  <1>8. g \in Under[e]
    BY <1>4, <1>5, <1>7, AboveIs DEF Under
  <1> QED BY <1>1, <1>3, <1>4, <1>5, <1>6, <1>7, <1>8

\* Where two ways up meet they are one.
LEMMA OneWay ==
  ASSUME NEW va \in Address, NEW l \in Level
  PROVE  Above[At(l, va)] = {At(k, va) : k \in l + 1 .. Top}
  <1>1. At(l, va) \in Entry /\ At(l, va)[1] = l /\ \A k \in l .. Top : At(k, First(At(l, va))) = At(k, va)
    BY AtIs
  <1>2. Above[At(l, va)] = {At(k, First(At(l, va))) : k \in l + 1 .. Top}
    BY <1>1 DEF Above
  <1>3. \A k \in l + 1 .. Top : k \in l .. Top
    BY TableAssumption DEF Level, Top
  <1> QED BY <1>1, <1>2, <1>3

LEMMA UpThenAbove ==
  ASSUME NEW e \in Entry, NEW a \in Above[e]
  PROVE  e[1] < Top /\ Up(e) \in Entry /\ (a = Up(e) \/ a \in Above[Up(e)])
  <1>1. e[1] \in Level /\ First(e) \in Address /\ Levels \in Nat
    BY EntryIs, TableAssumption
  <1>2. PICK k \in e[1] + 1 .. Top : a = At(k, First(e))
    BY AboveIs
  <1>3. e[1] + 1 \in Level /\ e[1] < Top
    BY <1>1, <1>2 DEF Level, Top
  <1>4. Above[Up(e)] = {At(i, First(e)) : i \in (e[1] + 1) + 1 .. Top}
    BY <1>1, <1>3, OneWay DEF Up
  <1>5. k = e[1] + 1 \/ k \in (e[1] + 1) + 1 .. Top
    BY <1>1, <1>2 DEF Level, Top
  <1> QED BY <1>2, <1>3, <1>4, <1>5, AboveIs DEF Up

-----------------------------------------------------------------------------
(* The tree's invariant.                                                   *)

\* Pages of the smallest size have no nodes.
Leaf == \A e \in Entry : e[1] = 0 => ~IsChild(e)

OnePin == \A e \in Entry : pins[e] = dropped[e] + (IF IsPage(e) THEN 1 ELSE 0)

TreeInv == PtTypeOK /\ Leaf /\ Rooted /\ PrevLive /\ OnePin

\* An entry in use is reached from the root.
LEMMA AllReached ==
  ASSUME PtTypeOK, Rooted
  PROVE  \A e \in Entry : ~IsEmpty(e) => Reached(e)
  <1> SUFFICES ASSUME NEW e \in Entry, ~IsEmpty(e), ~Reached(e)
               PROVE  FALSE
    OBVIOUS
  <1> DEFINE Cut == {a[1] : a \in {b \in Above[e] : ~IsChild(b)}}
  <1>1. \A a \in Above[e] : a \in Entry /\ a[1] \in Level /\ a[1] > e[1] /\ a = At(a[1], First(e))
    BY AboveIs
  <1>2. e[1] \in Level /\ First(e) \in Address /\ e = At(e[1], First(e)) /\ Levels \in Nat
    BY EntryIs, TableAssumption
  <1>3. Cut \in SUBSET Nat /\ Cut # {}
    BY <1>1 DEF Reached, Level
  <1>4. PICK m \in Cut : \A k \in Cut : m <= k
    BY <1>3, Least
  <1>5. PICK a \in Above[e] : ~IsChild(a) /\ a[1] = m
    OBVIOUS
  <1>6. e \in Under[a]
    BY <1>1, <1>5 DEF Under
  <1>7. PICK g \in Entry : (g = e \/ g \in Above[e]) /\ g[1] < Top /\ Up(g) = a /\ g \in Under[a]
    BY <1>1, <1>6, BelowIs
  <1>8. g[1] < a[1] /\ g[1] \in Nat /\ a[1] \in Nat
    BY <1>1, <1>5, <1>7, BelowIs, EntryIs DEF Level
  <1>9. ~IsEmpty(g)
    <2>1. CASE g = e
      BY <2>1
    <2>2. CASE g \in Above[e]
      <3>1. g[1] \notin Cut
        BY <1>3, <1>4, <1>5, <1>8
      <3>2. IsChild(g)
        BY <2>2, <3>1
      <3> QED BY <3>2 DEF IsChild, IsEmpty
    <2> QED BY <1>7, <2>1, <2>2
  <1> QED BY <1>5, <1>7, <1>9 DEF Rooted

-----------------------------------------------------------------------------
(* Searches.                                                               *)

\* A walk stops at one level only.
LEMMA StopIs ==
  ASSUME PtTypeOK, Leaf, NEW va \in Address, NEW top \in Level
  PROVE  /\ StopFrom(top, va) \in 0 .. top /\ ~IsChild(At(StopFrom(top, va), va))
         /\ \A k \in StopFrom(top, va) + 1 .. top : IsChild(At(k, va))
         /\ \A l \in 0 .. top : ~IsChild(At(l, va)) /\ (\A k \in l + 1 .. top : IsChild(At(k, va)))
                                => l = StopFrom(top, va)
  <1> DEFINE Stops(l) == ~IsChild(At(l, va)) /\ \A k \in l + 1 .. top : IsChild(At(k, va))
             Up1 == {top - l : l \in {i \in 0 .. top : ~IsChild(At(i, va))}}
  <1>1. top \in Nat /\ Levels \in Nat /\ 0 \in Level
    BY TableAssumption DEF Level
  <1>2. ~IsChild(At(0, va))
    BY <1>1, AtIs DEF Leaf
  <1>3. Up1 \in SUBSET Nat /\ top - 0 \in Up1
    BY <1>1, <1>2
  <1>4. PICK d \in Up1 : \A k \in Up1 : d <= k
    BY <1>3, Least
  <1>5. PICK l \in 0 .. top : ~IsChild(At(l, va)) /\ d = top - l
    OBVIOUS
  <1>6. ASSUME NEW k \in l + 1 .. top, ~IsChild(At(k, va))
        PROVE  FALSE
    <2>1. k \in 0 .. top /\ top - k \in Up1
      BY <1>1, <1>6
    <2> QED BY <1>1, <1>4, <1>5, <2>1
  <1>7. \E i \in 0 .. top : Stops(i)
    BY <1>5, <1>6
  <1>8. StopFrom(top, va) \in 0 .. top /\ Stops(StopFrom(top, va))
    BY <1>7 DEF StopFrom
  <1>9. ASSUME NEW i \in 0 .. top, Stops(i)
        PROVE  i = StopFrom(top, va)
    <2> DEFINE j == StopFrom(top, va)
    <2>1. j \in 0 .. top /\ Stops(j)
      BY <1>8
    <2> HIDE DEF j
    <2>2. ~(i < j)
      <3>1. i < j => j \in i + 1 .. top
        BY <1>1, <2>1
      <3> QED BY <1>9, <2>1, <3>1
    <2>3. ~(j < i)
      <3>1. j < i => i \in j + 1 .. top
        BY <1>1, <2>1
      <3> QED BY <1>9, <2>1, <3>1
    <2>4. i = j
      BY <1>1, <2>1, <2>2, <2>3
    <2> QED BY <2>4 DEF j
  <1> QED BY <1>8, <1>9

\* A search ends at the same entry from the remembered node as from the root.
LEMMA SameStop ==
  ASSUME PtTypeOK, Leaf, Rooted, PrevLive, NEW va \in Address
  PROVE  /\ StopFrom(StartOf(va), va) = StopFrom(Top, va)
         /\ Stop(va) = At(StopFrom(Top, va), va) /\ Stop(va) \in Entry
         /\ Stop(va)[1] = StopFrom(Top, va)
  <1>1. Top \in Level /\ Levels \in Nat
    BY TableAssumption DEF Level, Top
  <1>2. StopFrom(StartOf(va), va) = StopFrom(Top, va)
    <2>1. CASE prev # Nothing /\ At(prev[1], va) = prev
      <3> DEFINE p == prev[1]
      <3>1. StartOf(va) = p /\ prev \in Entry /\ p \in Level
        BY <2>1, EntryIs DEF StartOf, PtTypeOK
      <3>2. \A a \in Above[prev] : IsChild(a)
        <4> SUFFICES ASSUME NEW a \in Above[prev]
                     PROVE  IsChild(a)
          OBVIOUS
        <4>1. prev[1] < Top /\ Up(prev) \in Entry /\ (a = Up(prev) \/ a \in Above[Up(prev)])
          BY <3>1, UpThenAbove
        <4>2. IsChild(Up(prev))
          BY <2>1, <4>1 DEF PrevLive
        <4>3. Reached(Up(prev))
          BY <4>1, <4>2, AllReached DEF IsChild, IsEmpty
        <4> QED BY <4>1, <4>2, <4>3 DEF Reached
      <3>3. Above[prev] = {At(k, va) : k \in p + 1 .. Top}
        BY <2>1, <3>1, OneWay
      <3> DEFINE s == StopFrom(p, va)
      <3>4. s \in 0 .. p /\ ~IsChild(At(s, va)) /\ \A k \in s + 1 .. p : IsChild(At(k, va))
        BY <3>1, StopIs
      <3> HIDE DEF s
      <3>5. s \in 0 .. Top /\ \A k \in s + 1 .. Top : k \in s + 1 .. p \/ k \in p + 1 .. Top
        BY <1>1, <3>1, <3>4 DEF Level, Top
      <3>6. \A k \in s + 1 .. Top : IsChild(At(k, va))
        BY <3>2, <3>3, <3>4, <3>5
      <3>7. s = StopFrom(Top, va)
        BY <1>1, <3>4, <3>5, <3>6, StopIs
      <3> QED BY <3>1, <3>7 DEF s
    <2>2. CASE ~(prev # Nothing /\ At(prev[1], va) = prev)
      BY <2>2 DEF StartOf
    <2> QED BY <2>1, <2>2
  <1>3. StopFrom(Top, va) \in Level
    BY <1>1, StopIs DEF Level, Top
  <1> QED BY <1>2, <1>3, AtIs DEF Stop

\* A page is found by every address in it.
LEMMA PageFound ==
  ASSUME PtTypeOK, Leaf, Rooted, PrevLive, NEW va \in Address, NEW l \in Level, IsPage(At(l, va))
  PROVE  Stop(va) = At(l, va) /\ HasPage(va)
  <1>1. Top \in Level /\ Levels \in Nat /\ l \in 0 .. Top
    BY TableAssumption DEF Level, Top
  <1>2. At(l, va) \in Entry /\ ~IsChild(At(l, va)) /\ ~IsEmpty(At(l, va))
    BY AtIs DEF IsPage, IsChild, IsEmpty
  <1>3. \A a \in Above[At(l, va)] : IsChild(a)
    BY <1>2, AllReached DEF Reached
  <1>4. \A k \in l + 1 .. Top : IsChild(At(k, va))
    BY <1>3, OneWay
  <1>5. l = StopFrom(Top, va)
    BY <1>1, <1>2, <1>4, StopIs
  <1> QED BY <1>5, SameStop DEF HasPage

\* A page that is above, at or below an entry of an address that is not found.
LEMMA NotFound ==
  ASSUME PtTypeOK, Leaf, Rooted, PrevLive, NEW va \in Address, NEW l \in Level, ~HasPage(va)
  PROVE  NoPageAbove(At(l, va)) /\ ~IsPage(At(l, va))
  <1>1. Above[At(l, va)] = {At(k, va) : k \in l + 1 .. Top}
    BY OneWay
  <1>2. \A k \in l + 1 .. Top : k \in Level
    BY TableAssumption DEF Level, Top
  <1> QED BY <1>1, <1>2, PageFound DEF NoPageAbove

-----------------------------------------------------------------------------
(* How a call changes the table.                                           *)

\* What an entry holds.
LEMMA EntryHolds ==
  ASSUME PtTypeOK, NEW e \in Entry
  PROVE  /\ table[e] \in {Empty, Child} \union {Page(n, o) : n \in 1 .. MaxRefs, o \in Owners}
         /\ IsEmpty(e) <=> table[e] = Empty
         /\ IsChild(e) <=> table[e] = Child
         /\ IsPage(e) <=> \E n \in 1 .. MaxRefs, o \in Owners : table[e] = Page(n, o)
         /\ IsPage(e) => /\ table[e].refs \in 1 .. MaxRefs /\ table[e].owner \in Owners
                         /\ table[e] = Page(table[e].refs, table[e].owner)
         /\ IsEmpty(e) \/ IsChild(e) \/ IsPage(e)
  <1>1. table[e] \in {Empty, Child} \union {Page(n, o) : n \in 1 .. MaxRefs, o \in Owners}
    BY DEF PtTypeOK
  <1>2. table[e] = Empty => /\ IsEmpty(e) /\ ~IsChild(e) /\ ~IsPage(e) /\ table[e] # Child
                            /\ \A n \in 1 .. MaxRefs, o \in Owners : table[e] # Page(n, o)
    BY DEF IsEmpty, IsChild, IsPage, Empty, Child, Page
  <1>3. table[e] = Child => /\ IsChild(e) /\ ~IsEmpty(e) /\ ~IsPage(e) /\ table[e] # Empty
                            /\ \A n \in 1 .. MaxRefs, o \in Owners : table[e] # Page(n, o)
    BY DEF IsEmpty, IsChild, IsPage, Empty, Child, Page
  <1>4. ASSUME NEW n \in 1 .. MaxRefs, NEW o \in Owners, table[e] = Page(n, o)
        PROVE  /\ IsPage(e) /\ ~IsEmpty(e) /\ ~IsChild(e) /\ table[e] # Empty /\ table[e] # Child
               /\ table[e].refs = n /\ table[e].owner = o
    BY <1>4 DEF IsEmpty, IsChild, IsPage, Empty, Child, Page
  <1> QED BY <1>1, <1>2, <1>3, <1>4

\* A page that is counted is one before and after, and no node comes or goes.
LEMMA Counting ==
  ASSUME TreeInv, NEW e \in Entry, NEW o \in Owners, CountRef(e, o)
  PROVE  /\ table' \in [Entry -> {Empty, Child} \union {Page(n, p) : n \in 1 .. MaxRefs, p \in Owners}]
         /\ prev' \in {prev, Nothing}
         /\ \A f \in Entry : /\ (IsPage(f))' <=> IsPage(f)
                             /\ (IsChild(f))' <=> IsChild(f)
                             /\ (IsEmpty(f))' <=> IsEmpty(f)
         /\ \E a \in Above[e] \union {e} : IsPage(a)
  <1>1. PICK a \in Above[e] \union {e} :
                /\ IsPage(a) /\ table[a].refs < MaxRefs
                /\ table' = [table EXCEPT ![a] = Shared(@, o)]
                /\ prev' = IF a = e THEN Nothing ELSE prev
    BY DEF CountRef
  <1>2. /\ a \in Entry
        /\ table \in [Entry -> {Empty, Child} \union {Page(n, p) : n \in 1 .. MaxRefs, p \in Owners}]
    BY AboveIs DEF TreeInv, PtTypeOK
  <1>3. PICK n \in 1 .. MaxRefs, p \in Owners : table[a] = Page(n, p)
    BY <1>1, <1>2, EntryHolds DEF TreeInv
  <1>4. n + 1 \in 1 .. MaxRefs
    BY <1>1, <1>3, TableAssumption DEF Page
  <1>5. Shared(table[a], o) = Page(n + 1, IF o = "user" THEN "user" ELSE p)
    <2>1. Shared(table[a], o) = [Page(n, p) EXCEPT !.refs = n + 1, !.owner = IF o = "user" THEN "user" ELSE p]
      BY <1>3 DEF Shared, Page
    <2>2. CASE o = "user"
      BY <2>1, <2>2 DEF Page
    <2>3. CASE o # "user"
      BY <2>1, <2>3 DEF Page
    <2> QED BY <2>2, <2>3
  <1>6. (IF o = "user" THEN "user" ELSE p) \in Owners
    OBVIOUS
  <1>7. table' = [table EXCEPT ![a] = Page(n + 1, IF o = "user" THEN "user" ELSE p)]
    BY <1>1, <1>5
  <1>8. table' \in [Entry -> {Empty, Child} \union {Page(i, q) : i \in 1 .. MaxRefs, q \in Owners}]
    BY <1>2, <1>4, <1>6, <1>7
  <1>9. \A f \in Entry : /\ (IsPage(f))' <=> IsPage(f)
                         /\ (IsChild(f))' <=> IsChild(f)
                         /\ (IsEmpty(f))' <=> IsEmpty(f)
    <2> SUFFICES ASSUME NEW f \in Entry
                 PROVE  table'[f].kind = table[f].kind
      BY DEF IsPage, IsChild, IsEmpty
    <2>1. CASE f = a
      <3>1. table'[a] = Page(n + 1, IF o = "user" THEN "user" ELSE p)
        BY <1>2, <1>7
      <3>2. table'[a].kind = "page"
        BY <3>1 DEF Page
      <3>3. table[a].kind = "page"
        BY <1>3 DEF Page
      <3> QED BY <2>1, <3>2, <3>3
    <2>2. CASE f # a
      BY <1>2, <1>7, <2>2
    <2> QED BY <2>1, <2>2
  <1> QED BY <1>1, <1>8, <1>9

\* Nodes are made on the way to an entry.
LEMMA Nodes ==
  ASSUME TreeInv, NEW e \in Entry, OutOfNodes(e)
  PROVE  /\ table' \in [Entry -> {Empty, Child} \union {Page(n, p) : n \in 1 .. MaxRefs, p \in Owners}]
         /\ \A f \in Entry : /\ (IsPage(f))' <=> IsPage(f)
                             /\ IsChild(f) => (IsChild(f))'
                             /\ table'[f] # table[f] => IsEmpty(f) /\ table'[f] = Child
         /\ Leaf' /\ Rooted'
  <1>1. PICK l \in e[1] + 1 .. Top :
                table' = [a \in Entry |-> IF a \in Above[e] /\ a[1] > l THEN Child ELSE table[a]]
    BY DEF OutOfNodes
  <1>2. \A a \in Above[e] : ~IsPage(a) /\ a \in Entry /\ a[1] > e[1]
    BY AboveIs DEF OutOfNodes, NoPageAbove
  <1>3. table \in [Entry -> {Empty, Child} \union {Page(n, p) : n \in 1 .. MaxRefs, p \in Owners}]
    BY DEF TreeInv, PtTypeOK
  <1>4. table' \in [Entry -> {Empty, Child} \union {Page(n, p) : n \in 1 .. MaxRefs, p \in Owners}]
    BY <1>1, <1>3
  <1>5. ASSUME NEW f \in Entry
        PROVE  /\ (IsPage(f))' <=> IsPage(f)
               /\ IsChild(f) => (IsChild(f))'
               /\ table'[f] # table[f] => IsEmpty(f) /\ table'[f] = Child
               /\ (IsChild(f))' => IsChild(f) \/ (f \in Above[e] /\ f[1] > l)
               /\ f \in Above[e] /\ f[1] > l => (IsChild(f))'
               /\ ~(IsEmpty(f))' => ~IsEmpty(f) \/ (f \in Above[e] /\ f[1] > l)
    <2>1. CASE f \in Above[e] /\ f[1] > l
      <3>1. table'[f] = Child /\ ~IsPage(f)
        BY <1>1, <1>2, <2>1
      <3>2. IsEmpty(f) \/ table[f] = Child
        BY <3>1, EntryHolds DEF TreeInv
      <3> QED BY <2>1, <3>1, <3>2 DEF IsPage, IsChild, IsEmpty, Child
    <2>2. CASE ~(f \in Above[e] /\ f[1] > l)
      <3>1. table'[f] = table[f]
        BY <1>1, <2>2
      <3> QED BY <2>2, <3>1 DEF IsPage, IsChild, IsEmpty
    <2> QED BY <2>1, <2>2
  <1>6. Leaf'
    <2>1. e[1] \in Nat
      BY EntryIs DEF Level
    <2> QED BY <1>2, <1>5, <2>1 DEF Leaf, TreeInv
  <1>7. Rooted'
    <2> SUFFICES ASSUME NEW f \in Entry, ~(IsEmpty(f))', f[1] < Top
                 PROVE  (IsChild(Up(f)))'
      BY DEF Rooted, Up, At, First
    <2>1. Up(f) \in Above[f] /\ Up(f)[1] = f[1] + 1 /\ Up(f) \in Entry
      BY AboveIs
    <2>2. CASE ~IsEmpty(f)
      <3>1. IsChild(Up(f))
        BY <2>2 DEF TreeInv, Rooted
      <3> QED BY <1>5, <2>1, <3>1
    <2>3. CASE f \in Above[e] /\ f[1] > l
      <3>1. Up(f) \in Above[e]
        BY <2>1, <2>3, AboveIs
      <3>2. Up(f)[1] > l
        <4>1. f[1] \in Nat /\ l \in Int
          BY EntryIs DEF Level, Top
        <4> QED BY <2>1, <2>3, <4>1
      <3> QED BY <1>5, <2>1, <3>1, <3>2
    <2> QED BY <1>5, <2>2, <2>3
  <1> QED BY <1>4, <1>5, <1>6, <1>7

\* Nothing is below an entry whose node is empty, or that has none.
LEMMA NothingBelow ==
  ASSUME TreeInv, NEW e \in Entry, IsEmpty(e) \/ (IsChild(e) /\ NodeIsEmpty(e))
  PROVE  \A f \in Under[e] : IsEmpty(f)
  <1> SUFFICES ASSUME NEW f \in Under[e], ~IsEmpty(f)
               PROVE  FALSE
    OBVIOUS
  <1>1. f \in Entry /\ e \in Above[f]
    BY BelowIs
  <1>2. \A a \in Above[f] : IsChild(a)
    BY <1>1, AllReached DEF TreeInv, Reached
  <1>3. PICK g \in Entry : (g = f \/ g \in Above[f]) /\ Up(g) = e /\ g \in Under[e]
    BY BelowIs
  <1>4. ~IsEmpty(g)
    BY <1>2, <1>3 DEF IsChild, IsEmpty
  <1>5. ~IsEmpty(e)
    BY <1>1, <1>2 DEF IsChild, IsEmpty
  <1> QED BY <1>3, <1>4, <1>5 DEF NodeIsEmpty

LEMMA Adding ==
  ASSUME TreeInv, NEW e \in Entry, NEW o \in Owners, AddPage(e, o)
  PROVE  /\ table' \in [Entry -> {Empty, Child} \union {Page(n, p) : n \in 1 .. MaxRefs, p \in Owners}]
         /\ prev' = Nothing
         /\ table'[e] = Page(1, o) /\ ~IsPage(e)
         /\ \A f \in Entry : f # e => (IsPage(f))' <=> IsPage(f)
         /\ \A f \in Entry : f # e /\ table'[f] # table[f] => IsEmpty(f) /\ table'[f] = Child
         /\ \A f \in Above[e] \union Under[e] : ~IsPage(f)
         /\ Leaf' /\ Rooted'
  <1>1. /\ table' = [a \in Entry |-> IF a = e THEN Page(1, o) ELSE IF a \in Above[e] THEN Child ELSE table[a]]
        /\ NoPageAbove(e) /\ (IsEmpty(e) \/ (IsChild(e) /\ NodeIsEmpty(e))) /\ prev' = Nothing
    BY DEF AddPage
  <1>2. \A a \in Above[e] : ~IsPage(a) /\ a \in Entry /\ a[1] > e[1] /\ a # e
    BY <1>1, AboveIs DEF NoPageAbove
  <1>3. table \in [Entry -> {Empty, Child} \union {Page(n, p) : n \in 1 .. MaxRefs, p \in Owners}]
    BY DEF TreeInv, PtTypeOK
  <1>4. table' \in [Entry -> {Empty, Child} \union {Page(n, p) : n \in 1 .. MaxRefs, p \in Owners}]
    <2>1. 1 \in 1 .. MaxRefs
      BY TableAssumption
    <2> QED BY <1>1, <1>3, <2>1
  <1>5. \A f \in Under[e] : IsEmpty(f)
    BY <1>1, NothingBelow
  <1>6. ASSUME NEW f \in Entry, f # e
        PROVE  /\ (IsPage(f))' <=> IsPage(f)
               /\ table'[f] # table[f] => IsEmpty(f) /\ table'[f] = Child
               /\ (IsChild(f))' <=> IsChild(f) \/ f \in Above[e]
               /\ ~(IsEmpty(f))' <=> ~IsEmpty(f) \/ f \in Above[e]
    <2>1. CASE f \in Above[e]
      <3>1. table'[f] = Child /\ ~IsPage(f)
        BY <1>1, <1>2, <1>6, <2>1
      <3>2. IsEmpty(f) \/ table[f] = Child
        BY <3>1, EntryHolds DEF TreeInv
      <3> QED BY <2>1, <3>1, <3>2 DEF IsPage, IsChild, IsEmpty, Child
    <2>2. CASE f \notin Above[e]
      <3>1. table'[f] = table[f]
        BY <1>1, <1>6, <2>2
      <3> QED BY <2>2, <3>1 DEF IsPage, IsChild, IsEmpty
    <2> QED BY <2>1, <2>2
  <1>7. table'[e] = Page(1, o) /\ ~IsPage(e) /\ ~(IsChild(e))'
    <2>1. table'[e] = Page(1, o)
      BY <1>1
    <2>2. ~IsPage(e)
      BY <1>1 DEF IsPage, IsEmpty, IsChild
    <2> QED BY <2>1, <2>2 DEF IsChild, Page
  <1>8. \A f \in Above[e] \union Under[e] : ~IsPage(f)
    BY <1>2, <1>5 DEF IsPage, IsEmpty
  <1>9. Leaf'
    <2>1. e[1] \in Nat
      BY EntryIs DEF Level
    <2> QED BY <1>2, <1>6, <1>7, <2>1 DEF Leaf, TreeInv
  <1>10. Rooted'
    <2> SUFFICES ASSUME NEW f \in Entry, ~(IsEmpty(f))', f[1] < Top
                 PROVE  (IsChild(Up(f)))'
      BY DEF Rooted, Up, At, First
    <2>1. Up(f) \in Above[f] /\ Up(f) \in Entry
      BY AboveIs
    <2>2. CASE f = e
      <3>1. Up(f) # e
        BY <2>1, <2>2, AboveIs
      <3> QED BY <1>6, <2>1, <2>2, <3>1
    <2>3. CASE f \in Above[e]
      <3>1. Up(f) \in Above[e] /\ Up(f) # e
        BY <1>2, <2>1, <2>3, AboveIs
      <3> QED BY <1>6, <2>1, <3>1
    <2>4. CASE f # e /\ f \notin Above[e]
      <3>1. ~IsEmpty(f)
        BY <1>6, <2>4
      <3>2. IsChild(Up(f))
        BY <3>1 DEF TreeInv, Rooted
      <3>3. Up(f) # e
        BY <1>5, <2>1, <3>1 DEF Under
      <3> QED BY <1>6, <2>1, <3>2, <3>3
    <2> QED BY <2>2, <2>3, <2>4
  <1> QED BY <1>1, <1>4, <1>6, <1>7, <1>8, <1>9, <1>10

-----------------------------------------------------------------------------
(* Pinning.                                                                *)

TypesOfTree ==
  /\ table \in [Entry -> {Empty, Child} \union {Page(n, o) : n \in 1 .. MaxRefs, o \in Owners}]
  /\ prev \in Entry \union {Nothing}
  /\ pins \in [Entry -> Nat] /\ dropped \in [Entry -> Nat]

Tree == TypesOfTree /\ Leaf /\ Rooted /\ PrevLive /\ OnePin

LEMMA KeepsPrev ==
  ASSUME TreeInv, prev' \in {prev, Nothing}, \A f \in Entry : IsChild(f) => (IsChild(f))'
  PROVE  PrevLive' /\ prev' \in Entry \union {Nothing}
  <1>1. CASE prev' = Nothing
    BY <1>1 DEF PrevLive
  <1>2. CASE prev' # Nothing
    <2>1. prev' = prev /\ prev \in Entry
      BY <1>2 DEF TreeInv, PtTypeOK
    <2>2. prev[1] < Top => IsChild(Up(prev)) /\ Up(prev) \in Entry
      BY <1>2, <2>1, AboveIs DEF TreeInv, PrevLive
    <2>3. prev[1] < Top => (IsChild(Up(prev)))'
      <3> SUFFICES ASSUME prev[1] < Top
                   PROVE  table'[Up(prev)].kind = "child"
        BY <2>1 DEF IsChild, Up, At, First
      <3> QED BY <2>2 DEF IsChild
    <2> QED BY <2>1, <2>3 DEF PrevLive
  <1> QED BY <1>1, <1>2

\* A page that is pinned where no page was comes with its pin, and the pin of an
\* allocation that is counted is one that was dropped.
LEMMA InsertStep ==
  ASSUME TreeInv, NEW e \in Entry, NEW o \in Owners, Insert(e, o),
         o = "alloc" \/ (NoPageAbove(e) /\ ~IsPage(e))
  PROVE  Tree'
  <1>1. /\ pins \in [Entry -> Nat] /\ dropped \in [Entry -> Nat]
        /\ \A f \in Entry : pins[f] = dropped[f] + (IF IsPage(f) THEN 1 ELSE 0)
    BY DEF TreeInv, PtTypeOK, OnePin
  <1>2. pins' = [pins EXCEPT ![e] = @ + 1]
    BY DEF Insert
  <1>3. /\ pins' \in [Entry -> Nat] /\ pins'[e] = pins[e] + 1
        /\ \A f \in Entry : f # e => pins'[f] = pins[f]
    BY <1>1, <1>2
  <1>4. CASE AddPage(e, o) /\ dropped' = dropped
    <2>1. /\ table' \in [Entry -> {Empty, Child} \union {Page(n, p) : n \in 1 .. MaxRefs, p \in Owners}]
          /\ prev' = Nothing
          /\ table'[e] = Page(1, o) /\ ~IsPage(e)
          /\ \A f \in Entry : f # e => (IsPage(f))' <=> IsPage(f)
          /\ Leaf' /\ Rooted'
      BY <1>4, Adding
    <2>2. (IsPage(e))'
      BY <2>1 DEF IsPage, Page
    <2>3. OnePin'
      <3> SUFFICES ASSUME NEW f \in Entry
                   PROVE  pins'[f] = dropped'[f] + (IF (IsPage(f))' THEN 1 ELSE 0)
        BY DEF OnePin
      <3>1. CASE f = e
        <4>1. pins[e] = dropped[e] + 0 /\ dropped[e] \in Nat
          BY <1>1, <2>1
        <4> QED BY <1>3, <1>4, <2>2, <3>1, <4>1
      <3>2. CASE f # e
        BY <1>1, <1>3, <1>4, <2>1, <3>2
      <3> QED BY <3>1, <3>2
    <2>4. PrevLive'
      BY <2>1 DEF PrevLive
    <2> QED BY <1>1, <1>3, <1>4, <2>1, <2>3, <2>4 DEF Tree, TypesOfTree
  <1>5. CASE /\ CountRef(e, o)
             /\ dropped' = IF o = "alloc" THEN [dropped EXCEPT ![e] = @ + 1] ELSE dropped
    <2>1. /\ table' \in [Entry -> {Empty, Child} \union {Page(n, p) : n \in 1 .. MaxRefs, p \in Owners}]
          /\ prev' \in {prev, Nothing}
      BY <1>5, Counting
    <2>2. \A f \in Entry : /\ (IsPage(f))' <=> IsPage(f)
                           /\ (IsChild(f))' <=> IsChild(f)
                           /\ (IsEmpty(f))' <=> IsEmpty(f)
      BY <1>5, Counting
    <2>3. o = "alloc"
      BY <1>5, Counting DEF NoPageAbove
    <2>4. /\ dropped' \in [Entry -> Nat] /\ dropped'[e] = dropped[e] + 1
          /\ \A f \in Entry : f # e => dropped'[f] = dropped[f]
      BY <1>1, <1>5, <2>3
    <2>5. PrevLive' /\ prev' \in Entry \union {Nothing}
      BY <2>1, <2>2, KeepsPrev
    <2>6. Rooted'
      BY <2>2, AboveIs DEF TreeInv, Rooted, Up, At, First
    <2>7. Leaf'
      BY <2>2 DEF TreeInv, Leaf
    <2>8. OnePin'
      <3> SUFFICES ASSUME NEW f \in Entry
                   PROVE  pins'[f] = dropped'[f] + (IF (IsPage(f))' THEN 1 ELSE 0)
        BY DEF OnePin
      <3>1. dropped[f] \in Nat /\ pins[f] = dropped[f] + (IF IsPage(f) THEN 1 ELSE 0)
        BY <1>1
      <3> QED BY <1>3, <2>2, <2>4, <3>1
    <2> QED BY <1>3, <2>1, <2>4, <2>5, <2>6, <2>7, <2>8 DEF Tree, TypesOfTree
  <1> QED BY <1>4, <1>5 DEF Insert, InsertPageMapping

LEMMA SameTable ==
  ASSUME TreeInv, UNCHANGED <<table, pins, dropped>>, prev' \in {prev, Nothing}
  PROVE  Tree'
  <1>1. \A f \in Entry : ((IsChild(f))' <=> IsChild(f)) /\ ((IsPage(f))' <=> IsPage(f))
                        /\ ((IsEmpty(f))' <=> IsEmpty(f))
    BY DEF IsChild, IsPage, IsEmpty
  <1>2. PrevLive' /\ prev' \in Entry \union {Nothing}
    BY <1>1, KeepsPrev
  <1>3. Rooted'
    BY <1>1, AboveIs DEF TreeInv, Rooted, Up, At, First
  <1>4. Leaf' /\ OnePin'
    BY <1>1 DEF TreeInv, Leaf, OnePin
  <1> QED BY <1>2, <1>3, <1>4 DEF Tree, TypesOfTree, TreeInv, PtTypeOK

LEMMA InsertFailsStep ==
  ASSUME TreeInv, NEW e \in Entry, NEW code, InsertFails(e, code)
  PROVE  Tree'
  <1>1. CASE OutOfNodes(e) /\ pins' = pins /\ dropped' = dropped
    <2>1. /\ table' \in [Entry -> {Empty, Child} \union {Page(n, p) : n \in 1 .. MaxRefs, p \in Owners}]
          /\ \A f \in Entry : ((IsPage(f))' <=> IsPage(f)) /\ (IsChild(f) => (IsChild(f))')
          /\ Leaf' /\ Rooted' /\ prev' = prev
      BY <1>1, Nodes DEF OutOfNodes
    <2>2. PrevLive' /\ prev' \in Entry \union {Nothing}
      BY <2>1, KeepsPrev
    <2>3. OnePin'
      BY <1>1, <2>1 DEF TreeInv, OnePin
    <2> QED BY <1>1, <2>1, <2>2, <2>3 DEF Tree, TypesOfTree, TreeInv, PtTypeOK
  <1>2. CASE prev' = Nothing /\ table' = table /\ pins' = pins /\ dropped' = dropped
    BY <1>2, SameTable
  <1> QED BY <1>1, <1>2 DEF InsertFails

LEMMA CountStep ==
  ASSUME TreeInv, NEW e \in Entry, NEW o \in Owners, CountRef(e, o), pins' = pins, dropped' = dropped
  PROVE  Tree'
  <1>1. /\ table' \in [Entry -> {Empty, Child} \union {Page(n, p) : n \in 1 .. MaxRefs, p \in Owners}]
        /\ prev' \in {prev, Nothing}
    BY Counting
  <1>2. \A f \in Entry : /\ (IsPage(f))' <=> IsPage(f)
                         /\ (IsChild(f))' <=> IsChild(f)
                         /\ (IsEmpty(f))' <=> IsEmpty(f)
    BY Counting
  <1>3. PrevLive' /\ prev' \in Entry \union {Nothing}
    BY <1>1, <1>2, KeepsPrev
  <1>4. Rooted'
    BY <1>2, AboveIs DEF TreeInv, Rooted, Up, At, First
  <1>5. Leaf' /\ OnePin'
    BY <1>2 DEF TreeInv, Leaf, OnePin
  <1> QED BY <1>1, <1>3, <1>4, <1>5 DEF Tree, TypesOfTree, TreeInv, PtTypeOK

-----------------------------------------------------------------------------
(* Releasing.                                                              *)

LEMMA OneLess ==
  ASSUME NEW n \in 1 .. MaxRefs, NEW o \in Owners
  PROVE  /\ Less(Page(n, o)) = IF n = 1 THEN Empty ELSE Page(n - 1, o)
         /\ n # 1 => n - 1 \in 1 .. MaxRefs
  BY TableAssumption DEF Less, Page

\* The region of an entry ends no later than that of the entry above.
LEMMA PastUp ==
  ASSUME NEW e \in Entry, e[1] < Top
  PROVE  Past(e) <= Past(Up(e)) /\ Past(e) \in Nat /\ Past(Up(e)) \in Nat
  <1>1. e[1] \in Level /\ First(e) \in Address /\ e = At(e[1], First(e)) /\ Levels \in Nat
    BY EntryIs, TableAssumption
  <1>2. e[1] \in 0 .. Levels /\ e[1] + 1 \in e[1] .. Levels
    BY <1>1 DEF Level, Top
  <1> DEFINE s == Span[e[1]]
             t == Span[e[1] + 1]
             a == First(e)
             n == a \div s
             q == a \div t
  <1>3. PICK m \in Nat \ {0} : t = m * s
    BY <1>2, SpanDivides
  <1>4. s \in Nat \ {0} /\ t \in Nat \ {0} /\ a \in Nat
    BY <1>1, <1>2, SpanDivides DEF Address
  <1>5. Past(e) = n * s + s /\ Past(Up(e)) = q * t + t
    <2>1. Past(e) = a + s /\ e[2] = n /\ a = n * s
      BY <1>1 DEF Past, At, First
    <2>2. Up(e)[1] = e[1] + 1 /\ Up(e)[2] = q
      BY DEF Up, At
    <2> QED BY <2>1, <2>2 DEF Past, First
  <1>6. n \in Nat /\ n * s <= a
    BY <1>4, Quotient
  <1>7. q \in Nat /\ a < (q + 1) * t
    BY <1>4, Quotient
  <1>8. n \in Nat /\ q \in Nat /\ s \in Nat \ {0} /\ t \in Nat \ {0} /\ a \in Nat /\ t = m * s
    BY <1>3, <1>4, <1>6, <1>7
  <1> HIDE DEF s, t, a, n, q
  <1>9. (q + 1) * t = ((q + 1) * m) * s /\ (q + 1) * m \in Nat
    BY <1>3, <1>4, <1>7
  <1>10. n * s < ((q + 1) * m) * s
    <2> DEFINE x == n * s
               y == ((q + 1) * m) * s
    <2>1. x \in Nat /\ y \in Nat /\ x <= a /\ a < y
      BY <1>4, <1>6, <1>7, <1>9
    <2> HIDE DEF x, y
    <2>2. x < y
      BY <1>4, <2>1
    <2> QED BY <2>2 DEF x, y
  <1>11. n + 1 <= (q + 1) * m
    BY <1>4, <1>6, <1>9, <1>10, Times
  <1>12. (n + 1) * s <= ((q + 1) * m) * s
    BY <1>4, <1>6, <1>9, <1>11, Times
  <1>13. (n + 1) * s = n * s + s /\ (q + 1) * t = q * t + t /\ n * s + s \in Nat /\ q * t + t \in Nat
    BY <1>4, <1>6, <1>7, Times
  <1> QED BY <1>5, <1>9, <1>12, <1>13

LEMMA RemoveStep ==
  ASSUME TreeInv, NEW va \in Address, Remove(va)
  PROVE  Tree'
  <1>1. At(StopFrom(Top, va), va) \in Entry
    BY SameStop DEF TreeInv
  <1>2. PICK e \in Entry :
                /\ IsPage(e) /\ table' = [table EXCEPT ![e] = Less(@)]
                /\ IF table[e].refs > 1 THEN UNCHANGED <<prev, pins>>
                   ELSE prev' = Nothing /\ pins' = [pins EXCEPT ![e] = @ - 1]
                /\ dropped' = dropped
    BY <1>1 DEF Remove
  <1>3. e \in Entry
    OBVIOUS
  <1>4. PICK n \in 1 .. MaxRefs, o \in Owners : table[e] = Page(n, o)
    BY <1>2, <1>3, EntryHolds DEF TreeInv
  <1>5. /\ table \in [Entry -> {Empty, Child} \union {Page(i, p) : i \in 1 .. MaxRefs, p \in Owners}]
        /\ pins \in [Entry -> Nat] /\ pins[e] = dropped[e] + 1 /\ n \in Nat /\ table[e].refs = n
        /\ dropped \in [Entry -> Nat] /\ dropped[e] \in Nat
    BY <1>2, <1>3, <1>4 DEF TreeInv, PtTypeOK, OnePin, Page
  <1>6. /\ table' = [table EXCEPT ![e] = IF n = 1 THEN Empty ELSE Page(n - 1, o)]
        /\ n # 1 => n - 1 \in 1 .. MaxRefs
    BY <1>2, <1>4, OneLess
  <1>7. table' \in [Entry -> {Empty, Child} \union {Page(i, p) : i \in 1 .. MaxRefs, p \in Owners}]
    BY <1>5, <1>6
  <1>8. CASE n # 1
    <2>1. table'[e] = Page(n - 1, o) /\ \A f \in Entry : f # e => table'[f] = table[f]
      BY <1>3, <1>5, <1>6, <1>8
    <2>2. \A f \in Entry : /\ (IsPage(f))' <=> IsPage(f)
                           /\ (IsChild(f))' <=> IsChild(f)
                           /\ (IsEmpty(f))' <=> IsEmpty(f)
      BY <1>4, <2>1 DEF IsPage, IsChild, IsEmpty, Page
    <2>3. prev' = prev /\ pins' = pins
      BY <1>2, <1>5, <1>8
    <2>4. PrevLive' /\ prev' \in Entry \union {Nothing}
      BY <2>2, <2>3, KeepsPrev
    <2>5. Rooted'
      BY <2>2, AboveIs DEF TreeInv, Rooted, Up, At, First
    <2>6. Leaf' /\ OnePin'
      BY <1>2, <2>2, <2>3 DEF TreeInv, Leaf, OnePin
    <2> QED BY <1>2, <1>5, <1>7, <2>3, <2>4, <2>5, <2>6 DEF Tree, TypesOfTree
  <1>9. CASE n = 1
    <2>1. table'[e] = Empty /\ \A f \in Entry : f # e => table'[f] = table[f]
      BY <1>3, <1>5, <1>6, <1>9
    <2>2. (IsEmpty(e))' /\ ~(IsPage(e))' /\ ~(IsChild(e))'
      BY <2>1 DEF IsPage, IsChild, IsEmpty, Empty
    <2>3. \A f \in Entry : f # e => /\ (IsPage(f))' <=> IsPage(f)
                                    /\ (IsChild(f))' <=> IsChild(f)
                                    /\ (IsEmpty(f))' <=> IsEmpty(f)
      BY <2>1 DEF IsPage, IsChild, IsEmpty
    <2>4. prev' = Nothing /\ pins' = [pins EXCEPT ![e] = dropped[e]]
      BY <1>2, <1>5, <1>9
    <2>5. PrevLive'
      BY <2>4 DEF PrevLive
    <2>6. Rooted'
      <3> SUFFICES ASSUME NEW f \in Entry, ~(IsEmpty(f))', f[1] < Top
                   PROVE  (IsChild(Up(f)))'
        BY DEF Rooted, Up, At, First
      <3>1. Up(f) \in Entry /\ f # e /\ ~IsEmpty(f)
        BY <2>2, <2>3, AboveIs
      <3>2. IsChild(Up(f)) /\ Up(f) # e
        BY <1>2, <3>1 DEF TreeInv, Rooted, IsChild, IsPage
      <3> QED BY <2>3, <3>1, <3>2
    <2>7. Leaf'
      BY <2>2, <2>3 DEF TreeInv, Leaf
    <2>8. OnePin' /\ pins' \in [Entry -> Nat] /\ dropped' \in [Entry -> Nat]
      <3>1. /\ pins' \in [Entry -> Nat] /\ pins'[e] = dropped[e] + 0
            /\ \A f \in Entry : f # e => pins'[f] = pins[f]
        BY <1>3, <1>5, <2>4
      <3> QED BY <1>2, <1>5, <2>2, <2>3, <3>1 DEF OnePin, TreeInv
    <2> QED BY <1>7, <2>4, <2>5, <2>6, <2>7, <2>8 DEF Tree, TypesOfTree
  <1> QED BY <1>8, <1>9

\* How releasing a range changes an entry.
LEMMA Released ==
  ASSUME TreeInv, NEW lo, NEW hi, ReleaseRange(lo, hi), NEW f \in Entry
  PROVE  /\ table'[f] \in {Empty, Child} \union {Page(i, p) : i \in 1 .. MaxRefs, p \in Owners}
         /\ (IsPage(f))' <=> IsPage(f) /\ ~Dropped(f, lo, hi)
         /\ (IsChild(f))' <=> IsChild(f) /\ ~Freed(f, lo, hi)
         /\ (IsEmpty(f))' <=> IsEmpty(f) \/ Dropped(f, lo, hi) \/ Freed(f, lo, hi)
         /\ pins'[f] = IF Dropped(f, lo, hi) THEN dropped[f] ELSE pins[f]
         /\ IsPage(f) => ((IsPage(f))' /\ Hits(f, lo, hi) => table[f].refs > 1)
  <1>1. table'[f] = IF Freed(f, lo, hi) THEN Empty
                    ELSE IF IsPage(f) /\ Hits(f, lo, hi) THEN Less(table[f]) ELSE table[f]
    BY DEF ReleaseRange
  <1>2. pins'[f] = IF Dropped(f, lo, hi) THEN dropped[f] ELSE pins[f]
    <2>1. pins'[f] = IF Dropped(f, lo, hi) THEN pins[f] - 1 ELSE pins[f]
      BY DEF ReleaseRange
    <2>2. (Dropped(f, lo, hi) => pins[f] = dropped[f] + 1) /\ dropped[f] \in Nat
      BY DEF Dropped, TreeInv, OnePin, PtTypeOK
    <2> QED BY <2>1, <2>2
  <1>3. table[f] \in {Empty, Child} \union {Page(i, p) : i \in 1 .. MaxRefs, p \in Owners}
    BY EntryHolds DEF TreeInv
  <1>4. CASE IsPage(f)
    <2>1. PICK n \in 1 .. MaxRefs, o \in Owners : table[f] = Page(n, o)
      BY <1>4, EntryHolds DEF TreeInv
    <2>2. table[f].refs = n /\ ~IsChild(f) /\ ~IsEmpty(f) /\ n \in Nat
      BY <2>1 DEF Page, IsChild, IsEmpty
    <2>3. CASE Hits(f, lo, hi) /\ n = 1
      <3>1. table'[f] = Empty /\ Dropped(f, lo, hi) /\ ~Freed(f, lo, hi)
        BY <1>1, <1>4, <2>1, <2>2, <2>3, OneLess DEF Dropped, Freed
      <3> QED BY <1>2, <2>2, <3>1 DEF IsPage, IsChild, IsEmpty, Empty
    <2>4. CASE Hits(f, lo, hi) /\ n # 1
      <3>1. ~Dropped(f, lo, hi) /\ ~Freed(f, lo, hi) /\ n > 1 /\ n - 1 \in 1 .. MaxRefs
        BY <2>1, <2>2, <2>4, OneLess DEF Dropped, Freed
      <3>2. table'[f] = Page(n - 1, o)
        BY <1>1, <1>4, <2>1, <2>4, <3>1, OneLess
      <3>3. table'[f].kind = "page"
        BY <3>2 DEF Page
      <3> QED BY <1>2, <1>4, <2>2, <3>1, <3>2, <3>3 DEF IsPage, IsChild, IsEmpty
    <2>5. CASE ~Hits(f, lo, hi)
      <3>1. ~Dropped(f, lo, hi) /\ ~Freed(f, lo, hi) /\ table'[f] = table[f]
        BY <1>1, <2>5 DEF Dropped, Freed
      <3> QED BY <1>2, <1>3, <2>5, <3>1 DEF IsPage, IsChild, IsEmpty
    <2> QED BY <2>3, <2>4, <2>5
  <1>5. CASE ~IsPage(f) /\ Freed(f, lo, hi)
    <2>1. table'[f] = Empty /\ ~Dropped(f, lo, hi) /\ IsChild(f)
      BY <1>1, <1>5 DEF Dropped, Freed
    <2> QED BY <1>2, <1>5, <2>1 DEF IsPage, IsChild, IsEmpty, Empty
  <1>6. CASE ~IsPage(f) /\ ~Freed(f, lo, hi)
    <2>1. table'[f] = table[f] /\ ~Dropped(f, lo, hi)
      BY <1>1, <1>6 DEF Dropped
    <2> QED BY <1>2, <1>3, <1>6, <2>1 DEF IsPage, IsChild, IsEmpty
  <1> QED BY <1>4, <1>5, <1>6

\* What stays in the table has its node, and so has what is remembered.
LEMMA ReleaseRangeStep ==
  ASSUME TreeInv, NEW lo, NEW hi, ReleaseRange(lo, hi)
  PROVE  Tree'
  <1>1. \A f \in Entry : /\ table'[f] \in {Empty, Child} \union {Page(i, p) : i \in 1 .. MaxRefs, p \in Owners}
                         /\ (IsPage(f))' <=> IsPage(f) /\ ~Dropped(f, lo, hi)
                         /\ (IsChild(f))' <=> IsChild(f) /\ ~Freed(f, lo, hi)
                         /\ (IsEmpty(f))' <=> IsEmpty(f) \/ Dropped(f, lo, hi) \/ Freed(f, lo, hi)
                         /\ pins'[f] = IF Dropped(f, lo, hi) THEN dropped[f] ELSE pins[f]
                         /\ IsPage(f) => ((IsPage(f))' /\ Hits(f, lo, hi) => table[f].refs > 1)
    BY Released
  <1>2. table' \in [Entry -> {Empty, Child} \union {Page(i, p) : i \in 1 .. MaxRefs, p \in Owners}]
    <2>1. table' = [e \in Entry |-> table'[e]]
      BY DEF ReleaseRange
    <2> QED BY <1>1, <2>1
  <1>3. pins' \in [Entry -> Nat]
    <2>1. pins' = [e \in Entry |-> pins'[e]]
      BY DEF ReleaseRange
    <2>2. \A f \in Entry : pins[f] \in Nat /\ dropped[f] \in Nat
      BY DEF TreeInv, PtTypeOK
    <2>3. \A f \in Entry : pins'[f] \in Nat
      BY <1>1, <2>2
    <2> QED BY <2>1, <2>3
  <1>4. Leaf' /\ OnePin' /\ dropped' \in [Entry -> Nat]
    <2>1. dropped' = dropped /\ dropped \in [Entry -> Nat]
      BY DEF ReleaseRange, TreeInv, PtTypeOK
    <2>2. \A f \in Entry : dropped[f] \in Nat /\ (Dropped(f, lo, hi) => IsPage(f))
      BY <2>1 DEF Dropped
    <2>3. Leaf'
      BY <1>1 DEF Leaf, TreeInv
    <2>4. OnePin'
      <3> SUFFICES ASSUME NEW f \in Entry
                   PROVE  pins'[f] = dropped'[f] + (IF (IsPage(f))' THEN 1 ELSE 0)
        BY DEF OnePin
      <3>1. CASE Dropped(f, lo, hi)
        <4>1. pins'[f] = dropped[f] /\ ~(IsPage(f))'
          BY <1>1, <3>1
        <4> QED BY <2>1, <2>2, <4>1
      <3>2. CASE ~Dropped(f, lo, hi)
        <4>1. pins'[f] = pins[f] /\ ((IsPage(f))' <=> IsPage(f))
          BY <1>1, <3>2
        <4> QED BY <2>1, <4>1 DEF TreeInv, OnePin
      <3> QED BY <3>1, <3>2
    <2> QED BY <2>1, <2>3, <2>4
  <1>5. Rooted'
    <2> SUFFICES ASSUME NEW f \in Entry, ~(IsEmpty(f))', f[1] < Top
                 PROVE  (IsChild(Up(f)))'
      BY DEF Rooted, Up, At, First
    <2>1. Up(f) \in Above[f] /\ Up(f) \in Entry /\ ~IsEmpty(f)
      BY <1>1, AboveIs
    <2>2. IsChild(Up(f)) /\ f \in Under[Up(f)]
      BY <2>1 DEF TreeInv, Rooted, Under
    <2>3. Active(Up(f), lo, hi)
      <3>1. CASE ~Hits(f, lo, hi)
        BY <2>1, <2>2, <3>1 DEF Active
      <3>2. CASE IsPage(f) /\ Hits(f, lo, hi)
        <4>1. ~Dropped(f, lo, hi)
          BY <1>1
        <4>2. table[f].refs > 1
          BY <1>1, <3>2, <4>1
        <4> QED BY <2>1, <2>2, <3>2, <4>2 DEF Active
      <3>3. CASE ~IsPage(f) /\ Hits(f, lo, hi)
        <4>1. IsChild(f) /\ ~Freed(f, lo, hi)
          BY <1>1, <2>1, <3>3, EntryHolds DEF TreeInv
        <4>2. Active(f, lo, hi)
          BY <3>3, <4>1 DEF Freed
        <4>3. PICK g \in Under[f] : ~IsEmpty(g) /\ (~Hits(g, lo, hi) \/ (IsPage(g) /\ table[g].refs > 1))
          BY <4>2 DEF Active
        <4>4. g \in Entry /\ f \in Above[g]
          BY <4>3 DEF Under
        <4>5. g \in Under[Up(f)]
          BY <2>1, <4>4, AboveIs DEF Under
        <4> QED BY <4>3, <4>5 DEF Active
      <3> QED BY <3>1, <3>2, <3>3
    <2>4. ~Freed(Up(f), lo, hi)
      BY <2>3 DEF Freed
    <2> QED BY <1>1, <2>1, <2>2, <2>4
  <1>6. PrevLive' /\ prev' \in Entry \union {Nothing}
    <2>1. CASE (\A e \in Entry : ~SetsPrev(e, lo, hi)) /\ UNCHANGED prev
      <3>1. \A f \in Entry : IsChild(f) => (IsChild(f))'
        BY <1>1, <2>1 DEF SetsPrev
      <3> QED BY <2>1, <3>1, KeepsPrev
    <2>2. ASSUME NEW last \in Entry, SetsPrev(last, lo, hi),
                 \A e \in Entry : Later(e, last) => ~SetsPrev(e, lo, hi),
                 prev' = IF IsPage(last) THEN last ELSE Nothing
          PROVE  PrevLive' /\ prev' \in Entry \union {Nothing}
      <3>1. CASE ~IsPage(last)
        BY <2>2, <3>1 DEF PrevLive
      <3>2. CASE IsPage(last)
        <4>1. prev' = last /\ ~IsEmpty(last)
          BY <2>2, <3>2 DEF IsPage, IsEmpty
        <4>2. ASSUME last[1] < Top
              PROVE  (IsChild(Up(last)))'
          <5>1. Up(last) \in Entry /\ Up(last)[1] = last[1] + 1 /\ IsChild(Up(last))
            BY <4>1, <4>2, AboveIs DEF TreeInv, Rooted
          <5>2. /\ Past(last) <= Past(Up(last)) /\ Past(last) \in Nat /\ Past(Up(last)) \in Nat
                /\ last[1] \in Nat
            BY <4>2, PastUp, EntryIs DEF Level
          <5>3. Later(Up(last), last)
            BY <5>1, <5>2 DEF Later
          <5>4. ~Freed(Up(last), lo, hi)
            BY <2>2, <5>1, <5>3 DEF SetsPrev
          <5> QED BY <1>1, <5>1, <5>4
        <4>3. last[1] < Top => table'[Up(last)].kind = "child"
          BY <4>2 DEF IsChild, Up, At, First
        <4> QED BY <4>1, <4>3 DEF PrevLive, IsChild, Up, At, First
      <3> QED BY <3>1, <3>2
    <2> QED BY <2>1, <2>2 DEF ReleaseRange
  <1> QED BY <1>2, <1>3, <1>4, <1>5, <1>6 DEF Tree, TypesOfTree

LEMMA TermStep ==
  ASSUME TreeInv, Term
  PROVE  Tree'
  <1>1. /\ table' = [e \in Entry |-> Empty] /\ prev' = Nothing
        /\ pins' = [e \in Entry |-> IF IsPage(e) /\ Reached(e) THEN pins[e] - 1 ELSE pins[e]]
        /\ dropped' = dropped /\ dropped \in [Entry -> Nat]
    BY DEF Term, TreeInv, PtTypeOK
  <1>2. \A f \in Entry : ~(IsPage(f))' /\ ~(IsChild(f))' /\ (IsEmpty(f))'
    BY <1>1 DEF IsPage, IsChild, IsEmpty, Empty
  <1>3. \A f \in Entry : pins'[f] = dropped[f] + 0 /\ dropped[f] \in Nat
    <2>1. \A f \in Entry : IsPage(f) => Reached(f)
      BY AllReached DEF TreeInv, IsPage, IsEmpty
    <2>2. \A f \in Entry : pins[f] = dropped[f] + (IF IsPage(f) THEN 1 ELSE 0)
      BY DEF TreeInv, OnePin
    <2>3. \A f \in Entry : dropped[f] \in Nat
      BY <1>1
    <2> SUFFICES ASSUME NEW f \in Entry
                 PROVE  pins'[f] = dropped[f] + 0
      BY <2>3
    <2>4. pins'[f] = IF IsPage(f) THEN pins[f] - 1 ELSE pins[f]
      BY <1>1, <2>1
    <2> QED BY <2>2, <2>3, <2>4
  <1>4. table' \in [Entry -> {Empty, Child} \union {Page(i, p) : i \in 1 .. MaxRefs, p \in Owners}]
    BY <1>1
  <1>5. pins' \in [Entry -> Nat]
    <2>1. pins' = [e \in Entry |-> pins'[e]]
      BY <1>1
    <2> QED BY <1>3, <2>1
  <1>6. OnePin' /\ Leaf' /\ Rooted'
    BY <1>1, <1>2, <1>3 DEF OnePin, Leaf, Rooted
  <1>7. PrevLive'
    BY <1>1 DEF PrevLive
  <1> QED BY <1>1, <1>4, <1>5, <1>6, <1>7 DEF Tree, TypesOfTree

-----------------------------------------------------------------------------
(* The tree and the cache of its last search hang together.                *)

LEMMA InitInv == PtInit => TreeInv
  <1> SUFFICES ASSUME PtInit
               PROVE  TreeInv
    OBVIOUS
  <1>1. /\ table = [e \in Entry |-> Empty] /\ prev = Nothing /\ pins = [e \in Entry |-> 0]
        /\ dropped = [e \in Entry |-> 0]
        /\ retry = Nothing /\ err = "ok"
    BY DEF PtInit
  <1>2. \A f \in Entry : IsEmpty(f) /\ ~IsPage(f) /\ ~IsChild(f) /\ pins[f] = 0 /\ dropped[f] = 0
    BY <1>1 DEF IsPage, IsChild, IsEmpty, Empty
  <1>3. PtTypeOK
    BY <1>1 DEF PtTypeOK
  <1> QED BY <1>1, <1>2, <1>3 DEF TreeInv, Leaf, Rooted, PrevLive, OnePin

\* No page is above an entry that may be pinned, unless for an allocation.
LEMMA MayPinIs ==
  ASSUME TreeInv, NEW va \in Address, NEW o \in Owners, NEW l \in Level, MayPin(va, o)
  PROVE  o = "alloc" \/ (NoPageAbove(At(l, va)) /\ ~IsPage(At(l, va)))
  BY NotFound DEF MayPin, TreeInv

LEMMA StepInv == TreeInv /\ [PtNext]_ptVars => TreeInv'
  <1> SUFFICES ASSUME TreeInv, [PtNext]_ptVars
               PROVE  TreeInv'
    OBVIOUS
  <1>1. /\ retry \in (Va \X Owners) \union {Nothing} /\ err \in {"ok", "no_memory", "exception"}
        /\ prev \in Entry \union {Nothing}
    BY DEF TreeInv, PtTypeOK
  <1>2. Va \subseteq Address /\ 0 \in Level /\ (Top > 0 => 1 \in Level) /\ OsLevels \subseteq Level
    BY TableAssumption DEF Address, Level, Top
  <1>3. ASSUME Tree', retry' \in (Va \X Owners) \union {Nothing}, err' \in {"ok", "no_memory", "exception"}
        PROVE  TreeInv'
    BY <1>3 DEF Tree, TypesOfTree, TreeInv, PtTypeOK
  <1>4. ASSUME NEW va \in Va, Lookup(va)
        PROVE  TreeInv'
    <2>1. /\ prev' = IF HasPage(va) THEN Stop(va) ELSE prev
          /\ table' = table /\ pins' = pins /\ dropped' = dropped /\ retry' = retry /\ err' = err
      BY <1>4 DEF Lookup
    <2>2. CASE ~HasPage(va)
      <3>1. Tree'
        BY <2>1, <2>2, SameTable
      <3> QED BY <1>1, <2>1, <3>1, <1>3
    <2>3. CASE HasPage(va)
      <3>1. PICK f \in Entry : f = Stop(va) /\ IsPage(f) /\ prev' = f
        BY <1>2, <2>1, <2>3, SameStop DEF TreeInv, HasPage
      <3>2. \A g \in Entry : ((IsChild(g))' <=> IsChild(g)) /\ ((IsPage(g))' <=> IsPage(g))
                             /\ ((IsEmpty(g))' <=> IsEmpty(g))
        BY <2>1 DEF IsChild, IsPage, IsEmpty
      <3>3. f[1] < Top => Up(f) \in Entry /\ IsChild(Up(f))
        BY <3>1, AboveIs DEF TreeInv, Rooted, IsPage, IsEmpty
      <3>4. f[1] < Top => table'[Up(f)].kind = "child"
        BY <2>1, <3>3 DEF IsChild
      <3>5. PrevLive'
        BY <3>1, <3>4 DEF PrevLive, IsChild, Up, At, First
      <3>6. Rooted'
        BY <3>2, AboveIs DEF TreeInv, Rooted, Up, At, First
      <3>7. Leaf' /\ OnePin'
        BY <2>1, <3>2 DEF TreeInv, Leaf, OnePin
      <3>8. Tree'
        BY <2>1, <3>1, <3>5, <3>6, <3>7 DEF Tree, TypesOfTree, TreeInv, PtTypeOK
      <3> QED BY <1>1, <2>1, <3>8, <1>3
    <2> QED BY <2>2, <2>3
  <1>5. ASSUME NEW va \in Va, PinFound(va)
        PROVE  TreeInv'
    <2>1. Stop(va) \in Entry
      BY <1>2, SameStop DEF TreeInv
    <2>2. Tree'
      BY <1>5, <2>1, CountStep DEF PinFound
    <2> QED BY <1>1, <1>5, <2>2, <1>3 DEF PinFound
  <1>6. ASSUME NEW va \in Va, Remove(va)
        PROVE  TreeInv'
    <2>1. Tree'
      BY <1>2, <1>6, RemoveStep
    <2> QED BY <1>1, <1>6, <2>1, <1>3 DEF Remove
  <1>7. ASSUME NEW va \in Va, NEW o \in Owners, PinLarge(va, o)
        PROVE  TreeInv'
    <2>1. 1 \in Level /\ At(1, va) \in Entry
      BY <1>2, <1>7, AtIs DEF PinLarge, Aligned
    <2>2. o = "alloc" \/ (NoPageAbove(At(1, va)) /\ ~IsPage(At(1, va)))
      BY <1>2, <1>7, <2>1, MayPinIs DEF PinLarge
    <2>3. CASE Insert(At(1, va), o) /\ err' = "ok" /\ UNCHANGED retry
      <3>1. Tree'
        BY <2>1, <2>2, <2>3, InsertStep
      <3> QED BY <1>1, <2>3, <3>1, <1>3
    <2>4. ASSUME NEW code \in {"no_memory", "exception"}, InsertFails(At(1, va), code),
                 retry' = <<va, o>>, UNCHANGED err
          PROVE  TreeInv'
      <3>1. Tree'
        BY <2>1, <2>4, InsertFailsStep
      <3> QED BY <1>1, <2>4, <3>1, <1>3
    <2> QED BY <1>7, <2>3, <2>4 DEF PinLarge
  <1>8. ASSUME NEW va \in Va, NEW o \in Owners, PinSmall(va, o)
        PROVE  TreeInv'
    <2>1. At(0, va) \in Entry
      BY <1>2, AtIs
    <2>2. o = "alloc" \/ (NoPageAbove(At(0, va)) /\ ~IsPage(At(0, va)))
      BY <1>2, <1>8, MayPinIs DEF PinSmall
    <2>3. Tree'
      BY <1>8, <2>1, <2>2, InsertStep, InsertFailsStep DEF PinSmall
    <2> QED BY <1>8, <2>3, <1>3 DEF PinSmall
  <1>9. ASSUME NEW va \in Va, NEW os \in OsLevels, "demand" \in Owners, PinDemand(va, os)
        PROVE  TreeInv'
    <2>1. PICK l \in Level : l = DemandSize(va, os)
      BY <1>2 DEF DemandSize
    <2>2. At(l, va) \in Entry
      BY <1>2, AtIs
    <2>3. NoPageAbove(At(l, va)) /\ ~IsPage(At(l, va))
      BY <1>2, <1>9, NotFound DEF PinDemand, TreeInv
    <2>4. CASE Insert(At(l, va), "demand") /\ err' = "ok"
      <3>1. Tree'
        BY <1>9, <2>2, <2>3, <2>4, InsertStep
      <3> QED BY <1>1, <1>9, <2>4, <3>1, <1>3 DEF PinDemand
    <2>5. ASSUME NEW code \in {"no_memory", "exception"}, InsertFails(At(l, va), code), err' = code
          PROVE  TreeInv'
      <3>1. Tree'
        BY <2>2, <2>5, InsertFailsStep
      <3> QED BY <1>1, <1>9, <2>5, <3>1, <1>3 DEF PinDemand
    <2> QED BY <1>9, <2>1, <2>4, <2>5 DEF PinDemand
  <1>10. ASSUME NEW lo, NEW hi, ReleaseRange(lo, hi)
        PROVE  TreeInv'
    <2>1. Tree'
      BY <1>10, ReleaseRangeStep
    <2> QED BY <1>1, <1>10, <2>1, <1>3 DEF ReleaseRange
  <1>11. CASE Term
    <2>1. Tree'
      BY <1>11, TermStep
    <2> QED BY <1>1, <1>11, <2>1, <1>3 DEF Term
  <1>12. CASE UNCHANGED ptVars
    <2>1. Tree'
      BY <1>12, SameTable DEF ptVars
    <2> QED BY <1>1, <1>12, <2>1, <1>3 DEF ptVars
  <1> QED BY <1>4, <1>5, <1>6, <1>7, <1>8, <1>9, <1>10, <1>11, <1>12 DEF PtNext

\* The invariant on which the rest of the module relies holds in every state of
\* the calls in shim_vtp_pt.c.
THEOREM Invariance == PtSpec => []TreeInv
  <1> QED BY InitInv, StepInv, PTL DEF PtSpec

\* An entry in use lives in a node to which the entry above points, and a search
\* that starts at the node remembered from the last one ends where a search from
\* the root ends (findTerminalNodeAndIndex), however nodes were made, replaced
\* and freed in between.
THEOREM Hanging == PtSpec => []WellFormed
  <1>1. TreeInv => WellFormed
    <2> SUFFICES ASSUME TreeInv
                 PROVE  WellFormed
      OBVIOUS
    <2>1. Va \subseteq Address
      BY TableAssumption DEF Address
    <2>2. PrevTransparent
      BY <2>1, SameStop DEF TreeInv, PrevTransparent
    <2> QED BY <2>2 DEF TreeInv, WellFormed
  <1> QED BY <1>1, Invariance, PTL

\* The table keeps one pin of each of its pages: none is lost with a node that is
\* freed, and in a page that was counted instead (addVAtoTable) only those of
\* allocations that were made where the table had a page.
THEOREM Pinned == PtSpec => []PinsKept
  <1>1. TreeInv => PinsKept
    <2> SUFFICES ASSUME TreeInv, NEW e \in Entry
                 PROVE  pins[e] = dropped[e] + (IF IsPage(e) /\ Reached(e) THEN 1 ELSE 0)
      BY DEF PinsKept
    <2>1. IsPage(e) => Reached(e)
      BY AllReached DEF TreeInv, IsPage, IsEmpty
    <2>2. pins[e] = dropped[e] + (IF IsPage(e) THEN 1 ELSE 0)
      BY DEF TreeInv, OnePin
    <2> QED BY <2>1, <2>2
  <1> QED BY <1>1, Invariance, PTL

LEMMA NotRefused ==
  ASSUME TreeInv, NEW va \in Va, NEW os \in OsLevels \intersect {0, 1}, err' = "exception", PinDemand(va, os)
  PROVE  FALSE
  <1>1. va \in Address /\ os \in Level /\ 0 \in Level /\ Top \in Level /\ Levels \in Nat
    BY TableAssumption DEF Address, Level, Top
  <1>2. PICK l \in {0, os} : l = DemandSize(va, os)
    BY DEF DemandSize
  <1>3. Refused(At(l, va)) /\ l \in Level
    BY <1>1, <1>2 DEF PinDemand, InsertFails
  <1>4. IsChild(At(l, va)) /\ At(l, va) \in Entry /\ At(l, va)[1] = l
    BY <1>1, <1>3, AtIs DEF Refused
  <1>5. l = 1
    BY <1>2, <1>4 DEF TreeInv, Leaf
  <1>6. Stop(va)[1] # 0
    BY <1>2, <1>5 DEF DemandSize
  <1>7. PICK s \in 0 .. Top : s = StopFrom(Top, va) /\ ~IsChild(At(s, va)) /\ s # 0
    BY <1>1, <1>6, SameStop, StopIs DEF TreeInv
  <1>8. s # 1
    BY <1>4, <1>5, <1>7
  <1>9. s \in l + 1 .. Top
    BY <1>1, <1>5, <1>7, <1>8 DEF Level, Top
  <1>10. \A a \in Above[At(l, va)] : IsChild(a)
    BY <1>4, AllReached DEF TreeInv, Reached, IsChild, IsEmpty
  <1>11. At(s, va) \in Above[At(l, va)]
    BY <1>1, <1>3, <1>9, OneWay
  <1> QED BY <1>7, <1>10, <1>11

\* The FPGA's request to translate an address that the kernel maps with a 4KB or
\* a 2MB page is not refused by the table (shim_vtp.c:1050-1053).
THEOREM Served == PtSpec => DemandServed
  <1>1. TreeInv /\ [PtNext]_ptVars =>
           [err' = "exception" => \A va \in Va, os \in OsLevels \intersect {0, 1} : ~PinDemand(va, os)]_ptVars
    BY NotRefused
  <1> QED BY <1>1, Invariance, PTL DEF PtSpec, DemandServed

-----------------------------------------------------------------------------
(* The table is a map of pinned regions.                                   *)

AMap == [e \in Entry |-> [refs |-> table[e].refs, owner |-> table[e].owner]]

\* What the map says of an entry.
LEMMA MapHolds ==
  ASSUME PtTypeOK, NEW e \in Entry
  PROVE  /\ AMap[e] = [refs |-> table[e].refs, owner |-> table[e].owner]
         /\ AMap[e] # Map!None <=> IsPage(e)
         /\ ~IsPage(e) => AMap[e] = Map!None
  <1>1. AMap[e] = [refs |-> table[e].refs, owner |-> table[e].owner]
    BY DEF AMap
  <1>2. CASE ~IsPage(e)
    <2>1. table[e] = Empty \/ table[e] = Child
      BY <1>2, EntryHolds
    <2> QED BY <1>1, <1>2, <2>1 DEF Empty, Child, Map!None
  <1>3. CASE IsPage(e)
    <2>1. table[e].refs # 0
      BY <1>3, EntryHolds
    <2>2. AMap[e].refs # 0 /\ Map!None.refs = 0
      BY <1>1, <2>1 DEF Map!None
    <2> QED BY <1>1, <1>3, <2>2
  <1> QED BY <1>2, <1>3, <1>1

\* Nodes are not in the map.
LEMMA MapSame ==
  ASSUME PtTypeOK, \A f \in Entry : table'[f] # table[f] => IsEmpty(f) /\ table'[f] = Child
  PROVE  AMap' = AMap
  <1>1. ASSUME NEW f \in Entry
        PROVE  table'[f].refs = table[f].refs /\ table'[f].owner = table[f].owner
    <2>1. CASE table'[f] = table[f]
      BY <2>1
    <2>2. CASE table'[f] # table[f]
      <3>1. table[f] = Empty /\ table'[f] = Child
        BY <2>2, EntryHolds
      <3> QED BY <3>1 DEF Empty, Child
    <2> QED BY <2>1, <2>2
  <1> QED BY <1>1 DEF AMap

LEMMA MapNext ==
  ASSUME NEW r \in Entry, AMap'[r] # AMap[r],
         Map!Release(r) \/ \E o \in {"alloc", "user", "demand"} : Map!Pin(r, o) \/ Map!Share(r, o)
  PROVE  Map!Next
  BY Zenon DEF Map!Next, AMap

LEMMA TwoFields ==
  ASSUME NEW r \in Entry, NEW n, NEW o, NEW x, NEW y, AMap[r] = [refs |-> n, owner |-> o],
         AMap' = [AMap EXCEPT ![r] = [refs |-> x, owner |-> y]]
  PROVE  AMap' = [AMap EXCEPT ![r].refs = x, ![r].owner = y]
  <1>1. AMap = [s \in Entry |-> AMap[s]]
    BY DEF AMap
  <1> QED BY <1>1

\* A page is counted: shared.
LEMMA MapShares ==
  ASSUME TreeInv, NEW e \in Entry, NEW o \in Owners, CountRef(e, o)
  PROVE  Map!Next
  <1>1. PICK a \in Above[e] \union {e} :
                /\ IsPage(a) /\ table[a].refs < MaxRefs
                /\ table' = [table EXCEPT ![a] = Shared(@, o)]
    BY DEF CountRef
  <1>2. /\ a \in Entry
        /\ table \in [Entry -> {Empty, Child} \union {Page(n, p) : n \in 1 .. MaxRefs, p \in Owners}]
    BY AboveIs DEF TreeInv, PtTypeOK
  <1>3. PICK n \in 1 .. MaxRefs, p \in Owners : table[a] = Page(n, p)
    BY <1>1, <1>2, EntryHolds DEF TreeInv
  <1> DEFINE q == IF o = "user" THEN "user" ELSE p
  <1>4. table'[a].refs = n + 1 /\ table'[a].owner = q
    <2>1. table'[a] = Shared(table[a], o)
      BY <1>1, <1>2
    <2>2. Shared(table[a], o) = [Page(n, p) EXCEPT !.refs = n + 1, !.owner = q]
      BY <1>3 DEF Shared, Page
    <2> HIDE DEF q
    <2>3. [Page(n, p) EXCEPT !.refs = n + 1, !.owner = q].refs = n + 1
      BY DEF Page
    <2>4. [Page(n, p) EXCEPT !.refs = n + 1, !.owner = q].owner = q
      BY DEF Page
    <2> QED BY <2>1, <2>2, <2>3, <2>4
  <1>5. AMap[a] = [refs |-> n, owner |-> p] /\ Map!Pinned(a) /\ AMap[a].refs = n
    <2>1. AMap[a] = [refs |-> table[a].refs, owner |-> table[a].owner] /\ AMap[a] # Map!None
      BY <1>1, <1>2, MapHolds DEF TreeInv
    <2>2. table[a].refs = n /\ table[a].owner = p
      BY <1>3 DEF Page
    <2> QED BY <2>1, <2>2 DEF Map!Pinned, AMap
  <1> HIDE DEF q
  <1>6. AMap'[a] = [refs |-> n + 1, owner |-> q] /\ \A f \in Entry : f # a => AMap'[f] = AMap[f]
    <2>1. AMap'[a] = [refs |-> table'[a].refs, owner |-> table'[a].owner]
      BY <1>2 DEF AMap
    <2>2. \A f \in Entry : f # a => table'[f] = table[f]
      BY <1>1, <1>2
    <2> QED BY <1>4, <2>1, <2>2 DEF AMap
  <1>7. AMap' = [AMap EXCEPT ![a] = [refs |-> n + 1, owner |-> q]]
    BY <1>6 DEF AMap
  <1>8. AMap[a].owner = p /\ q = IF o = "user" THEN "user" ELSE AMap[a].owner
    BY <1>5 DEF q
  <1>9. AMap'[a] # AMap[a]
    <2>1. AMap'[a].refs = n + 1 /\ n \in Nat
      BY <1>6
    <2> QED BY <1>5, <2>1
  <1>10. AMap' = [AMap EXCEPT ![a].refs = @ + 1, ![a].owner = IF o = "user" THEN "user" ELSE @]
    <2> DEFINE x == AMap[a].refs + 1
               y == IF o = "user" THEN "user" ELSE AMap[a].owner
    <2>1. AMap' = [AMap EXCEPT ![a] = [refs |-> x, owner |-> y]]
      BY <1>5, <1>7, <1>8
    <2> HIDE DEF x, y
    <2>2. AMap' = [AMap EXCEPT ![a].refs = x, ![a].owner = y]
      BY <1>2, <1>5, <2>1, TwoFields
    <2> QED BY <2>2 DEF x, y
  <1>11. Map!Share(a, o)
    BY <1>5, <1>10, Zenon DEF Map!Share, AMap
  <1>12. o \in {"alloc", "user", "demand"}
    BY TableAssumption
  <1> QED BY <1>2, <1>9, <1>11, <1>12, MapNext

\* A page that is pinned where none was: pinned in the map.
LEMMA MapPins ==
  ASSUME TreeInv, NEW e \in Entry, NEW o \in Owners, AddPage(e, o)
  PROVE  Map!Next
  <1>1. /\ table'[e] = Page(1, o) /\ ~IsPage(e)
        /\ \A f \in Entry : f # e /\ table'[f] # table[f] => IsEmpty(f) /\ table'[f] = Child
        /\ \A f \in Above[e] \union Under[e] : ~IsPage(f)
    BY Adding
  <1>2. AMap[e] = Map!None /\ ~Map!Pinned(e)
    BY <1>1, MapHolds DEF TreeInv, Map!Pinned, AMap
  <1>3. AMap'[e] = [refs |-> 1, owner |-> o]
    BY <1>1 DEF AMap, Page
  <1>4. \A f \in Entry : f # e => AMap'[f] = AMap[f]
    <2> SUFFICES ASSUME NEW f \in Entry, f # e
                 PROVE  AMap'[f] = AMap[f]
      OBVIOUS
    <2>1. table'[f].refs = table[f].refs /\ table'[f].owner = table[f].owner
      <3>1. CASE table'[f] = table[f]
        BY <3>1
      <3>2. CASE table'[f] # table[f]
        <4>1. table[f] = Empty /\ table'[f] = Child
          BY <1>1, <3>2, EntryHolds DEF TreeInv
        <4> QED BY <4>1 DEF Empty, Child
      <3> QED BY <3>1, <3>2
    <2> QED BY <2>1 DEF AMap
  <1>5. AMap' = [AMap EXCEPT ![e] = [refs |-> 1, owner |-> o]]
    BY <1>3, <1>4 DEF AMap
  <1>6. AMap'[e] # AMap[e]
    <2>1. Map!None.refs = 0
      BY DEF Map!None
    <2>2. AMap'[e].refs = 1
      BY <1>3
    <2> QED BY <1>2, <2>1, <2>2
  <1>7. ASSUME NEW f \in Entry, Map!Pinned(f)
        PROVE  <<e, f>> \notin Overlapping
    <2>1. AMap[f] # Map!None
      BY <1>7 DEF Map!Pinned, AMap
    <2>2. IsPage(f)
      BY <2>1, MapHolds DEF TreeInv
    <2> QED BY <1>1, <2>2 DEF Overlapping
  <1>8. Map!Pin(e, o)
    BY <1>2, <1>5, <1>7, Zenon DEF Map!Pin, AMap
  <1>9. o \in {"alloc", "user", "demand"}
    BY TableAssumption
  <1> QED BY <1>6, <1>8, <1>9, MapNext

\* One reference less.
LEMMA MapLess ==
  ASSUME PtTypeOK, NEW f \in Entry, IsPage(f), table'[f] = Less(table[f])
  PROVE  AMap'[f] = Map!Less(AMap[f]) /\ AMap'[f] # AMap[f]
  <1>1. PICK n \in 1 .. MaxRefs, o \in Owners : table[f] = Page(n, o)
    BY EntryHolds
  <1>2. AMap[f] = [refs |-> n, owner |-> o] /\ n \in Nat /\ n # 0
    BY <1>1 DEF AMap, Page
  <1>3. CASE n = 1
    <2>1. table'[f] = Empty
      BY <1>1, <1>3, OneLess
    <2>2. AMap'[f] = [refs |-> 0, owner |-> "none"]
      BY <2>1 DEF AMap, Empty
    <2>3. AMap'[f].refs = 0 /\ AMap[f].refs = 1
      BY <1>2, <1>3, <2>2
    <2> QED BY <1>2, <1>3, <2>2, <2>3 DEF Map!Less, Map!None
  <1>4. CASE n # 1
    <2>1. table'[f] = Page(n - 1, o)
      BY <1>1, <1>4, OneLess
    <2>2. AMap'[f] = [refs |-> n - 1, owner |-> o]
      BY <2>1 DEF AMap, Page
    <2>3. AMap'[f].refs = n - 1 /\ AMap[f].refs = n
      BY <1>2, <2>2
    <2> QED BY <1>2, <1>4, <2>2, <2>3 DEF Map!Less
  <1> QED BY <1>3, <1>4

LEMMA MapReleases ==
  ASSUME TreeInv, NEW va \in Address, Remove(va)
  PROVE  Map!Next
  <1>1. At(StopFrom(Top, va), va) \in Entry
    BY SameStop DEF TreeInv
  <1>2. PICK e \in Entry : IsPage(e) /\ table' = [table EXCEPT ![e] = Less(@)]
    BY <1>1 DEF Remove
  <1>3. table'[e] = Less(table[e]) /\ \A f \in Entry : f # e => table'[f] = table[f]
    BY <1>2 DEF TreeInv, PtTypeOK
  <1>4. AMap'[e] = Map!Less(AMap[e]) /\ AMap'[e] # AMap[e]
    BY <1>2, <1>3, MapLess DEF TreeInv
  <1>5. \A f \in Entry : f # e => AMap'[f] = AMap[f]
    BY <1>3 DEF AMap
  <1>6. AMap' = [AMap EXCEPT ![e] = Map!Less(@)]
    BY <1>4, <1>5 DEF AMap
  <1>7. Map!Pinned(e)
    <2>1. AMap[e] # Map!None
      BY <1>2, MapHolds DEF TreeInv
    <2> QED BY <2>1 DEF Map!Pinned, AMap
  <1>8. Map!Release(e)
    BY <1>6, <1>7, Zenon DEF Map!Release, AMap
  <1> QED BY <1>4, <1>8, MapNext

LEMMA MapReleasesRange ==
  ASSUME TreeInv, NEW lo \in Va, NEW hi \in RangeEnds, ReleaseRange(lo, hi)
  PROVE  Map!Next
  <1> DEFINE R == {e \in Entry : Hits(e, lo, hi)}
  <1>1. ASSUME NEW f \in Entry
        PROVE  AMap'[f] = IF f \in R THEN Map!Less(AMap[f]) ELSE AMap[f]
    <2>1. table'[f] = IF Freed(f, lo, hi) THEN Empty
                      ELSE IF IsPage(f) /\ Hits(f, lo, hi) THEN Less(table[f]) ELSE table[f]
      BY DEF ReleaseRange
    <2>2. CASE IsPage(f) /\ Hits(f, lo, hi)
      <3>1. ~Freed(f, lo, hi)
        BY <2>2 DEF Freed, IsPage, IsChild
      <3>2. table'[f] = Less(table[f]) /\ f \in R
        BY <2>1, <2>2, <3>1
      <3> QED BY <2>2, <3>2, MapLess DEF TreeInv
    <2>3. CASE ~IsPage(f)
      <3>1. table'[f] = Empty \/ table'[f] = table[f]
        BY <2>1, <2>3
      <3>2. AMap[f] = Map!None /\ Map!None = [refs |-> 0, owner |-> "none"]
        BY <2>3, MapHolds DEF TreeInv, Map!None
      <3>3. AMap'[f] = Map!None
        <4>1. CASE table'[f] = Empty
          BY <3>2, <4>1 DEF AMap, Empty
        <4>2. CASE table'[f] = table[f]
          BY <3>2, <4>2 DEF AMap
        <4> QED BY <3>1, <4>1, <4>2
      <3>4. Map!Less(Map!None) = Map!None
        BY DEF Map!Less, Map!None
      <3> QED BY <3>2, <3>3, <3>4
    <2>4. CASE IsPage(f) /\ ~Hits(f, lo, hi)
      <3>1. table'[f] = table[f]
        BY <2>1, <2>4 DEF Freed
      <3> QED BY <2>4, <3>1 DEF AMap
    <2> QED BY <2>2, <2>3, <2>4
  <1>2. R \in Ranges
    BY DEF Ranges
  <1> HIDE DEF R
  <1>3. AMap' = [f \in Entry |-> IF f \in R THEN Map!Less(AMap[f]) ELSE AMap[f]]
    BY <1>1 DEF AMap
  <1>4. Map!ReleaseRange(R)
    BY <1>3, Zenon DEF Map!ReleaseRange, AMap
  <1> QED BY <1>2, <1>4 DEF Map!Next

LEMMA MapInserts ==
  ASSUME TreeInv, NEW e \in Entry, NEW o \in Owners, InsertPageMapping(e, o)
  PROVE  Map!Next
  BY MapShares, MapPins DEF InsertPageMapping

LEMMA MapFails ==
  ASSUME TreeInv, NEW e \in Entry, NEW code, InsertFails(e, code)
  PROVE  AMap' = AMap
  <1>1. CASE OutOfNodes(e)
    BY <1>1, Nodes, MapSame DEF TreeInv
  <1>2. CASE table' = table
    BY <1>2 DEF AMap
  <1> QED BY <1>1, <1>2 DEF InsertFails

LEMMA MapInit == PtInit => Map!Init
  <1> SUFFICES ASSUME PtInit
               PROVE  Map!Init
    OBVIOUS
  <1>1. \A e \in Entry : table[e] = Empty
    BY DEF PtInit
  <1>2. \A e \in Entry : AMap[e] = Map!None
    BY <1>1 DEF AMap, Empty, Map!None
  <1>3. AMap = [e \in Entry |-> Map!None]
    BY <1>2 DEF AMap
  <1> QED BY <1>3, Zenon DEF Map!Init, AMap

LEMMA MapStep == TreeInv /\ [PtNext]_ptVars => Map!Next \/ AMap' = AMap
  <1> SUFFICES ASSUME TreeInv, [PtNext]_ptVars
               PROVE  Map!Next \/ AMap' = AMap
    OBVIOUS
  <1>1. Va \subseteq Address /\ 0 \in Level /\ (Top > 0 => 1 \in Level) /\ OsLevels \subseteq Level
    BY TableAssumption DEF Address, Level, Top
  <1>2. ASSUME table' = table
        PROVE  AMap' = AMap
    BY <1>2 DEF AMap
  <1>3. ASSUME NEW va \in Va, Lookup(va)
        PROVE  AMap' = AMap
    BY <1>2, <1>3 DEF Lookup
  <1>4. ASSUME NEW va \in Va, PinFound(va)
        PROVE  Map!Next
    <2>1. Stop(va) \in Entry
      BY <1>1, SameStop DEF TreeInv
    <2> QED BY <1>4, <2>1, MapShares DEF PinFound
  <1>5. ASSUME NEW va \in Va, Remove(va)
        PROVE  Map!Next
    BY <1>1, <1>5, MapReleases
  <1>6. ASSUME NEW va \in Va, NEW o \in Owners, PinLarge(va, o)
        PROVE  Map!Next \/ AMap' = AMap
    <2>1. At(1, va) \in Entry
      BY <1>1, <1>6, AtIs DEF PinLarge, Aligned
    <2> QED BY <1>6, <2>1, MapInserts, MapFails DEF PinLarge, Insert
  <1>7. ASSUME NEW va \in Va, NEW o \in Owners, PinSmall(va, o)
        PROVE  Map!Next \/ AMap' = AMap
    <2>1. At(0, va) \in Entry
      BY <1>1, AtIs
    <2> QED BY <1>7, <2>1, MapInserts, MapFails DEF PinSmall, Insert
  <1>8. ASSUME NEW va \in Va, NEW os \in OsLevels, "demand" \in Owners, PinDemand(va, os)
        PROVE  Map!Next \/ AMap' = AMap
    <2>1. At(DemandSize(va, os), va) \in Entry
      BY <1>1, AtIs DEF DemandSize
    <2> QED BY <1>8, <2>1, MapInserts, MapFails DEF PinDemand, Insert
  <1>9. ASSUME NEW lo \in Va, NEW hi \in Va \union {Span[Levels]}, ReleaseRange(lo, hi)
        PROVE  Map!Next
    BY <1>9, MapReleasesRange DEF RangeEnds
  <1>10. CASE Term
    <2>1. \A e \in Entry : table'[e] = Empty
      BY <1>10 DEF Term
    <2>2. \A e \in Entry : AMap'[e] = Map!None
      BY <2>1 DEF AMap, Empty, Map!None
    <2>3. AMap' = [e \in Entry |-> Map!None]
      BY <2>2 DEF AMap
    <2>4. Map!ReleaseAll
      BY <2>3, Zenon DEF Map!ReleaseAll, AMap
    <2> QED BY <2>4 DEF Map!Next
  <1>11. CASE UNCHANGED ptVars
    BY <1>2, <1>11 DEF ptVars
  <1> QED BY <1>3, <1>4, <1>5, <1>6, <1>7, <1>8, <1>9, <1>10, <1>11 DEF PtNext

\* Every call on the tree is one on the map of shim_vtp_pt.h, or changes nothing
\* there: pinned regions never overlap, a region is counted once for each call
\* that pinned memory in it, and leaves the map with its last reference.
THEOREM Implements == PtSpec => IsPageMap
  <1>1. PtInit => Map!Init
    BY MapInit
  <1>2. TreeInv /\ [PtNext]_ptVars => [Map!Next]_AMap
    BY MapStep
  <1> QED BY <1>1, <1>2, Invariance, PTL DEF PtSpec, IsPageMap, Map!Spec, AMap

-----------------------------------------------------------------------------
(* The caches: sequences and sets of at most one element.                  *)

LEMMA TheOne ==
  ASSUME NEW x
  PROVE  The({x}) = x
  BY DEF The

LEMMA OneAtMost ==
  ASSUME NEW S, NEW o \in Opt(S)
  PROVE  /\ o \subseteq S
         /\ o # {} => The(o) \in S /\ o = {The(o)}
         /\ AsSeq(o) \in Seq(S) /\ Range(AsSeq(o)) = o /\ IsInjective(AsSeq(o))
         /\ \A i \in 1 .. Len(AsSeq(o)) : AsSeq(o)[i] \in o
  <1>1. CASE o = {}
    BY <1>1 DEF AsSeq, Range, IsInjective
  <1>2. CASE o # {}
    <2>1. PICK x \in S : o = {x}
      BY <1>2 DEF Opt
    <2>2. The(o) = x /\ AsSeq(o) = <<x>>
      BY <2>1, TheOne DEF AsSeq
    <2>3. AsSeq(o) \in Seq(S) /\ Len(AsSeq(o)) = 1 /\ AsSeq(o)[1] = x /\ DOMAIN AsSeq(o) = 1 .. 1
      BY <2>2
    <2>4. Range(AsSeq(o)) = {x} /\ IsInjective(AsSeq(o))
      BY <2>3 DEF Range, IsInjective
    <2>5. \A i \in 1 .. Len(AsSeq(o)) : AsSeq(o)[i] \in o
      BY <2>1, <2>3
    <2>6. o \subseteq S /\ (o # {} => The(o) \in S /\ o = {The(o)})
      BY <2>1, <2>2
    <2> QED BY <2>1, <2>3, <2>4, <2>5, <2>6
  <1> QED BY <1>1, <1>2

LEMMA Joined ==
  ASSUME NEW S, NEW s \in Seq(S), NEW t \in Seq(S)
  PROVE  /\ s \o t \in Seq(S) /\ Len(s \o t) = Len(s) + Len(t)
         /\ \A j \in 1 .. Len(s) : (s \o t)[j] = s[j]
         /\ \A k \in 1 .. Len(t) : (s \o t)[Len(s) + k] = t[k]
  <1>1. Len(s) \in Nat /\ Len(t) \in Nat /\ s \o t \in Seq(S) /\ Len(s \o t) = Len(s) + Len(t)
    OBVIOUS
  <1>2. \A j \in 1 .. Len(s) : (s \o t)[j] = s[j]
    BY <1>1
  <1>3. \A k \in 1 .. Len(t) : (s \o t)[Len(s) + k] = t[k]
    BY <1>1
  <1> QED BY <1>1, <1>2, <1>3

Queued(s, d, x) == (IF d = 1 THEN Tail(s) ELSE s) \o x

Follows(r, s, d, x) ==
  /\ Len(r) = (Len(s) - d) + Len(x)
  /\ \A i \in 1 .. Len(s) - d : r[i] = s[i + d]
  /\ \A k \in 1 .. Len(x) : r[(Len(s) - d) + k] = x[k]

LEMMA Queue ==
  ASSUME NEW S, NEW s \in Seq(S), NEW x \in Seq(S), NEW d \in 0 .. 1, d <= Len(s)
  PROVE  Queued(s, d, x) \in Seq(S) /\ Follows(Queued(s, d, x), s, d, x)
  <1>1. PICK n \in Nat, m \in Nat : n = Len(s) /\ m = Len(x)
    OBVIOUS
  <1>2. PICK old : old = IF d = 1 THEN Tail(s) ELSE s
    OBVIOUS
  <1>3. old \in Seq(S) /\ Len(old) = n - d /\ \A i \in 1 .. n - d : old[i] = s[i + d]
    <2>1. CASE d = 0
      BY <1>1, <1>2, <2>1
    <2>2. CASE d = 1
      BY <1>1, <1>2, <2>2
    <2> QED BY <2>1, <2>2
  <1>4. PICK r : r = old \o x
    OBVIOUS
  <1>5. r \in Seq(S) /\ Len(r) = (n - d) + m
    <2>1. r \in Seq(S) /\ Len(r) = Len(old) + Len(x)
      BY <1>3, <1>4, Joined
    <2> QED BY <1>1, <1>3, <2>1
  <1>6. \A i \in 1 .. n - d : r[i] = s[i + d]
    <2>1. \A i \in 1 .. Len(old) : r[i] = old[i]
      BY <1>3, <1>4, Joined
    <2> QED BY <1>1, <1>3, <2>1
  <1>7. \A k \in 1 .. m : r[(n - d) + k] = x[k]
    <2>1. \A k \in 1 .. Len(x) : r[Len(old) + k] = x[k]
      BY <1>3, <1>4, Joined
    <2> QED BY <1>1, <1>3, <2>1
  <1>8. Queued(s, d, x) = r
    BY <1>2, <1>4 DEF Queued
  <1> QED BY <1>1, <1>5, <1>6, <1>7, <1>8 DEF Follows

\* Where an element of such a queue comes from.
LEMMA QueueFrom ==
  ASSUME NEW n \in Nat, NEW m \in Nat, NEW d \in 0 .. 1, d <= n, NEW i \in 1 .. (n - d) + m
  PROVE  \/ i \in 1 .. n - d /\ i + d \in 1 .. n
         \/ \E k \in 1 .. m : i = (n - d) + k
  <1>1. CASE i <= n - d
    BY <1>1
  <1>2. CASE i > n - d
    <2>1. i - (n - d) \in 1 .. m /\ i = (n - d) + (i - (n - d))
      BY <1>2
    <2> QED BY <2>1
  <1>3. i <= n - d \/ i > n - d
    OBVIOUS
  <1> QED BY <1>1, <1>2, <1>3

LEMMA QueueRange ==
  ASSUME NEW S, NEW s \in Seq(S), NEW x \in Seq(S), NEW d \in 0 .. 1, d <= Len(s),
         IsInjective(s), IsInjective(x), Range(s) \intersect Range(x) = {}
  PROVE  /\ IsInjective(Queued(s, d, x))
         /\ \A e : e \in Range(Queued(s, d, x)) <=> (e \in Range(s) /\ ~(d = 1 /\ e = Head(s))) \/ e \in Range(x)
  <1>2. PICK r : /\ r = Queued(s, d, x)
                 /\ r \in Seq(S) /\ Len(s) \in Nat /\ Len(x) \in Nat
                 /\ Len(r) = (Len(s) - d) + Len(x)
                 /\ \A i \in 1 .. Len(s) - d : r[i] = s[i + d]
                 /\ \A k \in 1 .. Len(x) : r[(Len(s) - d) + k] = x[k]
    <2>1. Queued(s, d, x) \in Seq(S) /\ Follows(Queued(s, d, x), s, d, x)
      BY Queue
    <2>2. PICK r : r = Queued(s, d, x)
      OBVIOUS
    <2>3. r \in Seq(S) /\ Follows(r, s, d, x) /\ Len(s) \in Nat /\ Len(x) \in Nat
      BY <2>1, <2>2
    <2>4. /\ Len(r) = (Len(s) - d) + Len(x)
          /\ \A j \in 1 .. Len(s) - d : r[j] = s[j + d]
          /\ \A k \in 1 .. Len(x) : r[(Len(s) - d) + k] = x[k]
      BY <2>3 DEF Follows
    <2> QED BY <2>2, <2>3, <2>4
  <1>3. PICK n \in Nat, m \in Nat : n = Len(s) /\ m = Len(x)
    BY <1>2
  <1>4. /\ \A i, j \in 1 .. n : s[i] = s[j] => i = j
        /\ \A i, j \in 1 .. m : x[i] = x[j] => i = j
        /\ \A i \in 1 .. n : \A j \in 1 .. m : s[i] # x[j]
    <2>1. DOMAIN s = 1 .. n /\ DOMAIN x = 1 .. m
      BY <1>3
    <2>2. \A i, j \in 1 .. n : s[i] = s[j] => i = j
      BY <2>1 DEF IsInjective
    <2>3. \A i, j \in 1 .. m : x[i] = x[j] => i = j
      BY <2>1 DEF IsInjective
    <2>4. \A i \in 1 .. n : \A j \in 1 .. m : s[i] # x[j]
      BY <2>1 DEF Range
    <2> QED BY <2>2, <2>3, <2>4
  <1>5. /\ d \in 0 .. 1 /\ d <= n
        /\ Len(r) = (n - d) + m
        /\ \A i \in 1 .. n - d : r[i] = s[i + d]
        /\ \A k \in 1 .. m : r[(n - d) + k] = x[k]
    BY <1>2, <1>3
  <1>6. ASSUME NEW i \in 1 .. Len(r)
        PROVE  \/ i \in 1 .. n - d /\ i + d \in 1 .. n /\ r[i] = s[i + d]
               \/ \E k \in 1 .. m : i = (n - d) + k /\ r[i] = x[k]
    <2>1. i \in 1 .. (n - d) + m
      BY <1>5
    <2>2. \/ i \in 1 .. n - d /\ i + d \in 1 .. n
          \/ \E k \in 1 .. m : i = (n - d) + k
      BY <1>5, <2>1, QueueFrom
    <2> QED BY <1>5, <2>2
  <1>7. \A i, j \in 1 .. Len(r) : r[i] = r[j] => i = j
    <2> SUFFICES ASSUME NEW i \in 1 .. Len(r), NEW j \in 1 .. Len(r), r[i] = r[j]
                 PROVE  i = j
      OBVIOUS
    <2>1. CASE i + d \in 1 .. n /\ r[i] = s[i + d]
      <3>1. CASE j + d \in 1 .. n /\ r[j] = s[j + d]
        <4>1. i + d = j + d
          BY <1>4, <2>1, <3>1
        <4> QED BY <4>1
      <3>2. CASE \E k \in 1 .. m : j = (n - d) + k /\ r[j] = x[k]
        BY <1>4, <2>1, <3>2
      <3> QED BY <1>6, <3>1, <3>2
    <2>2. CASE \E k \in 1 .. m : i = (n - d) + k /\ r[i] = x[k]
      <3>1. CASE j + d \in 1 .. n /\ r[j] = s[j + d]
        BY <1>4, <2>2, <3>1
      <3>2. CASE \E k \in 1 .. m : j = (n - d) + k /\ r[j] = x[k]
        BY <1>4, <2>2, <3>2
      <3> QED BY <1>6, <3>1, <3>2
    <2> QED BY <1>6, <2>1, <2>2
  <1>8. ASSUME NEW e, e \in Range(r)
        PROVE  (e \in Range(s) /\ ~(d = 1 /\ e = Head(s))) \/ e \in Range(x)
    <2>1. PICK i \in 1 .. Len(r) : e = r[i]
      BY <1>2, <1>8 DEF Range
    <2>2. CASE i \in 1 .. n - d /\ i + d \in 1 .. n /\ r[i] = s[i + d]
      <3>1. e \in Range(s)
        BY <1>3, <2>1, <2>2 DEF Range
      <3>2. d = 1 => Head(s) = s[1] /\ i + d # 1 /\ 1 \in 1 .. n
        BY <1>3, <1>5, <2>2
      <3>3. d = 1 => e # Head(s)
        BY <1>4, <2>1, <2>2, <3>2
      <3> QED BY <3>1, <3>3
    <2>3. CASE \E k \in 1 .. m : i = (n - d) + k /\ r[i] = x[k]
      BY <1>3, <2>1, <2>3 DEF Range
    <2> QED BY <1>6, <2>2, <2>3
  <1>9. ASSUME NEW e, e \in Range(s), ~(d = 1 /\ e = Head(s))
        PROVE  e \in Range(r)
    <2>1. PICK i \in 1 .. n : e = s[i]
      BY <1>3, <1>9 DEF Range
    <2>2. d = 1 => i # 1
      <3>1. d = 1 => Head(s) = s[1]
        BY <1>3, <1>5
      <3> QED BY <1>9, <2>1, <3>1
    <2>3. i - d \in 1 .. n - d /\ (i - d) + d = i /\ i - d \in 1 .. Len(r)
      BY <1>5, <2>2
    <2>4. r[i - d] = e
      BY <1>5, <2>1, <2>3
    <2> QED BY <1>2, <2>3, <2>4 DEF Range
  <1>10. ASSUME NEW e, e \in Range(x)
         PROVE  e \in Range(r)
    <2>1. PICK k \in 1 .. m : e = x[k]
      BY <1>3, <1>10 DEF Range
    <2>2. PICK i \in 1 .. Len(r) : i = (n - d) + k /\ r[i] = x[k]
      BY <1>5
    <2> QED BY <1>2, <2>1, <2>2 DEF Range
  <1>11. IsInjective(r)
    BY <1>2, <1>7, SMTT(30) DEF IsInjective
  <1> QED BY <1>2, <1>8, <1>9, <1>10, <1>11

\* Every element of a queue was there or has come.
LEMMA QueueAll ==
  ASSUME NEW S, NEW s \in Seq(S), NEW x \in Seq(S), NEW d \in 0 .. 1, d <= Len(s),
         NEW i \in DOMAIN Queued(s, d, x)
  PROVE  \/ \E j \in DOMAIN s : Queued(s, d, x)[i] = s[j] /\ (d = 1 => j # 1)
         \/ \E k \in DOMAIN x : Queued(s, d, x)[i] = x[k]
  <1>2. PICK r : /\ r = Queued(s, d, x)
                 /\ r \in Seq(S) /\ Len(s) \in Nat /\ Len(x) \in Nat
                 /\ Len(r) = (Len(s) - d) + Len(x)
                 /\ \A j \in 1 .. Len(s) - d : r[j] = s[j + d]
                 /\ \A k \in 1 .. Len(x) : r[(Len(s) - d) + k] = x[k]
    <2>1. Queued(s, d, x) \in Seq(S) /\ Follows(Queued(s, d, x), s, d, x)
      BY Queue
    <2>2. PICK r : r = Queued(s, d, x)
      OBVIOUS
    <2>3. r \in Seq(S) /\ Follows(r, s, d, x) /\ Len(s) \in Nat /\ Len(x) \in Nat
      BY <2>1, <2>2
    <2>4. /\ Len(r) = (Len(s) - d) + Len(x)
          /\ \A j \in 1 .. Len(s) - d : r[j] = s[j + d]
          /\ \A k \in 1 .. Len(x) : r[(Len(s) - d) + k] = x[k]
      BY <2>3 DEF Follows
    <2> QED BY <2>2, <2>3, <2>4
  <1>3. PICK n \in Nat, m \in Nat : n = Len(s) /\ m = Len(x)
    BY <1>2
  <1>4. i \in 1 .. (n - d) + m /\ d <= n
    BY <1>2, <1>3
  <1>5. \/ i \in 1 .. n - d /\ i + d \in 1 .. n
        \/ \E k \in 1 .. m : i = (n - d) + k
    BY <1>4, QueueFrom
  <1>6. CASE i \in 1 .. n - d /\ i + d \in 1 .. n
    <2>1. i + d \in DOMAIN s /\ r[i] = s[i + d] /\ (d = 1 => i + d # 1)
      BY <1>2, <1>3, <1>6
    <2> QED BY <1>2, <2>1
  <1>7. CASE \E k \in 1 .. m : i = (n - d) + k
    <2>1. PICK k \in 1 .. m : i = (n - d) + k
      BY <1>7
    <2>2. k \in DOMAIN x /\ r[i] = x[k]
      BY <1>2, <1>3, <2>1
    <2> QED BY <1>2, <2>2
  <1> QED BY <1>5, <1>6, <1>7

LEMMA Tagged ==
  ASSUME NEW S, NEW s \in Seq(S), \A e \in S : e.tag \in Tag
  PROVE  /\ TagsOf(s) \in Seq(Tag) /\ Len(TagsOf(s)) = Len(s) /\ DOMAIN TagsOf(s) = DOMAIN s
         /\ \A i \in 1 .. Len(s) : TagsOf(s)[i] = s[i].tag
         /\ s # <<>> => TagsOf(s) # <<>> /\ Head(TagsOf(s)) = Head(s).tag
  <1>1. Len(s) \in Nat /\ DOMAIN s = 1 .. Len(s) /\ \A i \in 1 .. Len(s) : s[i] \in S
    OBVIOUS
  <1>2. TagsOf(s) = [i \in 1 .. Len(s) |-> s[i].tag]
    BY <1>1 DEF TagsOf
  <1>3. \A i \in 1 .. Len(s) : s[i].tag \in Tag
    BY <1>1
  <1>4. TagsOf(s) \in Seq(Tag) /\ Len(TagsOf(s)) = Len(s)
    BY <1>1, <1>2, <1>3
  <1>5. s # <<>> => Len(s) >= 1 /\ Head(s) = s[1]
    BY <1>1
  <1> QED BY <1>1, <1>2, <1>4, <1>5

\* The tags of a queue are a queue of tags.
LEMMA QueueTags ==
  ASSUME NEW S, NEW s \in Seq(S), NEW x \in Seq(S), \A e \in S : e.tag \in Tag,
         NEW d \in 0 .. 1, d <= Len(s)
  PROVE  TagsOf(Queued(s, d, x)) = Queued(TagsOf(s), d, TagsOf(x))
  <1>2. PICK y : y = TagsOf(s)
    OBVIOUS
  <1>3. PICK z : z = TagsOf(x)
    OBVIOUS
  <1>5. PICK r : /\ r = Queued(s, d, x)
                 /\ r \in Seq(S) /\ Len(s) \in Nat /\ Len(x) \in Nat
                 /\ Len(r) = (Len(s) - d) + Len(x)
                 /\ \A i \in 1 .. Len(s) - d : r[i] = s[i + d]
                 /\ \A k \in 1 .. Len(x) : r[(Len(s) - d) + k] = x[k]
    <2>1. Queued(s, d, x) \in Seq(S) /\ Follows(Queued(s, d, x), s, d, x)
      BY Queue
    <2>2. PICK r : r = Queued(s, d, x)
      OBVIOUS
    <2>3. r \in Seq(S) /\ Follows(r, s, d, x) /\ Len(s) \in Nat /\ Len(x) \in Nat
      BY <2>1, <2>2
    <2>4. /\ Len(r) = (Len(s) - d) + Len(x)
          /\ \A i \in 1 .. Len(s) - d : r[i] = s[i + d]
          /\ \A k \in 1 .. Len(x) : r[(Len(s) - d) + k] = x[k]
      BY <2>3 DEF Follows
    <2> QED BY <2>2, <2>3, <2>4
  <1>6. y \in Seq(Tag) /\ Len(y) = Len(s) /\ \A i \in 1 .. Len(s) : y[i] = s[i].tag
    BY <1>2, Tagged
  <1>7. z \in Seq(Tag) /\ Len(z) = Len(x) /\ \A i \in 1 .. Len(x) : z[i] = x[i].tag
    BY <1>3, Tagged
  <1>8. /\ TagsOf(r) \in Seq(Tag) /\ Len(TagsOf(r)) = Len(r)
        /\ \A i \in 1 .. Len(r) : TagsOf(r)[i] = r[i].tag
    BY <1>5, Tagged
  <1>9. PICK u : /\ u = Queued(y, d, z)
                 /\ u \in Seq(Tag)
                 /\ Len(u) = (Len(y) - d) + Len(z)
                 /\ \A i \in 1 .. Len(y) - d : u[i] = y[i + d]
                 /\ \A k \in 1 .. Len(z) : u[(Len(y) - d) + k] = z[k]
    <2>1. d <= Len(y)
      BY <1>6
    <2>2. y \in Seq(Tag) /\ z \in Seq(Tag)
      BY <1>6, <1>7
    <2>3. Queued(y, d, z) \in Seq(Tag) /\ Follows(Queued(y, d, z), y, d, z)
      BY <2>1, <2>2, Queue
    <2> QED BY <2>3 DEF Follows
  <1>10. PICK n \in Nat, m \in Nat : n = Len(s) /\ m = Len(x)
    BY <1>5
  <1>11. ASSUME NEW i \in 1 .. Len(r)
         PROVE  r[i].tag = u[i]
    <2>1. i \in 1 .. (n - d) + m /\ d <= n
      BY <1>5, <1>10
    <2>2. \/ i \in 1 .. n - d /\ i + d \in 1 .. n
          \/ \E k \in 1 .. m : i = (n - d) + k
      BY <2>1, QueueFrom
    <2>3. CASE i \in 1 .. n - d /\ i + d \in 1 .. n
      BY <1>5, <1>6, <1>9, <1>10, <2>3
    <2>4. CASE \E k \in 1 .. m : i = (n - d) + k
      <3>1. PICK k \in 1 .. m : i = (n - d) + k
        BY <2>4
      <3>2. r[i] = x[k]
        BY <1>5, <1>10, <3>1
      <3>3. u[i] = z[k]
        BY <1>6, <1>7, <1>9, <1>10, <3>1
      <3>4. z[k] = x[k].tag
        BY <1>7, <1>10
      <3> QED BY <3>2, <3>3, <3>4
    <2> QED BY <2>2, <2>3, <2>4
  <1>12. TagsOf(r) = u
    <2>1. Len(u) = Len(r) /\ Len(r) \in Nat
      BY <1>5, <1>6, <1>7, <1>9
    <2>2. \A i \in 1 .. Len(r) : TagsOf(r)[i] = u[i]
      BY <1>8, <1>11
    <2>3. TagsOf(r) \in Seq(Tag) /\ u \in Seq(Tag) /\ Len(TagsOf(r)) = Len(u)
      BY <1>8, <1>9, <2>1
    <2> QED BY <2>1, <2>2, <2>3
  <1> QED BY <1>2, <1>3, <1>5, <1>9, <1>12

\* No queue of different requests is longer than there are tags.
LEMMA QueueBound ==
  ASSUME NEW s \in Seq(Tag), IsInjective(s)
  PROVE  Len(s) <= Cardinality(Tag)
  <1>1. Len(s) \in Nat /\ s \in [1 .. Len(s) -> Tag]
    OBVIOUS
  <1>2. s \in Injection(1 .. Len(s), Tag)
    BY <1>1 DEF Injection
  <1>3. Cardinality(1 .. Len(s)) <= Cardinality(Tag)
    BY <1>2, FS_Injection, TlbAssumption
  <1>4. Cardinality(1 .. Len(s)) = Len(s)
    BY <1>1, FS_Interval, SMTT(30)
  <1> QED BY <1>3, <1>4

-----------------------------------------------------------------------------
(* Where the requests are.                                                 *)

IsBelow(t) ==
    \/ t \in dedup.out \/ t \in Range(l2.queue) \/ t \in Range(TagsOf(l2.found))
    \/ t \in Range(walk.queue) \/ t \in walk.req \/ (walk.st # "idle" /\ t = walk.tag)
    \/ t \in Tags(walk.en) \/ t \in Tags(walk.rsp) \/ t \in Tags(walk.rspQ)
    \/ t \in Tags(l2.rsp) \/ t \in Tags(dedup.rsp)

Shares(t) == \E u \in Tag : IsBelow(u) /\ t \in Range(dedup.chain[u])

Here(t, n) ==
    /\ t \in miss.busy <=> n # 0
    /\ t \in miss.q <=> n = 1
    /\ t \in miss.svc <=> n = 2
    /\ t \in Range(dedup.fifo) <=> n = 3
    /\ t \in dedup.out <=> n = 4
    /\ t \in Range(l2.queue) <=> n = 5
    /\ t \in Range(TagsOf(l2.found)) <=> n = 6
    /\ t \in Range(walk.queue) <=> n = 7
    /\ t \in walk.req <=> n = 8
    /\ (walk.st # "idle" /\ t = walk.tag) <=> n = 9
    /\ t \in Tags(walk.en) <=> n = 10
    /\ t \in Tags(walk.rsp) <=> n = 11
    /\ t \in Tags(walk.rspQ) <=> n = 12
    /\ t \in Tags(l2.rsp) <=> n = 13
    /\ t \in Tags(dedup.rsp) <=> n = 14
    /\ t \in Range(TagsOf(miss.fifo)) <=> n = 15
    /\ (\E d \in miss.deq : t = d.rsp.tag) <=> n = 16
    /\ Shares(t) <=> n = 17

\* Each request is in one place, and there once.
Apart ==
    /\ \A t \in Tag : \E n \in 0 .. 17 : Here(t, n)
    /\ IsInjective(dedup.fifo) /\ IsInjective(l2.queue) /\ IsInjective(TagsOf(l2.found))
    /\ IsInjective(walk.queue) /\ IsInjective(TagsOf(miss.fifo))
    /\ \A t \in Tag : IsBelow(t) => IsInjective(dedup.chain[t])
    /\ \A t, u, e \in Tag :
          IsBelow(t) /\ IsBelow(u) /\ e \in Range(dedup.chain[t]) /\ e \in Range(dedup.chain[u]) => t = u
    /\ walk.req # {} => walk.st = "idle"
    /\ \A t \in dedup.cur : IsBelow(t) /\ t \notin Tags(dedup.rsp)

\* A queue of tags after a cycle.
LEMMA TagQueue ==
  ASSUME NEW s \in Seq(Tag), NEW x \in Seq(Tag), NEW b \in BOOLEAN, b => s # <<>>,
         IsInjective(s), IsInjective(x), Range(s) \intersect Range(x) = {}
  PROVE  /\ Rest(s, b) \o x \in Seq(Tag)
         /\ IsInjective(Rest(s, b) \o x)
         /\ \A e : e \in Range(Rest(s, b) \o x) <=> (e \in Range(s) /\ ~(b /\ e = Head(s))) \/ e \in Range(x)
  <1>1. PICK d \in 0 .. 1 : d = IF b THEN 1 ELSE 0
    OBVIOUS
  <1>2. d <= Len(s) /\ (d = 1 <=> b)
    BY <1>1
  <1>3. Rest(s, b) \o x = Queued(s, d, x)
    <2>1. CASE b
      <3>1. Rest(s, b) = Tail(s) /\ d = 1
        BY <1>2, <2>1 DEF Rest
      <3> QED BY <3>1 DEF Queued
    <2>2. CASE ~b
      <3>1. Rest(s, b) = s /\ d # 1
        BY <1>2, <2>2 DEF Rest
      <3> QED BY <3>1 DEF Queued
    <2> QED BY <2>1, <2>2
  <1>4. Queued(s, d, x) \in Seq(Tag)
    BY <1>2, Queue
  <1>5. /\ IsInjective(Queued(s, d, x))
        /\ \A e : e \in Range(Queued(s, d, x)) <=> (e \in Range(s) /\ ~(d = 1 /\ e = Head(s))) \/ e \in Range(x)
    BY <1>2, QueueRange
  <1> QED BY <1>2, <1>3, <1>4, <1>5

LEMMA FifoMoves ==
  ASSUME TypeOK, Apart, NEW next \in Takes, Own(next) => dedup.fifo # <<>>, NextDedup(next)
  PROVE  /\ dedup'.fifo \in Seq(Tag) /\ IsInjective(dedup'.fifo)
         /\ \A t \in Tag : t \in Range(dedup'.fifo) <=>
               (t \in Range(dedup.fifo) /\ ~(Own(next) /\ t = Head(dedup.fifo))) \/ t \in miss.svc
  <1>1. PICK x : x = AsSeq(miss.svc)
    OBVIOUS
  <1>2. x \in Seq(Tag) /\ Range(x) = miss.svc /\ IsInjective(x) /\ miss.svc \subseteq Tag
    <2>1. miss.svc \in Opt(Tag)
      BY DEF TypeOK
    <2> QED BY <1>1, <2>1, OneAtMost
  <1>6. PICK b \in BOOLEAN : b <=> Own(next)
    OBVIOUS
  <1>3. dedup'.fifo = Rest(dedup.fifo, b) \o x
    BY <1>1, <1>6 DEF NextDedup, Rest
  <1>4. Range(dedup.fifo) \intersect Range(x) = {}
    <2> SUFFICES ASSUME NEW t \in Tag, t \in Range(dedup.fifo), t \in miss.svc
                 PROVE  FALSE
      BY <1>2
    <2> QED BY DEF Apart, Here
  <1>5. dedup.fifo \in Seq(Tag) /\ IsInjective(dedup.fifo)
    BY DEF TypeOK, Apart
  <1>7. /\ Rest(dedup.fifo, b) \o x \in Seq(Tag)
        /\ IsInjective(Rest(dedup.fifo, b) \o x)
        /\ \A t : t \in Range(Rest(dedup.fifo, b) \o x) <=>
              (t \in Range(dedup.fifo) /\ ~(b /\ t = Head(dedup.fifo))) \/ t \in Range(x)
    BY <1>2, <1>4, <1>5, <1>6, TagQueue
  <1> QED BY <1>2, <1>3, <1>6, <1>7

\* All that is in r was in s or is in x.
Mixes(r, s, x) ==
    \A i \in DOMAIN r : (\E j \in DOMAIN s : r[i] = s[j]) \/ (\E k \in DOMAIN x : r[i] = x[k])

\* A queue of records with tags after a cycle.
LEMMA TaggedQueue ==
  ASSUME NEW S, \A e \in S : e.tag \in Tag, NEW s \in Seq(S), NEW x \in Seq(S),
         NEW b \in BOOLEAN, b => s # <<>>,
         IsInjective(TagsOf(s)), IsInjective(TagsOf(x)), Range(TagsOf(s)) \intersect Range(TagsOf(x)) = {}
  PROVE  /\ Rest(s, b) \o x \in Seq(S)
         /\ IsInjective(TagsOf(Rest(s, b) \o x))
         /\ \A e : e \in Range(TagsOf(Rest(s, b) \o x)) <=>
               (e \in Range(TagsOf(s)) /\ ~(b /\ e = Head(s).tag)) \/ e \in Range(TagsOf(x))
         /\ Mixes(Rest(s, b) \o x, s, x)
  <1>1. PICK d \in 0 .. 1 : d = IF b THEN 1 ELSE 0
    OBVIOUS
  <1>2. d <= Len(s) /\ (d = 1 <=> b)
    BY <1>1
  <1>3. Rest(s, b) \o x = Queued(s, d, x)
    <2>1. CASE b
      <3>1. Rest(s, b) = Tail(s) /\ d = 1
        BY <1>2, <2>1 DEF Rest
      <3> QED BY <3>1 DEF Queued
    <2>2. CASE ~b
      <3>1. Rest(s, b) = s /\ d # 1
        BY <1>2, <2>2 DEF Rest
      <3> QED BY <3>1 DEF Queued
    <2> QED BY <2>1, <2>2
  <1>4. Queued(s, d, x) \in Seq(S)
    BY <1>2, Queue
  <1>5. TagsOf(Queued(s, d, x)) = Queued(TagsOf(s), d, TagsOf(x))
    BY <1>2, QueueTags
  <1>6. PICK y, z : y = TagsOf(s) /\ z = TagsOf(x)
    OBVIOUS
  <1>7. y \in Seq(Tag) /\ z \in Seq(Tag) /\ Len(y) = Len(s) /\ (b => Head(y) = Head(s).tag)
    BY <1>6, Tagged
  <1>8. /\ IsInjective(Queued(y, d, z))
        /\ \A e : e \in Range(Queued(y, d, z)) <=> (e \in Range(y) /\ ~(d = 1 /\ e = Head(y))) \/ e \in Range(z)
    <2>1. IsInjective(y) /\ IsInjective(z) /\ Range(y) \intersect Range(z) = {} /\ d <= Len(y)
      BY <1>2, <1>6, <1>7
    <2> QED BY <1>7, <2>1, QueueRange
  <1>9. \A e : e \in Range(Queued(y, d, z)) <=> (e \in Range(y) /\ ~(b /\ e = Head(s).tag)) \/ e \in Range(z)
    BY <1>2, <1>7, <1>8
  <1>10. Mixes(Queued(s, d, x), s, x)
    BY <1>2, QueueAll DEF Mixes
  <1> QED BY <1>3, <1>4, <1>5, <1>6, <1>8, <1>9, <1>10

LEMMA NoneTagged ==
  /\ TagsOf(<<>>) = <<>> /\ Range(<<>>) = {} /\ IsInjective(<<>>)
  <1>1. DOMAIN <<>> = {}
    OBVIOUS
  <1>2. TagsOf(<<>>) = <<>>
    BY <1>1 DEF TagsOf
  <1> QED BY <1>1, <1>2 DEF Range, IsInjective

LEMMA OneTagged ==
  ASSUME NEW S, NEW r \in S, \A e \in S : e.tag \in Tag
  PROVE  <<r>> \in Seq(S) /\ Range(TagsOf(<<r>>)) = {r.tag} /\ IsInjective(TagsOf(<<r>>))
  <1>1. PICK s : s = <<r>>
    OBVIOUS
  <1>2. s \in Seq(S) /\ Len(s) = 1 /\ s[1] = r
    BY <1>1
  <1>3. PICK y : y = TagsOf(s)
    OBVIOUS
  <1>4. y \in Seq(Tag) /\ Len(y) = Len(s) /\ \A i \in 1 .. Len(s) : y[i] = s[i].tag
    BY <1>2, <1>3, Tagged
  <1>5. DOMAIN y = {1} /\ y[1] = r.tag
    BY <1>2, <1>4
  <1>6. Range(y) = {r.tag} /\ IsInjective(y)
    BY <1>5 DEF Range, IsInjective
  <1> QED BY <1>1, <1>2, <1>3, <1>6

\* What the filter gives back: an answer to each request that shares it.
LEMMA Given ==
  ASSUME TypeOK, Apart
  PROVE  /\ GivenBack \in Seq(Rsp)
         /\ IsInjective(TagsOf(GivenBack))
         /\ \A t \in Tag : t \in Range(TagsOf(GivenBack)) <=>
               \E r \in dedup.rsp : t = r.tag \/ t \in Range(dedup.chain[r.tag])
         /\ \A i \in DOMAIN GivenBack :
               \/ GivenBack[i] \in dedup.rsp
               \/ \E r \in dedup.rsp : /\ GivenBack[i].tag \in Range(dedup.chain[r.tag])
                                       /\ GivenBack[i].ver = r.ver /\ GivenBack[i].may = FALSE
  <1>1. CASE dedup.rsp = {}
    <2>1. GivenBack = <<>>
      BY <1>1 DEF GivenBack
    <2>2. \A i \in DOMAIN <<>> : FALSE
      OBVIOUS
    <2> QED BY <1>1, <2>1, <2>2, NoneTagged
  <1>2. CASE dedup.rsp # {}
    <2>1. PICK r \in Rsp : dedup.rsp = {r}
      BY <1>2 DEF TypeOK, Opt
    <2>2. PICK c : c = dedup.chain[r.tag]
      OBVIOUS
    <2>3. PICK m : m = Len(c)
      OBVIOUS
    <2>4. r.tag \in Tag /\ r.ver \in Version /\ c \in Seq(Tag) /\ m \in Nat /\ c \in [1 .. m -> Tag]
      BY <2>1, <2>2, <2>3 DEF TypeOK, Rsp
    <2>5. PICK x : x = Copies(r)
      OBVIOUS
    <2>6. x = [i \in 1 .. m |-> Copy(r, c[i])]
      BY <2>2, <2>4, <2>5 DEF Copies
    <2>7. \A t \in Tag : Copy(r, t) \in Rsp /\ Copy(r, t).tag = t /\ Copy(r, t).ver = r.ver /\ Copy(r, t).may = FALSE
      BY <2>1 DEF Copy, Rsp
    <2>8. x \in Seq(Rsp) /\ Len(x) = m /\ \A i \in 1 .. m : x[i] = Copy(r, c[i])
      BY <2>4, <2>6, <2>7
    <2>9. PICK g : g = <<r>> \o x
      OBVIOUS
    <2>10. GivenBack = g
      <3>1. The(dedup.rsp) = r /\ AsSeq(dedup.rsp) = <<r>>
        BY <1>2, <2>1, TheOne DEF AsSeq
      <3> QED BY <1>2, <2>5, <2>9, <3>1 DEF GivenBack
    <2>11. g \in Seq(Rsp) /\ Len(g) = 1 + m /\ g[1] = r
      BY <2>1, <2>4, <2>8, <2>9
    <2>12. \A i \in 1 .. m : g[1 + i] = Copy(r, c[i])
      <3>1. /\ Len(<<r>>) = 1 /\ <<r>> \in Seq(Rsp)
            /\ \A k \in 1 .. Len(x) : g[Len(<<r>>) + k] = x[k]
        BY <2>1, <2>8, <2>9, Joined
      <3> QED BY <2>4, <2>8, <3>1
    <2>13. ASSUME NEW i \in 1 .. 1 + m
           PROVE  i = 1 \/ \E k \in 1 .. m : i = 1 + k
      <3>1. CASE i = 1
        BY <3>1
      <3>2. CASE i # 1
        <4>1. i - 1 \in 1 .. m /\ i = 1 + (i - 1)
          BY <2>4, <3>2
        <4> QED BY <4>1
      <3> QED BY <3>1, <3>2
    <2>14. PICK y : y = TagsOf(g)
      OBVIOUS
    <2>15. y \in Seq(Tag) /\ Len(y) = 1 + m /\ y[1] = r.tag /\ \A k \in 1 .. m : y[1 + k] = c[k]
      <3>1. \A e \in Rsp : e.tag \in Tag
        BY DEF Rsp
      <3>2. y \in Seq(Tag) /\ Len(y) = Len(g) /\ \A i \in 1 .. Len(g) : y[i] = g[i].tag
        BY <2>11, <2>14, <3>1, Tagged
      <3>3. \A k \in 1 .. m : g[1 + k].tag = c[k] /\ 1 + k \in 1 .. Len(g)
        BY <2>4, <2>7, <2>11, <2>12
      <3>4. 1 \in 1 .. Len(g)
        BY <2>4, <2>11
      <3> QED BY <2>11, <3>2, <3>3, <3>4
    <2>16. IsBelow(r.tag) /\ IsInjective(c)
      <3>1. r.tag \in Tags(dedup.rsp)
        BY <2>1 DEF Tags
      <3> QED BY <2>2, <2>4, <3>1 DEF Apart, IsBelow
    <2>17. r.tag \notin Range(c)
      <3>1. PICK n \in 0 .. 17 : Here(r.tag, n)
        BY <2>4 DEF Apart
      <3>2. n = 14
        BY <2>1, <3>1 DEF Here, Tags
      <3>3. ~Shares(r.tag)
        BY <3>1, <3>2 DEF Here
      <3> QED BY <2>2, <2>4, <2>16, <3>3 DEF Shares
    <2>18. \A i, j \in 1 .. m : c[i] = c[j] => i = j
      BY <2>4, <2>16 DEF IsInjective
    <2>19. \A i \in 1 .. m : c[i] # r.tag
      BY <2>4, <2>17 DEF Range
    <2>20. IsInjective(y)
      <3>1. ASSUME NEW i \in 1 .. 1 + m, NEW j \in 1 .. 1 + m, y[i] = y[j]
            PROVE  i = j
        <4>1. i = 1 \/ \E k \in 1 .. m : i = 1 + k
          BY <2>13
        <4>2. j = 1 \/ \E k \in 1 .. m : j = 1 + k
          BY <2>13
        <4>3. CASE i = 1 /\ j = 1
          BY <4>3
        <4>4. CASE i = 1 /\ \E k \in 1 .. m : j = 1 + k
          BY <2>15, <2>19, <3>1, <4>4
        <4>5. CASE j = 1 /\ \E k \in 1 .. m : i = 1 + k
          BY <2>15, <2>19, <3>1, <4>5
        <4>6. CASE (\E k \in 1 .. m : i = 1 + k) /\ (\E k \in 1 .. m : j = 1 + k)
          <5>1. PICK k \in 1 .. m, l \in 1 .. m : i = 1 + k /\ j = 1 + l
            BY <4>6
          <5>2. c[k] = c[l]
            BY <2>15, <3>1, <5>1
          <5> QED BY <2>18, <5>1, <5>2
        <4> QED BY <4>1, <4>2, <4>3, <4>4, <4>5, <4>6
      <3> QED BY <2>15, <3>1 DEF IsInjective
    <2>21. \A t : t \in Range(y) <=> t = r.tag \/ t \in Range(c)
      <3>1. ASSUME NEW t, t \in Range(y) PROVE t = r.tag \/ t \in Range(c)
        <4>1. PICK i \in 1 .. 1 + m : t = y[i]
          BY <2>15, <3>1 DEF Range
        <4>2. i = 1 \/ \E k \in 1 .. m : i = 1 + k
          BY <2>13
        <4>3. CASE i = 1
          BY <2>15, <4>1, <4>3
        <4>4. CASE \E k \in 1 .. m : i = 1 + k
          <5>1. PICK k \in 1 .. m : i = 1 + k
            BY <4>4
          <5>2. t = c[k] /\ k \in DOMAIN c
            BY <2>4, <2>15, <4>1, <5>1
          <5> QED BY <5>2 DEF Range
        <4> QED BY <4>2, <4>3, <4>4
      <3>2. ASSUME NEW t, t = r.tag PROVE t \in Range(y)
        <4>1. 1 \in DOMAIN y
          BY <2>4, <2>15
        <4> QED BY <2>15, <3>2, <4>1 DEF Range
      <3>3. ASSUME NEW t, t \in Range(c) PROVE t \in Range(y)
        <4>1. PICK k \in 1 .. m : t = c[k]
          BY <2>4, <3>3 DEF Range
        <4>2. 1 + k \in DOMAIN y
          BY <2>4, <2>15
        <4> QED BY <2>15, <4>1, <4>2 DEF Range
      <3> QED BY <3>1, <3>2, <3>3
    <2>22. ASSUME NEW i \in DOMAIN g
           PROVE  \/ g[i] = r
                  \/ g[i].tag \in Range(c) /\ g[i].ver = r.ver /\ g[i].may = FALSE
      <3>1. i = 1 \/ \E k \in 1 .. m : i = 1 + k
        BY <2>11, <2>13
      <3>2. CASE i = 1
        BY <2>11, <3>2
      <3>3. CASE \E k \in 1 .. m : i = 1 + k
        <4>1. PICK k \in 1 .. m : i = 1 + k
          BY <3>3
        <4>2. c[k] \in Tag /\ c[k] \in Range(c)
          BY <2>4 DEF Range
        <4> QED BY <2>7, <2>12, <4>1, <4>2
      <3> QED BY <3>1, <3>2, <3>3
    <2> QED BY <2>1, <2>2, <2>10, <2>11, <2>14, <2>20, <2>21, <2>22
  <1> QED BY <1>1, <1>2

\* The TLB answers.
Answers == Hit /\ walk.rspQ = {}

LEMMA L2Moves ==
  ASSUME TypeOK, Apart, NEW look \in BOOLEAN, look => l2.queue # <<>>, NEW full \in BOOLEAN, NextL2(look, full)
  PROVE  /\ l2'.queue \in Seq(Tag) /\ IsInjective(l2'.queue)
         /\ \A t \in Tag : t \in Range(l2'.queue) <=>
               (t \in Range(l2.queue) /\ ~(look /\ t = Head(l2.queue))) \/ t \in dedup.out
         /\ l2'.found \in Seq(Found) /\ IsInjective(TagsOf(l2'.found))
         /\ \A t \in Tag : t \in Range(TagsOf(l2'.found)) <=>
               \/ t \in Range(TagsOf(l2.found)) /\ ~((Answers \/ Walks(full)) /\ t = Head(l2.found).tag)
               \/ look /\ t = Head(l2.queue)
         /\ \A i \in DOMAIN l2'.found :
               \/ \E j \in DOMAIN l2.found : l2'.found[i] = l2.found[j]
               \/ look /\ l2'.found[i] = [tag |-> Head(l2.queue), is |-> tlb.cache]
         /\ Answers => \E v \in Head(l2.found).is :
                          l2'.rsp = {[tag |-> Head(l2.found).tag, ver |-> v, may |-> TRUE]}
         /\ ~Answers => l2'.rsp = walk.rspQ
         /\ Answers \/ Walks(full) => l2.found # <<>>
  <1>1. PICK b \in BOOLEAN : b <=> (Answers \/ Walks(full))
    OBVIOUS
  <1>2. Rest(l2.found, Answers \/ Walks(full)) = Rest(l2.found, b)
    BY <1>1 DEF Rest
  <1>3. PICK x : x = IF look THEN <<[tag |-> Head(l2.queue), is |-> tlb.cache]>> ELSE <<>>
    OBVIOUS
  <1>4. /\ l2'.queue = Rest(l2.queue, look) \o AsSeq(dedup.out)
        /\ l2'.found = Rest(l2.found, Answers \/ Walks(full)) \o x
    <2>1. PICK v : l2' = [queue |-> Rest(l2.queue, look) \o AsSeq(dedup.out),
                          found |-> Rest(l2.found, Answers \/ Walks(full)) \o x,
                          rsp   |-> v]
      BY <1>3 DEF NextL2, Answers
    <2> QED BY <2>1
  <1>5. l2'.found = Rest(l2.found, b) \o x
    BY <1>2, <1>4
  <1>6. Answers \/ Walks(full) => l2.found # <<>>
    BY DEF Answers, Hit, Missed, Walks
  <1>7. (look => Head(l2.queue) \in Tag /\ Head(l2.queue) \in Range(l2.queue)) /\ tlb.cache \subseteq Version
    <2>1. l2.queue \in Seq(Tag) /\ tlb.cache \subseteq Version
      BY DEF TypeOK
    <2>2. look => Len(l2.queue) \in Nat \ {0} /\ Head(l2.queue) = l2.queue[1]
      BY <2>1
    <2> QED BY <2>1, <2>2 DEF Range
  <1>8. x \in Seq(Found) /\ IsInjective(TagsOf(x))
        /\ (look => Range(TagsOf(x)) = {Head(l2.queue)}) /\ (~look => Range(TagsOf(x)) = {})
    <2>1. CASE look
      <3>1. [tag |-> Head(l2.queue), is |-> tlb.cache] \in Found
        BY <1>7, <2>1 DEF Found
      <3>2. \A e \in Found : e.tag \in Tag
        BY DEF Found
      <3>3. PICK r \in Found : r = [tag |-> Head(l2.queue), is |-> tlb.cache]
        BY <3>1
      <3>4. <<r>> \in Seq(Found) /\ Range(TagsOf(<<r>>)) = {r.tag} /\ IsInjective(TagsOf(<<r>>))
        BY <3>2, OneTagged
      <3>5. x = <<r>> /\ r.tag = Head(l2.queue)
        BY <1>3, <2>1, <3>3
      <3> QED BY <2>1, <3>4, <3>5
    <2>2. CASE ~look
      <3>1. x = <<>>
        BY <1>3, <2>2
      <3>2. x \in Seq(Found)
        BY <3>1
      <3> QED BY <2>2, <3>1, <3>2, NoneTagged
    <2> QED BY <2>1, <2>2
  <1>9. /\ l2'.queue \in Seq(Tag) /\ IsInjective(l2'.queue)
        /\ \A t \in Tag : t \in Range(l2'.queue) <=>
              (t \in Range(l2.queue) /\ ~(look /\ t = Head(l2.queue))) \/ t \in dedup.out
    <2>1. PICK y : y = AsSeq(dedup.out)
      OBVIOUS
    <2>2. y \in Seq(Tag) /\ Range(y) = dedup.out /\ IsInjective(y) /\ dedup.out \subseteq Tag
      <3>1. dedup.out \in Opt(Tag)
        BY DEF TypeOK
      <3> QED BY <2>1, <3>1, OneAtMost
    <2>3. Range(l2.queue) \intersect Range(y) = {}
      <3> SUFFICES ASSUME NEW t \in Tag, t \in Range(l2.queue), t \in dedup.out
                   PROVE  FALSE
        BY <2>2
      <3> QED BY DEF Apart, Here
    <2>4. l2.queue \in Seq(Tag) /\ IsInjective(l2.queue)
      BY DEF TypeOK, Apart
    <2> QED BY <1>4, <2>1, <2>2, <2>3, <2>4, TagQueue
  <1>10. Range(TagsOf(l2.found)) \intersect Range(TagsOf(x)) = {}
    <2>1. CASE look
      <3>1. Head(l2.queue) \notin Range(TagsOf(l2.found))
        BY <1>7, <2>1 DEF Apart, Here
      <3> QED BY <1>8, <2>1, <3>1
    <2>2. CASE ~look
      BY <1>8, <2>2
    <2> QED BY <2>1, <2>2
  <1>11. l2.found \in Seq(Found) /\ IsInjective(TagsOf(l2.found)) /\ \A e \in Found : e.tag \in Tag
    BY DEF TypeOK, Apart, Found
  <1>12. b => l2.found # <<>>
    BY <1>1, <1>6
  <1>13. PICK f : /\ f = Rest(l2.found, b) \o x
                  /\ f \in Seq(Found)
                  /\ IsInjective(TagsOf(f))
                  /\ \A e : e \in Range(TagsOf(f)) <=>
                        (e \in Range(TagsOf(l2.found)) /\ ~(b /\ e = Head(l2.found).tag)) \/ e \in Range(TagsOf(x))
                  /\ Mixes(f, l2.found, x)
    <2>1. /\ Rest(l2.found, b) \o x \in Seq(Found)
          /\ IsInjective(TagsOf(Rest(l2.found, b) \o x))
          /\ \A e : e \in Range(TagsOf(Rest(l2.found, b) \o x)) <=>
                (e \in Range(TagsOf(l2.found)) /\ ~(b /\ e = Head(l2.found).tag)) \/ e \in Range(TagsOf(x))
          /\ Mixes(Rest(l2.found, b) \o x, l2.found, x)
      BY <1>8, <1>10, <1>11, <1>12, TaggedQueue
    <2> QED BY <2>1
  <1>14. \A t \in Tag : t \in Range(TagsOf(f)) <=>
            \/ t \in Range(TagsOf(l2.found)) /\ ~((Answers \/ Walks(full)) /\ t = Head(l2.found).tag)
            \/ look /\ t = Head(l2.queue)
    BY <1>1, <1>8, <1>13
  <1>15. \A k \in DOMAIN x : look /\ x[k] = [tag |-> Head(l2.queue), is |-> tlb.cache]
    BY <1>3
  <1>16. Answers => \E v \in Head(l2.found).is :
                       l2'.rsp = {[tag |-> Head(l2.found).tag, ver |-> v, may |-> TRUE]}
    BY DEF NextL2, Answers
  <1>17. ~Answers => l2'.rsp = walk.rspQ
    BY DEF NextL2, Answers
  <1> QED BY <1>5, <1>6, <1>9, <1>13, <1>14, <1>15, <1>16, <1>17 DEF Mixes

\* The walker takes a request from its queue.
Starts == walk.queue # <<>> /\ walk.st = "idle" /\ walk.req = {}

LEMMA WalkMoves ==
  ASSUME TypeOK, Apart, NEW wait \in BOOLEAN, NEW full \in BOOLEAN, NextWalk(wait, full)
  PROVE  /\ walk'.queue \in Seq(Tag) /\ IsInjective(walk'.queue)
         /\ \A t \in Tag : t \in Range(walk'.queue) <=>
               \/ t \in Range(walk.queue) /\ ~(Starts /\ t = Head(walk.queue))
               \/ Walks(full) /\ t = Head(l2.found).tag
         /\ \A t \in Tag : t \in walk'.req <=> Starts /\ t = Head(walk.queue)
         /\ \A t \in Tag : (walk'.st # "idle" /\ t = walk'.tag) <=>
               t \in walk.req \/ (walk.st # "idle" /\ walk.st # "done" /\ t = walk.tag)
         /\ \A t \in Tag : t \in Tags(walk'.en) <=> walk.st = "done" /\ t = walk.tag
         /\ \A t \in Tag : t \in Tags(walk'.rsp) <=> t \in Tags(walk.en)
         /\ \A t \in Tag : t \in Tags(walk'.rspQ) <=> t \in Tags(walk.rsp)
         /\ walk'.req # {} => walk'.st = "idle"
         /\ Starts => Head(walk.queue) \in Tag /\ Head(walk.queue) \in Range(walk.queue)
  <1>1. PICK b \in BOOLEAN : b <=> Starts
    OBVIOUS
  <1>2. Rest(walk.queue, Starts) = Rest(walk.queue, b)
    BY <1>1 DEF Rest
  <1>3. PICK x : x = IF Walks(full) THEN <<Head(l2.found).tag>> ELSE <<>>
    OBVIOUS
  <1>4. /\ walk'.queue = Rest(walk.queue, Starts) \o x
        /\ walk'.req = IF Starts THEN {Head(walk.queue)} ELSE {}
        /\ walk'.st = NextState(wait)
        /\ walk'.tag = IF walk.st = "idle" /\ walk.req # {} THEN The(walk.req) ELSE walk.tag
        /\ walk'.en = IF walk.st = "done" THEN {[tag |-> walk.tag, ver |-> walk.ver]} ELSE {}
        /\ walk'.rsp = {[tag |-> e.tag, ver |-> e.ver, may |-> walk.cacheable] : e \in walk.en}
        /\ walk'.rspQ = walk.rsp
    BY <1>3 DEF NextWalk, Starts
  <1>5. Walks(full) => Head(l2.found).tag \in Tag /\ Head(l2.found).tag \in Range(TagsOf(l2.found))
    <2> SUFFICES ASSUME Walks(full)
                 PROVE  Head(l2.found).tag \in Tag /\ Head(l2.found).tag \in Range(TagsOf(l2.found))
      OBVIOUS
    <2>1. l2.found \in Seq(Found) /\ l2.found # <<>> /\ \A e \in Found : e.tag \in Tag
      BY DEF TypeOK, Missed, Walks, Found
    <2>2. TagsOf(l2.found) \in Seq(Tag) /\ TagsOf(l2.found) # <<>> /\ Head(TagsOf(l2.found)) = Head(l2.found).tag
      BY <2>1, Tagged
    <2>3. \A y \in Seq(Tag) : y # <<>> => Head(y) \in Tag /\ Head(y) \in Range(y)
      BY DEF Range
    <2> QED BY <2>2, <2>3
  <1>6. /\ x \in Seq(Tag) /\ IsInjective(x)
        /\ (Walks(full) => Range(x) = {Head(l2.found).tag}) /\ (~Walks(full) => Range(x) = {})
    <2>1. CASE Walks(full)
      <3>1. PICK u \in Tag : u = Head(l2.found).tag
        BY <1>5, <2>1
      <3>2. x = <<u>>
        BY <1>3, <2>1, <3>1
      <3>3. x \in Seq(Tag) /\ DOMAIN x = {1} /\ x[1] = u
        BY <3>2
      <3> QED BY <2>1, <3>1, <3>3 DEF Range, IsInjective
    <2>2. CASE ~Walks(full)
      <3>1. x = <<>>
        BY <1>3, <2>2
      <3>2. x \in Seq(Tag)
        BY <3>1
      <3> QED BY <2>2, <3>1, <3>2, NoneTagged
    <2> QED BY <2>1, <2>2
  <1>7. Range(walk.queue) \intersect Range(x) = {}
    <2>1. CASE Walks(full)
      <3>1. Head(l2.found).tag \notin Range(walk.queue)
        BY <1>5, <2>1 DEF Apart, Here
      <3> QED BY <1>6, <2>1, <3>1
    <2>2. CASE ~Walks(full)
      BY <1>6, <2>2
    <2> QED BY <2>1, <2>2
  <1>8. walk.queue \in Seq(Tag) /\ IsInjective(walk.queue)
    BY DEF TypeOK, Apart
  <1>9. b => walk.queue # <<>>
    BY <1>1 DEF Starts
  <1>10. /\ Rest(walk.queue, b) \o x \in Seq(Tag)
         /\ IsInjective(Rest(walk.queue, b) \o x)
         /\ \A e : e \in Range(Rest(walk.queue, b) \o x) <=>
               (e \in Range(walk.queue) /\ ~(b /\ e = Head(walk.queue))) \/ e \in Range(x)
    BY <1>6, <1>7, <1>8, <1>9, TagQueue
  <1>11. Rest(walk.queue, b) \o x = walk'.queue
    BY <1>2, <1>4
  <1>12. \A t \in Tag : t \in Range(walk'.queue) <=>
            \/ t \in Range(walk.queue) /\ ~(Starts /\ t = Head(walk.queue))
            \/ Walks(full) /\ t = Head(l2.found).tag
    BY <1>1, <1>6, <1>10, <1>11
  <1>13. Starts => Head(walk.queue) \in Tag /\ Head(walk.queue) \in Range(walk.queue)
    <2>1. \A y \in Seq(Tag) : y # <<>> => Head(y) \in Tag /\ Head(y) \in Range(y)
      BY DEF Range
    <2> QED BY <1>8, <2>1 DEF Starts
  <1>14. \A t \in Tag : (walk'.st # "idle" /\ t = walk'.tag) <=>
            t \in walk.req \/ (walk.st # "idle" /\ walk.st # "done" /\ t = walk.tag)
    <2>1. walk.req # {} => walk.st = "idle"
      BY DEF Apart
    <2>2. walk.st \in WalkStates
      BY DEF TypeOK
    <2>3. CASE walk.req = {}
      <3>1. walk'.tag = walk.tag
        BY <1>4, <2>3
      <3>2. walk'.st # "idle" <=> walk.st # "idle" /\ walk.st # "done"
        BY <1>4, <2>2, <2>3 DEF NextState, WalkStates
      <3> QED BY <2>3, <3>1, <3>2
    <2>4. CASE walk.req # {}
      <3>1. PICK u \in Tag : walk.req = {u}
        BY <2>4 DEF TypeOK, Opt
      <3>2. walk'.tag = u /\ walk.st = "idle"
        BY <1>4, <2>1, <2>4, <3>1, TheOne
      <3>3. walk'.st = "lookup"
        BY <1>4, <2>4, <3>2 DEF NextState
      <3> QED BY <3>1, <3>2, <3>3
    <2> QED BY <2>3, <2>4
  <1>15. \A t \in Tag : t \in Tags(walk'.en) <=> walk.st = "done" /\ t = walk.tag
    <2>1. CASE walk.st = "done"
      <3>1. walk'.en = {[tag |-> walk.tag, ver |-> walk.ver]}
        BY <1>4, <2>1
      <3> QED BY <2>1, <3>1 DEF Tags
    <2>2. CASE walk.st # "done"
      <3>1. walk'.en = {}
        BY <1>4, <2>2
      <3> QED BY <2>2, <3>1 DEF Tags
    <2> QED BY <2>1, <2>2
  <1>16. \A t \in Tag : t \in Tags(walk'.rsp) <=> t \in Tags(walk.en)
    <2>1. PICK c : c = walk.cacheable
      OBVIOUS
    <2>2. walk'.rsp = {[tag |-> e.tag, ver |-> e.ver, may |-> c] : e \in walk.en}
      BY <1>4, <2>1
    <2>3. \A t : t \in Tags(walk'.rsp) <=> \E r \in walk'.rsp : t = r.tag
      BY DEF Tags
    <2>4. \A t : t \in Tags(walk.en) <=> \E e \in walk.en : t = e.tag
      BY DEF Tags
    <2>5. \A t : (\E r \in walk'.rsp : t = r.tag) <=> \E e \in walk.en : t = e.tag
      <3>1. ASSUME NEW r \in walk'.rsp PROVE \E e \in walk.en : r.tag = e.tag
        <4>1. PICK e \in walk.en : r = [tag |-> e.tag, ver |-> e.ver, may |-> c]
          BY <2>2
        <4> QED BY <4>1
      <3>2. ASSUME NEW e \in walk.en PROVE \E r \in walk'.rsp : r.tag = e.tag
        <4>1. PICK r : r = [tag |-> e.tag, ver |-> e.ver, may |-> c]
          OBVIOUS
        <4>2. r \in walk'.rsp /\ r.tag = e.tag
          BY <2>2, <4>1
        <4> QED BY <4>2
      <3> QED BY <3>1, <3>2
    <2> QED BY <2>3, <2>4, <2>5
  <1>17. \A t \in Tag : t \in Tags(walk'.rspQ) <=> t \in Tags(walk.rsp)
    BY <1>4
  <1>18. \A t \in Tag : t \in walk'.req <=> Starts /\ t = Head(walk.queue)
    BY <1>4
  <1>19. walk'.req # {} => walk'.st = "idle"
    BY <1>4 DEF Starts, NextState
  <1> QED BY <1>10, <1>11, <1>12, <1>13, <1>14, <1>15, <1>16, <1>17, <1>18, <1>19

LEMMA MissMoves ==
  ASSUME TypeOK, Apart, NEW req \in Opt(Tag \ miss.busy), NEW take \in BOOLEAN, take => miss.fifo # <<>>,
         NextMiss(req, take)
  PROVE  /\ miss'.q = req /\ miss'.svc = miss.q
         /\ \A t \in Tag : t \in miss'.busy <=>
               (t \in miss.busy \/ t \in req) /\ ~\E d \in miss.deq : t = d.rsp.tag
         /\ miss'.fifo \in Seq(Rsp) /\ IsInjective(TagsOf(miss'.fifo))
         /\ \A t \in Tag : t \in Range(TagsOf(miss'.fifo)) <=>
               \/ t \in Range(TagsOf(miss.fifo)) /\ ~(take /\ t = Head(miss.fifo).tag)
               \/ \E r \in dedup.rsp : t = r.tag \/ t \in Range(dedup.chain[r.tag])
         /\ Mixes(miss'.fifo, miss.fifo, GivenBack)
         /\ \A t \in Tag : (\E d \in miss'.deq : t = d.rsp.tag) <=> take /\ t = Head(miss.fifo).tag
         /\ take => Head(miss.fifo).tag \in Tag /\ Head(miss.fifo) \in Rsp
  <1>1. /\ miss'.q = req /\ miss'.svc = miss.q
        /\ miss'.busy = (miss.busy \union req) \ {d.rsp.tag : d \in miss.deq}
        /\ miss'.fifo = Rest(miss.fifo, take) \o GivenBack
        /\ miss'.deq = IF take THEN {[rsp |-> Head(miss.fifo), ok |-> Head(miss.fifo).tag \in miss.ok]}
                       ELSE {}
    BY DEF NextMiss
  <1>2. PICK g : g = GivenBack
    OBVIOUS
  <1>3. /\ g \in Seq(Rsp) /\ IsInjective(TagsOf(g))
        /\ \A t \in Tag : t \in Range(TagsOf(g)) <=>
              \E r \in dedup.rsp : t = r.tag \/ t \in Range(dedup.chain[r.tag])
    BY <1>2, Given
  <1>4. miss.fifo \in Seq(Rsp) /\ IsInjective(TagsOf(miss.fifo)) /\ \A e \in Rsp : e.tag \in Tag
    BY DEF TypeOK, Apart, Rsp
  <1>5. Range(TagsOf(miss.fifo)) \intersect Range(TagsOf(g)) = {}
    <2>1. Range(TagsOf(miss.fifo)) \subseteq Tag /\ TagsOf(g) \in Seq(Tag)
      <3>1. TagsOf(miss.fifo) \in Seq(Tag) /\ TagsOf(g) \in Seq(Tag)
        BY <1>3, <1>4, Tagged
      <3> QED BY <3>1 DEF Range
    <2> SUFFICES ASSUME NEW t \in Tag, t \in Range(TagsOf(miss.fifo)), t \in Range(TagsOf(g))
                 PROVE  FALSE
      BY <2>1
    <2>2. PICK r \in dedup.rsp : t = r.tag \/ t \in Range(dedup.chain[r.tag])
      BY <1>3
    <2>3. r.tag \in Tag /\ r.tag \in Tags(dedup.rsp)
      <3>1. dedup.rsp \subseteq Rsp
        BY DEF TypeOK, Opt
      <3>2. r.tag \in Tag
        BY <3>1 DEF Rsp
      <3> QED BY <3>2 DEF Tags
    <2>4. PICK n \in 0 .. 17 : Here(t, n)
      BY DEF Apart
    <2>5. n = 15
      BY <2>4 DEF Here
    <2>6. t \notin Tags(dedup.rsp) /\ ~Shares(t)
      BY <2>4, <2>5 DEF Here
    <2> QED BY <2>2, <2>3, <2>6 DEF Shares, IsBelow
  <1>6. /\ Rest(miss.fifo, take) \o g \in Seq(Rsp)
        /\ IsInjective(TagsOf(Rest(miss.fifo, take) \o g))
        /\ \A e : e \in Range(TagsOf(Rest(miss.fifo, take) \o g)) <=>
              (e \in Range(TagsOf(miss.fifo)) /\ ~(take /\ e = Head(miss.fifo).tag)) \/ e \in Range(TagsOf(g))
        /\ Mixes(Rest(miss.fifo, take) \o g, miss.fifo, g)
    BY <1>3, <1>4, <1>5, TaggedQueue
  <1>7. miss'.fifo = Rest(miss.fifo, take) \o g
    BY <1>1, <1>2
  <1>8. \A t \in Tag : t \in Range(TagsOf(miss'.fifo)) <=>
               \/ t \in Range(TagsOf(miss.fifo)) /\ ~(take /\ t = Head(miss.fifo).tag)
               \/ \E r \in dedup.rsp : t = r.tag \/ t \in Range(dedup.chain[r.tag])
    BY <1>3, <1>6, <1>7
  <1>9. take => Head(miss.fifo).tag \in Tag /\ Head(miss.fifo) \in Rsp
    <2>1. \A y \in Seq(Rsp) : y # <<>> => Head(y) \in Rsp
      OBVIOUS
    <2> QED BY <1>4, <2>1
  <1>10. \A t \in Tag : (\E d \in miss'.deq : t = d.rsp.tag) <=> take /\ t = Head(miss.fifo).tag
    <2>1. CASE take
      <3>1. PICK b : b = (Head(miss.fifo).tag \in miss.ok)
        OBVIOUS
      <3>2. miss'.deq = {[rsp |-> Head(miss.fifo), ok |-> b]}
        BY <1>1, <2>1, <3>1
      <3> QED BY <2>1, <3>2
    <2>2. CASE ~take
      BY <1>1, <2>2
    <2> QED BY <2>1, <2>2
  <1>11. \A t \in Tag : t \in miss'.busy <=>
               (t \in miss.busy \/ t \in req) /\ ~\E d \in miss.deq : t = d.rsp.tag
    BY <1>1
  <1> QED BY <1>1, <1>2, <1>6, <1>7, <1>8, <1>9, <1>10, <1>11

\* A request of the page is a duplicate or is passed on.
LEMMA OwnSplit ==
  ASSUME NEW next
  PROVE  /\ Own(next) <=> IsDup(next) \/ IsBase(next)
         /\ ~(IsDup(next) /\ IsBase(next))
         /\ IsDup(next) => dedup.cur # {}
  BY DEF Own, IsDup, IsBase

\* A cycle: what is chosen in it may be.
Chosen(req, take, next, look, full, other, wait) ==
    /\ req \in Opt(Tag \ miss.busy)
    /\ take \in BOOLEAN /\ next \in Takes /\ look \in BOOLEAN /\ full \in BOOLEAN /\ other \in BOOLEAN
    /\ wait \in BOOLEAN
    /\ take => miss.fifo # <<>>
    /\ Own(next) => dedup.fifo # <<>>
    /\ look => l2.queue # <<>>
    /\ other => tlb.st = "idle" /\ tlb.fe = {} /\ tlb.wr = {}
    /\ wait => walk.st \in {"read", "sent", "sampled"}
    /\ Cycle(req, take, next, look, full, other, wait)

\* Requests come below the filter when it passes them on, and leave it with the answer.
LEMMA BelowMoves ==
  ASSUME TypeOK, Apart, NEW req, NEW take, NEW next, NEW look, NEW full, NEW other, NEW wait,
         Chosen(req, take, next, look, full, other, wait), NEW t \in Tag
  PROVE  IsBelow(t)' <=> \/ IsBelow(t) /\ t \notin Tags(dedup.rsp)
                         \/ IsBase(next) /\ t = Head(dedup.fifo)
  <1>1. /\ t \in Range(l2'.queue) <=>
              (t \in Range(l2.queue) /\ ~(look /\ t = Head(l2.queue))) \/ t \in dedup.out
        /\ t \in Range(TagsOf(l2'.found)) <=>
              \/ t \in Range(TagsOf(l2.found)) /\ ~((Answers \/ Walks(full)) /\ t = Head(l2.found).tag)
              \/ look /\ t = Head(l2.queue)
        /\ Answers => \E v \in Head(l2.found).is :
                         l2'.rsp = {[tag |-> Head(l2.found).tag, ver |-> v, may |-> TRUE]}
        /\ ~Answers => l2'.rsp = walk.rspQ
        /\ Answers \/ Walks(full) => l2.found # <<>>
    BY L2Moves DEF Chosen, Cycle
  <1>2. /\ t \in Range(walk'.queue) <=>
              \/ t \in Range(walk.queue) /\ ~(Starts /\ t = Head(walk.queue))
              \/ Walks(full) /\ t = Head(l2.found).tag
        /\ t \in walk'.req <=> Starts /\ t = Head(walk.queue)
        /\ (walk'.st # "idle" /\ t = walk'.tag) <=>
              t \in walk.req \/ (walk.st # "idle" /\ walk.st # "done" /\ t = walk.tag)
        /\ t \in Tags(walk'.en) <=> walk.st = "done" /\ t = walk.tag
        /\ t \in Tags(walk'.rsp) <=> t \in Tags(walk.en)
        /\ t \in Tags(walk'.rspQ) <=> t \in Tags(walk.rsp)
        /\ Starts => Head(walk.queue) \in Tag /\ Head(walk.queue) \in Range(walk.queue)
    BY WalkMoves DEF Chosen, Cycle
  <1>3. t \in Tags(l2'.rsp) <=> (Answers /\ t = Head(l2.found).tag) \/ t \in Tags(walk.rspQ)
    <2>1. CASE Answers
      <3>1. t \notin Tags(walk.rspQ)
        BY <2>1 DEF Answers, Tags
      <3>2. PICK v : l2'.rsp = {[tag |-> Head(l2.found).tag, ver |-> v, may |-> TRUE]}
        BY <1>1, <2>1
      <3>3. t \in Tags(l2'.rsp) <=> t = Head(l2.found).tag
        BY <3>2 DEF Tags
      <3> QED BY <2>1, <3>1, <3>3
    <2>2. CASE ~Answers
      BY <1>1, <2>2
    <2> QED BY <2>1, <2>2
  <1>4. t \in dedup'.out <=> IsBase(next) /\ t = Head(dedup.fifo)
    BY DEF Chosen, Cycle, NextDedup
  <1>5. t \in Tags(dedup'.rsp) <=> t \in Tags(l2.rsp)
    BY DEF Chosen, Cycle, NextDedup
  <1>6. (Answers \/ Walks(full)) /\ t = Head(l2.found).tag => t \in Range(TagsOf(l2.found))
    <2>1. \A y \in Seq(Tag) : y # <<>> => Head(y) \in Tag /\ Head(y) \in Range(y)
      BY DEF Range
    <2>2. l2.found \in Seq(Found) /\ \A e \in Found : e.tag \in Tag
      BY DEF TypeOK, Found
    <2> QED BY <1>1, <2>1, <2>2, Tagged
  <1>7. look /\ t = Head(l2.queue) => t \in Range(l2.queue)
    <2>1. \A y \in Seq(Tag) : y # <<>> => Head(y) \in Tag /\ Head(y) \in Range(y)
      BY DEF Range
    <2>2. l2.queue \in Seq(Tag)
      BY DEF TypeOK
    <2> QED BY <2>1, <2>2 DEF Chosen
  <1>8. PICK n \in 0 .. 17 : Here(t, n)
    BY DEF Apart
  <1>9. walk.st = "idle" \/ walk.st # "done" \/ t # walk.tag \/ n = 9
    BY <1>8 DEF Here
  <1>10. IsBelow(t)' <=>
            \/ t \in dedup'.out \/ t \in Range(l2'.queue) \/ t \in Range(TagsOf(l2'.found))
            \/ t \in Range(walk'.queue) \/ t \in walk'.req \/ (walk'.st # "idle" /\ t = walk'.tag)
            \/ t \in Tags(walk'.en) \/ t \in Tags(walk'.rsp) \/ t \in Tags(walk'.rspQ)
            \/ t \in Tags(l2'.rsp) \/ t \in Tags(dedup'.rsp)
    BY DEF IsBelow
  <1>11. Answers => ~Walks(full)
    BY DEF Answers, Hit, Missed, Walks
  <1>12. t \in Tags(dedup.rsp) <=> n = 14
    BY <1>8 DEF Here
  <1>13. IsBelow(t) <=> n \in 4 .. 14
    BY <1>8 DEF IsBelow, Here
  <1> QED BY <1>1, <1>2, <1>3, <1>4, <1>5, <1>6, <1>7, <1>8, <1>10, <1>11, <1>13 DEF Here

\* A duplicate that joins a request, and the request that is passed on.
Joins(next, t)  == IsDup(next) /\ t = The(dedup.cur)
Passes(next, t) == IsBase(next) /\ t = Head(dedup.fifo)

LEMMA ChainMoves ==
  ASSUME TypeOK, Apart, NEW req, NEW take, NEW next, NEW look, NEW full, NEW other, NEW wait,
         Chosen(req, take, next, look, full, other, wait)
  PROVE  /\ Own(next) => Head(dedup.fifo) \in Tag /\ Head(dedup.fifo) \in Range(dedup.fifo)
         /\ dedup.cur # {} => /\ The(dedup.cur) \in Tag /\ dedup.cur = {The(dedup.cur)}
                              /\ IsBelow(The(dedup.cur)) /\ The(dedup.cur) \notin Tags(dedup.rsp)
         /\ dedup'.chain \in [Tag -> Seq(Tag)]
         /\ \A t \in Tag :
               dedup'.chain[t] = IF Joins(next, t) THEN Append(dedup.chain[t], Head(dedup.fifo))
                                 ELSE IF Passes(next, t) THEN <<>> ELSE dedup.chain[t]
  <1>1. Own(next) => Head(dedup.fifo) \in Tag /\ Head(dedup.fifo) \in Range(dedup.fifo)
    <2>1. \A y \in Seq(Tag) : y # <<>> => Head(y) \in Tag /\ Head(y) \in Range(y)
      BY DEF Range
    <2> QED BY <2>1 DEF TypeOK, Chosen
  <1>2. dedup.cur # {} => /\ The(dedup.cur) \in Tag /\ dedup.cur = {The(dedup.cur)}
                          /\ IsBelow(The(dedup.cur)) /\ The(dedup.cur) \notin Tags(dedup.rsp)
    <2>1. dedup.cur \in Opt(Tag)
      BY DEF TypeOK
    <2>2. dedup.cur # {} => The(dedup.cur) \in Tag /\ dedup.cur = {The(dedup.cur)}
      BY <2>1, OneAtMost
    <2>3. dedup.cur # {} => The(dedup.cur) \in dedup.cur
      BY <2>2
    <2> QED BY <2>2, <2>3 DEF Apart
  <1>3. dedup'.chain = Chain(next)
    BY DEF Chosen, Cycle, NextDedup
  <1>4. PICK ch : ch = dedup.chain
    OBVIOUS
  <1>5. ch \in [Tag -> Seq(Tag)]
    BY <1>4 DEF TypeOK
  <1>9. /\ Own(next) <=> IsDup(next) \/ IsBase(next)
        /\ ~(IsDup(next) /\ IsBase(next))
        /\ IsDup(next) => dedup.cur # {}
    BY OwnSplit
  <1>6. CASE ~Own(next)
    <2>1. dedup'.chain = ch
      BY <1>3, <1>4, <1>6, <1>9 DEF Chain
    <2> QED BY <1>1, <1>2, <1>4, <1>5, <1>6, <1>9, <2>1 DEF Joins, Passes
  <1>7. CASE IsDup(next)
    <2>1. PICK c \in Tag, h \in Tag : c = The(dedup.cur) /\ h = Head(dedup.fifo)
      BY <1>1, <1>2, <1>7, <1>9
    <2>2. dedup'.chain = [ch EXCEPT ![c] = Append(@, h)]
      BY <1>3, <1>4, <1>7, <2>1 DEF Chain
    <2>3. Append(ch[c], h) \in Seq(Tag)
      BY <1>5
    <2>4. dedup'.chain \in [Tag -> Seq(Tag)] /\ \A t \in Tag : dedup'.chain[t] = IF t = c THEN Append(ch[t], h) ELSE ch[t]
      BY <1>5, <2>2, <2>3
    <2> QED BY <1>1, <1>2, <1>4, <1>7, <1>9, <2>1, <2>4 DEF Joins, Passes
  <1>8. CASE IsBase(next)
    <2>1. PICK h \in Tag : h = Head(dedup.fifo)
      BY <1>1, <1>8, <1>9
    <2>2. dedup'.chain = [ch EXCEPT ![h] = <<>>]
      BY <1>3, <1>4, <1>8, <1>9, <2>1 DEF Chain
    <2>3. <<>> \in Seq(Tag)
      OBVIOUS
    <2>4. dedup'.chain \in [Tag -> Seq(Tag)] /\ \A t \in Tag : dedup'.chain[t] = IF t = h THEN <<>> ELSE ch[t]
      BY <1>5, <2>2, <2>3
    <2> QED BY <1>1, <1>2, <1>4, <1>8, <1>9, <2>1, <2>4 DEF Joins, Passes
  <1> QED BY <1>6, <1>7, <1>8, <1>9

LEMMA Appended ==
  ASSUME NEW s \in Seq(Tag), NEW h \in Tag
  PROVE  /\ Append(s, h) \in Seq(Tag)
         /\ \A e : e \in Range(Append(s, h)) <=> e \in Range(s) \/ e = h
         /\ IsInjective(s) /\ h \notin Range(s) => IsInjective(Append(s, h))
  <1>1. PICK n \in Nat : n = Len(s)
    OBVIOUS
  <1>2. PICK r : r = Append(s, h)
    OBVIOUS
  <1>3. r \in Seq(Tag) /\ DOMAIN r = 1 .. n + 1 /\ r[n + 1] = h /\ DOMAIN s = 1 .. n /\ \A i \in 1 .. n : r[i] = s[i]
    BY <1>1, <1>2
  <1>4. \A i \in 1 .. n + 1 : i = n + 1 \/ i \in 1 .. n
    OBVIOUS
  <1>5. \A i \in 1 .. n : i \in 1 .. n + 1
    OBVIOUS
  <1>6. n + 1 \in 1 .. n + 1
    OBVIOUS
  <1>7. \A e : e \in Range(r) <=> e \in Range(s) \/ e = h
    BY <1>3, <1>4, <1>5, <1>6 DEF Range
  <1>8. ASSUME IsInjective(s), h \notin Range(s)
        PROVE  IsInjective(r)
    <2>1. \A i, j \in 1 .. n : s[i] = s[j] => i = j
      BY <1>3, <1>8 DEF IsInjective
    <2>2. \A i \in 1 .. n : s[i] # h
      BY <1>3, <1>8 DEF Range
    <2>3. \A i, j \in 1 .. n + 1 : r[i] = r[j] => i = j
      BY <1>3, <1>4, <2>1, <2>2
    <2> QED BY <1>3, <2>3 DEF IsInjective
  <1> QED BY <1>2, <1>3, <1>7, <1>8

\* Who shares an answer after a cycle.
LEMMA ShareMoves ==
  ASSUME TypeOK, Apart, NEW req, NEW take, NEW next, NEW look, NEW full, NEW other, NEW wait,
         Chosen(req, take, next, look, full, other, wait)
  PROVE  /\ \A t \in Tag : Shares(t)' <=>
               \/ Shares(t) /\ ~\E r \in dedup.rsp : t \in Range(dedup.chain[r.tag])
               \/ IsDup(next) /\ t = Head(dedup.fifo)
         /\ \A t \in Tag : IsBelow(t)' => IsInjective(dedup'.chain[t])
         /\ \A t, u, e \in Tag : /\ IsBelow(t)' /\ IsBelow(u)'
                                 /\ e \in Range(dedup'.chain[t]) /\ e \in Range(dedup'.chain[u])
                                 => t = u
         /\ \A t \in Tag : IsBelow(t)' =>
               /\ \A e \in Tag : e \in Range(dedup'.chain[t]) <=>
                     \/ ~Passes(next, t) /\ e \in Range(dedup.chain[t])
                     \/ Joins(next, t) /\ e = Head(dedup.fifo)
               /\ ~Passes(next, t) => IsBelow(t)
  <1>1. \A t \in Tag : IsBelow(t)' <=> (IsBelow(t) /\ t \notin Tags(dedup.rsp)) \/ Passes(next, t)
    BY BelowMoves DEF Passes
  <1>2. /\ Own(next) => Head(dedup.fifo) \in Tag /\ Head(dedup.fifo) \in Range(dedup.fifo)
        /\ dedup.cur # {} => /\ The(dedup.cur) \in Tag
                             /\ IsBelow(The(dedup.cur)) /\ The(dedup.cur) \notin Tags(dedup.rsp)
        /\ \A t \in Tag :
              dedup'.chain[t] = IF Joins(next, t) THEN Append(dedup.chain[t], Head(dedup.fifo))
                                ELSE IF Passes(next, t) THEN <<>> ELSE dedup.chain[t]
    BY ChainMoves
  <1>3. Own(next) => ~IsBelow(Head(dedup.fifo)) /\ ~Shares(Head(dedup.fifo))
    BY <1>2 DEF Apart, Here, IsBelow
  <1>4. \A t \in Tag : dedup.chain[t] \in Seq(Tag)
    BY DEF TypeOK
  <1>9. /\ Own(next) <=> IsDup(next) \/ IsBase(next)
        /\ ~(IsDup(next) /\ IsBase(next))
        /\ IsDup(next) => dedup.cur # {}
    BY OwnSplit
  <1>5. \A t, e \in Tag : IsBelow(t) /\ e \in Range(dedup.chain[t]) => Shares(e)
    BY DEF Shares
  <1>6. ASSUME NEW t \in Tag, IsBelow(t)'
        PROVE  /\ IsInjective(dedup'.chain[t])
               /\ \A e \in Tag : e \in Range(dedup'.chain[t]) <=>
                     \/ ~Passes(next, t) /\ e \in Range(dedup.chain[t])
                     \/ Joins(next, t) /\ e = Head(dedup.fifo)
               /\ ~Passes(next, t) => IsBelow(t) /\ t \notin Tags(dedup.rsp)
    <2>1. CASE Passes(next, t)
      <3>1. dedup'.chain[t] = <<>> /\ ~Joins(next, t)
        BY <1>2, <1>9, <2>1 DEF Passes, Joins
      <3> QED BY <2>1, <3>1, NoneTagged
    <2>2. CASE Joins(next, t)
      <3>1. dedup'.chain[t] = Append(dedup.chain[t], Head(dedup.fifo)) /\ ~Passes(next, t)
        BY <1>2, <1>9, <2>2 DEF Joins, Passes
      <3>2. PICK h \in Tag : h = Head(dedup.fifo)
        BY <1>2, <1>9, <2>2 DEF Joins
      <3>3. IsBelow(t) /\ t \notin Tags(dedup.rsp)
        BY <1>1, <1>6, <3>1
      <3>4. IsInjective(dedup.chain[t]) /\ h \notin Range(dedup.chain[t])
        BY <1>3, <1>5, <1>9, <2>2, <3>2, <3>3 DEF Apart, Joins
      <3>5. /\ \A e : e \in Range(Append(dedup.chain[t], h)) <=> e \in Range(dedup.chain[t]) \/ e = h
            /\ IsInjective(Append(dedup.chain[t], h))
        BY <1>4, <3>4, Appended
      <3> QED BY <2>2, <3>1, <3>2, <3>3, <3>5
    <2>3. CASE ~Passes(next, t) /\ ~Joins(next, t)
      <3>1. dedup'.chain[t] = dedup.chain[t]
        BY <1>2, <2>3
      <3>2. IsBelow(t) /\ t \notin Tags(dedup.rsp)
        BY <1>1, <1>6, <2>3
      <3> QED BY <2>3, <3>1, <3>2 DEF Apart
    <2> QED BY <2>1, <2>2, <2>3
  <1>7. \A t, u, e \in Tag : /\ IsBelow(t)' /\ IsBelow(u)'
                             /\ e \in Range(dedup'.chain[t]) /\ e \in Range(dedup'.chain[u])
                             => t = u
    <2> SUFFICES ASSUME NEW t \in Tag, NEW u \in Tag, NEW e \in Tag, IsBelow(t)', IsBelow(u)',
                        e \in Range(dedup'.chain[t]), e \in Range(dedup'.chain[u])
                 PROVE  t = u
      OBVIOUS
    <2>1. /\ \/ ~Passes(next, t) /\ e \in Range(dedup.chain[t])
             \/ Joins(next, t) /\ e = Head(dedup.fifo)
          /\ ~Passes(next, t) => IsBelow(t)
      BY <1>6
    <2>2. /\ \/ ~Passes(next, u) /\ e \in Range(dedup.chain[u])
             \/ Joins(next, u) /\ e = Head(dedup.fifo)
          /\ ~Passes(next, u) => IsBelow(u)
      BY <1>6
    <2>3. CASE Joins(next, t) /\ Joins(next, u)
      BY <2>3 DEF Joins
    <2>4. CASE ~(Joins(next, t) /\ e = Head(dedup.fifo)) /\ ~(Joins(next, u) /\ e = Head(dedup.fifo))
      BY <2>1, <2>2, <2>4 DEF Apart
    <2>5. CASE /\ (Joins(next, t) /\ e = Head(dedup.fifo)) \/ (Joins(next, u) /\ e = Head(dedup.fifo))
               /\ ~(Joins(next, t) /\ Joins(next, u))
      <3>1. Own(next) /\ e = Head(dedup.fifo) /\ Shares(e)
        BY <1>5, <1>9, <2>1, <2>2, <2>5 DEF Joins, Passes
      <3> QED BY <1>3, <3>1
    <2> QED BY <2>3, <2>4, <2>5
  <1>8. ASSUME NEW t \in Tag
        PROVE  Shares(t)' <=> \/ Shares(t) /\ ~\E r \in dedup.rsp : t \in Range(dedup.chain[r.tag])
                              \/ IsDup(next) /\ t = Head(dedup.fifo)
    <2>1. Shares(t)' <=> \E u \in Tag : IsBelow(u)' /\ t \in Range(dedup'.chain[u])
      BY DEF Shares
    <2>2. \A r \in dedup.rsp : r.tag \in Tag /\ r.tag \in Tags(dedup.rsp) /\ IsBelow(r.tag)
      <3> SUFFICES ASSUME NEW r \in dedup.rsp
                   PROVE  r.tag \in Tag /\ r.tag \in Tags(dedup.rsp) /\ IsBelow(r.tag)
        OBVIOUS
      <3>1. dedup.rsp \subseteq Rsp
        BY DEF TypeOK, Opt
      <3>2. r.tag \in Tag
        BY <3>1 DEF Rsp
      <3> QED BY <3>2 DEF Tags, IsBelow
    <2>3. ASSUME NEW u \in Tag, IsBelow(u)', t \in Range(dedup'.chain[u])
          PROVE  \/ Shares(t) /\ ~\E r \in dedup.rsp : t \in Range(dedup.chain[r.tag])
                 \/ IsDup(next) /\ t = Head(dedup.fifo)
      <3>1. /\ \/ ~Passes(next, u) /\ t \in Range(dedup.chain[u])
               \/ Joins(next, u) /\ t = Head(dedup.fifo)
            /\ ~Passes(next, u) => IsBelow(u) /\ u \notin Tags(dedup.rsp)
        BY <1>6, <2>3
      <3>2. CASE Joins(next, u) /\ t = Head(dedup.fifo)
        BY <3>2 DEF Joins
      <3>3. CASE ~Passes(next, u) /\ t \in Range(dedup.chain[u])
        <4>1. Shares(t)
          BY <1>5, <3>1, <3>3
        <4>2. ASSUME NEW r \in dedup.rsp, t \in Range(dedup.chain[r.tag])
              PROVE  FALSE
          <5>1. r.tag = u
            BY <2>2, <3>1, <3>3, <4>2 DEF Apart
          <5> QED BY <2>2, <3>1, <3>3, <5>1
        <4> QED BY <4>1, <4>2
      <3> QED BY <3>1, <3>2, <3>3
    <2>4. ASSUME Shares(t), ~\E r \in dedup.rsp : t \in Range(dedup.chain[r.tag])
          PROVE  \E u \in Tag : IsBelow(u)' /\ t \in Range(dedup'.chain[u])
      <3>1. PICK u \in Tag : IsBelow(u) /\ t \in Range(dedup.chain[u])
        BY <2>4 DEF Shares
      <3>2. u \notin Tags(dedup.rsp)
        BY <2>4, <3>1 DEF Tags
      <3>3. IsBelow(u)' /\ ~Passes(next, u)
        BY <1>1, <1>3, <1>9, <3>1, <3>2 DEF Passes
      <3> QED BY <1>6, <3>1, <3>3
    <2>5. ASSUME IsDup(next), t = Head(dedup.fifo)
          PROVE  \E u \in Tag : IsBelow(u)' /\ t \in Range(dedup'.chain[u])
      <3>1. PICK u \in Tag : u = The(dedup.cur) /\ IsBelow(u) /\ u \notin Tags(dedup.rsp)
        BY <1>2, <1>9, <2>5
      <3>2. Joins(next, u) /\ IsBelow(u)'
        BY <1>1, <2>5, <3>1 DEF Joins
      <3> QED BY <1>6, <2>5, <3>2
    <2> QED BY <2>1, <2>3, <2>4, <2>5
  <1> QED BY <1>6, <1>7, <1>8

\* A request goes to one place.
LEMMA HereStep ==
  ASSUME TypeOK, Apart, NEW req, NEW take, NEW next, NEW look, NEW full, NEW other, NEW wait,
         Chosen(req, take, next, look, full, other, wait), NEW t \in Tag
  PROVE  \E n \in 0 .. 17 : Here(t, n)'
  <1>1. /\ t \in Range(l2'.queue) <=>
              (t \in Range(l2.queue) /\ ~(look /\ t = Head(l2.queue))) \/ t \in dedup.out
        /\ t \in Range(TagsOf(l2'.found)) <=>
              \/ t \in Range(TagsOf(l2.found)) /\ ~((Answers \/ Walks(full)) /\ t = Head(l2.found).tag)
              \/ look /\ t = Head(l2.queue)
        /\ Answers => \E v \in Head(l2.found).is :
                         l2'.rsp = {[tag |-> Head(l2.found).tag, ver |-> v, may |-> TRUE]}
        /\ ~Answers => l2'.rsp = walk.rspQ
        /\ Answers \/ Walks(full) => l2.found # <<>>
    BY L2Moves DEF Chosen, Cycle
  <1>2. /\ t \in Range(walk'.queue) <=>
              \/ t \in Range(walk.queue) /\ ~(Starts /\ t = Head(walk.queue))
              \/ Walks(full) /\ t = Head(l2.found).tag
        /\ t \in walk'.req <=> Starts /\ t = Head(walk.queue)
        /\ (walk'.st # "idle" /\ t = walk'.tag) <=>
              t \in walk.req \/ (walk.st # "idle" /\ walk.st # "done" /\ t = walk.tag)
        /\ t \in Tags(walk'.en) <=> walk.st = "done" /\ t = walk.tag
        /\ t \in Tags(walk'.rsp) <=> t \in Tags(walk.en)
        /\ t \in Tags(walk'.rspQ) <=> t \in Tags(walk.rsp)
        /\ Starts => Head(walk.queue) \in Tag /\ Head(walk.queue) \in Range(walk.queue)
    BY WalkMoves DEF Chosen, Cycle
  <1>3. /\ t \in Tags(l2'.rsp) <=> (Answers /\ t = Head(l2.found).tag) \/ t \in Tags(walk.rspQ)
        /\ Answers => t \notin Tags(walk.rspQ)
    <2>1. CASE Answers
      <3>1. t \notin Tags(walk.rspQ)
        BY <2>1 DEF Answers, Tags
      <3>2. PICK v : l2'.rsp = {[tag |-> Head(l2.found).tag, ver |-> v, may |-> TRUE]}
        BY <1>1, <2>1
      <3>3. t \in Tags(l2'.rsp) <=> t = Head(l2.found).tag
        BY <3>2 DEF Tags
      <3> QED BY <2>1, <3>1, <3>3
    <2>2. CASE ~Answers
      BY <1>1, <2>2
    <2> QED BY <2>1, <2>2
  <1>4. /\ t \in dedup'.out <=> IsBase(next) /\ t = Head(dedup.fifo)
        /\ t \in Tags(dedup'.rsp) <=> t \in Tags(l2.rsp)
    BY DEF Chosen, Cycle, NextDedup
  <1>5. t \in Range(dedup'.fifo) <=>
           (t \in Range(dedup.fifo) /\ ~(Own(next) /\ t = Head(dedup.fifo))) \/ t \in miss.svc
    BY FifoMoves DEF Chosen, Cycle
  <1>6. /\ t \in miss'.q <=> t \in req
        /\ t \in miss'.svc <=> t \in miss.q
        /\ t \in miss'.busy <=> (t \in miss.busy \/ t \in req) /\ ~\E d \in miss.deq : t = d.rsp.tag
        /\ t \in Range(TagsOf(miss'.fifo)) <=>
              \/ t \in Range(TagsOf(miss.fifo)) /\ ~(take /\ t = Head(miss.fifo).tag)
              \/ t \in Tags(dedup.rsp) \/ \E r \in dedup.rsp : t \in Range(dedup.chain[r.tag])
        /\ (\E d \in miss'.deq : t = d.rsp.tag) <=> take /\ t = Head(miss.fifo).tag
    <2>1. /\ miss'.q = req /\ miss'.svc = miss.q
          /\ t \in miss'.busy <=> (t \in miss.busy \/ t \in req) /\ ~\E d \in miss.deq : t = d.rsp.tag
          /\ t \in Range(TagsOf(miss'.fifo)) <=>
                \/ t \in Range(TagsOf(miss.fifo)) /\ ~(take /\ t = Head(miss.fifo).tag)
                \/ \E r \in dedup.rsp : t = r.tag \/ t \in Range(dedup.chain[r.tag])
          /\ (\E d \in miss'.deq : t = d.rsp.tag) <=> take /\ t = Head(miss.fifo).tag
      BY MissMoves DEF Chosen, Cycle
    <2>2. t \in Tags(dedup.rsp) <=> \E r \in dedup.rsp : t = r.tag
      BY DEF Tags
    <2> QED BY <2>1, <2>2
  <1>7. Shares(t)' <=> \/ Shares(t) /\ ~\E r \in dedup.rsp : t \in Range(dedup.chain[r.tag])
                       \/ IsDup(next) /\ t = Head(dedup.fifo)
    BY ShareMoves
  <1>8. (\E r \in dedup.rsp : t \in Range(dedup.chain[r.tag])) => Shares(t)
    <2>1. \A r \in dedup.rsp : r.tag \in Tag /\ IsBelow(r.tag)
      <3> SUFFICES ASSUME NEW r \in dedup.rsp
                   PROVE  r.tag \in Tag /\ IsBelow(r.tag)
        OBVIOUS
      <3>1. dedup.rsp \subseteq Rsp
        BY DEF TypeOK, Opt
      <3>2. r.tag \in Tag
        BY <3>1 DEF Rsp
      <3> QED BY <3>2 DEF Tags, IsBelow
    <2> QED BY <2>1 DEF Shares
  <1>9. \A y \in Seq(Tag) : y # <<>> => Head(y) \in Tag /\ Head(y) \in Range(y)
    BY DEF Range
  <1>10. (Answers \/ Walks(full)) /\ t = Head(l2.found).tag => t \in Range(TagsOf(l2.found))
    <2>1. l2.found \in Seq(Found) /\ \A e \in Found : e.tag \in Tag
      BY DEF TypeOK, Found
    <2> QED BY <1>1, <1>9, <2>1, Tagged
  <1>11. take /\ t = Head(miss.fifo).tag => t \in Range(TagsOf(miss.fifo))
    <2>1. miss.fifo \in Seq(Rsp) /\ \A e \in Rsp : e.tag \in Tag
      BY DEF TypeOK, Rsp
    <2> QED BY <1>9, <2>1, Tagged DEF Chosen
  <1>12. /\ look /\ t = Head(l2.queue) => t \in Range(l2.queue)
         /\ Own(next) /\ t = Head(dedup.fifo) => t \in Range(dedup.fifo)
    BY <1>9 DEF TypeOK, Chosen
  <1>13. t \in req => t \notin miss.busy
    BY DEF Chosen, Opt
  <1>14. /\ Answers => ~Walks(full)
         /\ Own(next) <=> IsDup(next) \/ IsBase(next)
         /\ ~(IsDup(next) /\ IsBase(next))
    BY OwnSplit DEF Answers, Hit, Missed, Walks
  <1>15. PICK n \in 0 .. 17 : Here(t, n)
    BY DEF Apart
  <1>16. /\ t \in miss.busy <=> n # 0
         /\ t \in miss.q <=> n = 1
         /\ t \in miss.svc <=> n = 2
         /\ t \in Range(dedup.fifo) <=> n = 3
         /\ t \in dedup.out <=> n = 4
         /\ t \in Range(l2.queue) <=> n = 5
         /\ t \in Range(TagsOf(l2.found)) <=> n = 6
         /\ t \in Range(walk.queue) <=> n = 7
         /\ t \in walk.req <=> n = 8
         /\ (walk.st # "idle" /\ t = walk.tag) <=> n = 9
         /\ t \in Tags(walk.en) <=> n = 10
         /\ t \in Tags(walk.rsp) <=> n = 11
         /\ t \in Tags(walk.rspQ) <=> n = 12
         /\ t \in Tags(l2.rsp) <=> n = 13
         /\ t \in Tags(dedup.rsp) <=> n = 14
         /\ t \in Range(TagsOf(miss.fifo)) <=> n = 15
         /\ (\E d \in miss.deq : t = d.rsp.tag) <=> n = 16
         /\ Shares(t) <=> n = 17
    BY <1>15 DEF Here
  <1>17. /\ t \in req => n = 0
         /\ Own(next) /\ t = Head(dedup.fifo) => n = 3
         /\ look /\ t = Head(l2.queue) => n = 5
         /\ Answers /\ t = Head(l2.found).tag => n = 6
         /\ Walks(full) /\ t = Head(l2.found).tag => n = 6
         /\ Starts /\ t = Head(walk.queue) => n = 7
         /\ take /\ t = Head(miss.fifo).tag => n = 15
         /\ (\E r \in dedup.rsp : t \in Range(dedup.chain[r.tag])) => n = 17
    <2>1. t \in req => n = 0
      BY <1>13, <1>16
    <2>2. /\ Own(next) /\ t = Head(dedup.fifo) => n = 3
          /\ look /\ t = Head(l2.queue) => n = 5
      BY <1>12, <1>16
    <2>3. /\ Answers /\ t = Head(l2.found).tag => n = 6
          /\ Walks(full) /\ t = Head(l2.found).tag => n = 6
      BY <1>10, <1>16
    <2>4. Starts /\ t = Head(walk.queue) => n = 7
      BY <1>2, <1>16
    <2>5. take /\ t = Head(miss.fifo).tag => n = 15
      BY <1>11, <1>16
    <2>6. (\E r \in dedup.rsp : t \in Range(dedup.chain[r.tag])) => n = 17
      BY <1>8, <1>16
    <2> QED BY <2>1, <2>2, <2>3, <2>4, <2>5, <2>6
  <1>18. /\ t \in miss'.busy <=> (n # 0 \/ t \in req) /\ n # 16
         /\ t \in miss'.q <=> t \in req
         /\ t \in miss'.svc <=> n = 1
         /\ t \in Range(TagsOf(miss'.fifo)) <=>
               \/ n = 15 /\ ~(take /\ t = Head(miss.fifo).tag)
               \/ n = 14
               \/ \E r \in dedup.rsp : t \in Range(dedup.chain[r.tag])
         /\ (\E d \in miss'.deq : t = d.rsp.tag) <=> take /\ t = Head(miss.fifo).tag
    BY <1>6, <1>16
  <1>19. /\ t \in Range(dedup'.fifo) <=> (n = 3 /\ ~(Own(next) /\ t = Head(dedup.fifo))) \/ n = 2
         /\ t \in dedup'.out <=> IsBase(next) /\ t = Head(dedup.fifo)
         /\ t \in Tags(dedup'.rsp) <=> n = 13
         /\ Shares(t)' <=> \/ n = 17 /\ ~\E r \in dedup.rsp : t \in Range(dedup.chain[r.tag])
                           \/ IsDup(next) /\ t = Head(dedup.fifo)
    BY <1>4, <1>5, <1>7, <1>16
  <1>20. /\ t \in Range(l2'.queue) <=> (n = 5 /\ ~(look /\ t = Head(l2.queue))) \/ n = 4
         /\ t \in Range(TagsOf(l2'.found)) <=>
               \/ n = 6 /\ ~((Answers \/ Walks(full)) /\ t = Head(l2.found).tag)
               \/ look /\ t = Head(l2.queue)
         /\ t \in Tags(l2'.rsp) <=> (Answers /\ t = Head(l2.found).tag) \/ n = 12
    BY <1>1, <1>3, <1>16
  <1>21. /\ t \in Range(walk'.queue) <=>
               \/ n = 7 /\ ~(Starts /\ t = Head(walk.queue))
               \/ Walks(full) /\ t = Head(l2.found).tag
         /\ t \in walk'.req <=> Starts /\ t = Head(walk.queue)
         /\ (walk'.st # "idle" /\ t = walk'.tag) <=> n = 8 \/ (n = 9 /\ walk.st # "done")
         /\ t \in Tags(walk'.en) <=> n = 9 /\ walk.st = "done"
         /\ t \in Tags(walk'.rsp) <=> n = 10
         /\ t \in Tags(walk'.rspQ) <=> n = 11
    BY <1>2, <1>16
  <1>22. CASE n = 0 /\ t \notin req
    <2>1. Here(t, 0)'
      BY <1>14, <1>17, <1>18, <1>19, <1>20, <1>21, <1>22 DEF Here
    <2> QED BY <2>1
  <1>23. CASE n = 0 /\ t \in req
    <2>1. Here(t, 1)'
      BY <1>14, <1>17, <1>18, <1>19, <1>20, <1>21, <1>23 DEF Here
    <2> QED BY <2>1
  <1>24. CASE n = 1
    <2>1. Here(t, 2)'
      BY <1>14, <1>17, <1>18, <1>19, <1>20, <1>21, <1>24 DEF Here
    <2> QED BY <2>1
  <1>25. CASE n = 2
    <2>1. Here(t, 3)'
      BY <1>14, <1>17, <1>18, <1>19, <1>20, <1>21, <1>25 DEF Here
    <2> QED BY <2>1
  <1>26. CASE n = 3 /\ ~(Own(next) /\ t = Head(dedup.fifo))
    <2>1. Here(t, 3)'
      BY <1>14, <1>17, <1>18, <1>19, <1>20, <1>21, <1>26 DEF Here
    <2> QED BY <2>1
  <1>27. CASE n = 3 /\ IsBase(next) /\ t = Head(dedup.fifo)
    <2>1. Here(t, 4)'
      BY <1>14, <1>17, <1>18, <1>19, <1>20, <1>21, <1>27 DEF Here
    <2> QED BY <2>1
  <1>28. CASE n = 3 /\ IsDup(next) /\ t = Head(dedup.fifo)
    <2>1. Here(t, 17)'
      BY <1>14, <1>17, <1>18, <1>19, <1>20, <1>21, <1>28 DEF Here
    <2> QED BY <2>1
  <1>29. CASE n = 4
    <2>1. Here(t, 5)'
      BY <1>14, <1>17, <1>18, <1>19, <1>20, <1>21, <1>29 DEF Here
    <2> QED BY <2>1
  <1>30. CASE n = 5 /\ ~(look /\ t = Head(l2.queue))
    <2>1. Here(t, 5)'
      BY <1>14, <1>17, <1>18, <1>19, <1>20, <1>21, <1>30 DEF Here
    <2> QED BY <2>1
  <1>31. CASE n = 5 /\ look /\ t = Head(l2.queue)
    <2>1. Here(t, 6)'
      BY <1>14, <1>17, <1>18, <1>19, <1>20, <1>21, <1>31 DEF Here
    <2> QED BY <2>1
  <1>32. CASE n = 6 /\ ~((Answers \/ Walks(full)) /\ t = Head(l2.found).tag)
    <2>1. Here(t, 6)'
      BY <1>14, <1>17, <1>18, <1>19, <1>20, <1>21, <1>32 DEF Here
    <2> QED BY <2>1
  <1>33. CASE n = 6 /\ Answers /\ t = Head(l2.found).tag
    <2>1. Here(t, 13)'
      BY <1>14, <1>17, <1>18, <1>19, <1>20, <1>21, <1>33 DEF Here
    <2> QED BY <2>1
  <1>34. CASE n = 6 /\ Walks(full) /\ t = Head(l2.found).tag
    <2>1. Here(t, 7)'
      BY <1>14, <1>17, <1>18, <1>19, <1>20, <1>21, <1>34 DEF Here
    <2> QED BY <2>1
  <1>35. CASE n = 7 /\ ~(Starts /\ t = Head(walk.queue))
    <2>1. Here(t, 7)'
      BY <1>14, <1>17, <1>18, <1>19, <1>20, <1>21, <1>35 DEF Here
    <2> QED BY <2>1
  <1>36. CASE n = 7 /\ Starts /\ t = Head(walk.queue)
    <2>1. Here(t, 8)'
      BY <1>14, <1>17, <1>18, <1>19, <1>20, <1>21, <1>36 DEF Here
    <2> QED BY <2>1
  <1>37. CASE n = 8
    <2>1. Here(t, 9)'
      BY <1>14, <1>17, <1>18, <1>19, <1>20, <1>21, <1>37 DEF Here
    <2> QED BY <2>1
  <1>38. CASE n = 9 /\ walk.st # "done"
    <2>1. Here(t, 9)'
      BY <1>14, <1>17, <1>18, <1>19, <1>20, <1>21, <1>38 DEF Here
    <2> QED BY <2>1
  <1>39. CASE n = 9 /\ walk.st = "done"
    <2>1. Here(t, 10)'
      BY <1>14, <1>17, <1>18, <1>19, <1>20, <1>21, <1>39 DEF Here
    <2> QED BY <2>1
  <1>40. CASE n = 10
    <2>1. Here(t, 11)'
      BY <1>14, <1>17, <1>18, <1>19, <1>20, <1>21, <1>40 DEF Here
    <2> QED BY <2>1
  <1>41. CASE n = 11
    <2>1. Here(t, 12)'
      BY <1>14, <1>17, <1>18, <1>19, <1>20, <1>21, <1>41 DEF Here
    <2> QED BY <2>1
  <1>42. CASE n = 12
    <2>1. Here(t, 13)'
      BY <1>14, <1>17, <1>18, <1>19, <1>20, <1>21, <1>42 DEF Here
    <2> QED BY <2>1
  <1>43. CASE n = 13
    <2>1. Here(t, 14)'
      BY <1>14, <1>17, <1>18, <1>19, <1>20, <1>21, <1>43 DEF Here
    <2> QED BY <2>1
  <1>44. CASE n = 14
    <2>1. Here(t, 15)'
      BY <1>14, <1>17, <1>18, <1>19, <1>20, <1>21, <1>44 DEF Here
    <2> QED BY <2>1
  <1>45. CASE n = 15 /\ ~(take /\ t = Head(miss.fifo).tag)
    <2>1. Here(t, 15)'
      BY <1>14, <1>17, <1>18, <1>19, <1>20, <1>21, <1>45 DEF Here
    <2> QED BY <2>1
  <1>46. CASE n = 15 /\ take /\ t = Head(miss.fifo).tag
    <2>1. Here(t, 16)'
      BY <1>14, <1>17, <1>18, <1>19, <1>20, <1>21, <1>46 DEF Here
    <2> QED BY <2>1
  <1>47. CASE n = 16
    <2>1. Here(t, 0)'
      BY <1>14, <1>17, <1>18, <1>19, <1>20, <1>21, <1>47 DEF Here
    <2> QED BY <2>1
  <1>48. CASE n = 17 /\ ~\E r \in dedup.rsp : t \in Range(dedup.chain[r.tag])
    <2>1. Here(t, 17)'
      BY <1>14, <1>17, <1>18, <1>19, <1>20, <1>21, <1>48 DEF Here
    <2> QED BY <2>1
  <1>49. CASE n = 17 /\ \E r \in dedup.rsp : t \in Range(dedup.chain[r.tag])
    <2>1. Here(t, 15)'
      BY <1>14, <1>17, <1>18, <1>19, <1>20, <1>21, <1>49 DEF Here
    <2> QED BY <2>1
  <1> QED BY <1>14, <1>22, <1>23, <1>24, <1>25, <1>26, <1>27, <1>28, <1>29, <1>30, <1>31, <1>32,
             <1>33, <1>34, <1>35, <1>36, <1>37, <1>38, <1>39, <1>40, <1>41, <1>42, <1>43,
             <1>44, <1>45, <1>46, <1>47, <1>48, <1>49

\* A request is collected for as long as it is below the filter and not answered.
LEMMA CurMoves ==
  ASSUME TypeOK, Apart, NEW req, NEW take, NEW next, NEW look, NEW full, NEW other, NEW wait,
         Chosen(req, take, next, look, full, other, wait)
  PROVE  /\ dedup'.cur \in Opt(Tag)
         /\ \A t \in dedup'.cur : IsBelow(t)' /\ t \notin Tags(dedup'.rsp)
  <1>1. dedup'.cur = Collecting(next) /\ dedup'.rsp = l2.rsp
    BY DEF Chosen, Cycle, NextDedup
  <1>2. Own(next) => Head(dedup.fifo) \in Tag /\ Head(dedup.fifo) \in Range(dedup.fifo)
    <2>1. \A y \in Seq(Tag) : y # <<>> => Head(y) \in Tag /\ Head(y) \in Range(y)
      BY DEF Range
    <2> QED BY <2>1 DEF TypeOK, Chosen
  <1>3. \A t \in Tag : IsBelow(t)' <=> \/ IsBelow(t) /\ t \notin Tags(dedup.rsp)
                                       \/ IsBase(next) /\ t = Head(dedup.fifo)
    BY BelowMoves
  <1>4. CASE IsBase(next)
    <2>1. PICK h \in Tag : h = Head(dedup.fifo) /\ h \in Range(dedup.fifo)
      BY <1>2, <1>4, OwnSplit
    <2>2. dedup'.cur = {h}
      BY <1>1, <1>4, <2>1 DEF Collecting
    <2>3. IsBelow(h)'
      BY <1>3, <1>4, <2>1
    <2>4. h \notin Tags(l2.rsp)
      BY <2>1 DEF Apart, Here
    <2> QED BY <1>1, <2>2, <2>3, <2>4 DEF Opt
  <1>5. CASE ~IsBase(next) /\ (next = "away" \/ \E r \in l2.rsp : r.tag \in dedup.cur)
    <2>1. dedup'.cur = {}
      BY <1>1, <1>5 DEF Collecting
    <2> QED BY <2>1 DEF Opt
  <1>6. CASE ~IsBase(next) /\ ~(next = "away" \/ \E r \in l2.rsp : r.tag \in dedup.cur)
    <2>1. dedup'.cur = dedup.cur /\ dedup.cur \in Opt(Tag)
      BY <1>1, <1>6 DEF Collecting, TypeOK
    <2>2. ASSUME NEW t \in dedup.cur
          PROVE  IsBelow(t)' /\ t \notin Tags(l2.rsp)
      <3>1. t \in Tag
        BY <2>1 DEF Opt
      <3>2. IsBelow(t) /\ t \notin Tags(dedup.rsp)
        BY DEF Apart
      <3>3. t \notin Tags(l2.rsp)
        BY <1>6 DEF Tags
      <3> QED BY <1>3, <3>1, <3>2, <3>3
    <2> QED BY <1>1, <2>1, <2>2
  <1> QED BY <1>4, <1>5, <1>6

LEMMA ApartStep ==
  ASSUME TypeOK, Apart, NEW req, NEW take, NEW next, NEW look, NEW full, NEW other, NEW wait,
         Chosen(req, take, next, look, full, other, wait)
  PROVE  Apart'
  <1>1. \A t \in Tag : \E n \in 0 .. 17 : Here(t, n)'
    BY HereStep
  <1>2. IsInjective(dedup'.fifo)
    BY FifoMoves DEF Chosen, Cycle
  <1>3. IsInjective(l2'.queue) /\ IsInjective(TagsOf(l2'.found))
    BY L2Moves DEF Chosen, Cycle
  <1>4. IsInjective(walk'.queue) /\ (walk'.req # {} => walk'.st = "idle")
    BY WalkMoves DEF Chosen, Cycle
  <1>5. IsInjective(TagsOf(miss'.fifo))
    BY MissMoves DEF Chosen, Cycle
  <1>6. /\ \A t \in Tag : IsBelow(t)' => IsInjective(dedup'.chain[t])
        /\ \A t, u, e \in Tag : /\ IsBelow(t)' /\ IsBelow(u)'
                                /\ e \in Range(dedup'.chain[t]) /\ e \in Range(dedup'.chain[u])
                                => t = u
    BY ShareMoves
  <1>7. \A t \in dedup'.cur : IsBelow(t)' /\ t \notin Tags(dedup'.rsp)
    BY CurMoves
  <1> QED BY <1>1, <1>2, <1>3, <1>4, <1>5, <1>6, <1>7 DEF Apart

LEMMA Chooses ==
  ASSUME Next
  PROVE  \E req, take, next, look, full, other, wait : Chosen(req, take, next, look, full, other, wait)
  <1>1. PICK req \in Opt(Tag \ miss.busy), next \in Takable, take \in May(miss.fifo # <<>>),
             look \in May(l2.queue # <<>>), full \in May(Missed),
             wait \in May(walk.st \in {"read", "sent", "sampled"}),
             other \in May((tlb.cache # {} \/ History) /\ tlb.st = "idle" /\ tlb.fe = {} /\ tlb.wr = {}) :
                Cycle(req, take, next, look, full, other, wait)
    BY DEF Next
  <1>2. /\ take \in BOOLEAN /\ look \in BOOLEAN /\ full \in BOOLEAN /\ wait \in BOOLEAN
        /\ other \in BOOLEAN
        /\ take => miss.fifo # <<>>
        /\ look => l2.queue # <<>>
        /\ wait => walk.st \in {"read", "sent", "sampled"}
        /\ other => tlb.st = "idle" /\ tlb.fe = {} /\ tlb.wr = {}
    BY Zenon DEF May
  <1>3. next \in Takes /\ (Own(next) => dedup.fifo # <<>>)
    BY DEF Takable
  <1>4. Chosen(req, take, next, look, full, other, wait)
    BY <1>1, <1>2, <1>3 DEF Chosen
  <1> QED BY <1>4

-----------------------------------------------------------------------------
(* What a cycle does to each part, field by field.                         *)

LEMMA HostMoves ==
  ASSUME TypeOK, NextHost
  PROVE  /\ host' \in [pte : Version, owed : BOOLEAN, inval : {"none", "page", "other"}, others : 0 .. Changes]
         /\ \/ /\ ~host.owed /\ host.pte + host.others < Changes
               /\ host'.pte = host.pte + 1 /\ host'.owed = TRUE /\ host'.inval = "none"
            \/ /\ host.owed /\ host'.pte = host.pte /\ host'.owed = FALSE /\ host'.inval = "page"
            \/ host'.pte = host.pte /\ host'.owed = host.owed /\ host'.inval = "other"
            \/ host'.pte = host.pte /\ host'.owed = host.owed /\ host'.inval = "none"
  <1>1. /\ host \in [pte : Version, owed : BOOLEAN, inval : {"none", "page", "other"}, others : 0 .. Changes]
        /\ host.pte \in Nat /\ host.others \in Nat /\ Changes \in Nat
    BY TlbAssumption DEF TypeOK, Version
  <1>2. CASE /\ host.pte + host.others < Changes /\ ~host.owed
             /\ host' = [host EXCEPT !.pte = @ + 1, !.owed = TRUE, !.inval = "none"]
    <2>1. host.pte + 1 \in Version
      BY <1>1, <1>2 DEF Version
    <2> QED BY <1>1, <1>2, <2>1
  <1>3. CASE host.owed /\ host' = [host EXCEPT !.owed = FALSE, !.inval = "page"]
    BY <1>1, <1>3
  <1>4. CASE /\ host.pte + host.others < Changes
             /\ host' = [host EXCEPT !.others = @ + 1, !.inval = "other"]
    <2>1. host.others + 1 \in 0 .. Changes
      BY <1>1, <1>4
    <2> QED BY <1>1, <1>4, <2>1
  <1>5. CASE host' = [host EXCEPT !.inval = "none"]
    BY <1>1, <1>5
  <1> QED BY <1>2, <1>3, <1>4, <1>5 DEF NextHost

LEMMA TlbMoves ==
  ASSUME TypeOK, NEW other \in BOOLEAN, NextTlb(other)
  PROVE  /\ \E gone \in BOOLEAN :
               /\ gone => other \/ (tlb.wr # {} /\ tlb.wr # {{}})
               /\ tlb'.cache = IF tlb.wr = {{}} THEN {}
                               ELSE (IF gone THEN {} ELSE tlb.cache) \union UNION tlb.wr
         /\ tlb'.wr = CASE host.inval = "page" -> {{}}
                        [] host.inval = "other" -> {}
                        [] OTHER -> IF tlb.st = "insert" THEN {{tlb.ver}} ELSE {}
         /\ tlb'.fe = {r.ver : r \in {s \in walk.rspQ : s.may}}
         /\ tlb'.st = NextFill
         /\ tlb'.ver = IF tlb.st = "idle" /\ tlb.fe # {} THEN The(tlb.fe) ELSE tlb.ver
         /\ tlb'.hold \in BOOLEAN /\ (tlb'.hold <=> Inval \/ tlb.cnt # 0)
         /\ tlb'.cnt = IF Inval THEN Hold - 1 ELSE IF tlb.cnt = 0 THEN 0 ELSE tlb.cnt - 1
         /\ tlb'.hist \in BOOLEAN /\ (tlb'.hist <=> History /\ ~other)
         /\ tlb'.checked \in BOOLEAN /\ (tlb'.checked <=> tlb.st = "check")
         /\ tlb'.notDup \in BOOLEAN /\ (tlb'.notDup <=> ~tlb.hist)
         /\ tlb' \in [cache : SUBSET Version, wr : Opt(Opt(Version)), fe : Opt(Version),
                     st : FillStates, ver : Version, hold : BOOLEAN, cnt : 0 .. Hold - 1,
                     hist : BOOLEAN, checked : BOOLEAN, notDup : BOOLEAN]
  <1>1. PICK hold, hist, checked, notDup :
               /\ hold = (Inval \/ tlb.cnt # 0) /\ hist = (History /\ ~other)
               /\ checked = (tlb.st = "check") /\ notDup = (~tlb.hist)
    OBVIOUS
  <1>2. /\ hold \in BOOLEAN /\ (hold <=> Inval \/ tlb.cnt # 0)
        /\ hist \in BOOLEAN /\ (hist <=> History /\ ~other)
        /\ checked \in BOOLEAN /\ (checked <=> tlb.st = "check")
        /\ notDup \in BOOLEAN /\ (notDup <=> ~tlb.hist)
    BY <1>1
  <1>3. PICK gone \in BOOLEAN :
        /\ gone => other \/ (tlb.wr # {} /\ tlb.wr # {{}})
        /\ tlb' = [cache |-> IF tlb.wr = {{}} THEN {}
                             ELSE (IF gone THEN {} ELSE tlb.cache) \union UNION tlb.wr,
                   wr    |-> CASE host.inval = "page" -> {{}}
                               [] host.inval = "other" -> {}
                               [] OTHER -> IF tlb.st = "insert" THEN {{tlb.ver}} ELSE {},
                   fe    |-> {r.ver : r \in {s \in walk.rspQ : s.may}},
                   st    |-> NextFill,
                   ver   |-> IF tlb.st = "idle" /\ tlb.fe # {} THEN The(tlb.fe) ELSE tlb.ver,
                   hold  |-> Inval \/ tlb.cnt # 0,
                   cnt   |-> IF Inval THEN Hold - 1 ELSE IF tlb.cnt = 0 THEN 0 ELSE tlb.cnt - 1,
                   hist  |-> History /\ ~other,
                   checked |-> tlb.st = "check",
                   notDup  |-> ~tlb.hist]
    BY DEF NextTlb
  <1>4. /\ tlb'.hold = hold /\ tlb'.hist = hist /\ tlb'.checked = checked /\ tlb'.notDup = notDup
        /\ tlb'.cache = IF tlb.wr = {{}} THEN {}
                        ELSE (IF gone THEN {} ELSE tlb.cache) \union UNION tlb.wr
        /\ tlb'.wr = CASE host.inval = "page" -> {{}}
                        [] host.inval = "other" -> {}
                        [] OTHER -> IF tlb.st = "insert" THEN {{tlb.ver}} ELSE {}
        /\ tlb'.fe = {r.ver : r \in {s \in walk.rspQ : s.may}}
        /\ tlb'.st = NextFill
        /\ tlb'.ver = IF tlb.st = "idle" /\ tlb.fe # {} THEN The(tlb.fe) ELSE tlb.ver
        /\ tlb'.cnt = IF Inval THEN Hold - 1 ELSE IF tlb.cnt = 0 THEN 0 ELSE tlb.cnt - 1
    BY <1>1, <1>3
  <1>5. /\ tlb.cache \subseteq Version /\ tlb.wr \in Opt(Opt(Version)) /\ tlb.fe \in Opt(Version)
        /\ tlb.st \in FillStates /\ tlb.ver \in Version /\ tlb.cnt \in 0 .. Hold - 1
        /\ walk.rspQ \in Opt(Rsp) /\ Hold \in Nat /\ Hold >= 3
    BY TlbAssumption DEF TypeOK
  <1>6. PICK cache, wr, fe, st, ver, cnt :
           /\ cache = IF tlb.wr = {{}} THEN {}
                      ELSE (IF gone THEN {} ELSE tlb.cache) \union UNION tlb.wr
           /\ wr = CASE host.inval = "page" -> {{}}
                     [] host.inval = "other" -> {}
                     [] OTHER -> IF tlb.st = "insert" THEN {{tlb.ver}} ELSE {}
           /\ fe = {r.ver : r \in {s \in walk.rspQ : s.may}}
           /\ st = NextFill
           /\ ver = IF tlb.st = "idle" /\ tlb.fe # {} THEN The(tlb.fe) ELSE tlb.ver
           /\ cnt = IF Inval THEN Hold - 1 ELSE IF tlb.cnt = 0 THEN 0 ELSE tlb.cnt - 1
    OBVIOUS
  <1>7. tlb' = [cache |-> cache, wr |-> wr, fe |-> fe, st |-> st, ver |-> ver, hold |-> hold,
                cnt |-> cnt, hist |-> hist, checked |-> checked, notDup |-> notDup]
    BY <1>1, <1>3, <1>6
  <1>8. cache \subseteq Version
    <2>1. UNION tlb.wr \subseteq Version
      BY <1>5 DEF Opt
    <2> QED BY <1>5, <1>6, <2>1
  <1>9. wr \in Opt(Opt(Version))
    <2>1. {} \in Opt(Version) /\ {tlb.ver} \in Opt(Version)
      BY <1>5 DEF Opt
    <2>2. wr = {} \/ wr = {{}} \/ wr = {{tlb.ver}}
      BY <1>6
    <2> QED BY <2>1, <2>2 DEF Opt
  <1>10. fe \in Opt(Version)
    <2>1. CASE walk.rspQ = {}
      <3>1. fe = {}
        BY <1>6, <2>1
      <3> QED BY <3>1 DEF Opt
    <2>2. CASE walk.rspQ # {}
      <3>1. PICK r \in Rsp : walk.rspQ = {r}
        BY <1>5, <2>2 DEF Opt
      <3>2. fe = {} \/ fe = {r.ver}
        BY <1>6, <3>1
      <3>3. r.ver \in Version
        BY DEF Rsp
      <3> QED BY <3>2, <3>3 DEF Opt
    <2> QED BY <2>1, <2>2
  <1>11. st \in FillStates
    BY <1>5, <1>6 DEF NextFill, FillStates
  <1>12. ver \in Version
    BY <1>5, <1>6, OneAtMost
  <1>13. cnt \in 0 .. Hold - 1
    BY <1>5, <1>6
  <1>14. tlb' \in [cache : SUBSET Version, wr : Opt(Opt(Version)), fe : Opt(Version),
                         st : FillStates, ver : Version, hold : BOOLEAN, cnt : 0 .. Hold - 1,
                         hist : BOOLEAN, checked : BOOLEAN, notDup : BOOLEAN]
    BY <1>2, <1>7, <1>8, <1>9, <1>10, <1>11, <1>12, <1>13
  <1> QED BY <1>2, <1>3, <1>4, <1>14

LEMMA WalkFields ==
  ASSUME TypeOK, NEW wait \in BOOLEAN, NEW full \in BOOLEAN, NextWalk(wait, full)
  PROVE  /\ walk'.st = NextState(wait) /\ walk'.st \in WalkStates
         /\ walk'.hit = (IF walk.st = "lookup" THEN lines.cache ELSE walk.hit) /\ walk'.hit \in Opt(Version)
         /\ walk'.ver = CASE walk.st = "look3" /\ walk.hit # {} -> The(walk.hit)
                          [] walk.st = "sent" /\ ~wait -> host.pte
                          [] OTHER -> walk.ver
         /\ walk'.ver \in Version
         /\ walk'.tag = (IF walk.st = "idle" /\ walk.req # {} THEN The(walk.req) ELSE walk.tag)
         /\ walk'.tag \in Tag
         /\ walk'.cacheable \in BOOLEAN
         /\ walk'.cacheable <=> ~Inval /\ (walk.cacheable \/ (walk.st = "idle" /\ walk.req # {}))
         /\ walk'.en = (IF walk.st = "done" THEN {[tag |-> walk.tag, ver |-> walk.ver]} ELSE {})
         /\ walk'.en \in Opt([tag : Tag, ver : Version])
         /\ walk'.rsp = {[tag |-> e.tag, ver |-> e.ver, may |-> walk.cacheable] : e \in walk.en}
         /\ walk'.rsp \in Opt(Rsp)
         /\ walk'.rspQ = walk.rsp /\ walk'.rspQ \in Opt(Rsp)
         /\ walk'.req \in Opt(Tag)
  <1>1. /\ lines.cache \in Opt(Version) /\ walk.hit \in Opt(Version) /\ walk.ver \in Version
        /\ host.pte \in Version /\ walk.req \in Opt(Tag) /\ walk.tag \in Tag /\ walk.st \in WalkStates
        /\ walk.en \in Opt([tag : Tag, ver : Version]) /\ walk.rsp \in Opt(Rsp) /\ walk.cacheable \in BOOLEAN
        /\ walk.queue \in Seq(Tag)
    BY DEF TypeOK
  <1>2. PICK cacheable : cacheable = Cacheable
    OBVIOUS
  <1>3. cacheable \in BOOLEAN /\ (cacheable <=> ~Inval /\ (walk.cacheable \/ (walk.st = "idle" /\ walk.req # {})))
    BY <1>2 DEF Cacheable
  <1>4. /\ walk'.st = NextState(wait)
        /\ walk'.hit = (IF walk.st = "lookup" THEN lines.cache ELSE walk.hit)
        /\ walk'.ver = CASE walk.st = "look3" /\ walk.hit # {} -> The(walk.hit)
                         [] walk.st = "sent" /\ ~wait -> host.pte
                         [] OTHER -> walk.ver
        /\ walk'.tag = (IF walk.st = "idle" /\ walk.req # {} THEN The(walk.req) ELSE walk.tag)
        /\ walk'.cacheable = cacheable
        /\ walk'.en = (IF walk.st = "done" THEN {[tag |-> walk.tag, ver |-> walk.ver]} ELSE {})
        /\ walk'.rsp = {[tag |-> e.tag, ver |-> e.ver, may |-> walk.cacheable] : e \in walk.en}
        /\ walk'.rspQ = walk.rsp
        /\ walk'.req = IF Starts THEN {Head(walk.queue)} ELSE {}
    BY <1>2 DEF NextWalk, Starts
  <1>5. walk'.st \in WalkStates
    BY <1>1, <1>4 DEF NextState, WalkStates
  <1>6. walk'.hit \in Opt(Version)
    BY <1>1, <1>4
  <1>7. walk'.ver \in Version
    BY <1>1, <1>4, OneAtMost
  <1>8. walk'.tag \in Tag
    BY <1>1, <1>4, OneAtMost
  <1>9. walk'.en \in Opt([tag : Tag, ver : Version])
    <2>1. [tag |-> walk.tag, ver |-> walk.ver] \in [tag : Tag, ver : Version]
      BY <1>1
    <2>2. walk'.en = {} \/ walk'.en = {[tag |-> walk.tag, ver |-> walk.ver]}
      BY <1>4
    <2> QED BY <2>1, <2>2 DEF Opt
  <1>10. walk'.rsp \in Opt(Rsp)
    <2>1. CASE walk.en = {}
      <3>1. walk'.rsp = {}
        BY <1>4, <2>1
      <3> QED BY <3>1 DEF Opt
    <2>2. CASE walk.en # {}
      <3>1. PICK e \in [tag : Tag, ver : Version] : walk.en = {e}
        BY <1>1, <2>2 DEF Opt
      <3>2. PICK c \in BOOLEAN : c = walk.cacheable
        BY <1>1
      <3>3. walk'.rsp = {[tag |-> e.tag, ver |-> e.ver, may |-> c]}
        BY <1>4, <3>1, <3>2
      <3>4. [tag |-> e.tag, ver |-> e.ver, may |-> c] \in Rsp
        BY DEF Rsp
      <3> QED BY <3>3, <3>4 DEF Opt
    <2> QED BY <2>1, <2>2
  <1>11. walk'.req \in Opt(Tag)
    <2>1. Starts => Head(walk.queue) \in Tag
      BY <1>1 DEF Starts
    <2> QED BY <1>4, <2>1 DEF Opt
  <1> QED BY <1>1, <1>3, <1>4, <1>5, <1>6, <1>7, <1>8, <1>9, <1>10, <1>11

LEMMA LinesMoves ==
  ASSUME TypeOK, NextLines
  PROVE  /\ lines' \in [cache : Opt(Version), n1 : BOOLEAN, n0 : BOOLEAN, reset : 0 .. Reset,
                        ins : 0 .. Line + 1, ver : Version]
         /\ lines'.cache = IF lines.reset > 0 THEN {}
                           ELSE IF lines.ins = 2 THEN {lines.ver} ELSE lines.cache
         /\ lines'.n1 <=> Inval
         /\ lines'.n0 <=> lines.n1
         /\ lines'.reset = IF lines.n0 THEN Reset ELSE IF lines.reset = 0 THEN 0 ELSE lines.reset - 1
         /\ lines'.ins = IF walk.st = "data1" /\ lines.reset = 0 THEN Line + 1
                         ELSE IF lines.ins = 0 THEN 0 ELSE lines.ins - 1
         /\ lines'.ver = IF walk.st = "data1" THEN walk.ver ELSE lines.ver
  <1>1. /\ lines.cache \in Opt(Version) /\ lines.n1 \in BOOLEAN /\ lines.n0 \in BOOLEAN
        /\ lines.reset \in 0 .. Reset /\ lines.ins \in 0 .. Line + 1 /\ lines.ver \in Version
        /\ walk.ver \in Version /\ Reset \in Nat /\ Line \in Nat
    BY TlbAssumption DEF TypeOK
  <1>2. PICK cache, n1, n0, reset, ins, ver :
          /\ cache = IF lines.reset > 0 THEN {}
                     ELSE IF lines.ins = 2 THEN {lines.ver} ELSE lines.cache
          /\ n1 = Inval
          /\ n0 = lines.n1
          /\ reset = IF lines.n0 THEN Reset ELSE IF lines.reset = 0 THEN 0 ELSE lines.reset - 1
          /\ ins = IF walk.st = "data1" /\ lines.reset = 0 THEN Line + 1
                   ELSE IF lines.ins = 0 THEN 0 ELSE lines.ins - 1
          /\ ver = IF walk.st = "data1" THEN walk.ver ELSE lines.ver
    OBVIOUS
  <1>3. lines' = [cache |-> cache, n1 |-> n1, n0 |-> n0, reset |-> reset, ins |-> ins, ver |-> ver]
    BY <1>2 DEF NextLines, ResetLines
  <1>4. n1 \in BOOLEAN /\ (n1 <=> Inval) /\ n0 \in BOOLEAN /\ (n0 <=> lines.n1)
    <2>1. n1 \in BOOLEAN /\ (n1 <=> Inval)
      BY <1>2 DEF Inval
    <2>2. n0 \in BOOLEAN
      BY <1>1, <1>2
    <2>3. n0 <=> lines.n1
      BY <1>2
    <2> QED BY <2>1, <2>2, <2>3
  <1>5. cache \in Opt(Version)
    BY <1>1, <1>2 DEF Opt
  <1>6. reset \in 0 .. Reset /\ ins \in 0 .. Line + 1 /\ ver \in Version
    BY <1>1, <1>2
  <1>7. lines' \in [cache : Opt(Version), n1 : BOOLEAN, n0 : BOOLEAN, reset : 0 .. Reset,
                    ins : 0 .. Line + 1, ver : Version]
    BY <1>3, <1>4, <1>5, <1>6
  <1>8. /\ lines'.cache = cache /\ lines'.n1 = n1 /\ lines'.n0 = n0 /\ lines'.reset = reset
        /\ lines'.ins = ins /\ lines'.ver = ver
    BY <1>3
  <1> QED BY <1>2, <1>4, <1>7, <1>8

LEMMA L1Moves ==
  ASSUME TypeOK, NextL1
  PROVE  /\ l1' \in [cache : Opt(Version), wr : Opt(Opt(Version))]
         /\ l1'.cache = IF l1.wr = {} THEN l1.cache ELSE The(l1.wr)
         /\ l1'.wr = CASE host.inval = "page" -> {{}}
                       [] host.inval = "other" -> {}
                       [] OTHER -> {{v} : v \in miss.ins}
  <1>1. l1.cache \in Opt(Version) /\ l1.wr \in Opt(Opt(Version)) /\ miss.ins \in Opt(Version)
    BY DEF TypeOK
  <1>2. PICK cache, wr :
          /\ cache = IF l1.wr = {} THEN l1.cache ELSE The(l1.wr)
          /\ wr = CASE host.inval = "page" -> {{}}
                    [] host.inval = "other" -> {}
                    [] OTHER -> {{v} : v \in miss.ins}
    OBVIOUS
  <1>3. l1' = [cache |-> cache, wr |-> wr]
    BY <1>2 DEF NextL1, After
  <1>4. cache \in Opt(Version)
    BY <1>1, <1>2, OneAtMost
  <1>5. wr \in Opt(Opt(Version))
    <2>1. {} \in Opt(Version)
      BY DEF Opt
    <2>2. wr = {} \/ wr = {{}} \/ wr = {{v} : v \in miss.ins}
      BY <1>2
    <2>3. {{v} : v \in miss.ins} \in Opt(Opt(Version))
      <3>1. CASE miss.ins = {}
        <4>1. {{v} : v \in miss.ins} = {}
          BY <3>1
        <4> QED BY <4>1 DEF Opt
      <3>2. CASE miss.ins # {}
        <4>1. PICK w \in Version : miss.ins = {w}
          BY <1>1, <3>2 DEF Opt
        <4>2. {{v} : v \in miss.ins} = {{w}} /\ {w} \in Opt(Version)
          BY <4>1 DEF Opt
        <4> QED BY <4>2 DEF Opt
      <3> QED BY <3>1, <3>2
    <2> QED BY <2>1, <2>2, <2>3 DEF Opt
  <1> QED BY <1>2, <1>3, <1>4, <1>5

LEMMA MissFields ==
  ASSUME TypeOK, NEW req \in Opt(Tag \ miss.busy), NEW take \in BOOLEAN, take => miss.fifo # <<>>,
         NextMiss(req, take)
  PROVE  /\ miss'.q \in Opt(Tag) /\ miss'.svc \in Opt(Tag) /\ miss'.busy \subseteq Tag
         /\ miss'.ok = NotPoisoned /\ miss'.ok \subseteq Tag
         /\ ~take => miss'.deq = {}
         /\ take => \E b \in BOOLEAN : /\ b <=> Head(miss.fifo).tag \in miss.ok
                                       /\ miss'.deq = {[rsp |-> Head(miss.fifo), ok |-> b]}
         /\ miss'.deq \in Opt([rsp : Rsp, ok : BOOLEAN])
         /\ miss'.ins = {d.rsp.ver : d \in {e \in miss.deq : e.ok /\ e.rsp.may}}
         /\ miss'.ins \in Opt(Version)
  <1>1. /\ miss.q \in Opt(Tag) /\ miss.ok \subseteq Tag /\ miss.busy \subseteq Tag
        /\ miss.fifo \in Seq(Rsp) /\ miss.deq \in Opt([rsp : Rsp, ok : BOOLEAN])
    BY DEF TypeOK
  <1>2. /\ miss'.q = req /\ miss'.svc = miss.q
        /\ miss'.busy = (miss.busy \union req) \ {d.rsp.tag : d \in miss.deq}
        /\ miss'.ok = NotPoisoned
        /\ miss'.deq = IF take THEN {[rsp |-> Head(miss.fifo), ok |-> Head(miss.fifo).tag \in miss.ok]}
                       ELSE {}
        /\ miss'.ins = {d.rsp.ver : d \in {e \in miss.deq : e.ok /\ e.rsp.may}}
    BY DEF NextMiss
  <1>3. req \in Opt(Tag) /\ req \subseteq Tag /\ miss.q \subseteq Tag
    BY <1>1 DEF Opt
  <1>4. miss'.ok \subseteq Tag
    BY <1>1, <1>2, <1>3 DEF NotPoisoned
  <1>5. take => Head(miss.fifo) \in Rsp
    BY <1>1
  <1>6. take => \E b \in BOOLEAN : /\ b <=> Head(miss.fifo).tag \in miss.ok
                                   /\ miss'.deq = {[rsp |-> Head(miss.fifo), ok |-> b]}
    <2> SUFFICES ASSUME take
                 PROVE  \E b \in BOOLEAN : /\ b <=> Head(miss.fifo).tag \in miss.ok
                                           /\ miss'.deq = {[rsp |-> Head(miss.fifo), ok |-> b]}
      OBVIOUS
    <2>1. miss'.deq = {[rsp |-> Head(miss.fifo), ok |-> Head(miss.fifo).tag \in miss.ok]}
      BY <1>2
    <2>2. PICK r : r = Head(miss.fifo)
      OBVIOUS
    <2>3. CASE r.tag \in miss.ok
      <3>1. (r.tag \in miss.ok) = TRUE
        BY <2>3
      <3> QED BY <2>1, <2>2, <3>1
    <2>4. CASE r.tag \notin miss.ok
      <3>1. (r.tag \in miss.ok) = FALSE
        BY <2>4
      <3> QED BY <2>1, <2>2, <3>1
    <2> QED BY <2>3, <2>4
  <1>7. miss'.deq \in Opt([rsp : Rsp, ok : BOOLEAN])
    <2>1. CASE take
      <3>1. PICK b \in BOOLEAN : miss'.deq = {[rsp |-> Head(miss.fifo), ok |-> b]}
        BY <1>6, <2>1
      <3>2. [rsp |-> Head(miss.fifo), ok |-> b] \in [rsp : Rsp, ok : BOOLEAN]
        BY <1>5, <2>1
      <3> QED BY <3>1, <3>2 DEF Opt
    <2>2. CASE ~take
      BY <1>2, <2>2 DEF Opt
    <2> QED BY <2>1, <2>2
  <1>8. miss'.ins \in Opt(Version)
    <2>1. CASE miss.deq = {}
      <3>1. miss'.ins = {}
        BY <1>2, <2>1
      <3> QED BY <3>1 DEF Opt
    <2>2. CASE miss.deq # {}
      <3>1. PICK e \in [rsp : Rsp, ok : BOOLEAN] : miss.deq = {e}
        BY <1>1, <2>2 DEF Opt
      <3>2. miss'.ins = {} \/ miss'.ins = {e.rsp.ver}
        BY <1>2, <3>1
      <3>3. e.rsp.ver \in Version
        BY DEF Rsp
      <3> QED BY <3>2, <3>3 DEF Opt
    <2> QED BY <2>1, <2>2
  <1> QED BY <1>1, <1>2, <1>3, <1>4, <1>6, <1>7, <1>8

-----------------------------------------------------------------------------
(* Types, and one place for each request.                                  *)

\* A change is invalidated once it was made.
HostOK == host.owed \/ host.inval = "page" => host.pte > 0 /\ ~(host.owed /\ host.inval = "page")

Placed == TypeOK /\ HostOK /\ Apart

LEMMA HostStep ==
  ASSUME TypeOK, HostOK, NextHost
  PROVE  HostOK'
  <1>1. host.pte \in Nat
    BY DEF TypeOK, Version
  <1>2. /\ host' \in [pte : Version, owed : BOOLEAN, inval : {"none", "page", "other"}, others : 0 .. Changes]
        /\ \/ /\ ~host.owed /\ host.pte + host.others < Changes
              /\ host'.pte = host.pte + 1 /\ host'.owed = TRUE /\ host'.inval = "none"
           \/ /\ host.owed /\ host'.pte = host.pte /\ host'.owed = FALSE /\ host'.inval = "page"
           \/ host'.pte = host.pte /\ host'.owed = host.owed /\ host'.inval = "other"
           \/ host'.pte = host.pte /\ host'.owed = host.owed /\ host'.inval = "none"
    BY HostMoves
  <1>3. HostOK' <=> (host'.owed \/ host'.inval = "page" => host'.pte > 0 /\ ~(host'.owed /\ host'.inval = "page"))
    BY DEF HostOK
  <1>4. host.owed => host.pte > 0
    BY DEF HostOK
  <1>5. CASE host'.pte = host.pte + 1 /\ host'.owed = TRUE /\ host'.inval = "none"
    BY <1>1, <1>3, <1>5
  <1>6. CASE host.owed /\ host'.pte = host.pte /\ host'.owed = FALSE /\ host'.inval = "page"
    BY <1>3, <1>4, <1>6
  <1>7. CASE host'.pte = host.pte /\ host'.owed = host.owed /\ host'.inval \in {"other", "none"}
    BY <1>3, <1>4, <1>7
  <1> QED BY <1>2, <1>5, <1>6, <1>7

LEMMA SeenIs ==
  ASSUME TypeOK, HostOK
  PROVE  Seen \in Version /\ Seen \in Nat /\ host.pte \in Nat /\ Seen <= host.pte
  <1>1. host.pte \in 0 .. Changes /\ Changes \in Nat
    BY TlbAssumption DEF TypeOK, Version
  <1> QED BY <1>1 DEF HostOK, Seen, Version

LEMMA TypeStep ==
  ASSUME Placed, NEW req, NEW take, NEW next, NEW look, NEW full, NEW other, NEW wait,
         Chosen(req, take, next, look, full, other, wait)
  PROVE  TypeOK'
  <1> USE DEF Placed
  <1>1. host' \in [pte : Version, owed : BOOLEAN, inval : {"none", "page", "other"}, others : 0 .. Changes]
    BY HostMoves DEF Chosen, Cycle
  <1>2. l1' \in [cache : Opt(Version), wr : Opt(Opt(Version))]
    BY L1Moves DEF Chosen, Cycle
  <1>3. /\ miss'.q \in Opt(Tag) /\ miss'.svc \in Opt(Tag) /\ miss'.ok \subseteq Tag
        /\ miss'.busy \subseteq Tag
        /\ miss'.deq \in Opt([rsp : Rsp, ok : BOOLEAN]) /\ miss'.ins \in Opt(Version)
    BY MissFields DEF Chosen, Cycle
  <1>4. miss'.fifo \in Seq(Rsp) /\ Len(miss'.fifo) <= Cardinality(Tag)
    <2>1. miss'.fifo \in Seq(Rsp) /\ IsInjective(TagsOf(miss'.fifo))
      BY MissMoves DEF Chosen, Cycle
    <2>2. \A e \in Rsp : e.tag \in Tag
      BY DEF Rsp
    <2>3. TagsOf(miss'.fifo) \in Seq(Tag) /\ Len(TagsOf(miss'.fifo)) = Len(miss'.fifo)
      BY <2>1, <2>2, Tagged
    <2>4. Len(TagsOf(miss'.fifo)) <= Cardinality(Tag)
      BY <2>1, <2>3, QueueBound
    <2> QED BY <2>1, <2>3, <2>4
  <1>5. dedup'.fifo \in Seq(Tag) /\ Len(dedup'.fifo) <= Cardinality(Tag)
    <2>1. dedup'.fifo \in Seq(Tag) /\ IsInjective(dedup'.fifo)
      BY FifoMoves DEF Chosen, Cycle
    <2> QED BY <2>1, QueueBound
  <1>6. dedup'.cur \in Opt(Tag)
    BY CurMoves
  <1>7. dedup'.chain \in [Tag -> Seq(Tag)]
    BY ChainMoves
  <1>8. dedup'.out \in Opt(Tag) /\ dedup'.rsp \in Opt(Rsp)
    <2>1. dedup'.out = (IF IsBase(next) THEN {Head(dedup.fifo)} ELSE {}) /\ dedup'.rsp = l2.rsp
      BY DEF Chosen, Cycle, NextDedup
    <2>2. Own(next) => Head(dedup.fifo) \in Tag
      BY DEF TypeOK, Chosen
    <2>3. l2.rsp \in Opt(Rsp)
      BY DEF TypeOK
    <2> QED BY <2>1, <2>2, <2>3, OwnSplit DEF Opt
  <1>9. l2'.queue \in Seq(Tag) /\ l2'.found \in Seq(Found)
    BY L2Moves DEF Chosen, Cycle
  <1>10. l2'.rsp \in Opt(Rsp)
    <2>1. /\ Answers => \E v \in Head(l2.found).is :
                           l2'.rsp = {[tag |-> Head(l2.found).tag, ver |-> v, may |-> TRUE]}
          /\ ~Answers => l2'.rsp = walk.rspQ
          /\ Answers \/ Walks(full) => l2.found # <<>>
      BY L2Moves DEF Chosen, Cycle
    <2>2. CASE Answers
      <3>1. PICK v \in Head(l2.found).is : l2'.rsp = {[tag |-> Head(l2.found).tag, ver |-> v, may |-> TRUE]}
        BY <2>1, <2>2
      <3>2. Head(l2.found) \in Found
        BY <2>1, <2>2 DEF TypeOK
      <3>3. [tag |-> Head(l2.found).tag, ver |-> v, may |-> TRUE] \in Rsp
        BY <3>2 DEF Found, Rsp
      <3> QED BY <3>1, <3>3 DEF Opt
    <2>3. CASE ~Answers
      <3>1. walk.rspQ \in Opt(Rsp)
        BY DEF TypeOK
      <3> QED BY <2>1, <2>3, <3>1
    <2> QED BY <2>2, <2>3
  <1>11. tlb' \in [cache : SUBSET Version, wr : Opt(Opt(Version)), fe : Opt(Version),
                   st : FillStates, ver : Version, hold : BOOLEAN, cnt : 0 .. Hold - 1,
                   hist : BOOLEAN, checked : BOOLEAN, notDup : BOOLEAN]
    BY TlbMoves DEF Chosen, Cycle
  <1>12. walk'.queue \in Seq(Tag)
    BY WalkMoves DEF Chosen, Cycle
  <1>13. /\ walk'.req \in Opt(Tag) /\ walk'.st \in WalkStates
         /\ walk'.hit \in Opt(Version) /\ walk'.ver \in Version /\ walk'.tag \in Tag
         /\ walk'.cacheable \in BOOLEAN /\ walk'.en \in Opt([tag : Tag, ver : Version])
         /\ walk'.rsp \in Opt(Rsp) /\ walk'.rspQ \in Opt(Rsp)
    BY WalkFields DEF Chosen, Cycle
  <1>14. lines' \in [cache : Opt(Version), n1 : BOOLEAN, n0 : BOOLEAN, reset : 0 .. Reset,
                     ins : 0 .. Line + 1, ver : Version]
    BY LinesMoves DEF Chosen, Cycle
  <1>15. due' \in [Tag -> Version]
    <2>1. due' = [t \in Tag |-> IF t \in req THEN Seen ELSE due[t]]
      BY DEF Chosen, Cycle
    <2>2. due \in [Tag -> Version] /\ Seen \in Version
      BY SeenIs DEF TypeOK
    <2> QED BY <2>1, <2>2
  <1>16. raced' \subseteq Races
    <2>1. raced' = raced \union NewRaces(take, next) /\ raced \subseteq Races
      BY DEF Chosen, Cycle, TypeOK
    <2>2. NewRaces(take, next) \subseteq Races
      BY DEF NewRaces
    <2> QED BY <2>1, <2>2
  <1> QED BY <1>1, <1>2, <1>3, <1>4, <1>5, <1>6, <1>7, <1>8, <1>9, <1>10, <1>11, <1>12, <1>13, <1>14,
             <1>15, <1>16 DEF TypeOK

LEMMA PlacedInit == Init => Placed
  <1> SUFFICES ASSUME Init PROVE Placed
    OBVIOUS
  <1>1. /\ Changes \in Nat /\ Hold \in Nat /\ Hold >= 3 /\ Line \in Nat /\ Reset \in Nat
        /\ Cardinality(Tag) \in Nat /\ (CHOOSE t \in Tag : TRUE) \in Tag
    BY TlbAssumption, FS_CardinalityType
  <1>2. 0 \in Version /\ \A S : {} \in Opt(S)
    BY <1>1 DEF Version, Opt
  <1>3. TypeOK
    <2>1. \A S : <<>> \in Seq(S) /\ Len(<<>>) = 0
      OBVIOUS
    <2>2. host \in [pte : Version, owed : BOOLEAN, inval : {"none", "page", "other"}, others : 0 .. Changes]
      BY <1>1, <1>2 DEF Init
    <2>3. /\ l1 \in [cache : Opt(Version), wr : Opt(Opt(Version))]
          /\ miss.q \in Opt(Tag) /\ miss.svc \in Opt(Tag) /\ miss.ok \subseteq Tag
          /\ miss.busy \subseteq Tag /\ miss.fifo \in Seq(Rsp) /\ Len(miss.fifo) <= Cardinality(Tag)
          /\ miss.deq \in Opt([rsp : Rsp, ok : BOOLEAN]) /\ miss.ins \in Opt(Version)
      BY <1>1, <1>2, <2>1 DEF Init
    <2>4. /\ dedup.fifo \in Seq(Tag) /\ Len(dedup.fifo) <= Cardinality(Tag)
          /\ dedup.cur \in Opt(Tag)
          /\ dedup.chain \in [Tag -> Seq(Tag)] /\ dedup.out \in Opt(Tag) /\ dedup.rsp \in Opt(Rsp)
          /\ l2.queue \in Seq(Tag) /\ l2.found \in Seq(Found) /\ l2.rsp \in Opt(Rsp)
      BY <1>1, <1>2, <2>1 DEF Init
    <2>5. tlb \in [cache : SUBSET Version, wr : Opt(Opt(Version)), fe : Opt(Version),
                   st : FillStates, ver : Version, hold : BOOLEAN, cnt : 0 .. Hold - 1,
                   hist : BOOLEAN, checked : BOOLEAN, notDup : BOOLEAN]
      BY <1>1, <1>2 DEF Init, FillStates
    <2>6. /\ walk.queue \in Seq(Tag) /\ walk.req \in Opt(Tag) /\ walk.st \in WalkStates
          /\ walk.hit \in Opt(Version) /\ walk.ver \in Version /\ walk.tag \in Tag
          /\ walk.cacheable \in BOOLEAN /\ walk.en \in Opt([tag : Tag, ver : Version])
          /\ walk.rsp \in Opt(Rsp) /\ walk.rspQ \in Opt(Rsp)
      BY <1>1, <1>2, <2>1 DEF Init, WalkStates
    <2>7. /\ lines \in [cache : Opt(Version), n1 : BOOLEAN, n0 : BOOLEAN, reset : 0 .. Reset,
                        ins : 0 .. Line + 1, ver : Version]
          /\ due \in [Tag -> Version] /\ raced \subseteq Races
      BY <1>1, <1>2 DEF Init
    <2> QED BY <2>2, <2>3, <2>4, <2>5, <2>6, <2>7 DEF TypeOK
  <1>4. HostOK
    BY DEF Init, HostOK
  <1>5. Range(<<>>) = {} /\ Range(TagsOf(<<>>)) = {} /\ IsInjective(<<>>) /\ IsInjective(TagsOf(<<>>))
    BY NoneTagged
  <1>6. /\ miss.q = {} /\ miss.svc = {} /\ miss.busy = {} /\ miss.fifo = <<>> /\ miss.deq = {}
        /\ dedup.fifo = <<>> /\ dedup.cur = {} /\ dedup.out = {} /\ dedup.rsp = {}
        /\ l2.queue = <<>> /\ l2.found = <<>> /\ l2.rsp = {}
        /\ walk.queue = <<>> /\ walk.req = {} /\ walk.st = "idle" /\ walk.en = {} /\ walk.rsp = {} /\ walk.rspQ = {}
    BY DEF Init
  <1>7. Tags({}) = {}
    BY DEF Tags
  <1>8. \A t \in Tag : ~IsBelow(t)
    BY <1>5, <1>6, <1>7 DEF IsBelow
  <1>9. \A t \in Tag : ~Shares(t)
    BY <1>8 DEF Shares
  <1>10. \A t \in Tag : Here(t, 0)
    BY <1>5, <1>6, <1>7, <1>9 DEF Here
  <1>11. Apart
    BY <1>5, <1>6, <1>8, <1>10 DEF Apart
  <1> QED BY <1>3, <1>4, <1>11 DEF Placed

LEMMA PlacedStep == Placed /\ [Next]_vars => Placed'
  <1> SUFFICES ASSUME Placed, [Next]_vars PROVE Placed'
    OBVIOUS
  <1>1. CASE Next
    <2>1. PICK req, take, next, look, full, other, wait : Chosen(req, take, next, look, full, other, wait)
      BY <1>1, Chooses
    <2>2. TypeOK'
      BY <2>1, TypeStep
    <2>3. HostOK'
      BY <2>1, HostStep DEF Placed, Chosen, Cycle
    <2>4. Apart'
      BY <2>1, ApartStep DEF Placed
    <2> QED BY <2>2, <2>3, <2>4 DEF Placed
  <1>2. CASE UNCHANGED vars
    <2>1. TypeOK'
      BY <1>2 DEF Placed, TypeOK, vars
    <2>2. HostOK'
      BY <1>2 DEF Placed, HostOK, vars
    <2>3. \A t \in Tag : IsBelow(t)' <=> IsBelow(t)
      BY <1>2 DEF IsBelow, vars
    <2>4. \A t \in Tag : Shares(t)' <=> Shares(t)
      BY <1>2, <2>3 DEF Shares, vars
    <2>5. \A t \in Tag, n \in 0 .. 17 : Here(t, n)' <=> Here(t, n)
      BY <1>2, <2>4 DEF Here, vars
    <2>6. Apart'
      <3>1. \A t \in Tag : \E n \in 0 .. 17 : Here(t, n)'
        BY <2>5 DEF Placed, Apart
      <3>2. /\ IsInjective(dedup'.fifo) /\ IsInjective(l2'.queue) /\ IsInjective(TagsOf(l2'.found))
            /\ IsInjective(walk'.queue) /\ IsInjective(TagsOf(miss'.fifo))
            /\ walk'.req # {} => walk'.st = "idle"
        BY <1>2 DEF Placed, Apart, vars
      <3>3. \A t \in Tag : IsBelow(t)' => IsInjective(dedup'.chain[t])
        BY <1>2, <2>3 DEF Placed, Apart, vars
      <3>4. \A t, u, e \in Tag : /\ IsBelow(t)' /\ IsBelow(u)'
                                 /\ e \in Range(dedup'.chain[t]) /\ e \in Range(dedup'.chain[u])
                                 => t = u
        BY <1>2, <2>3 DEF Placed, Apart, vars
      <3>5. \A t \in dedup'.cur : IsBelow(t)' /\ t \notin Tags(dedup'.rsp)
        <4>1. dedup.cur \subseteq Tag
          <5>1. dedup.cur \in Opt(Tag)
            BY DEF Placed, TypeOK
          <5> QED BY <5>1, OneAtMost
        <4> QED BY <1>2, <2>3, <4>1 DEF Placed, Apart, vars
      <3> QED BY <3>1, <3>2, <3>3, <3>4, <3>5 DEF Apart
    <2> QED BY <2>1, <2>2, <2>6 DEF Placed
  <1> QED BY <1>1, <1>2

LEMMA IsPlaced ==
  ASSUME Placed
  PROVE  AnsweredOnce
  <1> USE DEF Placed
  <1>1. PICK w : w = Where
    OBVIOUS
  <1>2. /\ w[1] = miss.q /\ w[2] = miss.svc /\ w[3] = Range(dedup.fifo)
        /\ w[4] = dedup.out /\ w[5] = Range(l2.queue) /\ w[6] = Range(TagsOf(l2.found))
        /\ w[7] = Range(walk.queue) /\ w[8] = walk.req
        /\ w[9] = (IF walk.st = "idle" THEN {} ELSE {walk.tag}) /\ w[10] = Tags(walk.en)
        /\ w[11] = Tags(walk.rsp) /\ w[12] = Tags(walk.rspQ) /\ w[13] = Tags(l2.rsp)
        /\ w[14] = Tags(dedup.rsp) /\ w[15] = Range(TagsOf(miss.fifo))
        /\ w[16] = {d.rsp.tag : d \in miss.deq}
        /\ Len(w) = 16
    BY <1>1 DEF Where
  <1>3. \A t : t \in Below <=> IsBelow(t)
    <2>1. \A k \in 4 .. 14 : k \in {4, 5, 6, 7, 8, 9, 10, 11, 12, 13, 14}
      OBVIOUS
    <2>2. \A t : t \in Below <=> \E k \in 4 .. 14 : t \in w[k]
      BY <1>1 DEF Below
    <2>3. \A t : t \in Below <=> \/ t \in w[4] \/ t \in w[5] \/ t \in w[6] \/ t \in w[7] \/ t \in w[8]
                                 \/ t \in w[9] \/ t \in w[10] \/ t \in w[11] \/ t \in w[12] \/ t \in w[13]
                                 \/ t \in w[14]
      BY <2>1, <2>2
    <2> QED BY <1>2, <2>3 DEF IsBelow
  <1>4. Below \subseteq Tag
    <2>1. \A s \in Seq(Tag) : Range(s) \subseteq Tag
      BY DEF Range
    <2>2. /\ dedup.out \subseteq Tag /\ walk.req \subseteq Tag
          /\ walk.rsp \subseteq Rsp /\ walk.rspQ \subseteq Rsp /\ l2.rsp \subseteq Rsp /\ dedup.rsp \subseteq Rsp
          /\ walk.en \subseteq [tag : Tag, ver : Version]
      <3>1. /\ dedup.out \in Opt(Tag) /\ walk.req \in Opt(Tag)
            /\ walk.rsp \in Opt(Rsp) /\ walk.rspQ \in Opt(Rsp) /\ l2.rsp \in Opt(Rsp) /\ dedup.rsp \in Opt(Rsp)
            /\ walk.en \in Opt([tag : Tag, ver : Version])
        BY DEF TypeOK
      <3>2. \A S : \A o \in Opt(S) : o \subseteq S
        BY OneAtMost
      <3> QED BY <3>1, <3>2
    <2>3. TagsOf(l2.found) \in Seq(Tag)
      <3>1. l2.found \in Seq(Found) /\ \A e \in Found : e.tag \in Tag
        BY DEF TypeOK, Found
      <3> QED BY <3>1, Tagged
    <2>4. \A rs \in SUBSET Rsp : Tags(rs) \subseteq Tag
      BY DEF Tags, Rsp
    <2>5. Tags(walk.en) \subseteq Tag
      BY <2>2 DEF Tags
    <2>6. walk.tag \in Tag /\ l2.queue \in Seq(Tag) /\ walk.queue \in Seq(Tag)
      BY DEF TypeOK
    <2> QED BY <1>3, <2>1, <2>2, <2>3, <2>4, <2>5, <2>6 DEF IsBelow
  <1>5. \A t : t \in Collected <=> Shares(t)
    BY <1>3, <1>4 DEF Collected, Shares
  <1>6. PICK p : p = Append(Where, Collected)
    OBVIOUS
  <1>7. p[17] = Collected /\ \A k \in 1 .. 16 : p[k] = w[k]
    BY <1>1, <1>2, <1>6 DEF Where
  <1>8. ASSUME NEW t \in Tag
        PROVE  LET at == {k \in 1 .. 17 : t \in p[k]}
               IN  IF t \in miss.busy THEN \E k \in at : at = {k} ELSE at = {}
    <2>1. PICK n \in 0 .. 17 : Here(t, n)
      BY DEF Apart
    <2>2. /\ t \in p[1] <=> n = 1
          /\ t \in p[2] <=> n = 2
          /\ t \in p[3] <=> n = 3
          /\ t \in p[4] <=> n = 4
          /\ t \in p[5] <=> n = 5
          /\ t \in p[6] <=> n = 6
          /\ t \in p[7] <=> n = 7
          /\ t \in p[8] <=> n = 8
          /\ t \in p[9] <=> n = 9
          /\ t \in p[10] <=> n = 10
          /\ t \in p[11] <=> n = 11
          /\ t \in p[12] <=> n = 12
          /\ t \in p[13] <=> n = 13
          /\ t \in p[14] <=> n = 14
          /\ t \in p[15] <=> n = 15
          /\ t \in p[16] <=> n = 16
          /\ t \in p[17] <=> n = 17
      BY <1>2, <1>5, <1>7, <2>1 DEF Here
    <2>3. \A k \in 1 .. 17 : k \in {1, 2, 3, 4, 5, 6, 7, 8, 9, 10, 11, 12, 13, 14, 15, 16, 17}
      OBVIOUS
    <2>4. \A k \in 1 .. 17 : t \in p[k] <=> n = k
      BY <2>2, <2>3
    <2>5. PICK at : at = {k \in 1 .. 17 : t \in p[k]}
      OBVIOUS
    <2>6. t \in miss.busy <=> n # 0
      BY <2>1 DEF Here
    <2>7. CASE n = 0
      <3>1. at = {} /\ t \notin miss.busy
        BY <2>4, <2>5, <2>6, <2>7
      <3> QED BY <2>5, <3>1
    <2>8. CASE n # 0
      <3>1. at = {n} /\ t \in miss.busy
        BY <2>4, <2>5, <2>6, <2>8
      <3> QED BY <2>5, <3>1
    <2> QED BY <2>7, <2>8
  <1>9. \A s \in {dedup.fifo, l2.queue, TagsOf(l2.found), walk.queue, TagsOf(miss.fifo)} : IsInjective(s)
    BY DEF Apart
  <1>10. \A t \in Below :
           /\ IsInjective(dedup.chain[t])
           /\ \A u \in Below \ {t} : Range(dedup.chain[t]) \intersect Range(dedup.chain[u]) = {}
    <2>1. \A t \in Tag : Range(dedup.chain[t]) \subseteq Tag
      BY DEF TypeOK, Range
    <2> QED BY <1>3, <1>4, <2>1 DEF Apart
  <1> QED BY <1>6, <1>8, <1>9, <1>10 DEF AnsweredOnce

-----------------------------------------------------------------------------
(* Translations of the right time.                                         *)

LinesRace == "late" \in raced
TlbRace   == "lookup" \in raced \/ "late" \in raced
JoinRace  == TlbRace \/ "join" \in raced
L1Race    == TlbRace \/ "deq" \in raced

\* A translation that a request which is made now may find.
Now(v) == v >= Seen \/ TlbRace

\* A translation that may answer request t.
Right(v, t) == v <= host.pte /\ (v >= due[t] \/ TlbRace) /\ (t \in miss.ok => Now(v))

HostInv == \A t \in Tag : due[t] <= Seen

TlbInv ==
    /\ tlb.cnt # 0 => tlb.hold
    /\ \A v \in tlb.cache : /\ v <= host.pte /\ (tlb.wr # {{}} => Now(v))
                            /\ \A t \in Tag : v >= due[t] \/ TlbRace
    /\ \A c \in tlb.wr : \A v \in c : v <= host.pte /\ Now(v)
    /\ tlb.st # "idle" => ~tlb.hold /\ tlb.ver <= host.pte /\ Now(tlb.ver)
    /\ \A v \in tlb.fe : v <= host.pte /\ (Now(v) \/ tlb.hold)
    /\ tlb.wr = {{}} => miss.ok = {}

HistInv ==
    /\ tlb.checked => tlb.st = "dups" \/ "check" \in raced
    /\ tlb.hist => \/ "check" \in raced
                   \/ tlb.cache # {}
                   \/ UNION tlb.wr # {}
                   \/ tlb.st \in {"req", "recv", "insert"}
    /\ tlb.wr = {{}} => ~tlb.hist

\* The walker waits for its cache of lines, or has a line from memory.
Looks == {"look1", "look2", "look3"}
Reads == {"sampled", "data1", "data2"}

WalkInv ==
    /\ walk.st \in Looks =>
          \A v \in walk.hit : Right(v, walk.tag) /\ (walk.cacheable => Now(v))
    /\ walk.st \in Reads =>
          /\ walk.ver <= host.pte /\ walk.ver >= due[walk.tag]
          /\ walk.tag \in miss.ok \/ walk.cacheable => walk.ver >= Seen
    /\ walk.st \in {"found", "done"} =>
          Right(walk.ver, walk.tag) /\ (walk.cacheable => Now(walk.ver))
    /\ \A e \in walk.en : Right(e.ver, e.tag) /\ (walk.cacheable => Now(e.ver))
    /\ \A r \in walk.rsp : Right(r.ver, r.tag) /\ (r.may => Now(r.ver) \/ tlb.cnt >= 2)
    /\ \A r \in walk.rspQ : Right(r.ver, r.tag) /\ (r.may => Now(r.ver) \/ tlb.cnt >= 1)

\* The translation that the cache of lines has, or is getting.
Kept(v) == v \in lines.cache \/ (lines.ins > 0 /\ lines.reset = 0 /\ v = lines.ver)

LinesInv ==
    /\ lines.n1 => miss.ok = {} /\ ~walk.cacheable
    /\ lines.n0 => miss.ok \subseteq miss.svc
    /\ lines.reset > 0 => lines.ins <= lines.reset
    /\ lines.ver <= host.pte
    /\ \A v \in Version : Kept(v) =>
          /\ v <= host.pte
          /\ v >= Seen \/ LinesRace \/ lines.n1 \/ lines.n0 \/ lines.reset > 0
          /\ \A t \in Tag : \/ v >= due[t] \/ LinesRace \/ (lines.n0 /\ t \in miss.q)
                            \/ (lines.reset > 0 /\ (t \in miss.q \/ t \in miss.svc))

AnswerInv ==
    /\ \A i \in DOMAIN l2.found : \A v \in l2.found[i].is : Right(v, l2.found[i].tag)
    /\ \A r \in l2.rsp : Right(r.ver, r.tag)
    /\ \A r \in dedup.rsp : Right(r.ver, r.tag)

\* What L1 may take.
Good(r) ==
    r.ver <= host.pte /\ (r.ver >= due[r.tag] \/ JoinRace) /\ (r.may /\ r.tag \in miss.ok => Now(r.ver))

ReturnInv ==
    /\ \A i \in DOMAIN miss.fifo : Good(miss.fifo[i])
    /\ \A d \in miss.deq : /\ d.rsp.ver <= host.pte /\ (d.rsp.ver >= due[d.rsp.tag] \/ JoinRace)
                           /\ d.rsp.may /\ d.ok => d.rsp.ver >= Seen \/ L1Race
    /\ \A v \in miss.ins : v <= host.pte /\ (v >= Seen \/ L1Race)

L1Inv ==
    /\ \A v \in l1.cache : v <= host.pte /\ (l1.wr # {{}} => v >= Seen \/ L1Race)
    /\ \A c \in l1.wr : \A v \in c : v <= host.pte /\ (v >= Seen \/ L1Race)

ChainInv ==
    \A t, u \in Tag : IsBelow(t) /\ u \in Range(dedup.chain[t]) => due[u] = due[t] \/ "join" \in raced

Fresh ==
    HostInv /\ TlbInv /\ HistInv /\ WalkInv /\ LinesInv /\ AnswerInv /\ ReturnInv /\ L1Inv /\ ChainInv

-----------------------------------------------------------------------------
(* Time and races.                                                         *)

LEMMA SeenMoves ==
  ASSUME TypeOK, HostOK, NextHost
  PROVE  /\ Seen' = (IF host.inval = "page" THEN host.pte ELSE Seen)
         /\ Seen \in Nat /\ Seen' \in Nat /\ host.pte \in Nat /\ host'.pte \in Nat
         /\ Seen <= Seen' /\ Seen' <= host.pte /\ host.pte <= host'.pte
  <1>1. /\ host' \in [pte : Version, owed : BOOLEAN, inval : {"none", "page", "other"}, others : 0 .. Changes]
        /\ \/ /\ ~host.owed /\ host.pte + host.others < Changes
              /\ host'.pte = host.pte + 1 /\ host'.owed = TRUE /\ host'.inval = "none"
           \/ /\ host.owed /\ host'.pte = host.pte /\ host'.owed = FALSE /\ host'.inval = "page"
           \/ host'.pte = host.pte /\ host'.owed = host.owed /\ host'.inval = "other"
           \/ host'.pte = host.pte /\ host'.owed = host.owed /\ host'.inval = "none"
    BY HostMoves
  <1>2. host.pte \in Nat /\ host'.pte \in Nat /\ Seen \in Nat /\ Seen <= host.pte
    BY <1>1, SeenIs DEF Version
  <1>3. Seen = IF host.owed \/ host.inval = "page" THEN host.pte - 1 ELSE host.pte
    BY DEF Seen
  <1>4. Seen' = IF host'.owed \/ host'.inval = "page" THEN host'.pte - 1 ELSE host'.pte
    BY DEF Seen
  <1>5. host.inval = "page" => ~host.owed /\ host.pte > 0
    BY DEF HostOK
  <1>6. CASE ~host.owed /\ host'.pte = host.pte + 1 /\ host'.owed = TRUE /\ host'.inval = "none"
    BY <1>2, <1>3, <1>4, <1>5, <1>6
  <1>7. CASE host.owed /\ host'.pte = host.pte /\ host'.owed = FALSE /\ host'.inval = "page"
    BY <1>2, <1>3, <1>4, <1>5, <1>7
  <1>8. CASE host'.pte = host.pte /\ host'.owed = host.owed /\ host'.inval \in {"other", "none"}
    BY <1>2, <1>3, <1>4, <1>5, <1>8
  <1> QED BY <1>1, <1>6, <1>7, <1>8

\* What a cycle does to the time: the translation that requests find follows the
\* pulse, and races are remembered.
LEMMA TimeMoves ==
  ASSUME Placed, NEW req, NEW take, NEW next, NEW look, NEW full, NEW other, NEW wait,
         Chosen(req, take, next, look, full, other, wait)
  PROVE  /\ Seen' = (IF host.inval = "page" THEN host.pte ELSE Seen)
         /\ Seen \in Nat /\ Seen' \in Nat /\ host.pte \in Nat /\ host'.pte \in Nat
         /\ Seen <= Seen' /\ Seen' <= host.pte /\ host.pte <= host'.pte
         /\ raced' = raced \union NewRaces(take, next)
         /\ TlbRace => TlbRace'
         /\ \A t \in Tag : due'[t] = IF t \in req THEN Seen ELSE due[t]
         /\ \A t \in Tag : due[t] \in Nat
         /\ \A t \in Tag : t \in miss'.ok <=> ~Inval /\ (t \in miss.ok \/ t \in miss.q)
         /\ miss'.q = req /\ miss'.svc = miss.q
         /\ \A t \in req : t \notin miss.busy
         /\ Inval <=> host.inval # "none"
  <1>1. /\ Seen' = (IF host.inval = "page" THEN host.pte ELSE Seen)
        /\ Seen \in Nat /\ Seen' \in Nat /\ host.pte \in Nat /\ host'.pte \in Nat
        /\ Seen <= Seen' /\ Seen' <= host.pte /\ host.pte <= host'.pte
    BY SeenMoves DEF Placed, Chosen, Cycle
  <1>2. raced' = raced \union NewRaces(take, next)
    BY DEF Chosen, Cycle
  <1>3. TlbRace => TlbRace'
    BY <1>2 DEF TlbRace
  <1>4. due' = [t \in Tag |-> IF t \in req THEN Seen ELSE due[t]]
    BY DEF Chosen, Cycle
  <1>5. due \in [Tag -> Version]
    BY DEF Placed, TypeOK
  <1>6. \A t \in Tag : due[t] \in Nat
    BY <1>5 DEF Version
  <1>7. \A t \in Tag : t \in miss'.ok <=> ~Inval /\ (t \in miss.ok \/ t \in miss.q)
    <2>1. miss'.ok = NotPoisoned
      BY DEF Chosen, Cycle, NextMiss
    <2> QED BY <2>1 DEF NotPoisoned
  <1>8. miss'.q = req /\ miss'.svc = miss.q
    BY DEF Chosen, Cycle, NextMiss
  <1>9. \A t \in req : t \notin miss.busy
    BY DEF Chosen, Opt
  <1>10. Inval <=> host.inval # "none"
    BY DEF Inval
  <1> QED BY <1>1, <1>2, <1>3, <1>4, <1>6, <1>7, <1>8, <1>9, <1>10

\* A translation of its time stays that until the pulse.
LEMMA NowStays ==
  ASSUME Placed, NEW req, NEW take, NEW next, NEW look, NEW full, NEW other, NEW wait,
         Chosen(req, take, next, look, full, other, wait), host.inval # "page", NEW v, Now(v)
  PROVE  Now(v)'
  <1>1. Seen' = Seen /\ (TlbRace => TlbRace')
    BY TimeMoves
  <1> QED BY <1>1 DEF Now

\* A request below the filter, or behind it, was made before.
LEMMA Carried ==
  ASSUME Placed, NEW t \in Tag,
         \/ IsBelow(t) \/ Shares(t) \/ t \in Range(dedup.fifo)
         \/ t \in Range(TagsOf(miss.fifo)) \/ \E d \in miss.deq : t = d.rsp.tag
  PROVE  t \in miss.busy /\ t \notin miss.q /\ t \notin miss.svc
  <1>1. PICK n \in 0 .. 17 : Here(t, n)
    BY DEF Placed, Apart
  <1>2. n \notin {0, 1, 2}
    <2>1. CASE IsBelow(t)
      BY <1>1, <2>1 DEF Here, IsBelow
    <2>2. CASE \/ Shares(t) \/ t \in Range(dedup.fifo)
               \/ t \in Range(TagsOf(miss.fifo)) \/ \E d \in miss.deq : t = d.rsp.tag
      BY <1>1, <2>2 DEF Here
    <2> QED BY <2>1, <2>2
  <1> QED BY <1>1, <1>2 DEF Here

\* A translation that is right for a request stays right for it.
LEMMA RightStays ==
  ASSUME Placed, NEW req, NEW take, NEW next, NEW look, NEW full, NEW other, NEW wait,
         Chosen(req, take, next, look, full, other, wait),
         NEW t \in Tag, t \in miss.busy, t \notin miss.q, NEW v \in Version, Right(v, t)
  PROVE  Right(v, t)'
  <1>1. v \in Nat
    BY DEF Version
  <1>2. /\ host.pte \in Nat /\ host'.pte \in Nat /\ host.pte <= host'.pte
        /\ TlbRace => TlbRace'
        /\ t \notin req /\ due'[t] = due[t]
        /\ t \in miss'.ok <=> ~Inval /\ (t \in miss.ok \/ t \in miss.q)
        /\ Inval <=> host.inval # "none"
    BY TimeMoves
  <1>3. v <= host.pte /\ (v >= due[t] \/ TlbRace) /\ (t \in miss.ok => Now(v))
    BY DEF Right
  <1>4. v <= host'.pte
    BY <1>1, <1>2, <1>3
  <1>5. v >= due'[t] \/ TlbRace'
    BY <1>2, <1>3
  <1>6. t \in miss'.ok => Now(v)'
    <2>1. t \in miss'.ok => Now(v) /\ host.inval # "page"
      BY <1>2, <1>3
    <2> QED BY <2>1, NowStays
  <1> QED BY <1>4, <1>5, <1>6 DEF Right

LEMMA HostInvStep ==
  ASSUME Placed, HostInv, NEW req, NEW take, NEW next, NEW look, NEW full, NEW other, NEW wait,
         Chosen(req, take, next, look, full, other, wait)
  PROVE  HostInv'
  <1>1. /\ Seen \in Nat /\ Seen' \in Nat /\ Seen <= Seen'
        /\ \A t \in Tag : due'[t] = IF t \in req THEN Seen ELSE due[t]
        /\ \A t \in Tag : due[t] \in Nat
    BY TimeMoves
  <1> QED BY <1>1 DEF HostInv

-----------------------------------------------------------------------------
(* L2.                                                                     *)

LEMMA TlbInvStep ==
  ASSUME Placed, HostInv, TlbInv, WalkInv, NEW req, NEW take, NEW next, NEW look, NEW full, NEW other, NEW wait,
         Chosen(req, take, next, look, full, other, wait)
  PROVE  TlbInv'
  <1>1. /\ Seen \in Nat /\ Seen' \in Nat /\ host.pte \in Nat /\ host'.pte \in Nat
        /\ Seen <= Seen' /\ Seen' <= host.pte /\ host.pte <= host'.pte
        /\ TlbRace => TlbRace'
        /\ \A t \in Tag : due'[t] = IF t \in req THEN Seen ELSE due[t]
        /\ \A t \in Tag : due[t] \in Nat
        /\ \A t \in Tag : t \in miss'.ok <=> ~Inval /\ (t \in miss.ok \/ t \in miss.q)
        /\ Inval <=> host.inval # "none"
    BY TimeMoves
  <1>2. \A v : host.inval # "page" /\ Now(v) => Now(v)'
    BY NowStays
  <1>3. /\ \E gone \in BOOLEAN :
               tlb'.cache = IF tlb.wr = {{}} THEN {}
                            ELSE (IF gone THEN {} ELSE tlb.cache) \union UNION tlb.wr
        /\ tlb'.wr = CASE host.inval = "page" -> {{}}
                       [] host.inval = "other" -> {}
                       [] OTHER -> IF tlb.st = "insert" THEN {{tlb.ver}} ELSE {}
        /\ tlb'.fe = {r.ver : r \in {s \in walk.rspQ : s.may}}
        /\ tlb'.st = NextFill
        /\ tlb'.ver = IF tlb.st = "idle" /\ tlb.fe # {} THEN The(tlb.fe) ELSE tlb.ver
        /\ tlb'.hold <=> Inval \/ tlb.cnt # 0
        /\ tlb'.cnt = IF Inval THEN Hold - 1 ELSE IF tlb.cnt = 0 THEN 0 ELSE tlb.cnt - 1
    <2>1. TypeOK /\ other \in BOOLEAN /\ NextTlb(other)
      BY DEF Placed, Chosen, Cycle
    <2> QED BY <2>1, TlbMoves
  <1>4. /\ tlb.cache \subseteq Version /\ tlb.wr \in Opt(Opt(Version)) /\ tlb.fe \in Opt(Version)
        /\ tlb.ver \in Version /\ tlb.cnt \in Nat /\ Hold \in Nat /\ Hold >= 3
        /\ walk.rspQ \in Opt(Rsp) /\ \A v \in Version : v \in Nat
    <2>1. /\ tlb.cache \subseteq Version /\ tlb.wr \in Opt(Opt(Version)) /\ tlb.fe \in Opt(Version)
          /\ tlb.ver \in Version /\ tlb.cnt \in 0 .. Hold - 1 /\ walk.rspQ \in Opt(Rsp)
      BY DEF Placed, TypeOK
    <2>2. Hold \in Nat /\ Hold >= 3 /\ \A v \in Version : v \in Nat
      BY TlbAssumption DEF Version
    <2> QED BY <2>1, <2>2
  <1>5. host.inval \in {"none", "page", "other"}
    BY DEF Placed, TypeOK
  <1>6. tlb'.cnt # 0 => tlb'.hold
    BY <1>3, <1>4
  <1>7. \A v \in tlb'.cache : /\ v <= host'.pte /\ (tlb'.wr # {{}} => Now(v)')
                              /\ \A t \in Tag : v >= due'[t] \/ TlbRace'
    <2> SUFFICES ASSUME NEW v \in tlb'.cache
                 PROVE  /\ v <= host'.pte /\ (tlb'.wr # {{}} => Now(v)')
                        /\ \A t \in Tag : v >= due'[t] \/ TlbRace'
      OBVIOUS
    <2>1. tlb.wr # {{}} /\ (v \in tlb.cache \/ v \in UNION tlb.wr)
      BY <1>3
    <2>2. UNION tlb.wr \subseteq Version
      BY <1>4 DEF Opt
    <2>3. v \in Nat
      BY <1>4, <2>1, <2>2
    <2>4. v <= host.pte /\ Now(v)
      BY <2>1 DEF TlbInv
    <2>5. \A t \in Tag : v >= due[t] \/ TlbRace
      <3>1. CASE v \in tlb.cache
        BY <3>1 DEF TlbInv
      <3>2. CASE v \in UNION tlb.wr
        BY <1>1, <2>3, <2>4 DEF HostInv, Now
      <3> QED BY <2>1, <3>1, <3>2
    <2>6. tlb'.wr # {{}} => Now(v)'
      BY <1>2, <1>3, <2>4
    <2>7. \A t \in Tag : v >= due'[t] \/ TlbRace'
      BY <1>1, <2>4, <2>5 DEF Now
    <2> QED BY <1>1, <2>3, <2>4, <2>6, <2>7
  <1>8. \A c \in tlb'.wr : \A v \in c : v <= host'.pte /\ Now(v)'
    <2> SUFFICES ASSUME NEW c \in tlb'.wr, NEW v \in c
                 PROVE  v <= host'.pte /\ Now(v)'
      OBVIOUS
    <2>1. host.inval # "page" /\ tlb.st = "insert" /\ v = tlb.ver
      BY <1>3
    <2>2. v <= host.pte /\ Now(v) /\ v \in Nat
      BY <1>4, <2>1 DEF TlbInv
    <2> QED BY <1>1, <1>2, <2>1, <2>2
  <1>9. tlb'.st # "idle" => ~tlb'.hold /\ tlb'.ver <= host'.pte /\ Now(tlb.ver)'
    <2> SUFFICES ASSUME tlb'.st # "idle"
                 PROVE  ~tlb'.hold /\ tlb'.ver <= host'.pte /\ Now(tlb.ver)'
      OBVIOUS
    <2>1. ~Inval /\ ~tlb.hold /\ (tlb.st = "idle" => tlb.fe # {})
      BY <1>3 DEF NextFill, NoFill
    <2>2. ~tlb'.hold
      BY <1>3, <2>1 DEF TlbInv
    <2>3. PICK v : v = tlb'.ver
      OBVIOUS
    <2>4. v <= host.pte /\ Now(v) /\ v \in Nat
      <3>1. CASE tlb.st = "idle"
        <4>1. v = The(tlb.fe) /\ The(tlb.fe) \in Version /\ tlb.fe = {The(tlb.fe)}
          BY <1>3, <1>4, <2>1, <2>3, <3>1, OneAtMost, SMTT(30)
        <4> QED BY <1>4, <2>1, <4>1 DEF TlbInv
      <3>2. CASE tlb.st # "idle"
        BY <1>3, <1>4, <2>3, <3>2 DEF TlbInv
      <3> QED BY <3>1, <3>2
    <2>5. Now(v)' /\ v <= host'.pte
      BY <1>1, <1>2, <2>1, <2>4
    <2> QED BY <2>2, <2>3, <2>5 DEF Now
  <1>10. \A v \in tlb'.fe : v <= host'.pte /\ (Now(v)' \/ tlb'.hold)
    <2> SUFFICES ASSUME NEW r \in walk.rspQ, r.may
                 PROVE  r.ver <= host'.pte /\ (Now(r.ver)' \/ tlb'.hold)
      BY <1>3
    <2>1. PICK v : v = r.ver
      OBVIOUS
    <2>2. v \in Nat
      <3>1. r \in Rsp
        BY <1>4, OneAtMost
      <3> QED BY <1>4, <2>1, <3>1 DEF Rsp
    <2>3. v <= host.pte /\ (Now(v) \/ tlb.cnt >= 1)
      BY <2>1 DEF WalkInv, Right
    <2>4. Now(v)' \/ tlb'.hold
      BY <1>1, <1>2, <1>3, <1>4, <2>3
    <2>5. v <= host'.pte
      BY <1>1, <2>2, <2>3
    <2> QED BY <2>1, <2>4, <2>5
  <1>11. tlb'.wr = {{}} => miss'.ok = {}
    <2>1. tlb'.wr = {{}} => host.inval = "page"
      <3>1. {} # {{}} /\ {{tlb.ver}} # {{}}
        OBVIOUS
      <3> QED BY <1>3, <3>1
    <2>2. miss'.ok = NotPoisoned
      BY DEF Chosen, Cycle, NextMiss
    <2> QED BY <1>1, <2>1, <2>2 DEF NotPoisoned
  <1> QED BY <1>6, <1>7, <1>8, <1>9, <1>10, <1>11 DEF TlbInv

LEMMA HistInvStep ==
  ASSUME Placed, TlbInv, HistInv, NEW req, NEW take, NEW next, NEW look, NEW full, NEW other, NEW wait,
         Chosen(req, take, next, look, full, other, wait)
  PROVE  HistInv'
  <1>1. /\ raced' = raced \union NewRaces(take, next)
        /\ Inval <=> host.inval # "none"
    BY TimeMoves
  <1>2. /\ \E gone \in BOOLEAN :
               /\ gone => other \/ (tlb.wr # {} /\ tlb.wr # {{}})
               /\ tlb'.cache = IF tlb.wr = {{}} THEN {}
                               ELSE (IF gone THEN {} ELSE tlb.cache) \union UNION tlb.wr
        /\ tlb'.wr = CASE host.inval = "page" -> {{}}
                       [] host.inval = "other" -> {}
                       [] OTHER -> IF tlb.st = "insert" THEN {{tlb.ver}} ELSE {}
        /\ tlb'.st = NextFill
        /\ tlb'.hist <=> History /\ ~other
        /\ tlb'.checked <=> tlb.st = "check"
        /\ tlb'.notDup <=> ~tlb.hist
    BY TlbMoves DEF Placed, Chosen, Cycle
  <1>3. /\ tlb.wr \in Opt(Opt(Version)) /\ tlb.st \in FillStates
        /\ host.inval \in {"none", "page", "other"}
    BY DEF Placed, TypeOK
  <1>4. \A r \in NewRaces(take, next) : r \in raced'
    BY <1>1
  <1>5. tlb'.checked => tlb'.st = "dups" \/ "check" \in raced'
    <2> SUFFICES ASSUME tlb.st = "check"
                 PROVE  tlb'.st = "dups" \/ "check" \in raced'
      BY <1>2
    <2>1. ~tlb.hold
      BY DEF TlbInv
    <2>2. CASE Inval
      <3>1. "check" \in NewRaces(take, next)
        BY <2>2 DEF NewRaces, Races
      <3> QED BY <1>4, <3>1
    <2>3. CASE ~Inval
      BY <1>2, <2>1, <2>3 DEF NextFill, NoFill
    <2> QED BY <2>2, <2>3
  <1>6. tlb'.hist => \/ "check" \in raced'
                     \/ tlb'.cache # {}
                     \/ UNION tlb'.wr # {}
                     \/ tlb'.st \in {"req", "recv", "insert"}
    <2> SUFFICES ASSUME tlb'.hist, "check" \notin raced'
                 PROVE  \/ tlb'.cache # {}
                        \/ UNION tlb'.wr # {}
                        \/ tlb'.st \in {"req", "recv", "insert"}
      OBVIOUS
    <2>1. ~Inval /\ (tlb.hist \/ (tlb.checked /\ tlb.notDup)) /\ ~other /\ "check" \notin raced
      BY <1>1, <1>2 DEF History
    <2>2. tlb'.wr = IF tlb.st = "insert" THEN {{tlb.ver}} ELSE {}
      BY <1>1, <1>2, <2>1
    <2>3. CASE tlb.st \in {"req", "recv"}
      <3>1. ~tlb.hold
        BY <2>3 DEF TlbInv
      <3> QED BY <1>2, <2>1, <2>3, <3>1 DEF NextFill, NoFill
    <2>4. CASE tlb.st = "insert"
      <3>1. tlb.ver \in UNION tlb'.wr
        BY <2>2, <2>4
      <3> QED BY <3>1
    <2>5. CASE UNION tlb.wr # {}
      <3>1. tlb.wr # {{}}
        BY <2>5
      <3> QED BY <1>2, <2>5, <3>1
    <2>6. CASE UNION tlb.wr = {} /\ tlb.st \notin {"req", "recv", "insert"} /\ tlb.hist
      <3>1. tlb.cache # {} /\ tlb.wr # {{}}
        BY <2>1, <2>6 DEF HistInv
      <3>2. tlb.wr = {}
        <4>1. tlb.wr = {} \/ \E x : tlb.wr = {x}
          BY <1>3 DEF Opt
        <4>2. ASSUME NEW x, tlb.wr = {x}
              PROVE  FALSE
          <5>1. x = {}
            BY <2>6, <4>2
          <5> QED BY <3>1, <4>2, <5>1
        <4> QED BY <4>1, <4>2
      <3> QED BY <1>2, <2>1, <3>1, <3>2
    <2>7. CASE tlb.checked /\ tlb.notDup
      <3>1. tlb.st = "dups"
        BY <2>1, <2>7 DEF HistInv
      <3>2. ~tlb.hold
        BY <3>1 DEF TlbInv
      <3> QED BY <1>2, <2>1, <2>7, <3>1, <3>2 DEF NextFill, NoFill
    <2> QED BY <2>1, <2>3, <2>4, <2>5, <2>6, <2>7
  <1>7. tlb'.wr = {{}} => ~tlb'.hist
    <2>1. tlb'.wr = {{}} => host.inval = "page"
      <3>1. {} # {{}} /\ {{tlb.ver}} # {{}}
        OBVIOUS
      <3> QED BY <1>2, <3>1
    <2> QED BY <1>1, <1>2, <2>1 DEF History
  <1> QED BY <1>5, <1>6, <1>7 DEF HistInv

\* A request below the filter keeps its right to a translation.
LEMMA RightBelow ==
  ASSUME Placed, NEW req, NEW take, NEW next, NEW look, NEW full, NEW other, NEW wait,
         Chosen(req, take, next, look, full, other, wait)
  PROVE  \A t \in Tag, v \in Version : IsBelow(t) /\ Right(v, t) => Right(v, t)'
  <1> SUFFICES ASSUME NEW t \in Tag, NEW v \in Version, IsBelow(t), Right(v, t)
               PROVE  Right(v, t)'
    OBVIOUS
  <1>1. t \in miss.busy /\ t \notin miss.q
    BY Carried
  <1> QED BY <1>1, RightStays

-----------------------------------------------------------------------------
(* The walker.                                                             *)

LEMMA WalkInvStep ==
  ASSUME Placed, HostInv, WalkInv, LinesInv, NEW req, NEW take, NEW next, NEW look, NEW full, NEW other, NEW wait,
         Chosen(req, take, next, look, full, other, wait)
  PROVE  WalkInv'
  <1>1. /\ Seen' = (IF host.inval = "page" THEN host.pte ELSE Seen)
        /\ Seen \in Nat /\ Seen' \in Nat /\ host.pte \in Nat /\ host'.pte \in Nat
        /\ Seen <= Seen' /\ Seen' <= host.pte /\ host.pte <= host'.pte
        /\ raced' = raced \union NewRaces(take, next)
        /\ TlbRace => TlbRace'
        /\ \A t \in Tag : due'[t] = IF t \in req THEN Seen ELSE due[t]
        /\ \A t \in Tag : due[t] \in Nat
        /\ \A t \in Tag : t \in miss'.ok <=> ~Inval /\ (t \in miss.ok \/ t \in miss.q)
        /\ \A t \in req : t \notin miss.busy
        /\ Inval <=> host.inval # "none"
    BY TimeMoves
  <1>2. \A v : host.inval # "page" /\ Now(v) => Now(v)'
    BY NowStays
  <1>3. \A t \in Tag, v \in Version : IsBelow(t) /\ Right(v, t) => Right(v, t)'
    BY RightBelow
  <1>4. /\ walk'.st = NextState(wait)
        /\ walk'.hit = IF walk.st = "lookup" THEN lines.cache ELSE walk.hit
        /\ walk'.ver = CASE walk.st = "look3" /\ walk.hit # {} -> The(walk.hit)
                         [] walk.st = "sent" /\ ~wait -> host.pte
                         [] OTHER -> walk.ver
        /\ walk'.tag = IF walk.st = "idle" /\ walk.req # {} THEN The(walk.req) ELSE walk.tag
        /\ walk'.cacheable <=> ~Inval /\ (walk.cacheable \/ (walk.st = "idle" /\ walk.req # {}))
        /\ walk'.en = IF walk.st = "done" THEN {[tag |-> walk.tag, ver |-> walk.ver]} ELSE {}
        /\ walk'.rsp = {[tag |-> e.tag, ver |-> e.ver, may |-> walk.cacheable] : e \in walk.en}
        /\ walk'.rspQ = walk.rsp
    BY WalkFields DEF Placed, Chosen, Cycle
  <1>5. tlb'.cnt = IF Inval THEN Hold - 1 ELSE IF tlb.cnt = 0 THEN 0 ELSE tlb.cnt - 1
    BY TlbMoves DEF Placed, Chosen, Cycle
  <1>6. /\ lines.cache \in Opt(Version) /\ walk.hit \in Opt(Version) /\ walk.ver \in Version
        /\ walk.tag \in Tag /\ walk.st \in WalkStates
        /\ walk.en \in Opt([tag : Tag, ver : Version]) /\ walk.rsp \in Opt(Rsp) /\ walk.cacheable \in BOOLEAN
        /\ walk.rspQ \in Opt(Rsp) /\ tlb.cnt \in Nat /\ Hold \in Nat /\ Hold >= 3
        /\ \A v \in Version : v \in Nat
        /\ host.inval \in {"none", "page", "other"}
    BY TlbAssumption DEF Placed, TypeOK, Version
  <1>7. walk.st # "idle" => /\ IsBelow(walk.tag) /\ walk'.tag = walk.tag
                            /\ walk.tag \in miss.busy /\ walk.tag \notin miss.q /\ walk.tag \notin miss.svc
                            /\ walk.tag \notin req /\ due'[walk.tag] = due[walk.tag]
                            /\ walk'.cacheable => ~Inval /\ walk.cacheable
                            /\ walk.tag \in miss'.ok => ~Inval /\ walk.tag \in miss.ok
    <2> SUFFICES ASSUME walk.st # "idle"
                 PROVE  /\ IsBelow(walk.tag) /\ walk'.tag = walk.tag
                        /\ walk.tag \in miss.busy /\ walk.tag \notin miss.q /\ walk.tag \notin miss.svc
                        /\ walk.tag \notin req /\ due'[walk.tag] = due[walk.tag]
                        /\ walk'.cacheable => ~Inval /\ walk.cacheable
                        /\ walk.tag \in miss'.ok => ~Inval /\ walk.tag \in miss.ok
      OBVIOUS
    <2>1. IsBelow(walk.tag)
      BY DEF IsBelow
    <2>2. walk.tag \in miss.busy /\ walk.tag \notin miss.q /\ walk.tag \notin miss.svc
      BY <1>6, <2>1, Carried
    <2> QED BY <1>1, <1>4, <1>6, <2>1, <2>2
  <1>8. walk'.st \in Looks =>
           \A v \in walk'.hit : Right(v, walk.tag)' /\ (walk'.cacheable => Now(v)')
    <2> SUFFICES ASSUME walk'.st \in Looks, NEW v \in walk'.hit
                 PROVE  Right(v, walk.tag)' /\ (walk'.cacheable => Now(v)')
      OBVIOUS
    <2>1. walk.st \in {"lookup", "look1", "look2"} /\ (walk.st = "lookup" => LinesReady)
      BY <1>4, <1>6 DEF NextState, Looks, WalkStates
    <2>2. v \in Version
      BY <1>4, <1>6, OneAtMost
    <2>3. Right(v, walk.tag) /\ (walk.cacheable => Now(v) \/ "lookup" \in raced')
      <3>1. CASE walk.st # "lookup"
        BY <1>4, <2>1, <3>1 DEF WalkInv, Looks
      <3>2. CASE walk.st = "lookup"
        <4>1. v \in lines.cache /\ lines.reset = 0 /\ LinesReady
          BY <1>4, <2>1, <3>2 DEF LinesReady
        <4>2. Kept(v)
          BY <4>1 DEF Kept
        <4>3. /\ v <= host.pte
              /\ v >= Seen \/ LinesRace \/ lines.n1 \/ lines.n0
              /\ v >= due[walk.tag] \/ LinesRace
          BY <1>6, <1>7, <2>2, <3>2, <4>1, <4>2 DEF LinesInv
        <4>4. lines.n1 => miss.ok = {} /\ ~walk.cacheable
          BY DEF LinesInv
        <4>5. lines.n0 => walk.tag \notin miss.ok
          BY <1>7, <3>2 DEF LinesInv
        <4>6. lines.n0 /\ walk.cacheable => "lookup" \in raced'
          BY <1>1, <3>2, <4>1 DEF NewRaces, Races
        <4>7. v >= Seen \/ LinesRace => Now(v)
          BY DEF Now, TlbRace, LinesRace
        <4>8. walk.tag \in miss.ok => Now(v)
          BY <4>3, <4>4, <4>5, <4>7
        <4>9. v >= due[walk.tag] \/ TlbRace
          BY <4>3 DEF TlbRace, LinesRace
        <4> QED BY <4>3, <4>4, <4>6, <4>7, <4>8, <4>9 DEF Right
      <3> QED BY <3>1, <3>2
    <2>4. Right(v, walk.tag)'
      <3>1. PICK t \in Tag : t = walk.tag
        BY <1>6
      <3>2. Right(v, t)'
        BY <1>3, <1>7, <2>1, <2>2, <2>3, <3>1
      <3>3. walk'.tag = t
        BY <1>7, <2>1, <3>1
      <3> QED BY <3>2, <3>3 DEF Right
    <2>5. "lookup" \in raced' => Now(v)'
      BY DEF Now, TlbRace
    <2>6. walk'.cacheable => host.inval # "page" /\ walk.cacheable
      BY <1>1, <1>7, <2>1
    <2> QED BY <1>2, <2>3, <2>4, <2>5, <2>6
  <1>9. walk'.st \in Reads =>
           /\ walk'.ver <= host'.pte /\ walk'.ver >= due'[walk'.tag]
           /\ walk'.tag \in miss'.ok \/ walk'.cacheable => walk'.ver >= Seen'
    <2> SUFFICES ASSUME walk'.st \in Reads
                 PROVE  /\ walk'.ver <= host'.pte /\ walk'.ver >= due'[walk'.tag]
                        /\ walk'.tag \in miss'.ok \/ walk'.cacheable => walk'.ver >= Seen'
      OBVIOUS
    <2>1. \/ walk.st = "sent" /\ ~wait
          \/ walk.st \in {"sampled", "data1"}
      BY <1>4, <1>6 DEF NextState, Reads, WalkStates
    <2>2. walk'.tag = walk.tag /\ due'[walk.tag] = due[walk.tag] /\ due[walk.tag] \in Nat /\ due[walk.tag] <= Seen
      BY <1>1, <1>6, <1>7, <2>1 DEF HostInv
    <2>3. walk'.tag \in miss'.ok \/ walk'.cacheable =>
             Seen' = Seen /\ (walk.tag \in miss.ok \/ walk.cacheable)
      BY <1>1, <1>7, <2>1, <2>2
    <2>4. CASE walk.st = "sent" /\ ~wait
      <3>1. walk'.ver = host.pte
        BY <1>4, <2>4
      <3> QED BY <1>1, <2>2, <2>3, <3>1
    <2>5. CASE walk.st \in {"sampled", "data1"}
      <3>1. walk'.ver = walk.ver /\ walk.ver \in Nat
        BY <1>4, <1>6, <2>5
      <3>2. /\ walk.ver <= host.pte /\ walk.ver >= due[walk.tag]
            /\ walk.tag \in miss.ok \/ walk.cacheable => walk.ver >= Seen
        BY <2>5 DEF WalkInv, Reads
      <3> QED BY <1>1, <2>2, <2>3, <3>1, <3>2
    <2> QED BY <2>1, <2>4, <2>5
  <1>10. walk'.st \in {"found", "done"} =>
            Right(walk.ver, walk.tag)' /\ (walk'.cacheable => Now(walk.ver)')
    <2> SUFFICES ASSUME walk'.st \in {"found", "done"}
                 PROVE  Right(walk.ver, walk.tag)' /\ (walk'.cacheable => Now(walk.ver)')
      OBVIOUS
    <2>1. \/ walk.st = "look3" /\ walk.hit # {}
          \/ walk.st \in {"data2", "found"}
      BY <1>4, <1>6 DEF NextState, WalkStates
    <2>2. PICK v : v = walk'.ver
      OBVIOUS
    <2>3. v \in Version /\ Right(v, walk.tag) /\ (walk.cacheable => Now(v))
      <3>1. CASE walk.st = "look3" /\ walk.hit # {}
        <4>1. v \in walk.hit /\ v \in Version
          BY <1>4, <1>6, <2>2, <3>1, OneAtMost
        <4> QED BY <3>1, <4>1 DEF WalkInv, Looks
      <3>2. CASE walk.st = "data2"
        <4>1. v = walk.ver
          BY <1>4, <2>2, <3>2
        <4> QED BY <1>6, <3>2, <4>1 DEF WalkInv, Reads, Right, Now
      <3>3. CASE walk.st = "found"
        <4>1. v = walk.ver
          BY <1>4, <2>2, <3>3
        <4> QED BY <1>6, <3>3, <4>1 DEF WalkInv
      <3> QED BY <2>1, <3>1, <3>2, <3>3
    <2>4. PICK t \in Tag : t = walk.tag
      BY <1>6
    <2>5. Right(v, t)' /\ walk'.tag = t
      BY <1>3, <1>7, <2>1, <2>3, <2>4
    <2>6. walk'.cacheable => Now(v)'
      BY <1>1, <1>2, <1>7, <2>1, <2>3
    <2> QED BY <2>2, <2>5, <2>6 DEF Right, Now
  <1>11. \A e \in walk'.en : Right(e.ver, e.tag)' /\ (walk'.cacheable => Now(e.ver)')
    <2> SUFFICES ASSUME walk.st = "done", NEW e, e = [tag |-> walk.tag, ver |-> walk.ver]
                 PROVE  Right(e.ver, e.tag)' /\ (walk'.cacheable => Now(e.ver)')
      BY <1>4
    <2>1. PICK t \in Tag, v \in Version : t = e.tag /\ v = e.ver /\ t = walk.tag /\ v = walk.ver
      BY <1>6
    <2>2. Right(v, t) /\ (walk.cacheable => Now(v))
      BY <2>1 DEF WalkInv
    <2>3. Right(v, t)'
      BY <1>3, <1>7, <2>1, <2>2
    <2>4. walk'.cacheable => Now(v)'
      BY <1>1, <1>2, <1>7, <2>2
    <2> QED BY <2>1, <2>3, <2>4
  <1>12. \A r \in walk'.rsp : Right(r.ver, r.tag)' /\ (r.may => Now(r.ver)' \/ tlb'.cnt >= 2)
    <2> SUFFICES ASSUME NEW e \in walk.en
                 PROVE  /\ Right(e.ver, e.tag)'
                        /\ walk.cacheable => Now(e.ver)' \/ tlb'.cnt >= 2
      BY <1>4
    <2>1. e \in [tag : Tag, ver : Version]
      <3>1. \A S : \A o \in Opt(S) : o \subseteq S
        BY OneAtMost
      <3>2. walk.en \in Opt([tag : Tag, ver : Version])
        BY <1>6
      <3>3. walk.en \subseteq [tag : Tag, ver : Version]
        BY ONLY <3>1, <3>2
      <3> QED BY <3>3
    <2>2. PICK t \in Tag, v \in Version : t = e.tag /\ v = e.ver
      BY <2>1
    <2>3. IsBelow(t)
      BY <2>2 DEF IsBelow, Tags
    <2>4. Right(v, t) /\ (walk.cacheable => Now(v))
      BY <2>2 DEF WalkInv
    <2>5. Right(v, t)'
      BY <1>3, <2>3, <2>4
    <2>6. walk.cacheable => Now(v)' \/ tlb'.cnt >= 2
      BY <1>1, <1>2, <1>5, <1>6, <2>4
    <2> QED BY <2>2, <2>5, <2>6
  <1>13. \A r \in walk'.rspQ : Right(r.ver, r.tag)' /\ (r.may => Now(r.ver)' \/ tlb'.cnt >= 1)
    <2> SUFFICES ASSUME NEW r \in walk.rsp
                 PROVE  Right(r.ver, r.tag)' /\ (r.may => Now(r.ver)' \/ tlb'.cnt >= 1)
      BY <1>4
    <2>1. r \in Rsp
      BY <1>6, OneAtMost
    <2>2. PICK t \in Tag, v \in Version : t = r.tag /\ v = r.ver
      BY <2>1 DEF Rsp
    <2>3. IsBelow(t)
      BY <2>2 DEF IsBelow, Tags
    <2>4. Right(v, t) /\ (r.may => Now(v) \/ tlb.cnt >= 2)
      BY <2>2 DEF WalkInv
    <2>5. Right(v, t)'
      BY <1>3, <2>3, <2>4
    <2>6. r.may => Now(v)' \/ tlb'.cnt >= 1
      BY <1>1, <1>2, <1>5, <1>6, <2>4
    <2> QED BY <2>2, <2>5, <2>6
  <1> QED BY <1>8, <1>9, <1>10, <1>11, <1>12, <1>13 DEF WalkInv

LEMMA LinesInvStep ==
  ASSUME Placed, HostInv, WalkInv, LinesInv, NEW req, NEW take, NEW next, NEW look, NEW full, NEW other, NEW wait,
         Chosen(req, take, next, look, full, other, wait)
  PROVE  LinesInv'
  <1>1. /\ Seen' = (IF host.inval = "page" THEN host.pte ELSE Seen)
        /\ Seen \in Nat /\ Seen' \in Nat /\ host.pte \in Nat /\ host'.pte \in Nat
        /\ Seen <= Seen' /\ Seen' <= host.pte /\ host.pte <= host'.pte
        /\ raced' = raced \union NewRaces(take, next)
        /\ \A t \in Tag : due'[t] = IF t \in req THEN Seen ELSE due[t]
        /\ \A t \in Tag : due[t] \in Nat
        /\ miss'.q = req /\ miss'.svc = miss.q
        /\ Inval <=> host.inval # "none"
    BY TimeMoves
  <1>2. /\ lines'.cache = IF lines.reset > 0 THEN {}
                          ELSE IF lines.ins = 2 THEN {lines.ver} ELSE lines.cache
        /\ lines'.n1 <=> Inval
        /\ lines'.n0 <=> lines.n1
        /\ lines'.reset = IF lines.n0 THEN Reset ELSE IF lines.reset = 0 THEN 0 ELSE lines.reset - 1
        /\ lines'.ins = IF walk.st = "data1" /\ lines.reset = 0 THEN Line + 1
                        ELSE IF lines.ins = 0 THEN 0 ELSE lines.ins - 1
        /\ lines'.ver = IF walk.st = "data1" THEN walk.ver ELSE lines.ver
    BY LinesMoves DEF Placed, Chosen, Cycle
  <1>3. walk'.cacheable => ~Inval
    BY WalkFields DEF Placed, Chosen, Cycle
  <1>4. miss'.ok = IF Inval THEN {} ELSE miss.ok \union miss.q
    BY DEF Chosen, Cycle, NextMiss, NotPoisoned
  <1>5. /\ lines.reset \in 0 .. Reset /\ lines.ins \in 0 .. Line + 1 /\ lines.ver \in Nat /\ walk.ver \in Nat
        /\ Reset \in Nat /\ Line \in Nat /\ Reset > Line /\ walk.tag \in Tag
        /\ \A v \in Version : v \in Nat
    <2>1. Reset \in Nat /\ Line \in Nat /\ Reset > Line /\ \A v \in Version : v \in Nat
      BY TlbAssumption DEF Version
    <2>2. /\ lines.reset \in 0 .. Reset /\ lines.ins \in 0 .. Line + 1 /\ lines.ver \in Version
          /\ walk.ver \in Version /\ walk.tag \in Tag
      BY DEF Placed, TypeOK
    <2> QED BY <2>1, <2>2
  <1>6. lines'.n1 => miss'.ok = {} /\ ~walk'.cacheable
    BY <1>2, <1>3, <1>4
  <1>7. lines'.n0 => miss'.ok \subseteq miss'.svc
    BY <1>1, <1>2, <1>4 DEF LinesInv
  <1>8. lines.reset > 0 => lines.ins <= lines.reset
    BY DEF LinesInv
  <1>9. lines'.reset > 0 => lines'.ins <= lines'.reset
    <2>1. CASE lines.n0
      BY <1>2, <1>5, <2>1
    <2>2. CASE ~lines.n0
      BY <1>2, <1>5, <1>8, <2>2
    <2> QED BY <2>1, <2>2
  <1>10. walk.st = "data1" => walk.ver <= host.pte /\ (walk.cacheable => walk.ver >= Seen)
    BY DEF WalkInv, Reads
  <1>11. lines'.ver <= host'.pte
    <2>1. lines.ver <= host.pte
      BY DEF LinesInv
    <2> QED BY <1>1, <1>2, <1>5, <1>10, <2>1
  <1>12. ASSUME NEW v \in Version, Kept(v)'
         PROVE  /\ v <= host'.pte
                /\ v >= Seen' \/ LinesRace' \/ lines'.n1 \/ lines'.n0 \/ lines'.reset > 0
                /\ \A t \in Tag : \/ v >= due'[t] \/ LinesRace' \/ (lines'.n0 /\ t \in miss'.q)
                                  \/ (lines'.reset > 0 /\ (t \in miss'.q \/ t \in miss'.svc))
    <2>1. v \in lines'.cache \/ (lines'.ins > 0 /\ lines'.reset = 0 /\ v = lines'.ver)
      BY <1>12 DEF Kept
    <2>2. \/ Kept(v) /\ lines.reset = 0
          \/ walk.st = "data1" /\ lines.reset = 0 /\ v = walk.ver
      <3>1. CASE v \in lines'.cache
        BY <1>2, <1>5, <3>1 DEF Kept
      <3>2. CASE lines'.ins > 0 /\ lines'.reset = 0 /\ v = lines'.ver
        <4>1. lines.reset = 0
          BY <1>2, <1>5, <1>8, <3>2
        <4> QED BY <1>2, <1>5, <3>2, <4>1 DEF Kept
      <3> QED BY <2>1, <3>1, <3>2
    <2>3. CASE Kept(v) /\ lines.reset = 0
      <3>1. /\ v <= host.pte
            /\ v >= Seen \/ LinesRace \/ lines.n1 \/ lines.n0
            /\ \A t \in Tag : v >= due[t] \/ LinesRace \/ (lines.n0 /\ t \in miss.q)
        BY <1>5, <2>3 DEF LinesInv
      <3>2. (LinesRace => LinesRace') /\ (lines.n0 => lines'.reset > 0) /\ (lines.n1 => lines'.n0) /\ v \in Nat
        BY <1>1, <1>2, <1>5 DEF LinesRace
      <3>3. v <= host'.pte
        BY <1>1, <3>1, <3>2
      <3>4. v >= Seen' \/ LinesRace' \/ lines'.n1 \/ lines'.n0 \/ lines'.reset > 0
        BY <1>1, <1>2, <3>1, <3>2
      <3>5. \A t \in Tag : \/ v >= due'[t] \/ LinesRace' \/ (lines'.n0 /\ t \in miss'.q)
                           \/ (lines'.reset > 0 /\ (t \in miss'.q \/ t \in miss'.svc))
        BY <1>1, <3>1, <3>2
      <3> QED BY <3>3, <3>4, <3>5
    <2>4. CASE walk.st = "data1" /\ lines.reset = 0 /\ v = walk.ver
      <3>1. v <= host'.pte
        BY <1>1, <1>5, <1>10, <2>4
      <3>2. CASE ~walk.cacheable
        <4>1. "late" \in NewRaces(take, next)
          BY <2>4, <3>2 DEF NewRaces, Races
        <4>2. LinesRace'
          BY <1>1, <4>1 DEF LinesRace
        <4> QED BY <3>1, <4>2
      <3>3. CASE walk.cacheable
        <4>1. v >= Seen
          BY <1>10, <2>4, <3>3
        <4>2. \A t \in Tag : v >= due'[t]
          BY <1>1, <1>5, <4>1 DEF HostInv
        <4>3. v >= Seen' \/ lines'.n1
          BY <1>1, <1>2, <4>1
        <4> QED BY <3>1, <4>2, <4>3
      <3> QED BY <3>2, <3>3
    <2> QED BY <2>2, <2>3, <2>4
  <1> QED BY <1>6, <1>7, <1>9, <1>11, <1>12 DEF LinesInv

-----------------------------------------------------------------------------
(* The answers.                                                            *)

LEMMA AnswerInvStep ==
  ASSUME Placed, HostInv, TlbInv, WalkInv, AnswerInv,
         NEW req, NEW take, NEW next, NEW look, NEW full, NEW other, NEW wait,
         Chosen(req, take, next, look, full, other, wait)
  PROVE  AnswerInv'
  <1>1. \A t \in Tag, v \in Version : IsBelow(t) /\ Right(v, t) => Right(v, t)'
    BY RightBelow
  <1>2. /\ \A i \in DOMAIN l2'.found :
              \/ \E j \in DOMAIN l2.found : l2'.found[i] = l2.found[j]
              \/ look /\ l2'.found[i] = [tag |-> Head(l2.queue), is |-> tlb.cache]
        /\ Answers => \E v \in Head(l2.found).is :
                         l2'.rsp = {[tag |-> Head(l2.found).tag, ver |-> v, may |-> TRUE]}
        /\ ~Answers => l2'.rsp = walk.rspQ
        /\ Answers \/ Walks(full) => l2.found # <<>>
    BY L2Moves DEF Placed, Chosen, Cycle
  <1>3. dedup'.rsp = l2.rsp
    BY DEF Chosen, Cycle, NextDedup
  <1>4. /\ l2.found \in Seq(Found) /\ l2.rsp \in Opt(Rsp) /\ walk.rspQ \in Opt(Rsp) /\ tlb.cache \subseteq Version
        /\ l2.queue \in Seq(Tag)
    BY DEF Placed, TypeOK
  <1>5. \A j \in DOMAIN l2.found : l2.found[j] \in Found /\ l2.found[j].tag \in Range(TagsOf(l2.found))
    <2>1. DOMAIN TagsOf(l2.found) = DOMAIN l2.found /\ \A i \in DOMAIN l2.found : TagsOf(l2.found)[i] = l2.found[i].tag
      BY DEF TagsOf
    <2> QED BY <1>4, <2>1 DEF Range
  <1>6. \A f \in Found : f.tag \in Tag /\ f.is \subseteq Version
    BY DEF Found
  <1>7. \A f \in Found : IsBelow(f.tag) /\ (\A v \in f.is : Right(v, f.tag)) => \A v \in f.is : Right(v, f.tag)'
    BY <1>1, <1>6
  <1>8. \A j \in DOMAIN l2.found : IsBelow(l2.found[j].tag) /\ \A v \in l2.found[j].is : Right(v, l2.found[j].tag)
    BY <1>5 DEF IsBelow, AnswerInv
  <1>9. \A r \in Rsp : IsBelow(r.tag) /\ Right(r.ver, r.tag) => Right(r.ver, r.tag)'
    <2>1. \A r \in Rsp : r.tag \in Tag /\ r.ver \in Version
      BY DEF Rsp
    <2> QED BY <1>1, <2>1
  <1>10. ASSUME NEW f, NEW i \in DOMAIN l2'.found, f = l2'.found[i]
         PROVE  \A v \in f.is : Right(v, f.tag)'
    <2>1. CASE \E j \in DOMAIN l2.found : f = l2.found[j]
      BY <1>5, <1>7, <1>8, <2>1
    <2>2. CASE look /\ f = [tag |-> Head(l2.queue), is |-> tlb.cache]
      <3>1. l2.queue # <<>>
        BY <2>2 DEF Chosen
      <3>2. Head(l2.queue) \in Tag /\ Head(l2.queue) \in Range(l2.queue)
        BY <1>4, <3>1 DEF Range
      <3>3. f \in Found /\ f.tag = Head(l2.queue) /\ f.is = tlb.cache
        BY <1>4, <2>2, <3>2 DEF Found
      <3>4. IsBelow(f.tag)
        BY <3>2, <3>3 DEF IsBelow
      <3>5. \A v \in f.is : Right(v, f.tag)
        BY <3>2, <3>3 DEF TlbInv, Right
      <3> QED BY <1>7, <3>3, <3>4, <3>5
    <2> QED BY <1>2, <1>10, <2>1, <2>2
  <1>11. \A i \in DOMAIN l2'.found : \A v \in l2'.found[i].is : Right(v, l2.found[i].tag)'
    <2> SUFFICES ASSUME NEW i \in DOMAIN l2'.found, NEW v \in l2'.found[i].is
                 PROVE  Right(v, l2.found[i].tag)'
      OBVIOUS
    <2>1. PICK f : f = l2'.found[i]
      OBVIOUS
    <2>2. Right(v, f.tag)'
      BY <1>10, <2>1
    <2> QED BY <2>1, <2>2
  <1>12. \A r \in l2'.rsp : Right(r.ver, r.tag)'
    <2>1. CASE Answers
      <3>1. PICK v \in Head(l2.found).is : l2'.rsp = {[tag |-> Head(l2.found).tag, ver |-> v, may |-> TRUE]}
        BY <1>2, <2>1
      <3>2. l2.found # <<>> /\ 1 \in DOMAIN l2.found /\ Head(l2.found) = l2.found[1]
        BY <1>2, <1>4, <2>1
      <3>3. PICK f \in Found : f = Head(l2.found) /\ v \in f.is
        BY <1>5, <3>1, <3>2
      <3>4. Right(v, f.tag)'
        BY <1>7, <1>8, <3>2, <3>3
      <3> QED BY <3>1, <3>3, <3>4
    <2>2. CASE ~Answers
      <3> SUFFICES ASSUME NEW r \in walk.rspQ
                   PROVE  Right(r.ver, r.tag)'
        BY <1>2, <2>2
      <3>1. r \in Rsp
        BY <1>4, OneAtMost
      <3>2. IsBelow(r.tag) /\ Right(r.ver, r.tag)
        BY DEF IsBelow, Tags, WalkInv
      <3> QED BY <1>9, <3>1, <3>2
    <2> QED BY <2>1, <2>2
  <1>13. \A r \in dedup'.rsp : Right(r.ver, r.tag)'
    <2> SUFFICES ASSUME NEW r \in l2.rsp
                 PROVE  Right(r.ver, r.tag)'
      BY <1>3
    <2>1. r \in Rsp
      BY <1>4, OneAtMost
    <2>2. IsBelow(r.tag) /\ Right(r.ver, r.tag)
      BY DEF IsBelow, Tags, AnswerInv
    <2> QED BY <1>9, <2>1, <2>2
  <1> QED BY <1>11, <1>12, <1>13 DEF AnswerInv

LEMMA GoodStays ==
  ASSUME Placed, NEW req, NEW take, NEW next, NEW look, NEW full, NEW other, NEW wait,
         Chosen(req, take, next, look, full, other, wait),
         NEW r \in Rsp, r.tag \in miss.busy, r.tag \notin miss.q, Good(r)
  PROVE  Good(r)'
  <1>1. r.ver \in Nat /\ r.tag \in Tag
    BY DEF Rsp, Version
  <1>2. /\ host.pte \in Nat /\ host'.pte \in Nat /\ host.pte <= host'.pte
        /\ raced' = raced \union NewRaces(take, next)
        /\ \A t \in Tag : due'[t] = IF t \in req THEN Seen ELSE due[t]
        /\ \A t \in Tag : t \in miss'.ok <=> ~Inval /\ (t \in miss.ok \/ t \in miss.q)
        /\ \A t \in req : t \notin miss.busy
        /\ Inval <=> host.inval # "none"
    BY TimeMoves
  <1>3. JoinRace => JoinRace'
    BY <1>2 DEF JoinRace, TlbRace
  <1>4. r.ver <= host'.pte
    BY <1>1, <1>2 DEF Good
  <1>5. r.ver >= due'[r.tag] \/ JoinRace'
    BY <1>1, <1>2, <1>3 DEF Good
  <1>6. r.may /\ r.tag \in miss'.ok => Now(r.ver)'
    <2>1. r.may /\ r.tag \in miss'.ok => Now(r.ver) /\ host.inval # "page"
      BY <1>1, <1>2 DEF Good
    <2> QED BY <2>1, NowStays
  <1> QED BY <1>4, <1>5, <1>6 DEF Good

LEMMA ReturnInvStep ==
  ASSUME Placed, AnswerInv, ChainInv, ReturnInv,
         NEW req, NEW take, NEW next, NEW look, NEW full, NEW other, NEW wait,
         Chosen(req, take, next, look, full, other, wait)
  PROVE  ReturnInv'
  <1>1. /\ Seen' = (IF host.inval = "page" THEN host.pte ELSE Seen)
        /\ Seen \in Nat /\ Seen' \in Nat /\ host.pte \in Nat /\ host'.pte \in Nat
        /\ host.pte <= host'.pte
        /\ raced' = raced \union NewRaces(take, next)
        /\ \A t \in Tag : due[t] \in Nat
    BY TimeMoves
  <1>2. /\ miss'.fifo \in Seq(Rsp) /\ Mixes(miss'.fifo, miss.fifo, GivenBack)
        /\ ~take => miss'.deq = {}
        /\ take => \E b \in BOOLEAN : /\ b <=> Head(miss.fifo).tag \in miss.ok
                                      /\ miss'.deq = {[rsp |-> Head(miss.fifo), ok |-> b]}
        /\ miss'.ins = {d.rsp.ver : d \in {e \in miss.deq : e.ok /\ e.rsp.may}}
    <2>1. miss'.fifo \in Seq(Rsp) /\ Mixes(miss'.fifo, miss.fifo, GivenBack)
      BY MissMoves DEF Placed, Chosen, Cycle
    <2>2. /\ ~take => miss'.deq = {}
          /\ take => \E b \in BOOLEAN : /\ b <=> Head(miss.fifo).tag \in miss.ok
                                        /\ miss'.deq = {[rsp |-> Head(miss.fifo), ok |-> b]}
          /\ miss'.ins = {d.rsp.ver : d \in {e \in miss.deq : e.ok /\ e.rsp.may}}
      BY MissFields DEF Placed, Chosen, Cycle
    <2> QED BY <2>1, <2>2
  <1>3. /\ GivenBack \in Seq(Rsp)
        /\ \A i \in DOMAIN GivenBack :
              \/ GivenBack[i] \in dedup.rsp
              \/ \E r \in dedup.rsp : /\ GivenBack[i].tag \in Range(dedup.chain[r.tag])
                                      /\ GivenBack[i].ver = r.ver /\ GivenBack[i].may = FALSE
    <2>1. TypeOK /\ Apart
      BY DEF Placed
    <2> QED BY <2>1, Given
  <1>4. /\ miss.fifo \in Seq(Rsp) /\ dedup.rsp \in Opt(Rsp) /\ miss.deq \in Opt([rsp : Rsp, ok : BOOLEAN])
        /\ \A r \in Rsp : r.tag \in Tag /\ r.ver \in Nat
    <2>1. miss.fifo \in Seq(Rsp) /\ dedup.rsp \in Opt(Rsp) /\ miss.deq \in Opt([rsp : Rsp, ok : BOOLEAN])
      BY DEF Placed, TypeOK
    <2>2. \A r \in Rsp : r.tag \in Tag /\ r.ver \in Nat
      BY DEF Rsp, Version
    <2> QED BY <2>1, <2>2
  <1>5. \A r \in Rsp : r.tag \in miss.busy /\ r.tag \notin miss.q /\ Good(r) => Good(r)'
    BY GoodStays
  <1>6. \A j \in DOMAIN miss.fifo : /\ miss.fifo[j] \in Rsp /\ Good(miss.fifo[j])
                                    /\ miss.fifo[j].tag \in miss.busy /\ miss.fifo[j].tag \notin miss.q
    <2> SUFFICES ASSUME NEW j \in DOMAIN miss.fifo
                 PROVE  /\ miss.fifo[j] \in Rsp /\ Good(miss.fifo[j])
                        /\ miss.fifo[j].tag \in miss.busy /\ miss.fifo[j].tag \notin miss.q
      OBVIOUS
    <2>1. miss.fifo[j] \in Rsp /\ Good(miss.fifo[j])
      BY <1>4 DEF ReturnInv
    <2>2. DOMAIN TagsOf(miss.fifo) = DOMAIN miss.fifo /\ TagsOf(miss.fifo)[j] = miss.fifo[j].tag
      BY DEF TagsOf
    <2>3. miss.fifo[j].tag \in Tag /\ miss.fifo[j].tag \in Range(TagsOf(miss.fifo))
      BY <1>4, <2>1, <2>2 DEF Range
    <2> QED BY <2>1, <2>3, Carried
  <1>7. ASSUME NEW g \in Rsp,
               \/ g \in dedup.rsp
               \/ \E r \in dedup.rsp : /\ g.tag \in Range(dedup.chain[r.tag])
                                       /\ g.ver = r.ver /\ g.may = FALSE
        PROVE  Good(g)'
    <2>1. CASE g \in dedup.rsp
      <3>1. IsBelow(g.tag) /\ g.tag \in Tag
        BY <1>4, <2>1 DEF IsBelow, Tags
      <3>2. g.tag \in miss.busy /\ g.tag \notin miss.q
        BY <3>1, Carried
      <3>3. Right(g.ver, g.tag)
        BY <2>1 DEF AnswerInv
      <3>4. Good(g)
        BY <3>3 DEF Good, Right, JoinRace
      <3> QED BY <1>5, <3>2, <3>4
    <2>2. CASE \E r \in dedup.rsp : g.tag \in Range(dedup.chain[r.tag]) /\ g.ver = r.ver /\ g.may = FALSE
      <3>1. PICK r \in dedup.rsp : g.tag \in Range(dedup.chain[r.tag]) /\ g.ver = r.ver /\ g.may = FALSE
        BY <2>2
      <3>2. r \in Rsp /\ g.tag \in Tag /\ r.tag \in Tag
        BY <1>4, OneAtMost
      <3>3. IsBelow(r.tag) /\ Shares(g.tag)
        BY <3>1, <3>2 DEF IsBelow, Shares, Tags
      <3>4. g.tag \in miss.busy /\ g.tag \notin miss.q
        BY <3>2, <3>3, Carried
      <3>5. due[g.tag] = due[r.tag] \/ "join" \in raced
        BY <3>1, <3>2, <3>3 DEF ChainInv
      <3>6. Right(r.ver, r.tag)
        BY DEF AnswerInv
      <3>7. Good(g)
        BY <3>1, <3>5, <3>6 DEF Good, Right, JoinRace
      <3> QED BY <1>5, <3>4, <3>7
    <2> QED BY <1>7, <2>1, <2>2
  <1>8. \A i \in DOMAIN miss'.fifo : Good(miss.fifo[i])'
    <2> SUFFICES ASSUME NEW i \in DOMAIN miss'.fifo
                 PROVE  Good(miss.fifo[i])'
      OBVIOUS
    <2>1. PICK r : r = miss'.fifo[i]
      OBVIOUS
    <2>2. (\E j \in DOMAIN miss.fifo : r = miss.fifo[j]) \/ (\E k \in DOMAIN GivenBack : r = GivenBack[k])
      BY <1>2, <2>1 DEF Mixes
    <2>3. CASE \E j \in DOMAIN miss.fifo : r = miss.fifo[j]
      <3>1. r \in Rsp /\ r.tag \in miss.busy /\ r.tag \notin miss.q /\ Good(r)
        BY <1>6, <2>3
      <3>2. Good(r)'
        BY <1>5, <3>1
      <3> QED BY <2>1, <3>2
    <2>4. CASE \E k \in DOMAIN GivenBack : r = GivenBack[k]
      <3>1. /\ r \in Rsp
            /\ \/ r \in dedup.rsp
               \/ \E s \in dedup.rsp : /\ r.tag \in Range(dedup.chain[s.tag])
                                       /\ r.ver = s.ver /\ r.may = FALSE
        BY <1>3, <2>4
      <3>2. Good(r)'
        BY <1>7, <3>1
      <3> QED BY <2>1, <3>2
    <2> QED BY <2>2, <2>3, <2>4
  <1>9. host.inval = "page" => L1Race' \/ ~\E d \in miss.deq : d.ok /\ d.rsp.may
    <2>1. host.inval = "page" /\ (\E d \in miss.deq : d.ok /\ d.rsp.may) => "deq" \in NewRaces(take, next)
      BY DEF NewRaces, Races
    <2> QED BY <1>1, <2>1 DEF L1Race
  <1>10. (L1Race => L1Race') /\ (TlbRace => L1Race')
    BY <1>1 DEF L1Race, TlbRace
  <1>11. \A d \in miss'.deq : /\ d.rsp.ver <= host'.pte /\ (d.rsp.ver >= due'[d.rsp.tag] \/ JoinRace')
                              /\ d.rsp.may /\ d.ok => d.rsp.ver >= Seen' \/ L1Race'
    <2> SUFFICES ASSUME NEW d \in miss'.deq
                 PROVE  /\ d.rsp.ver <= host'.pte /\ (d.rsp.ver >= due'[d.rsp.tag] \/ JoinRace')
                        /\ d.rsp.may /\ d.ok => d.rsp.ver >= Seen' \/ L1Race'
      OBVIOUS
    <2>1. take
      BY <1>2 DEF Chosen
    <2>2. PICK b \in BOOLEAN : (b <=> Head(miss.fifo).tag \in miss.ok) /\ d = [rsp |-> Head(miss.fifo), ok |-> b]
      BY <1>2, <2>1
    <2>3. 1 \in DOMAIN miss.fifo /\ Head(miss.fifo) = miss.fifo[1]
      BY <1>4, <2>1 DEF Chosen
    <2>4. PICK r : r = Head(miss.fifo)
      OBVIOUS
    <2>5. r \in Rsp /\ Good(r) /\ r.tag \in miss.busy /\ r.tag \notin miss.q
      BY <1>6, <2>3, <2>4
    <2>6. Good(r)'
      BY <1>5, <2>5
    <2>7. d.rsp = r /\ (d.ok => r.tag \in miss.ok)
      BY <2>2, <2>4
    <2>8. d.rsp.ver <= host'.pte /\ (d.rsp.ver >= due'[d.rsp.tag] \/ JoinRace')
      BY <2>6, <2>7 DEF Good
    <2>9. ASSUME r.may, r.tag \in miss.ok
          PROVE  r.ver >= Seen' \/ L1Race'
      <3>1. CASE host.inval = "page"
        <4>1. "deq" \in NewRaces(take, next)
          BY <2>1, <2>4, <2>9, <3>1 DEF NewRaces, Races
        <4> QED BY <1>1, <4>1 DEF L1Race
      <3>2. CASE host.inval # "page"
        <4>1. Now(r.ver) /\ Seen' = Seen
          BY <1>1, <2>5, <2>9, <3>2 DEF Good
        <4> QED BY <1>10, <4>1 DEF Now
      <3> QED BY <3>1, <3>2
    <2> QED BY <2>7, <2>8, <2>9
  <1>12. \A v \in miss'.ins : v <= host'.pte /\ (v >= Seen' \/ L1Race')
    <2> SUFFICES ASSUME NEW d \in miss.deq, d.ok, d.rsp.may
                 PROVE  d.rsp.ver <= host'.pte /\ (d.rsp.ver >= Seen' \/ L1Race')
      BY <1>2
    <2>1. d.rsp.ver \in Nat
      <3>1. \A S : \A o \in Opt(S) : o \subseteq S
        BY OneAtMost
      <3>2. miss.deq \subseteq [rsp : Rsp, ok : BOOLEAN]
        BY <1>4, <3>1
      <3>3. d.rsp \in Rsp
        BY <3>2
      <3> QED BY <1>4, <3>3
    <2>2. d.rsp.ver <= host.pte /\ (d.rsp.ver >= Seen \/ L1Race)
      BY DEF ReturnInv
    <2>3. d.rsp.ver <= host'.pte
      BY <1>1, <2>1, <2>2
    <2>4. d.rsp.ver >= Seen' \/ L1Race'
      BY <1>1, <1>9, <1>10, <2>2
    <2> QED BY <2>3, <2>4
  <1> QED BY <1>8, <1>11, <1>12 DEF ReturnInv

-----------------------------------------------------------------------------
(* L1, and the duplicates.                                                 *)

LEMMA L1InvStep ==
  ASSUME Placed, ReturnInv, L1Inv, NEW req, NEW take, NEW next, NEW look, NEW full, NEW other, NEW wait,
         Chosen(req, take, next, look, full, other, wait)
  PROVE  L1Inv'
  <1>1. /\ Seen' = (IF host.inval = "page" THEN host.pte ELSE Seen)
        /\ Seen \in Nat /\ host.pte \in Nat /\ host'.pte \in Nat /\ host.pte <= host'.pte
        /\ raced' = raced \union NewRaces(take, next)
    BY TimeMoves
  <1>2. /\ l1'.cache = IF l1.wr = {} THEN l1.cache ELSE The(l1.wr)
        /\ l1'.wr = CASE host.inval = "page" -> {{}}
                      [] host.inval = "other" -> {}
                      [] OTHER -> {{v} : v \in miss.ins}
    BY L1Moves DEF Placed, Chosen, Cycle
  <1>3. l1.cache \in Opt(Version) /\ l1.wr \in Opt(Opt(Version)) /\ miss.ins \in Opt(Version)
    BY DEF Placed, TypeOK
  <1>4. L1Race => L1Race'
    BY <1>1 DEF L1Race, TlbRace
  <1>5. \A S : \A o \in Opt(S) : o \subseteq S /\ (o # {} => The(o) \in S /\ o = {The(o)})
    BY OneAtMost
  <1>6. \A v \in Version : v \in Nat
    BY DEF Version
  <1>7. \A v \in l1'.cache : v <= host'.pte /\ (l1'.wr # {{}} => v >= Seen' \/ L1Race')
    <2> SUFFICES ASSUME NEW v \in l1'.cache
                 PROVE  v <= host'.pte /\ (l1'.wr # {{}} => v >= Seen' \/ L1Race')
      OBVIOUS
    <2>1. v \in Nat /\ v <= host.pte /\ (v >= Seen \/ L1Race)
      <3>1. CASE l1.wr = {}
        <4>1. v \in l1.cache /\ l1.wr # {{}}
          BY <1>2, <3>1
        <4> QED BY <1>3, <1>5, <1>6, <4>1 DEF L1Inv
      <3>2. CASE l1.wr # {}
        <4>1. PICK c : c = The(l1.wr)
          OBVIOUS
        <4>2. c \in l1.wr /\ c \in Opt(Version) /\ v \in c
          BY <1>2, <1>3, <1>5, <3>2, <4>1
        <4> QED BY <1>5, <1>6, <4>2 DEF L1Inv
      <3> QED BY <3>1, <3>2
    <2>2. l1'.wr # {{}} => Seen' = Seen
      BY <1>1, <1>2
    <2>3. v <= host'.pte
      BY <1>1, <2>1
    <2> QED BY <1>4, <2>1, <2>2, <2>3
  <1>8. \A c \in l1'.wr : \A v \in c : v <= host'.pte /\ (v >= Seen' \/ L1Race')
    <2> SUFFICES ASSUME NEW c \in l1'.wr, NEW v \in c
                 PROVE  v <= host'.pte /\ (v >= Seen' \/ L1Race')
      OBVIOUS
    <2>1. host.inval # "page" /\ v \in miss.ins
      BY <1>2
    <2>2. v \in Nat /\ v <= host.pte /\ (v >= Seen \/ L1Race)
      BY <1>3, <1>5, <1>6, <2>1 DEF ReturnInv
    <2> QED BY <1>1, <1>4, <2>1, <2>2
  <1> QED BY <1>7, <1>8 DEF L1Inv

LEMMA ChainInvStep ==
  ASSUME Placed, ChainInv, NEW req, NEW take, NEW next, NEW look, NEW full, NEW other, NEW wait,
         Chosen(req, take, next, look, full, other, wait)
  PROVE  ChainInv'
  <1>1. /\ raced' = raced \union NewRaces(take, next)
        /\ \A t \in Tag : due'[t] = IF t \in req THEN Seen ELSE due[t]
        /\ \A t \in req : t \notin miss.busy
    BY TimeMoves
  <1>2. \A t \in Tag : IsBelow(t) \/ Shares(t) \/ t \in Range(dedup.fifo) => due'[t] = due[t]
    BY <1>1, Carried
  <1>3. \A t \in Tag : IsBelow(t)' =>
           /\ \A e \in Tag : e \in Range(dedup'.chain[t]) <=>
                 \/ ~Passes(next, t) /\ e \in Range(dedup.chain[t])
                 \/ Joins(next, t) /\ e = Head(dedup.fifo)
           /\ ~Passes(next, t) => IsBelow(t)
    BY ShareMoves DEF Placed
  <1>4. Own(next) => Head(dedup.fifo) \in Tag /\ Head(dedup.fifo) \in Range(dedup.fifo)
    <2>1. \A y \in Seq(Tag) : y # <<>> => Head(y) \in Tag /\ Head(y) \in Range(y)
      BY DEF Range
    <2>2. dedup.fifo \in Seq(Tag) /\ (Own(next) => dedup.fifo # <<>>)
      BY DEF Placed, TypeOK, Chosen
    <2> QED BY <2>1, <2>2
  <1> SUFFICES ASSUME NEW t \in Tag, NEW u \in Tag, IsBelow(t)', u \in Range(dedup'.chain[t])
               PROVE  due'[u] = due'[t] \/ "join" \in raced'
    BY DEF ChainInv
  <1>5. CASE ~Passes(next, t) /\ u \in Range(dedup.chain[t])
    <2>1. IsBelow(t) /\ Shares(u)
      BY <1>3, <1>5 DEF Shares
    <2>2. due[u] = due[t] \/ "join" \in raced
      BY <1>5, <2>1 DEF ChainInv
    <2> QED BY <1>1, <1>2, <2>1, <2>2
  <1>6. CASE Joins(next, t) /\ u = Head(dedup.fifo)
    <2>1. IsDup(next) /\ t = The(dedup.cur) /\ ~Passes(next, t)
      BY <1>6, OwnSplit DEF Joins, Passes
    <2>2. IsBelow(t) /\ u \in Range(dedup.fifo)
      BY <1>3, <1>4, <1>6, <2>1, OwnSplit
    <2>3. due[t] # due[u] => "join" \in NewRaces(take, next)
      BY <1>6, <2>1 DEF NewRaces, Races
    <2> QED BY <1>1, <1>2, <2>2, <2>3
  <1> QED BY <1>3, <1>5, <1>6

-----------------------------------------------------------------------------
(* Every step.                                                             *)

LEMMA FreshInit == Init => Fresh
  <1> SUFFICES ASSUME Init PROVE Fresh
    OBVIOUS
  <1>1. Placed /\ TypeOK /\ HostOK
    BY PlacedInit DEF Placed
  <1>2. Seen = 0
    BY DEF Init, Seen
  <1>3. HostInv
    BY <1>2 DEF Init, HostInv
  <1>4. TlbInv
    BY DEF Init, TlbInv
  <1>5. HistInv
    BY DEF Init, HistInv
  <1>6. WalkInv
    BY DEF Init, WalkInv, Looks, Reads
  <1>7. LinesInv
    <2>1. \A v : ~Kept(v)
      BY DEF Init, Kept
    <2> QED BY <2>1 DEF Init, LinesInv
  <1>8. AnswerInv
    BY DEF Init, AnswerInv
  <1>9. ReturnInv
    BY DEF Init, ReturnInv
  <1>10. L1Inv
    BY DEF Init, L1Inv
  <1>11. ChainInv
    <2>1. \A t \in Tag : dedup.chain[t] = <<>>
      BY DEF Init
    <2>2. Range(<<>>) = {}
      BY NoneTagged
    <2> QED BY <2>1, <2>2 DEF ChainInv
  <1> QED BY <1>3, <1>4, <1>5, <1>6, <1>7, <1>8, <1>9, <1>10, <1>11 DEF Fresh

LEMMA FreshStep == Placed /\ Fresh /\ [Next]_vars => Fresh'
  <1> SUFFICES ASSUME Placed, Fresh, [Next]_vars PROVE Fresh'
    OBVIOUS
  <1>1. HostInv /\ TlbInv /\ HistInv /\ WalkInv /\ LinesInv /\ AnswerInv /\ ReturnInv /\ L1Inv /\ ChainInv
    BY DEF Fresh
  <1>2. CASE Next
    <2>1. PICK req, take, next, look, full, other, wait : Chosen(req, take, next, look, full, other, wait)
      BY <1>2, Chooses
    <2>2. HostInv'
      BY <1>1, <2>1, HostInvStep
    <2>3. TlbInv'
      BY <1>1, <2>1, TlbInvStep
    <2>4. HistInv'
      BY <1>1, <2>1, HistInvStep
    <2>5. WalkInv'
      BY <1>1, <2>1, WalkInvStep
    <2>6. LinesInv'
      BY <1>1, <2>1, LinesInvStep
    <2>7. AnswerInv'
      BY <1>1, <2>1, AnswerInvStep
    <2>8. ReturnInv'
      BY <1>1, <2>1, ReturnInvStep
    <2>9. L1Inv'
      BY <1>1, <2>1, L1InvStep
    <2>10. ChainInv'
      BY <1>1, <2>1, ChainInvStep
    <2> QED BY <2>2, <2>3, <2>4, <2>5, <2>6, <2>7, <2>8, <2>9, <2>10 DEF Fresh
  <1>3. CASE UNCHANGED vars
    <2>1. /\ UNCHANGED host /\ UNCHANGED l1 /\ UNCHANGED miss /\ UNCHANGED dedup /\ UNCHANGED l2
          /\ UNCHANGED tlb /\ UNCHANGED walk /\ UNCHANGED lines /\ UNCHANGED due /\ UNCHANGED raced
      BY <1>3 DEF vars
    <2>2. UNCHANGED Seen
      BY <2>1 DEF Seen
    <2>3. \A v : Now(v)' <=> Now(v)
      BY <2>1, <2>2 DEF Now, TlbRace
    <2>4. \A v, t : Right(v, t)' <=> Right(v, t)
      BY <2>1, <2>3 DEF Right, TlbRace
    <2>5. HostInv'
      BY <1>1, <2>1, <2>2 DEF HostInv
    <2>6. TlbInv'
      BY <1>1, <2>1, <2>2 DEF TlbInv, Now, TlbRace
    <2>7. HistInv'
      BY <1>1, <2>1 DEF HistInv
    <2>8. WalkInv'
      BY <1>1, <2>1, <2>2 DEF WalkInv, Right, Now, TlbRace
    <2>9. LinesInv'
      BY <1>1, <2>1, <2>2 DEF LinesInv, Kept, LinesRace
    <2>10. AnswerInv'
      BY <1>1, <2>1, <2>2 DEF AnswerInv, Right, Now, TlbRace
    <2>11. ReturnInv'
      BY <1>1, <2>1, <2>2 DEF ReturnInv, Good, Now, TlbRace, JoinRace, L1Race
    <2>12. L1Inv'
      BY <1>1, <2>1, <2>2 DEF L1Inv, L1Race, TlbRace
    <2>13. ChainInv'
      BY <1>1, <2>1 DEF ChainInv, IsBelow
    <2> QED BY <2>5, <2>6, <2>7, <2>8, <2>9, <2>10, <2>11, <2>12, <2>13 DEF Fresh
  <1> QED BY <1>2, <1>3

LEMMA AlwaysFresh == Spec => [](Placed /\ Fresh)
  <1>1. Init => Placed /\ Fresh
    BY PlacedInit, FreshInit
  <1>2. Placed /\ Fresh /\ [Next]_vars => (Placed /\ Fresh)'
    BY PlacedStep, FreshStep
  <1> QED BY <1>1, <1>2, PTL DEF Spec

-----------------------------------------------------------------------------
(* The properties.                                                         *)

LEMMA IsFresh == Placed /\ Fresh => CachesFresh
  <1> SUFFICES ASSUME Placed, Fresh PROVE CachesFresh
    OBVIOUS
  <1>1. TypeOK
    BY DEF Placed
  <1>2. host.pte \in Nat /\ \A v \in Version : v \in Nat
    BY DEF Placed, TypeOK, Version
  <1>3. Settled => Seen = host.pte
    BY DEF Settled, Seen, Inval
  <1>4. L1Fresh
    <2> SUFFICES ASSUME Settled, l1.wr # {{}}, raced \ {"check"} = {}, NEW v \in l1.cache
                 PROVE  v = host.pte
      BY DEF L1Fresh
    <2>1. ~L1Race
      BY DEF L1Race, TlbRace
    <2>2. v <= host.pte /\ v >= Seen
      BY <2>1 DEF Fresh, L1Inv
    <2>3. v \in Nat
      <3>1. l1.cache \in Opt(Version)
        BY DEF Placed, TypeOK
      <3> QED BY <1>2, <3>1, OneAtMost
    <2> QED BY <1>2, <1>3, <2>2, <2>3
  <1>5. L2Fresh
    <2> SUFFICES ASSUME Settled, tlb.wr # {{}}, raced \intersect {"lookup", "late"} = {}, NEW v \in tlb.cache
                 PROVE  v = host.pte
      BY DEF L2Fresh
    <2>1. v <= host.pte /\ v >= Seen
      BY DEF Fresh, TlbInv, Now, TlbRace
    <2>2. v \in Nat
      BY <1>2 DEF Placed, TypeOK
    <2> QED BY <1>2, <1>3, <2>1, <2>2
  <1>6. LinesFresh
    <2> SUFFICES ASSUME Settled, ~lines.n1, ~lines.n0, lines.reset = 0, "late" \notin raced, NEW v \in lines.cache
                 PROVE  v = host.pte
      BY DEF LinesFresh
    <2>1. v \in Version
      <3>1. lines.cache \in Opt(Version)
        BY DEF Placed, TypeOK
      <3> QED BY <3>1, OneAtMost
    <2>2. v <= host.pte /\ v >= Seen
      BY <2>1 DEF Fresh, LinesInv, Kept, LinesRace
    <2> QED BY <1>2, <1>3, <2>1, <2>2
  <1>7. HistoryTrue
    <2> SUFFICES ASSUME tlb.hist, tlb.st = "idle", tlb.wr = {}
                 PROVE  tlb.cache # {} \/ "check" \in raced
      BY DEF HistoryTrue
    <2>1. UNION tlb.wr = {}
      OBVIOUS
    <2> QED BY <2>1 DEF Fresh, HistInv
  <1> QED BY <1>1, <1>4, <1>5, <1>6, <1>7 DEF CachesFresh

\* An invalidation of a page reaches the L1 TLB, the L2 TLB and the walker's
\* cache of lines: none of them keeps what the page was, whatever is under way
\* when the pulse comes, but for the races that are named; and the history by
\* which the L2 TLB drops duplicate fills is true.  For any number of requests,
\* changes and any sizes with which the walker's cache of lines and the time
\* without fills are built.
THEOREM InvalidationsReach == Spec => []CachesFresh
  BY AlwaysFresh, IsFresh, PTL

\* No request is answered with a translation that was invalidated before it was
\* made, but for those races; each request gets one answer, and until then it is
\* in one place between the miss and the answer.
THEOREM AnswersAreRight == Spec => []AnswersRight
  <1>1. Placed /\ Fresh => AnswersRight
    <2> SUFFICES ASSUME Placed, Fresh PROVE AnswersRight
      OBVIOUS
    <2>1. AnswersFresh
      <3> SUFFICES ASSUME NEW d \in miss.deq
                   PROVE  d.rsp.ver >= due[d.rsp.tag] \/ raced \ {"check"} # {}
        BY DEF AnswersFresh
      <3>1. d.rsp.ver >= due[d.rsp.tag] \/ JoinRace
        BY DEF Fresh, ReturnInv
      <3> QED BY <3>1 DEF JoinRace, TlbRace
    <2>2. AnsweredOnce
      BY IsPlaced
    <2> QED BY <2>1, <2>2 DEF AnswersRight
  <1> QED BY <1>1, AlwaysFresh, PTL
=============================================================================
