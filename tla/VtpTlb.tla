------------------------------- MODULE VtpTlb -------------------------------
(***************************************************************************)
(* The caches of translations in the FPGA, and their invalidation: the     *)
(* private L1 TLB of a port with its miss handler (mpf_svc_vtp_l1_caches,  *)
(* mpf_svc_vtp_l1_miss), the filter of duplicate requests below it         *)
(* (mpf_svc_vtp_l2_dedup), the shared L2 TLB (mpf_svc_vtp_l2,              *)
(* mpf_svc_vtp_l2_tlb) and the hardware page walker with its cache of page *)
(* table lines (mpf_svc_vtp_pt_walk).                                      *)
(*                                                                         *)
(* The software changes the page table in memory and then invalidates the  *)
(* page by a CSR, whose pulse all of them see in the same cycle.           *)
(* Translations are on their way between them all the time, and each has   *)
(* its own means of not caching one that the pulse has overtaken: L1 a bit *)
(* per request, L2 a few cycles without fills, the walker a bit of the     *)
(* walk, its cache a reset.                                                *)
(*                                                                         *)
(* A step is a clock cycle, and a register that may be empty a set of no   *)
(* element or one.  One page is followed; others appear as what they do to *)
(* it.  What waits for queues of other requests, for memory or for the AFU *)
(* may wait any number of cycles.                                          *)
(***************************************************************************)
EXTENDS Naturals, Sequences, FiniteSets, Functions

CONSTANTS
    Tag,        \* numbers of requests of the port in progress
    Changes,    \* bound on the invalidations, of this page and of others
    Hold,       \* cycles without fills of the L2 TLB
    Line,       \* PT_WORDS_PER_LINE, cycles in which a line is cached
    Reset       \* cycles in which the cache of lines is reset: PT_CACHE_ENTRIES

ASSUME TlbAssumption ==
    /\ IsFiniteSet(Tag) /\ Tag # {}
    /\ Changes \in Nat /\ Hold \in Nat /\ Hold >= 3 /\ Line \in Nat \ {0} /\ Reset \in Nat /\ Reset > Line

VARIABLES
    host,   \* the translation in memory; whether it awaits its invalidation; the pulse
    l1,     \* the L1 TLB and the write that it will take
    miss,   \* L1 misses: requests on their way to L2, responses on their way back
    dedup,  \* the filter between them
    l2,     \* requests to the L2 TLB, what was found for them, and its response
    tlb,    \* the L2 TLB, the write it will take, its fills
    walk,   \* the page walker and its response
    lines,  \* the walker's cache of page table lines
    due,    \* history: the translation that was in force when a request was made
    raced   \* history: invalidations that came at a moment that is not covered

vars == <<host, l1, miss, dedup, l2, tlb, walk, lines, due, raced>>

\* Translations of the page are numbered as they follow each other.
Version == 0 .. Changes

Opt(S) == {{}} \union {{x} : x \in S}
Rsp == [tag : Tag, ver : Version, may : BOOLEAN]
Found == [tag : Tag, is : SUBSET Version]
Races == {"deq", "lookup", "late", "join", "check"}

WalkStates == {"idle", "lookup", "look1", "look2", "look3", "read", "sent", "sampled",
               "data1", "data2", "found", "done"}
FillStates == {"idle", "check", "dups", "req", "recv", "insert"}

TypeOK ==
    /\ host \in [pte : Version, owed : BOOLEAN, inval : {"none", "page", "other"},
                 others : 0 .. Changes]
    /\ l1 \in [cache : Opt(Version), wr : Opt(Opt(Version))]
    /\ miss.q \in Opt(Tag) /\ miss.svc \in Opt(Tag) /\ miss.ok \subseteq Tag
    /\ miss.busy \subseteq Tag /\ miss.fifo \in Seq(Rsp) /\ Len(miss.fifo) <= Cardinality(Tag)
    /\ miss.deq \in Opt([rsp : Rsp, ok : BOOLEAN]) /\ miss.ins \in Opt(Version)
    /\ dedup.fifo \in Seq(Tag) /\ Len(dedup.fifo) <= Cardinality(Tag)
    /\ dedup.cur \in Opt(Tag)
    /\ dedup.chain \in [Tag -> Seq(Tag)] /\ dedup.out \in Opt(Tag) /\ dedup.rsp \in Opt(Rsp)
    /\ l2.queue \in Seq(Tag) /\ l2.found \in Seq(Found) /\ l2.rsp \in Opt(Rsp)
    /\ tlb \in [cache : SUBSET Version, wr : Opt(Opt(Version)), fe : Opt(Version),
                st : FillStates, ver : Version, hold : BOOLEAN, cnt : 0 .. Hold - 1,
                hist : BOOLEAN, checked : BOOLEAN, notDup : BOOLEAN]
    /\ walk.queue \in Seq(Tag) /\ walk.req \in Opt(Tag) /\ walk.st \in WalkStates
    /\ walk.hit \in Opt(Version) /\ walk.ver \in Version /\ walk.tag \in Tag
    /\ walk.cacheable \in BOOLEAN /\ walk.en \in Opt([tag : Tag, ver : Version])
    /\ walk.rsp \in Opt(Rsp) /\ walk.rspQ \in Opt(Rsp)
    /\ lines \in [cache : Opt(Version), n1 : BOOLEAN, n0 : BOOLEAN, reset : 0 .. Reset,
                  ins : 0 .. Line + 1, ver : Version]
    /\ due \in [Tag -> Version] /\ raced \subseteq Races

Init ==
    /\ host = [pte |-> 0, owed |-> FALSE, inval |-> "none", others |-> 0]
    /\ l1 = [cache |-> {}, wr |-> {}]
    /\ miss = [q |-> {}, svc |-> {}, ok |-> {}, busy |-> {}, fifo |-> <<>>, deq |-> {},
               ins |-> {}]
    /\ dedup = [fifo |-> <<>>, cur |-> {}, chain |-> [t \in Tag |-> <<>>], out |-> {}, rsp |-> {}]
    /\ l2 = [queue |-> <<>>, found |-> <<>>, rsp |-> {}]
    /\ tlb = [cache |-> {}, wr |-> {}, fe |-> {}, st |-> "idle", ver |-> 0, hold |-> FALSE,
              cnt |-> 0, hist |-> FALSE, checked |-> FALSE, notDup |-> FALSE]
    /\ walk = [queue |-> <<>>, req |-> {}, st |-> "idle", hit |-> {}, ver |-> 0,
               tag |-> CHOOSE t \in Tag : TRUE, cacheable |-> FALSE, en |-> {}, rsp |-> {},
               rspQ |-> {}]
    /\ lines = [cache |-> {}, n1 |-> FALSE, n0 |-> FALSE, reset |-> 0, ins |-> 0, ver |-> 0]
    /\ due = [t \in Tag |-> 0] /\ raced = {}

Inval == host.inval # "none"
The(S) == CHOOSE x \in S : TRUE
AsSeq(S) == IF S = {} THEN <<>> ELSE <<The(S)>>
Rest(s, take) == IF take THEN Tail(s) ELSE s
After(cache, wr) == IF wr = {} THEN cache ELSE The(wr)

-----------------------------------------------------------------------------
(* The host.                                                               *)

\* The software changes the entry in memory, and then invalidates the page.
\* The CSR is the same for every page.
NextHost ==
    \/ /\ host.pte + host.others < Changes /\ ~host.owed
       /\ host' = [host EXCEPT !.pte = @ + 1, !.owed = TRUE, !.inval = "none"]
    \/ host.owed /\ host' = [host EXCEPT !.owed = FALSE, !.inval = "page"]
    \/ /\ host.pte + host.others < Changes
       /\ host' = [host EXCEPT !.others = @ + 1, !.inval = "other"]
    \/ host' = [host EXCEPT !.inval = "none"]

\* The translation that a request which is made now has to find.
Seen == IF host.owed \/ host.inval = "page" THEN host.pte - 1 ELSE host.pte

-----------------------------------------------------------------------------
(* L1.                                                                     *)

\* An invalidation goes before a fill.
NextL1 ==
    l1' = [cache |-> After(l1.cache, l1.wr),
           wr |-> CASE host.inval = "page" -> {{}}
                    [] host.inval = "other" -> {}
                    [] OTHER -> {{v} : v \in miss.ins}]

\* Mutant: requests in flight are not poisoned.
NotPoisoned_Kept == miss.ok \union miss.q

\* heap_entry_not_poisoned: a request is not poisoned until the pulse comes.
NotPoisoned == IF Inval THEN {} ELSE miss.ok \union miss.q

\* What the filter gives back in a cycle: the response, and copies of it for the
\* duplicates, which are not cached.
Copy(r, t) == [r EXCEPT !.tag = t, !.may = FALSE]
Copies(r) == [i \in DOMAIN dedup.chain[r.tag] |-> Copy(r, dedup.chain[r.tag][i])]
GivenBack == IF dedup.rsp = {} THEN <<>>
             ELSE AsSeq(dedup.rsp) \o Copies(The(dedup.rsp))

\* A miss is sent to L2 under a tag that is free.  A response is taken when the
\* AFU's channel is open, and fills L1 two cycles later.
NextMiss(req, take) ==
    miss' = [q    |-> req,
             svc  |-> miss.q,
             ok   |-> NotPoisoned,
             busy |-> (miss.busy \union req) \ {d.rsp.tag : d \in miss.deq},
             fifo |-> Rest(miss.fifo, take) \o GivenBack,
             deq  |-> IF take THEN {[rsp |-> Head(miss.fifo), ok |-> Head(miss.fifo).tag \in miss.ok]}
                      ELSE {},
             ins  |-> {d.rsp.ver : d \in {e \in miss.deq : e.ok /\ e.rsp.may}}]

-----------------------------------------------------------------------------
(* The filter of duplicates.                                               *)

\* What the filter takes in a cycle: nothing, a request of another page, or the
\* next one of this page.  That one came right after another of the page, with
\* the same flag for speculation (next_req_addr_matches_prev), or it did not.
Takes == {"none", "away", "same", "apart"}
Own(next) == next \in {"same", "apart"}

\* next_req_is_dup, and a request that is passed on.
IsDup(next)  == next = "same" /\ dedup.cur # {}
IsBase(next) == Own(next) /\ ~IsDup(next)

\* Mutant: the answer does not end the collection of duplicates.
Collecting_Always(next) ==
    IF IsBase(next) THEN {Head(dedup.fifo)} ELSE IF next = "away" THEN {} ELSE dedup.cur

\* cur_req_valid, cur_req_tag: duplicates of the newest request are collected
\* until its answer comes, or until another request takes its place.
Collecting(next) ==
    IF IsBase(next) THEN {Head(dedup.fifo)}
    ELSE IF next = "away" \/ \E r \in l2.rsp : r.tag \in dedup.cur THEN {}
    ELSE dedup.cur

\* Mutant: the tail pointer is written for duplicates only.
Chain_Kept(next) ==
    IF IsDup(next)
    THEN [dedup.chain EXCEPT ![The(dedup.cur)] = Append(@, Head(dedup.fifo))]
    ELSE dedup.chain

\* next_ptr, tail_ptr: the duplicates that share the answer of a request.
Chain(next) ==
    IF IsDup(next) THEN [dedup.chain EXCEPT ![The(dedup.cur)] = Append(@, Head(dedup.fifo))]
    ELSE IF IsBase(next) THEN [dedup.chain EXCEPT ![Head(dedup.fifo)] = <<>>]
    ELSE dedup.chain

NextDedup(next) ==
    dedup' = [fifo  |-> Rest(dedup.fifo, Own(next)) \o AsSeq(miss.svc),
              cur   |-> Collecting(next),
              chain |-> Chain(next),
              out   |-> IF IsBase(next) THEN {Head(dedup.fifo)} ELSE {},
              rsp   |-> l2.rsp]

-----------------------------------------------------------------------------
(* L2: requests.                                                           *)

Hit == l2.found # <<>> /\ Head(l2.found).is # {}
Missed == l2.found # <<>> /\ Head(l2.found).is = {}

\* A miss goes to the walker, whose queue may be full of other requests.
Walks(full) == Missed /\ ~full

\* A request reads the TLB when its turn comes.  The walker's responses go
\* before those of the TLB, and a miss that waits holds up what is behind it.
NextL2(look, full) ==
    LET hit == Hit /\ walk.rspQ = {}
    IN  \E v \in IF hit THEN Head(l2.found).is ELSE {0} :
            l2' = [queue |-> Rest(l2.queue, look) \o AsSeq(dedup.out),
                   found |-> Rest(l2.found, hit \/ Walks(full))
                             \o (IF look THEN <<[tag |-> Head(l2.queue), is |-> tlb.cache]>>
                                 ELSE <<>>),
                   rsp   |-> IF hit THEN {[tag |-> Head(l2.found).tag, ver |-> v, may |-> TRUE]}
                             ELSE walk.rspQ]

-----------------------------------------------------------------------------
(* L2: fills.                                                              *)

\* Mutant: the fills that are on their way are not waited for.
NoFill_Now == Inval

\* Fills are off in the cycle of the pulse and for a few more.
NoFill == Inval \/ tlb.hold

NextFill ==
    IF NoFill THEN "idle"
    ELSE CASE tlb.st = "idle"   -> IF tlb.fe = {} THEN "idle" ELSE "check"
           [] tlb.st = "check"  -> "dups"
           [] tlb.st = "dups"   -> IF tlb.notDup THEN "req" ELSE "idle"
           [] tlb.st = "req"    -> "recv"
           [] tlb.st = "recv"   -> "insert"
           [] tlb.st = "insert" -> "idle"

\* Mutant: the history outlives an invalidation.
History_Kept == tlb.hist \/ (tlb.checked /\ tlb.notDup)

\* drop_dups: whether the page is among those that were filled last.
History == ~Inval /\ (tlb.hist \/ (tlb.checked /\ tlb.notDup))

\* other: a page of the same set is filled, or four pages of any set.  It may
\* take the place of this one, or not; so may a second fill of this page.
NextTlb(other) ==
    \E gone \in BOOLEAN :
        /\ gone => tlb.cache # {} /\ (other \/ tlb.wr \notin {{}, {{}}})
        /\ tlb' = [cache |-> IF tlb.wr = {{}} THEN {}
                             ELSE (IF gone THEN {} ELSE tlb.cache) \union UNION tlb.wr,
                   wr    |-> CASE host.inval = "page" -> {{}}
                               [] host.inval = "other" -> {}
                               [] OTHER -> IF tlb.st = "insert" THEN {{tlb.ver}} ELSE {},
                   fe    |-> {r.ver : r \in {s \in walk.rspQ : s.may}},
                   st    |-> NextFill,
                   ver   |-> IF tlb.st = "idle" /\ tlb.fe # {} THEN The(tlb.fe) ELSE tlb.ver,
                   hold  |-> Inval \/ tlb.cnt # 0,
                   cnt   |-> IF Inval THEN Hold - 1 ELSE IF tlb.cnt = 0 THEN 0 ELSE tlb.cnt - 1,
                   hist  |-> History /\ ~other,
                   checked |-> tlb.st = "check",
                   notDup  |-> ~tlb.hist]

-----------------------------------------------------------------------------
(* The page walker.                                                        *)

\* Mutant: a walk stays cacheable when its page is invalidated.
Cacheable_Kept == walk.cacheable \/ (walk.st = "idle" /\ walk.req # {})

\* rsp_is_cacheable: no invalidation since the walk began.
Cacheable == ~Inval /\ (walk.cacheable \/ (walk.st = "idle" /\ walk.req # {}))

\* The cache of lines is used when it is neither reset nor written.
LinesReady == lines.reset = 0 /\ lines.ins = 0

\* The states of a walk; wait is whether the reader or memory lets it wait.
\* The line is read from the cache, which takes three cycles, or from memory.
NextState(wait) ==
    CASE walk.st = "idle"    -> IF walk.req = {} THEN "idle" ELSE "lookup"
      [] walk.st = "lookup"  -> IF LinesReady THEN "look1" ELSE "lookup"
      [] walk.st = "look1"   -> "look2"
      [] walk.st = "look2"   -> "look3"
      [] walk.st = "look3"   -> IF walk.hit = {} THEN "read" ELSE "found"
      [] walk.st = "read"    -> IF wait THEN "read" ELSE "sent"
      [] walk.st = "sent"    -> IF wait THEN "sent" ELSE "sampled"
      [] walk.st = "sampled" -> IF wait THEN "sampled" ELSE "data1"
      [] walk.st = "data1"   -> "data2"
      [] walk.st = "data2"   -> "found"
      [] walk.st = "found"   -> "done"
      [] walk.st = "done"    -> "idle"

NextWalk(wait, full) ==
    LET start == walk.queue # <<>> /\ walk.st = "idle" /\ walk.req = {}
    IN  walk' = [queue |-> Rest(walk.queue, start)
                           \o (IF Walks(full) THEN <<Head(l2.found).tag>> ELSE <<>>),
                 req   |-> IF start THEN {Head(walk.queue)} ELSE {},
                 st    |-> NextState(wait),
                 hit   |-> IF walk.st = "lookup" THEN lines.cache ELSE walk.hit,
                 ver   |-> CASE walk.st = "look3" /\ walk.hit # {} -> The(walk.hit)
                             [] walk.st = "sent" /\ ~wait -> host.pte
                             [] OTHER -> walk.ver,
                 tag   |-> IF walk.st = "idle" /\ walk.req # {} THEN The(walk.req) ELSE walk.tag,
                 cacheable |-> Cacheable,
                 en    |-> IF walk.st = "done" THEN {[tag |-> walk.tag, ver |-> walk.ver]} ELSE {},
                 rsp   |-> {[tag |-> e.tag, ver |-> e.ver, may |-> walk.cacheable] : e \in walk.en},
                 rspQ  |-> walk.rsp]

\* Mutant: the lines are not reset.
ResetLines_Never == FALSE

\* The cache is reset when any page is invalidated.
ResetLines == Inval

\* A line that comes from memory is written to the cache, word by word; the last
\* word makes it valid.  While the cache is reset nothing is written.
NextLines ==
    lines' = [cache |-> IF lines.reset > 0 THEN {}
                        ELSE IF lines.ins = 2 THEN {lines.ver} ELSE lines.cache,
              n1    |-> ResetLines,
              n0    |-> lines.n1,
              reset |-> IF lines.n0 THEN Reset ELSE IF lines.reset = 0 THEN 0 ELSE lines.reset - 1,
              ins   |-> IF walk.st = "data1" /\ lines.reset = 0 THEN Line + 1
                        ELSE IF lines.ins = 0 THEN 0 ELSE lines.ins - 1,
              ver   |-> IF walk.st = "data1" THEN walk.ver ELSE lines.ver]

-----------------------------------------------------------------------------
\* What is caught in a moment that the caches do not cover.
NewRaces(take, next) ==
    {r \in Races :
        CASE r = "deq" -> /\ host.inval = "page"
                          /\ \/ take /\ Head(miss.fifo).may /\ Head(miss.fifo).tag \in miss.ok
                             \/ \E d \in miss.deq : d.ok /\ d.rsp.may
          [] r = "lookup" -> walk.st = "lookup" /\ LinesReady /\ lines.n0 /\ walk.cacheable
          [] r = "late" -> walk.st = "data1" /\ lines.reset = 0 /\ ~walk.cacheable
          [] r = "join" -> /\ IsDup(next)
                           /\ due[The(dedup.cur)] # due[Head(dedup.fifo)]
          [] r = "check" -> tlb.st = "check" /\ Inval}

\* A cycle: a new miss, if there is one, and which of those that wait go on.
Cycle(req, take, next, look, full, other, wait) ==
    /\ NextHost
    /\ NextL1
    /\ NextMiss(req, take)
    /\ NextDedup(next)
    /\ NextL2(look, full)
    /\ NextTlb(other)
    /\ NextWalk(wait, full)
    /\ NextLines
    /\ due' = [t \in Tag |-> IF t \in req THEN Seen ELSE due[t]]
    /\ raced' = raced \union NewRaces(take, next)

\* A choice that there is only under a condition.
May(cond) == IF cond THEN BOOLEAN ELSE {FALSE}

\* What the filter can take.  While no duplicates are collected, a request of
\* another page changes nothing, and one that came right after another is as any.
Takable == {next \in Takes : /\ Own(next) => dedup.fifo # <<>>
                             /\ dedup.cur = {} => next \in {"none", "apart"}}

Next ==
    \E req \in Opt(Tag \ miss.busy), next \in Takable,
       take \in May(miss.fifo # <<>>), look \in May(l2.queue # <<>>), full \in May(Missed),
       wait \in May(walk.st \in {"read", "sent", "sampled"}),
       other \in May((tlb.cache # {} \/ History) /\ tlb.st = "idle" /\ tlb.fe = {} /\ tlb.wr = {}) :
        Cycle(req, take, next, look, full, other, wait)

Spec == Init /\ [][Next]_vars

-----------------------------------------------------------------------------
(* Properties.                                                             *)

\* The page table and the caches' writes have come to rest.
Settled == ~host.owed /\ ~Inval

\* L1 holds the translation that is in memory once the page was invalidated,
\* unless the pulse came while a response was just being taken.
L1Fresh == Settled /\ l1.wr # {{}} => l1.cache \subseteq {host.pte} \/ raced \ {"check"} # {}

\* So does L2, unless the walker found the line in its cache before that was
\* reset, or cached a line that it had been reading for longer than the reset.
L2Fresh == Settled /\ tlb.wr # {{}} => tlb.cache \subseteq {host.pte} \/ raced \intersect {"lookup", "late"} # {}

\* So does the cache of lines.
LinesFresh ==
    Settled /\ ~lines.n1 /\ ~lines.n0 /\ lines.reset = 0 =>
        lines.cache \subseteq {host.pte} \/ "late" \in raced

\* A request that was made after an invalidation is not answered with what was
\* invalidated, unless it was taken for a duplicate of one that was made before.
AnswersFresh ==
    \A d \in miss.deq : d.rsp.ver >= due[d.rsp.tag] \/ raced \ {"check"} # {}

Tags(rs)  == {r.tag : r \in rs}
TagsOf(s) == [i \in DOMAIN s |-> s[i].tag]

\* Where the requests are, from the miss to the answer: above the filter, below
\* it (4 .. 14), and on the way back.
Where ==
    <<miss.q, miss.svc, Range(dedup.fifo),
      dedup.out, Range(l2.queue), Range(TagsOf(l2.found)),
      Range(walk.queue), walk.req, IF walk.st = "idle" THEN {} ELSE {walk.tag}, Tags(walk.en),
      Tags(walk.rsp), Tags(walk.rspQ), Tags(l2.rsp), Tags(dedup.rsp),
      Range(TagsOf(miss.fifo)), {d.rsp.tag : d \in miss.deq}>>

\* The requests below the filter, and those that share the answer of one of them.
Below == LET at == Where IN UNION {at[k] : k \in 4 .. 14}
Collected == UNION {Range(dedup.chain[t]) : t \in Below}

\* Each request that is not answered is in one place, and there once: the filter
\* loses none, and none is answered twice, whatever duplicates come while the
\* answer does.
AnsweredOnce ==
    /\ LET places == Append(Where, Collected)
       IN  \A t \in Tag : LET at == {k \in 1 .. 17 : t \in places[k]}
                          IN  IF t \in miss.busy THEN \E k \in at : at = {k} ELSE at = {}
    /\ \A s \in {dedup.fifo, l2.queue, TagsOf(l2.found), walk.queue, TagsOf(miss.fifo)} : IsInjective(s)
    /\ \A t \in Below :
          /\ IsInjective(dedup.chain[t])
          /\ \A u \in Below \ {t} : Range(dedup.chain[t]) \intersect Range(dedup.chain[u]) = {}

\* Each request gets one answer, of its own time.
AnswersRight == AnswersFresh /\ AnsweredOnce

\* A page of the history is in the TLB, or was invalidated while it was checked.
HistoryTrue ==
    tlb.hist /\ tlb.st = "idle" /\ tlb.wr = {} => tlb.cache # {} \/ "check" \in raced

\* An invalidation reaches every cache, up to the races named.
CachesFresh == TypeOK /\ L1Fresh /\ L2Fresh /\ LinesFresh /\ HistoryTrue
=============================================================================
