------------------------------ MODULE MCVtpTlb ------------------------------
(* VtpTlb for TLC.                                                          *)
EXTENDS VtpTlb, TLC

CONSTANTS t1, t2

Symmetry == Permutations(Tag)

\* What a register holds matters while it is live, until it is written again.
Live(cond, x) == IF cond THEN x ELSE "dead"

\* States that differ in dead registers only are the same: they have the same
\* steps but for these registers, of which the properties say no more than the
\* type.
View ==
    <<host, l1, l2, raced,
      [miss EXCEPT !.ok = @ \intersect (miss.busy \ (miss.q \union {d.rsp.tag : d \in miss.deq}))],
      [dedup EXCEPT !.chain = [t \in Below |-> @[t]]],
      [tlb EXCEPT !.ver = Live(tlb.st # "idle", @), !.notDup = Live(tlb.checked, @)],
      [walk EXCEPT !.tag = Live(walk.st # "idle", @),
                   !.hit = Live(walk.st \in {"look1", "look2", "look3"}, @),
                   !.ver = Live(walk.st \in {"sampled", "data1", "data2", "found", "done"}, @),
                   !.cacheable = Live(walk.st # "idle" \/ walk.en # {}, @)],
      [lines EXCEPT !.ver = Live(lines.ins > 0, @), !.cache = Live(lines.reset = 0, @)],
      [t \in miss.busy |-> due[t]]>>
=============================================================================
