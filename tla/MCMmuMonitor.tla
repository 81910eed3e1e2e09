---------------------------- MODULE MCMmuMonitor ----------------------------
(* MmuMonitor for TLC: the constants are model values, small integers and   *)
(* sets of model values; the two sets are interchangeable inside.           *)
EXTENDS MmuMonitor, TLC

Symmetry == Permutations(Monitor) \union Permutations(Thread)
=============================================================================
