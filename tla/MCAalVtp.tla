------------------------------ MODULE MCAalVtp ------------------------------
(* AalVtp with two threads that are interchangeable. *)
EXTENDS AalVtp, TLC

CONSTANTS t1, t2

Symmetry == Permutations(Thread)
=============================================================================
