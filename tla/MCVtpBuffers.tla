----------------------------- MODULE MCVtpBuffers -----------------------------
(* VtpBuffers for TLC.                                                      *)
EXTENDS VtpBuffers, TLC

CONSTANTS t1, t2

Symmetry == Permutations(Thread)
=============================================================================
