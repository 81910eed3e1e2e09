--------------------------- MODULE MCVtpOnDemand ---------------------------
(* VtpOnDemand for TLC.  Frames are interchangeable, and so are threads of  *)
(* the application; pages are too, since nothing orders them.               *)
EXTENDS VtpOnDemand, TLC

Symmetry == Permutations(Page) \union Permutations(Frame) \union Permutations(App)
=============================================================================
