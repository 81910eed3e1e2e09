----------------------------- MODULE MCRspOrder -----------------------------
(* RspOrder for TLC.                                                        *)
EXTENDS RspOrder, TLC
=============================================================================
