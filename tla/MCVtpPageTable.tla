--------------------------- MODULE MCVtpPageTable ---------------------------
(* VtpPageTable for TLC: nodes of two entries on three levels.  The root's  *)
(* entries are the largest pages.                                           *)
EXTENDS VtpPageTable

MCSpan == [l \in 0 .. Levels |-> 2 ^ l]
=============================================================================
