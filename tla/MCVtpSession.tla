---------------------------- MODULE MCVtpSession ----------------------------
(* VtpSession for TLC: an AFU with two instances of MPF, the first with the   *)
(* hardware walker, the second with the translation server, and a feature     *)
(* behind the end of the list.  Which one is found depends on the ID asked    *)
(* for; with an ID that no instance has, VTP is used without hardware.        *)
EXTENDS VtpSession

CONSTANTS m1, m2

Is(id, shim, last) == [bbb |-> TRUE, id |-> id, shim |-> shim, last |-> last]

AfuChains ==
    {<<[Is(1, "walker", FALSE) EXCEPT !.bbb = FALSE], Is(1, "other", FALSE),
       Is(1, "walker", FALSE), Is(2, "server", TRUE), Is(3, "walker", TRUE)>>}
=============================================================================
