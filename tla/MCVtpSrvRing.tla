---------------------------- MODULE MCVtpSrvRing ----------------------------
(* Page 0, the address of a null pointer, is in a 2MB page; page 1 is a 4KB  *)
(* page or not mapped.                                                       *)
EXTENDS VtpSrvRing

MCOutcome == [p \in {0, 1} |->
    IF p = 0 THEN {[ok |-> TRUE, frame |-> 7, size |-> "2MB"]}
             ELSE {[ok |-> TRUE, frame |-> 5, size |-> "4KB"], Failed}]

\* The FPGA accesses mapped pages only; it may guess.
KeptRequests == {r \in [page : {0, 1}, spec : BOOLEAN] : r.page = 1 => r.spec}
=============================================================================
