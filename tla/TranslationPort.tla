--------------------------- MODULE TranslationPort ---------------------------
(***************************************************************************)
(* What a page translation service promises to the TLB in front of it      *)
(* (mpf_vtp_pt_walk_if): each request is answered once, in the order of    *)
(* the requests, with a translation of the page that was asked for.  A     *)
(* request that was accepted is answered.                                  *)
(***************************************************************************)
EXTENDS Sequences

CONSTANTS
    Requests,     \* requests the TLB may make: [page, spec]
    Translations  \* for each page, the replies it may get: [notPresent, frame, bigPage]

VARIABLES
    asked,  \* requests without a reply, oldest first
    reply   \* the last reply: the request it belongs to and what it says

vars == <<asked, reply>>

NoReply == [to |-> <<>>, says |-> <<>>]

Init == asked = <<>> /\ reply = NoReply

Ask(r) == asked' = Append(asked, r) /\ UNCHANGED reply

Reply ==
    /\ asked # <<>>
    /\ asked' = Tail(asked)
    /\ \E a \in Translations[Head(asked).page] : reply' = [to |-> Head(asked), says |-> a]

Next == Reply \/ \E r \in Requests : Ask(r)

Spec == Init /\ [][Next]_vars

FairSpec == Spec /\ WF_vars(Reply)
=============================================================================
