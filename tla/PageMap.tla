------------------------------- MODULE PageMap -------------------------------
(***************************************************************************)
(* What VTP's page table promises to its callers (shim_vtp_pt.h), without  *)
(* the tree: a set of pinned regions that never overlap, each with a       *)
(* reference count.  A region is pinned once; further requests for memory  *)
(* inside it are counted.  Releasing drops one reference, and the last     *)
(* reference drops the region.                                             *)
(***************************************************************************)
EXTENDS Naturals, FiniteSets

CONSTANTS
    Regions,   \* regions that may be pinned
    Overlap,   \* pairs of regions that have a page in common
    InRange    \* for each range of addresses, the regions with a page in it

VARIABLE map   \* each region's entry

None == [refs |-> 0, owner |-> "none"]

Init == map = [r \in Regions |-> None]

Pinned(r) == map[r] # None

\* A new region where nothing is pinned.
Pin(r, o) ==
    /\ ~Pinned(r)
    /\ map' = [map EXCEPT ![r] = [refs |-> 1, owner |-> o]]
    /\ \A s \in Regions : Pinned(s) => <<r, s>> \notin Overlap

\* Another user of a pinned region.  Memory of the user's own is never unmapped
\* by MPF.
Share(r, o) ==
    /\ Pinned(r)
    /\ map' = [map EXCEPT ![r].refs = @ + 1,
                          ![r].owner = IF o = "user" THEN "user" ELSE @]

Less(entry) == IF entry.refs > 1 THEN [entry EXCEPT !.refs = @ - 1] ELSE None

Release(r) == Pinned(r) /\ map' = [map EXCEPT ![r] = Less(@)]

ReleaseRange(regions) ==
    map' = [r \in Regions |-> IF r \in regions THEN Less(map[r]) ELSE map[r]]

ReleaseAll == map' = [r \in Regions |-> None]

Next ==
    \/ \E r \in Regions :
          /\ map'[r] # map[r]
          /\ Release(r) \/ \E o \in {"alloc", "user", "demand"} : Pin(r, o) \/ Share(r, o)
    \/ \E regions \in InRange : ReleaseRange(regions)
    \/ ReleaseAll

Spec == Init /\ [][Next]_map
=============================================================================
