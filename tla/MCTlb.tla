------------------------------- MODULE MCTlb -------------------------------
(***************************************************************************)
(* Three lines and five pages: a page in the front, the middle and the     *)
(* back of the list, and misses that evict each of them.                   *)
(***************************************************************************)
EXTENDS Tlb

MCWalk == [v \in VPNS |-> v + 100]

\* Uninitialised lines: all zero, or a valid line with a searched tag.
MCGarbage == {FlushedEntry, [v |-> 1, tag |-> 1, phy_page_num |-> 7]}
=============================================================================
