---------------------------- MODULE MCTlbHrchy ----------------------------
(***************************************************************************)
(* An instance with 2 lines per L1 and 8 in the L2.  Pages 0, 8 and 16     *)
(* share an L2 line; 2 and 10 share another one; all five share one line   *)
(* of each L1; 1 has lines of its own.  16 is the largest page a tag of    *)
(* TAG_2_MOD = 3 values distinguishes in the L2 and 9 values in an L1.     *)
(***************************************************************************)
EXTENDS TlbHrchy

MCWalk == [v \in VPNS |-> v + 100]
MCPpns == {v + 100 : v \in VPNS}

\* Uninitialised lines: all zero, or a valid line with somebody's tag.
MCGarbage == {FlushedEntry, NewEntry(1, 7)}

\* One uninitialised content is enough where the flushes are not the point.
MCApiGarbage == {NewEntry(1, 7)}
===========================================================================
