------------------------- MODULE TranslationCache -------------------------
(***************************************************************************)
(* What a TLB promises to the code that asks it for a translation, before  *)
(* any line, tag, list or level is mentioned.  A TLB remembers a set of    *)
(* virtual pages.  A search is answered with the translation the page walk *)
(* would give; it reports a hit exactly when the page was remembered; it   *)
(* remembers the page afterwards; a hit forgets nothing and a miss forgets *)
(* at most one other page.  A flush forgets everything.                    *)
(*                                                                         *)
(* Both TLBs of the program are shown to implement this specification:     *)
(* the two-level hierarchy (TlbHrchy) and the fully associative TLB (Tlb). *)
(***************************************************************************)
CONSTANTS
  VPNS,     \* the virtual page numbers that are searched
  walk,     \* walk[v]: the physical page number page_walk() finds for v
  None      \* no search has been made yet

VARIABLES
  resident,     \* the virtual pages the TLB remembers
  vaddr,        \* the page of the last search that returned
  paddr,        \* the physical page number that search returned
  hit_or_miss   \* 1 when that search was a hit, 0 when it was a miss

vars == <<resident, vaddr, paddr, hit_or_miss>>

Init ==
  /\ resident = {}
  /\ vaddr = None
  /\ paddr = None
  /\ hit_or_miss = 0

Search(v) ==
  /\ vaddr' = v
  /\ paddr' = walk[v]
  /\ hit_or_miss' = IF v \in resident THEN 1 ELSE 0
  /\ v \in resident'
  /\ resident' \subseteq resident \cup {v}
  /\ v \in resident => resident' = resident
  /\ \E victim \in VPNS : resident \ resident' \subseteq {victim}

Flush ==
  /\ resident' = {}
  /\ UNCHANGED <<vaddr, paddr, hit_or_miss>>

Next == Flush \/ \E v \in VPNS : Search(v)

Spec == Init /\ [][Next]_vars
===========================================================================
