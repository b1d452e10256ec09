----------------------------- MODULE LruCache -----------------------------
(***************************************************************************)
(* A translation cache that forgets the least recently used page: what     *)
(* tlb_mng.h promises of the fully associative TLB ("Eviction policy is    *)
(* least recently used (LRU)"), without lines, valid bits or list nodes.   *)
(***************************************************************************)
EXTENDS Naturals, SequencesExt

CONSTANTS
  VPNS,       \* the virtual page numbers that are searched
  walk,       \* walk[v]: the physical page number page_walk() finds for v
  None,       \* no search has been made yet
  TLB_LINES   \* how many pages are remembered

VARIABLES
  recent,       \* the pages remembered, the least recently used first
  vaddr, paddr, hit_or_miss   \* the last search that returned

vars == <<recent, vaddr, paddr, hit_or_miss>>

Init ==
  /\ recent = <<>>
  /\ vaddr = None
  /\ paddr = None
  /\ hit_or_miss = 0

Search(v) ==
  /\ vaddr' = v
  /\ paddr' = walk[v]
  /\ \/ /\ \E i \in DOMAIN recent :
             recent[i] = v /\ recent' = Append(RemoveAt(recent, i), v)
        /\ hit_or_miss' = 1
     \/ /\ v \notin ToSet(recent)
        /\ hit_or_miss' = 0
        /\ recent' = Append(IF Len(recent) < TLB_LINES THEN recent ELSE Tail(recent), v)

Flush ==
  /\ recent' = <<>>
  /\ UNCHANGED <<vaddr, paddr, hit_or_miss>>

Next == Flush \/ \E v \in VPNS : Search(v)

Spec == Init /\ [][Next]_vars
===========================================================================
