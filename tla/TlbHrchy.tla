----------------------------- MODULE TlbHrchy -----------------------------
(***************************************************************************)
(* The two-level hierarchy of TLBs, tlb_hrchy_mng.c: an instruction TLB    *)
(* and a data TLB of L1_LINES lines each in front of one L2 TLB, all       *)
(* direct mapped.  The module holds the operations and the program that    *)
(* drives them (test-tlb_hrchy.c): flush the three TLBs, whose arrays are  *)
(* uninitialised stack memory until then, and search, one command at a     *)
(* time.                                                                   *)
(*                                                                         *)
(* A virtual address is its virtual page number: the page offset is copied *)
(* from vaddr to paddr by every branch and nothing else reads it.  The     *)
(* memory is the translation it gives, walk (page_walk.c); no operation    *)
(* here writes memory.                                                     *)
(***************************************************************************)
EXTENDS Integers

CONSTANTS
  VPNS,        \* the virtual page numbers that are searched
  PPNS,        \* the physical page numbers that occur
  walk,        \* walk[v]: the physical page number page_walk() finds for v
  L1_LINES,    \* L1_ITLB_LINES and L1_DTLB_LINES (16 in the source)
  L2_LINES,    \* L2_TLB_LINES (64 in the source)
  TAG_1_MOD,   \* 2^TAG_1_SIZE, the values a tag field of an L1 line holds
  TAG_2_MOD,   \* 2^TAG_2_SIZE, the values a tag field of an L2 line holds
  Garbage1,    \* the entries that an uninitialised line of an L1 may hold
  Garbage2,    \* the entries that an uninitialised line of the L2 may hold
  None         \* no search has been made yet

Access == {"INSTRUCTION", "DATA"}

\* The TLB of the other access type: l1_dtlb for an instruction fetch.
Other(a) == IF a = "DATA" THEN "INSTRUCTION" ELSE "DATA"

Entry1 == [v : {0, 1}, tag : 0..TAG_1_MOD-1, phy_page_num : Nat]
Entry2 == [v : {0, 1}, tag : 0..TAG_2_MOD-1, phy_page_num : Nat]

(***************************************************************************)
(* The two masks of tlb_search are written for an L2 that is four times an *)
(* L1 ("to catch only the two LSB bits", "the two MSB bits"), and the tag  *)
(* fields are as wide as a 36-bit page number needs.                       *)
(***************************************************************************)
ASSUME LinesAssumption ==
  /\ L1_LINES \in Nat \ {0}
  /\ L2_LINES = 4 * L1_LINES
  /\ TAG_1_MOD \in Nat \ {0}
  /\ TAG_2_MOD \in Nat \ {0}
  /\ VPNS \subseteq Nat
  /\ \A v \in VPNS : v < L1_LINES * TAG_1_MOD /\ v < L2_LINES * TAG_2_MOD

ASSUME WalkAssumption ==
  /\ PPNS \subseteq Nat
  /\ walk \in [VPNS -> PPNS]
  /\ Garbage1 \subseteq Entry1
  /\ Garbage2 \subseteq Entry2
  /\ None \notin VPNS

VARIABLES
  l1,           \* l1["INSTRUCTION"] is l1_itlb, l1["DATA"] is l1_dtlb
  l2,           \* l2_tlb
  phase,        \* how far the driver is: which flush is next, or "run"
  vaddr,        \* page of the last search that returned
  paddr,        \* the physical page number that search returned
  hit_or_miss   \* what that search reported

vars == <<l1, l2, phase, vaddr, paddr, hit_or_miss>>

\* Line index and tag of a virtual page number in a TLB.
Index1(v) == v % L1_LINES
Index2(v) == v % L2_LINES

Tag1(v) == (v \div L1_LINES) % TAG_1_MOD
Tag1AsTag2(v) == Tag1(v)
Tag2(v) == (v \div L2_LINES) % TAG_2_MOD

\* The entry insert_in_tlb builds, and what memset leaves of one.
NewEntry(tag, ppn) == [v |-> 1, tag |-> tag, phy_page_num |-> ppn]
FlushedEntry == [v |-> 0, tag |-> 0, phy_page_num |-> 0]

\* tlb_hit on an L1 and on the L2.
TagOnlyHit1(tlb, v) == tlb[Index1(v)].tag = Tag1(v)
Hit1(tlb, v) == tlb[Index1(v)].v = 1 /\ tlb[Index1(v)].tag = Tag1(v)
Hit2(tlb, v) == tlb[Index2(v)].v = 1 /\ tlb[Index2(v)].tag = Tag2(v)

-----------------------------------------------------------------------------
Init ==
  /\ l1 \in [Access -> [0..L1_LINES-1 -> Garbage1]]
  /\ l2 \in [0..L2_LINES-1 -> Garbage2]
  /\ phase = "flush_l1_itlb"
  /\ vaddr = None
  /\ paddr = None
  /\ hit_or_miss = 0

\* tlb_flush of each TLB, in the order of the driver.
FlushL1(a, from, to) ==
  /\ phase = from
  /\ l1' = [l1 EXCEPT ![a] = [i \in 0..L1_LINES-1 |-> FlushedEntry]]
  /\ phase' = to
  /\ UNCHANGED <<l2, vaddr, paddr, hit_or_miss>>

FlushItlb == FlushL1("INSTRUCTION", "flush_l1_itlb", "flush_l1_dtlb")
FlushDtlb == FlushL1("DATA", "flush_l1_dtlb", "flush_l2_tlb")

FlushL2 ==
  /\ phase = "flush_l2_tlb"
  /\ l2' = [i \in 0..L2_LINES-1 |-> FlushedEntry]
  /\ phase' = "run"
  /\ UNCHANGED <<l1, vaddr, paddr, hit_or_miss>>

\* The driver flushes the three levels once; tlb_flush of the header may be called
\* again at any time.  This caller then flushes all three, in the driver's order.
Restart ==
  /\ phase = "run"
  /\ phase' = "flush_l1_itlb"
  /\ UNCHANGED <<l1, l2, vaddr, paddr, hit_or_miss>>

Reply(v, ppn, hit) ==
  /\ vaddr' = v
  /\ paddr' = ppn
  /\ hit_or_miss' = hit

\* tlb_search, first level: the TLB of the access type holds the page.
SearchL1Hit(a, v) ==
  /\ phase = "run"
  /\ Hit1(l1[a], v)
  /\ Reply(v, l1[a][Index1(v)].phy_page_num, 1)
  /\ UNCHANGED <<l1, l2, phase>>

\* tlb_search, second level: the L2 line is copied into that first level.
SearchL2Hit(a, v) ==
  LET ppn == l2[Index2(v)].phy_page_num IN
  /\ phase = "run"
  /\ ~Hit1(l1[a], v)
  /\ Hit2(l2, v)
  /\ Reply(v, ppn, 1)
  /\ l1' = [l1 EXCEPT ![a][Index1(v)] = NewEntry(Tag1(v), ppn)]
  /\ UNCHANGED <<l2, phase>>

(***************************************************************************)
(* The line of the other first level after an L2 line has been replaced:   *)
(* invalid when the two low bits of its tag are the two high bits of the   *)
(* replaced L2 index, whatever page it holds and whether or not it is      *)
(* valid.                                                                  *)
(***************************************************************************)
KeepEntry(e, v) == e
InvalidateEvicted(e, v) ==
  IF e.tag % 4 = Index2(v) \div (L2_LINES \div 4) THEN [e EXCEPT !.v = 0] ELSE e

\* The first levels after a miss of access type a on page v.
FillL1Swapped(a, v, ppn) == [l1 EXCEPT ![a][Index1(v)] = NewEntry(Tag2(v), ppn)]
FillL1(a, v, ppn) ==
  [l1 EXCEPT ![a][Index1(v)] = NewEntry(Tag1(v), ppn),
             ![Other(a)][Index1(v)] = InvalidateEvicted(@, v)]

\* The second level after a miss on page v.
SkipL2(v, ppn) == l2
FillL2(v, ppn) == [l2 EXCEPT ![Index2(v)] = NewEntry(Tag2(v), ppn)]

\* tlb_search, no hit: walk the page table and fill both levels.
SearchMiss(a, v) ==
  /\ phase = "run"
  /\ ~Hit1(l1[a], v)
  /\ ~Hit2(l2, v)
  /\ Reply(v, walk[v], 0)
  /\ l2' = FillL2(v, walk[v])
  /\ l1' = FillL1(a, v, walk[v])
  /\ UNCHANGED phase

Search(a, v) == SearchL1Hit(a, v) \/ SearchL2Hit(a, v) \/ SearchMiss(a, v)

Next ==
  \/ FlushItlb \/ FlushDtlb \/ FlushL2 \/ Restart
  \/ \E a \in Access, v \in VPNS : Search(a, v)

Spec == Init /\ [][Next]_vars

(***************************************************************************)
(* A caller of tlb_hrchy_mng.h is not bound to the driver's order: it may  *)
(* flush one TLB and go on searching, and it may insert by itself an entry *)
(* it built with tlb_entry_init from a translation, at the line the page   *)
(* maps to.                                                                *)
(***************************************************************************)
ApiFlushL1(a) == FlushL1(a, "run", "run")

ApiFlushL2 ==
  /\ phase = "run"
  /\ l2' = [i \in 0..L2_LINES-1 |-> FlushedEntry]
  /\ UNCHANGED <<l1, phase, vaddr, paddr, hit_or_miss>>

ApiInsertL1(a, v) ==
  /\ phase = "run"
  /\ l1' = [l1 EXCEPT ![a][Index1(v)] = NewEntry(Tag1(v), walk[v])]
  /\ UNCHANGED <<l2, phase, vaddr, paddr, hit_or_miss>>

ApiInsertL2(v) ==
  /\ phase = "run"
  /\ l2' = FillL2(v, walk[v])
  /\ UNCHANGED <<l1, phase, vaddr, paddr, hit_or_miss>>

ApiNext ==
  \/ Next
  \/ \E a \in Access : ApiFlushL1(a)
  \/ ApiFlushL2
  \/ \E a \in Access, v \in VPNS : ApiInsertL1(a, v)
  \/ \E v \in VPNS : ApiInsertL2(v)

ApiSpec == Init /\ [][ApiNext]_vars

-----------------------------------------------------------------------------
Phases == {"flush_l1_itlb", "flush_l1_dtlb", "flush_l2_tlb", "run"}

\* Types of the state: every tag stored fits the bit field of its level.
TypeOK ==
  /\ l1 \in [Access -> [0..L1_LINES-1 -> Entry1]]
  /\ l2 \in [0..L2_LINES-1 -> Entry2]
  /\ phase \in Phases
  /\ vaddr \in VPNS \cup {None}
  /\ paddr \in Nat \cup {None}
  /\ hit_or_miss \in {0, 1}

(***************************************************************************)
(* Every valid line of a level that has been flushed holds the translation *)
(* of a page that maps to that line: no fill leaves one page's translation *)
(* under another page's tag (insert_in_tlb, tlb_hit).                      *)
(***************************************************************************)
Translates1(e, i) ==
  \E v \in VPNS : Index1(v) = i /\ e.tag = Tag1(v) /\ e.phy_page_num = walk[v]
Translates2(e, i) ==
  \E v \in VPNS : Index2(v) = i /\ e.tag = Tag2(v) /\ e.phy_page_num = walk[v]

L1Coherent(a) ==
  \A i \in 0..L1_LINES-1 : l1[a][i].v = 1 => Translates1(l1[a][i], i)
L2Coherent ==
  \A i \in 0..L2_LINES-1 : l2[i].v = 1 => Translates2(l2[i], i)

Coherence == phase = "run" => L2Coherent /\ \A a \in Access : L1Coherent(a)

(***************************************************************************)
(* Whatever was flushed or inserted before, a search answers with the      *)
(* translation of the page that was asked (tlb_search, every branch).      *)
(***************************************************************************)
AnswerCorrect == vaddr # None => paddr = walk[vaddr]

(***************************************************************************)
(* After a search that missed, neither first level still answers for a     *)
(* page whose L2 line the search replaced.  Unlike Inclusion this does not *)
(* rely on what the levels held before.                                    *)
(***************************************************************************)
MissClearsAliases ==
  [][\A a \in Access, v, w \in VPNS :
       (SearchMiss(a, v) /\ w # v /\ Index2(w) = Index2(v))
         => \A b \in Access : ~Hit1(l1'[b], w)]_vars

(***************************************************************************)
(* The L2 is inclusive: a page that either first level would hit is also   *)
(* in the L2.  It is what the invalidation at the end of tlb_search is     *)
(* for: replacing an L2 line must not leave the old page in the first      *)
(* level of the other access type.                                         *)
(***************************************************************************)
Inclusion ==
  phase = "run" =>
    \A a \in Access, v \in VPNS : Hit1(l1[a], v) => Hit2(l2, v)

(***************************************************************************)
(* Seen from outside, the hierarchy is one translation cache that holds    *)
(* the pages of its L2: every answer is the page walk's, and a search hits *)
(* exactly when the L2 holds the page, whichever first level is asked.     *)
(***************************************************************************)
Resident == IF phase = "run" THEN {v \in VPNS : Hit2(l2, v)} ELSE {}

Flat == INSTANCE TranslationCache WITH resident <- Resident

FlatSpec == Flat!Spec
===========================================================================
