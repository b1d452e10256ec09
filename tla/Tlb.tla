-------------------------------- MODULE Tlb --------------------------------
(***************************************************************************)
(* The fully associative TLB of tlb_mng.c, and the order in which          *)
(* test-tlb_simple.c calls it: flush the lines, which are uninitialised    *)
(* stack memory, fill the replacement list with the line numbers, search.  *)
(*                                                                         *)
(* The list is the sequence of its values (List shows that list.c          *)
(* implements the sequence operations).  As in TlbHrchy an address is its  *)
(* page number: tags have the full width of one.                           *)
(***************************************************************************)
EXTENDS Integers, SequencesExt

CONSTANTS
  VPNS,        \* the virtual page numbers that are searched
  walk,        \* walk[v]: the physical page number page_walk() finds for v
  TLB_LINES,   \* the number of lines (128 in the source)
  Garbage,     \* the entries that an uninitialised line may hold
  None         \* no search has been made yet

Lines == 0..TLB_LINES-1
Entry == [v : {0, 1}, tag : Nat, phy_page_num : Nat]

ASSUME TlbAssumption ==
  /\ TLB_LINES \in Nat \ {0}
  /\ VPNS \subseteq Nat
  /\ walk \in [VPNS -> Nat]
  /\ Garbage \subseteq Entry
  /\ None \notin VPNS

VARIABLES
  tlb,          \* the lines
  ll,           \* replacement_policy->ll: line numbers, next victim in front
  phase,        \* "flush", "fill", then "run"
  vaddr,        \* page of the last search that returned
  paddr,        \* the physical page number that search returned
  hit_or_miss   \* what that search reported

vars == <<tlb, ll, phase, vaddr, paddr, hit_or_miss>>

\* tlb_entry_init, and what memset leaves of a line.
NewEntry(v) == [v |-> 1, tag |-> v, phy_page_num |-> walk[v]]
FlushedEntry == [v |-> 0, tag |-> 0, phy_page_num |-> 0]

\* move_back of the i-th node of the list.
NoMove(s, i) == s
PushAgain(s, i) == Append(s, s[i])
MoveBack(s, i) == Append(RemoveAt(s, i), s[i])

-----------------------------------------------------------------------------
Init ==
  /\ tlb \in [Lines -> Garbage]
  /\ ll = <<>>
  /\ phase = "flush"
  /\ vaddr = None
  /\ paddr = None
  /\ hit_or_miss = 0

\* tlb_flush, once by the driver, and at any later time by another caller of the
\* header: the list of the replacement policy is left as it is.
Flush ==
  /\ phase \in {"flush", "run"}
  /\ tlb' = [i \in Lines |-> FlushedEntry]
  /\ phase' = IF phase = "flush" THEN "fill" ELSE "run"
  /\ UNCHANGED <<ll, vaddr, paddr, hit_or_miss>>

\* One round of the driver's loop of push_back.
CountFromOne == Len(ll) + 1
NextLine == Len(ll)

FillList ==
  /\ phase = "fill"
  /\ ll' = Append(ll, NextLine)
  /\ phase' = IF Len(ll') = TLB_LINES THEN "run" ELSE "fill"
  /\ UNCHANGED <<tlb, vaddr, paddr, hit_or_miss>>

\* The positions in the list of the lines that hold page v.
SkipBack(v) == {i \in 1..Len(ll)-1 : tlb[ll[i]].tag = v /\ tlb[ll[i]].v = 1}
AnyTag(v) == {i \in DOMAIN ll : tlb[ll[i]].tag = v}
Holders(v) == {i \in DOMAIN ll : tlb[ll[i]].tag = v /\ tlb[ll[i]].v = 1}

\* tlb_search when tlb_hit, which looks from the back, finds the page.
SearchHit(v) ==
  /\ phase = "run"
  /\ \E i \in Holders(v) :
       /\ \A j \in Holders(v) : j <= i
       /\ paddr' = tlb[ll[i]].phy_page_num
       /\ ll' = MoveBack(ll, i)
  /\ vaddr' = v
  /\ hit_or_miss' = 1
  /\ UNCHANGED <<tlb, phase>>

\* The line a miss overwrites: the front of the list.
LastLine == ll[Len(ll)]
Victim == ll[1]

\* tlb_search otherwise: walk, overwrite the victim, move it to the back.
SearchMiss(v) ==
  /\ phase = "run"
  /\ Holders(v) = {}
  /\ tlb' = [tlb EXCEPT ![Victim] = NewEntry(v)]
  /\ ll' = MoveBack(ll, 1)
  /\ vaddr' = v
  /\ paddr' = walk[v]
  /\ hit_or_miss' = 0
  /\ UNCHANGED phase

Next == Flush \/ FillList \/ \E v \in VPNS : SearchHit(v) \/ SearchMiss(v)

Spec == Init /\ [][Next]_vars

(***************************************************************************)
(* A caller of tlb_mng.h may also store an entry itself: tlb_insert of     *)
(* what tlb_entry_init made of a translation, at a line of its choice.     *)
(* The list is not told.  A line number out of bounds is refused.          *)
(***************************************************************************)
ApiInsert(line, v) ==
  /\ phase = "run"
  /\ line < TLB_LINES
  /\ tlb' = [tlb EXCEPT ![line] = NewEntry(v)]
  /\ UNCHANGED <<ll, phase, vaddr, paddr, hit_or_miss>>

ApiNext == Next \/ \E line \in 0..TLB_LINES, v \in VPNS : ApiInsert(line, v)

ApiSpec == Init /\ [][ApiNext]_vars

-----------------------------------------------------------------------------
\* Types of the state.
TypeOK ==
  /\ tlb \in [Lines -> Entry]
  /\ ll \in Seq(Lines)
  /\ phase \in {"flush", "fill", "run"}
  /\ vaddr \in VPNS \cup {None}
  /\ paddr \in Nat \cup {None}
  /\ hit_or_miss \in {0, 1}

(***************************************************************************)
(* Once filled, the list names every line exactly once: no sequence of     *)
(* hits and misses loses a line or lists one twice (move_back), so every   *)
(* line can be hit and every line is evicted in its turn.                  *)
(***************************************************************************)
AllLinesListed ==
  phase = "run" => Len(ll) = TLB_LINES /\ IsInjective(ll) /\ ToSet(ll) = Lines

\* No two valid lines hold the same page: a fill never duplicates an entry.
UniqueTags ==
  phase = "run" =>
    \A i, j \in Lines :
      tlb[i].v = 1 /\ tlb[j].v = 1 /\ tlb[i].tag = tlb[j].tag => i = j

(***************************************************************************)
(* Free lines are in front of valid ones: a miss evicts a translation only *)
(* when the TLB is full, also after a flush that left the list in the      *)
(* order of the searches before it.                                        *)
(***************************************************************************)
FreeLinesFirst ==
  phase = "run" =>
    \A i, j \in DOMAIN ll : tlb[ll[i]].v = 1 /\ i < j => tlb[ll[j]].v = 1

\* A search answers with the translation of the page that was asked.
AnswerCorrect == vaddr # None => paddr = walk[vaddr]

\* The last free line of the list; all the lines behind it are in use.
LastFree ==
  CHOOSE m \in 0..Len(ll) : /\ m > 0 => tlb[ll[m]].v = 0
                            /\ \A i \in m+1..Len(ll) : tlb[ll[i]].v = 1

\* The pages of the lines in use, the next victim first.
Recent ==
  IF phase = "run" THEN [k \in 1..Len(ll)-LastFree |-> tlb[ll[LastFree + k]].tag] ELSE <<>>

Lru == INSTANCE LruCache WITH recent <- Recent

\* The TLB forgets the least recently used page, and only when it is full.
LruSpec == Lru!Spec

\* The TLB is a translation cache.
Resident ==
  IF phase = "run" THEN {v \in VPNS : \E i \in Lines : tlb[i].v = 1 /\ tlb[i].tag = v}
                   ELSE {}

Flat == INSTANCE TranslationCache WITH resident <- Resident

FlatSpec == Flat!Spec
=============================================================================
