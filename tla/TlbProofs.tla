----------------------------- MODULE TlbProofs -----------------------------
(***************************************************************************)
(* What the fully associative TLB promises for every number of lines and   *)
(* every page table: proofs about Tlb.                                     *)
(***************************************************************************)
EXTENDS Tlb, DataLemmas, SequenceTheorems

-----------------------------------------------------------------------------
(* move_back permutes the list.                                            *)

LEMMA MoveBackElements ==
  ASSUME NEW S, NEW s \in Seq(S), NEW i \in 1..Len(s)
  PROVE  /\ MoveBack(s, i) \in Seq(S)
         /\ Len(MoveBack(s, i)) = Len(s)
         /\ \A j \in 1..Len(s) :
              MoveBack(s, i)[j] = IF j < i THEN s[j]
                                  ELSE IF j < Len(s) THEN s[j+1] ELSE s[i]
<1>1. MoveBack(s, i) = MovedBack(s, i)
  BY DEF MoveBack, MovedBack
<1> QED
  BY <1>1, MovedBackElements

LEMMA MoveBackPermutes ==
  ASSUME NEW S, NEW s \in Seq(S), NEW i \in 1..Len(s)
  PROVE  /\ ToSet(MoveBack(s, i)) = ToSet(s)
         /\ IsInjective(s) => IsInjective(MoveBack(s, i))
<1>1. MoveBack(s, i) = MovedBack(s, i)
  BY DEF MoveBack, MovedBack
<1> QED
  BY <1>1, MovedBackPermutes

-----------------------------------------------------------------------------
(* Types, the list and the lines, for any order of calls.                  *)

\* The list and the lines before the first search.
Booting ==
  /\ phase = "flush" => ll = <<>>
  /\ phase = "fill" =>
       /\ Len(ll) < TLB_LINES
       /\ \A i \in 1..Len(ll) : ll[i] = i - 1
       /\ \A i \in Lines : tlb[i].v = 0

\* Every valid line holds the translation of the page in its tag.
Coherence ==
  phase = "run" =>
    \A i \in Lines : tlb[i].v = 1 => /\ tlb[i].tag \in VPNS
                                     /\ tlb[i].phy_page_num = walk[tlb[i].tag]

ApiInv == TypeOK /\ Booting /\ AllLinesListed /\ Coherence /\ AnswerCorrect

LEMMA EntryTypes ==
  /\ FlushedEntry \in Entry /\ FlushedEntry.v = 0
  /\ \A v \in VPNS : /\ NewEntry(v) \in Entry
                      /\ NewEntry(v).v = 1
                      /\ NewEntry(v).tag = v
                      /\ NewEntry(v).phy_page_num = walk[v]
                      /\ walk[v] \in Nat /\ v # None
BY TlbAssumption DEF FlushedEntry, NewEntry, Entry

LEMMA ApiInit ==
  ASSUME Init
  PROVE  ApiInv
<1>1. TypeOK
  BY TlbAssumption DEF Init, TypeOK
<1> QED
  BY <1>1 DEF Init, ApiInv, Booting, AllLinesListed, Coherence, AnswerCorrect

\* Every position of the full list is a line, and moving one keeps it so.
LEMMA MoveListed ==
  ASSUME ApiInv, phase = "run", phase' = "run", NEW i \in DOMAIN ll, ll' = MoveBack(ll, i)
  PROVE  ll' \in Seq(Lines) /\ AllLinesListed'
<1>1. ll \in Seq(Lines) /\ DOMAIN ll = 1..Len(ll)
  BY DEF ApiInv, TypeOK
<1>2. ll' \in Seq(Lines) /\ Len(ll') = Len(ll)
  BY <1>1, MoveBackElements
<1>3. ToSet(ll') = ToSet(ll) /\ (IsInjective(ll) => IsInjective(ll'))
  BY <1>1, MoveBackPermutes
<1> QED
  BY <1>2, <1>3 DEF ApiInv, AllLinesListed

\* Storing the entry of a page at a line.
LEMMA StoreEntry ==
  ASSUME ApiInv, phase = "run", NEW line \in Lines, NEW v \in VPNS,
         tlb' = [tlb EXCEPT ![line] = NewEntry(v)]
  PROVE  tlb' \in [Lines -> Entry] /\ Coherence'
<1>1. tlb' \in [Lines -> Entry]
  BY EntryTypes DEF ApiInv, TypeOK
<1>2. ASSUME NEW i \in Lines, tlb'[i].v = 1
      PROVE  tlb'[i].tag \in VPNS /\ tlb'[i].phy_page_num = walk[tlb'[i].tag]
  <2>1. CASE i = line
    BY <2>1, EntryTypes DEF ApiInv, TypeOK
  <2>2. CASE i # line
    <3>1. tlb'[i] = tlb[i]
      BY <2>2 DEF ApiInv, TypeOK
    <3> QED
      BY <3>1, <1>2 DEF ApiInv, Coherence
  <2> QED
    BY <2>1, <2>2
<1> QED
  BY <1>1, <1>2 DEF Coherence

\* The victim is a line.
LEMMA VictimIsLine ==
  ASSUME ApiInv, phase = "run"
  PROVE  1 \in DOMAIN ll /\ Victim \in Lines
<1>1. ll \in Seq(Lines) /\ Len(ll) = TLB_LINES /\ TLB_LINES \in Nat \ {0}
  BY TlbAssumption DEF ApiInv, TypeOK, AllLinesListed
<1> QED
  BY <1>1 DEF Victim

LEMMA ApiStep ==
  ASSUME ApiInv, [ApiNext]_vars
  PROVE  ApiInv'
<1> USE DEF ApiInv
<1>1. CASE Flush
  <2>1. TypeOK' /\ AnswerCorrect' /\ AllLinesListed'
    BY <1>1, EntryTypes DEF Flush, TypeOK, AnswerCorrect, AllLinesListed
  <2>2. \A i \in Lines : tlb'[i].v = 0
    BY <1>1, EntryTypes DEF Flush
  <2>3. Coherence'
    BY <2>2 DEF Coherence
  <2>4. Booting'
    BY <1>1, <2>2, TlbAssumption DEF Flush, Booting
  <2> QED
    BY <2>1, <2>3, <2>4
<1>2. CASE FillList
  <2>1. ll \in Seq(Lines) /\ Len(ll) \in Lines /\ (\A i \in 1..Len(ll) : ll[i] = i - 1)
    BY <1>2, TlbAssumption DEF FillList, TypeOK, Booting, Lines
  <2>2. /\ ll' \in Seq(Lines) /\ Len(ll') = Len(ll) + 1
        /\ \A i \in 1..Len(ll') : ll'[i] = i - 1
    BY <1>2, <2>1 DEF FillList, NextLine
  <2>3. TypeOK' /\ AnswerCorrect'
    BY <1>2, <2>2 DEF FillList, TypeOK, AnswerCorrect
  <2>4. Booting'
    BY <1>2, <2>1, <2>2, TlbAssumption DEF FillList, Booting, Lines
  <2>5. AllLinesListed'
    <3>1. SUFFICES ASSUME Len(ll') = TLB_LINES
                   PROVE  IsInjective(ll') /\ ToSet(ll') = Lines
      BY <1>2 DEF FillList, AllLinesListed
    <3>2. DOMAIN ll' = 1..TLB_LINES
      BY <2>2, <3>1
    <3>3. IsInjective(ll')
      BY <2>2, <3>1, <3>2, TlbAssumption DEF IsInjective
    <3>4. \A k \in Lines : k + 1 \in 1..TLB_LINES /\ ll'[k+1] = k
      BY <2>2, <3>1, TlbAssumption DEF Lines
    <3>5. ToSet(ll') = {ll'[j] : j \in 1..TLB_LINES}
      BY <3>2 DEF ToSet
    <3>6. \A j \in 1..TLB_LINES : ll'[j] \in Lines
      BY <2>2, <3>1
    <3>7. Lines \subseteq {ll'[j] : j \in 1..TLB_LINES}
      <4>1. SUFFICES ASSUME NEW k \in Lines
                     PROVE  \E j \in 1..TLB_LINES : ll'[j] = k
        OBVIOUS
      <4>2. k + 1 \in 1..TLB_LINES
        BY <3>4
      <4> WITNESS k + 1 \in 1..TLB_LINES
      <4> QED
        BY <3>4
    <3> QED
      BY <3>3, <3>5, <3>6, <3>7
  <2>6. Coherence'
    BY <1>2 DEF FillList, Booting, Coherence
  <2> QED
    BY <2>3, <2>4, <2>5, <2>6
<1>3. ASSUME NEW v \in VPNS, SearchHit(v)
      PROVE  ApiInv'
  <2>1. PICK i \in Holders(v) : paddr' = tlb[ll[i]].phy_page_num /\ ll' = MoveBack(ll, i)
    BY <1>3 DEF SearchHit
  <2>2. i \in DOMAIN ll /\ ll[i] \in Lines /\ tlb[ll[i]].tag = v /\ tlb[ll[i]].v = 1
    BY <2>1 DEF Holders, TypeOK
  <2>3. phase = "run" /\ phase' = "run" /\ vaddr' = v /\ hit_or_miss' = 1 /\ tlb' = tlb
    BY <1>3 DEF SearchHit
  <2>4. paddr' = walk[v]
    BY <2>1, <2>2, <2>3 DEF Coherence
  <2>5. ll' \in Seq(Lines) /\ AllLinesListed'
    BY <2>1, <2>2, <2>3, MoveListed
  <2>6. TypeOK' /\ AnswerCorrect'
    BY <2>3, <2>4, <2>5, EntryTypes DEF TypeOK, AnswerCorrect
  <2>7. Coherence' /\ Booting'
    BY <2>3 DEF Coherence, Booting
  <2> QED
    BY <2>5, <2>6, <2>7
<1>4. ASSUME NEW v \in VPNS, SearchMiss(v)
      PROVE  ApiInv'
  <2>1. phase = "run" /\ phase' = "run" /\ vaddr' = v /\ hit_or_miss' = 0 /\ paddr' = walk[v]
    BY <1>4 DEF SearchMiss
  <2>2. ll' \in Seq(Lines) /\ AllLinesListed'
    BY <1>4, <2>1, VictimIsLine, MoveListed DEF SearchMiss
  <2>3. tlb' \in [Lines -> Entry] /\ Coherence'
    BY <1>4, <2>1, VictimIsLine, StoreEntry DEF SearchMiss
  <2>4. TypeOK' /\ AnswerCorrect' /\ Booting'
    BY <2>1, <2>2, <2>3, EntryTypes DEF TypeOK, AnswerCorrect, Booting
  <2> QED
    BY <2>2, <2>3, <2>4
<1>5. ASSUME NEW line \in 0..TLB_LINES, NEW v \in VPNS, ApiInsert(line, v)
      PROVE  ApiInv'
  <2>1. line \in Lines /\ phase = "run"
    BY <1>5, TlbAssumption DEF ApiInsert, Lines
  <2>2. tlb' \in [Lines -> Entry] /\ Coherence'
    BY <1>5, <2>1, StoreEntry DEF ApiInsert
  <2>3. TypeOK' /\ AnswerCorrect' /\ Booting' /\ AllLinesListed'
    BY <1>5, <2>2 DEF ApiInsert, TypeOK, AnswerCorrect, Booting, AllLinesListed
  <2> QED
    BY <2>2, <2>3
<1>6. CASE UNCHANGED vars
  BY <1>6 DEF vars, TypeOK, AnswerCorrect, Booting, AllLinesListed, Coherence
<1> QED
  BY <1>1, <1>2, <1>3, <1>4, <1>5, <1>6 DEF ApiNext, Next

LEMMA ApiInvariant == ApiSpec => []ApiInv
<1>1. Init => ApiInv
  BY ApiInit
<1>2. ApiInv /\ [ApiNext]_vars => ApiInv'
  BY ApiStep
<1> QED
  BY <1>1, <1>2, PTL DEF ApiSpec

\* Whatever tlb_insert stores where, a search answers for the page asked.
THEOREM ApiAnswers == ApiSpec => []AnswerCorrect
<1>1. ApiInv => AnswerCorrect
  BY DEF ApiInv
<1> QED
  BY <1>1, ApiInvariant, PTL

\* No order of calls loses a line from the replacement list or lists it twice.
THEOREM ApiListed == ApiSpec => []AllLinesListed
<1>1. ApiInv => AllLinesListed
  BY DEF ApiInv
<1> QED
  BY <1>1, ApiInvariant, PTL

-----------------------------------------------------------------------------
(* As the driver calls it: searches alone fill the lines.                  *)

Inv == ApiInv /\ UniqueTags /\ FreeLinesFirst

\* A page no listed line holds is held by no line at all.
LEMMA MissNotHeld ==
  ASSUME ApiInv, phase = "run", NEW v, Holders(v) = {}
  PROVE  \A k \in Lines : ~(tlb[k].tag = v /\ tlb[k].v = 1)
<1>1. SUFFICES ASSUME NEW k \in Lines, tlb[k].tag = v, tlb[k].v = 1
               PROVE  FALSE
  OBVIOUS
<1>2. ToSet(ll) = Lines
  BY DEF ApiInv, AllLinesListed
<1>3. PICK i \in DOMAIN ll : ll[i] = k
  BY <1>2 DEF ToSet
<1> QED
  BY <1>1, <1>3 DEF Holders

\* Where the element at position j of a list of n stood before the i-th moved.
From(n, i, j) == IF j < i THEN j ELSE IF j < n THEN j + 1 ELSE i

LEMMA FromOrder ==
  ASSUME NEW n \in Nat, NEW i \in 1..n, NEW a \in 1..n, NEW b \in 1..n,
         a < b, From(n, i, b) # i
  PROVE  /\ From(n, i, a) \in 1..n /\ From(n, i, b) \in 1..n
         /\ From(n, i, a) < From(n, i, b) /\ From(n, i, a) # i
BY DEF From

\* The line that was just used may stand at the back.
LEMMA MoveFree ==
  ASSUME ApiInv, FreeLinesFirst, phase = "run", NEW i \in DOMAIN ll,
         ll' = MoveBack(ll, i), tlb'[ll[i]].v = 1,
         \A k \in Lines : k # ll[i] => tlb'[k] = tlb[k]
  PROVE  FreeLinesFirst'
<1> DEFINE from(j) == From(Len(ll), i, j)
<1>1. ll \in Seq(Lines) /\ DOMAIN ll = 1..Len(ll) /\ IsInjective(ll)
  BY DEF ApiInv, TypeOK, AllLinesListed
<1>2. DOMAIN ll' = 1..Len(ll) /\ \A j \in 1..Len(ll) : ll'[j] = ll[from(j)]
  BY <1>1, MoveBackElements DEF From
<1>3. SUFFICES ASSUME NEW a \in 1..Len(ll), NEW b \in 1..Len(ll),
                      tlb'[ll'[a]].v = 1, a < b
               PROVE  tlb'[ll'[b]].v = 1
  BY <1>2 DEF FreeLinesFirst
<1>4. CASE from(b) = i
  BY <1>2, <1>4
<1>5. CASE from(b) # i
  <2>1. /\ from(a) \in 1..Len(ll) /\ from(b) \in 1..Len(ll)
        /\ from(a) < from(b) /\ from(a) # i
    <3>1. Len(ll) \in Nat /\ i \in 1..Len(ll)
      BY <1>1
    <3> QED
      BY <3>1, <1>3, <1>5, FromOrder
  <2>2. ll'[a] = ll[from(a)] /\ ll'[b] = ll[from(b)]
    BY <1>2
  <2> HIDE DEF from
  <2>3. ll[from(a)] # ll[i] /\ ll[from(b)] # ll[i]
    BY <1>1, <1>5, <2>1 DEF IsInjective
  <2>4. tlb'[ll[from(a)]] = tlb[ll[from(a)]] /\ tlb'[ll[from(b)]] = tlb[ll[from(b)]]
    BY <1>1, <2>1, <2>3
  <2>5. tlb[ll[from(a)]].v = 1
    BY <1>3, <2>2, <2>4
  <2>6. tlb[ll[from(b)]].v = 1
    BY <1>1, <2>1, <2>5 DEF FreeLinesFirst
  <2> QED
    BY <2>2, <2>4, <2>6
<1> QED
  BY <1>4, <1>5

\* A search that misses, seen from its victim.
LEMMA MissLines ==
  ASSUME ApiInv, NEW v \in VPNS, SearchMiss(v)
  PROVE  /\ 1 \in DOMAIN ll /\ Victim \in Lines
         /\ tlb'[Victim] = NewEntry(v)
         /\ \A k \in Lines : k # Victim => tlb'[k] = tlb[k]
BY VictimIsLine DEF SearchMiss, ApiInv, TypeOK

LEMMA Step ==
  ASSUME Inv, [Next]_vars
  PROVE  Inv'
<1>1. ApiInv /\ ApiInv'
  BY ApiStep DEF Inv, ApiNext
<1>2. CASE Flush
  <2>1. \A i \in Lines : tlb'[i].v = 0
    BY <1>2, EntryTypes DEF Flush
  <2>2. \A i \in DOMAIN ll' : ll'[i] \in Lines
    BY <1>1 DEF ApiInv, TypeOK
  <2> QED
    BY <1>1, <2>1, <2>2 DEF Inv, UniqueTags, FreeLinesFirst
<1>3. CASE FillList
  <2>1. \A i \in Lines : tlb'[i].v = 0
    BY <1>1, <1>3 DEF FillList, ApiInv, Booting
  <2>2. \A i \in DOMAIN ll' : ll'[i] \in Lines
    BY <1>1 DEF ApiInv, TypeOK
  <2> QED
    BY <1>1, <2>1, <2>2 DEF Inv, UniqueTags, FreeLinesFirst
<1>4. ASSUME NEW v \in VPNS, SearchHit(v)
      PROVE  Inv'
  <2>1. PICK i \in Holders(v) : ll' = MoveBack(ll, i)
    BY <1>4 DEF SearchHit
  <2>2. i \in DOMAIN ll /\ tlb[ll[i]].v = 1 /\ phase = "run" /\ tlb' = tlb
    BY <1>4 DEF SearchHit, Holders
  <2>3. FreeLinesFirst'
    BY <1>1, <2>1, <2>2, MoveFree DEF Inv
  <2> QED
    BY <1>1, <2>2, <2>3 DEF Inv, UniqueTags
<1>5. ASSUME NEW v \in VPNS, SearchMiss(v)
      PROVE  Inv'
  <2>1. phase = "run" /\ ll' = MoveBack(ll, 1) /\ Holders(v) = {}
    BY <1>5 DEF SearchMiss
  <2>2. /\ 1 \in DOMAIN ll /\ Victim \in Lines
        /\ tlb'[Victim].v = 1 /\ tlb'[Victim].tag = v
        /\ \A k \in Lines : k # Victim => tlb'[k] = tlb[k]
    BY <1>1, <1>5, MissLines, EntryTypes
  <2>3. FreeLinesFirst'
    BY <1>1, <2>1, <2>2, MoveFree DEF Inv, Victim
  <2>4. \A k \in Lines : ~(tlb[k].tag = v /\ tlb[k].v = 1)
    BY <1>1, <2>1, MissNotHeld
  <2>5. UniqueTags'
    BY <2>1, <2>2, <2>4 DEF Inv, UniqueTags
  <2> QED
    BY <1>1, <2>3, <2>5 DEF Inv
<1>6. CASE UNCHANGED vars
  BY <1>1, <1>6 DEF vars, Inv, UniqueTags, FreeLinesFirst
<1> QED
  BY <1>2, <1>3, <1>4, <1>5, <1>6 DEF Next

LEMMA Invariant == Spec => []Inv
<1>1. Init => Inv
  BY ApiInit DEF Init, Inv, UniqueTags, FreeLinesFirst
<1>2. Inv /\ [Next]_vars => Inv'
  BY Step
<1> QED
  BY <1>1, <1>2, PTL DEF Spec

\* The state keeps its types: every entry is whole, every list value a line.
THEOREM TypeCorrect == Spec => []TypeOK
<1>1. Inv => TypeOK
  BY DEF Inv, ApiInv
<1> QED
  BY <1>1, Invariant, PTL

\* Two valid lines never hold the same page, however the searches go.
THEOREM NoDuplicates == Spec => []UniqueTags
<1>1. Inv => UniqueTags
  BY DEF Inv
<1> QED
  BY <1>1, Invariant, PTL

\* A miss evicts a translation only when no line is free.
THEOREM EvictsOnlyWhenFull == Spec => []FreeLinesFirst
<1>1. Inv => FreeLinesFirst
  BY DEF Inv
<1> QED
  BY <1>1, Invariant, PTL

-----------------------------------------------------------------------------
(* The TLB implements a translation cache.                                 *)

LEMMA FlatStep ==
  ASSUME ApiInv, ApiInv', [Next]_vars
  PROVE  [Flat!Next]_(Flat!vars)
<1> USE DEF Flat!vars
<1>1. CASE Flush
  <2>1. \A i \in Lines : tlb'[i].v = 0
    BY <1>1, EntryTypes DEF Flush
  <2>2. Resident' = {} /\ UNCHANGED <<vaddr, paddr, hit_or_miss>>
    BY <1>1, <2>1 DEF Flush, Resident
  <2> QED
    BY <2>2 DEF Flat!Next, Flat!Flush
<1>2. CASE FillList
  <2>1. \A i \in Lines : tlb'[i].v = 0
    BY <1>2 DEF FillList, ApiInv, Booting
  <2>2. Resident = {} /\ Resident' = {} /\ UNCHANGED <<vaddr, paddr, hit_or_miss>>
    BY <1>2, <2>1 DEF FillList, Resident
  <2> QED
    BY <2>2
<1>3. ASSUME NEW v \in VPNS, SearchHit(v)
      PROVE  Flat!Search(v)
  <2>1. PICK i \in Holders(v) : TRUE
    BY <1>3 DEF SearchHit
  <2>2. ll[i] \in Lines /\ tlb[ll[i]].tag = v /\ tlb[ll[i]].v = 1
    BY <2>1 DEF Holders, ApiInv, TypeOK
  <2>3. phase = "run" /\ phase' = "run" /\ tlb' = tlb /\ vaddr' = v /\ hit_or_miss' = 1
    BY <1>3 DEF SearchHit
  <2>4. v \in Resident /\ Resident' = Resident
    BY <2>2, <2>3 DEF Resident
  <2>5. paddr' = walk[v]
    BY <2>3, TlbAssumption DEF ApiInv, AnswerCorrect
  <2> QED
    BY <2>3, <2>4, <2>5 DEF Flat!Search
<1>4. ASSUME NEW v \in VPNS, SearchMiss(v)
      PROVE  Flat!Search(v)
  <2>1. /\ phase = "run" /\ phase' = "run" /\ Holders(v) = {}
        /\ vaddr' = v /\ hit_or_miss' = 0 /\ paddr' = walk[v]
    BY <1>4 DEF SearchMiss
  <2>2. /\ Victim \in Lines
        /\ tlb'[Victim].v = 1 /\ tlb'[Victim].tag = v
        /\ \A k \in Lines : k # Victim => tlb'[k] = tlb[k]
    BY <1>4, MissLines, EntryTypes
  <2>3. v \notin Resident
    BY <2>1, MissNotHeld DEF Resident
  <2>4. v \in Resident' /\ Resident' \subseteq Resident \cup {v}
    BY <2>1, <2>2 DEF Resident
  <2>5. \A w \in Resident \ Resident' : tlb[Victim].v = 1 /\ w = tlb[Victim].tag
    BY <2>1, <2>2 DEF Resident
  <2>6. \E w \in VPNS : Resident \ Resident' \subseteq {w}
    <3>1. CASE Resident \ Resident' = {}
      BY <3>1
    <3>2. CASE Resident \ Resident' # {}
      <4>1. tlb[Victim].tag \in VPNS
        BY <3>2, <2>1, <2>2, <2>5 DEF ApiInv, Coherence
      <4> QED
        BY <4>1, <2>5
    <3> QED
      BY <3>1, <3>2
  <2> QED
    BY <2>1, <2>3, <2>4, <2>6 DEF Flat!Search
<1>5. CASE UNCHANGED vars
  BY <1>5 DEF vars, Resident
<1> QED
  BY <1>1, <1>2, <1>3, <1>4, <1>5 DEF Next, Flat!Next

(***************************************************************************)
(* Driven as test-tlb_simple.c drives it, the TLB is one translation cache *)
(* that reports a hit exactly for the pages its valid lines hold.          *)
(***************************************************************************)
THEOREM ImplementsTranslationCache == Spec => FlatSpec
<1>1. Init => Flat!Init
  BY DEF Init, Flat!Init, Resident
<1>2. ApiInv /\ ApiInv' /\ [Next]_vars => [Flat!Next]_(Flat!vars)
  BY FlatStep
<1>3. Inv => ApiInv
  BY DEF Inv
<1> QED
  BY <1>1, <1>2, <1>3, Invariant, PTL DEF Spec, FlatSpec, Flat!Spec

-----------------------------------------------------------------------------
(* It implements an LRU cache: the list is free lines, then the lines in   *)
(* use in the order of their use.                                          *)

\* In the list s the lines of t in use are those behind position m.
Halved(t, s, m) == m \in 0..Len(s) /\ \A j \in 1..Len(s) : t[s[j]].v = 1 <=> m < j

InUse(t, s, m) == [k \in 1..Len(s)-m |-> t[s[m + k]].tag]

LastFreeOf(t, s) ==
  CHOOSE m \in 0..Len(s) : /\ m > 0 => t[s[m]].v = 0
                           /\ \A i \in m+1..Len(s) : t[s[i]].v = 1

LEMMA HalvedAt ==
  ASSUME NEW s \in Seq(Lines), NEW t \in [Lines -> Entry], NEW m, Halved(t, s, m)
  PROVE  LastFreeOf(t, s) = m
<1> DEFINE Ends(k) == /\ k > 0 => t[s[k]].v = 0
                      /\ \A i \in k+1..Len(s) : t[s[i]].v = 1
<1>1. m \in 0..Len(s) /\ Len(s) \in Nat
  BY DEF Halved
<1>2. \A j \in 1..Len(s) : t[s[j]].v \in {0, 1}
  BY DEF Entry
<1>3. Ends(m)
  <2>1. m > 0 => t[s[m]].v = 0
    <3>1. SUFFICES ASSUME m > 0 PROVE t[s[m]].v = 0
      OBVIOUS
    <3>2. m \in 1..Len(s) /\ ~(m < m)
      BY <1>1, <3>1
    <3> QED
      BY <3>2, <1>2 DEF Halved
  <2>2. ASSUME NEW i \in m+1..Len(s) PROVE t[s[i]].v = 1
    <3>1. i \in 1..Len(s) /\ m < i
      BY <1>1
    <3> QED
      BY <3>1 DEF Halved
  <2> QED
    BY <2>1, <2>2
<1>4. ASSUME NEW k \in 0..Len(s), Ends(k) PROVE k = m
  <2>1. CASE k < m
    <3>1. m \in k+1..Len(s) /\ m > 0
      BY <1>1, <2>1
    <3>2. t[s[m]].v = 1 /\ t[s[m]].v = 0
      BY <1>3, <1>4, <3>1
    <3> QED
      BY <3>2
  <2>2. CASE m < k
    <3>1. k \in m+1..Len(s) /\ k > 0
      BY <1>1, <2>2
    <3>2. t[s[k]].v = 1 /\ t[s[k]].v = 0
      BY <1>3, <1>4, <3>1
    <3> QED
      BY <3>2
  <2> QED
    BY <1>1, <2>1, <2>2
<1>5. LastFreeOf(t, s) = CHOOSE k \in 0..Len(s) : Ends(k)
  BY DEF LastFreeOf
<1> HIDE DEF Ends
<1> QED
  BY <1>1, <1>3, <1>4, <1>5

\* While searches go on the list is in two halves.
TwoHalves == phase = "run" => \E m \in Nat : Halved(tlb, ll, m)

LEMMA RecentIs ==
  ASSUME ApiInv, phase = "run", NEW m, Halved(tlb, ll, m)
  PROVE  Recent = InUse(tlb, ll, m)
<1>1. ll \in Seq(Lines) /\ tlb \in [Lines -> Entry]
  BY DEF ApiInv, TypeOK
<1>2. LastFreeOf(tlb, ll) = m
  BY <1>1, HalvedAt
<1>3. LastFree = m
  BY <1>2 DEF LastFree, LastFreeOf
<1> QED
  BY <1>3 DEF Recent, InUse

LEMMA RecentNext ==
  ASSUME ApiInv', phase' = "run", NEW m, Halved(tlb', ll', m)
  PROVE  Recent' = InUse(tlb', ll', m)
<1>1. ll' \in Seq(Lines) /\ tlb' \in [Lines -> Entry]
  BY DEF ApiInv, TypeOK
<1>2. LastFreeOf(tlb', ll') = m
  BY <1>1, HalvedAt
<1>3. LastFree' = m
  BY <1>2 DEF LastFree, LastFreeOf
<1> QED
  BY <1>3 DEF Recent, InUse

LEMMA InUseType ==
  ASSUME NEW s \in Seq(Lines), NEW t \in [Lines -> Entry], NEW m \in 0..Len(s)
  PROVE  /\ InUse(t, s, m) \in Seq(Nat) /\ Len(InUse(t, s, m)) = Len(s) - m
         /\ \A k \in 1..Len(s)-m : InUse(t, s, m)[k] = t[s[m + k]].tag
<1>1. Len(s) \in Nat /\ Len(s) - m \in Nat
  OBVIOUS
<1>2. \A k \in 1..Len(s)-m : t[s[m + k]].tag \in Nat
  <2>1. SUFFICES ASSUME NEW k \in 1..Len(s)-m PROVE t[s[m + k]].tag \in Nat
    OBVIOUS
  <2>2. m + k \in 1..Len(s)
    BY <1>1
  <2> QED
    BY <2>2 DEF Entry
<1> QED
  BY <1>1, <1>2 DEF InUse

\* A sequence that is another one and one element more.
LEMMA Appended ==
  ASSUME NEW S, NEW r \in Seq(S), NEW q \in Seq(S), NEW e \in S, Len(q) = Len(r) + 1,
         q[Len(r) + 1] = e, \A j \in 1..Len(r) : q[j] = r[j]
  PROVE  q = Append(r, e)
<1> DEFINE t == Append(r, e)
<1>1. t \in Seq(S) /\ Len(t) = Len(r) + 1 /\ Len(r) \in Nat
  OBVIOUS
<1>2. t[Len(r) + 1] = e /\ \A j \in 1..Len(r) : t[j] = r[j]
  OBVIOUS
<1> HIDE DEF t
<1>3. ASSUME NEW j \in 1..Len(q) PROVE q[j] = t[j]
  BY <1>1, <1>2
<1>4. q = t
  BY <1>1, <1>3, SeqEqual
<1> QED
  BY <1>4 DEF t

\* A hit moves the page to the end of those in use.
LEMMA LruHit ==
  ASSUME ApiInv, ApiInv', NEW v \in VPNS, SearchHit(v), NEW m, Halved(tlb, ll, m)
  PROVE  Halved(tlb', ll', m) /\ Lru!Search(v)
<1> DEFINE n == Len(ll)
<1>1. PICK i \in Holders(v) : ll' = MoveBack(ll, i)
  BY DEF SearchHit
<1>2. /\ ll \in Seq(Lines) /\ tlb \in [Lines -> Entry] /\ n \in Nat /\ m \in 0..n
      /\ i \in 1..n /\ tlb[ll[i]].tag = v /\ tlb[ll[i]].v = 1
  BY <1>1 DEF ApiInv, TypeOK, Holders, Halved
<1>3. m < i
  BY <1>2 DEF Halved
<1>4. /\ phase = "run" /\ phase' = "run" /\ tlb' = tlb /\ vaddr' = v /\ hit_or_miss' = 1
      /\ paddr' = walk[v]
  BY TlbAssumption DEF SearchHit, ApiInv, AnswerCorrect
<1>5. /\ ll' \in Seq(Lines) /\ Len(ll') = n
      /\ \A j \in 1..n : ll'[j] = IF j < i THEN ll[j] ELSE IF j < n THEN ll[j+1] ELSE ll[i]
  BY ONLY <1>1, <1>2, MoveBackElements
<1> HIDE DEF n
<1>6. Halved(tlb', ll', m)
  <2>1. ASSUME NEW j \in 1..n PROVE tlb[ll'[j]].v = 1 <=> m < j
    <3>1. CASE j < i
      BY <1>2, <1>5, <3>1 DEF Halved, n
    <3>2. CASE i <= j /\ j < n
      <4>1. ll'[j] = ll[j+1] /\ j + 1 \in 1..n /\ m < j /\ m < j + 1
        BY <1>2, <1>3, <1>5, <3>2
      <4> QED
        BY <4>1 DEF Halved, n
    <3>3. CASE j = n
      <4>1. ll'[j] = ll[i] /\ m < j
        BY <1>2, <1>3, <1>5, <3>3
      <4> QED
        BY <4>1, <1>2
    <3> QED
      BY <1>2, <3>1, <3>2, <3>3
  <2> QED
    BY <1>2, <1>4, <1>5, <2>1 DEF Halved
<1> DEFINE r == InUse(tlb, ll, m)
           q == InUse(tlb', ll', m)
           k == i - m
<1>7. Recent = r /\ Recent' = q
  BY <1>4, <1>6, RecentIs, RecentNext
<1>8. k \in 1..n-m /\ n - m \in Nat
  BY <1>2, <1>3
<1>9. /\ r \in Seq(Nat) /\ Len(r) = n - m /\ \A j \in 1..n-m : r[j] = tlb[ll[m + j]].tag
      /\ q \in Seq(Nat) /\ Len(q) = n - m /\ \A j \in 1..n-m : q[j] = tlb[ll'[m + j]].tag
  <2>1. r \in Seq(Nat) /\ Len(r) = n - m /\ \A j \in 1..n-m : r[j] = tlb[ll[m + j]].tag
    BY <1>2, InUseType DEF n
  <2>2. tlb' \in [Lines -> Entry] /\ m \in 0..Len(ll') /\ ll' \in Seq(Lines)
    BY <1>2, <1>4, <1>5
  <2>3. /\ q \in Seq(Nat) /\ Len(q) = Len(ll') - m
        /\ \A j \in 1..Len(ll')-m : q[j] = tlb'[ll'[m + j]].tag
    BY ONLY <2>2, InUseType
  <2> HIDE DEF r, q
  <2> QED
    BY <1>4, <1>5, <2>1, <2>3
<1>10. r[k] = v
  <2>1. m + k = i
    BY <1>2
  <2> QED
    BY <1>2, <1>8, <1>9, <2>1
<1>11. \A j \in 1..n-m : /\ m + j \in 1..n /\ (j < k <=> m + j < i)
                        /\ (j < n - m <=> m + j < n)
  BY <1>2
<1> HIDE DEF r, q, k
<1>12. /\ MovedBack(r, k) \in Seq(Nat) /\ Len(MovedBack(r, k)) = n - m
       /\ \A j \in 1..n-m :
            MovedBack(r, k)[j] = IF j < k THEN r[j] ELSE IF j < n - m THEN r[j+1] ELSE r[k]
  <2>1. k \in 1..Len(r)
    BY <1>8, <1>9
  <2>2. /\ MovedBack(r, k) \in Seq(Nat) /\ Len(MovedBack(r, k)) = Len(r)
        /\ \A j \in 1..Len(r) :
             MovedBack(r, k)[j] = IF j < k THEN r[j] ELSE IF j < Len(r) THEN r[j+1] ELSE r[k]
    BY ONLY <1>9, <2>1, MovedBackElements
  <2> QED
    BY <1>9, <2>2
<1>13. ASSUME NEW j \in 1..n-m PROVE q[j] = MovedBack(r, k)[j]
  <2>1. m + j \in 1..n /\ (j < k <=> m + j < i) /\ (j < n - m <=> m + j < n)
    BY <1>11
  <2>2. CASE j < k
    BY <1>5, <1>9, <1>12, <2>1, <2>2
  <2>3. CASE ~(j < k) /\ j < n - m
    <3>1. ll'[m + j] = ll[(m + j) + 1]
      BY <1>5, <2>1, <2>3
    <3>2. j + 1 \in 1..n-m /\ m + (j + 1) = (m + j) + 1
      BY <1>2, <2>3
    <3>3. r[j+1] = tlb[ll[m + (j + 1)]].tag
      BY <1>9, <3>2
    <3>4. MovedBack(r, k)[j] = r[j+1]
      BY <1>12, <2>3
    <3> QED
      BY <1>9, <3>1, <3>2, <3>3, <3>4
  <2>4. CASE ~(j < k) /\ ~(j < n - m)
    <3>1. ll'[m + j] = ll[i]
      BY <1>5, <2>1, <2>4
    <3> QED
      BY <1>2, <1>9, <1>10, <1>12, <2>4, <3>1
  <2> QED
    BY <2>2, <2>3, <2>4
<1>14. q = MovedBack(r, k)
  <2>1. n - m \in Nat
    BY <1>8
  <2> QED
    BY ONLY <1>9, <1>12, <1>13, <2>1, SeqEqual
<1>15. Recent' = Append(RemoveAt(Recent, k), v) /\ Recent[k] = v /\ k \in DOMAIN Recent
  BY <1>7, <1>8, <1>9, <1>10, <1>14 DEF MovedBack
<1> QED
  BY <1>4, <1>6, <1>15 DEF Lru!Search, Lru!RemoveAt, RemoveAt, Lru!ToSet, ToSet

\* A miss takes the last free line, or else the least recently used page's.
LEMMA LruMiss ==
  ASSUME ApiInv, ApiInv', NEW v \in VPNS, SearchMiss(v), NEW m, Halved(tlb, ll, m)
  PROVE  (\E h \in Nat : Halved(tlb', ll', h)) /\ Lru!Search(v)
<1> DEFINE n == Len(ll)
           h == IF m = 0 THEN 0 ELSE m - 1
<1>1. /\ ll \in Seq(Lines) /\ tlb \in [Lines -> Entry] /\ n = TLB_LINES /\ m \in 0..n
      /\ n \in Nat \ {0} /\ IsInjective(ll) /\ phase = "run" /\ phase' = "run"
      /\ vaddr' = v /\ paddr' = walk[v] /\ hit_or_miss' = 0
  BY TlbAssumption DEF ApiInv, TypeOK, AllLinesListed, Halved, SearchMiss
<1>2. /\ 1 \in 1..n /\ ll[1] \in Lines /\ tlb'[ll[1]].v = 1 /\ tlb'[ll[1]].tag = v
      /\ \A k \in Lines : k # ll[1] => tlb'[k] = tlb[k]
  BY <1>1, MissLines, EntryTypes DEF Victim
<1>3. /\ ll' \in Seq(Lines) /\ Len(ll') = n
      /\ \A j \in 1..n : ll'[j] = IF j < n THEN ll[j+1] ELSE ll[1]
  <2>1. ll' = MoveBack(ll, 1)
    BY DEF SearchMiss
  <2>2. /\ ll' \in Seq(Lines) /\ Len(ll') = n
        /\ \A j \in 1..n : ll'[j] = IF j < 1 THEN ll[j] ELSE IF j < n THEN ll[j+1] ELSE ll[1]
    BY ONLY <1>1, <1>2, <2>1, MoveBackElements
  <2> QED
    BY <1>1, <2>2
<1>4. tlb' \in [Lines -> Entry]
  BY DEF ApiInv, TypeOK
<1> HIDE DEF n
<1>5. \A j \in 1..n-1 : /\ j + 1 \in 1..n /\ ll[j+1] \in Lines /\ ll'[j] = ll[j+1]
                        /\ tlb'[ll'[j]] = tlb[ll[j+1]]
  <2>1. SUFFICES ASSUME NEW j \in 1..n-1
                 PROVE  /\ j + 1 \in 1..n /\ ll[j+1] \in Lines /\ ll'[j] = ll[j+1]
                        /\ tlb'[ll'[j]] = tlb[ll[j+1]]
    OBVIOUS
  <2>2. j + 1 \in 1..n /\ j + 1 # 1 /\ ll'[j] = ll[j+1]
    BY <1>1, <1>3
  <2>3. ll[j+1] \in Lines /\ ll[j+1] # ll[1]
    BY <1>1, <1>2, <2>2 DEF IsInjective, n
  <2> QED
    BY <1>2, <2>2, <2>3
<1>6. ll'[n] = ll[1]
  BY <1>1, <1>3
<1>7. h \in 0..n /\ h < n /\ h \in Nat
  BY <1>1
<1>8. Halved(tlb', ll', h)
  <2>1. ASSUME NEW j \in 1..n PROVE tlb'[ll'[j]].v = 1 <=> h < j
    <3>1. CASE j \in 1..n-1
      <4>1. tlb[ll[j+1]].v = 1 <=> m < j + 1
        BY <1>5, <3>1 DEF Halved, n
      <4>2. m < j + 1 <=> h < j
        BY <1>1, <3>1
      <4> QED
        BY <1>5, <3>1, <4>1, <4>2
    <3>2. CASE j = n
      BY <1>2, <1>6, <1>7, <3>2
    <3> QED
      BY <1>1, <3>1, <3>2
  <2> QED
    BY <1>3, <1>7, <2>1 DEF Halved
<1> DEFINE r == InUse(tlb, ll, m)
           q == InUse(tlb', ll', h)
<1>9. Recent = r /\ Recent' = q
  BY <1>1, <1>8, RecentIs, RecentNext
<1>10. r \in Seq(Nat) /\ Len(r) = n - m /\ \A j \in 1..n-m : r[j] = tlb[ll[m + j]].tag
  BY <1>1, InUseType DEF n
<1>11. q \in Seq(Nat) /\ Len(q) = n - h /\ \A j \in 1..n-h : q[j] = tlb'[ll'[h + j]].tag
  BY <1>3, <1>4, <1>7, InUseType
<1> HIDE DEF r, q
<1>12. v \notin ToSet(r)
  <2>1. SUFFICES ASSUME NEW j \in 1..n-m, r[j] = v PROVE FALSE
    BY <1>10 DEF ToSet
  <2>2. m + j \in 1..n /\ m < m + j
    BY <1>1
  <2>3. tlb[ll[m + j]].v = 1 /\ tlb[ll[m + j]].tag = v
    BY <1>10, <2>1, <2>2 DEF Halved, n
  <2>4. m + j \in Holders(v)
    BY <1>1, <2>2, <2>3 DEF Holders, n
  <2> QED
    BY <2>4 DEF SearchMiss
<1>13. q = Append(IF Len(r) < TLB_LINES THEN r ELSE Tail(r), v)
  <2>1. q[n - h] = v
    <3>1. n - h \in 1..n-h /\ h + (n - h) = n
      BY <1>1, <1>7
    <3> QED
      BY <1>2, <1>6, <1>11, <3>1
  <2>2. ASSUME NEW j \in 1..n-h-1 PROVE h + j \in 1..n-1 /\ q[j] = tlb[ll[(h + j) + 1]].tag
    <3>1. h + j \in 1..n-1 /\ j \in 1..n-h
      BY <1>1, <1>7
    <3> QED
      BY <1>5, <1>11, <3>1
  <2>3. CASE m = 0
    <3>1. h = 0 /\ Len(r) = n /\ ~(Len(r) < TLB_LINES)
      BY <1>1, <1>10, <2>3
    <3>2. Tail(r) \in Seq(Nat) /\ Len(Tail(r)) = n - 1 /\ \A j \in 1..n-1 : Tail(r)[j] = r[j+1]
      BY <1>1, <1>10, <3>1
    <3>3. ASSUME NEW j \in 1..n-1 PROVE q[j] = Tail(r)[j]
      <4>1. j \in 1..n-h-1 /\ j + 1 \in 1..n-m /\ m + (j + 1) = (h + j) + 1
        BY <1>1, <2>3, <3>1
      <4> QED
        BY <1>10, <2>2, <3>2, <4>1
    <3>4. Len(q) = n /\ q[n] = v
      BY <1>1, <1>11, <2>1, <3>1
    <3> HIDE DEF h
    <3>5. q = Append(Tail(r), v)
      <4> DEFINE rest == Tail(r)
      <4> HIDE DEF rest
      <4>1. /\ rest \in Seq(Nat) /\ Len(rest) = n - 1 /\ v \in Nat /\ n \in Nat \ {0}
            /\ \A j \in 1..n-1 : q[j] = rest[j]
        BY <1>1, <3>2, <3>3, TlbAssumption DEF rest
      <4> QED
        <5>1. Len(q) = Len(rest) + 1 /\ q[Len(rest) + 1] = v
              /\ \A j \in 1..Len(rest) : q[j] = rest[j]
          BY ONLY <3>4, <4>1
        <5>2. q = Append(rest, v)
          BY ONLY <1>11, <4>1, <5>1, Appended
        <5> QED
          BY <5>2 DEF rest
    <3> QED
      BY <3>1, <3>5
  <2>4. CASE m # 0
    <3>1. h = m - 1 /\ Len(r) < TLB_LINES /\ n - h = (n - m) + 1 /\ n - m \in Nat
      BY <1>1, <1>10, <2>4
    <3>2. ASSUME NEW j \in 1..n-m PROVE q[j] = r[j]
      <4>1. j \in 1..n-h-1 /\ m + j = (h + j) + 1
        BY <1>1, <3>1
      <4> QED
        BY <1>10, <2>2, <4>1
    <3>3. Len(q) = (n - m) + 1 /\ q[(n - m) + 1] = v
      BY <1>11, <2>1, <3>1
    <3> HIDE DEF h
    <3>4. q = Append(r, v)
      <4>1. v \in Nat /\ Len(q) = Len(r) + 1 /\ q[Len(r) + 1] = v
            /\ \A j \in 1..Len(r) : q[j] = r[j]
        BY <1>10, <3>2, <3>3, TlbAssumption
      <4> QED
        BY ONLY <1>10, <1>11, <4>1, Appended
    <3> QED
      BY <3>1, <3>4
  <2> QED
    BY <2>3, <2>4
<1>14. Lru!Search(v)
  BY <1>1, <1>9, <1>12, <1>13 DEF Lru!Search, Lru!RemoveAt, RemoveAt, Lru!ToSet, ToSet
<1> HIDE DEF h
<1> QED
  BY <1>7, <1>8, <1>14

\* Lines that are all free are the first half.
LEMMA AllFree ==
  ASSUME NEW s \in Seq(Lines), NEW t, \A k \in Lines : t[k].v = 0
  PROVE  Len(s) \in Nat /\ Halved(t, s, Len(s)) /\ InUse(t, s, Len(s)) = <<>>
<1>1. Len(s) \in Nat /\ Len(s) - Len(s) = 0 /\ Len(s) \in 0..Len(s)
  OBVIOUS
<1>2. \A j \in 1..Len(s) : t[s[j]].v = 0 /\ ~(Len(s) < j)
  OBVIOUS
<1>3. InUse(t, s, Len(s)) = <<>>
  BY <1>1 DEF InUse
<1> QED
  BY <1>1, <1>2, <1>3 DEF Halved

LEMMA LruStep ==
  ASSUME ApiInv, ApiInv', TwoHalves, [Next]_vars
  PROVE  TwoHalves' /\ [Lru!Next]_(Lru!vars)
<1> USE DEF Lru!vars
<1>1. ll' \in Seq(Lines)
  BY DEF ApiInv, TypeOK
<1>2. CASE Flush
  <2>1. \A k \in Lines : tlb'[k].v = 0
    BY <1>2, EntryTypes DEF Flush
  <2>2. Len(ll') \in Nat /\ Halved(tlb', ll', Len(ll')) /\ InUse(tlb', ll', Len(ll')) = <<>>
    BY <1>1, <2>1, AllFree
  <2>3. Recent' = <<>>
    <3>1. CASE phase' = "run"
      BY <2>2, <3>1, RecentNext
    <3>2. CASE phase' # "run"
      BY <3>2 DEF Recent
    <3> QED
      BY <3>1, <3>2
  <2> QED
    BY <1>2, <2>2, <2>3 DEF TwoHalves, Flush, Lru!Next, Lru!Flush
<1>3. CASE FillList
  <2>1. \A k \in Lines : tlb'[k].v = 0
    BY <1>3 DEF FillList, ApiInv, Booting
  <2>2. Len(ll') \in Nat /\ Halved(tlb', ll', Len(ll')) /\ InUse(tlb', ll', Len(ll')) = <<>>
    BY <1>1, <2>1, AllFree
  <2>3. Recent' = <<>>
    <3>1. CASE phase' = "run"
      BY <2>2, <3>1, RecentNext
    <3>2. CASE phase' # "run"
      BY <3>2 DEF Recent
    <3> QED
      BY <3>1, <3>2
  <2>4. Recent = <<>>
    BY <1>3 DEF FillList, Recent
  <2> QED
    BY <1>3, <2>2, <2>3, <2>4 DEF TwoHalves, FillList
<1>4. ASSUME NEW v \in VPNS, SearchHit(v)
      PROVE  TwoHalves' /\ Lru!Search(v)
  <2>1. PICK m \in Nat : Halved(tlb, ll, m)
    BY <1>4 DEF SearchHit, TwoHalves
  <2>2. Halved(tlb', ll', m) /\ Lru!Search(v)
    BY <1>4, <2>1, LruHit
  <2> QED
    BY <2>1, <2>2 DEF TwoHalves
<1>5. ASSUME NEW v \in VPNS, SearchMiss(v)
      PROVE  TwoHalves' /\ Lru!Search(v)
  <2>1. PICK m \in Nat : Halved(tlb, ll, m)
    BY <1>5 DEF SearchMiss, TwoHalves
  <2>2. (\E h \in Nat : Halved(tlb', ll', h)) /\ Lru!Search(v)
    BY <1>5, <2>1, LruMiss
  <2> QED
    BY <2>2 DEF TwoHalves
<1>6. CASE UNCHANGED vars
  BY <1>6 DEF vars, TwoHalves, Halved, Recent, LastFree
<1> QED
  BY <1>2, <1>3, <1>4, <1>5, <1>6 DEF Next, Lru!Next

(***************************************************************************)
(* Driven as test-tlb_simple.c drives it, with flushes at any later time,  *)
(* the TLB forgets the least recently used page, and only when it is full. *)
(***************************************************************************)
THEOREM ImplementsLruCache == Spec => LruSpec
<1>1. Init => TwoHalves /\ Lru!Init
  BY DEF Init, TwoHalves, Lru!Init, Recent
<1>2. ApiInv /\ ApiInv' /\ TwoHalves /\ [Next]_vars => TwoHalves' /\ [Lru!Next]_(Lru!vars)
  BY LruStep
<1>3. Inv => ApiInv
  BY DEF Inv
<1> QED
  BY <1>1, <1>2, <1>3, Invariant, PTL DEF Spec, LruSpec, Lru!Spec
=============================================================================
