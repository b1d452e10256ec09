-------------------------- MODULE TlbHrchyProofs --------------------------
(***************************************************************************)
(* What the two-level TLB promises for every number of lines, every set of *)
(* pages and every page table: proofs about TlbHrchy.                      *)
(***************************************************************************)
EXTENDS TlbHrchy, DataLemmas

-----------------------------------------------------------------------------
(* The index and tag of a page.                                            *)

\* The tag field of an L1 line is wide enough: nothing is cut off.
LEMMA PageSplit1 ==
  ASSUME NEW v \in VPNS
  PROVE  Splits(v, L1_LINES, Tag1(v), Index1(v))
<1>1. v \in Nat /\ L1_LINES \in Nat \ {0} /\ TAG_1_MOD \in Nat /\ v < L1_LINES * TAG_1_MOD
  BY LinesAssumption
<1>2. Splits(v, L1_LINES, v \div L1_LINES, v % L1_LINES)
  BY <1>1, DivMod
<1>3. v \div L1_LINES \in 0..TAG_1_MOD-1
  BY <1>1, <1>2, SplitBound DEF Splits
<1>4. (v \div L1_LINES) % TAG_1_MOD = v \div L1_LINES
  BY <1>1, <1>3
<1> QED
  BY <1>2, <1>4 DEF Tag1, Index1

\* Nor is anything cut off by the narrower tag field of an L2 line.
LEMMA PageSplit2 ==
  ASSUME NEW v \in VPNS
  PROVE  Splits(v, L2_LINES, Tag2(v), Index2(v))
<1>1. v \in Nat /\ L2_LINES \in Nat \ {0} /\ TAG_2_MOD \in Nat /\ v < L2_LINES * TAG_2_MOD
  BY LinesAssumption
<1>2. Splits(v, L2_LINES, v \div L2_LINES, v % L2_LINES)
  BY <1>1, DivMod
<1>3. v \div L2_LINES \in 0..TAG_2_MOD-1
  BY <1>1, <1>2, SplitBound DEF Splits
<1>4. (v \div L2_LINES) % TAG_2_MOD = v \div L2_LINES
  BY <1>1, <1>3
<1> QED
  BY <1>2, <1>4 DEF Tag2, Index2

\* Indices are line numbers and tags fit their fields.
LEMMA PageTypes ==
  ASSUME NEW v \in VPNS
  PROVE  /\ Index1(v) \in 0..L1_LINES-1 /\ Tag1(v) \in 0..TAG_1_MOD-1
         /\ Index2(v) \in 0..L2_LINES-1 /\ Tag2(v) \in 0..TAG_2_MOD-1
<1>1. Splits(v, L1_LINES, Tag1(v), Index1(v)) /\ Splits(v, L2_LINES, Tag2(v), Index2(v))
  BY PageSplit1, PageSplit2
<1>2. Tag1(v) < TAG_1_MOD
  BY <1>1, LinesAssumption, SplitBound
<1>3. Tag2(v) < TAG_2_MOD
  BY <1>1, LinesAssumption, SplitBound
<1> QED
  BY <1>1, <1>2, <1>3, LinesAssumption DEF Splits

\* In each level, index and tag together name one page.
LEMMA SamePage ==
  ASSUME NEW v \in VPNS, NEW w \in VPNS
  PROVE  /\ Index1(v) = Index1(w) /\ Tag1(v) = Tag1(w) => v = w
         /\ Index2(v) = Index2(w) /\ Tag2(v) = Tag2(w) => v = w
BY PageSplit1, PageSplit2 DEF Splits

(***************************************************************************)
(* Pages that share an L2 line share their L1 lines, and the low two bits  *)
(* of their L1 tags are the high two bits of that L2 line's index: what    *)
(* the invalidation at the end of tlb_search looks at.                     *)
(***************************************************************************)
LEMMA SharedL2Line ==
  ASSUME NEW v \in VPNS, NEW w \in VPNS, Index2(v) = Index2(w)
  PROVE  /\ Index1(v) = Index1(w)
         /\ Tag1(w) % 4 = Index2(v) \div (L2_LINES \div 4)
<1>1. L1_LINES \in Nat \ {0} /\ L2_LINES = L1_LINES * 4 /\ L2_LINES \div 4 = L1_LINES
  BY LinesAssumption
<1>2. ASSUME NEW u \in VPNS
      PROVE  Splits(Index2(u), L1_LINES, Tag1(u) % 4, Index1(u))
  <2> DEFINE p == Tag1(u) \div 4
             b == Tag1(u) % 4
  <2>1. Splits(u, L1_LINES, Tag1(u), Index1(u))
    BY PageSplit1
  <2>2. Splits(Tag1(u), 4, p, b)
    BY PageTypes, 4 \in Nat \ {0}, DivMod
  <2> HIDE DEF p, b
  <2>3. Splits(u, L2_LINES, p, L1_LINES * b + Index1(u))
    BY <1>1, <2>1, <2>2, SplitMultiple
  <2>4. Index2(u) = L1_LINES * b + Index1(u)
    BY <1>1, <2>3, PageSplit2, SplitUnique
  <2>5. Splits(Index2(u), L1_LINES, b, Index1(u))
    BY <2>1, <2>2, <2>4 DEF Splits
  <2> QED
    BY <2>5 DEF b
<1>3. Splits(Index2(v), L1_LINES, Index2(v) \div L1_LINES, Index2(v) % L1_LINES)
  BY <1>1, PageTypes, DivMod
<1> QED
  BY <1>1, <1>2, <1>3, SplitUnique

-----------------------------------------------------------------------------
(* Types, coherence and answers, for any order of calls.                   *)

\* What the flushes done so far have emptied, while the driver is flushing.
Booted ==
  /\ phase = "flush_l1_dtlb" => \A i \in 0..L1_LINES-1 : l1["INSTRUCTION"][i].v = 0
  /\ phase = "flush_l2_tlb" =>
       \A a \in Access, i \in 0..L1_LINES-1 : l1[a][i].v = 0

ApiInv == TypeOK /\ Booted /\ Coherence /\ AnswerCorrect

LEMMA EntryTypes ==
  /\ FlushedEntry \in Entry1 /\ FlushedEntry \in Entry2 /\ FlushedEntry.v = 0
  /\ \A v \in VPNS : walk[v] \in Nat
  /\ \A tag \in 0..TAG_1_MOD-1, ppn \in Nat : NewEntry(tag, ppn) \in Entry1
  /\ \A tag \in 0..TAG_2_MOD-1, ppn \in Nat : NewEntry(tag, ppn) \in Entry2
  /\ \A tag, ppn : /\ NewEntry(tag, ppn).v = 1
                   /\ NewEntry(tag, ppn).tag = tag
                   /\ NewEntry(tag, ppn).phy_page_num = ppn
<1>1. 0 \in 0..TAG_1_MOD-1 /\ 0 \in 0..TAG_2_MOD-1
  BY LinesAssumption
<1>2. FlushedEntry \in Entry1 /\ FlushedEntry \in Entry2 /\ FlushedEntry.v = 0
  BY <1>1 DEF FlushedEntry, Entry1, Entry2
<1>3. \A v \in VPNS : walk[v] \in Nat
  BY WalkAssumption
<1>4. /\ \A tag \in 0..TAG_1_MOD-1, ppn \in Nat : NewEntry(tag, ppn) \in Entry1
      /\ \A tag \in 0..TAG_2_MOD-1, ppn \in Nat : NewEntry(tag, ppn) \in Entry2
  BY DEF NewEntry, Entry1, Entry2
<1> QED
  BY <1>2, <1>3, <1>4 DEF NewEntry

\* The entry built for a page translates it, in the line of that page.
LEMMA NewEntryTranslates ==
  ASSUME NEW v \in VPNS
  PROVE  /\ Translates1(NewEntry(Tag1(v), walk[v]), Index1(v))
         /\ Translates2(NewEntry(Tag2(v), walk[v]), Index2(v))
BY EntryTypes, PageTypes DEF Translates1, Translates2

\* A coherent level that hits answers with the translation of the page.
LEMMA HitTranslates ==
  ASSUME TypeOK, Coherence, phase = "run", NEW v \in VPNS
  PROVE  /\ \A a \in Access : Hit1(l1[a], v) => l1[a][Index1(v)].phy_page_num = walk[v]
         /\ Hit2(l2, v) => l2[Index2(v)].phy_page_num = walk[v]
<1>1. ASSUME NEW a \in Access, Hit1(l1[a], v)
      PROVE  l1[a][Index1(v)].phy_page_num = walk[v]
  <2>1. Translates1(l1[a][Index1(v)], Index1(v))
    BY <1>1, PageTypes DEF Coherence, L1Coherent, Hit1
  <2> QED
    BY <2>1, <1>1, SamePage DEF Translates1, Hit1
<1>2. ASSUME Hit2(l2, v)
      PROVE  l2[Index2(v)].phy_page_num = walk[v]
  <2>1. Translates2(l2[Index2(v)], Index2(v))
    BY <1>2, PageTypes DEF Coherence, L2Coherent, Hit2
  <2> QED
    BY <2>1, <1>2, SamePage DEF Translates2, Hit2
<1> QED
  BY <1>1, <1>2

LEMMA ApiInit ==
  ASSUME Init
  PROVE  ApiInv
<1>1. TypeOK
  BY WalkAssumption DEF Init, TypeOK, Phases, Access
<1> QED
  BY <1>1 DEF Init, ApiInv, Booted, Coherence, AnswerCorrect

\* Writing the translation of a page into its line of a first level.
LEMMA InsertL1 ==
  ASSUME ApiInv, phase = "run", NEW a \in Access, NEW v \in VPNS,
         l1' = [l1 EXCEPT ![a][Index1(v)] = NewEntry(Tag1(v), walk[v])]
  PROVE  /\ l1' \in [Access -> [0..L1_LINES-1 -> Entry1]]
         /\ \A b \in Access : L1Coherent(b)'
<1> DEFINE e == NewEntry(Tag1(v), walk[v])
<1>1. e \in Entry1 /\ Translates1(e, Index1(v)) /\ Index1(v) \in 0..L1_LINES-1
  BY EntryTypes, PageTypes, NewEntryTranslates
<1> HIDE DEF e
<1>2. l1' = [l1 EXCEPT ![a][Index1(v)] = e]
  BY DEF e
<1>3. l1' \in [Access -> [0..L1_LINES-1 -> Entry1]]
  <2>1. [l1[a] EXCEPT ![Index1(v)] = e] \in [0..L1_LINES-1 -> Entry1]
    BY <1>1 DEF ApiInv, TypeOK
  <2>2. l1' = [l1 EXCEPT ![a] = [l1[a] EXCEPT ![Index1(v)] = e]]
    BY <1>2
  <2> QED
    BY <2>1, <2>2 DEF ApiInv, TypeOK
<1>4. /\ l1'[a][Index1(v)] = e
      /\ \A b \in Access : \A i \in 0..L1_LINES-1 :
           ~(b = a /\ i = Index1(v)) => l1'[b][i] = l1[b][i]
  <2> DEFINE set == [l1[a] EXCEPT ![Index1(v)] = e]
  <2>1. set[Index1(v)] = e /\ \A i \in 0..L1_LINES-1 : i # Index1(v) => set[i] = l1[a][i]
    BY <1>1 DEF ApiInv, TypeOK
  <2>2. l1' = [l1 EXCEPT ![a] = set]
    BY <1>2
  <2> HIDE DEF set
  <2>3. l1'[a] = set /\ \A b \in Access : b # a => l1'[b] = l1[b]
    BY <2>2 DEF ApiInv, TypeOK
  <2> QED
    BY <2>1, <2>3
<1>5. ASSUME NEW b \in Access, NEW i \in 0..L1_LINES-1, l1'[b][i].v = 1
      PROVE  Translates1(l1'[b][i], i)
  <2>1. CASE b = a /\ i = Index1(v)
    <3>1. Translates1(e, Index1(v))
      BY <1>1
    <3> QED
      BY <3>1, <2>1, <1>4
  <2>2. CASE ~(b = a /\ i = Index1(v))
    <3>1. l1'[b][i] = l1[b][i]
      BY <2>2, <1>4
    <3> QED
      BY <3>1, <1>5 DEF ApiInv, Coherence, L1Coherent
  <2> QED
    BY <2>1, <2>2
<1> QED
  BY <1>3, <1>5 DEF L1Coherent, Translates1

\* Writing the translation of a page into its line of the second level.
LEMMA InsertL2 ==
  ASSUME ApiInv, phase = "run", NEW v \in VPNS, l2' = FillL2(v, walk[v])
  PROVE  l2' \in [0..L2_LINES-1 -> Entry2] /\ L2Coherent'
<1> DEFINE e == NewEntry(Tag2(v), walk[v])
<1>1. e \in Entry2 /\ Translates2(e, Index2(v)) /\ Index2(v) \in 0..L2_LINES-1
  BY EntryTypes, PageTypes, NewEntryTranslates
<1> HIDE DEF e
<1>2. l2' = [l2 EXCEPT ![Index2(v)] = e]
  BY DEF e, FillL2
<1>3. ASSUME NEW i \in 0..L2_LINES-1, l2'[i].v = 1
      PROVE  Translates2(l2'[i], i)
  <2>1. CASE i = Index2(v)
    BY <2>1, <1>1, <1>2 DEF ApiInv, TypeOK
  <2>2. CASE i # Index2(v)
    BY <2>2, <1>2, <1>3 DEF ApiInv, TypeOK, Coherence, L2Coherent
  <2> QED
    BY <2>1, <2>2
<1> QED
  BY <1>1, <1>2, <1>3 DEF ApiInv, TypeOK, L2Coherent, Translates2

\* A miss leaves both first levels coherent: one gains a line, one may lose one.
LEMMA MissL1 ==
  ASSUME ApiInv, phase = "run", NEW a \in Access, NEW v \in VPNS,
         l1' = FillL1(a, v, walk[v])
  PROVE  /\ l1' \in [Access -> [0..L1_LINES-1 -> Entry1]]
         /\ \A b \in Access : L1Coherent(b)'
<1> DEFINE e == NewEntry(Tag1(v), walk[v])
           old == l1[Other(a)][Index1(v)]
           f == InvalidateEvicted(old, v)
<1>1. e \in Entry1 /\ Translates1(e, Index1(v)) /\ Index1(v) \in 0..L1_LINES-1
  BY EntryTypes, PageTypes, NewEntryTranslates
<1>2. Other(a) \in Access /\ Other(a) # a /\ Access = {a, Other(a)}
  BY DEF Other, Access
<1>3. old \in Entry1
  BY <1>1, <1>2 DEF ApiInv, TypeOK
<1>4. f \in Entry1 /\ f.tag = old.tag /\ f.phy_page_num = old.phy_page_num
      /\ (f.v = 1 => old.v = 1)
  BY <1>3 DEF InvalidateEvicted, Entry1
<1>5. l1' = [l1 EXCEPT ![a][Index1(v)] = e, ![Other(a)][Index1(v)] = f]
  BY <1>2 DEF FillL1, ApiInv, TypeOK
<1> HIDE DEF e, f
<1>6. /\ l1'[a] = [l1[a] EXCEPT ![Index1(v)] = e]
      /\ l1'[Other(a)] = [l1[Other(a)] EXCEPT ![Index1(v)] = f]
  BY <1>2, <1>5 DEF ApiInv, TypeOK
<1>7. l1' \in [Access -> [0..L1_LINES-1 -> Entry1]]
  <2>1. l1' = [b \in Access |-> l1'[b]]
    BY <1>5 DEF ApiInv, TypeOK
  <2>2. l1[a] \in [0..L1_LINES-1 -> Entry1] /\ l1[Other(a)] \in [0..L1_LINES-1 -> Entry1]
    BY <1>2 DEF ApiInv, TypeOK
  <2>3. /\ l1'[a] \in [0..L1_LINES-1 -> Entry1]
        /\ l1'[Other(a)] \in [0..L1_LINES-1 -> Entry1]
    BY <1>1, <1>4, <1>6, <2>2
  <2> QED
    BY <1>2, <2>1, <2>3
<1>8. ASSUME NEW b \in Access, NEW i \in 0..L1_LINES-1, l1'[b][i].v = 1
      PROVE  Translates1(l1'[b][i], i)
  <2>1. CASE i # Index1(v)
    <3>1. l1'[b][i] = l1[b][i]
      <4>1. l1[b] \in [0..L1_LINES-1 -> Entry1] /\ (b = a \/ b = Other(a))
        BY <1>2 DEF ApiInv, TypeOK
      <4> QED
        BY <4>1, <2>1, <1>6
    <3> QED
      BY <3>1, <1>8 DEF ApiInv, Coherence, L1Coherent
  <2>2. CASE i = Index1(v) /\ b = a
    BY <2>2, <1>1, <1>6 DEF ApiInv, TypeOK
  <2>3. CASE i = Index1(v) /\ b = Other(a)
    <3>1. l1'[b][i] = f
      BY <2>3, <1>1, <1>2, <1>6 DEF ApiInv, TypeOK
    <3>2. Translates1(old, i)
      BY <3>1, <2>3, <1>2, <1>4, <1>8 DEF ApiInv, Coherence, L1Coherent
    <3> QED
      BY <3>1, <3>2, <1>4 DEF Translates1
  <2> QED
    BY <2>1, <2>2, <2>3, <1>2
<1> QED
  BY <1>7, <1>8 DEF L1Coherent, Translates1

\* Each operation of the hierarchy, called in any order, preserves the invariant.
LEMMA ApiStep ==
  ASSUME ApiInv, [ApiNext]_vars
  PROVE  ApiInv'
<1> USE DEF ApiInv
<1>1. ASSUME NEW a \in Access, NEW from, NEW to \in Phases, FlushL1(a, from, to)
      PROVE  /\ TypeOK'
             /\ AnswerCorrect'
             /\ \A i \in 0..L1_LINES-1 : l1'[a][i].v = 0
             /\ \A b \in Access \ {a} : l1'[b] = l1[b]
             /\ UNCHANGED l2
  BY <1>1, EntryTypes DEF FlushL1, TypeOK, AnswerCorrect
<1>2. CASE FlushItlb
  BY <1>2, <1>1 DEF FlushItlb, FlushL1, Phases, Access, Booted, Coherence
<1>3. CASE FlushDtlb
  BY <1>3, <1>1 DEF FlushDtlb, FlushL1, Phases, Access, Booted, Coherence
<1>4. CASE FlushL2
  <2>1. TypeOK' /\ AnswerCorrect' /\ Booted'
    BY <1>4, EntryTypes DEF FlushL2, TypeOK, AnswerCorrect, Booted, Phases
  <2>2. Coherence'
    BY <1>4, EntryTypes DEF FlushL2, Booted, Coherence, L1Coherent, L2Coherent
  <2> QED
    BY <2>1, <2>2
<1>5. CASE Restart
  BY <1>5 DEF Restart, TypeOK, AnswerCorrect, Booted, Coherence, Phases
<1>6. ASSUME NEW a \in Access, NEW v \in VPNS, SearchL1Hit(a, v)
      PROVE  ApiInv'
  <2>1. l1[a][Index1(v)].phy_page_num = walk[v]
    BY <1>6, HitTranslates DEF SearchL1Hit
  <2>2. TypeOK' /\ AnswerCorrect' /\ Booted'
    BY <1>6, <2>1, EntryTypes DEF SearchL1Hit, Reply, TypeOK, AnswerCorrect, Booted
  <2>3. Coherence'
    BY <1>6 DEF SearchL1Hit, Coherence, L1Coherent, L2Coherent, Translates1, Translates2
  <2> QED
    BY <2>2, <2>3
<1>7. ASSUME NEW a \in Access, NEW v \in VPNS, SearchL2Hit(a, v)
      PROVE  ApiInv'
  <2>1. l2[Index2(v)].phy_page_num = walk[v]
    BY <1>7, HitTranslates DEF SearchL2Hit
  <2>2. /\ l1' \in [Access -> [0..L1_LINES-1 -> Entry1]]
        /\ \A b \in Access : L1Coherent(b)'
    BY <1>7, <2>1, InsertL1 DEF SearchL2Hit
  <2>3. TypeOK' /\ AnswerCorrect' /\ Booted'
    BY <1>7, <2>1, <2>2, EntryTypes DEF SearchL2Hit, Reply, TypeOK, AnswerCorrect, Booted
  <2>4. L2Coherent'
    BY <1>7 DEF SearchL2Hit, Coherence, L2Coherent, Translates2
  <2> QED
    BY <2>2, <2>3, <2>4 DEF Coherence
<1>8. ASSUME NEW a \in Access, NEW v \in VPNS, SearchMiss(a, v)
      PROVE  ApiInv'
  <2>1. l2' \in [0..L2_LINES-1 -> Entry2] /\ L2Coherent'
    BY <1>8, InsertL2 DEF SearchMiss
  <2>2. /\ l1' \in [Access -> [0..L1_LINES-1 -> Entry1]]
        /\ \A b \in Access : L1Coherent(b)'
    BY <1>8, MissL1 DEF SearchMiss
  <2>3. TypeOK' /\ AnswerCorrect' /\ Booted'
    BY <1>8, <2>1, <2>2, EntryTypes DEF SearchMiss, Reply, TypeOK, AnswerCorrect, Booted
  <2> QED
    BY <2>1, <2>2, <2>3 DEF Coherence
<1>9. ASSUME NEW a \in Access, ApiFlushL1(a)
      PROVE  ApiInv'
  <2>1. Coherence'
    BY <1>9, EntryTypes DEF ApiFlushL1, FlushL1, TypeOK, Coherence, L1Coherent, L2Coherent,
                            Translates1, Translates2
  <2> QED
    BY <1>9, <1>1, <2>1 DEF ApiFlushL1, FlushL1, Phases, Booted
<1>10. CASE ApiFlushL2
  <2>1. TypeOK' /\ AnswerCorrect' /\ Booted'
    BY <1>10, EntryTypes DEF ApiFlushL2, TypeOK, AnswerCorrect, Booted
  <2>2. Coherence'
    BY <1>10, EntryTypes DEF ApiFlushL2, Coherence, L1Coherent, L2Coherent, Translates1
  <2> QED
    BY <2>1, <2>2
<1>11. ASSUME NEW a \in Access, NEW v \in VPNS, ApiInsertL1(a, v)
       PROVE  ApiInv'
  <2>1. /\ l1' \in [Access -> [0..L1_LINES-1 -> Entry1]]
        /\ \A b \in Access : L1Coherent(b)'
    BY <1>11, InsertL1 DEF ApiInsertL1
  <2>2. TypeOK' /\ AnswerCorrect' /\ Booted' /\ L2Coherent'
    BY <1>11, <2>1 DEF ApiInsertL1, TypeOK, AnswerCorrect, Booted, Coherence, L2Coherent,
                       Translates2
  <2> QED
    BY <2>1, <2>2 DEF Coherence
<1>12. ASSUME NEW v \in VPNS, ApiInsertL2(v)
       PROVE  ApiInv'
  <2>1. l2' \in [0..L2_LINES-1 -> Entry2] /\ L2Coherent'
    BY <1>12, InsertL2 DEF ApiInsertL2
  <2>2. TypeOK' /\ AnswerCorrect' /\ Booted' /\ \A a \in Access : L1Coherent(a)'
    BY <1>12, <2>1 DEF ApiInsertL2, TypeOK, AnswerCorrect, Booted, Coherence, L1Coherent,
                       Translates1
  <2> QED
    BY <2>1, <2>2 DEF Coherence
<1>13. CASE UNCHANGED vars
  BY <1>13 DEF vars, TypeOK, AnswerCorrect, Booted, Coherence, L1Coherent, L2Coherent,
               Translates1, Translates2
<1> QED
  BY <1>2, <1>3, <1>4, <1>5, <1>6, <1>7, <1>8, <1>9, <1>10, <1>11, <1>12, <1>13
     DEF ApiNext, Next, Search

LEMMA ApiInvariant == ApiSpec => []ApiInv
<1>1. Init => ApiInv
  BY ApiInit
<1>2. ApiInv /\ [ApiNext]_vars => ApiInv'
  BY ApiStep
<1> QED
  BY <1>1, <1>2, PTL DEF ApiSpec

(***************************************************************************)
(* However its caller orders flushes, insertions and searches, the         *)
(* hierarchy answers every search with the translation of the page asked:  *)
(* tlb_search never returns another page's frame.                          *)
(***************************************************************************)
THEOREM ApiAnswers == ApiSpec => []AnswerCorrect
<1>1. ApiInv => AnswerCorrect
  BY DEF ApiInv
<1> QED
  BY <1>1, ApiInvariant, PTL

\* No valid line of a flushed level holds a translation under another page's tag.
THEOREM ApiCoherent == ApiSpec => []Coherence
<1>1. ApiInv => Coherence
  BY DEF ApiInv
<1> QED
  BY <1>1, ApiInvariant, PTL

-----------------------------------------------------------------------------
(* Inclusion, for the order of calls of the driver.                        *)

(***************************************************************************)
(* What a miss leaves in the first levels: a page that one of them hits    *)
(* afterwards is the page just filled, or it was hit before and its L2     *)
(* line is not the one that was replaced.                                  *)
(***************************************************************************)
LEMMA MissLeaves ==
  ASSUME TypeOK, NEW a \in Access, NEW v \in VPNS, SearchMiss(a, v),
         NEW b \in Access, NEW w \in VPNS, Hit1(l1'[b], w), w # v
  PROVE  Hit1(l1[b], w) /\ Index2(w) # Index2(v)
<1> DEFINE i == Index1(v)
           old == l1[Other(a)][i]
<1>1. Other(a) \in Access /\ Other(a) # a /\ Access = {a, Other(a)}
  BY DEF Other, Access
<1>2. i \in 0..L1_LINES-1 /\ Index1(w) \in 0..L1_LINES-1
  BY PageTypes
<1>3. /\ l1[a] \in [0..L1_LINES-1 -> Entry1]
      /\ l1[Other(a)] \in [0..L1_LINES-1 -> Entry1]
      /\ DOMAIN l1 = Access
  BY <1>1 DEF TypeOK
<1>4. /\ l1'[a] = [l1[a] EXCEPT ![i] = NewEntry(Tag1(v), walk[v])]
      /\ l1'[Other(a)] = [l1[Other(a)] EXCEPT ![i] = InvalidateEvicted(old, v)]
  BY <1>1, <1>3 DEF SearchMiss, FillL1
<1>5. CASE Index1(w) # i
  <2>1. l1'[b][Index1(w)] = l1[b][Index1(w)]
    BY <1>1, <1>2, <1>3, <1>4, <1>5
  <2> QED
    BY <2>1, <1>5, SharedL2Line DEF Hit1
<1>6. CASE Index1(w) = i /\ b = a
  <2>1. l1'[b][i].tag = Tag1(v)
    <3>1. l1'[b][i] = NewEntry(Tag1(v), walk[v])
      BY <1>2, <1>3, <1>4, <1>6
    <3> QED
      BY <3>1 DEF NewEntry
  <2> QED
    BY <2>1, <1>6, SamePage DEF Hit1
<1>7. CASE Index1(w) = i /\ b = Other(a)
  <2>1. l1'[b][i] = InvalidateEvicted(old, v) /\ l1'[b][i].v = 1 /\ old \in Entry1
    BY <1>2, <1>3, <1>4, <1>7 DEF Hit1
  <2>2. InvalidateEvicted(old, v) = old /\ old.tag % 4 # Index2(v) \div (L2_LINES \div 4)
    BY <2>1 DEF InvalidateEvicted, Entry1
  <2> QED
    BY <2>1, <2>2, <1>7, SharedL2Line DEF Hit1
<1> QED
  BY <1>1, <1>5, <1>6, <1>7

\* The invalidation does its work whatever was inserted or flushed before.
THEOREM ApiMissClears == ApiSpec => MissClearsAliases
<1>1. ApiInv /\ [ApiNext]_vars =>
        [\A a \in Access, v, w \in VPNS :
           (SearchMiss(a, v) /\ w # v /\ Index2(w) = Index2(v))
             => \A b \in Access : ~Hit1(l1'[b], w)]_vars
  BY MissLeaves DEF ApiInv
<1> QED
  BY <1>1, ApiInvariant, PTL DEF ApiSpec, MissClearsAliases

(***************************************************************************)
(* The inductive invariant of the driver's order of calls: Inclusion       *)
(* speaks of the running phase only, and Booted carries it through the     *)
(* flushes before that.                                                    *)
(***************************************************************************)
Inv == ApiInv /\ Inclusion

LEMMA InclusionStep ==
  ASSUME Inv, [Next]_vars, ApiInv'
  PROVE  Inclusion'
<1> USE DEF Inv
<1>2. CASE FlushItlb
  BY <1>2 DEF FlushItlb, FlushL1, Inclusion
<1>3. CASE FlushDtlb
  BY <1>3 DEF FlushDtlb, FlushL1, Inclusion
<1>4. CASE FlushL2
  BY <1>4, PageTypes DEF FlushL2, Inclusion, ApiInv, Booted, Hit1
<1>5. CASE Restart
  BY <1>5 DEF Restart, Inclusion
<1>6. ASSUME NEW a \in Access, NEW v \in VPNS, SearchL1Hit(a, v)
      PROVE  Inclusion'
  BY <1>6 DEF SearchL1Hit, Inclusion, Hit1, Hit2
<1>7. ASSUME NEW a \in Access, NEW v \in VPNS, SearchL2Hit(a, v)
      PROVE  Inclusion'
  <2>1. SUFFICES ASSUME NEW b \in Access, NEW w \in VPNS, Hit1(l1'[b], w)
                 PROVE  Hit2(l2, w)
    BY <1>7 DEF SearchL2Hit, Inclusion, Hit2
  <2>2. CASE w = v
    BY <2>2, <1>7 DEF SearchL2Hit
  <2>3. CASE w # v
    <3> DEFINE e == NewEntry(Tag1(v), l2[Index2(v)].phy_page_num)
    <3>1. Index1(v) \in 0..L1_LINES-1 /\ Index1(w) \in 0..L1_LINES-1 /\ e.tag = Tag1(v)
      BY PageTypes DEF NewEntry
    <3> HIDE DEF e
    <3>2. l1' = [l1 EXCEPT ![a][Index1(v)] = e]
      BY <1>7 DEF SearchL2Hit, e
    <3>3. l1[a] \in [0..L1_LINES-1 -> Entry1] /\ l1[b] \in [0..L1_LINES-1 -> Entry1]
          /\ DOMAIN l1 = Access
      BY DEF ApiInv, TypeOK
    <3>4. l1'[a][Index1(v)] = e
      BY <3>1, <3>2, <3>3
    <3>5. ~(b = a /\ Index1(w) = Index1(v))
      BY <2>1, <2>3, <3>1, <3>4, SamePage DEF Hit1
    <3>6. l1'[b][Index1(w)] = l1[b][Index1(w)]
      BY <3>1, <3>2, <3>3, <3>5
    <3> QED
      BY <2>1, <3>6, <1>7 DEF SearchL2Hit, Inclusion, Hit1
  <2> QED
    BY <2>2, <2>3
<1>8. ASSUME NEW a \in Access, NEW v \in VPNS, SearchMiss(a, v)
      PROVE  Inclusion'
  <2>1. SUFFICES ASSUME NEW b \in Access, NEW w \in VPNS, Hit1(l1'[b], w)
                 PROVE  Hit2(l2', w)
    BY DEF Inclusion, Hit2
  <2>2. l2' = [l2 EXCEPT ![Index2(v)] = NewEntry(Tag2(v), walk[v])]
        /\ l2 \in [0..L2_LINES-1 -> Entry2]
    BY <1>8 DEF SearchMiss, FillL2, ApiInv, TypeOK
  <2>3. CASE w = v
    BY <2>2, <2>3, PageTypes, EntryTypes DEF Hit2
  <2>4. CASE w # v
    <3>1. Hit1(l1[b], w) /\ Index2(w) # Index2(v)
      BY <2>1, <2>4, <1>8, MissLeaves DEF ApiInv
    <3>2. Hit2(l2, w)
      BY <3>1, <1>8 DEF SearchMiss, Inclusion
    <3> QED
      BY <3>1, <3>2, <2>2, PageTypes DEF Hit2
  <2> QED
    BY <2>3, <2>4
<1>9. CASE UNCHANGED vars
  BY <1>9 DEF vars, Inclusion, Hit1, Hit2
<1> QED
  BY <1>2, <1>3, <1>4, <1>5, <1>6, <1>7, <1>8, <1>9 DEF Next, Search

LEMMA Invariant == Spec => []Inv
<1>1. Init => Inv
  BY ApiInit DEF Init, Inv, Inclusion
<1>2. Inv /\ [Next]_vars => Inv'
  <2>1. [Next]_vars => [ApiNext]_vars
    BY DEF ApiNext
  <2> QED
    BY <2>1, ApiStep, InclusionStep DEF Inv
<1> QED
  BY <1>1, <1>2, PTL DEF Spec

\* The levels keep the types of their fields.
THEOREM TypeCorrect == Spec => []TypeOK
<1>1. Inv => TypeOK
  BY DEF Inv, ApiInv
<1> QED
  BY <1>1, Invariant, PTL

\* A page that a first level would hit is in the L2: no L1 line is left stale.
THEOREM Included == Spec => []Inclusion
<1>1. Inv => Inclusion
  BY DEF Inv
<1> QED
  BY <1>1, Invariant, PTL

-----------------------------------------------------------------------------
(* The hierarchy is one translation cache: TlbHrchy implements             *)
(* TranslationCache.                                                       *)

\* What the L2 holds after a miss.
LEMMA MissResident ==
  ASSUME Inv, NEW a \in Access, NEW v \in VPNS, SearchMiss(a, v)
  PROVE  /\ \A w \in VPNS : Hit2(l2', w) <=> w = v \/ (Hit2(l2, w) /\ Index2(w) # Index2(v))
         /\ ~Hit2(l2, v)
<1>1. l2' = [l2 EXCEPT ![Index2(v)] = NewEntry(Tag2(v), walk[v])]
      /\ l2 \in [0..L2_LINES-1 -> Entry2] /\ ~Hit2(l2, v)
  BY DEF SearchMiss, FillL2, Inv, ApiInv, TypeOK
<1>2. l2'[Index2(v)].v = 1 /\ l2'[Index2(v)].tag = Tag2(v)
  BY <1>1, PageTypes DEF NewEntry
<1>3. ASSUME NEW w \in VPNS
      PROVE  Hit2(l2', w) <=> w = v \/ (Hit2(l2, w) /\ Index2(w) # Index2(v))
  <2>1. CASE Index2(w) = Index2(v)
    BY <2>1, <1>2, SamePage DEF Hit2
  <2>2. CASE Index2(w) # Index2(v)
    BY <2>2, <1>1, PageTypes DEF Hit2
  <2> QED
    BY <2>1, <2>2
<1> QED
  BY <1>1, <1>3

\* An L2 line is full with one page at most: a miss forgets at most one.
LEMMA OneVictim ==
  ASSUME NEW v \in VPNS, NEW R, R \subseteq {w \in VPNS : Hit2(l2, w) /\ Index2(w) = Index2(v)}
  PROVE  \E victim \in VPNS : R \subseteq {victim}
<1>1. CASE R = {}
  BY <1>1
<1>2. CASE R # {}
  <2>1. PICK w \in R : TRUE
    BY <1>2
  <2>2. \A u \in R : u = w
    BY <2>1, SamePage DEF Hit2
  <2> QED
    BY <2>1, <2>2
<1> QED
  BY <1>1, <1>2

LEMMA FlatStep ==
  ASSUME Inv, Inv', [Next]_vars
  PROVE  [Flat!Next]_(Flat!vars)
<1> USE DEF Flat!vars
<1>1. CASE FlushItlb \/ FlushDtlb
  BY <1>1 DEF FlushItlb, FlushDtlb, FlushL1, Resident
<1>2. CASE FlushL2
  <2>1. \A w \in VPNS : ~Hit2(l2', w)
    BY <1>2, PageTypes, EntryTypes DEF FlushL2, Hit2
  <2> QED
    BY <1>2, <2>1 DEF FlushL2, Resident, Hit2
<1>3. CASE Restart
  BY <1>3 DEF Restart, Resident, Flat!Next, Flat!Flush
<1>4. ASSUME NEW a \in Access, NEW v \in VPNS, Search(a, v)
      PROVE  Flat!Search(v)
  <2>1. phase = "run" /\ phase' = "run" /\ vaddr' = v
    BY <1>4 DEF Search, SearchL1Hit, SearchL2Hit, SearchMiss, Reply
  <2>2. paddr' = walk[v]
    BY <2>1, WalkAssumption DEF Inv, ApiInv, AnswerCorrect
  <2>3. Resident = {w \in VPNS : Hit2(l2, w)} /\ Resident' = {w \in VPNS : Hit2(l2', w)}
    BY <2>1 DEF Resident, Hit2
  <2>4. CASE SearchL1Hit(a, v) \/ SearchL2Hit(a, v)
    <3>1. Hit2(l2, v) /\ l2' = l2 /\ hit_or_miss' = 1
      BY <2>4 DEF SearchL1Hit, SearchL2Hit, Reply, Inv, Inclusion
    <3> QED
      BY <2>1, <2>2, <2>3, <3>1 DEF Flat!Search
  <2>5. CASE SearchMiss(a, v)
    <3>1. hit_or_miss' = 0 /\ v \notin Resident /\ v \in Resident'
      BY <2>5, <2>3, MissResident DEF SearchMiss, Reply
    <3>2. Resident' \subseteq Resident \cup {v}
      BY <2>5, <2>3, MissResident
    <3>3. Resident \ Resident' \subseteq {w \in VPNS : Hit2(l2, w) /\ Index2(w) = Index2(v)}
      BY <2>5, <2>3, MissResident
    <3>4. \E victim \in VPNS : Resident \ Resident' \subseteq {victim}
      <4> DEFINE Gone == Resident \ Resident'
      <4>1. Gone \subseteq {w \in VPNS : Hit2(l2, w) /\ Index2(w) = Index2(v)}
        BY <3>3
      <4> HIDE DEF Gone
      <4>2. \E victim \in VPNS : Gone \subseteq {victim}
        BY <4>1, OneVictim
      <4> QED
        BY <4>2 DEF Gone
    <3> QED
      BY <2>1, <2>2, <3>1, <3>2, <3>4 DEF Flat!Search
  <2> QED
    BY <1>4, <2>4, <2>5 DEF Search
<1>5. CASE UNCHANGED vars
  BY <1>5 DEF vars, Resident, Hit2
<1> QED
  BY <1>1, <1>2, <1>3, <1>4, <1>5 DEF Next, Flat!Next

(***************************************************************************)
(* Driven as test-tlb_hrchy.c drives it, the hierarchy of three TLBs is    *)
(* one translation cache: it answers what the page walk would, and it      *)
(* reports a hit exactly for the pages its L2 holds.                       *)
(***************************************************************************)
THEOREM ImplementsTranslationCache == Spec => FlatSpec
<1>1. Init => Flat!Init
  BY DEF Init, Flat!Init, Resident
<1>2. Inv /\ Inv' /\ [Next]_vars => [Flat!Next]_(Flat!vars)
  BY FlatStep
<1> QED
  BY <1>1, <1>2, Invariant, PTL DEF Spec, FlatSpec, Flat!Spec
===========================================================================
