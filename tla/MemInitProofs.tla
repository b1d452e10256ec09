--------------------------- MODULE MemInitProofs ---------------------------
(***************************************************************************)
(* Memories that are made of files, for every size of pages, every         *)
(* description and every dump: proofs about MemInit.                       *)
(***************************************************************************)
EXTENDS MemInit, DataLemmas, SequenceTheorems

-----------------------------------------------------------------------------
(* Words and pages.                                                        *)

WordMemory(m) == DOMAIN m \subseteq Nat /\ \A w \in DOMAIN m : m[w] \in Nat

LEMMA WordsNat ==
  ASSUME NEW bytes \in Nat
  PROVE  Words(bytes) \subseteq Nat
BY DEF Words

LEMMA ZerosType ==
  ASSUME NEW bytes \in Nat
  PROVE  DOMAIN Zeros(bytes) = Words(bytes) /\ WordMemory(Zeros(bytes))
BY WordsNat DEF Zeros, WordMemory

\* Storing a page leaves a memory, of the same words, with the page in it.
LEMMA StoredPage ==
  ASSUME NEW m, NEW a \in Nat, NEW page \in Page
  PROVE  /\ DOMAIN Stored(m, a, page) = DOMAIN m
         /\ WordMemory(m) => WordMemory(Stored(m, a, page))
         /\ \A w \in DOMAIN m \ Target(a, page) : Stored(m, a, page)[w] = m[w]
         /\ Target(a, page) \subseteq DOMAIN m =>
              \A n \in DOMAIN page : /\ (a \div 4) + n - 1 \in Target(a, page)
                                     /\ Stored(m, a, page)[(a \div 4) + n - 1] = page[n]
<1> DEFINE first == a \div 4
<1>1. first \in Nat
  BY Cut
<1>2. Len(page) \in Nat /\ DOMAIN page = 1..Len(page) /\ \A n \in DOMAIN page : page[n] \in Nat
  BY DEF Page
<1> HIDE DEF first
<1>3. Target(a, page) = first..first+Len(page)-1
  BY DEF Target, first
<1>4. /\ DOMAIN Stored(m, a, page) = DOMAIN m
      /\ \A w \in DOMAIN m : Stored(m, a, page)[w] =
           IF w \in Target(a, page) THEN page[w - first + 1] ELSE m[w]
  BY DEF Stored, first
<1>5. \A w \in Target(a, page) : w - first + 1 \in DOMAIN page
  BY <1>1, <1>2, <1>3
<1>6. \A n \in DOMAIN page : first + n - 1 \in Target(a, page) /\ (first + n - 1) - first + 1 = n
  BY <1>1, <1>2, <1>3
<1>7. WordMemory(m) => WordMemory(Stored(m, a, page))
  BY <1>2, <1>4, <1>5 DEF WordMemory
<1>8. ASSUME Target(a, page) \subseteq DOMAIN m, NEW n \in DOMAIN page
      PROVE  /\ first + n - 1 \in Target(a, page)
             /\ Stored(m, a, page)[first + n - 1] = page[n]
  BY <1>4, <1>6, <1>8
<1> QED
  BY <1>4, <1>7, <1>8 DEF first

\* A walk ends at an address.
LEMMA TranslateNat ==
  ASSUME NEW m, WordMemory(m), NEW v \in VirtAddr, WalkInside(m, v)
  PROVE  /\ Translate(m, v) \in Nat
         /\ PageWalk(m, v).phy_page_num \in Nat
         /\ PageWalk(m, v).page_offset = v.page_offset
<1> DEFINE entry == m[PteWord(m, v)]
           page == entry \div PAGE_SIZE
           masked == page % (2 * PHY_PAGES)
<1>1. PAGE_SIZE \in Nat \ {0} /\ PHY_PAGES \in Nat \ {0} /\ v.page_offset \in Nat
  BY PageAssumption DEF VirtAddr, PageOffset
<1>2. entry \in Nat
  BY DEF WordMemory, WalkInside
<1>3. page \in Nat
  <2> HIDE DEF entry
  <2> QED
    BY <1>1, <1>2, Cut
<1>4. masked \in Nat
  <2> HIDE DEF page
  <2>1. 2 * PHY_PAGES \in Nat \ {0}
    BY <1>1
  <2> QED
    BY <1>3, <2>1, Cut
<1>5. masked % PHY_PAGES \in Nat
  <2> HIDE DEF masked
  <2> QED
    BY <1>1, <1>4, Cut
<1>6. PageWalk(m, v) = [phy_page_num |-> masked % PHY_PAGES, page_offset |-> v.page_offset]
  BY DEF PageWalk, InitPhyAddr
<1> HIDE DEF masked, page, entry
<1>7. \A p, n \in Nat : p * n \in Nat
  OBVIOUS
<1> QED
  BY <1>1, <1>5, <1>6, <1>7 DEF Translate, Physical

\* The parts of a description.
LEMMA DescriptionParts ==
  ASSUME NEW d \in DESCRIPTIONS
  PROVE  /\ d.size \in Nat /\ d.pgd \in Page
         /\ Len(d.tables) \in Nat /\ Len(d.data) \in Nat
         /\ \A k \in 1..Len(d.tables) : d.tables[k].addr \in Nat /\ d.tables[k].page \in Page
         /\ DOMAIN d.tables = 1..Len(d.tables) /\ DOMAIN d.data = 1..Len(d.data)
         /\ \A k \in DOMAIN d.data : d.data[k].vaddr \in VirtAddr /\ d.data[k].page \in Page
<1> DEFINE Table == [addr : Nat, page : Page]
           Data == [vaddr : VirtAddr, page : Page]
<1>1. d.size \in Nat /\ d.pgd \in Page /\ d.tables \in Seq(Table) /\ d.data \in Seq(Data)
  BY MemAssumption DEF Description
<1>2. \A e \in Table : e.addr \in Nat /\ e.page \in Page
  OBVIOUS
<1>3. \A e \in Data : e.vaddr \in VirtAddr /\ e.page \in Page
  OBVIOUS
<1> HIDE DEF Table, Data
<1>4. /\ Len(d.tables) \in Nat /\ DOMAIN d.tables = 1..Len(d.tables)
      /\ \A k \in 1..Len(d.tables) : d.tables[k] \in Table
  BY <1>1
<1>5. /\ Len(d.data) \in Nat /\ DOMAIN d.data = 1..Len(d.data)
      /\ \A k \in 1..Len(d.data) : d.data[k] \in Data
  BY <1>1
<1> QED
  BY <1>1, <1>2, <1>3, <1>4, <1>5

-----------------------------------------------------------------------------
(* What is live and open at each part of the description.                  *)

Reading == line \in {"pgd", "count", "tables", "data"}

(***************************************************************************)
(* The memory has the words the description asks for; while a description  *)
(* is read the stream is the only thing open but the memory and the name.  *)
(***************************************************************************)
Open ==
  /\ i \in Nat \ {0}
  /\ line = "none" =>
       /\ desc = None /\ memory = "NULL" /\ entree = "closed" /\ filename = "none"
       /\ code = "ERR_NONE"
  /\ line = "size" =>
       /\ desc \in DESCRIPTIONS /\ memory = "NULL" /\ filename = "none" /\ code = "ERR_NONE"
  /\ Reading =>
       /\ desc \in DESCRIPTIONS /\ memory \in {"NULL", "live"}
       /\ filename = "NULL" => line = "pgd"
       /\ code \in {"ERR_NONE", "crash", "overflow", "wild"}
       /\ memory = "live" => DOMAIN mem = Words(desc.size)
       /\ line # "pgd" /\ desc.pgd # <<>> => memory = "live"

ReleaseInv == TypeOK /\ Open /\ Released

LEMMA ReleaseInit == Init => ReleaseInv
<1> SUFFICES ASSUME Init PROVE ReleaseInv
  OBVIOUS
<1>1. WordMemory(Zeros(0))
  BY ZerosType
<1> QED
  BY <1>1 DEF Init, ReleaseInv, TypeOK, Open, Released, Reading, WordMemory

\* What the error paths and the undefined steps leave.
LEMMA FailKeeps ==
  ASSUME ReleaseInv, Reading, NEW error, Fail(error), error \in {"ERR_IO", "ERR_MEM", "ERR_BAD_PARAMETER"}
  PROVE  ReleaseInv'
BY MemAssumption DEF Fail, ReleaseInv, TypeOK, Open, Released, Reading, Running

LEMMA UndefinedKeeps ==
  ASSUME ReleaseInv, NEW what \in {"crash", "overflow", "wild"}, Undefined(what), Reading
  PROVE  ReleaseInv'
BY DEF Undefined, ReleaseInv, TypeOK, Open, Released, Reading, Running

LEMMA NotFilledKeeps ==
  ASSUME ReleaseInv, Reading, NEW a, NEW page, NotFilled(a, page)
  PROVE  ReleaseInv'
BY FailKeeps, UndefinedKeeps DEF NotFilled

LEMMA NoMemoryKeeps ==
  ASSUME ReleaseInv, Reading, NEW page, NoMemory(page)
  PROVE  ReleaseInv'
BY UndefinedKeeps DEF NoMemory

\* Storing a page keeps the types, the words and what is open.
LEMMA FilledKeeps ==
  ASSUME ReleaseInv, Reading, NEW a \in Nat, NEW page \in Page, Filled(a, page),
         UNCHANGED loaded, i' \in Nat \ {0}, line' \in {"count", "tables", "data"},
         line = "pgd" => filename = "live" /\ page = desc.pgd,
         Running
  PROVE  ReleaseInv'
<1>1. mem' = Stored(mem, a, page)
  BY DEF Filled
<1>2. WordMemory(mem) /\ WordMemory(loaded)
  BY DEF ReleaseInv, TypeOK, WordMemory
<1>3. DOMAIN mem' = DOMAIN mem /\ WordMemory(mem')
  BY <1>1, <1>2, StoredPage
<1>4. TypeOK'
  BY <1>2, <1>3 DEF ReleaseInv, TypeOK, Filled, WordMemory
<1>5. Open'
  BY <1>3 DEF ReleaseInv, Open, Reading, Filled
<1>6. Released'
  BY DEF Released
<1> QED
  BY <1>4, <1>5, <1>6 DEF ReleaseInv

LEMMA ReleaseStep ==
  ASSUME ReleaseInv, [Next]_vars
  PROVE  ReleaseInv'
<1>1. /\ WordMemory(mem) /\ WordMemory(loaded)
      /\ i \in Nat \ {0}
  BY DEF ReleaseInv, TypeOK, Open, WordMemory
<1>2. CASE OpenDescription
  BY <1>2 DEF OpenDescription, At, ReleaseInv, TypeOK, Open, Released, Reading, Running
<1>3. CASE ReadSize
  <2>1. desc \in DESCRIPTIONS /\ desc.size \in Nat
    BY <1>3, DescriptionParts DEF ReadSize, At, ReleaseInv, Open
  <2>2. DOMAIN Zeros(desc.size) = Words(desc.size) /\ WordMemory(Zeros(desc.size))
    BY <2>1, ZerosType
  <2>3. mem' \in {mem, Zeros(desc.size)} /\ WordMemory(mem') /\ UNCHANGED <<desc, i, loaded, out>>
    BY <1>1, <1>3, <2>2 DEF ReadSize
  <2>4. CASE line' = "returned"
    BY <1>3, <2>3, <2>4 DEF ReadSize, At, ReleaseInv, TypeOK, Open, Released, Reading, Running, WordMemory
  <2>5. CASE line' = "pgd"
    <3>1. TypeOK'
      BY <1>3, <2>3, <2>5 DEF ReadSize, At, ReleaseInv, TypeOK, WordMemory
    <3>2. Open'
      BY <1>3, <2>1, <2>2, <2>3, <2>5 DEF ReadSize, At, ReleaseInv, Open, Reading
    <3> QED
      BY <2>5, <3>1, <3>2 DEF ReleaseInv, Released
  <2> QED
    BY <1>3, <2>4, <2>5 DEF ReadSize
<1>4. CASE FillPgd
  <2>1. Reading /\ desc \in DESCRIPTIONS /\ Running /\ line = "pgd"
    BY <1>4 DEF FillPgd, At, ReleaseInv, Open, Reading
  <2>2. desc.pgd \in Page
    BY <2>1, DescriptionParts
  <2>3. CASE filename = "live" /\ Filled(0, desc.pgd) /\ line' = "count" /\ UNCHANGED <<i, loaded>>
    BY <1>1, <2>1, <2>2, <2>3, FilledKeeps
  <2>4. CASE NoFilename
    BY <2>1, <2>4, UndefinedKeeps DEF NoFilename
  <2>5. CASE Fail("ERR_IO") \/ NotFilled(0, desc.pgd) \/ NoMemory(desc.pgd)
    BY <2>1, <2>5, FailKeeps, NotFilledKeeps, NoMemoryKeeps
  <2> QED
    BY <1>4, <2>3, <2>4, <2>5 DEF FillPgd
<1>5. CASE ReadCount
  <2>1. Reading
    BY <1>5 DEF ReadCount, At, Reading
  <2>2. CASE Fail("ERR_IO")
    BY <2>1, <2>2, FailKeeps
  <2>3. CASE ~Fail("ERR_IO")
    BY <1>5, <2>3 DEF ReadCount, At, ReleaseInv, TypeOK, Open, Released, Reading, Running
  <2> QED
    BY <2>2, <2>3
<1>6. CASE FillTable
  <2> DEFINE entry == desc.tables[i]
  <2>1. Reading /\ desc \in DESCRIPTIONS /\ Running /\ line = "tables"
    BY <1>6 DEF FillTable, At, ReleaseInv, Open, Reading
  <2>2. entry.addr \in Nat /\ entry.page \in Page
    BY <1>1, <1>6, <2>1, DescriptionParts DEF FillTable
  <2>3. CASE Filled(entry.addr, entry.page) /\ i' = i + 1 /\ UNCHANGED <<line, loaded>>
    <3> HIDE DEF entry
    <3> QED
      BY <1>1, <2>1, <2>2, <2>3, FilledKeeps
  <2>4. CASE Fail("ERR_IO") \/ NotFilled(entry.addr, entry.page) \/ NoMemory(entry.page)
    BY <2>1, <2>4, FailKeeps, NotFilledKeeps, NoMemoryKeeps
  <2> QED
    BY <1>6, <2>3, <2>4 DEF FillTable
<1>7. CASE TablesDone
  BY <1>1, <1>7 DEF TablesDone, At, ReleaseInv, TypeOK, Open, Released, Reading, Running, WordMemory
<1>8. CASE FillData
  <2> DEFINE entry == desc.data[i]
             a == Translate(mem, entry.vaddr)
  <2>1. Reading /\ desc \in DESCRIPTIONS /\ Running /\ line = "data"
    BY <1>8 DEF FillData, At, ReleaseInv, Open, Reading
  <2>2. entry.vaddr \in VirtAddr /\ entry.page \in Page
    BY <1>1, <1>8, <2>1, DescriptionParts DEF FillData
  <2>3. CASE /\ WalkInside(mem, entry.vaddr)
             /\ Filled(a, entry.page) /\ i' = i + 1 /\ UNCHANGED <<line, loaded>>
    <3>1. a \in Nat
      BY <1>1, <2>2, <2>3, TranslateNat
    <3> HIDE DEF entry, a
    <3> QED
      BY <1>1, <2>1, <2>2, <2>3, <3>1, FilledKeeps
  <2>4. CASE Fail("ERR_IO") \/ Fail("ERR_BAD_PARAMETER") \/ Undefined("wild") \/ NotFilled(a, entry.page)
    BY <2>1, <2>4, FailKeeps, UndefinedKeeps, NotFilledKeeps
  <2> QED
    BY <1>8, <2>3, <2>4 DEF FillData
<1>9. CASE Finish
  BY <1>9, MemAssumption DEF Finish, At, ReleaseInv, TypeOK, Open, Released, Reading, Running
<1>10. ASSUME NEW dump \in DUMPS, InitFromDumpfile(dump)
       PROVE  ReleaseInv'
  <2>1. dump \in Page /\ Len(dump) \in Nat
    BY MemAssumption DEF Page
  <2>2. WordMemory(Zeros(4 * Len(dump)))
    BY <2>1, ZerosType
  <2>3. WordMemory(Stored(Zeros(4 * Len(dump)), 0, dump))
    BY <2>1, <2>2, StoredPage
  <2>4. WordMemory(mem')
    BY <1>1, <1>10, <2>2, <2>3 DEF InitFromDumpfile
  <2> QED
    BY <1>10, <2>4 DEF InitFromDumpfile, At, ReleaseInv, TypeOK, Open, Released, Reading, Running, WordMemory
<1>11. ASSUME NEW vaddr \in VADDRS, DumpPage(vaddr)
       PROVE  ReleaseInv'
  BY <1>11 DEF DumpPage, Succeeded, At, ReleaseInv, TypeOK, Open, Released, Reading, Running
<1>12. CASE Free
  BY <1>12 DEF Free, Succeeded, At, ReleaseInv, TypeOK, Open, Released, Reading, Running
<1>13. CASE UNCHANGED vars
  BY <1>13 DEF vars, ReleaseInv, TypeOK, Open, Released, Reading, Running
<1> QED
  BY <1>2, <1>3, <1>4, <1>5, <1>6, <1>7, <1>8, <1>9, <1>10, <1>11, <1>12, <1>13 DEF Next

\* For every description and dump the state keeps its types.
THEOREM TypeCorrect == Spec => []TypeOK
BY ReleaseInit, ReleaseStep, PTL DEF Spec, ReleaseInv

(***************************************************************************)
(* However the reading of a description ends, what was opened and          *)
(* allocated is released but for the memory that is returned with          *)
(* ERR_NONE; a dump leaves its stream when calloc fails, and its memory    *)
(* with an error when it ends early.                                       *)
(***************************************************************************)
THEOREM MemoryReleased == Spec => []Released
BY ReleaseInit, ReleaseStep, PTL DEF Spec, ReleaseInv

-----------------------------------------------------------------------------
(* Data pages are where the tables, as they were before the first of them, *)
(* say: storing one moves the walk of none.                                *)

(***************************************************************************)
(* In memory m the data pages before the n-th are stored where memory l    *)
(* says, and nothing else is changed.                                      *)
(***************************************************************************)
Placed(m, l, d, n) ==
  /\ \A w \in DOMAIN m :
       (\A k \in DOMAIN d.data : k < n => w \notin DataTarget(l, d.data[k])) => m[w] = l[w]
  /\ \A k \in DOMAIN d.data : k < n =>
       \A x \in DOMAIN d.data[k].page :
         m[(Translate(l, d.data[k].vaddr) \div 4) + x - 1] = d.data[k].page[x]

\* A walk depends on the words it reads only.
LEMMA SameWordsSameWalk ==
  ASSUME NEW u, NEW w, NEW v, DOMAIN w = DOMAIN u, WalkInside(u, v),
         \A n \in WalkWords(u, v) : w[n] = u[n]
  PROVE  /\ WalkInside(w, v)
         /\ WalkWords(w, v) = WalkWords(u, v)
         /\ PageWalk(w, v) = PageWalk(u, v)
<1>1. w[PgdWord(v)] = u[PgdWord(v)]
  BY DEF WalkWords
<1>2. PudWord(w, v) = PudWord(u, v)
  BY <1>1 DEF PudWord
<1>3. PmdWord(w, v) = PmdWord(u, v)
  BY <1>2 DEF PmdWord, WalkWords
<1>4. PteWord(w, v) = PteWord(u, v)
  BY <1>3 DEF PteWord, WalkWords
<1>5. w[PteWord(u, v)] = u[PteWord(u, v)]
  BY DEF WalkWords
<1> QED
  BY <1>2, <1>3, <1>4, <1>5 DEF WalkInside, WalkWords, PageWalk

\* The walks of the data pages are still those of l.
LEMMA SameWalk ==
  ASSUME NEW m, NEW l, NEW d \in DESCRIPTIONS, NEW n, Placed(m, l, d, n), Apart(l, d),
         DOMAIN m = DOMAIN l, NEW k \in DOMAIN d.data
  PROVE  /\ WalkInside(m, d.data[k].vaddr)
         /\ Translate(m, d.data[k].vaddr) = Translate(l, d.data[k].vaddr)
<1> DEFINE v == d.data[k].vaddr
<1>1. WalkInside(l, v) /\ \A j \in DOMAIN d.data : DataTarget(l, d.data[j]) \cap WalkWords(l, v) = {}
  BY DEF Apart
<1>2. WalkWords(l, v) \subseteq DOMAIN l
  BY <1>1 DEF WalkInside, WalkWords
<1>3. \A w \in WalkWords(l, v) : m[w] = l[w]
  BY <1>1, <1>2 DEF Placed
<1>4. WalkInside(m, v) /\ PageWalk(m, v) = PageWalk(l, v)
  BY <1>1, <1>3, SameWordsSameWalk
<1> QED
  BY <1>4 DEF Translate

\* One more page.
LEMMA PlaceOne ==
  ASSUME NEW m, NEW l, WordMemory(l), NEW d \in DESCRIPTIONS, NEW n \in Nat, n \in DOMAIN d.data,
         Placed(m, l, d, n), Apart(l, d), DOMAIN m = Words(d.size)
  PROVE  Placed(Stored(m, Translate(l, d.data[n].vaddr), d.data[n].page), l, d, n + 1)
<1> DEFINE e == d.data[n]
           a == Translate(l, e.vaddr)
           new == Stored(m, a, e.page)
<1>1. /\ e.vaddr \in VirtAddr /\ e.page \in Page
      /\ DOMAIN d.data \subseteq Nat
  BY DescriptionParts
<1>2. WalkInside(l, e.vaddr) /\ DataTarget(l, e) \subseteq DOMAIN m
  BY DEF Apart
<1>3. a \in Nat
  BY <1>1, <1>2, TranslateNat
<1>4. DataTarget(l, e) = Target(a, e.page)
  BY DEF DataTarget
<1>5. \A k \in DOMAIN d.data : k < n + 1 <=> k < n \/ k = n
  BY <1>1
<1> HIDE DEF a, new
<1>6. /\ DOMAIN new = DOMAIN m
      /\ \A w \in DOMAIN m \ Target(a, e.page) : new[w] = m[w]
      /\ \A x \in DOMAIN e.page : new[(a \div 4) + x - 1] = e.page[x]
  <2>1. Target(a, e.page) \subseteq DOMAIN m
    BY <1>2, <1>4
  <2>2. e.page \in Page
    BY <1>1
  <2> DEFINE page == e.page
  <2> HIDE DEF e, page
  <2>3. page \in Page /\ Target(a, page) \subseteq DOMAIN m
    BY <2>1, <2>2 DEF page
  <2>4. new = Stored(m, a, page)
    BY DEF new, page
  <2>5. DOMAIN new = DOMAIN m
    BY ONLY <1>3, <2>3, <2>4, StoredPage
  <2>6. \A w \in DOMAIN m \ Target(a, page) : new[w] = m[w]
    BY ONLY <1>3, <2>3, <2>4, StoredPage
  <2>7. \A x \in DOMAIN page : new[(a \div 4) + x - 1] = page[x]
    BY ONLY <1>3, <2>3, <2>4, StoredPage, ZenonT(30)
  <2> QED
    BY <2>5, <2>6, <2>7 DEF page
<1>7. ASSUME NEW w \in DOMAIN new,
             \A k \in DOMAIN d.data : k < n + 1 => w \notin DataTarget(l, d.data[k])
      PROVE  new[w] = l[w]
  <2>1. w \notin Target(a, e.page) /\ \A k \in DOMAIN d.data : k < n => w \notin DataTarget(l, d.data[k])
    BY <1>4, <1>5, <1>7
  <2> QED
    BY <1>6, <2>1 DEF Placed
<1>8. ASSUME NEW k \in DOMAIN d.data, k < n + 1, NEW x \in DOMAIN d.data[k].page
      PROVE  new[(Translate(l, d.data[k].vaddr) \div 4) + x - 1] = d.data[k].page[x]
  <2>1. CASE k = n
    BY <1>6, <2>1 DEF a
  <2>2. CASE k < n
    <3> DEFINE w == (Translate(l, d.data[k].vaddr) \div 4) + x - 1
    <3>1. m[w] = d.data[k].page[x]
      BY <2>2 DEF Placed
    <3>2. d.data[k].vaddr \in VirtAddr /\ d.data[k].page \in Page
      BY DescriptionParts
    <3>3. WalkInside(l, d.data[k].vaddr)
      BY DEF Apart
    <3>4. Translate(l, d.data[k].vaddr) \in Nat
      BY <3>2, <3>3, TranslateNat
    <3>5. w \in DataTarget(l, d.data[k])
      <4>1. DataTarget(l, d.data[k]) \subseteq DOMAIN m
        BY DEF Apart
      <4> QED
        BY <3>2, <3>4, <4>1, StoredPage DEF DataTarget
    <3>6. k # n
      BY <1>1, <2>2
    <3>7. w \in DOMAIN m /\ w \notin DataTarget(l, e)
      BY <3>5, <3>6 DEF Apart
    <3> QED
      BY <1>4, <1>6, <3>1, <3>7
  <2> QED
    BY <1>5, <1>8, <2>1, <2>2
<1>9. Placed(new, l, d, n + 1)
  BY <1>7, <1>8 DEF Placed
<1> QED
  BY <1>9 DEF new, a

\* A memory of the description's size, whose first data pages are placed.
Laid(n) ==
  /\ DOMAIN mem = Words(desc.size) /\ DOMAIN loaded = Words(desc.size)
  /\ Apart(loaded, desc) => Placed(mem, loaded, desc, n)

PlacedInv ==
  /\ ReleaseInv
  /\ ReadInside
  /\ line = "data" /\ memory = "live" => Laid(i)
  /\ line = "returned" /\ code = "ERR_NONE" /\ desc # None /\ memory = "live" =>
       desc \in DESCRIPTIONS /\ Laid(Len(desc.data) + 1)

\* Before the data pages.
LEMMA BeforeStep ==
  ASSUME PlacedInv, ReleaseInv', line \in {"none", "size", "pgd", "count", "tables"}, Next
  PROVE  PlacedInv'
<1> USE DEF At, Running
<1>0. i \in Nat \ {0}
  BY DEF PlacedInv, ReleaseInv, Open
<1>1. CASE OpenDescription
  BY <1>1 DEF OpenDescription, PlacedInv, ReadInside
<1>2. CASE ReadSize
  BY <1>2 DEF ReadSize, PlacedInv, ReadInside
<1>3. CASE FillPgd
  <2>1. desc \in DESCRIPTIONS /\ line = "pgd" /\ Running
        /\ (memory = "live" => DOMAIN mem = Words(desc.size))
    BY <1>3 DEF FillPgd, PlacedInv, ReleaseInv, Open, Reading
  <2>2. CASE NoFilename
    BY <2>1, <2>2 DEF NoFilename, Undefined, PlacedInv, ReadInside
  <2>3. CASE NoMemory(desc.pgd)
    BY <2>1, <2>3 DEF NoMemory, Undefined, PlacedInv, ReadInside
  <2>4. CASE Fail("ERR_IO") \/ Fail("ERR_MEM")
    BY <2>1, <2>4 DEF Fail, PlacedInv, ReadInside
  <2>5. CASE /\ memory = "live" /\ ~(Target(0, desc.pgd) \subseteq DOMAIN mem)
             /\ Undefined("overflow")
    <3>1. ~TablesFit(desc)
      BY <2>1, <2>5 DEF TablesFit
    <3> QED
      BY <2>1, <2>5, <3>1 DEF Undefined, PlacedInv, ReadInside
  <2>6. CASE Filled(0, desc.pgd) /\ line' = "count"
    BY <2>1, <2>6 DEF Filled, PlacedInv, ReadInside
  <2> QED
    BY <1>3, <2>2, <2>3, <2>4, <2>5, <2>6 DEF FillPgd, NotFilled
<1>4. CASE ReadCount
  BY <1>4 DEF ReadCount, Fail, PlacedInv, ReadInside
<1>5. CASE FillTable
  <2> DEFINE entry == desc.tables[i]
  <2>1. desc \in DESCRIPTIONS /\ line = "tables" /\ Running
        /\ (memory = "live" => DOMAIN mem = Words(desc.size))
    BY <1>5 DEF FillTable, PlacedInv, ReleaseInv, Open, Reading
  <2>2. i \in DOMAIN desc.tables
    BY <1>0, <1>5, <2>1, DescriptionParts DEF FillTable
  <2>3. CASE NoMemory(entry.page)
    BY <2>1, <2>3 DEF NoMemory, Undefined, PlacedInv, ReadInside
  <2>4. CASE Fail("ERR_IO") \/ Fail("ERR_MEM")
    BY <2>1, <2>4 DEF Fail, PlacedInv, ReadInside
  <2>5. CASE /\ memory = "live" /\ ~(Target(entry.addr, entry.page) \subseteq DOMAIN mem)
             /\ Undefined("overflow")
    <3>1. ~TablesFit(desc)
      BY <2>1, <2>2, <2>5 DEF TablesFit
    <3> QED
      BY <2>1, <2>5, <3>1 DEF Undefined, PlacedInv, ReadInside
  <2>6. CASE Filled(entry.addr, entry.page) /\ UNCHANGED line
    BY <2>1, <2>6 DEF Filled, PlacedInv, ReadInside
  <2> QED
    BY <1>5, <2>3, <2>4, <2>5, <2>6 DEF FillTable, NotFilled
<1>6. CASE TablesDone
  <2>1. /\ desc \in DESCRIPTIONS /\ UNCHANGED <<desc, memory, mem, code, filename>>
        /\ loaded' = mem /\ line' = "data" /\ i' = 1 /\ Running
        /\ (memory = "live" => DOMAIN mem = Words(desc.size))
    BY <1>6 DEF TablesDone, PlacedInv, ReleaseInv, Open, Reading
  <2>2. \A k \in DOMAIN desc.data : ~(k < 1)
    BY <2>1, DescriptionParts
  <2>3. Placed(mem, mem, desc, 1)
    BY <2>2 DEF Placed
  <2>4. memory = "live" => Laid(i)'
    BY <2>1, <2>3 DEF Laid
  <2> QED
    BY <2>1, <2>4 DEF PlacedInv, ReadInside
<1>7. ASSUME NEW dump \in DUMPS, InitFromDumpfile(dump)
      PROVE  PlacedInv'
  <2>1. desc = None /\ desc' = None
    BY <1>7 DEF InitFromDumpfile, PlacedInv, ReleaseInv, Open
  <2> QED
    BY <1>7, <2>1 DEF InitFromDumpfile, PlacedInv, ReadInside
<1> QED
  BY <1>1, <1>2, <1>3, <1>4, <1>5, <1>6, <1>7
     DEF Next, FillData, Finish, DumpPage, Free, Succeeded

LEMMA DataStep ==
  ASSUME PlacedInv, ReleaseInv', FillData
  PROVE  PlacedInv'
<1> DEFINE entry == desc.data[i]
           a == Translate(mem, entry.vaddr)
<1>1. /\ desc \in DESCRIPTIONS /\ line = "data" /\ Running /\ i \in Nat /\ WordMemory(loaded)
      /\ (memory = "live" => Laid(i))
  BY DEF FillData, At, PlacedInv, ReleaseInv, TypeOK, Open, Reading, WordMemory
<1>2. i \in DOMAIN desc.data
  BY <1>1, DescriptionParts DEF FillData, PlacedInv, ReleaseInv, Open
<1>3. ASSUME memory = "live", Apart(loaded, desc)
      PROVE  WalkInside(mem, entry.vaddr) /\ a = Translate(loaded, entry.vaddr)
  <2>1. Placed(mem, loaded, desc, i) /\ DOMAIN mem = DOMAIN loaded
    BY <1>1, <1>3 DEF Laid
  <2> QED
    BY <1>1, <1>2, <1>3, <2>1, SameWalk
<1>4. CASE Fail("ERR_IO") \/ Fail("ERR_MEM") \/ Fail("ERR_BAD_PARAMETER")
  BY <1>1, <1>4 DEF Fail, PlacedInv, ReadInside, Running
<1>5. CASE memory = "live" /\ ~WalkInside(mem, entry.vaddr) /\ Undefined("wild")
  <2>1. ~Apart(loaded, desc)
    BY <1>3, <1>5
  <2> QED
    BY <1>1, <1>5, <2>1 DEF Undefined, PlacedInv, ReadInside, Running, Laid
<1>6. CASE /\ memory = "live" /\ ~(Target(a, entry.page) \subseteq DOMAIN mem)
           /\ Undefined("overflow")
  <2>1. ASSUME Apart(loaded, desc)
        PROVE  FALSE
    <3>1. Target(a, entry.page) \subseteq Words(desc.size)
      BY <1>2, <1>3, <1>6, <2>1 DEF Apart, DataTarget
    <3> QED
      BY <1>1, <1>6, <3>1 DEF Laid
  <2> QED
    BY <1>1, <1>6, <2>1 DEF Undefined, PlacedInv, ReadInside, Running, Laid
<1>7. CASE /\ memory = "live" /\ WalkInside(mem, entry.vaddr)
           /\ Filled(a, entry.page) /\ i' = i + 1 /\ UNCHANGED <<line, loaded>>
  <2>1. /\ UNCHANGED <<desc, memory, line, loaded, code, filename>>
        /\ mem' = Stored(mem, a, entry.page) /\ i' = i + 1
    BY <1>7 DEF Filled
  <2>2. DOMAIN mem' = Words(desc.size) /\ DOMAIN loaded = Words(desc.size)
    BY <1>1, <1>7, <2>1 DEF Laid, Stored
  <2>3. ASSUME Apart(loaded, desc)
        PROVE  Placed(mem', loaded, desc, i + 1)
    <3>1. mem' = Stored(mem, Translate(loaded, entry.vaddr), entry.page)
      BY <1>3, <1>7, <2>1, <2>3
    <3>2. Placed(mem, loaded, desc, i) /\ DOMAIN mem = Words(desc.size)
      BY <1>1, <1>7, <2>3 DEF Laid
    <3> QED
      BY <1>1, <1>2, <2>3, <3>1, <3>2, PlaceOne
  <2> HIDE DEF entry, a
  <2>4. Laid(i)'
    BY <2>1, <2>2, <2>3 DEF Laid
  <2> QED
    BY <1>1, <2>1, <2>4 DEF PlacedInv, ReadInside, Running
<1> QED
  BY <1>4, <1>5, <1>6, <1>7 DEF FillData, NotFilled

LEMMA PlacedStep ==
  ASSUME PlacedInv, [Next]_vars
  PROVE  PlacedInv'
<1> USE DEF At, Running
<1>1. ReleaseInv'
  BY ReleaseStep DEF PlacedInv
<1>2. CASE FillData
  BY <1>1, <1>2, DataStep
<1>3. CASE Finish
  <2>1. /\ desc \in DESCRIPTIONS /\ line = "data" /\ i \in Nat /\ i > Len(desc.data)
        /\ UNCHANGED <<desc, memory, mem, loaded, code>> /\ line' = "returned"
        /\ (memory = "live" => Laid(i))
        /\ Running
    BY <1>3 DEF Finish, PlacedInv, ReleaseInv, Open, Reading
  <2>2. \A k \in DOMAIN desc.data : k < Len(desc.data) + 1 => k < i
    BY <2>1, DescriptionParts
  <2>3. \A k \in DOMAIN desc.data : k < i => k < Len(desc.data) + 1
    BY <2>1, DescriptionParts
  <2>4. Placed(mem, loaded, desc, i) => Placed(mem, loaded, desc, Len(desc.data) + 1)
    BY <2>2, <2>3 DEF Placed
  <2>5. memory = "live" => Laid(Len(desc.data) + 1)'
    BY <2>1, <2>4 DEF Laid
  <2> QED
    BY <1>1, <2>1, <2>5 DEF PlacedInv, ReadInside
<1>4. ASSUME NEW vaddr \in VADDRS, DumpPage(vaddr)
      PROVE  PlacedInv'
  <2>1. /\ UNCHANGED <<desc, line, memory, mem, loaded>> /\ line = "returned"
        /\ code' \in {code, "wild"} /\ Running
    BY <1>4 DEF DumpPage, Succeeded
  <2> QED
    BY <1>1, <2>1 DEF PlacedInv, ReadInside, Laid
<1>5. CASE Free
  BY <1>1, <1>5 DEF Free, Succeeded, PlacedInv, ReadInside
<1>6. CASE UNCHANGED vars
  BY <1>1, <1>6 DEF vars, PlacedInv, ReadInside, Laid
<1>7. CASE line \in {"none", "size", "pgd", "count", "tables"} /\ Next
  BY <1>1, <1>7, BeforeStep
<1>8. CASE Next /\ ~(line \in {"none", "size", "pgd", "count", "tables"})
  BY <1>2, <1>3, <1>4, <1>5, <1>8
     DEF Next, OpenDescription, ReadSize, FillPgd, ReadCount, FillTable, TablesDone, InitFromDumpfile
<1> QED
  BY <1>6, <1>7, <1>8

\* The invariant says of a description that was read what DataPlaced says.
LEMMA LaidPlaced == PlacedInv => DataPlaced
<1> SUFFICES ASSUME PlacedInv, line = "returned", code = "ERR_NONE", desc # None, memory = "live",
                    Apart(loaded, desc), NEW k \in DOMAIN desc.data
             PROVE  LET entry == desc.data[k]
                        a == Physical(PageWalk(mem, entry.vaddr))
                    IN /\ WalkInside(mem, entry.vaddr)
                       /\ \A n \in DOMAIN entry.page : mem[(a \div 4) + n - 1] = entry.page[n]
  BY DEF DataPlaced
<1>1. /\ desc \in DESCRIPTIONS /\ Placed(mem, loaded, desc, Len(desc.data) + 1)
      /\ DOMAIN mem = DOMAIN loaded
  BY DEF PlacedInv, Laid
<1>2. k < Len(desc.data) + 1
  BY <1>1, DescriptionParts
<1>3. WalkInside(mem, desc.data[k].vaddr)
      /\ Translate(mem, desc.data[k].vaddr) = Translate(loaded, desc.data[k].vaddr)
  BY <1>1, SameWalk
<1>4. \A n \in DOMAIN desc.data[k].page :
        mem[(Translate(mem, desc.data[k].vaddr) \div 4) + n - 1] = desc.data[k].page[n]
  BY <1>1, <1>2, <1>3 DEF Placed
<1> QED
  BY <1>3, <1>4 DEF Translate

LEMMA PlacedInit == Init => PlacedInv
BY ReleaseInit DEF Init, PlacedInv, ReadInside

(***************************************************************************)
(* A description whose tables keep the data apart is loaded such that each *)
(* data page is found by the walk of its address, although every page that *)
(* was stored changed the memory that the later walks went through.        *)
(***************************************************************************)
THEOREM DataIsPlaced == Spec => []DataPlaced
BY PlacedInit, PlacedStep, LaidPlaced, PTL DEF Spec

(***************************************************************************)
(* Reading such a description, nothing outside of the memory is read or    *)
(* written, and NULL is followed only where an allocation has failed.      *)
(***************************************************************************)
THEOREM StaysInside == Spec => []ReadInside
<1>1. PlacedInv => ReadInside
  BY DEF PlacedInv
<1> QED
  BY <1>1, PlacedInit, PlacedStep, PTL DEF Spec

-----------------------------------------------------------------------------
(* The three parts of a dump.                                              *)

LEMMA BytesElements ==
  ASSUME NEW from \in Nat, NEW to \in Nat, from <= to
  PROVE  /\ Bytes(from, to) \in Seq(Nat)
         /\ Len(Bytes(from, to)) = to - from
         /\ \A k \in 1..to-from : Bytes(from, to)[k] = from + k - 1
<1>1. CASE from = to
  BY <1>1 DEF Bytes
<1>2. CASE from < to
  <2> DEFINE n == to - from
             f == [k \in 1..n |-> from + k - 1]
  <2>1. n \in Nat /\ Bytes(from, to) = f /\ \A k \in 1..n : from + k - 1 \in Nat
    BY <1>2 DEF Bytes
  <2>2. f \in [1..n -> Nat]
    BY <2>1
  <2> HIDE DEF f
  <2>3. f \in Seq(Nat) /\ Len(f) = n
    BY <2>1, <2>2
  <2> QED
    BY <2>1, <2>3 DEF f
<1> QED
  BY <1>1, <1>2

LEMMA BytesJoin ==
  ASSUME NEW from \in Nat, NEW mid \in Nat, NEW to \in Nat, from <= mid, mid <= to
  PROVE  Bytes(from, mid) \o Bytes(mid, to) = Bytes(from, to)
<1> DEFINE s == Bytes(from, mid)
           t == Bytes(mid, to)
           u == Bytes(from, to)
<1>1. /\ s \in Seq(Nat) /\ Len(s) = mid - from
      /\ \A k \in 1..mid-from : s[k] = from + k - 1
  BY BytesElements
<1>2. /\ t \in Seq(Nat) /\ Len(t) = to - mid
      /\ \A k \in 1..to-mid : t[k] = mid + k - 1
  BY BytesElements
<1>3. /\ u \in Seq(Nat) /\ Len(u) = to - from
      /\ \A k \in 1..to-from : u[k] = from + k - 1
  BY BytesElements
<1> HIDE DEF s, t, u
<1>4. /\ s \o t \in Seq(Nat) /\ Len(s \o t) = Len(s) + Len(t)
      /\ \A k \in 1..Len(s)+Len(t) : (s \o t)[k] = IF k <= Len(s) THEN s[k] ELSE t[k - Len(s)]
  BY <1>1, <1>2, ConcatProperties
<1>5. Len(s \o t) = Len(u)
  BY <1>1, <1>2, <1>3, <1>4
<1>6. ASSUME NEW k \in 1..Len(u)
      PROVE  (s \o t)[k] = u[k]
  <2>1. k \in 1..Len(s)+Len(t) /\ u[k] = from + k - 1
    BY <1>3, <1>4, <1>5, <1>6
  <2>2. CASE k <= Len(s)
    BY <1>1, <1>4, <2>1, <2>2
  <2>3. CASE k > Len(s)
    <3>1. k - Len(s) \in 1..to-mid
      BY <1>1, <1>2, <2>1, <2>3
    <3>2. (s \o t)[k] = t[k - Len(s)]
      BY <1>1, <1>4, <2>1, <2>3
    <3> QED
      BY <1>1, <1>2, <2>1, <3>1, <3>2
  <2> QED
    BY <1>1, <2>1, <2>2, <2>3
<1>7. s \o t = u
  BY <1>3, <1>4, <1>5, <1>6, SeqEqual
<1> QED
  BY <1>7 DEF s, t, u

\* The line of an offset ends inside its page.
LEMMA EndInPage ==
  ASSUME NEW L \in Nat \ {0}, NEW P \in Nat \ {0}, P % L = 0, NEW r \in 0..P-1
  PROVE  r + (L - (r % L)) \in r..P
<1> DEFINE q == r \div L
           s == r % L
           p == P \div L
<1>1. Splits(r, L, q, s) /\ Splits(P, L, p, 0)
  <2>1. r \in Nat /\ P \in Nat
    OBVIOUS
  <2>2. Splits(r, L, q, s)
    BY <2>1, DivMod
  <2>3. Splits(P, L, p, P % L)
    BY <2>1, DivMod
  <2> QED
    BY <2>2, <2>3
<1> HIDE DEF q, s, p
<1>2. q \in Nat /\ p \in Nat /\ s \in 0..L-1 /\ r = L * q + s /\ P = L * p
  BY <1>1 DEF Splits
<1>3. q < p
  BY <1>1, <1>2, SplitBound
<1>4. L * (p - q - 1) >= 0 /\ L * q \in Int /\ L * p \in Int
  BY <1>2, <1>3
<1>5. L * (p - q - 1) = L * p - L * q - L
  BY <1>2
<1>6. r + (L - s) \in r..P
  BY <1>2, <1>4, <1>5
<1> QED
  BY <1>6 DEF s

\* The three parts make the page.
LEMMA DumpParts ==
  ASSUME NEW paddr, paddr.phy_page_num \in Nat, paddr.page_offset \in PageOffset
  PROVE  LET first == PAGE_SIZE * paddr.phy_page_num
         IN PageDump(paddr) = Bytes(first, first + PAGE_SIZE)
<1> DEFINE first == PAGE_SIZE * paddr.phy_page_num
           start == first + paddr.page_offset
           end == start + (LINE_SIZE - (paddr.page_offset % LINE_SIZE))
           last == first + PAGE_SIZE
<1>1. /\ LINE_SIZE \in Nat \ {0} /\ PAGE_SIZE \in Nat \ {0} /\ PAGE_SIZE % LINE_SIZE = 0
      /\ paddr.page_offset \in 0..PAGE_SIZE-1
  BY MemAssumption, PageAssumption DEF PageOffset
<1>2. \A m, n \in Nat : m * n \in Nat
  OBVIOUS
<1>3. first \in Nat
  BY <1>1, <1>2
<1>4. paddr.page_offset + (LINE_SIZE - (paddr.page_offset % LINE_SIZE)) \in paddr.page_offset..PAGE_SIZE
  BY <1>1, EndInPage
<1>5. paddr.page_offset % LINE_SIZE \in Nat
  BY <1>1, Cut
<1>6. PageDump(paddr) = Bytes(first, start) \o Bytes(start, end) \o Bytes(end, last)
  BY DEF PageDump, EndLine
<1>7. /\ start \in Nat /\ end \in Nat /\ last \in Nat
      /\ first <= start /\ start <= end /\ end <= last /\ first <= end
  <2> HIDE DEF first
  <2> QED
    BY <1>1, <1>3, <1>4, <1>5
<1> HIDE DEF first, start, end, last
<1>8. Bytes(first, start) \o Bytes(start, end) = Bytes(first, end)
  BY <1>3, <1>7, BytesJoin
<1>9. Bytes(first, end) \o Bytes(end, last) = Bytes(first, last)
  BY <1>3, <1>7, BytesJoin
<1> QED
  BY <1>6, <1>8, <1>9 DEF first, last

\* What was printed was printed of a memory that has not changed since.
DumpInv ==
  /\ ReleaseInv
  /\ out # None => line \in {"returned", "freed"}
  /\ DumpWhole

LEMMA DumpStep ==
  ASSUME DumpInv, [Next]_vars
  PROVE  DumpInv'
<1>1. ReleaseInv'
  BY ReleaseStep DEF DumpInv
<1>2. ASSUME NEW vaddr \in VADDRS, DumpPage(vaddr)
      PROVE  DumpInv'
  <2>1. UNCHANGED <<line, mem>> /\ line = "returned" /\ WordMemory(mem) /\ vaddr \in VirtAddr
    BY <1>2, MemAssumption DEF DumpPage, Succeeded, At, DumpInv, ReleaseInv, TypeOK, WordMemory
  <2>2. CASE UNCHANGED out
    BY <1>1, <2>1, <2>2 DEF DumpInv, DumpWhole
  <2>3. CASE /\ WalkInside(mem, vaddr)
             /\ out' = [vaddr |-> vaddr, bytes |-> PageDump(PageWalk(mem, vaddr))]
    <3>1. PageWalk(mem, vaddr).phy_page_num \in Nat
          /\ PageWalk(mem, vaddr).page_offset \in PageOffset
      BY <2>1, <2>3, TranslateNat DEF VirtAddr
    <3>2. out'.vaddr = vaddr /\ out'.bytes = PageDump(PageWalk(mem, vaddr))
      BY <2>3
    <3>3. DumpWhole'
      BY <2>1, <3>1, <3>2, DumpParts DEF DumpWhole
    <3> QED
      BY <1>1, <2>1, <3>3 DEF DumpInv
  <2> QED
    BY <1>2, <2>2, <2>3 DEF DumpPage
<1>3. CASE Free
  BY <1>1, <1>3 DEF Free, Succeeded, At, DumpInv, DumpWhole
<1>4. CASE UNCHANGED vars
  BY <1>1, <1>4 DEF vars, DumpInv, DumpWhole
<1>5. CASE Next /\ line \notin {"returned", "freed"}
  <2>1. out = None
    BY <1>5 DEF DumpInv
  <2>2. UNCHANGED out \/ \E vaddr \in VADDRS : DumpPage(vaddr)
    BY <1>5 DEF Next, OpenDescription, ReadSize, FillPgd, ReadCount, FillTable, TablesDone, FillData,
                Finish, InitFromDumpfile, Free, Fail, NotFilled, NoMemory, NoFilename, Undefined, Filled
  <2>3. UNCHANGED out
    BY <1>5, <2>2 DEF DumpPage, Succeeded, At
  <2> QED
    BY <1>1, <2>1, <2>3 DEF DumpInv, DumpWhole
<1>6. CASE Next /\ line \in {"returned", "freed"}
  BY <1>2, <1>3, <1>6
     DEF Next, OpenDescription, ReadSize, FillPgd, ReadCount, FillTable, TablesDone, FillData,
         Finish, InitFromDumpfile, At
<1> QED
  BY <1>4, <1>5, <1>6

(***************************************************************************)
(* Wherever an address lies in its page, the three parts that are printed  *)
(* meet: each byte of the page once, in order.                             *)
(***************************************************************************)
THEOREM PagesDumpedWhole == Spec => []DumpWhole
<1>1. Init => DumpInv
  BY ReleaseInit DEF Init, DumpInv, DumpWhole
<1>2. DumpInv => DumpWhole
  BY DEF DumpInv
<1> QED
  BY <1>1, <1>2, DumpStep, PTL DEF Spec
=============================================================================
