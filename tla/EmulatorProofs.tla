--------------------------- MODULE EmulatorProofs ---------------------------
(***************************************************************************)
(* Addresses, and translation and writes together, for every size of the   *)
(* pages, tables, caches and memory and every set of commands: proofs      *)
(* about PageWalk and Emulator.  Emulator extends Cache, so the facts of   *)
(* CacheProofs are about it too.                                           *)
(***************************************************************************)
EXTENDS Emulator, CacheProofs

-----------------------------------------------------------------------------
(* The conversions of addr_mng.c, and page_walk.                           *)

(***************************************************************************)
(* init_virt_addr64 makes a valid address of every number, which is why    *)
(* its caller never sees the error of control_virt_addr_param.             *)
(***************************************************************************)
THEOREM FieldsInRange ==
  ASSUME NEW n \in Nat
  PROVE  InitVirtAddr64(n) \in VirtAddr
BY PageAssumption, CutFive DEF InitVirtAddr64, InitVirtAddr, VirtAddr, TableIndex, PageOffset

(***************************************************************************)
(* What test-addr.c samples, of every address: its 64-bit number is        *)
(* converted back to the same five fields, so that no two addresses share  *)
(* a number (or, without the offset, a virtual page number).               *)
(***************************************************************************)
THEOREM AddressKept ==
  ASSUME NEW v \in VirtAddr
  PROVE  InitVirtAddr64(VirtAddrToUint64(v)) = v
<1> DEFINE n == VirtAddrToUint64(v)
<1>1. /\ PD_ENTRIES \in Nat \ {0} /\ PAGE_SIZE \in Nat \ {0}
      /\ v.pgd_entry \in 0..PD_ENTRIES-1 /\ v.pud_entry \in 0..PD_ENTRIES-1
      /\ v.pmd_entry \in 0..PD_ENTRIES-1 /\ v.pte_entry \in 0..PD_ENTRIES-1
      /\ v.page_offset \in 0..PAGE_SIZE-1
  BY PageAssumption DEF VirtAddr, TableIndex, PageOffset
<1>2. n = PAGE_SIZE * (PD_ENTRIES * (PD_ENTRIES * (PD_ENTRIES * v.pgd_entry + v.pud_entry)
                                     + v.pmd_entry) + v.pte_entry) + v.page_offset
  BY DEF VirtAddrToUint64, VirtualPageNumber
<1> HIDE DEF n
<1>3. InitVirtAddr64(n) =
        InitVirtAddr(v.pgd_entry, v.pud_entry, v.pmd_entry, v.pte_entry, v.page_offset)
  <2>1. HasFive(n, PD_ENTRIES, PAGE_SIZE, v.pgd_entry, v.pud_entry, v.pmd_entry,
                v.pte_entry, v.page_offset)
    BY ONLY <1>1, <1>2, JoinFive
  <2> QED
    BY <2>1 DEF HasFive, InitVirtAddr64
<1>4. InitVirtAddr(v.pgd_entry, v.pud_entry, v.pmd_entry, v.pte_entry, v.page_offset) = v
  BY DEF InitVirtAddr, VirtAddr
<1> QED
  BY <1>3, <1>4 DEF n

(***************************************************************************)
(* The mask of init_phy_addr, one bit too wide, loses nothing: of a word   *)
(* that is a physical address the page number is kept, and the address of  *)
(* its page and an offset is that page's beginning plus the offset.        *)
(***************************************************************************)
THEOREM PageNumberKept ==
  ASSUME NEW n \in 0..PAGE_SIZE*PHY_PAGES-1, NEW offset \in PageOffset
  PROVE  /\ InitPhyAddr(n, offset) \in PhyAddr
         /\ InitPhyAddr(n, offset).phy_page_num = n \div PAGE_SIZE
         /\ Physical(InitPhyAddr(n, offset)) = n - (n % PAGE_SIZE) + offset
<1> DEFINE page == n \div PAGE_SIZE
<1>1. /\ PAGE_SIZE \in Nat \ {0} /\ PHY_PAGES \in Nat \ {0}
      /\ n \in Nat /\ n < PAGE_SIZE * PHY_PAGES
  <2>1. PAGE_SIZE \in Nat \ {0} /\ PHY_PAGES \in Nat \ {0}
    BY PageAssumption
  <2>2. PAGE_SIZE * PHY_PAGES \in Int
    BY <2>1
  <2> QED
    BY <2>1, <2>2
<1>2. page \in 0..PHY_PAGES-1
  BY <1>1, PageOfNumber
<1>3. PAGE_SIZE * page + (n % PAGE_SIZE) = n /\ n % PAGE_SIZE \in Nat
  BY <1>1, Cut
<1>4. (page % (2 * PHY_PAGES)) % PHY_PAGES = page
  <2> HIDE DEF page
  <2> QED
    BY <1>1, <1>2
<1>5. InitPhyAddr(n, offset) = [phy_page_num |-> page, page_offset |-> offset]
  BY <1>4 DEF InitPhyAddr
<1>6. Physical(InitPhyAddr(n, offset)) = PAGE_SIZE * page + offset
  BY <1>5 DEF Physical
<1>7. PAGE_SIZE * page \in Int /\ offset \in Int
  BY <1>1, <1>2 DEF PageOffset
<1> HIDE DEF page
<1>8. PAGE_SIZE * page = n - (n % PAGE_SIZE)
  BY <1>1, <1>3, <1>7
<1> QED
  BY <1>2, <1>5, <1>6, <1>8 DEF PhyAddr, page

(***************************************************************************)
(* A walk depends on the words it reads: in a memory that agrees on them   *)
(* it reads the same words and ends at the same page.                      *)
(***************************************************************************)
THEOREM WalkDepends ==
  ASSUME NEW u, NEW w, NEW v, DOMAIN w = DOMAIN u, WalkInside(u, v),
         \A i \in WalkWords(u, v) : w[i] = u[i]
  PROVE  /\ WalkInside(w, v)
         /\ WalkWords(w, v) = WalkWords(u, v)
         /\ PageWalk(w, v) = PageWalk(u, v)
<1>1. w[PgdWord(v)] = u[PgdWord(v)]
  BY DEF WalkWords
<1>2. PudWord(w, v) = PudWord(u, v)
  BY <1>1 DEF PudWord
<1>3. PmdWord(w, v) = PmdWord(u, v)
  BY <1>2 DEF PmdWord, WalkWords
<1>4. PteWord(w, v) = PteWord(u, v)
  BY <1>3 DEF PteWord, WalkWords
<1>5. w[PteWord(u, v)] = u[PteWord(u, v)]
  BY DEF WalkWords
<1> QED
  BY <1>2, <1>3, <1>4, <1>5 DEF WalkInside, WalkWords, PageWalk

-----------------------------------------------------------------------------
(* Memory.                                                                 *)

Memory == [Block -> Line]
WordNumber == 0..WORDS_PER_LINE*BLOCKS-1

-----------------------------------------------------------------------------
(* Words and addresses.                                                    *)

LEMMA ValueNat ==
  ASSUME NEW word \in Word
  PROVE  Value(word) \in Nat
<1>1. word[0] \in Nat /\ word[1] \in Nat /\ word[2] \in Nat /\ word[3] \in Nat
  BY DEF Word, Byte
<1> QED
  BY <1>1 DEF Value

\* The block of a word is a block of memory.
LEMMA WordBlock ==
  ASSUME NEW i \in WordNumber
  PROVE  i \div WORDS_PER_LINE \in Block /\ i % WORDS_PER_LINE \in 0..WORDS_PER_LINE-1
<1>1. /\ WORDS_PER_LINE \in Nat \ {0} /\ BLOCKS \in Nat \ {0} /\ i \in Nat
      /\ WORDS_PER_LINE * BLOCKS \in Nat
  <2>1. \A m, n \in Nat : m * n \in Nat
    OBVIOUS
  <2> QED
    BY <2>1, CacheAssumption DEF WordNumber
<1>2. i < WORDS_PER_LINE * BLOCKS
  BY <1>1 DEF WordNumber
<1>3. Splits(i, WORDS_PER_LINE, i \div WORDS_PER_LINE, i % WORDS_PER_LINE)
  BY <1>1, DivMod
<1>4. i \div WORDS_PER_LINE < BLOCKS
  BY <1>1, <1>2, <1>3, SplitBound
<1> QED
  BY <1>1, <1>3, <1>4 DEF Splits, Block

LEMMA WordsType ==
  ASSUME NEW m \in Memory
  PROVE  /\ DOMAIN Words(m) = WordNumber
         /\ \A i \in WordNumber :
              /\ Words(m)[i] = Value(m[i \div WORDS_PER_LINE][i % WORDS_PER_LINE])
              /\ Words(m)[i] \in Nat
<1>1. DOMAIN Words(m) = WordNumber
      /\ \A i \in WordNumber :
           Words(m)[i] = Value(m[i \div WORDS_PER_LINE][i % WORDS_PER_LINE])
  BY DEF Words, WordNumber
<1>2. ASSUME NEW i \in WordNumber
      PROVE  Words(m)[i] \in Nat
  <2>1. m[i \div WORDS_PER_LINE][i % WORDS_PER_LINE] \in Word
    BY WordBlock DEF Memory, Line
  <2> QED
    BY <1>1, <2>1, ValueNat
<1> QED
  BY <1>1, <1>2

\* A page number and an offset make a physical address.
LEMMA PhysicalBound ==
  ASSUME NEW P \in Nat \ {0}, NEW N \in Nat \ {0}, NEW n \in 0..N-1, NEW r \in 0..P-1
  PROVE  P * n + r \in 0..P*N-1
<1>1. P * (N - 1 - n) >= 0 /\ P * n >= 0
  OBVIOUS
<1>2. P * (N - 1 - n) = P * N - P - P * n
  OBVIOUS
<1>3. P * n \in Int /\ P * N \in Int
  OBVIOUS
<1> QED
  BY <1>1, <1>2, <1>3

LEMMA TranslateAddress ==
  ASSUME NEW m \in Memory, NEW command \in COMMANDS, Inside(m, command)
  PROVE  Translate(m, command) \in ADDRS /\ Translate(m, command) \in Address
<1> DEFINE entry == Words(m)[PteWord(Words(m), command.vaddr)]
           n == ((entry \div PAGE_SIZE) % (2 * PHY_PAGES)) % PHY_PAGES
           r == command.vaddr.page_offset
<1>1. entry \in Nat
  BY WordsType DEF Inside, WalkInside
<1>2. PAGE_SIZE \in Nat \ {0} /\ PHY_PAGES \in Nat \ {0} /\ r \in 0..PAGE_SIZE-1
  BY PageAssumption, EmulatorAssumption DEF Command, VirtAddr, PageOffset
<1>3. n \in 0..PHY_PAGES-1
  <2> HIDE DEF entry
  <2>1. Splits(entry, PAGE_SIZE, entry \div PAGE_SIZE, entry % PAGE_SIZE)
    BY <1>1, <1>2, DivMod
  <2>2. entry \div PAGE_SIZE \in Nat /\ 2 * PHY_PAGES \in Nat \ {0}
    BY <2>1, <1>2 DEF Splits
  <2>3. (entry \div PAGE_SIZE) % (2 * PHY_PAGES) \in Nat
    BY <2>2, DivMod DEF Splits
  <2> QED
    BY <2>3, <1>2, DivMod DEF Splits
<1>4. Translate(m, command) = PAGE_SIZE * n + r
  BY DEF Translate, Physical, PageWalk, InitPhyAddr
<1> HIDE DEF n, r
<1>5. PAGE_SIZE * n + r \in 0..PAGE_SIZE*PHY_PAGES-1
  BY <1>2, <1>3, PhysicalBound DEF r
<1> QED
  BY <1>4, <1>5, EmulatorAssumption, AddressTypes

\* All of a group of G bytes is in one page of P bytes.
LEMMA GroupInPage ==
  ASSUME NEW G \in Nat \ {0}, NEW P \in Nat \ {0}, P % G = 0,
         NEW x \in Nat, x % G = 0, NEW a \in Nat, a - x \in 0..G-1
  PROVE  x \div P = a \div P
<1> DEFINE k == P \div G
           y == x \div G
           q == y \div k
           r == y % k
           d == a - x
<1>1. Splits(P, G, k, 0) /\ Splits(x, G, y, 0)
  BY DivMod
<1>2. k \in Nat /\ P = G * k /\ y \in Nat /\ x = G * y
  BY <1>1 DEF Splits
<1>3. k \in Nat \ {0}
  <2> HIDE DEF k
  <2> QED
    BY <1>2
<1>4. Splits(y, k, q, r)
  BY <1>2, <1>3, DivMod
<1>5. Splits(a, G, y, d)
  <2> HIDE DEF y
  <2>1. a = G * y + (a - x)
    BY <1>2
  <2> QED
    BY <1>2, <2>1 DEF Splits
<1> HIDE DEF k, y, q, r, d
<1>6. Splits(x, P, q, G * r + 0) /\ Splits(a, P, q, G * r + d)
  BY <1>1, <1>2, <1>3, <1>4, <1>5, SplitMultiple
<1>7. Splits(x, P, x \div P, x % P) /\ Splits(a, P, a \div P, a % P)
  BY DivMod
<1> QED
  BY <1>6, <1>7, SplitUnique

-----------------------------------------------------------------------------
(* A walk depends on the blocks it reads.                                  *)

LEMMA WalkAgrees ==
  ASSUME NEW m \in Memory, NEW n \in Memory, NEW command, Inside(m, command),
         \A b \in WalkBlocks(m, command) : n[b] = m[b]
  PROVE  /\ Inside(n, command)
         /\ WalkBlocks(n, command) = WalkBlocks(m, command)
         /\ Translate(n, command) = Translate(m, command)
<1> DEFINE u == Words(m)
           w == Words(n)
           v == command.vaddr
<1>1. DOMAIN u = WordNumber /\ DOMAIN w = WordNumber
  BY WordsType
<1>2. ASSUME NEW i \in WordNumber, i \in WalkWords(u, v)
      PROVE  w[i] = u[i]
  <2>1. i \div WORDS_PER_LINE \in WalkBlocks(m, command)
    BY <1>2 DEF WalkBlocks
  <2>2. n[i \div WORDS_PER_LINE] = m[i \div WORDS_PER_LINE]
    BY <2>1
  <2> QED
    BY <2>2, WordsType
<1>3. WalkInside(u, v)
  BY DEF Inside
<1> HIDE DEF u, w, v
<1>4. WalkWords(u, v) \subseteq WordNumber
  BY <1>1, <1>3 DEF WalkInside, WalkWords
<1>5. WalkInside(w, v) /\ WalkWords(w, v) = WalkWords(u, v) /\ PageWalk(w, v) = PageWalk(u, v)
  BY <1>1, <1>2, <1>3, <1>4, WalkDepends
<1> QED
  BY <1>5 DEF Inside, WalkBlocks, Translate, u, w, v

LEMMA WalkInMemory ==
  ASSUME NEW m \in Memory, NEW command, Inside(m, command)
  PROVE  WalkBlocks(m, command) \subseteq Block
<1>1. WalkWords(Words(m), command.vaddr) \subseteq WordNumber
  BY WordsType DEF Inside, WalkInside, WalkWords
<1> QED
  BY <1>1, WordBlock DEF WalkBlocks

-----------------------------------------------------------------------------
(* A command is a call of Cache, at its translated address.                *)

LEMMA DispatchCall ==
  ASSUME NEW command \in COMMANDS, NEW a \in ADDRS, Dispatch(command, a)
  PROVE  /\ Next
         /\ call'.addr = a
         /\ call'.op \in {"write", "write_byte"} => command.order = "WRITE"
<1> USE DEF Called
<1>1. command.type \in ACCESSES
  BY EmulatorAssumption DEF Command
<1>2. CASE command.order = "READ" /\ CacheRead(command.type, a)
  BY <1>1, <1>2 DEF Next, CacheRead
<1>3. CASE command.order = "READ" /\ CacheReadByte(command.type, a)
  BY <1>1, <1>3 DEF Next, CacheReadByte
<1>4. CASE command.order = "WRITE" /\ CacheWrite(a, command.write_data)
  <2>1. command.write_data \in WORDS
    BY <1>4, EmulatorAssumption
  <2> QED
    BY <1>1, <1>4, <2>1 DEF Next, CacheWrite
<1>5. CASE command.order = "WRITE" /\ CacheWriteByte(a, command.write_data[0])
  <2>1. command.write_data[0] \in BYTES
    BY <1>5, EmulatorAssumption
  <2> QED
    BY <1>1, <1>5, <2>1 DEF Next, CacheWriteByte
<1> QED
  BY <1>2, <1>3, <1>4, <1>5 DEF Dispatch

\* A step that changes memory is a command's, with the call that it made.
LEMMA EmuStep ==
  ASSUME TypeOK, [EmuNext]_emuVars
  PROVE  /\ [Next]_vars
         /\ start' = start
         /\ \/ UNCHANGED mem
            \/ \E command \in COMMANDS :
                 /\ Inside(mem, command)
                 /\ call'.addr = Translate(mem, command) /\ call'.addr \in Address
                 /\ call'.op \in {"write", "write_byte"} => command.order = "WRITE"
<1>1. CASE SetErrno /\ UNCHANGED <<start, wild>>
  BY <1>1 DEF SetErrno, Next
<1>2. ASSUME NEW command \in COMMANDS, Execute(command)
      PROVE  /\ [Next]_vars /\ start' = start /\ Inside(mem, command)
             /\ call'.addr = Translate(mem, command) /\ call'.addr \in Address
             /\ call'.op \in {"write", "write_byte"} => command.order = "WRITE"
  <2>1. Translate(mem, command) \in ADDRS /\ Translate(mem, command) \in Address
    BY <1>2, TranslateAddress DEF Execute, TypeOK, Memory
  <2> QED
    BY <1>2, <2>1, DispatchCall DEF Execute
<1>3. ASSUME NEW command \in COMMANDS, WildWalk(command)
      PROVE  UNCHANGED vars /\ start' = start
  BY <1>3 DEF WildWalk, vars
<1>4. CASE UNCHANGED emuVars
  BY <1>4 DEF emuVars, vars
<1> QED
  BY <1>1, <1>2, <1>3, <1>4 DEF EmuNext, vars

LEMMA EmuTypeStep ==
  ASSUME TypeOK, [EmuNext]_emuVars
  PROVE  TypeOK'
<1>1. [ApiNext]_vars
  BY EmuStep DEF ApiNext
<1> QED
  BY <1>1, TypeStep

(***************************************************************************)
(* Whatever the page tables hold, and whatever earlier writes have made of *)
(* them, a command whose walk stays in the memory is one of the calls that *)
(* Cache makes, at an address of the physical space; the image need not    *)
(* fill that space, and a call may lie outside of it.  What CacheProofs    *)
(* shows of every order of calls, no crash among it, holds of programs.    *)
(***************************************************************************)
THEOREM ProgramsUseCache == EmuSpec => Spec
<1>1. EmuInit => Init /\ TypeOK
  BY TypeInit DEF EmuInit
<1>2. TypeOK /\ [EmuNext]_emuVars => TypeOK' /\ [Next]_vars
  BY EmuStep, EmuTypeStep
<1> QED
  BY <1>1, <1>2, PTL DEF EmuSpec, Spec

\* No program makes cache_mng.c follow a NULL pointer.
THEOREM ProgramsNeverCrash == EmuSpec => []NeverCrashes
BY ProgramsUseCache, CommandsNeverCrash

-----------------------------------------------------------------------------
(* What moves a translation.                                               *)

\* A block that changes is in the page of the address that is written.
LEMMA ChangedPage ==
  ASSUME TypeOK, [EmuNext]_emuVars, NEW b \in Block, mem'[b] # mem[b]
  PROVE  \E command \in COMMANDS :
           /\ Inside(mem, command) /\ command.order = "WRITE"
           /\ call'.op \in {"write", "write_byte"} /\ errno = 0
           /\ call'.addr = Translate(mem, command)
           /\ PageOfBlock(b) = PageOf(call'.addr)
<1>1. [ApiNext]_vars
  BY EmuStep DEF ApiNext
<1>2. Confined
  BY <1>1, ConfinedStep
<1>3. /\ call'.op \in {"write", "write_byte"} /\ errno = 0
      /\ (b * LineBytes) % GroupBytes = 0
      /\ call'.addr - b * LineBytes \in 0..GroupBytes-1
  BY <1>2 DEF Confined, GroupBytes
<1>4. PICK command \in COMMANDS :
        /\ Inside(mem, command)
        /\ call'.addr = Translate(mem, command) /\ call'.addr \in Address
        /\ command.order = "WRITE"
  BY <1>3, EmuStep
<1>5. PageOfBlock(b) = PageOf(call'.addr)
  <2> DEFINE a == call'.addr
             x == b * LineBytes
  <2>1. x \in Nat
    <3>1. b \in Nat /\ LineBytes \in Nat
      BY Sizes DEF Block
    <3>2. \A m, n \in Nat : m * n \in Nat
      OBVIOUS
    <3> QED
      BY <3>1, <3>2
  <2>2. a \in Nat
    BY <1>4 DEF Address
  <2>3. GroupBytes \in Nat \ {0} /\ PAGE_SIZE \in Nat \ {0} /\ PAGE_SIZE % GroupBytes = 0
    BY Sizes, PageAssumption, EmulatorAssumption DEF GroupBytes
  <2>4. x % GroupBytes = 0 /\ a - x \in 0..GroupBytes-1
    BY <1>3
  <2> HIDE DEF a, x
  <2>5. x \div PAGE_SIZE = a \div PAGE_SIZE
    BY ONLY <2>1, <2>2, <2>3, <2>4, GroupInPage, ZenonT(30)
  <2> QED
    BY <2>5 DEF PageOfBlock, PageOf, a, x
<1> QED
  BY <1>3, <1>4, <1>5

Moved ==
  \A command \in COMMANDS :
    Inside(mem, command)
    /\ (~Inside(mem', command) \/ Translate(mem', command) # Translate(mem, command)) =>
      /\ call'.op \in {"write", "write_byte"} /\ errno = 0
      /\ \E b \in WalkBlocks(mem, command) :
           PageOfBlock(b) = PageOf(call'.addr)

LEMMA MovedStep ==
  ASSUME TypeOK, [EmuNext]_emuVars
  PROVE  Moved
<1> SUFFICES ASSUME NEW command \in COMMANDS, Inside(mem, command),
                    ~Inside(mem', command) \/ Translate(mem', command) # Translate(mem, command)
             PROVE  /\ call'.op \in {"write", "write_byte"} /\ errno = 0
                    /\ \E b \in WalkBlocks(mem, command) : PageOfBlock(b) = PageOf(call'.addr)
  BY DEF Moved
<1>1. mem \in Memory /\ mem' \in Memory
  BY EmuTypeStep DEF TypeOK, Memory
<1>2. PICK b \in WalkBlocks(mem, command) : mem'[b] # mem[b]
  BY <1>1, WalkAgrees
<1>3. b \in Block
  BY <1>1, WalkInMemory
<1> QED
  BY <1>2, <1>3, ChangedPage

(***************************************************************************)
(* In every program, whatever the tables hold and wherever they lie, a     *)
(* translation moves only by a write to a page with an entry it reads.     *)
(***************************************************************************)
THEOREM TranslationMoves == EmuSpec => WalkMovedByTableWrite
<1>1. EmuInit => TypeOK
  BY TypeInit DEF EmuInit
<1>2. TypeOK /\ [EmuNext]_emuVars => TypeOK' /\ [Moved]_emuVars
  BY EmuTypeStep, MovedStep
<1> QED
  BY <1>1, <1>2, PTL DEF EmuSpec, WalkMovedByTableWrite, Moved

-----------------------------------------------------------------------------
(* The tables of an isolated memory stay as they are.                      *)

TablesKept ==
  Isolated(start) =>
    /\ ~wild
    /\ \A command \in COMMANDS : \A b \in WalkBlocks(start, command) : mem[b] = start[b]

EmuInv == TypeOK /\ start \in Memory /\ TablesKept

LEMMA KeptStable ==
  ASSUME EmuInv, Isolated(start), NEW command \in COMMANDS
  PROVE  /\ Inside(mem, command)
         /\ Translate(mem, command) = Translate(start, command)
<1>1. mem \in Memory /\ start \in Memory /\ Inside(start, command)
  BY DEF EmuInv, TypeOK, Memory, Isolated
<1>2. \A b \in WalkBlocks(start, command) : mem[b] = start[b]
  BY DEF EmuInv, TablesKept
<1> QED
  BY <1>1, <1>2, WalkAgrees

LEMMA EmuInvStep ==
  ASSUME EmuInv, [EmuNext]_emuVars
  PROVE  EmuInv'
<1>1. TypeOK /\ TypeOK' /\ start' = start /\ start' \in Memory
  BY EmuTypeStep, EmuStep DEF EmuInv
<1>2. ASSUME Isolated(start)
      PROVE  ~wild'
  <2>1. \A command \in COMMANDS : Inside(mem, command)
    BY <1>2, KeptStable
  <2>2. ~wild
    BY <1>2 DEF EmuInv, TablesKept
  <2> QED
    BY <2>1, <2>2 DEF EmuNext, Execute, WildWalk, emuVars
<1>3. ASSUME Isolated(start), NEW command \in COMMANDS, NEW b \in WalkBlocks(start, command)
      PROVE  mem'[b] = start[b]
  <2>1. mem[b] = start[b] /\ Inside(start, command) /\ start \in Memory
    BY <1>3 DEF EmuInv, TablesKept, Isolated
  <2>2. b \in Block
    BY <2>1, WalkInMemory
  <2>3. ASSUME mem'[b] # mem[b]
        PROVE  FALSE
    <3>1. PICK other \in COMMANDS :
            /\ other.order = "WRITE"
            /\ PageOfBlock(b) = PageOf(Translate(mem, other))
      BY <1>1, <2>2, <2>3, ChangedPage
    <3>2. Translate(mem, other) = Translate(start, other)
      BY <1>3, KeptStable
    <3> QED
      BY <1>3, <3>1, <3>2 DEF Isolated
  <2> QED
    BY <2>1, <2>3
<1>4. TablesKept'
  BY <1>1, <1>2, <1>3 DEF TablesKept
<1> QED
  BY <1>1, <1>4 DEF EmuInv

(***************************************************************************)
(* If no page that the writes reach at the start holds an entry that some  *)
(* translation reads, every command of every program finds its address     *)
(* where it was at the start, and no walk leaves the memory.               *)
(***************************************************************************)
THEOREM IsolatedTablesStable == EmuSpec => []TranslationsStable
<1>1. EmuInit => EmuInv
  BY TypeInit, CacheAssumption DEF EmuInit, Init, EmuInv, TablesKept, Memory, Block, TypeOK
<1>2. EmuInv /\ [EmuNext]_emuVars => EmuInv'
  BY EmuInvStep
<1>3. EmuInv => TranslationsStable
  BY KeptStable DEF TranslationsStable, EmuInv, TablesKept
<1> QED
  BY <1>1, <1>2, <1>3, PTL DEF EmuSpec

-----------------------------------------------------------------------------
(* Stores outside of the image.                                            *)

\* A store ends the model as "outside" at an address outside of the memory only.
LEMMA StoreOutside ==
  ASSUME NEW a \in Address, NEW word, StoreWord(a, word), code' = "outside"
  PROVE  ~InMemory(a)
BY DEF StoreWord, FindPlace, Return

\* An address and the word it lies in are both in the memory or both outside.
LEMMA WordInMemory ==
  ASSUME NEW a \in Address, InMemory(a)
  PROVE  InMemory(WordAligned(a))
BY WordOf DEF InMemory

\* A command that newly ends so is a write at an address outside of the memory.
LEMMA DispatchOutside ==
  ASSUME NEW command \in COMMANDS, NEW a \in Address, Dispatch(command, a), code' = "outside"
  PROVE  command.order = "WRITE" /\ ~InMemory(a)
<1>1. ASSUME NEW access, NEW b, ReadWord(access, b) PROVE FALSE
  BY <1>1 DEF ReadWord, FindPlace, Return
<1>2. ~Refuse
  BY DEF Refuse, Return
<1>3. ASSUME NEW access, CacheRead(access, a) \/ CacheReadByte(access, a) PROVE FALSE
  BY <1>1, <1>2, <1>3 DEF CacheRead, CacheReadByte, Return
<1>4. ASSUME NEW word, CacheWrite(a, word) PROVE ~InMemory(a)
  BY <1>4, StoreOutside DEF CacheWrite
<1>5. ASSUME NEW byte, CacheWriteByte(a, byte) PROVE ~InMemory(a)
  <2>1. StoreWord(WordAligned(a), PatchedWord(ByteOf(a), byte))
    BY <1>1, <1>2, <1>5 DEF CacheWriteByte
  <2>2. ~InMemory(WordAligned(a))
    BY <2>1, WordSameGroup, StoreOutside
  <2> QED
    BY <2>2, WordInMemory
<1> QED
  BY <1>3, <1>4, <1>5 DEF Dispatch

WritesInside ==
  \A command \in COMMANDS : command.order = "WRITE" => InMemory(Translate(start, command))

(***************************************************************************)
(* If moreover every write of a program starts out inside the image, no    *)
(* order of its commands ever stores outside of it: an address that was in *)
(* the image is not led out of it by an earlier store.                     *)
(***************************************************************************)
THEOREM StoresStayInside == EmuSpec => []StoresInside
<1> DEFINE StoreInv == EmuInv /\ StoresInside
<1>1. EmuInit => StoreInv
  BY TypeInit, CacheAssumption
     DEF EmuInit, Init, EmuInv, TablesKept, Memory, Block, TypeOK, StoresInside
<1>2. StoreInv /\ [EmuNext]_emuVars => StoreInv'
  <2>1. SUFFICES ASSUME StoreInv, [EmuNext]_emuVars, Isolated(start), WritesInside,
                        code' = "outside"
                 PROVE  FALSE
    <3>1. EmuInv /\ [EmuNext]_emuVars => EmuInv' /\ start' = start
      BY EmuInvStep, EmuStep DEF EmuInv
    <3> QED
      BY <3>1 DEF StoresInside, WritesInside
  <2>2. code # "outside"
    BY <2>1 DEF StoresInside, WritesInside
  <2>3. PICK command \in COMMANDS : Execute(command)
    BY <2>1, <2>2 DEF EmuNext, SetErrno, WildWalk, emuVars
  <2>4. Translate(mem, command) \in Address
    BY <2>1, <2>3, TranslateAddress DEF Execute, EmuInv, TypeOK, Memory
  <2>5. command.order = "WRITE" /\ ~InMemory(Translate(mem, command))
    BY <2>1, <2>3, <2>4, DispatchOutside DEF Execute
  <2>6. Translate(mem, command) = Translate(start, command)
    BY <2>1, KeptStable
  <2> QED
    BY <2>1, <2>5, <2>6 DEF WritesInside
<1>3. StoreInv => StoresInside
  OBVIOUS
<1> QED
  BY <1>1, <1>2, <1>3, PTL DEF EmuSpec
=============================================================================
