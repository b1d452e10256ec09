------------------------------- MODULE Cache -------------------------------
(***************************************************************************)
(* The two levels of cache of cache_mng.c over the memory, with lru.h.     *)
(*                                                                         *)
(* cache_mng.c writes M_REQUIRE_NO_ERRNO(f(...)) around its inner calls:   *)
(* "if errno is not 0, return f(...)".  While errno is 0 the inner call is *)
(* therefore skipped, and once some library call has set errno the outer   *)
(* function returns what its first inner call returns.  The model keeps    *)
(* both halves: errno is part of the state, and nothing resets it.         *)
(*                                                                         *)
(* Addresses are byte addresses, a word is its four bytes, memory is a     *)
(* function from line-sized blocks to lines.  An address may lie outside   *)
(* of the memory, which nothing tests: a call that reads or writes memory  *)
(* there ends the model with the code "outside".                           *)
(***************************************************************************)
EXTENDS Integers, FiniteSetsExt

CONSTANTS
  LINES,            \* the number of lines of each cache (64, 64, 512)
  WAYS,             \* its number of ways (4, 4, 8): ages fill their bit-field
  WORDS_PER_LINE,   \* 4 in the source
  BLOCKS,           \* the blocks of the memory are 0..BLOCKS-1
  ADDRS,            \* the physical addresses that are used, in memory or not
  ACCESSES,         \* the kinds of access that are made
  CACHES,           \* the caches a caller uses directly
  BYTES,            \* the bytes that are written
  WORDS,            \* the words that are written
  MEMORIES,         \* what the memory may hold at the start
  Garbage,          \* the words an uninitialised local variable may hold
  None              \* nothing is returned through the pointers

CacheType == {"L1_ICACHE", "L1_DCACHE", "L2_CACHE"}
Access == {"INSTRUCTION", "DATA"}
L1(access) == IF access = "INSTRUCTION" THEN "L1_ICACHE" ELSE "L1_DCACHE"

Index(c) == 0..LINES[c]-1
Way(c) == 0..WAYS[c]-1
Block == 0..BLOCKS-1
Byte == 0..255
Word == [0..3 -> Byte]
Line == [0..WORDS_PER_LINE-1 -> Word]
LineBytes == 4 * WORDS_PER_LINE
Entry(c) == [v : {0, 1}, age : Way(c), tag : Nat, line : Line]

BlockOf(a) == a \div LineBytes
LineIndex(c, a) == BlockOf(a) % LINES[c]
Tag(c, a) == BlockOf(a) \div LINES[c]
ByteOf(a) == a % 4
WordAligned(a) == a - ByteOf(a)

\* get_index_word.
FirstWord(a) == 0
WordIndex(a) == (a \div 4) % WORDS_PER_LINE

\* get_line_from_mem_space: the block at the multiple of "lines" bytes below a.
LineAt(a, lines) == (a - (a % lines)) \div LineBytes

(***************************************************************************)
(* Where update_memory stores a line: cache_write passes it the NUMBER of  *)
(* lines of the L1 data cache for the number of bytes of a line.           *)
(***************************************************************************)
SizeBelow(a) == LineAt(a - LINES["L1_DCACHE"], LineBytes)
UpdatedBlock(a) == LineAt(a, LINES["L1_DCACHE"])

\* The line of the address is in the memory.
InMemory(a) == LineAt(a, LineBytes) \in Block

ASSUME CacheAssumption ==
  /\ WORDS_PER_LINE \in Nat \ {0} /\ BLOCKS \in Nat \ {0}
  /\ LINES \in [CacheType -> Nat \ {0}] /\ WAYS \in [CacheType -> Nat \ {0}]
  /\ LINES["L1_ICACHE"] = LINES["L1_DCACHE"]
  /\ LINES["L1_DCACHE"] % LineBytes = 0
  /\ ADDRS \subseteq Nat
  /\ ACCESSES \subseteq Access /\ CACHES \subseteq CacheType
  /\ BYTES \subseteq Byte /\ WORDS \subseteq Word
  /\ Garbage \subseteq Word /\ Garbage # {}
  /\ MEMORIES \subseteq [Block -> Line]

VARIABLES
  cache,   \* cache[c][index][way]: the entries
  mem,     \* the memory
  errno,   \* 1 once some library call has failed
  call,    \* the last call that was made
  code,    \* what it returned, or "crash", or "outside" of the memory
  out      \* what it stored through its pointers

vars == <<cache, mem, errno, call, code, out>>

Running == code \notin {"crash", "outside"}

Called(op, c, a, arg) == [op |-> op, cache |-> c, addr |-> a, arg |-> arg]

ZeroLine == [i \in 0..WORDS_PER_LINE-1 |-> [j \in 0..3 |-> 0]]
FlushedEntry == [v |-> 0, age |-> 0, tag |-> 0, line |-> ZeroLine]
Flushed(c) == [i \in Index(c) |-> [w \in Way(c) |-> FlushedEntry]]

-----------------------------------------------------------------------------
(* lru.h, on the ways of one line.                                         *)

(***************************************************************************)
(* LRU_age_update.  The loop zeroes the age of the way in its first round  *)
(* already, so no way but way 0 is ever found younger than it.             *)
(***************************************************************************)
AgeUpdate(set, w) ==
  [x \in DOMAIN set |-> [set[x] EXCEPT !.age =
     IF x = w THEN 0
     ELSE IF x = 0 /\ @ < set[w].age THEN @ + 1 ELSE @]]

\* LRU_age_increase: the way restarts at 0, and then grows like the others.
WrapIncrease(set, w, ways) ==
  [x \in DOMAIN set |-> [set[x] EXCEPT !.age =
     LET age == IF x = w THEN 0 ELSE @
     IN (age + 1) % ways]]

GrowForever(set, w, ways) ==
  [x \in DOMAIN set |-> [set[x] EXCEPT !.age = IF x = w THEN 1 ELSE @ + 1]]

AgeIncrease(set, w, ways) ==
  [x \in DOMAIN set |-> [set[x] EXCEPT !.age =
     LET age == IF x = w THEN 0 ELSE @
     IN IF age < ways - 1 THEN age + 1 ELSE age]]

-----------------------------------------------------------------------------
Init ==
  /\ cache = [c \in CacheType |-> Flushed(c)]
  /\ mem \in MEMORIES
  /\ errno = 0
  /\ call = Called("none", None, None, None)
  /\ code = "ERR_NONE"
  /\ out = None

\* Some call of the C library fails between two calls; nothing resets errno.
SetErrno ==
  /\ errno = 0 /\ Running
  /\ errno' = 1
  /\ UNCHANGED <<cache, mem, call, code, out>>

Return(error, result) == code' = error /\ out' = result

CacheFlush(c) ==
  /\ Running
  /\ cache' = [cache EXCEPT ![c] = Flushed(c)]
  /\ call' = Called("flush", c, None, None)
  /\ Return("ERR_NONE", None)
  /\ UNCHANGED <<mem, errno>>

\* The entry cache_entry_init makes for address a.
EntryInit(c, a) ==
  [v |-> 1, age |-> 0, tag |-> Tag(c, a), line |-> mem[LineAt(a, LineBytes)]]

(***************************************************************************)
(* A caller stores a block itself: cache_entry_init, which refuses an      *)
(* address that does not start a line and reads the line from memory, then *)
(* cache_insert of the entry at the line of its address, which refuses a   *)
(* way out of range.                                                       *)
(***************************************************************************)
CacheInsert(c, a, w) ==
  /\ Running
  /\ call' = Called("insert", c, a, w)
  /\ \/ /\ a % LineBytes = 0 /\ InMemory(a) /\ w < WAYS[c]
        /\ cache' = [cache EXCEPT ![c][LineIndex(c, a)][w] = EntryInit(c, a)]
        /\ Return("ERR_NONE", None)
     \/ /\ a % LineBytes # 0 \/ (InMemory(a) /\ w >= WAYS[c])
        /\ UNCHANGED cache
        /\ Return("ERR_BAD_PARAMETER", None)
     \/ a % LineBytes = 0 /\ ~InMemory(a) /\ UNCHANGED cache /\ Return("outside", None)
  /\ UNCHANGED <<mem, errno>>

\* The way cache_hit stops at with a hit: every way before it is valid.
AnyWay(c, a) ==
  {w \in Way(c) : cache[c][LineIndex(c, a)][w].tag = Tag(c, a)}
HitWays(c, a) ==
  LET set == cache[c][LineIndex(c, a)]
  IN {w \in Way(c) : /\ set[w].v = 1 /\ set[w].tag = Tag(c, a)
                     /\ \A x \in 0..w-1 : set[x].v = 1 /\ set[x].tag # Tag(c, a)}

\* The entries that a call of cache_hit leaves, and its hit.
Lookup(c, a) ==
  \/ HitWays(c, a) = {} /\ UNCHANGED cache
  \/ \E w \in HitWays(c, a) :
       cache' = [cache EXCEPT ![c][LineIndex(c, a)] = AgeUpdate(@, w)]

Found(c, a) ==
  IF HitWays(c, a) = {} THEN None
  ELSE LET w == CHOOSE w \in HitWays(c, a) : TRUE
       IN [hit_way |-> w, hit_index |-> LineIndex(c, a),
           p_line |-> cache[c][LineIndex(c, a)][w].line]

CacheHit(c, a) ==
  /\ Running
  /\ Lookup(c, a)
  /\ call' = Called("hit", c, a, None)
  /\ Return("ERR_NONE", Found(c, a))
  /\ UNCHANGED <<mem, errno>>

(***************************************************************************)
(* find_place_in_l1 while errno is 0: the last invalid way is chosen, and  *)
(* the ages are told, but the insertion is skipped.  The search for the    *)
(* oldest way never finds one (its maximum starts at 255), so that in a    *)
(* full line the pointer to the evicted line stays NULL and is followed.   *)
(***************************************************************************)
FillPlace(c, a, result) ==
  LET index == LineIndex(c, a)
      free == {w \in Way(c) : cache[c][index][w].v = 0}
  IN \/ /\ free # {}
        /\ cache' = [cache EXCEPT ![c][index][Max(free)] =
                       [FlushedEntry EXCEPT !.v = 1, !.tag = Tag(c, a)]]
        /\ Return("ERR_NONE", result)
     \/ free = {} /\ UNCHANGED cache /\ Return("crash", None)

FindPlace(c, a, result) ==
  LET set == cache[c][LineIndex(c, a)]
      free == {w \in Way(c) : set[w].v = 0}
  IN \/ /\ free # {}
        /\ cache' = [cache EXCEPT ![c][LineIndex(c, a)] =
                       AgeIncrease(set, Max(free), WAYS[c])]
        /\ Return("ERR_NONE", result)
     \/ free = {} /\ UNCHANGED cache /\ Return("crash", None)

\* The guard check_well_aligned puts before a read.
Refuse == UNCHANGED cache /\ Return("ERR_BAD_PARAMETER", None)

\* cache_read of an address that starts a line.
ReadWord(access, a) ==
  \/ /\ errno = 0
     /\ \E word \in Garbage : FindPlace(L1(access), a, word)
  \/ /\ errno # 0
     /\ Lookup(L1(access), a)
     /\ Return("ERR_NONE", None)

CacheRead(access, a) ==
  /\ Running
  /\ IF a % LineBytes = 0 THEN ReadWord(access, a) ELSE Refuse
  /\ call' = Called("read", L1(access), a, None)
  /\ UNCHANGED <<mem, errno>>

\* cache_read_byte: while errno is 0 the byte is one of the -1 it starts from.
CacheReadByte(access, a) ==
  /\ Running
  /\ IF a % LineBytes # 0 THEN Refuse
     ELSE IF errno = 0 THEN UNCHANGED cache /\ Return("ERR_NONE", 255)
     ELSE ReadWord(access, WordAligned(a))
  /\ call' = Called("read_byte", L1(access), a, None)
  /\ UNCHANGED <<mem, errno>>

(***************************************************************************)
(* cache_write.  The L1 cache is not searched and, while errno is 0, L2 is *)
(* not either: the line of the address is read from memory, its word is    *)
(* changed, and update_memory writes it back.                              *)
(***************************************************************************)
StoreWord(a, word) ==
  \/ /\ errno = 0 /\ ~InMemory(a)
     /\ Return("outside", None)
     /\ UNCHANGED <<cache, mem>>
  \/ /\ errno = 0 /\ InMemory(a)
     /\ mem' = [mem EXCEPT ![UpdatedBlock(a)] =
                  [mem[LineAt(a, LineBytes)] EXCEPT ![WordIndex(a)] = word]]
     /\ FindPlace("L1_DCACHE", a, None)
  \/ /\ errno # 0
     /\ Lookup("L2_CACHE", a)
     /\ Return("ERR_NONE", None)
     /\ UNCHANGED mem

\* The cache whose ages a write touches.
Written == IF errno = 0 THEN "L1_DCACHE" ELSE "L2_CACHE"

CacheWrite(a, word) ==
  /\ Running
  /\ StoreWord(a, word)
  /\ call' = Called("write", Written, a, word)
  /\ UNCHANGED errno

(***************************************************************************)
(* cache_write_byte: the word read is skipped while errno is 0, so the     *)
(* byte is put into the word -1 and the whole word is written.  The mask   *)
(* of byte 1 (0xFFF00FF) also clears the upper half of byte 3.             *)
(***************************************************************************)
PatchedHigh(i, byte) == [j \in 0..3 |-> IF j = 3 - i THEN byte ELSE 255]
PatchedWord(i, byte) ==
  [j \in 0..3 |-> IF j = i THEN byte ELSE IF i = 1 /\ j = 3 THEN 15 ELSE 255]

CacheWriteByte(a, byte) ==
  /\ Running
  /\ \/ /\ errno = 0
        /\ StoreWord(WordAligned(a), PatchedWord(ByteOf(a), byte))
     \/ /\ errno # 0
        /\ IF WordAligned(a) % LineBytes = 0 THEN ReadWord("DATA", WordAligned(a))
           ELSE Refuse
        /\ UNCHANGED mem
  /\ call' = Called("write_byte", "L1_DCACHE", a, byte)
  /\ UNCHANGED errno

\* The commands of test-cache.c, which flushes the three caches first.
Next ==
  \/ SetErrno
  \/ \E access \in ACCESSES, a \in ADDRS : CacheRead(access, a) \/ CacheReadByte(access, a)
  \/ \E a \in ADDRS, word \in WORDS : CacheWrite(a, word)
  \/ \E a \in ADDRS, byte \in BYTES : CacheWriteByte(a, byte)

Spec == Init /\ [][Next]_vars

\* A caller of cache_mng.h may also flush, store and look up blocks itself.
ApiNext ==
  \/ Next
  \/ \E c \in CACHES : CacheFlush(c)
  \/ \E c \in CACHES, a \in ADDRS : CacheHit(c, a)
  \/ \E c \in CACHES, a \in ADDRS : \E w \in 0..WAYS[c] : CacheInsert(c, a, w)

ApiSpec == Init /\ [][ApiNext]_vars

-----------------------------------------------------------------------------
\* Types of the state; no age outgrows its bit-field.
TypeOK ==
  /\ DOMAIN cache = CacheType
  /\ \A c \in CacheType : cache[c] \in [Index(c) -> [Way(c) -> Entry(c)]]
  /\ mem \in [Block -> Line]
  /\ errno \in {0, 1}
  /\ code \in {"ERR_NONE", "ERR_BAD_PARAMETER", "crash", "outside"}

(***************************************************************************)
(* No sequence of commands follows the NULL pointer of find_place_in_l1:   *)
(* that takes a full L1 line, and no command ever makes a line valid.      *)
(***************************************************************************)
NeverCrashes == code # "crash"

(***************************************************************************)
(* A word written to an address of the memory, in the first line of the    *)
(* group update_memory aligns to, is stored at its address, and nothing    *)
(* else changes.                                                           *)
(***************************************************************************)
WordStored ==
  [][call' # call /\ call'.op = "write" /\ errno = 0 /\ code' # "outside"
       /\ call'.addr % LINES["L1_DCACHE"] < LineBytes =>
     mem' = [mem EXCEPT ![call'.addr \div LineBytes]
                          [(call'.addr % LineBytes) \div 4] = call'.arg]]_vars

(***************************************************************************)
(* A byte written there ends up at its address (cache_write_byte shifts    *)
(* and masks it into a word), and no other word of memory changes.         *)
(***************************************************************************)
ByteStored ==
  [][call' # call /\ call'.op = "write_byte" /\ errno = 0 /\ code' # "outside"
       /\ call'.addr % LINES["L1_DCACHE"] < LineBytes =>
     LET b == call'.addr \div LineBytes
         k == (call'.addr % LineBytes) \div 4
     IN /\ mem'[b][k][call'.addr % 4] = call'.arg
        /\ mem' = [mem EXCEPT ![b][k] = mem'[b][k]]]_vars

\* What a way of the line of address a holds is the block of a.
Holds(c, a, w) ==
  LET entry == cache[c][LineIndex(c, a)][w] IN entry.v = 1 /\ entry.tag = Tag(c, a)

(***************************************************************************)
(* A block that is in a valid way of its line is found by cache_hit.       *)
(***************************************************************************)
PresentFound ==
  call.op = "hit" /\ out = None =>
    \A w \in Way(call.cache) : ~Holds(call.cache, call.addr, w)

(***************************************************************************)
(* A call makes one way younger at most, in the line of its address: the   *)
(* way that is hit, stored, or chosen for a fill.  The other ages saturate *)
(* and never start over, which would make the way the last to be evicted.  *)
(***************************************************************************)
Younger(c, i, w) == cache'[c][i][w].age < cache[c][i][w].age

OneYounger ==
  [][call'.op # "flush" =>
       \A c \in CacheType : \A i \in Index(c) : \A w \in Way(c) :
         Younger(c, i, w) =>
           /\ c = call'.cache /\ i = LineIndex(c, call'.addr)
           /\ call'.op = "hit" => w = out'.hit_way
           /\ call'.op = "insert" => w = call'.arg
           /\ \A x \in Way(c) : Younger(c, i, x) => x = w]_vars

\* cache_read of an address of the memory answers with the word of memory.
ReadAnswers ==
  call.op = "read" /\ code = "ERR_NONE" /\ InMemory(call.addr) =>
    out = mem[call.addr \div LineBytes][(call.addr % LineBytes) \div 4]

\* A word that was written at an address of the memory is in memory.
WriteThrough ==
  call.op = "write" /\ code = "ERR_NONE" /\ InMemory(call.addr) =>
    mem[call.addr \div LineBytes][(call.addr % LineBytes) \div 4] = call.arg
=============================================================================
