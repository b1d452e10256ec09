---------------------------- MODULE CacheProofs ----------------------------
(***************************************************************************)
(* What the commands of test-cache.c do for every shape of the caches,     *)
(* every memory and every order of commands: proofs about Cache.           *)
(***************************************************************************)
EXTENDS CacheFill, DataLemmas

Address == Nat
GroupBytes == LINES["L1_DCACHE"]

-----------------------------------------------------------------------------
(* Addresses.                                                              *)

LEMMA Sizes ==
  /\ LineBytes \in Nat \ {0} /\ GroupBytes \in Nat \ {0}
  /\ BLOCKS \in Nat \ {0} /\ LineBytes * BLOCKS \in Nat
  /\ \A c \in CacheType : LINES[c] \in Nat \ {0} /\ WAYS[c] \in Nat \ {0}
<1>1. LineBytes \in Nat \ {0} /\ BLOCKS \in Nat \ {0}
  BY CacheAssumption DEF LineBytes
<1>2. \A m, n \in Nat : m * n \in Nat
  OBVIOUS
<1> QED
  BY <1>1, <1>2, CacheAssumption DEF GroupBytes, CacheType

\* The start of the group of "lines" bytes around an address.
LEMMA LineAtStart ==
  ASSUME NEW a \in Nat, NEW lines \in Nat \ {0}, lines % LineBytes = 0
  PROVE  /\ LineAt(a, lines) \in Nat
         /\ LineAt(a, lines) * LineBytes = a - (a % lines)
         /\ (LineAt(a, lines) * LineBytes) % lines = 0
         /\ a - LineAt(a, lines) * LineBytes \in 0..lines-1
<1> DEFINE p == a \div lines
           r == a % lines
           k == lines \div LineBytes
<1>1. p \in Nat /\ r \in 0..lines-1 /\ a = lines * p + r
  BY DivMod DEF Splits
<1>2. k \in Nat /\ lines = LineBytes * k
  <2>1. Splits(lines, LineBytes, k, lines % LineBytes)
    BY Sizes, DivMod
  <2> QED
    BY <2>1, Sizes DEF Splits
<1> HIDE DEF p, r, k
<1> DEFINE start == lines * p
<1>3. start \in Nat /\ start = a - r
  BY <1>1
<1>4. k * p \in Nat
  BY <1>1, <1>2
<1>5. start = LineBytes * (k * p)
  BY <1>1, <1>2, Sizes
<1>6. Splits(start, LineBytes, k * p, 0)
  BY <1>4, <1>5, Sizes DEF Splits
<1>7. Splits(start, lines, p, 0)
  BY <1>1 DEF Splits
<1> HIDE DEF start
<1>8. start \div LineBytes = k * p
  <2>1. Splits(start, LineBytes, start \div LineBytes, start % LineBytes)
    BY <1>3, Sizes, DivMod
  <2> QED
    BY <2>1, <1>6, Sizes, SplitUnique
<1>9. start % lines = 0
  <2>1. Splits(start, lines, start \div lines, start % lines)
    BY <1>3, DivMod
  <2> QED
    BY <2>1, <1>7, SplitUnique
<1>10. LineAt(a, lines) = k * p
  BY <1>3, <1>8 DEF LineAt, r
<1>11. LineAt(a, lines) * LineBytes = start
  BY <1>10, <1>5, <1>4, Sizes
<1> QED
  <2>1. r = a % lines
    BY DEF r
  <2>2. a - start = r
    BY <1>1, <1>3
  <2> QED
    BY <2>1, <2>2, <1>1, <1>3, <1>4, <1>9, <1>10, <1>11

\* Its block is a block of the memory, when the line of the address is.
LEMMA LineAtBlock ==
  ASSUME NEW a \in Address, InMemory(a), NEW lines \in Nat \ {0}, lines % LineBytes = 0
  PROVE  LineAt(a, lines) \in Block
<1> DEFINE b == LineAt(a, lines)
<1>1. a \in Nat /\ a < LineBytes * BLOCKS
  <2> DEFINE line == LineAt(a, LineBytes)
  <2>1. a \in Nat /\ LineBytes % LineBytes = 0
    BY Sizes DEF Address
  <2>2. line \in Nat /\ a - line * LineBytes \in 0..LineBytes-1
    BY <2>1, Sizes, LineAtStart
  <2>3. line + 1 <= BLOCKS
    BY Sizes DEF InMemory, Block
  <2> HIDE DEF line
  <2>4. LineBytes * (line + 1) <= LineBytes * BLOCKS
    <3>1. BLOCKS - (line + 1) \in Nat
      BY <2>2, <2>3, Sizes
    <3>2. PICK d \in Nat : BLOCKS = (line + 1) + d
      BY <2>2, <3>1, Sizes
    <3>3. LineBytes * BLOCKS = LineBytes * (line + 1) + LineBytes * d
      BY <2>2, <3>2, Sizes
    <3>4. LineBytes * d \in Nat /\ LineBytes * (line + 1) \in Nat
      BY <2>2, Sizes
    <3> QED
      BY <3>3, <3>4
  <2>5. LineBytes * (line + 1) = line * LineBytes + LineBytes
    BY <2>2, Sizes
  <2>6. line * LineBytes \in Nat
    BY <2>2, Sizes
  <2> QED
    BY <2>1, <2>2, <2>4, <2>5, <2>6, Sizes
<1>2. b \in Nat /\ a - b * LineBytes \in 0..lines-1
  BY <1>1, LineAtStart
<1> HIDE DEF b
<1>3. b * LineBytes < LineBytes * BLOCKS
  <2>1. b * LineBytes \in Int /\ LineBytes * BLOCKS \in Int
    BY <1>2, Sizes
  <2> QED
    BY <1>1, <1>2, <2>1
<1>4. Splits(b * LineBytes, LineBytes, b, 0)
  BY <1>2, Sizes DEF Splits
<1>5. b < BLOCKS
  BY <1>3, <1>4, Sizes, SplitBound
<1> QED
  BY <1>2, <1>5, Sizes DEF Block, b

LEMMA OwnMultiple == LineBytes % LineBytes = 0 /\ GroupBytes % LineBytes = 0
<1>1. LineBytes % LineBytes = 0
  BY Sizes
<1> QED
  BY <1>1, CacheAssumption DEF GroupBytes

\* The line and the tag of an address.
LEMMA IndexTag ==
  ASSUME NEW a \in Address, NEW c \in CacheType
  PROVE  LineIndex(c, a) \in Index(c) /\ Tag(c, a) \in Nat
<1>1. a \in Nat
  BY DEF Address
<1>2. Splits(a, LineBytes, BlockOf(a), a % LineBytes)
  BY <1>1, Sizes, DivMod DEF BlockOf
<1>3. BlockOf(a) \in Nat
  BY <1>2 DEF Splits
<1>4. Splits(BlockOf(a), LINES[c], Tag(c, a), LineIndex(c, a))
  BY <1>3, Sizes, DivMod DEF Tag, LineIndex
<1> QED
  BY <1>4 DEF Splits, Index

\* The word an address lies in, in the same group.
LEMMA WordSameGroup ==
  ASSUME NEW a \in Address
  PROVE  /\ WordAligned(a) \in Address
         /\ UpdatedBlock(WordAligned(a)) = UpdatedBlock(a)
<1> DEFINE G == GroupBytes
           p == a \div G
           r == a % G
           q == a \div 4
           s == a % 4
           wa == WordAligned(a)
<1>1. a \in Nat /\ G \in Nat \ {0}
  BY Sizes DEF Address
<1>2. Splits(a, G, p, r) /\ Splits(a, 4, q, s)
  BY <1>1, DivMod
<1>3. wa = a - s /\ wa = 4 * q /\ q \in Nat /\ s \in 0..3
  BY <1>1, <1>2 DEF WordAligned, ByteOf, Splits
<1>4. PICK m \in Nat : G * p = 4 * m
  <2> DEFINE k == G \div LineBytes
  <2>1. Splits(G, LineBytes, k, 0)
    BY Sizes, OwnMultiple, DivMod
  <2>2. k \in Nat /\ G = LineBytes * k /\ p \in Nat
    BY <2>1, <1>2, Sizes DEF Splits
  <2> HIDE DEF k, G, p
  <2>3. G * p = 4 * (WORDS_PER_LINE * (k * p)) /\ WORDS_PER_LINE * (k * p) \in Nat
    BY <2>2, CacheAssumption DEF LineBytes
  <2> QED
    BY <2>3
<1>5. r - s \in 0..G-1 /\ wa = G * p + (r - s) /\ p \in Nat
  <2> HIDE DEF p, r, q, s, G
  <2>0. p \in Nat /\ r \in 0..G-1 /\ a = G * p + r
    BY <1>2 DEF Splits
  <2>1. G * p \in Nat
    BY <1>4
  <2>2. a = 4 * m + r /\ a = 4 * q + s
    BY <2>0, <1>3, <1>4, <1>1
  <2>3. r >= s
    BY <2>0, <2>2, <1>3, <1>4
  <2> QED
    BY <2>0, <2>1, <2>3, <1>3, <1>1
<1> HIDE DEF G, p, r, q, s, wa
<1>6. wa \in Nat
  BY <1>3
<1>7. wa % G = r - s
  <2>1. Splits(wa, G, p, r - s)
    BY <1>5 DEF Splits
  <2>2. Splits(wa, G, wa \div G, wa % G)
    BY <1>1, <1>6, DivMod
  <2> QED
    BY <2>1, <2>2, <1>1, SplitUnique
<1>8. wa - (wa % G) = a - (a % G)
  <2>1. r \in Int /\ s \in Int
    BY <1>1, <1>2 DEF Splits
  <2>2. r = a % G
    BY DEF r
  <2>3. wa - (r - s) = a - r
    BY <2>1, <1>1, <1>3
  <2> QED
    BY <2>2, <2>3, <1>7
<1> QED
  BY <1>6, <1>8, Sizes DEF Address, UpdatedBlock, LineAt, G, GroupBytes, wa

-----------------------------------------------------------------------------
(* The ways of a line.                                                     *)

Ways(c) == [Way(c) -> Entry(c)]

\* Two states of the ways that differ in ages only.
SameEntries(c, set, other) ==
  \A w \in Way(c) : /\ set[w].v = other[w].v /\ set[w].tag = other[w].tag
                    /\ set[w].line = other[w].line

\* An entry whose age is changed to one that fits.
LEMMA AgedEntry ==
  ASSUME NEW c \in CacheType, NEW e \in Entry(c), NEW n \in Way(c)
  PROVE  LET aged == [e EXCEPT !.age = n]
         IN aged \in Entry(c) /\ aged.v = e.v /\ aged.tag = e.tag
            /\ aged.line = e.line /\ aged.age = n
BY DEF Entry

LEMMA Increased ==
  ASSUME NEW c \in CacheType, NEW set \in Ways(c), NEW w
  PROVE  LET aged == AgeIncrease(set, w, WAYS[c])
         IN /\ aged \in Ways(c) /\ SameEntries(c, set, aged)
            /\ \A x \in Way(c) : x # w => aged[x].age >= set[x].age
<1> DEFINE aged == AgeIncrease(set, w, WAYS[c])
           age(x) == LET from == IF x = w THEN 0 ELSE set[x].age
                     IN IF from < WAYS[c] - 1 THEN from + 1 ELSE from
<1>1. WAYS[c] \in Nat \ {0} /\ DOMAIN set = Way(c)
  BY Sizes DEF Ways
<1>2. aged = [x \in Way(c) |-> [set[x] EXCEPT !.age = age(x)]]
  BY <1>1 DEF AgeIncrease
<1>3. ASSUME NEW x \in Way(c)
      PROVE  /\ aged[x] \in Entry(c) /\ aged[x].v = set[x].v /\ aged[x].tag = set[x].tag
             /\ aged[x].line = set[x].line /\ (x # w => aged[x].age >= set[x].age)
  <2>1. set[x] \in Entry(c) /\ set[x].age \in Way(c)
    BY DEF Ways, Entry
  <2>2. age(x) \in Way(c) /\ (x # w => age(x) >= set[x].age)
    BY <1>1, <2>1 DEF Way
  <2>3. aged[x] = [set[x] EXCEPT !.age = age(x)]
    BY <1>2
  <2> HIDE DEF age, aged
  <2> QED
    BY <2>1, <2>2, <2>3, AgedEntry
<1> HIDE DEF age
<1>4. aged \in Ways(c)
  BY <1>2, <1>3 DEF Ways
<1> QED
  BY <1>3, <1>4 DEF SameEntries

LEMMA Updated ==
  ASSUME NEW c \in CacheType, NEW set \in Ways(c), NEW w \in Way(c)
  PROVE  LET aged == AgeUpdate(set, w)
         IN /\ aged \in Ways(c) /\ SameEntries(c, set, aged)
            /\ \A x \in Way(c) : x # w => aged[x].age >= set[x].age
<1> DEFINE aged == AgeUpdate(set, w)
           age(x) == IF x = w THEN 0
                     ELSE IF x = 0 /\ set[x].age < set[w].age THEN set[x].age + 1
                     ELSE set[x].age
<1>1. WAYS[c] \in Nat \ {0} /\ DOMAIN set = Way(c) /\ set[w].age \in Way(c)
  BY Sizes DEF Ways, Entry
<1>2. aged = [x \in Way(c) |-> [set[x] EXCEPT !.age = age(x)]]
  BY <1>1 DEF AgeUpdate
<1>3. ASSUME NEW x \in Way(c)
      PROVE  /\ aged[x] \in Entry(c) /\ aged[x].v = set[x].v /\ aged[x].tag = set[x].tag
             /\ aged[x].line = set[x].line /\ (x # w => aged[x].age >= set[x].age)
  <2>1. set[x] \in Entry(c) /\ set[x].age \in Way(c)
    BY DEF Ways, Entry
  <2>2. age(x) \in Way(c) /\ (x # w => age(x) >= set[x].age)
    <3> DEFINE old == set[x].age
               touched == set[w].age
    <3>1. old \in 0..WAYS[c]-1 /\ touched \in 0..WAYS[c]-1 /\ WAYS[c] \in Nat \ {0}
      BY <1>1, <2>1 DEF Way
    <3>2. age(x) = IF x = w THEN 0
                   ELSE IF x = 0 /\ old < touched THEN old + 1 ELSE old
      OBVIOUS
    <3> HIDE DEF age, old, touched
    <3>3. age(x) \in 0..WAYS[c]-1 /\ (x # w => age(x) >= old)
      BY <3>1, <3>2
    <3> QED
      BY <3>3 DEF Way, old
  <2>3. aged[x] = [set[x] EXCEPT !.age = age(x)]
    BY <1>2
  <2> HIDE DEF age, aged
  <2> QED
    BY <2>1, <2>2, <2>3, AgedEntry
<1> HIDE DEF age
<1>4. aged \in Ways(c)
  BY <1>2, <1>3 DEF Ways
<1> QED
  BY <1>3, <1>4 DEF SameEntries

(***************************************************************************)
(* The update that a replacement of the least recently used way takes:     *)
(* each way that was younger than the one that is touched ages by one.     *)
(***************************************************************************)
LruUpdate(set, w) ==
  [x \in DOMAIN set |-> [set[x] EXCEPT !.age =
     IF x = w THEN 0 ELSE IF @ < set[w].age THEN @ + 1 ELSE @]]

(***************************************************************************)
(* LRU_age_update (lru.h:20-28) is that update in exactly the states where *)
(* no way but way 0 is younger than the touched one: what its early reset  *)
(* of the touched age costs, for every number of ways and all their ages.  *)
(***************************************************************************)
THEOREM UpdateIsLruWhen ==
  ASSUME NEW c \in CacheType, NEW set \in Ways(c), NEW w \in Way(c)
  PROVE  AgeUpdate(set, w) = LruUpdate(set, w)
           <=> \A x \in Way(c) \ {0, w} : set[x].age >= set[w].age
<1>1. /\ DOMAIN set = Way(c)
      /\ \A x \in Way(c) : set[x] \in Entry(c) /\ set[x].age \in Nat
  <2>1. DOMAIN set = Way(c) /\ \A x \in Way(c) : set[x] \in Entry(c)
    BY DEF Ways
  <2>2. \A e \in Entry(c) : e.age \in Nat
    BY Sizes DEF Entry, Way
  <2> QED
    BY <2>1, <2>2
<1> DEFINE coded(x) == IF x = w THEN 0
                       ELSE IF x = 0 /\ set[x].age < set[w].age THEN set[x].age + 1
                       ELSE set[x].age
           meant(x) == IF x = w THEN 0
                       ELSE IF set[x].age < set[w].age THEN set[x].age + 1 ELSE set[x].age
<1>2. /\ AgeUpdate(set, w) = [x \in Way(c) |-> [set[x] EXCEPT !.age = coded(x)]]
      /\ LruUpdate(set, w) = [x \in Way(c) |-> [set[x] EXCEPT !.age = meant(x)]]
  BY <1>1 DEF AgeUpdate, LruUpdate
<1>3. \A x \in Way(c) : coded(x) = meant(x) <=> x \in {0, w} \/ set[x].age >= set[w].age
  BY <1>1
<1>4. \A x \in Way(c) : [set[x] EXCEPT !.age = coded(x)].age = coded(x)
                       /\ [set[x] EXCEPT !.age = meant(x)].age = meant(x)
  <2> HIDE DEF coded, meant
  <2> QED
    BY <1>1 DEF Entry
<1> HIDE DEF coded, meant
<1>5. AgeUpdate(set, w) = LruUpdate(set, w) <=> \A x \in Way(c) : coded(x) = meant(x)
  <2>1. ASSUME \A x \in Way(c) : coded(x) = meant(x)
        PROVE  AgeUpdate(set, w) = LruUpdate(set, w)
    BY <1>2, <2>1
  <2>2. ASSUME AgeUpdate(set, w) = LruUpdate(set, w), NEW x \in Way(c)
        PROVE  coded(x) = meant(x)
    <3>1. [set[x] EXCEPT !.age = coded(x)] = AgeUpdate(set, w)[x]
          /\ [set[x] EXCEPT !.age = meant(x)] = LruUpdate(set, w)[x]
      BY <1>2
    <3> QED
      BY <1>4, <2>2, <3>1
  <2> QED
    BY <2>1, <2>2
<1> QED
  BY <1>3, <1>5

-----------------------------------------------------------------------------
(* The caches.                                                             *)

CacheTypes ==
  DOMAIN cache = CacheType /\ \A c \in CacheType : cache[c] \in [Index(c) -> Ways(c)]

\* No entry is made, dropped or overwritten.
EntriesKept ==
  \A c \in CacheType : \A i \in Index(c) : SameEntries(c, cache[c][i], cache'[c][i])

LEMMA TypeParts ==
  ASSUME TypeOK
  PROVE  CacheTypes
BY DEF TypeOK, CacheTypes, Ways

\* The caches with another line.
LineSet(c, i, set) == [cache EXCEPT ![c][i] = set]

LEMMA LineChanged ==
  ASSUME CacheTypes, NEW c \in CacheType, NEW i \in Index(c), NEW set \in Ways(c),
         cache' = LineSet(c, i, set)
  PROVE  /\ CacheTypes'
         /\ cache'[c][i] = set
         /\ \A d \in CacheType : \A j \in Index(d) :
              d # c \/ j # i => cache'[d][j] = cache[d][j]
<1> DEFINE lines == [cache[c] EXCEPT ![i] = set]
<1>1. cache' = [cache EXCEPT ![c] = lines]
  BY DEF LineSet
<1>2. lines \in [Index(c) -> Ways(c)] /\ lines[i] = set
      /\ \A j \in Index(c) : j # i => lines[j] = cache[c][j]
  BY DEF CacheTypes
<1> HIDE DEF lines
<1>3. /\ DOMAIN cache' = CacheType /\ cache'[c] = lines
      /\ \A d \in CacheType : d # c => cache'[d] = cache[d]
  BY <1>1 DEF CacheTypes
<1> QED
  BY <1>2, <1>3 DEF CacheTypes

LEMMA LineAged ==
  ASSUME CacheTypes, NEW c \in CacheType, NEW i \in Index(c), NEW set \in Ways(c),
         SameEntries(c, cache[c][i], set), cache' = LineSet(c, i, set)
  PROVE  CacheTypes' /\ EntriesKept
<1>1. CacheTypes' /\ cache'[c][i] = set
      /\ \A d \in CacheType : \A j \in Index(d) :
           d # c \/ j # i => cache'[d][j] = cache[d][j]
  BY LineChanged
<1> QED
  BY <1>1 DEF EntriesKept, SameEntries

\* cache_hit and the choice of a place change ages only.
LEMMA LookupAges ==
  ASSUME CacheTypes, NEW c \in CacheType, NEW a \in Address, Lookup(c, a)
  PROVE  CacheTypes' /\ EntriesKept
<1>1. CASE UNCHANGED cache
  BY <1>1 DEF CacheTypes, EntriesKept, SameEntries
<1>2. ASSUME NEW w \in HitWays(c, a),
             cache' = [cache EXCEPT ![c][LineIndex(c, a)] = AgeUpdate(@, w)]
      PROVE  CacheTypes' /\ EntriesKept
  <2> DEFINE i == LineIndex(c, a)
             set == AgeUpdate(cache[c][i], w)
  <2>1. i \in Index(c) /\ w \in Way(c)
    BY <1>2, IndexTag DEF HitWays
  <2>2. cache[c][i] \in Ways(c)
    BY <2>1 DEF CacheTypes
  <2>3. set \in Ways(c) /\ SameEntries(c, cache[c][i], set)
    BY <2>1, <2>2, Updated
  <2>4. cache' = LineSet(c, i, set)
    BY <1>2 DEF LineSet
  <2> HIDE DEF i, set
  <2> QED
    BY <2>1, <2>3, <2>4, LineAged
<1> QED
  BY <1>1, <1>2 DEF Lookup

LEMMA FindPlaceAges ==
  ASSUME CacheTypes, NEW c \in CacheType, NEW a \in Address, NEW result,
         FindPlace(c, a, result)
  PROVE  CacheTypes' /\ EntriesKept
<1> DEFINE i == LineIndex(c, a)
           free == {w \in Way(c) : cache[c][i][w].v = 0}
           set == AgeIncrease(cache[c][i], Max(free), WAYS[c])
<1>1. CASE UNCHANGED cache
  BY <1>1 DEF CacheTypes, EntriesKept, SameEntries
<1>2. CASE cache' = LineSet(c, i, set)
  <2>1. i \in Index(c)
    BY IndexTag
  <2>2. cache[c][i] \in Ways(c)
    BY <2>1 DEF CacheTypes
  <2>3. set \in Ways(c) /\ SameEntries(c, cache[c][i], set)
    BY <2>2, Increased
  <2> HIDE DEF i, set
  <2> QED
    BY <1>2, <2>1, <2>3, LineAged
<1> QED
  BY <1>1, <1>2 DEF FindPlace, LineSet

\* With an invalid way in the line the choice of a place does not crash.
LEMMA FindPlaceReturns ==
  ASSUME NEW c \in CacheType, NEW a \in Address, NEW result, FindPlace(c, a, result)
  PROVE  /\ code' \in {"ERR_NONE", "crash"}
         /\ (\E w \in Way(c) : cache[c][LineIndex(c, a)][w].v = 0) => code' = "ERR_NONE"
BY DEF FindPlace, Return

-----------------------------------------------------------------------------
(* Types, for any order of calls.                                          *)

LEMMA L1Type == \A access \in Access : L1(access) \in CacheType
BY DEF L1, CacheType

LEMMA AddressTypes ==
  /\ ADDRS \subseteq Address
  /\ \A a \in ADDRS : WordAligned(a) \in Address
<1>1. ADDRS \subseteq Address
  BY CacheAssumption DEF Address
<1> QED
  BY <1>1, WordSameGroup

LEMMA LineTypes ==
  ASSUME mem \in [Block -> Line], NEW a \in Address, InMemory(a)
  PROVE  /\ mem[LineAt(a, LineBytes)] \in Line
         /\ \A word \in Word : [mem[LineAt(a, LineBytes)] EXCEPT ![WordIndex(a)] = word] \in Line
<1>1. LineAt(a, LineBytes) \in Block
  BY DEF InMemory
<1> QED
  BY <1>1 DEF Line

LEMMA EntryInitType ==
  ASSUME mem \in [Block -> Line], NEW c \in CacheType, NEW a \in Address, InMemory(a)
  PROVE  EntryInit(c, a) \in Entry(c)
BY LineTypes, IndexTag, Sizes DEF EntryInit, Entry, Way

LEMMA FlushedType ==
  ASSUME NEW c \in CacheType
  PROVE  /\ Flushed(c) \in [Index(c) -> Ways(c)]
         /\ \A i \in Index(c) : \A w \in Way(c) : Flushed(c)[i][w].v = 0
<1>1. ZeroLine \in Line
  BY DEF ZeroLine, Line, Word, Byte
<1>2. FlushedEntry \in Entry(c) /\ FlushedEntry.v = 0
  BY <1>1, Sizes DEF FlushedEntry, Entry, Way
<1> HIDE DEF FlushedEntry
<1> QED
  BY <1>2 DEF Flushed, Ways

LEMMA StoreWordTypes ==
  ASSUME TypeOK, NEW a \in Address, NEW word \in Word, StoreWord(a, word)
  PROVE  /\ CacheTypes' /\ EntriesKept /\ mem' \in [Block -> Line]
         /\ code' \in {"ERR_NONE", "crash", "outside"}
<1>1. CacheTypes /\ "L1_DCACHE" \in CacheType /\ "L2_CACHE" \in CacheType
  BY TypeParts DEF CacheType
<1>2. ASSUME FindPlace("L1_DCACHE", a, None), InMemory(a),
             mem' = [mem EXCEPT ![UpdatedBlock(a)] =
                       [mem[LineAt(a, LineBytes)] EXCEPT ![WordIndex(a)] = word]]
      PROVE  /\ CacheTypes' /\ EntriesKept /\ mem' \in [Block -> Line]
             /\ code' \in {"ERR_NONE", "crash"}
  <2>1. mem' \in [Block -> Line]
    BY <1>2, LineTypes DEF TypeOK
  <2> QED
    BY <1>1, <1>2, <2>1, FindPlaceAges, FindPlaceReturns
<1>3. CASE Lookup("L2_CACHE", a) /\ Return("ERR_NONE", None) /\ UNCHANGED mem
  BY <1>1, <1>3, LookupAges DEF TypeOK, Return
<1>4. CASE UNCHANGED <<cache, mem>> /\ Return("outside", None)
  BY <1>1, <1>4 DEF TypeOK, Return, CacheTypes, EntriesKept, SameEntries
<1> QED
  BY <1>2, <1>3, <1>4 DEF StoreWord

LEMMA ReadWordTypes ==
  ASSUME TypeOK, NEW access \in Access, NEW a \in Address, ReadWord(access, a)
  PROVE  CacheTypes' /\ EntriesKept /\ code' \in {"ERR_NONE", "crash"}
<1>1. CacheTypes /\ L1(access) \in CacheType
  BY TypeParts, L1Type
<1>2. ASSUME NEW word \in Garbage, FindPlace(L1(access), a, word)
      PROVE  CacheTypes' /\ EntriesKept /\ code' \in {"ERR_NONE", "crash"}
  BY <1>1, <1>2, FindPlaceAges, FindPlaceReturns
<1>3. CASE Lookup(L1(access), a) /\ Return("ERR_NONE", None)
  BY <1>1, <1>3, LookupAges DEF Return
<1> QED
  BY <1>2, <1>3 DEF ReadWord

LEMMA Refused ==
  ASSUME TypeOK, Refuse
  PROVE  CacheTypes' /\ EntriesKept /\ code' = "ERR_BAD_PARAMETER"
BY TypeParts DEF Refuse, Return, CacheTypes, EntriesKept, SameEntries

LEMMA ByteWord ==
  ASSUME NEW a \in Address, NEW byte \in Byte
  PROVE  PatchedWord(ByteOf(a), byte) \in Word
BY DEF PatchedWord, Word, Byte

\* What every command keeps.
CommandTypes ==
  /\ CacheTypes' /\ EntriesKept /\ mem' \in [Block -> Line] /\ errno' \in {0, 1}
  /\ code' \in {"ERR_NONE", "ERR_BAD_PARAMETER", "crash", "outside"}

LEMMA CommandStep ==
  ASSUME TypeOK, Next
  PROVE  CommandTypes
<1> USE AddressTypes DEF CommandTypes
<1>0. CacheTypes /\ mem \in [Block -> Line] /\ errno \in {0, 1}
  BY TypeParts DEF TypeOK
<1>1. CASE SetErrno
  BY <1>0, <1>1 DEF SetErrno, CacheTypes, EntriesKept, SameEntries, TypeOK
<1>2. ASSUME NEW access \in ACCESSES, NEW a \in ADDRS, CacheRead(access, a)
      PROVE  CommandTypes
  <2>1. access \in Access /\ a \in Address /\ UNCHANGED <<mem, errno>>
    BY <1>2, CacheAssumption DEF CacheRead
  <2>2. ReadWord(access, a) \/ Refuse
    BY <1>2 DEF CacheRead
  <2> QED
    BY <1>0, <2>1, <2>2, ReadWordTypes, Refused
<1>3. ASSUME NEW access \in ACCESSES, NEW a \in ADDRS, CacheReadByte(access, a)
      PROVE  CommandTypes
  <2>1. access \in Access /\ WordAligned(a) \in Address /\ UNCHANGED <<mem, errno>>
    BY <1>3, CacheAssumption DEF CacheReadByte
  <2>2. CASE ReadWord(access, WordAligned(a)) \/ Refuse
    BY <1>0, <2>1, <2>2, ReadWordTypes, Refused
  <2>3. CASE UNCHANGED cache /\ Return("ERR_NONE", 255)
    BY <1>0, <2>1, <2>3 DEF Return, CacheTypes, EntriesKept, SameEntries
  <2> QED
    BY <1>3, <2>2, <2>3 DEF CacheReadByte
<1>4. ASSUME NEW a \in ADDRS, NEW word \in WORDS, CacheWrite(a, word)
      PROVE  CommandTypes
  <2>1. a \in Address /\ word \in Word /\ StoreWord(a, word) /\ UNCHANGED errno
    BY <1>4, CacheAssumption DEF CacheWrite
  <2> QED
    BY <1>0, <2>1, StoreWordTypes
<1>5. ASSUME NEW a \in ADDRS, NEW byte \in BYTES, CacheWriteByte(a, byte)
      PROVE  CommandTypes
  <2>1. /\ WordAligned(a) \in Address /\ PatchedWord(ByteOf(a), byte) \in Word
        /\ UNCHANGED errno /\ "DATA" \in Access
    BY <1>5, CacheAssumption, ByteWord DEF CacheWriteByte, Access
  <2>2. CASE StoreWord(WordAligned(a), PatchedWord(ByteOf(a), byte))
    BY <1>0, <2>1, <2>2, StoreWordTypes
  <2>3. CASE (ReadWord("DATA", WordAligned(a)) \/ Refuse) /\ UNCHANGED mem
    BY <1>0, <2>1, <2>3, ReadWordTypes, Refused
  <2> QED
    BY <1>5, <2>2, <2>3 DEF CacheWriteByte
<1> QED
  BY <1>1, <1>2, <1>3, <1>4, <1>5 DEF Next

LEMMA TypesFromParts ==
  ASSUME CacheTypes', mem' \in [Block -> Line], errno' \in {0, 1},
         code' \in {"ERR_NONE", "ERR_BAD_PARAMETER", "crash", "outside"}
  PROVE  TypeOK'
BY DEF TypeOK, CacheTypes, Ways

LEMMA TypeStep ==
  ASSUME TypeOK, [ApiNext]_vars
  PROVE  TypeOK'
<1>0. CacheTypes /\ mem \in [Block -> Line] /\ errno \in {0, 1}
  BY TypeParts DEF TypeOK
<1>1. CASE Next
  BY <1>1, CommandStep, TypesFromParts DEF CommandTypes
<1>2. ASSUME NEW c \in CACHES, CacheFlush(c)
      PROVE  TypeOK'
  <2>1. c \in CacheType /\ Flushed(c) \in [Index(c) -> Ways(c)]
    BY CacheAssumption, FlushedType
  <2>2. CacheTypes'
    BY <1>0, <1>2, <2>1 DEF CacheFlush, CacheTypes
  <2> QED
    BY <1>0, <1>2, <2>2, TypesFromParts DEF CacheFlush, Return
<1>3. ASSUME NEW c \in CACHES, NEW a \in ADDRS, CacheHit(c, a)
      PROVE  TypeOK'
  <2>1. c \in CacheType /\ a \in Address
    BY CacheAssumption, AddressTypes
  <2>2. CacheTypes'
    BY <1>0, <1>3, <2>1, LookupAges DEF CacheHit
  <2> QED
    BY <1>0, <1>3, <2>2, TypesFromParts DEF CacheHit, Return
<1>4. ASSUME NEW c \in CACHES, NEW a \in ADDRS, NEW w \in 0..WAYS[c], CacheInsert(c, a, w)
      PROVE  TypeOK'
  <2>1. c \in CacheType /\ a \in Address
    BY CacheAssumption, AddressTypes
  <2>2. CASE /\ InMemory(a) /\ w < WAYS[c]
             /\ cache' = [cache EXCEPT ![c][LineIndex(c, a)][w] = EntryInit(c, a)]
    <3> DEFINE i == LineIndex(c, a)
               set == [cache[c][i] EXCEPT ![w] = EntryInit(c, a)]
    <3>1. i \in Index(c) /\ w \in Way(c) /\ EntryInit(c, a) \in Entry(c)
      BY <1>0, <2>1, <2>2, Sizes, IndexTag, EntryInitType DEF Way
    <3>2. cache[c][i] \in Ways(c)
      BY <1>0, <2>1, <3>1 DEF CacheTypes
    <3>3. set \in Ways(c)
      BY <3>1, <3>2 DEF Ways
    <3>4. cache' = LineSet(c, i, set)
      BY <2>2 DEF LineSet
    <3> HIDE DEF i, set
    <3>5. CacheTypes'
      BY <1>0, <2>1, <3>1, <3>3, <3>4, LineChanged
    <3> QED
      BY <1>0, <1>4, <3>5, TypesFromParts DEF CacheInsert, Return
  <2>3. CASE UNCHANGED cache
    BY <1>0, <1>4, <2>3, TypesFromParts DEF CacheInsert, Return, CacheTypes
  <2> QED
    BY <1>4, <2>2, <2>3 DEF CacheInsert
<1>5. CASE UNCHANGED vars
  BY <1>5 DEF vars, TypeOK
<1> QED
  BY <1>1, <1>2, <1>3, <1>4, <1>5 DEF ApiNext

LEMMA TypeInit ==
  ASSUME Init
  PROVE  TypeOK
BY FlushedType, CacheAssumption DEF Init, TypeOK, Ways

\* In any order of calls every field keeps its type: no age outgrows its bits.
THEOREM TypeCorrect == ApiSpec => []TypeOK
<1>1. Init => TypeOK
  BY TypeInit
<1>2. TypeOK /\ [ApiNext]_vars => TypeOK'
  BY TypeStep
<1> QED
  BY <1>1, <1>2, PTL DEF ApiSpec

-----------------------------------------------------------------------------
(* The commands never crash, because they never fill a line.               *)

NoneValid ==
  \A c \in CacheType : \A i \in Index(c) : \A w \in Way(c) : cache[c][i][w].v = 0

Inv == TypeOK /\ NoneValid /\ NeverCrashes

LEMMA FreeWay ==
  ASSUME NoneValid, NEW c \in CacheType, NEW a \in Address
  PROVE  \E w \in Way(c) : cache[c][LineIndex(c, a)][w].v = 0
<1>1. 0 \in Way(c) /\ LineIndex(c, a) \in Index(c)
  BY Sizes, IndexTag DEF Way
<1> QED
  BY <1>1 DEF NoneValid

LEMMA CommandReturns ==
  ASSUME Inv, Next
  PROVE  NeverCrashes'
<1> USE AddressTypes DEF NeverCrashes, Return
<1>0. NoneValid
  BY DEF Inv
<1>1. ASSUME NEW c \in CacheType, NEW a \in Address, NEW result, FindPlace(c, a, result)
      PROVE  NeverCrashes'
  BY <1>0, <1>1, FreeWay, FindPlaceReturns
<1>2. ASSUME NEW access \in Access, NEW a \in Address, ReadWord(access, a)
      PROVE  NeverCrashes'
  BY <1>1, <1>2, L1Type DEF ReadWord
<1>3. ASSUME NEW a \in Address, NEW word, StoreWord(a, word)
      PROVE  NeverCrashes'
  BY <1>1, <1>3 DEF StoreWord, CacheType
<1>4. CASE SetErrno
  BY <1>4 DEF SetErrno, Inv
<1>5. ASSUME NEW access \in ACCESSES, NEW a \in ADDRS, CacheRead(access, a)
      PROVE  NeverCrashes'
  BY <1>2, <1>5, CacheAssumption DEF CacheRead, Refuse
<1>6. ASSUME NEW access \in ACCESSES, NEW a \in ADDRS, CacheReadByte(access, a)
      PROVE  NeverCrashes'
  BY <1>2, <1>6, CacheAssumption DEF CacheReadByte, Refuse
<1>7. ASSUME NEW a \in ADDRS, NEW word \in WORDS, CacheWrite(a, word)
      PROVE  NeverCrashes'
  BY <1>3, <1>7 DEF CacheWrite
<1>8. ASSUME NEW a \in ADDRS, NEW byte \in BYTES, CacheWriteByte(a, byte)
      PROVE  NeverCrashes'
  BY <1>2, <1>3, <1>8 DEF CacheWriteByte, Refuse, Access
<1> QED
  BY <1>4, <1>5, <1>6, <1>7, <1>8 DEF Next

LEMMA InvStep ==
  ASSUME Inv, [Next]_vars
  PROVE  Inv'
<1>1. CASE Next
  <2>1. EntriesKept /\ TypeOK'
    BY <1>1, CommandStep, TypesFromParts DEF Inv, CommandTypes
  <2>2. NoneValid'
    BY <2>1 DEF Inv, NoneValid, EntriesKept, SameEntries
  <2> QED
    BY <1>1, <2>1, <2>2, CommandReturns DEF Inv
<1>2. CASE UNCHANGED vars
  BY <1>2 DEF vars, Inv, TypeOK, NoneValid, NeverCrashes
<1> QED
  BY <1>1, <1>2

(***************************************************************************)
(* However the commands follow each other, and whenever a library call     *)
(* fails between them, none of them follows the NULL pointer that a full   *)
(* L1 line leads to: without an insertion no line ever fills.              *)
(***************************************************************************)
THEOREM CommandsNeverCrash == Spec => []NeverCrashes
<1>1. Init => Inv
  BY TypeInit, FlushedType DEF Init, Inv, NoneValid, NeverCrashes
<1>2. Inv /\ [Next]_vars => Inv'
  BY InvStep
<1>3. Inv => NeverCrashes
  BY DEF Inv
<1> QED
  BY <1>1, <1>2, <1>3, PTL DEF Spec

(***************************************************************************)
(* What cache_flush left of an entry, whatever its age.                    *)
(***************************************************************************)
AsFlushed(entry) == entry.v = 0 /\ entry.tag = 0 /\ entry.line = ZeroLine

(***************************************************************************)
(* The caches cache nothing: cache_read and cache_write change no entry of *)
(* the flushed caches but in its age.  While errno is 0 they skip their    *)
(* insertions (cache_mng.c:380), and then they return before them (447).   *)
(***************************************************************************)
CachesCold ==
  \A c \in CacheType : \A i \in Index(c) : \A w \in Way(c) : AsFlushed(cache[c][i][w])

(***************************************************************************)
(* Whatever the commands are, how often they repeat and whenever errno is  *)
(* set, no word of memory is ever held by a cache.                         *)
(***************************************************************************)
THEOREM CommandsFillNothing == Spec => []CachesCold
<1> DEFINE Cold == TypeOK /\ CachesCold
<1>1. Init => Cold
  BY TypeInit DEF Init, CachesCold, AsFlushed, Flushed, FlushedEntry
<1>2. Cold /\ [Next]_vars => Cold'
  <2>1. SUFFICES ASSUME Cold, [Next]_vars PROVE Cold'
    OBVIOUS
  <2>2. CASE Next
    <3>1. EntriesKept /\ TypeOK'
      BY <2>1, <2>2, CommandStep, TypesFromParts DEF CommandTypes
    <3>2. \A c \in CacheType : \A i \in Index(c) : \A w \in Way(c) :
            AsFlushed(cache'[c][i][w])
      BY <2>1, <3>1 DEF CachesCold, AsFlushed, EntriesKept, SameEntries
    <3>3. CachesCold'
      BY <3>2 DEF CachesCold, AsFlushed, ZeroLine
    <3> QED
      BY <3>1, <3>3
  <2>3. CASE UNCHANGED vars
    BY <2>1, <2>3 DEF vars, TypeOK, CachesCold
  <2> QED
    BY <2>1, <2>2, <2>3
<1>3. Cold => CachesCold
  OBVIOUS
<1> QED
  BY <1>1, <1>2, <1>3, PTL DEF Spec

-----------------------------------------------------------------------------
(* What a write may change in memory.                                      *)

Confined ==
  \A b \in Block : mem'[b] # mem[b] =>
    /\ call'.op \in {"write", "write_byte"} /\ errno = 0
    /\ (b * LineBytes) % LINES["L1_DCACHE"] = 0
    /\ call'.addr - b * LineBytes \in 0..LINES["L1_DCACHE"]-1

LEMMA GroupStart ==
  ASSUME NEW a \in Address
  PROVE  /\ (UpdatedBlock(a) * LineBytes) % LINES["L1_DCACHE"] = 0
         /\ a - UpdatedBlock(a) * LineBytes \in 0..LINES["L1_DCACHE"]-1
<1>1. a \in Nat /\ GroupBytes \in Nat \ {0} /\ GroupBytes % LineBytes = 0
  BY Sizes, OwnMultiple DEF Address
<1>2. UpdatedBlock(a) = LineAt(a, GroupBytes)
  BY DEF UpdatedBlock, GroupBytes
<1>3. /\ (LineAt(a, GroupBytes) * LineBytes) % GroupBytes = 0
      /\ a - LineAt(a, GroupBytes) * LineBytes \in 0..GroupBytes-1
  BY <1>1, LineAtStart
<1> QED
  BY <1>2, <1>3 DEF GroupBytes

LEMMA StoreConfined ==
  ASSUME TypeOK, NEW a \in Address, NEW word, StoreWord(a, word)
  PROVE  \A b \in Block : mem'[b] # mem[b] => errno = 0 /\ b = UpdatedBlock(a)
BY DEF StoreWord, TypeOK

LEMMA ConfinedStep ==
  ASSUME TypeOK, [ApiNext]_vars
  PROVE  Confined
<1> USE AddressTypes
<1>1. CASE UNCHANGED mem
  BY <1>1 DEF Confined
<1>2. ASSUME NEW a \in ADDRS, NEW word \in WORDS, CacheWrite(a, word)
      PROVE  Confined
  <2>1. call'.op = "write" /\ call'.addr = a /\ StoreWord(a, word)
    BY <1>2 DEF CacheWrite, Called
  <2> QED
    BY <2>1, StoreConfined, GroupStart DEF Confined
<1>3. ASSUME NEW a \in ADDRS, NEW byte \in BYTES, CacheWriteByte(a, byte)
      PROVE  Confined
  <2>1. call'.op = "write_byte" /\ call'.addr = a
    BY <1>3 DEF CacheWriteByte, Called
  <2>2. CASE StoreWord(WordAligned(a), PatchedWord(ByteOf(a), byte))
    <3>1. \A b \in Block : mem'[b] # mem[b] => errno = 0 /\ b = UpdatedBlock(WordAligned(a))
      BY <2>2, StoreConfined
    <3>2. UpdatedBlock(WordAligned(a)) = UpdatedBlock(a)
      BY WordSameGroup
    <3> QED
      BY <2>1, <3>1, <3>2, GroupStart DEF Confined
  <2> QED
    BY <1>1, <1>3, <2>2 DEF CacheWriteByte
<1> QED
  BY <1>1, <1>2, <1>3 DEF ApiNext, Next, vars, SetErrno, CacheRead, CacheReadByte,
                          CacheFlush, CacheHit, CacheInsert

-----------------------------------------------------------------------------
(* What a write stores, where it ends up at its own address.               *)

\* An address is its line, its word in the line and its byte in the word.
LEMMA WordOf ==
  ASSUME NEW a \in Address
  PROVE  /\ a \div LineBytes \in Nat
         /\ InMemory(a) <=> a \div LineBytes \in Block
         /\ (a % LineBytes) \div 4 \in 0..WORDS_PER_LINE-1
         /\ LineAt(a, LineBytes) = a \div LineBytes
         /\ WordIndex(a) = (a % LineBytes) \div 4
         /\ LineAt(WordAligned(a), LineBytes) = a \div LineBytes
         /\ WordIndex(WordAligned(a)) = (a % LineBytes) \div 4
<1> DEFINE L == LineBytes
           W == WORDS_PER_LINE
           q == a \div L
           s == a % L
           t == s \div 4
           u == s % 4
           wa == WordAligned(a)
<1>1. /\ a \in Nat /\ L \in Nat \ {0} /\ W \in Nat \ {0} /\ L = 4 * W
  BY Sizes, CacheAssumption DEF Address, LineBytes
<1>2. Splits(a, L, q, s) /\ q \in Nat /\ s \in 0..L-1 /\ a = L * q + s
  <2>1. Splits(a, L, q, s)
    BY <1>1, DivMod
  <2> QED
    BY <2>1 DEF Splits
<1>3. Splits(s, 4, t, u) /\ t \in Nat /\ u \in 0..3 /\ s = 4 * t + u
  <2> HIDE DEF s, L
  <2>1. s \in Nat
    BY <1>1, <1>2
  <2>2. Splits(s, 4, t, u)
    BY <2>1, DivMod
  <2> QED
    BY <2>2 DEF Splits
<1> HIDE DEF q, s, t, u
<1>5. t \in 0..W-1
  <2>1. s < 4 * W
    BY <1>1, <1>2
  <2>2. t < W
    BY <1>1, <1>3, <2>1, SplitBound
  <2> QED
    BY <1>1, <1>3, <2>2
<1>6. W * q \in Nat /\ L * q = 4 * (W * q) /\ L * q \in Nat
  <2>1. \A m, n \in Nat : m * n \in Nat
    OBVIOUS
  <2>2. L * q = 4 * (W * q)
    BY <1>1, <1>2
  <2> QED
    BY <1>1, <1>2, <2>1, <2>2
<1> DEFINE n == W * q + t
<1>7. n \in Nat /\ a = 4 * n + u /\ Splits(n, W, q, t)
  BY <1>1, <1>2, <1>3, <1>5, <1>6 DEF Splits
<1> HIDE DEF L, W, n
<1>8. a \div 4 = n /\ a % 4 = u
  <2>1. Splits(a, 4, n, u)
    BY <1>3, <1>7 DEF Splits
  <2> QED
    BY <1>1, <2>1, Parts
<1>9. n % W = t
  BY <1>1, <1>7, Parts
<1>10. wa = 4 * n /\ wa \in Nat /\ wa = L * q + 4 * t
  <2>1. wa = a - u
    BY <1>8 DEF WordAligned, ByteOf
  <2> HIDE DEF wa
  <2> QED
    BY <1>1, <1>2, <1>3, <1>7, <2>1, <1>6
<1> HIDE DEF wa
<1>11. wa \div 4 = n
  <2>1. Splits(wa, 4, n, 0)
    BY <1>7, <1>10 DEF Splits
  <2> QED
    BY <1>10, <2>1, Parts
<1>12. wa \div L = q /\ wa % L = 4 * t
  <2>1. 4 * t \in 0..L-1
    BY <1>1, <1>2, <1>3
  <2>2. Splits(wa, L, q, 4 * t)
    BY <1>2, <1>10, <2>1 DEF Splits
  <2> QED
    BY <1>1, <1>10, <2>2, Parts
<1>13. ASSUME NEW x \in Nat, x \div L = q PROVE LineAt(x, L) = q
  <2>1. L % LineBytes = 0
    BY OwnMultiple DEF L
  <2>2. LineAt(x, L) \in Nat /\ LineAt(x, L) * LineBytes = x - (x % L) /\ x % L \in 0..L-1
    BY <1>1, <2>1, LineAtStart, DivMod DEF Splits
  <2>3. Splits(x, L, LineAt(x, L), x % L)
    <3> DEFINE y == LineAt(x, L)
               z == x % L
    <3>1. y \in Nat /\ y * L = x - z /\ z \in 0..L-1
      BY <2>2 DEF L
    <3> HIDE DEF y, z
    <3>2. L * y = y * L /\ L * y \in Nat
      BY <1>1, <3>1
    <3>3. x = L * y + z
      BY <1>1, <3>1, <3>2
    <3> QED
      BY <3>1, <3>3 DEF Splits, y, z
  <2>4. x \div L = LineAt(x, L)
    BY <1>1, <2>3, Parts
  <2> QED
    BY <1>13, <2>4
<1>14. LineAt(a, L) = q /\ LineAt(wa, L) = q
  BY <1>1, <1>10, <1>12, <1>13 DEF q
<1>15. WordIndex(a) = t /\ WordIndex(wa) = t
  BY <1>8, <1>9, <1>11 DEF WordIndex, W
<1> QED
  BY <1>2, <1>5, <1>14, <1>15 DEF InMemory, q, s, t, wa, L, W

\* update_memory hits the line of an address that starts its group.
LEMMA GroupLine ==
  ASSUME NEW a \in Address, a % LINES["L1_DCACHE"] < LineBytes
  PROVE  UpdatedBlock(a) = a \div LineBytes
<1> DEFINE b == UpdatedBlock(a)
           r == a % GroupBytes
<1>1. a \in Nat /\ GroupBytes \in Nat \ {0} /\ GroupBytes % LineBytes = 0 /\ LineBytes \in Nat \ {0}
  BY Sizes, OwnMultiple DEF Address
<1>2. b = LineAt(a, GroupBytes)
  BY DEF UpdatedBlock, GroupBytes
<1>3. b \in Nat /\ b * LineBytes = a - r
  BY <1>1, <1>2, LineAtStart
<1>4. r \in 0..LineBytes-1
  <2>1. Splits(a, GroupBytes, a \div GroupBytes, r)
    BY <1>1, DivMod
  <2>2. r < LineBytes
    BY DEF GroupBytes
  <2> HIDE DEF r
  <2>3. r \in Int /\ 0 <= r
    BY ONLY <2>1 DEF Splits
  <2> QED
    BY <1>1, <2>2, <2>3
<1> HIDE DEF b, r
<1>5. Splits(a, LineBytes, b, r)
  <2>1. LineBytes * b = b * LineBytes /\ b * LineBytes \in Int
    BY <1>1, <1>3
  <2>2. a = LineBytes * b + r
    BY <1>1, <1>3, <1>4, <2>1
  <2> QED
    BY <1>3, <1>4, <2>2 DEF Splits
<1>6. a \div LineBytes = b
  BY <1>1, <1>5, Parts
<1> QED
  BY <1>6 DEF b

\* A call that is a write, and what it stores.
LEMMA WriteCall ==
  ASSUME TypeOK, [ApiNext]_vars, call' # call, call'.op = "write"
  PROVE  call'.addr \in Address /\ call'.arg \in Word /\ StoreWord(call'.addr, call'.arg)
BY AddressTypes, CacheAssumption
   DEF ApiNext, Next, vars, SetErrno, CacheRead, CacheReadByte, CacheWrite, CacheWriteByte,
       CacheFlush, CacheHit, CacheInsert, Called

LEMMA WriteByteCall ==
  ASSUME TypeOK, [ApiNext]_vars, call' # call, call'.op = "write_byte", errno = 0
  PROVE  /\ call'.addr \in Address /\ call'.arg \in Byte
         /\ StoreWord(WordAligned(call'.addr), PatchedWord(ByteOf(call'.addr), call'.arg))
BY AddressTypes, CacheAssumption
   DEF ApiNext, Next, vars, SetErrno, CacheRead, CacheReadByte, CacheWrite, CacheWriteByte,
       CacheFlush, CacheHit, CacheInsert, Called

WordStep ==
  call' # call /\ call'.op = "write" /\ errno = 0 /\ code' # "outside"
    /\ call'.addr % LINES["L1_DCACHE"] < LineBytes =>
  mem' = [mem EXCEPT ![call'.addr \div LineBytes]
                       [(call'.addr % LineBytes) \div 4] = call'.arg]

ByteStep ==
  call' # call /\ call'.op = "write_byte" /\ errno = 0 /\ code' # "outside"
    /\ call'.addr % LINES["L1_DCACHE"] < LineBytes =>
  LET b == call'.addr \div LineBytes
      k == (call'.addr % LineBytes) \div 4
  IN /\ mem'[b][k][call'.addr % 4] = call'.arg
     /\ mem' = [mem EXCEPT ![b][k] = mem'[b][k]]

LEMMA StoredStep ==
  ASSUME TypeOK, [ApiNext]_vars
  PROVE  WordStep /\ ByteStep
<1>0. mem \in [Block -> Line]
  BY DEF TypeOK
<1> DEFINE a == call'.addr
           b == a \div LineBytes
           k == (a % LineBytes) \div 4
<1>1. ASSUME NEW w, mem' = [mem EXCEPT ![b] = [mem[b] EXCEPT ![k] = w]]
      PROVE  mem' = [mem EXCEPT ![b][k] = w]
  BY <1>1
<1>2. ASSUME call' # call, a % LINES["L1_DCACHE"] < LineBytes, errno = 0, call'.op = "write",
             code' # "outside"
      PROVE  mem' = [mem EXCEPT ![b][k] = call'.arg]
  <2>1. a \in Address /\ StoreWord(a, call'.arg)
    BY <1>2, WriteCall
  <2>2. UpdatedBlock(a) = b /\ LineAt(a, LineBytes) = b /\ WordIndex(a) = k
    BY <1>2, <2>1, GroupLine, WordOf
  <2>3. mem' = [mem EXCEPT ![UpdatedBlock(a)] =
                  [mem[LineAt(a, LineBytes)] EXCEPT ![WordIndex(a)] = call'.arg]]
    BY <1>2, <2>1 DEF StoreWord, Return
  <2> HIDE DEF a, b, k
  <2> QED
    BY <1>1, <2>2, <2>3
<1>3. ASSUME call' # call, a % LINES["L1_DCACHE"] < LineBytes, errno = 0,
             call'.op = "write_byte", code' # "outside"
      PROVE  /\ mem'[b][k][a % 4] = call'.arg
             /\ mem' = [mem EXCEPT ![b][k] = mem'[b][k]]
  <2> DEFINE w == PatchedWord(ByteOf(a), call'.arg)
             wa == WordAligned(a)
  <2>1. a \in Address /\ StoreWord(wa, w)
    BY <1>3, WriteByteCall
  <2>2. /\ k \in 0..WORDS_PER_LINE-1
        /\ UpdatedBlock(wa) = b /\ LineAt(wa, LineBytes) = b /\ WordIndex(wa) = k
    BY <1>3, <2>1, GroupLine, WordOf, WordSameGroup
  <2>3. mem' = [mem EXCEPT ![UpdatedBlock(wa)] =
                  [mem[LineAt(wa, LineBytes)] EXCEPT ![WordIndex(wa)] = w]]
        /\ LineAt(wa, LineBytes) \in Block
    BY <1>3, <2>1 DEF StoreWord, Return, InMemory
  <2>4. a % 4 \in 0..3 /\ w[a % 4] = call'.arg
    BY <2>1 DEF PatchedWord, ByteOf, Address
  <2> HIDE DEF a, b, k, w, wa
  <2>5. mem' = [mem EXCEPT ![b] = [mem[b] EXCEPT ![k] = w]] /\ b \in Block
    BY <2>2, <2>3
  <2>6. mem'[b][k] = w
    BY <1>0, <2>2, <2>5 DEF Line
  <2> QED
    BY <1>1, <2>4, <2>5, <2>6
<1> QED
  BY <1>2, <1>3 DEF WordStep, ByteStep

(***************************************************************************)
(* In any order of calls, a word that is written to the first line of its  *)
(* group is stored at its address and changes nothing else.                *)
(***************************************************************************)
THEOREM WordsStored == ApiSpec => WordStored
<1>1. TypeOK /\ [ApiNext]_vars => [WordStep]_vars
  BY StoredStep
<1> QED
  BY <1>1, TypeCorrect, PTL DEF ApiSpec, WordStored, WordStep

(***************************************************************************)
(* A byte that is written there is found at its address, for all four      *)
(* positions in a word, and no other word of memory changes.               *)
(***************************************************************************)
THEOREM BytesStored == ApiSpec => ByteStored
<1>1. TypeOK /\ [ApiNext]_vars => [ByteStep]_vars
  BY StoredStep
<1> QED
  BY <1>1, TypeCorrect, PTL DEF ApiSpec, ByteStored, ByteStep

-----------------------------------------------------------------------------
(* Which ages a call may lower.                                            *)

YoungerAt(c, i, w) ==
  \A d \in CacheType : \A j \in Index(d) : \A x \in Way(d) :
    Younger(d, j, x) => d = c /\ j = i /\ x = w

OneDown ==
  call'.op # "flush" =>
    \A c \in CacheType : \A i \in Index(c) : \A w \in Way(c) :
      Younger(c, i, w) =>
        /\ c = call'.cache /\ i = LineIndex(c, call'.addr)
        /\ call'.op = "hit" => w = out'.hit_way
        /\ call'.op = "insert" => w = call'.arg
        /\ \A x \in Way(c) : Younger(c, i, x) => x = w

LEMMA OneDownAt ==
  ASSUME NEW c, NEW w, call'.cache = c, YoungerAt(c, LineIndex(c, call'.addr), w),
         call'.op = "hit" => w = out'.hit_way, call'.op = "insert" => w = call'.arg
  PROVE  OneDown
BY DEF OneDown, YoungerAt

LEMMA NoneYounger ==
  ASSUME CacheTypes, UNCHANGED cache, NEW c, NEW i, NEW w
  PROVE  YoungerAt(c, i, w)
<1>1. ASSUME NEW d \in CacheType, NEW j \in Index(d), NEW x \in Way(d)
      PROVE  ~Younger(d, j, x)
  <2>1. cache[d][j] \in Ways(d)
    BY DEF CacheTypes
  <2>2. cache[d][j][x].age \in Way(d)
    BY <2>1 DEF Ways, Entry
  <2>3. cache[d][j][x].age \in Int
    BY <2>2, Sizes DEF Way
  <2> QED
    BY <2>3 DEF Younger
<1> QED
  BY <1>1 DEF YoungerAt

LEMMA LineYounger ==
  ASSUME CacheTypes, NEW c \in CacheType, NEW i \in Index(c), NEW set \in Ways(c), NEW w,
         \A x \in Way(c) : x # w => set[x].age >= cache[c][i][x].age,
         cache' = LineSet(c, i, set)
  PROVE  YoungerAt(c, i, w)
<1>1. cache'[c][i] = set /\ \A d \in CacheType : \A j \in Index(d) :
        d # c \/ j # i => cache'[d][j] = cache[d][j]
  BY LineChanged
<1>2. ASSUME NEW d \in CacheType, NEW j \in Index(d), NEW x \in Way(d)
      PROVE  cache[d][j][x].age \in Int
  <2>1. cache[d][j] \in Ways(d)
    BY DEF CacheTypes
  <2>2. cache[d][j][x].age \in Way(d)
    BY <2>1 DEF Ways, Entry
  <2> QED
    BY <2>2, Sizes DEF Way
<1>3. ASSUME NEW d \in CacheType, NEW j \in Index(d), NEW x \in Way(d), Younger(d, j, x)
      PROVE  d = c /\ j = i /\ x = w
  <2>1. CASE d # c \/ j # i
    BY <1>1, <1>2, <1>3, <2>1 DEF Younger
  <2>2. CASE d = c /\ j = i /\ x # w
    <3>1. set[x].age \in Int
      <4>1. set[x].age \in Way(c)
        BY <2>2 DEF Ways, Entry
      <4> QED
        BY <4>1, Sizes DEF Way
    <3>2. set[x].age < cache[c][i][x].age /\ set[x].age >= cache[c][i][x].age
      BY <1>1, <1>3, <2>2 DEF Younger
    <3>3. cache[c][i][x].age \in Int
      BY <1>2, <2>2
    <3> QED
      BY <3>1, <3>2, <3>3
  <2> QED
    BY <2>1, <2>2
<1> QED
  BY <1>3 DEF YoungerAt

\* A lookup stops at one way.
LEMMA OneHit ==
  ASSUME NEW c \in CacheType, NEW a, NEW w \in HitWays(c, a)
  PROVE  w \in Way(c) /\ w = (CHOOSE x \in HitWays(c, a) : TRUE)
<1> DEFINE x == CHOOSE x \in HitWays(c, a) : TRUE
<1>1. x \in HitWays(c, a)
  OBVIOUS
<1> HIDE DEF x
<1>2. w \in Nat /\ x \in Nat
  BY <1>1, Sizes DEF HitWays, Way
<1>3. ~(w < x)
  <2>1. SUFFICES ASSUME w < x PROVE FALSE
    OBVIOUS
  <2>2. w \in 0..x-1
    BY <1>2, <2>1
  <2> QED
    BY <1>1, <2>2 DEF HitWays
<1>4. ~(x < w)
  <2>1. SUFFICES ASSUME x < w PROVE FALSE
    OBVIOUS
  <2>2. x \in 0..w-1
    BY <1>2, <2>1
  <2> QED
    BY <1>1, <2>2 DEF HitWays
<1>5. w = x
  BY <1>2, <1>3, <1>4
<1> QED
  BY <1>5 DEF x, HitWays

LEMMA LookupYounger ==
  ASSUME CacheTypes, NEW c \in CacheType, NEW a \in Address, Lookup(c, a)
  PROVE  YoungerAt(c, LineIndex(c, a), Found(c, a).hit_way)
<1> DEFINE i == LineIndex(c, a)
<1>1. CASE UNCHANGED cache
  BY <1>1, NoneYounger
<1>2. ASSUME NEW w \in HitWays(c, a), cache' = [cache EXCEPT ![c][i] = AgeUpdate(@, w)]
      PROVE  YoungerAt(c, i, Found(c, a).hit_way)
  <2> DEFINE set == AgeUpdate(cache[c][i], w)
             x == CHOOSE x \in HitWays(c, a) : TRUE
  <2>1. i \in Index(c) /\ w \in Way(c) /\ x = w
    BY IndexTag, OneHit
  <2>2. cache[c][i] \in Ways(c)
    BY <2>1 DEF CacheTypes
  <2>3. set \in Ways(c) /\ \A y \in Way(c) : y # w => set[y].age >= cache[c][i][y].age
    BY <2>1, <2>2, Updated
  <2>4. cache' = LineSet(c, i, set)
    BY <1>2 DEF LineSet
  <2>5. Found(c, a).hit_way = x
    BY DEF Found
  <2> HIDE DEF i, set, x
  <2>6. YoungerAt(c, i, w)
    BY <2>1, <2>3, <2>4, LineYounger
  <2> QED
    BY <2>1, <2>5, <2>6
<1> QED
  BY <1>1, <1>2 DEF Lookup

LEMMA FindPlaceYounger ==
  ASSUME CacheTypes, NEW c \in CacheType, NEW a \in Address, NEW result,
         FindPlace(c, a, result)
  PROVE  \E w : YoungerAt(c, LineIndex(c, a), w)
<1> DEFINE i == LineIndex(c, a)
           free == {w \in Way(c) : cache[c][i][w].v = 0}
           place == Max(free)
           set == AgeIncrease(cache[c][i], place, WAYS[c])
<1>1. CASE UNCHANGED cache
  BY <1>1, NoneYounger
<1>2. CASE cache' = LineSet(c, i, set)
  <2>1. i \in Index(c)
    BY IndexTag
  <2>2. cache[c][i] \in Ways(c)
    BY <2>1 DEF CacheTypes
  <2> HIDE DEF i, place
  <2>3. set \in Ways(c) /\ \A y \in Way(c) : y # place => set[y].age >= cache[c][i][y].age
    BY <2>2, Increased
  <2> HIDE DEF set
  <2>4. YoungerAt(c, i, place)
    BY <1>2, <2>1, <2>3, LineYounger
  <2> QED
    BY <2>4 DEF i
<1> QED
  BY <1>1, <1>2 DEF FindPlace, LineSet

LEMMA ReadYounger ==
  ASSUME CacheTypes, NEW access \in Access, NEW a \in Address, ReadWord(access, a)
  PROVE  \E w : YoungerAt(L1(access), LineIndex(L1(access), a), w)
BY L1Type, LookupYounger, FindPlaceYounger DEF ReadWord

LEMMA StoreYounger ==
  ASSUME CacheTypes, NEW a \in Address, NEW word, StoreWord(a, word)
  PROVE  \E w : YoungerAt(Written, LineIndex(Written, a), w)
<1>1. "L1_DCACHE" \in CacheType /\ "L2_CACHE" \in CacheType
  BY DEF CacheType
<1>2. CASE errno = 0
  BY <1>1, <1>2, FindPlaceYounger, NoneYounger DEF StoreWord, Written
<1>3. CASE errno # 0
  BY <1>1, <1>3, LookupYounger DEF StoreWord, Written
<1> QED
  BY <1>2, <1>3

LEMMA InsertYounger ==
  ASSUME TypeOK, NEW c \in CacheType, NEW a \in Address, NEW w \in 0..WAYS[c],
         CacheInsert(c, a, w)
  PROVE  YoungerAt(c, LineIndex(c, a), w)
<1> DEFINE i == LineIndex(c, a)
           set == [cache[c][i] EXCEPT ![w] = EntryInit(c, a)]
<1>0. CacheTypes /\ mem \in [Block -> Line]
  BY TypeParts DEF TypeOK
<1>1. CASE UNCHANGED cache
  BY <1>0, <1>1, NoneYounger
<1>2. CASE InMemory(a) /\ w < WAYS[c] /\ cache' = LineSet(c, i, set)
  <2>1. i \in Index(c) /\ w \in Way(c) /\ EntryInit(c, a) \in Entry(c)
    BY <1>0, <1>2, Sizes, IndexTag, EntryInitType DEF Way
  <2>2. cache[c][i] \in Ways(c)
    BY <1>0, <2>1 DEF CacheTypes
  <2>3. set \in Ways(c) /\ \A y \in Way(c) : y # w => set[y] = cache[c][i][y]
    BY <2>1, <2>2 DEF Ways
  <2>4. \A y \in Way(c) : y # w => set[y].age >= cache[c][i][y].age
    <3>1. \A y \in Way(c) : cache[c][i][y].age \in Way(c)
      BY <2>2 DEF Ways, Entry
    <3>2. \A n \in Way(c) : n >= n
      BY Sizes DEF Way
    <3> HIDE DEF set, i
    <3> QED
      BY <2>3, <3>1, <3>2
  <2> HIDE DEF i, set
  <2>5. YoungerAt(c, i, w)
    BY <1>0, <1>2, <2>1, <2>3, <2>4, LineYounger
  <2> QED
    BY <2>5 DEF i
<1> QED
  BY <1>1, <1>2 DEF CacheInsert, LineSet

\* The block whose tag and line these are.
BlockAt(c, i, tag) == LINES[c] * tag + i

\* The address and its line and tag name one block, for a byte and its word.
LEMMA BlockOfAddress ==
  ASSUME NEW a \in Address, NEW c \in CacheType
  PROVE  /\ InMemory(a) => BlockOf(a) \in Block
         /\ BlockOf(WordAligned(a)) = BlockOf(a)
         /\ LineIndex(c, WordAligned(a)) = LineIndex(c, a)
         /\ BlockAt(c, LineIndex(c, a), Tag(c, a)) = BlockOf(a)
         /\ EntryInit(c, a).line = mem[BlockOf(a)]
         /\ EntryInit(c, a).tag = Tag(c, a) /\ EntryInit(c, a).v = 1
<1>1. /\ BlockOf(a) \in Nat /\ LineAt(a, LineBytes) = BlockOf(a)
      /\ InMemory(a) => BlockOf(a) \in Block
      /\ LineAt(WordAligned(a), LineBytes) = BlockOf(a)
  BY WordOf DEF BlockOf
<1>2. BlockOf(WordAligned(a)) = BlockOf(a)
  <2>1. WordAligned(a) \in Address
    BY WordSameGroup
  <2>2. LineAt(WordAligned(a), LineBytes) = WordAligned(a) \div LineBytes
    BY <2>1, WordOf
  <2> QED
    BY <1>1, <2>2 DEF BlockOf
<1>3. BlockAt(c, LineIndex(c, a), Tag(c, a)) = BlockOf(a)
  <2>1. BlockOf(a) \in Nat
    BY <1>1
  <2>2. Splits(BlockOf(a), LINES[c], Tag(c, a), LineIndex(c, a))
    BY <2>1, Sizes, DivMod DEF Tag, LineIndex
  <2> QED
    BY <2>2 DEF Splits, BlockAt
<1> QED
  BY <1>1, <1>2, <1>3 DEF LineIndex, EntryInit

LEMMA OneDownStep ==
  ASSUME TypeOK, [ApiNext]_vars
  PROVE  OneDown
<1>0. CacheTypes
  BY TypeParts
<1>1. CASE UNCHANGED cache
  BY <1>0, <1>1, NoneYounger DEF OneDown, YoungerAt
<1>2. ASSUME NEW access \in ACCESSES, NEW a \in ADDRS, CacheRead(access, a)
      PROVE  OneDown
  <2>1. /\ access \in Access /\ a \in Address
        /\ call'.op = "read" /\ call'.cache = L1(access) /\ call'.addr = a
    BY <1>2, CacheAssumption, AddressTypes DEF CacheRead, Called
  <2>2. CASE ReadWord(access, a)
    BY <1>0, <2>1, <2>2, ReadYounger, OneDownAt
  <2> QED
    BY <1>1, <1>2, <2>2 DEF CacheRead, Refuse
<1>3. ASSUME NEW access \in ACCESSES, NEW a \in ADDRS, CacheReadByte(access, a)
      PROVE  OneDown
  <2>1. /\ access \in Access /\ a \in Address /\ WordAligned(a) \in Address
        /\ call'.op = "read_byte" /\ call'.cache = L1(access) /\ call'.addr = a
    BY <1>3, CacheAssumption, AddressTypes DEF CacheReadByte, Called
  <2>2. CASE ReadWord(access, WordAligned(a))
    <3>1. LineIndex(L1(access), WordAligned(a)) = LineIndex(L1(access), a)
      BY <2>1, L1Type, BlockOfAddress
    <3> QED
      BY <1>0, <2>1, <2>2, <3>1, ReadYounger, OneDownAt
  <2> QED
    BY <1>1, <1>3, <2>2 DEF CacheReadByte, Refuse
<1>4. ASSUME NEW a \in ADDRS, NEW word \in WORDS, CacheWrite(a, word)
      PROVE  OneDown
  <2>1. /\ a \in Address /\ StoreWord(a, word)
        /\ call'.op = "write" /\ call'.cache = Written /\ call'.addr = a
    BY <1>4, AddressTypes DEF CacheWrite, Called
  <2> QED
    BY <1>0, <2>1, StoreYounger, OneDownAt
<1>5. ASSUME NEW a \in ADDRS, NEW byte \in BYTES, CacheWriteByte(a, byte)
      PROVE  OneDown
  <2> DEFINE wa == WordAligned(a)
  <2>1. /\ a \in Address /\ wa \in Address /\ "L1_DCACHE" \in CacheType
        /\ call'.op = "write_byte" /\ call'.cache = "L1_DCACHE" /\ call'.addr = a
    BY <1>5, AddressTypes DEF CacheWriteByte, Called, CacheType
  <2>2. LineIndex("L1_DCACHE", wa) = LineIndex("L1_DCACHE", a)
    BY <2>1, BlockOfAddress
  <2>3. CASE errno = 0 /\ StoreWord(wa, PatchedWord(ByteOf(a), byte))
    <3>1. Written = "L1_DCACHE"
      BY <2>3 DEF Written
    <3> QED
      BY <1>0, <2>1, <2>2, <2>3, <3>1, StoreYounger, OneDownAt
  <2>4. CASE ReadWord("DATA", wa)
    <3>1. L1("DATA") = "L1_DCACHE" /\ "DATA" \in Access
      BY DEF L1, Access
    <3> QED
      BY <1>0, <2>1, <2>2, <2>4, <3>1, ReadYounger, OneDownAt
  <2> QED
    BY <1>1, <1>5, <2>3, <2>4 DEF CacheWriteByte, Refuse
<1>6. ASSUME NEW c \in CACHES, CacheFlush(c)
      PROVE  OneDown
  BY <1>6 DEF CacheFlush, Called, OneDown
<1>7. ASSUME NEW c \in CACHES, NEW a \in ADDRS, CacheHit(c, a)
      PROVE  OneDown
  <2>1. c \in CacheType /\ a \in Address
    BY CacheAssumption, AddressTypes
  <2>2. /\ Lookup(c, a) /\ out' = Found(c, a)
        /\ call'.op = "hit" /\ call'.cache = c /\ call'.addr = a
    BY <1>7 DEF CacheHit, Called, Return
  <2> QED
    BY <1>0, <2>1, <2>2, LookupYounger, OneDownAt
<1>8. ASSUME NEW c \in CACHES, NEW a \in ADDRS, NEW w \in 0..WAYS[c], CacheInsert(c, a, w)
      PROVE  OneDown
  <2>1. c \in CacheType /\ a \in Address
    BY CacheAssumption, AddressTypes
  <2>2. call'.op = "insert" /\ call'.cache = c /\ call'.addr = a /\ call'.arg = w
    BY <1>8 DEF CacheInsert, Called
  <2> QED
    BY <1>8, <2>1, <2>2, InsertYounger, OneDownAt
<1>9. CASE SetErrno \/ UNCHANGED vars
  BY <1>1, <1>9 DEF SetErrno, vars
<1> QED
  BY <1>2, <1>3, <1>4, <1>5, <1>6, <1>7, <1>8, <1>9 DEF ApiNext, Next

(***************************************************************************)
(* In any order of calls, whatever the ways hold and however old they are, *)
(* a call makes no way younger but the one it hits, stores or chooses, in  *)
(* the line of its own address: no age wraps around.                       *)
(***************************************************************************)
THEOREM OneAgesDown == ApiSpec => OneYounger
<1>1. TypeOK /\ [ApiNext]_vars => [OneDown]_vars
  BY OneDownStep
<1> QED
  BY <1>1, TypeCorrect, PTL DEF ApiSpec, OneYounger, OneDown

-----------------------------------------------------------------------------
(* A caller that fills the ways of a line in order (CacheFill).            *)

\* Nothing is ever stored in a cache the caller does not use.
Unused ==
  \A c \in CacheType \ CACHES : \A i \in Index(c) : \A w \in Way(c) : cache[c][i][w].v = 0

\* The valid ways of a line come first.
NoGaps ==
  \A c \in CacheType : \A i \in Index(c) : \A w, x \in Way(c) :
    cache[c][i][w].v = 1 /\ x < w => cache[c][i][x].v = 1

\* A valid way holds its block of memory, as it is or as it was.
Copies ==
  \A c \in CACHES : \A i \in Index(c) : \A w \in Way(c) :
    cache[c][i][w].v = 1 =>
      LET b == BlockAt(c, i, cache[c][i][w].tag)
      IN b \in Block /\ (cache[c][i][w].line = mem[b] \/ <<c, b>> \in changed)

\* After a flush, as long as no other call is made.
FlushedLast ==
  call.op = "flush" =>
    call.cache \in CacheType /\ \A i \in Index(call.cache) : \A w \in Way(call.cache) : cache[call.cache][i][w].v = 0

Stored == Unused /\ NoGaps /\ Copies /\ FlushedLast
FillInv == TypeOK /\ Stored /\ HitCoherent /\ PresentFound

\* Under NoGaps a lookup that stops nowhere has missed no way.
LEMMA NothingMissed ==
  ASSUME CacheTypes, NoGaps, NEW c \in CacheType, NEW a \in Address, HitWays(c, a) = {}
  PROVE  \A w \in Way(c) : ~Holds(c, a, w)
<1> DEFINE i == LineIndex(c, a)
           T == {w \in Way(c) : Holds(c, a, w)}
<1>1. SUFFICES ASSUME T # {} PROVE FALSE
  OBVIOUS
<1>2. i \in Index(c) /\ Way(c) \subseteq Nat
  BY IndexTag, Sizes DEF Way
<1>3. PICK w \in T : \A y \in T : w <= y
  <2>1. T \in SUBSET Nat
    BY <1>2
  <2> HIDE DEF T
  <2> QED
    BY <1>1, <2>1, Smallest
<1>4. w \in Way(c) /\ cache[c][i][w].v = 1 /\ cache[c][i][w].tag = Tag(c, a)
  BY <1>3 DEF Holds
<1>5. ASSUME NEW x \in 0..w-1
      PROVE  cache[c][i][x].v = 1 /\ cache[c][i][x].tag # Tag(c, a)
  <2>1. x \in Way(c) /\ x < w /\ ~(w <= x)
    BY <1>2, <1>4, Sizes DEF Way
  <2>2. cache[c][i][x].v = 1
    BY <1>2, <1>4, <2>1 DEF NoGaps
  <2>3. x \notin T
    BY <1>3, <2>1
  <2> QED
    BY <2>1, <2>2, <2>3 DEF Holds
<1>6. w \in HitWays(c, a)
  BY <1>4, <1>5 DEF HitWays
<1> QED
  BY <1>6

LEMMA FoundType ==
  ASSUME CacheTypes, NEW c \in CacheType, NEW a \in Address, NEW w \in HitWays(c, a)
  PROVE  Found(c, a) # None /\ Found(c, a).p_line = cache[c][LineIndex(c, a)][w].line
         /\ Found(c, a).hit_way = w
<1> DEFINE i == LineIndex(c, a)
           x == CHOOSE x \in HitWays(c, a) : TRUE
<1>1. x = w /\ w \in Way(c) /\ i \in Index(c)
  BY OneHit, IndexTag
<1>2. Found(c, a) = [hit_way |-> x, hit_index |-> i, p_line |-> cache[c][i][x].line]
  BY DEF Found
<1> HIDE DEF x, i
<1>3. w \in Nat /\ i \in Nat /\ cache[c][i][w].line \in Line
  <2>1. w \in Nat /\ i \in Nat
    BY <1>1, Sizes DEF Way, Index
  <2>2. cache[c][i] \in Ways(c)
    BY <1>1 DEF CacheTypes
  <2>3. cache[c][i][w] \in Entry(c)
    BY <1>1, <2>2 DEF Ways
  <2> QED
    BY <2>1, <2>3 DEF Entry
<1>4. Found(c, a) \in [hit_way : Nat, hit_index : Nat, p_line : Line]
  BY <1>1, <1>2, <1>3
<1> QED
  BY <1>1, <1>2, <1>4, FillAssumption DEF i

-----------------------------------------------------------------------------
(* What every call keeps.                                                  *)

\* A call that is no flush forgets nothing, and every changed block is noted.
LEMMA Remembered ==
  ASSUME Remember, NEW c \in CACHES, NEW b \in Block
  PROVE  /\ <<c, b>> \in changed /\ ~(call'.op = "flush" /\ call'.cache = c)
              => <<c, b>> \in changed'
         /\ mem'[b] # mem[b] => <<c, b>> \in changed'
BY DEF Remember

\* Ages may change, a last call that is a flush is the one before.
LEMMA KeptStored ==
  ASSUME TypeOK, TypeOK', Stored, EntriesKept, Remember,
         call'.op = "flush" => call' = call
  PROVE  Stored'
<1>1. Unused' /\ NoGaps'
  BY DEF Stored, Unused, NoGaps, EntriesKept, SameEntries
<1>2. FlushedLast'
  BY DEF Stored, FlushedLast, EntriesKept, SameEntries
<1>3. ASSUME NEW c \in CACHES, NEW i \in Index(c), NEW w \in Way(c), cache'[c][i][w].v = 1
      PROVE  LET b == BlockAt(c, i, cache'[c][i][w].tag)
             IN b \in Block /\ (cache'[c][i][w].line = mem'[b] \/ <<c, b>> \in changed')
  <2> DEFINE e == cache[c][i][w]
             b == BlockAt(c, i, e.tag)
  <2>1. c \in CacheType
    BY CacheAssumption
  <2>2. e.v = 1 /\ cache'[c][i][w].tag = e.tag /\ cache'[c][i][w].line = e.line
    BY <1>3, <2>1 DEF EntriesKept, SameEntries
  <2>3. b \in Block /\ (e.line = mem[b] \/ <<c, b>> \in changed)
    BY <2>2 DEF Stored, Copies
  <2>4. ~(call'.op = "flush" /\ call'.cache = c)
    BY <2>1, <2>2 DEF Stored, FlushedLast
  <2> HIDE DEF b
  <2>5. mem'[b] = mem[b] \/ <<c, b>> \in changed'
    BY <2>3, Remembered
  <2>6. <<c, b>> \in changed => <<c, b>> \in changed'
    BY <2>3, <2>4, Remembered
  <2>7. e.line = mem'[b] \/ <<c, b>> \in changed'
    BY <2>3, <2>5, <2>6
  <2> QED
    BY <2>2, <2>3, <2>7 DEF b
<1> QED
  BY <1>1, <1>2, <1>3 DEF Stored, Copies

\* A flush empties one cache and forgets what had changed under it.
LEMMA FlushStored ==
  ASSUME TypeOK, Stored, Remember, NEW c \in CACHES, CacheFlush(c)
  PROVE  Stored'
<1>1. /\ cache' = [cache EXCEPT ![c] = Flushed(c)] /\ UNCHANGED mem
      /\ call'.op = "flush" /\ call'.cache = c
  BY DEF CacheFlush, Called
<1>2. /\ c \in CacheType
      /\ \A i \in Index(c) : \A w \in Way(c) : Flushed(c)[i][w].v = 0
  BY CacheAssumption, FlushedType
<1>3. cache'[c] = Flushed(c) /\ \A d \in CacheType : d # c => cache'[d] = cache[d]
  BY <1>1, <1>2, TypeParts DEF CacheTypes
<1>4. \A i \in Index(c) : \A w \in Way(c) : cache'[c][i][w].v = 0
  BY <1>2, <1>3
<1>5. Unused' /\ NoGaps'
  BY <1>3, <1>4 DEF Stored, Unused, NoGaps
<1>6. FlushedLast'
  BY <1>1, <1>2, <1>4 DEF FlushedLast
<1>7. ASSUME NEW d \in CACHES, NEW i \in Index(d), NEW w \in Way(d), cache'[d][i][w].v = 1
      PROVE  LET b == BlockAt(d, i, cache'[d][i][w].tag)
             IN b \in Block /\ (cache'[d][i][w].line = mem'[b] \/ <<d, b>> \in changed')
  <2> DEFINE e == cache[d][i][w]
             b == BlockAt(d, i, e.tag)
  <2>1. d \in CacheType /\ d # c
    BY <1>4, <1>7, CacheAssumption
  <2>2. cache'[d][i][w] = e
    BY <1>3, <2>1
  <2>3. b \in Block /\ (e.line = mem[b] \/ <<d, b>> \in changed)
    BY <1>7, <2>2 DEF Stored, Copies
  <2> HIDE DEF b
  <2>4. <<d, b>> \in changed => <<d, b>> \in changed'
    BY <1>1, <2>1, <2>3, Remembered
  <2> QED
    BY <1>1, <2>2, <2>3, <2>4 DEF b
<1> QED
  BY <1>5, <1>6, <1>7 DEF Stored, Copies

\* An insertion at the first free way stores the block as it is.
LEMMA InsertStored ==
  ASSUME TypeOK, TypeOK', Stored, Remember, NEW c \in CACHES, NEW a \in ADDRS,
         NEW w \in 0..WAYS[c], FirstFree(c, a, w), CacheInsert(c, a, w)
  PROVE  Stored'
<1> DEFINE i == LineIndex(c, a)
           set == [cache[c][i] EXCEPT ![w] = EntryInit(c, a)]
<1>1. c \in CacheType /\ a \in Address /\ CacheTypes /\ mem \in [Block -> Line]
  BY CacheAssumption, AddressTypes, TypeParts DEF TypeOK
<1>2. call'.op = "insert" /\ UNCHANGED mem
  BY DEF CacheInsert, Called
<1>3. CASE UNCHANGED cache
  <2>1. EntriesKept
    BY <1>3 DEF EntriesKept, SameEntries
  <2> QED
    BY <1>2, <2>1, KeptStored
<1>4. CASE InMemory(a) /\ w < WAYS[c] /\ cache' = LineSet(c, i, set)
  <2>1. i \in Index(c) /\ w \in Way(c) /\ EntryInit(c, a) \in Entry(c)
    BY <1>1, <1>4, Sizes, IndexTag, EntryInitType DEF Way
  <2>2. cache[c][i] \in Ways(c)
    BY <1>1, <2>1 DEF CacheTypes
  <2>3. set \in Ways(c) /\ set[w] = EntryInit(c, a)
        /\ \A x \in Way(c) : x # w => set[x] = cache[c][i][x]
    BY <2>1, <2>2 DEF Ways
  <2>4. /\ EntryInit(c, a).v = 1 /\ EntryInit(c, a).tag = Tag(c, a)
        /\ EntryInit(c, a).line = mem[BlockOf(a)]
        /\ BlockAt(c, i, Tag(c, a)) = BlockOf(a) /\ BlockOf(a) \in Block
    BY <1>1, <1>4, BlockOfAddress
  <2>5. cache[c][i][w].v = 0 /\ \A x \in 0..w-1 : cache[c][i][x].v = 1
    BY <2>1 DEF FirstFree
  <2> HIDE DEF i, set
  <2>6. cache'[c][i] = set /\ \A d \in CacheType : \A j \in Index(d) :
          d # c \/ j # i => cache'[d][j] = cache[d][j]
    BY <1>1, <1>4, <2>1, <2>3, LineChanged
  <2>7. Unused'
    BY <2>6 DEF Stored, Unused
  <2>8. NoGaps'
    <3>1. ASSUME NEW d \in CacheType, NEW j \in Index(d), NEW y \in Way(d), NEW x \in Way(d),
                 cache'[d][j][y].v = 1, x < y
          PROVE  cache'[d][j][x].v = 1
      <4>1. CASE d # c \/ j # i
        BY <2>6, <3>1, <4>1 DEF Stored, NoGaps
      <4>2. CASE d = c /\ j = i
        <5>1. cache'[d][j] = set
          BY <2>6, <4>2
        <5>2. CASE x = w
          BY <2>3, <2>4, <5>1, <5>2
        <5>3. CASE x # w /\ y = w
          <6>1. x \in 0..w-1
            BY <3>1, <4>2, <5>3, Sizes DEF Way
          <6> QED
            BY <2>3, <2>5, <4>2, <5>1, <5>3, <6>1
        <5>4. CASE x # w /\ y # w
          <6>1. set[x] = cache[d][j][x] /\ set[y] = cache[d][j][y]
            BY <2>3, <4>2, <5>4
          <6> QED
            BY <3>1, <5>1, <6>1 DEF Stored, NoGaps
        <5> QED
          BY <5>2, <5>3, <5>4
      <4> QED
        BY <4>1, <4>2
    <3> QED
      BY <3>1 DEF NoGaps
  <2>9. ASSUME NEW d \in CACHES, NEW j \in Index(d), NEW y \in Way(d), cache'[d][j][y].v = 1
        PROVE  LET b == BlockAt(d, j, cache'[d][j][y].tag)
               IN b \in Block /\ (cache'[d][j][y].line = mem'[b] \/ <<d, b>> \in changed')
    <3>1. d \in CacheType
      BY CacheAssumption
    <3>2. CASE d = c /\ j = i /\ y = w
      BY <1>2, <2>3, <2>4, <2>6, <3>2
    <3>3. CASE ~(d = c /\ j = i /\ y = w)
      <4> DEFINE e == cache[d][j][y]
                 b == BlockAt(d, j, e.tag)
      <4>1. cache'[d][j][y] = e
        BY <2>3, <2>6, <3>1, <3>3
      <4>2. b \in Block /\ (e.line = mem[b] \/ <<d, b>> \in changed)
        BY <2>9, <4>1 DEF Stored, Copies
      <4> HIDE DEF b
      <4>3. <<d, b>> \in changed => <<d, b>> \in changed'
        BY <1>2, <4>2, Remembered
      <4> QED
        BY <1>2, <4>1, <4>2, <4>3 DEF b
    <3> QED
      BY <3>2, <3>3
  <2> QED
    BY <1>2, <2>7, <2>8, <2>9 DEF Stored, Copies, FlushedLast
<1> QED
  BY <1>3, <1>4 DEF CacheInsert, LineSet

\* What a hit answers.
LEMMA HitAnswers ==
  ASSUME TypeOK, Stored, Remember, NEW c \in CACHES, NEW a \in ADDRS, CacheHit(c, a)
  PROVE  HitCoherent' /\ PresentFound'
<1>1. c \in CacheType /\ a \in Address /\ CacheTypes /\ NoGaps
  BY CacheAssumption, AddressTypes, TypeParts DEF Stored
<1>2. /\ call' = Called("hit", c, a, None) /\ out' = Found(c, a) /\ UNCHANGED mem
      /\ call'.op = "hit" /\ call'.cache = c /\ call'.addr = a
  BY DEF CacheHit, Return, Called
<1>3. CASE HitWays(c, a) = {}
  <2>1. out' = None
    BY <1>2, <1>3 DEF Found
  <2>2. \A w \in Way(c) : ~Holds(c, a, w)
    BY <1>1, <1>3, NothingMissed
  <2>3. cache' = cache
    BY <1>3 DEF CacheHit, Lookup
  <2> QED
    BY <1>2, <2>1, <2>2, <2>3 DEF HitCoherent, PresentFound, Holds
<1>4. ASSUME NEW w \in HitWays(c, a)
      PROVE  HitCoherent' /\ PresentFound'
  <2> DEFINE i == LineIndex(c, a)
             b == BlockOf(a)
  <2>1. out' # None /\ out'.p_line = cache[c][i][w].line
    BY <1>1, <1>2, FoundType
  <2>2. i \in Index(c) /\ w \in Way(c) /\ cache[c][i][w].v = 1 /\ cache[c][i][w].tag = Tag(c, a)
    BY <1>1, IndexTag DEF HitWays
  <2>3. BlockAt(c, i, cache[c][i][w].tag) = b
    BY <1>1, <2>2, BlockOfAddress
  <2>4. b \in Block /\ (cache[c][i][w].line = mem[b] \/ <<c, b>> \in changed)
    BY <2>2, <2>3 DEF Stored, Copies
  <2> HIDE DEF i, b
  <2>5. <<c, b>> \in changed => <<c, b>> \in changed'
    BY <1>2, <2>4, Remembered
  <2>6. out'.p_line = mem'[b] \/ <<c, b>> \in changed'
    BY <1>2, <2>1, <2>4, <2>5
  <2> QED
    BY <1>2, <2>1, <2>6 DEF HitCoherent, PresentFound, b
<1> QED
  BY <1>3, <1>4

\* A command is no call that is remembered: it is no flush and no lookup.
LEMMA CommandCall ==
  ASSUME Next, ~SetErrno
  PROVE  call'.op \in {"read", "read_byte", "write", "write_byte"}
BY DEF Next, CacheRead, CacheReadByte, CacheWrite, CacheWriteByte, Called

LEMMA FillInit0 ==
  ASSUME FillInit
  PROVE  FillInv
<1>1. /\ TypeOK /\ call.op = "none" /\ cache = [c \in CacheType |-> Flushed(c)]
  BY TypeInit DEF FillInit, Init, Called
<1>2. \A c \in CacheType : \A i \in Index(c) : \A w \in Way(c) : cache[c][i][w].v = 0
  BY <1>1, FlushedType
<1>3. Unused /\ NoGaps
  BY <1>2 DEF Unused, NoGaps
<1>4. Copies
  <2>1. \A c \in CACHES : \A i \in Index(c) : \A w \in Way(c) : cache[c][i][w].v # 1
    BY <1>2, CacheAssumption
  <2> QED
    BY <2>1 DEF Copies
<1> QED
  BY <1>1, <1>3, <1>4 DEF FillInv, Stored, FlushedLast, HitCoherent, PresentFound

\* A library call that fails between a lookup and the next call.
LEMMA ErrnoStep ==
  ASSUME FillInv, TypeOK', SetErrno, Remember
  PROVE  FillInv'
<1>1. UNCHANGED <<cache, mem, call, code, out>>
  BY DEF SetErrno
<1>2. EntriesKept
  BY <1>1 DEF EntriesKept, SameEntries
<1>3. Stored'
  BY <1>1, <1>2, KeptStored DEF FillInv
<1>4. PresentFound'
  BY <1>1 DEF FillInv, PresentFound, Holds
<1>5. HitCoherent'
  <2>1. SUFFICES ASSUME call.op = "hit", out # None
                 PROVE  \/ out.p_line = mem[BlockOf(call.addr)]
                        \/ <<call.cache, BlockOf(call.addr)>> \in changed'
    BY <1>1 DEF HitCoherent
  <2>2. call'.op # "flush"
    BY <1>1, <2>1
  <2>3. changed \subseteq changed'
    BY <2>2 DEF Remember
  <2> QED
    BY <2>1, <2>3 DEF FillInv, HitCoherent
<1> QED
  BY <1>3, <1>4, <1>5 DEF FillInv

LEMMA FillInvStep ==
  ASSUME FillInv, [FillNext]_fillVars
  PROVE  FillInv'
<1>0. TypeOK /\ Stored
  BY DEF FillInv
<1>1. CASE UNCHANGED fillVars
  BY <1>1 DEF fillVars, FillInv, TypeOK, Stored, Unused, NoGaps, Copies, FlushedLast,
              HitCoherent, PresentFound, Holds
<1>2. CASE FillNext
  <2>1. FillStep /\ Remember
    BY <1>2 DEF FillNext
  <2>2. TypeOK'
    BY <1>0, <2>1, TypeStep DEF FillStep, ApiNext
  <2>3. CASE SetErrno
    BY <2>1, <2>2, <2>3, ErrnoStep
  <2>4. CASE Next /\ ~SetErrno
    <3>1. EntriesKept
      BY <1>0, <2>4, CommandStep DEF CommandTypes
    <3>2. call'.op # "flush" /\ call'.op # "hit"
      BY <2>4, CommandCall
    <3>3. Stored'
      BY <1>0, <2>1, <2>2, <3>1, <3>2, KeptStored
    <3> QED
      BY <2>2, <3>2, <3>3 DEF FillInv, HitCoherent, PresentFound
  <2>5. ASSUME NEW c \in CACHES, CacheFlush(c)
        PROVE  FillInv'
    <3>1. call'.op # "hit"
      BY <2>5 DEF CacheFlush, Called
    <3>2. Stored'
      BY <1>0, <2>1, <2>5, FlushStored
    <3> QED
      BY <2>2, <3>1, <3>2 DEF FillInv, HitCoherent, PresentFound
  <2>6. ASSUME NEW c \in CACHES, NEW a \in ADDRS, CacheHit(c, a)
        PROVE  FillInv'
    <3>1. EntriesKept
      BY <1>0, <2>6, TypeParts, LookupAges, CacheAssumption, AddressTypes DEF CacheHit
    <3>2. call'.op # "flush"
      BY <2>6 DEF CacheHit, Called
    <3>3. Stored'
      BY <1>0, <2>1, <2>2, <3>1, <3>2, KeptStored
    <3>4. HitCoherent' /\ PresentFound'
      BY <1>0, <2>1, <2>6, HitAnswers
    <3> QED
      BY <2>2, <3>3, <3>4 DEF FillInv
  <2>7. ASSUME NEW c \in CACHES, NEW a \in ADDRS, NEW w \in 0..WAYS[c],
               FirstFree(c, a, w), CacheInsert(c, a, w)
        PROVE  FillInv'
    <3>1. call'.op # "hit"
      BY <2>7 DEF CacheInsert, Called
    <3>2. Stored'
      BY <1>0, <2>1, <2>2, <2>7, InsertStored
    <3> QED
      BY <2>2, <3>1, <3>2 DEF FillInv, HitCoherent, PresentFound
  <2> QED
    BY <2>1, <2>3, <2>4, <2>5, <2>6, <2>7 DEF FillStep
<1> QED
  BY <1>1, <1>2

LEMMA FillInvariant == FillSpec => []FillInv
<1>1. FillInit => FillInv
  BY FillInit0
<1>2. FillInv /\ [FillNext]_fillVars => FillInv'
  BY FillInvStep
<1> QED
  BY <1>1, <1>2, PTL DEF FillSpec

(***************************************************************************)
(* In any order of calls of a caller that fills a line's ways in order, a  *)
(* line that cache_hit finds is the line of memory, or one that a write    *)
(* changed in memory since: the write is what leaves a copy stale, and no  *)
(* other call is.                                                          *)
(***************************************************************************)
THEOREM HitsCoherent == FillSpec => []HitCoherent
<1>1. FillInv => HitCoherent
  BY DEF FillInv
<1> QED
  BY <1>1, FillInvariant, PTL

(***************************************************************************)
(* Under such a caller no stored block is missed: cache_hit gives up at    *)
(* the first invalid way, and behind it there is none that is valid.       *)
(***************************************************************************)
THEOREM PresentAreFound == FillSpec => []PresentFound
<1>1. FillInv => PresentFound
  BY DEF FillInv
<1> QED
  BY <1>1, FillInvariant, PTL
=============================================================================
