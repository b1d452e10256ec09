----------------------------- MODULE MCEmulator -----------------------------
(***************************************************************************)
(* Instances of Emulator for TLC.  A page is 16 bytes, of which a table    *)
(* uses the first half, as in the source; a page is two lines of two words *)
(* and one group of update_memory.  Pages 0 to 3 hold the PGD, a PUD, a    *)
(* PMD and a PTE table, the others hold data.  The memory is the first 8   *)
(* of 16 frames.                                                           *)
(***************************************************************************)
EXTENDS Emulator

MCLines == [c \in CacheType |-> IF c = "L2_CACHE" THEN 32 ELSE 16]
MCWays == [c \in CacheType |-> 2]
MCAddrs == 0..PAGE_SIZE*PHY_PAGES-1

Number(n) == [j \in 0..3 |-> IF j = 0 THEN n ELSE 0]

\* The first two words of each page; the words after them differ from all others.
Tables(first, second) ==
  [b \in Block |-> [k \in 0..WORDS_PER_LINE-1 |->
     IF b % 2 = 1 THEN Number(2 * b + k + 101)
     ELSE Number(IF k = 0 THEN first[b \div 2] ELSE second[b \div 2])]]

Chain == [p \in 0..7 |-> IF p < 4 THEN 16 * (p + 1) ELSE 200 + p]

\* Pages 0 and 1 are in frames 4 and 5 / page 1 is the PTE table itself / page 1
\* is in frame 9, outside / an empty PGD entry, which makes page 0 the PGD.
MCMemories == {
  Tables(Chain, [p \in 0..7 |-> IF p = 3 THEN 80 ELSE 0]),
  Tables(Chain, [p \in 0..7 |-> IF p = 3 THEN 48 ELSE 0]),
  Tables(Chain, [p \in 0..7 |-> IF p = 3 THEN 144 ELSE 0]),
  Tables([Chain EXCEPT ![0] = 0], [p \in 0..7 |-> IF p = 3 THEN 80 ELSE 0])}

At(n) == InitVirtAddr64(n)
Read(type, size, n) ==
  [order |-> "READ", type |-> type, data_size |-> size, write_data |-> Number(0), vaddr |-> At(n)]
Write(size, data, n) ==
  [order |-> "WRITE", type |-> "DATA", data_size |-> size, write_data |-> data, vaddr |-> At(n)]

MCWords == {Number(80), Number(6)}
MCBytes == {80, 6}
MCCommands == {
  Read("DATA", 4, 0), Read("INSTRUCTION", 4, 16), Read("DATA", 1, 0), Read("DATA", 4, 13),
  Write(4, Number(80), 4), Write(4, Number(6), 16), Write(4, Number(80), 24),
  Write(1, Number(6), 17)}
MCGarbage == {Number(204)}
=============================================================================
