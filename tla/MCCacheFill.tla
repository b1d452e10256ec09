------------------------------ MODULE MCCacheFill ------------------------------
(***************************************************************************)
(* An instance of CacheFill for TLC: lines of two words, so 8 bytes; 16    *)
(* lines in an L1 cache, so that update_memory aligns to pairs of lines as *)
(* the source, with 64 lines of 16 bytes, aligns to groups of four.        *)
(***************************************************************************)
EXTENDS CacheFill

MCLines == [c \in CacheType |-> IF c = "L2_CACHE" THEN 32 ELSE 16]
MCWays == [c \in CacheType |-> 3]

\* Every word of memory is different from the others.
MCMemory == [b \in Block |-> [k \in 0..WORDS_PER_LINE-1 |->
                [j \in 0..3 |-> IF j = 0 THEN 2 * b + k + 1 ELSE 0]]]

Repeat(x) == [j \in 0..3 |-> x]
MCMemories == {MCMemory}
MCWords == {Repeat(170)}
MCGarbage == {Repeat(204)}
=============================================================================
