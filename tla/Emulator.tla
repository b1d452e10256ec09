------------------------------ MODULE Emulator ------------------------------
(***************************************************************************)
(* test-cache.c: each command of a program has its virtual address         *)
(* translated by a page walk through the memory as it then is, and is then *)
(* a call of cache_mng.c at the physical address.  The page tables lie in  *)
(* the memory that the writes of earlier commands have changed.            *)
(*                                                                         *)
(* An image may be smaller than the physical address space, so that a PTE  *)
(* may name a frame outside of the memory and any word a table outside of  *)
(* it.  A walk that leaves the memory ends the model (wild); so does, in   *)
(* Cache, a store at a frame outside of it.                                *)
(***************************************************************************)
EXTENDS Cache, PageWalk

CONSTANT COMMANDS   \* the commands a program may contain

Command == [order : {"READ", "WRITE"}, type : Access, data_size : {1, 4},
            write_data : Word, vaddr : VirtAddr]

ASSUME EmulatorAssumption ==
  /\ COMMANDS \subseteq Command
  /\ \A command \in COMMANDS :
       command.order = "WRITE" =>
         command.type = "DATA" /\ command.write_data \in WORDS /\ command.write_data[0] \in BYTES
  /\ ADDRS = 0..PAGE_SIZE*PHY_PAGES-1 /\ ACCESSES = Access
  /\ PAGE_SIZE % LINES["L1_DCACHE"] = 0

VARIABLES
  start,   \* the memory that mem_init left, for the properties
  wild     \* a walk has left the memory

emuVars == <<cache, mem, errno, call, code, out, start, wild>>

\* The number whose four bytes, least significant first, are the word.
Value(word) == word[0] + 256 * (word[1] + 256 * (word[2] + 256 * word[3]))

Words(m) ==
  [i \in 0..WORDS_PER_LINE*BLOCKS-1 |-> Value(m[i \div WORDS_PER_LINE][i % WORDS_PER_LINE])]

Inside(m, command) == WalkInside(Words(m), command.vaddr)
WalkBlocks(m, command) ==
  {i \div WORDS_PER_LINE : i \in WalkWords(Words(m), command.vaddr)}
Translate(m, command) == Physical(PageWalk(Words(m), command.vaddr))

EmuInit == Init /\ start = mem /\ wild = FALSE

\* The switch of execute_command.
Dispatch(command, a) ==
  \/ command.order = "READ" /\ command.data_size = 4 /\ CacheRead(command.type, a)
  \/ command.order = "READ" /\ command.data_size = 1 /\ CacheReadByte(command.type, a)
  \/ command.order = "WRITE" /\ command.data_size = 4 /\ CacheWrite(a, command.write_data)
  \/ command.order = "WRITE" /\ command.data_size = 1 /\ CacheWriteByte(a, command.write_data[0])

Execute(command) ==
  /\ ~wild
  /\ Inside(mem, command)
  /\ Dispatch(command, Translate(mem, command))
  /\ UNCHANGED <<start, wild>>

WildWalk(command) ==
  /\ ~wild /\ Running
  /\ ~Inside(mem, command)
  /\ wild' = TRUE
  /\ UNCHANGED <<cache, mem, errno, call, code, out, start>>

EmuNext ==
  \/ SetErrno /\ ~wild /\ UNCHANGED <<start, wild>>
  \/ \E command \in COMMANDS : Execute(command) \/ WildWalk(command)

EmuSpec == EmuInit /\ [][EmuNext]_emuVars

-----------------------------------------------------------------------------
PageOf(a) == a \div PAGE_SIZE
PageOfBlock(b) == (b * LineBytes) \div PAGE_SIZE

(***************************************************************************)
(* A command moves the translation of some command only by a write to a    *)
(* page that holds a table entry this translation goes through: a write    *)
(* that strays from its line (update_memory) still stays in its page.      *)
(***************************************************************************)
WalkMovedByTableWrite ==
  [][\A command \in COMMANDS :
       Inside(mem, command)
       /\ (~Inside(mem', command) \/ Translate(mem', command) # Translate(mem, command)) =>
         /\ call'.op \in {"write", "write_byte"} /\ errno = 0
         /\ \E b \in WalkBlocks(mem, command) :
              PageOfBlock(b) = PageOf(call'.addr)]_emuVars

\* In memory m no write command reaches a page with an entry that is walked.
Isolated(m) ==
  /\ \A command \in COMMANDS : Inside(m, command)
  /\ \A command, other \in COMMANDS :
       other.order = "WRITE" =>
         \A b \in WalkBlocks(m, command) : PageOfBlock(b) # PageOf(Translate(m, other))

(***************************************************************************)
(* If at the start no page that is written holds a table that is walked,   *)
(* then no program, however long, changes what any address translates to.  *)
(***************************************************************************)
TranslationsStable ==
  Isolated(start) =>
    /\ ~wild
    /\ \A command \in COMMANDS : /\ Inside(mem, command)
                                 /\ Translate(mem, command) = Translate(start, command)

(***************************************************************************)
(* If moreover every write starts out inside the image, no program stores  *)
(* outside of it: no earlier store, wherever update_memory has put it, has *)
(* turned a page table to a frame that the image lacks.                    *)
(***************************************************************************)
StoresInside ==
  Isolated(start)
  /\ (\A command \in COMMANDS :
        command.order = "WRITE" => InMemory(Translate(start, command))) =>
    code # "outside"
=============================================================================
