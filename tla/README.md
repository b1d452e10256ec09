# A verification of the cache emulator

`src/` emulates, in C, the memory of a small machine: page tables and the page walk over
them, two kinds of translation lookaside buffer (TLB), and two levels of cache, driven by a
list of read and write commands. This directory holds TLA+ modules of that code, the TLC
configurations that check them, and theorems about them that TLAPS checks. `PROJECT.json`
lists, for tools, the runs, the lines each definition stands for, the hazards, the findings
and the theorems; this file is for readers.

- [Inventory](#inventory): what the system consists of, and what is hard about it
- [Modules](#modules): what is modelled, and how it corresponds to the code
- [Runs](#runs): what each check asks, on which instance, and why that is enough
- [Proofs](#proofs): what is proved for every value of the constants, and how
- [Where the code and its documentation disagree](#where-the-code-and-its-documentation-disagree)
- [What is not modelled](#what-is-not-modelled) and what is [left to do](#left-to-do)

To repeat a check: `tlc -config MCTlb.cfg MCTlb`; a proof: `tlapm TlbProofs.tla`.

## Inventory

The program is sequential: nothing here runs concurrently and nothing is persisted. What
makes it hard are long sequences of legal calls, structures that must agree with each other
(a line and the list that names it, a level and the level behind it, memory and its cached
copies), arithmetic on indices and tags of different widths, and steps of which only some
succeed.

| Component | State | Operations | Correct when |
|---|---|---|---|
| Two-level TLB (`tlb_hrchy_mng.c`) | `l1_itlb`, `l1_dtlb`, `l2_tlb`: arrays of entries, direct mapped | `tlb_flush`, `tlb_entry_init`, `tlb_insert`, `tlb_hit`, `tlb_search` | answers are the page walk's; the L2 includes both first levels |
| Fully associative TLB (`tlb_mng.c`) | an array of entries, and a list of its line numbers ordered by use | `tlb_flush`, `tlb_entry_init`, `tlb_insert`, `tlb_hit`, `tlb_search` | answers are the page walk's; the list names every line once; the victim is the least recently used page |
| Doubly linked list (`list.c`) | `front`, `back`, nodes on the heap | `init_list`, `clear_list`, `push_back`, `push_front`, `pop_back`, `pop_front`, `move_back` | the nodes form a list both ways; each function is a sequence operation; no leak |
| Caches (`cache_mng.c`, `lru.h`) | `l1_icache`, `l1_dcache`, `l2_cache`: lines of ways; the memory; `errno` | `cache_flush`, `cache_entry_init`, `cache_insert`, `cache_hit`, `cache_read(_byte)`, `cache_write(_byte)`, the two age macros | reads return what memory holds; writes reach memory and nothing else; ages order the ways |
| Page walk (`page_walk.c`) | none | `page_walk` | follows four levels of page tables |
| Addresses (`addr_mng.c`) | none | conversions between numbers and fields | no bit is lost |
| Commands (`commands.c`) | `program_t`: a listing, its length and its allocated size | `program_init`, `_add_command`, `_shrink`, `_read`, `_print`, `_free` | `nb_lines <= allocated`, and the listing is that large |
| Memory (`memory.c`) | the memory image | `mem_init_from_dumpfile`, `mem_init_from_description`, `vmem_page_dump_with_options` | every file that can be read is in the image where the tables say; what was taken is given back when one cannot; `memory.h` also asks for NULL then, and does not get it |

How they interact: the drivers (`test-*.c`) read commands (`commands.c`), build a memory
(`memory.c`, which walks the page tables it is building), translate addresses (a TLB, which
calls `page_walk` on a miss, or `page_walk` itself in `test-cache.c`), and call the caches,
which read and write the same memory, page tables included. `tlb_mng.c` keeps its replacement
order in a list of `list.c`, and holds on to a node pointer while it searches
(`tlb_mng.c:37-41`). All state is shared through pointers of the caller; there are no callbacks.
The arrays of the TLB and cache drivers are uninitialised stack memory or `calloc`ed until they
are flushed.

What is hard to test is listed under `hazards`, each at its line. In short: the invalidation of
the other first level after an L2 replacement; tags of 32 and 30 bits cut from the same page
number; the order of the replacement list after hits, misses, flushes and insertions behind its
back; pointer surgery in `move_back`; a freed node that is read; running out of memory; a stale
`errno`, which in `cache_mng.c` decides whether inner calls are made at all; lines aligned by
the wrong size; ages that live in two and three bits; a full cache line; a page table that names
a frame the image does not have; a listing that is smaller than what is read into it; the error
paths of a reader of files; page tables that are read from the memory they describe while it is
filled and, later, while programs write to it.

## Modules

| Module | Models | Reads |
|---|---|---|
| `TranslationCache` | the abstract promise of both TLBs | |
| `LruCache` | the abstract promise of the fully associative TLB | |
| `ListSpec` | the abstract promise of `list.h` | |
| `TlbHrchy`, `MCTlbHrchy` | `tlb_hrchy_mng.c` and its driver | implements `TranslationCache` |
| `Tlb`, `MCTlb` | `tlb_mng.c` and its driver | implements `TranslationCache` and `LruCache` |
| `List` | `list.c` on a memory of nodes | implements `ListSpec` |
| `Cache` | `cache_mng.c`, `lru.h` and the calls of `cache_mng.h` | |
| `CacheFill`, `MCCacheFill` | a caller that stores blocks in the caches itself | `Cache` |
| `PageWalk` | `page_walk.c`, `addr_mng.c`, `addr.h`: operators, no state | |
| `Emulator`, `MCEmulator` | `test-cache.c`: programs through the page walk to the caches | composes `Cache` and `PageWalk` |
| `Program`, `MCProgram` | `commands.c` | `PageWalk` |
| `MemInit`, `MCMemInit` | `memory.c` and its driver | `PageWalk` |
| `DataLemmas` | facts on quotients and remainders, on lists, and induction and recursion over the naturals | |
| `TlbHrchyProofs`, `TlbProofs`, `ListProofs`, `CacheProofs`, `EmulatorProofs`, `ProgramProofs`, `MemInitProofs` | the theorems | |

Three conventions hold everywhere. A call of the program is one action, because nothing
interleaves with it; the exceptions are `clear_list`, whose loop reads freed memory and has
one action per iteration, and `mem_init_from_description`, which has one per field it reads,
because each may be the last. `Spec` is the program as its driver in `src/` calls it; `ApiSpec`
adds the calls a header allows and the driver does not make. Refusals of NULL pointers and
of unknown enumeration values change nothing and are left out; refusals that depend on the
state or on the other arguments are kept. Where the code does what the language leaves
undefined the model records what happened (`"crash"`, `"overflow"`, `"wild"`) and ends.

### TlbHrchy

`l1[a]` is `l1_itlb` or `l1_dtlb` by the access type, `l2` is `l2_tlb`; an entry has the
fields of the source. A virtual address is its page number, because every branch of
`tlb_search` copies the offset and nothing else looks at it. `walk` is the constant result
of `page_walk`, as no operation here writes memory. The values `Garbage1` and `Garbage2`
are what uninitialised lines may hold; `phase` is the position of the driver, which flushes
three times before it searches. `SearchL1Hit`, `SearchL2Hit` and `SearchMiss` are the three
exits of `tlb_search`. `SearchMiss` fills both levels and tests the other first level as the
source does: the two low bits of its tag against the two high bits of the L2 index,
whichever page it holds and whether or not it is valid (`InvalidateEvicted`). That
comparison is why the module assumes that the L2 has four times as many lines as an L1.

`Restart` lets the driver flush its levels again, in the order it did, which `tlb_hrchy_mng.h`
allows at any time and the driver does once. `ApiSpec` flushes single levels and inserts entries
by hand (`tlb_entry_init` followed by `tlb_insert` at the line of the page).

### Tlb

`tlb` is the array, `ll` the replacement list as a sequence of line numbers (front first),
`phase` the driver: flush, then fill the list with one `push_back` per line, then run.
`SearchHit` looks from the back of the list, as `tlb_hit` does, and moves the node to the
back; `SearchMiss` overwrites the line of the front node and moves that node. A later
`Flush` empties the lines and leaves the list alone. `ApiInsert` is `tlb_insert` at a line
of the caller's choice, which the list does not hear of.

### List

Nodes are addresses; `node` is the contents of all of them, `live` those that are
allocated, so that a dangling link or a leak can be expressed. `order` is an auxiliary
variable, the list as its caller sees it; no guard reads it. `CallocFails` is `calloc`
returning NULL: `new_node` writes through it before anyone tests it, so the process ends
(`fault`). In `clear_list`, `pop_front` frees the node whose `next` field the loop then
reads (`list.c:22`): what it finds there (`NextRead`) is what it was, NULL, a pointer to any
other node or a pointer to none (`Wild`), as the allocator has left it. With NULL the loop ends
early and the list keeps its other nodes; with another node it goes on popping from there; a
wild pointer crashes the next iteration. `kept` is a history variable: whether every field the
loop has read was still what it left.

### Cache

Memory is a function from line-sized blocks to lines, a word is its four bytes, and
addresses are physical byte addresses. The two halves of the macro `M_REQUIRE_NO_ERRNO`
(`error.h:175`) decide what a call does. The macro is "if `errno` is set, return `f(...)`",
which is the opposite of "call `f` and return if it failed". So while `errno` is 0 the inner
call is skipped, and once any library call has set `errno` (`SetErrno`, nothing resets it)
the outer function returns what its first inner call returns. Reads and writes therefore
each have two branches:

| | `errno = 0` | `errno # 0` |
|---|---|---|
| `cache_read` | no lookup; ages of the L1 line are told of a way (`FindPlace`); the word is read from an uninitialised variable | one `cache_hit` in L1, success, no word stored |
| `cache_read_byte` | returns a byte of -1 | `cache_read` of the word |
| `cache_write` | memory is changed (`update_memory`), then as above in the L1 data cache | one `cache_hit` in L2, success |
| `cache_write_byte` | the byte is put into -1 and that word is written | `cache_read` of the word |

`FindPlace` takes the last invalid way. With none left its pointer to the evicted line is
still NULL and is followed: `code = "crash"`, after which nothing happens. `UpdatedBlock` is
where `update_memory` stores a line: it aligns the address by the number it is given for the
size of a line, and `cache_write` gives it the number of lines of the cache.
An image need not fill the physical space: a frame beyond it is read and stored outside of the
block (`get_line_from_mem_space` compares nothing), and the model ends there
(`code = "outside"`, guard `InMemory`).
`AgeUpdate` and `AgeIncrease` are the macros of `lru.h`. The loop of `LRU_age_update`
zeroes the touched way in its first round, so from then on no way is younger than it:
only way 0 can be aged. `call`, `code` and `out` record the last call for the properties.
`MEMORIES` are the memories a program may start from.

### CacheFill

Commands never make a line valid, so that what a valid line is for shows only with a caller
of `cache_mng.h` that calls `cache_insert` itself: `FillSpec` stores blocks at the first
invalid way of their line while commands go on reading and writing. `changed` is a history
variable that no guard reads: the blocks of memory that a write has changed since a cache was
flushed, of which the cache may hold the old contents.

### PageWalk

Addresses are records of the fields of `virt_addr_t` and `phy_addr_t`; shifts and masks are
quotients and remainders by the number of entries of a table and the bytes of a page, which are
constants. A memory is a function from word numbers to words. `EntryWord` divides a page table
entry, a byte address, by the size of a word as `read_page_entry` does; `WalkWords` are the
four words a walk reads. `WalkInside` says that all of them are words of the memory: the code
does not look, and the modules that walk end where it fails.

### Emulator

`Execute(command)` is `execute_command`: the virtual address of the command is translated by a
walk through the memory *as it is now*, and the command is then one of the four calls of `Cache`
at that address (`Dispatch`). The page tables lie in the memory the caches write to, so that a
write may change what later commands translate to, or send their walk out of the memory
(`WildWalk`), or, with its last step, name a frame the image lacks, where `Cache` ends. `start`
is the memory the program was given, for the properties. Commands are those `Program` lets into
a listing: `EmulatorAssumption` asks that no write is of an instruction, which is what
`Program!LegalCommands` shows.

### Program

`listing` is the pointer of the `program_t` (never set, NULL, or to `block`), `block` the
entries it points to, `nb_lines` and `allocated` the other fields. Each function of
`commands.h` is an action, with `calloc`, `realloc` and `fopen` that may fail. A file is a
sequence of lines, and a line the fields `program_read` finds in it; a field is the characters
from its `0x` to the blank that ends it, and all characters that are no hexadecimal digit are
one (`OtherChar`), which the code reads as the digit 3. A command's `write_data` is a number of
`WORD_DIGITS` digits (`Data`), as a `word_t` is of eight. What stands for a field is what the code
takes for it: the data of a write may be empty, as the loop of `write_procedure` is then not
entered, and an address is any sixteen characters that a newline follows, whatever they are, so
that one which is too short swallows what comes after it (`ADDR_DIGITS`, `Char`). `hasData`
tells a write with empty data from a line without any. `program_read`
stores each command as it is read and counts them at the end; its loop goes to 100, but the
command after the tenth is already written behind the block, where the model ends.
`program_print` writes `file` as the code formats it (`LineOf`), which is what a later
`ProgramRead` reads. `accepted` (the commands taken since the listing was made), `nread` (how
many of them a file gave), `printed` and `failed` are history variables for the properties.

### MemInit

`line` is the position of `mem_init_from_description` in its file: opened, size, PGD, number of
tables, tables, data pages. At each, reading may fail, a page's file may be missing
(`ERR_IO`) or end early (`ERR_MEM`), and the two allocations after the size may return NULL,
which nothing checks: the first use crashes. A table is stored at the address the description
gives and a data page at the translation of its address by the tables stored so far, neither
compared with the size of the memory (`"overflow"`). `mem_init_from_dumpfile` is one action.
`DumpPage` is `vmem_page_dump_with_options` as the sequence of addresses it prints, in the three
parts of the code. Words are aligned; the names of the files are not modelled, a page stands
for the contents of its file.


## Runs

Passing runs:

| Run | Specification | Distinct states | Asks |
|---|---|---|---|
| `MCTlbHrchy` | `TlbHrchy!Spec` | 12,019 | `TypeOK`, `Inclusion`, `FlatSpec` |
| `MCTlbHrchyApi` | `TlbHrchy!ApiSpec` | 10,587 | `Coherence`, `AnswerCorrect`, `MissClearsAliases` |
| `MCTlb` | `Tlb!Spec` | 1,092 | `TypeOK`, `UniqueTags`, `FreeLinesFirst`, `LruSpec`, `FlatSpec` |
| `MCTlbApi` | `Tlb!ApiSpec` | 6,136 | `AllLinesListed`, `AnswerCorrect` |
| `List` | `List!FairSpec` | 229,952 | `Linked`, `NodesStay`, `ClearEmpties`, `ClearEnds`, `SequenceSpec` |
| `MCCacheFill` | `CacheFill!FillSpec` | 31,040 | `HitCoherent`, `PresentFound`, `OneYounger` |
| `MCEmulator` | `Emulator!EmuSpec` | 20,218 | `TypeOK`, `NeverCrashes`, `TranslationsStable`, `StoresInside`, `WordStored`, `ByteStored`, `WalkMovedByTableWrite` |
| `MCProgram` | `Program!Spec` | 440,229 | `TypeOK`, `ListingHolds`, `CommandsKept`, `LegalCommands`, `UndefinedOnly`, `RoundTrip` |
| `MCMemInit` | `MemInit!Spec` | 54,998 | `TypeOK`, `Released`, `DataPlaced`, `ReadInside`, `DumpWhole` |

Violated runs, each of one property that a comment of the source states and the code breaks:
`CacheReadAnswers` and `CacheWriteThrough` (of `MCEmulator`), `ProgramReadFits` (of `MCProgram`);
see [below](#where-the-code-and-its-documentation-disagree).

**What the passing runs show.**

- *MCTlbHrchy.* Started from uninitialised arrays and driven as its driver does, the
  hierarchy is one translation cache: it answers with the page walk, reports a hit exactly
  when its L2 holds the page, forgets at most one page per miss (`FlatSpec`). The reason is
  `Inclusion`, which rests on the invalidation at `tlb_hrchy_mng.c:242`.
- *MCTlbHrchyApi.* With single levels flushed and entries inserted by hand inclusion is
  lost (a flushed L2 in front of a filled L1), but answers stay right, and a miss still
  clears the first levels of the pages whose L2 line it replaced.
- *MCTlb.* No page is held twice; free lines stay in front of the list, even after a flush,
  so that nothing is evicted while a line is free; and the TLB is exactly an LRU cache
  (`LruSpec`).
- *MCTlbApi.* With entries stored behind the back of the list a page may be held twice and
  the order is no longer LRU, but the list stays a permutation of the lines and no answer is
  wrong.
- *List.* Every order of operations keeps the nodes linked both ways with nothing leaked,
  implements the sequence operations, and never moves a value to another node.
  `clear_list` empties the list if the freed nodes hold what it left in them (`ClearEmpties`).
  Whatever they hold, it ends, crashes, or goes round in freed nodes for ever, the last only once
  the list is empty (`ClearEnds`): it is not claimed that it empties the list when `free` writes
  over what it takes back, and it need not.
- *MCCacheFill.* For a caller that inserts blocks itself, in order of the ways: every block it
  stored is found, as memory holds it unless a write has changed it since; and one age at most
  goes down per call, that of the way it touches.
- *MCEmulator.* No program reaches the NULL pointer of the eviction path, because no command
  makes a line valid; ages never leave their fields; a write to an address in the first line of
  a group of `update_memory` is exactly the store of its word or byte. What an address
  translates to changes only by a write to a page that holds a table its walk goes through, and
  never when the writes of a program reach no such page: a store that strays from its line still
  stays in its page. If moreover the writes begin inside the image, nothing is ever stored
  outside of it (`StoresInside`).
- *MCProgram.* Through doubling, shrinking, reading and freeing, with failures at every
  allocation, the listing has the room its fields tell of and holds the accepted commands in
  order, and one that counts lines without holding them has lost them to a failed `realloc`;
  every command in it is one the switch of `execute_command` has a case for, and only those that
  were read from a file may be misaligned, which the caches then refuse (some of them: this is
  not a property); the only undefined steps are after a failure, or `program_read` of a file
  that is too long; a program that is printed is read back as it was.
- *MCMemInit.* Whichever step of the reading of a description fails, streams, names and memory
  are released, the last with its pointer left dangling; a dump leaves its stream when `calloc`
  fails and its memory when it ends early, and nothing else is left (`Released`); data pages end
  up where their addresses translate to if the tables keep them apart; nothing is written
  outside of the memory by a description whose tables fit and keep the data inside; a dump
  prints each byte of its page once, in order.

**Bounds, and why they are enough.** The TLB instances keep the ratio the masks of the
source need (an L2 of four times an L1) with two lines per L1 and eight in the L2. Their pages
contain groups that share an L2 line, pages that share an L1 line only, and a page apart;
the largest page uses the last value of the tag fields, whose widths are constants. Since
an operation touches one line per level, conflicts between more pages repeat those between
three. `MCTlb` has three lines, so that the front, the middle and the back of the list
differ, and more pages than lines. `List` has four nodes: a middle node has distinct
neighbours and there is one more to push; nodes are not symmetric values only because the
run checks liveness.

The caches have lines of two words and 16 lines in an L1, so that `update_memory`, which aligns
to 16 bytes there, spans two lines as it spans four in the source (64 bytes). In `MCEmulator` a
page is such a group; an image has eight of sixteen frames and tables of two entries, so that a
walk goes through four tables as in the source. There are four images: tables apart from the
data, a PTE table that maps itself as a page, a page in a frame the image lacks, and an empty
PGD entry that makes the PGD a page too. Its
eight commands read and write words and bytes, data and instructions, at the start, in the
second line and in the second word of a page, and at an address that is not aligned; the two
words they write are a table entry that is valid and one that is not. Ages saturate after two
steps. `MCCacheFill` has three ways and two addresses that share a line in 17 blocks.

`MCProgram` has listings of two commands (ten in the source), which double to four, shrink to
three and double to six, and at most four commands (`MAX_LINES`); addresses have eight bits and
three digits, so that upper digits are lost as in the source; files of up to three commands
overflow a listing of two, and others hold writes without data, characters that are no digits,
misaligned words and lines that do not parse. `MCMemInit` has pages of two words and memories of
five or six pages, with tables that map themselves, share a frame, or point outside, and data
pages that begin inside a page or reach into the next. Words of the memories are all different,
so that one at a wrong address shows. No other counter is unbounded: the modules have no state
constraint and TLC exhausts each of them.

**Fairness.** Only `List` has any, `WF_vars(ClearStep \/ ClearWild)`: the iterations of one
function in a sequential program go on until it returns. Calls are up to the caller, so no
other property is a liveness property.

**Deadlock** is checked in the runs of the TLBs. In `List`, `MCCacheFill`, `MCEmulator`,
`MCProgram` and `MCMemInit` the program may stop: by a crash (a state from which the process does
nothing) or because the driver has freed what it made.

## Proofs

TLAPS proves the following for every number of lines and ways, every set of pages and
addresses, every page table, memory, file and description that satisfy the assumptions of the
modules (`LinesAssumption`, `WalkAssumption`, `TlbAssumption`, `ListAssumption`,
`CacheAssumption`, `PageAssumption`, `EmulatorAssumption`, `ProgramAssumption`,
`MemAssumption`, `FillAssumption`). `ProgramAssumption` asks that a word has two digits at least,
so that a byte is one too, and that every virtual address can be written with `ADDR_DIGITS`
digits: an address has 48 bits in the source, and its sixteen digits have 64.

| Theorem | States |
|---|---|
| `TlbHrchyProofs!TypeCorrect` | `Spec => []TypeOK` |
| `TlbHrchyProofs!ApiAnswers`, `ApiCoherent` | `ApiSpec => []AnswerCorrect`, `ApiSpec => []Coherence` |
| `TlbHrchyProofs!ApiMissClears` | `ApiSpec => MissClearsAliases` |
| `TlbHrchyProofs!Included` | `Spec => []Inclusion` |
| `TlbHrchyProofs!ImplementsTranslationCache` | `Spec => FlatSpec` |
| `TlbProofs!TypeCorrect` | `Spec => []TypeOK` |
| `TlbProofs!ApiAnswers`, `ApiListed` | `ApiSpec => []AnswerCorrect`, `[]AllLinesListed` |
| `TlbProofs!NoDuplicates`, `EvictsOnlyWhenFull` | `Spec => []UniqueTags`, `Spec => []FreeLinesFirst` |
| `TlbProofs!ImplementsTranslationCache` | `Spec => FlatSpec` |
| `TlbProofs!ImplementsLruCache` | `Spec => LruSpec` |
| `ListProofs!AlwaysLinked` | `Spec => []Linked` |
| `ListProofs!PointersStay`, `ClearLeavesNothing` | `Spec => NodesStay`, `Spec => ClearEmpties` |
| `ListProofs!ListIsSequence` | `Spec => SequenceSpec` |
| `ListProofs!ClearShortens` | `Spec => ClearAdvances`: an iteration of `clear_list` frees the front node and goes on to an allocated node or ends, unless a freed node was overwritten |
| `CacheProofs!TypeCorrect` | `ApiSpec => []TypeOK` |
| `CacheProofs!CommandsNeverCrash` | `Spec => []NeverCrashes` |
| `CacheProofs!WordsStored`, `BytesStored` | `ApiSpec => WordStored`, `ApiSpec => ByteStored` |
| `CacheProofs!OneAgesDown` | `ApiSpec => OneYounger` |
| `CacheProofs!CommandsFillNothing` | `Spec => []CachesCold`: a cache that was flushed holds no valid line, whatever commands were executed |
| `CacheProofs!UpdateIsLruWhen` | `LRU_age_update` of a way `w` is the update of an LRU policy exactly when no way but 0 and `w` is younger than `w` |
| `CacheProofs!HitsCoherent`, `PresentAreFound` | `FillSpec => []HitCoherent`, `FillSpec => []PresentFound` |
| `EmulatorProofs!FieldsInRange`, `AddressKept`, `PageNumberKept` | the fields of an address are in range, put together they are the address, and the page number of a 32-bit word is kept |
| `EmulatorProofs!WalkDepends` | a walk depends on the words it reads and nothing else |
| `EmulatorProofs!ProgramsUseCache`, `ProgramsNeverCrash` | `EmuSpec => Spec`, `EmuSpec => []NeverCrashes` |
| `EmulatorProofs!TranslationMoves` | `EmuSpec => WalkMovedByTableWrite` |
| `EmulatorProofs!IsolatedTablesStable`, `StoresStayInside` | `EmuSpec => []TranslationsStable`, `EmuSpec => []StoresInside` |
| `ProgramProofs!ListingsHold`, `ListingsKept`, `ListingsLegal` | `Spec => []ListingHolds`, `[]CommandsKept`, `[]LegalCommands` |
| `ProgramProofs!OnlyFailuresCrash` | `Spec => []UndefinedOnly` |
| `ProgramProofs!TypeCorrect`, `ProgramsReadBack` | `Spec => []TypeOK`, `Spec => []RoundTrip` |
| `ProgramProofs!DigitsRead`, `PrintedReadBack` | a number printed with enough digits is read as that number; a legal command that is printed is a line that parses, to that command |
| `MemInitProofs!TypeCorrect`, `MemoryReleased` | `Spec => []TypeOK`, `Spec => []Released` |
| `MemInitProofs!DataIsPlaced`, `StaysInside` | `Spec => []DataPlaced`, `Spec => []ReadInside` |
| `MemInitProofs!PagesDumpedWhole` | `Spec => []DumpWhole` |

*TlbHrchyProofs.* `Coherence` is not inductive: it says nothing of a level that is flushed
later, so `Booted` adds that levels already flushed hold no valid line until the driver
runs. `ApiInv == TypeOK /\ Booted /\ Coherence /\ AnswerCorrect` is inductive for any
order of calls; `Inv` adds `Inclusion` for the driver's order. The heart is
`SharedL2Line`: two pages that share an L2 line share an L1 line, and the two low bits of
the L1 tag of the old page are the two high bits of the L2 index of the new one. That is
why the comparison of `tlb_search` hits exactly the lines it must, and it follows from
`SplitMultiple` (`DataLemmas`): the index of a table of 4L lines is the index of one
of L lines extended by the low part of its tag. Tags determine pages (`SamePage`) by
`SplitUnique`. The refinement follows because under `Inclusion` a hit at any level is a
page of the L2, and a miss replaces one L2 line (`OneVictim`).

*TlbProofs.* The list facts (`MovedBackElements`, `MovedBackPermutes` of `DataLemmas`) say where
each element of a list goes when one is moved to the back, and that nothing is lost. `ApiInv`
has `AllLinesListed`, without which a page held by an unlisted line would be missed by the
search; `Booting` describes the list while the driver fills it. `Inv` adds `UniqueTags`,
which needs that a miss means no line at all holds the page (`MissNotHeld`), and
`FreeLinesFirst`, which survives a flush because a flush frees every line. For `LruSpec` the
refinement maps the lines in use, in the order of the list, to the pages in order of use;
`TwoHalves` says that the list is its free lines followed by its lines in use, so that moving a
node to the back is moving its page (`LruHit`), and moving the front one takes a free line or
forgets the page used least recently (`LruMiss`).

*ListProofs.* `Linked` relates the memory of nodes to `order`, the list as its caller sees it:
the invariant is that, split in `Types` and `Shape` (`LinkedParts`), with `AtFront`, which says
where `clear_list` stands. Cutting a node off an end or out of the middle changes the links of
its neighbours only; `ChainCutBack`, `ChainCutFront` and `ChainMoved` say that what the code
writes there are the links of the shorter or reordered sequence. The refinement maps the values
at the nodes of `order` to the abstract sequence (`ValsAppend`, `ValsFront`, `ValsMoved`, ...).
`ClearEmpties` follows from `AtFront` only while the freed nodes hold what the loop left in them,
which is what it assumes. `ClearShortens` holds whatever they hold: every iteration on a list
that is not empty frees its front node, and `ClearEnds` adds that iterations go on.

*CacheProofs.* Lookups and the choice of a place change ages only (`LookupAges`,
`FindPlaceAges`), and each age macro keeps an age in its field (`Increased`, `Updated`).
`NeverCrashes` is not inductive: `Inv` adds `NoneValid`, no line of any cache is ever made valid
by a command, so that a free way is always found. The arithmetic of a store is in `LineAtStart`
and `WordSameGroup`: the stored block starts the group of the address and the group of the word
of a byte. `WordsStored` and `BytesStored` add that in the first line of a group the block that
is stored is the line of the address (`GroupLine`), and that byte, word and line index of a byte
are those of its word (`WordOf`). `OneAgesDown` follows call by call from what `Increased` and
`Updated` say of the ways they do not touch (`LineYounger`). `CommandsFillNothing` states the
invariant behind `NeverCrashes` for its own sake: the emulator's caches stay cold, as
`cache_insert` is never reached. `UpdateIsLruWhen` says how much of an LRU policy the loop of
`lru.h:26` leaves: only the updates in which no way from 1 on has to age. Neither property of
`CacheFill` is inductive: `FillInv` adds that valid ways come before invalid ones (`NoGaps`),
that a valid way holds its block of memory as it is or as it was before a write (`Copies`), that
unused caches stay empty, and that the last flush has left its cache empty (`FlushedLast`),
without which forgetting what changed would be wrong. A lookup that finds nothing has missed
nothing because the first way that holds the block would have stopped it (`NothingMissed`, from
`Smallest` of `DataLemmas`).

*EmulatorProofs.* `EmuSpec => Spec` carries what `CacheProofs` proves of any order of commands
over to programs: translations are addresses of the physical space, in the image or not
(`TranslateAddress`), and a walk out of the image is a stutter of the caches. A write stays in
the page of its address, as a page is a multiple of the group `update_memory` aligns to
(`GroupInPage`, `ChangedPage`), and two memories that agree on the blocks a walk goes through
translate alike (`WalkAgrees`, from `WalkDepends`). `TranslationsStable` follows with the
invariant that all walks go through blocks that are as they were at the start (`KeptStable`),
and `StoresInside` from it: a store outside would be of a write whose translation, unmoved since
the start, lies outside (`StoreOutside`, `DispatchOutside`).

*ProgramProofs.* `IInv` says of a live listing that its block has exactly `allocated` entries of
which the first `nb_lines` are the accepted commands (`Filled`), each of which can be executed;
that a program without a listing has lost it by a failure; and what has happened where the
program ended. `TakenInv` says of the accepted commands, whether the listing still holds them or
not, that all are counted and that those no file gave have passed `Accepts`. Reallocation keeps
it because it never cuts below `nb_lines` (`ResizedFilled`).

`TypeOK` and `RoundTrip` are about numbers and their digits. `Number` is a recursive function
and `Power` another; a library theorem on induction takes a predicate as a parameter, which
these provers cannot instantiate, so `Induction` and `Recursion` (`DataLemmas`) are stated of a
*set* of naturals and of a *function* for the step, and proved from the fact that a set of
naturals has a smallest element (`Smallest`). With them `NumberBound` bounds what a field of k
digits is read as, and `DigitsRead` is the induction on the characters read: after i of the k
digits of n the value is n \div 16^(k-i) (`DivideTwice`). An address survives since its fields
are put together again by `AddressKept` (of the same arithmetic, `CutFive` and `JoinFive`), and
so `PrintedReadBack`: the line `program_print` writes of a command that can be executed is
parsed to that command, but for the `write_data` of a read. `TInv` adds to `TypeOK` that `file`
is what was printed (`PrintedFile`); it is inductive relative to `IInv`, which it needs for the
commands of the listing to be legal.

*MemInitProofs.* `ReleaseInv` says what is open and allocated at each position in the
description (`Open`), from which `Released` follows at each of its ends. `DataPlaced` needs that
translations do not move while data pages are stored: pages that lie off the words a walk reads
leave it as it is (`SameWalk`), so that the place of each data page is the one the tables gave
before the first (`PlaceOne`), and later pages do not overwrite it as they are apart.
`DumpParts` and `EndInPage` say that the three parts of a dump meet; the end of a line lies in
the page since a page is a multiple of a line.

*Only model-checked.* `ClearEnds`, that `clear_list` ends, is a liveness property under fairness,
which is out of reach of these provers. Every other property of a passing run is a theorem.

## Where the code and its documentation disagree

Each of the first three is the finding of a violated run.

| Where | What | Run |
|---|---|---|
| `cache_mng.c:474` | `cache_read` returns an uninitialised word, or none | `CacheReadAnswers` |
| `cache_mng.c:634` | a written line is stored at a multiple of 64 bytes | `CacheWriteThrough` |
| `commands.c:154` | `program_read` writes behind a listing of ten commands | `ProgramReadFits` |

Others were met while modelling and have no run of their own; the model does what the code
does.

- `list.c:31`: out of memory, `push_back` and `push_front` crash instead of returning NULL
  (`list.h:67`).
- `list.c:22`: `clear_list` reads the node it has just freed; if that reads NULL by then, it
  returns with nodes left in the list, which `list.h:54` says it clears.
- `tlb_mng.h`: `tlb_insert` is documented with an LRU policy, and its caller chooses the line.
- `cache_mng.c:380`: while `errno` is 0 a block that is read is not placed in L1
  (`cache.h:65`; `tests/files/output/cache-01-out.txt:4` expects it).
- `cache_mng.c:540`: a byte can be read only at an address that starts a line
  (`tests/files/commands01.txt:3` reads one at offset 2).
- `cache_mng.c:609`: a cached block is stale after a write (`cache.h:43` says
  "write-through policy (no dirty bit)").
- `cache_mng.c:672`: `cache_write_byte` overwrites the other bytes of the word.
- `cache_mng.c:232`: `cache_hit` stops at the first invalid way, so a block that
  `cache_insert` put behind it is not found.
- `cache_mng.c:373`: with a full line the victim is never chosen and NULL is followed.
- `lru.h:26`: a hit ages no way but way 0; `UpdateIsLruWhen` says when that is what the LRU
  policy asks for.
- `memory.h:38` and `:60` say that `*p_memory` shall be NULL in case of error: after a failed
  description it points to freed memory, after a dump that ends early to live memory.
- `memory.c:196`: the check after `calloc` tests the stream, not the memory.
- `memory.c:174`: the stream of a dump stays open when `calloc` fails; `program_read` leaves its
  stream open when it succeeds (`commands.c:169`).
- `commands.c:24`: the alignment test refuses offsets that are not multiples of 8, and
  `program_read` makes no such test.
- `commands.c:224`: a write whose data is an empty `0x` is read as one of 0; `commands.c:281`:
  blanks and newlines in the sixteen characters of an address are read as digits.
- `commands.c:283`: what is no hexadecimal digit, lower case included, is read as the digit 3.
- `commands.c:28`: when `realloc` fails the listing is lost and its lines stay counted.

## What is not modelled

- Printing (`cache_dump`, `print_list`, `print_virtual_address`, the formats of
  `vmem_page_dump_*`): no state. What `program_print` and a page dump print is modelled, how
  it is laid out is not.
- `error.c`, `error.h`, `util.h`, `mem_access.h`: constants and macros; what the macros do to
  control flow is part of the actions that use them.
- The command lines of the drivers, and `test-addr.c`, which keeps no state.
- The eviction branches of `cache_mng.c` behind the NULL pointer of `find_place_in_l1`: no
  execution reaches them.
- Page offsets in the TLBs; the names of files in a description (`memory.c:206` reads them
  into 50 bytes); characters inside a command that are not part of a field.
- How `program_read` divides the characters of a file into lines and fields: a file is what it has
  been divided into.
- Memory that changes under a TLB: no driver writes memory while it uses one.

## Left to do

- A history of the order in which the ways of a line were used, to say when the ages of `lru.h`
  name the least recently used one.
