------------------------------ MODULE MemInit -------------------------------
(***************************************************************************)
(* memory.c: a memory that is made of the content of files, at once        *)
(* (mem_init_from_dumpfile) or page by page (mem_init_from_description),   *)
(* and the pages that test-memory.c prints of it.                          *)
(*                                                                         *)
(* A file that holds words is a sequence of words.  Files may be missing   *)
(* or end early, the description may be cut at every field, and calloc may *)
(* fail.  Addresses are in bytes, multiples of a word.  The blanks between *)
(* fields are left out: go_to_next_char never fails, as a file that ends   *)
(* ends its loop too.                                                      *)
(***************************************************************************)
EXTENDS PageWalk, SequencesExt

CONSTANTS
  DESCRIPTIONS,   \* the descriptions that are read
  DUMPS,          \* the dumps that are read
  VADDRS,         \* the virtual addresses whose pages are printed
  LINE_SIZE,      \* the bytes on a line that is printed, 16 in test-memory.c
  None            \* nothing has been read or printed

Page == Seq(Nat)
Description == [size : Nat, pgd : Page, tables : Seq([addr : Nat, page : Page]),
                data : Seq([vaddr : VirtAddr, page : Page])]

ASSUME MemAssumption ==
  /\ DESCRIPTIONS \subseteq Description /\ DUMPS \subseteq Page /\ VADDRS \subseteq VirtAddr
  /\ None \notin DESCRIPTIONS
  /\ LINE_SIZE \in Nat \ {0} /\ PAGE_SIZE % LINE_SIZE = 0

VARIABLES
  desc,       \* the description that is read
  line,       \* the part of it that is read next, "returned" or "freed"
  i,          \* the next of the tables or of the data pages
  memory,     \* *memory: "NULL", "live" or "freed"
  mem,        \* the words of the block it points to
  loaded,     \* what it held before the first data page, for the properties
  entree,     \* the description's or the dump's stream: "open" or "closed"
  filename,   \* page_filename: "none", "NULL", "live" or "freed"
  code,       \* what was returned, or "crash", "overflow", "wild"
  out         \* the addresses of the bytes that were printed last

vars == <<desc, line, i, memory, mem, loaded, entree, filename, code, out>>

Running == code \notin {"crash", "overflow", "wild"}

Words(bytes) == 0..(bytes \div 4)-1
Uninitialised(bytes) == [w \in Words(bytes) |-> -1]
ZerosShort(bytes) == [w \in 0..(bytes \div 4)-2 |-> 0]
Zeros(bytes) == [w \in Words(bytes) |-> 0]

\* The words that a page takes from address a on, and what storing it leaves.
Target(a, page) == (a \div 4)..(a \div 4)+Len(page)-1
Stored(m, a, page) ==
  [w \in DOMAIN m |-> IF w \in Target(a, page) THEN page[w - (a \div 4) + 1] ELSE m[w]]

Init ==
  /\ desc = None /\ line = "none" /\ i = 1
  /\ memory = "NULL" /\ mem = Zeros(0) /\ loaded = Zeros(0)
  /\ entree = "closed" /\ filename = "none"
  /\ code = "ERR_NONE" /\ out = None

-----------------------------------------------------------------------------
(* mem_init_from_description.                                              *)

At(part) == line = part /\ Running

\* The end of every error path once the memory has been made.
FailOpen(error) ==
  /\ line' = "returned" /\ code' = error
  /\ memory' = IF memory = "live" THEN "freed" ELSE memory
  /\ filename' = "freed"
  /\ UNCHANGED <<desc, i, mem, loaded, entree, out>>
Fail(error) ==
  /\ line' = "returned" /\ code' = error
  /\ memory' = IF memory = "live" THEN "freed" ELSE memory
  /\ filename' = "freed" /\ entree' = "closed"
  /\ UNCHANGED <<desc, i, mem, loaded, out>>

\* The program ends, or does what nobody knows.
Undefined(what) ==
  code' = what /\ UNCHANGED <<desc, line, i, memory, mem, loaded, entree, filename, out>>

(***************************************************************************)
(* fill_mem_at_address, when it does not fill: the room that is left is    *)
(* not looked at, and the pointer neither, as the check of what calloc     *)
(* returned tests the stream instead.                                      *)
(***************************************************************************)
NoMemory(page) == memory = "NULL" /\ page # <<>> /\ Undefined("crash")
NotFilled(a, page) ==
  \/ Fail("ERR_IO")    \* fopen fails
  \/ Fail("ERR_MEM")   \* fread stops early
  \/ memory = "live" /\ ~(Target(a, page) \subseteq DOMAIN mem) /\ Undefined("overflow")

Filled(a, page) ==
  /\ memory = "NULL" => page = <<>>
  /\ Target(a, page) \subseteq DOMAIN mem
  /\ mem' = Stored(mem, a, page)
  /\ UNCHANGED <<desc, memory, entree, filename, code, out>>

OpenDescription ==
  /\ At("none")
  /\ desc' \in DESCRIPTIONS
  /\ \/ entree' = "open" /\ line' = "size" /\ UNCHANGED code
     \/ line' = "returned" /\ code' = "ERR_IO" /\ UNCHANGED entree
  /\ UNCHANGED <<i, memory, mem, loaded, filename, out>>

\* The size is read; the two allocations follow, neither is checked.
ReadSize ==
  /\ At("size")
  /\ \/ /\ line' = "returned" /\ code' = "ERR_IO" /\ entree' = "closed"
        /\ UNCHANGED <<memory, mem, filename>>
     \/ /\ line' = "pgd"
        /\ \/ memory' = "live" /\ mem' = Zeros(desc.size)
           \/ memory' = "NULL" /\ UNCHANGED mem
        /\ filename' \in {"live", "NULL"}
        /\ UNCHANGED <<code, entree>>
  /\ UNCHANGED <<desc, i, loaded, out>>

\* Reading the name of a file through the NULL page_filename.
NoFilename == filename = "NULL" /\ Undefined("crash")

FillPgd ==
  /\ At("pgd")
  /\ \/ Fail("ERR_IO") \/ NoFilename
     \/ filename = "live" /\ (NotFilled(0, desc.pgd) \/ NoMemory(desc.pgd))
     \/ filename = "live" /\ Filled(0, desc.pgd) /\ line' = "count" /\ UNCHANGED <<i, loaded>>

ReadCount ==
  /\ At("count")
  /\ \/ Fail("ERR_IO")
     \/ line' = "tables" /\ UNCHANGED <<desc, i, memory, mem, loaded, entree, filename, code, out>>

FillTable ==
  /\ At("tables") /\ i <= Len(desc.tables)
  /\ LET entry == desc.tables[i]
     IN \/ Fail("ERR_IO") \/ NotFilled(entry.addr, entry.page) \/ NoMemory(entry.page)
        \/ /\ Filled(entry.addr, entry.page)
           /\ i' = i + 1 /\ UNCHANGED <<line, loaded>>

TablesDone ==
  /\ At("tables") /\ i > Len(desc.tables)
  /\ line' = "data" /\ i' = 1 /\ loaded' = mem
  /\ UNCHANGED <<desc, memory, mem, entree, filename, code, out>>

\* A data page goes where the tables, as the memory then holds them, say.
FrameStart(m, vaddr) == PAGE_SIZE * PageWalk(m, vaddr).phy_page_num
Translate(m, vaddr) == Physical(PageWalk(m, vaddr))
FillData ==
  /\ At("data") /\ i <= Len(desc.data)
  /\ LET vaddr == desc.data[i].vaddr
         page == desc.data[i].page
     IN \/ Fail("ERR_IO")
        \/ memory = "NULL" /\ Fail("ERR_BAD_PARAMETER")
        \/ memory = "live" /\ ~WalkInside(mem, vaddr) /\ Undefined("wild")
        \/ /\ memory = "live" /\ WalkInside(mem, vaddr)
           /\ \/ NotFilled(Translate(mem, vaddr), page)
              \/ Filled(Translate(mem, vaddr), page) /\ i' = i + 1 /\ UNCHANGED <<line, loaded>>

Finish ==
  /\ At("data") /\ i > Len(desc.data)
  /\ line' = "returned" /\ entree' = "closed" /\ filename' = "freed"
  /\ UNCHANGED <<desc, i, memory, mem, loaded, code, out>>

-----------------------------------------------------------------------------
(***************************************************************************)
(* mem_init_from_dumpfile: when calloc fails the stream stays open, when   *)
(* the dump ends early the memory stays live.                              *)
(***************************************************************************)
InitFromDumpfile(dump) ==
  /\ At("none")
  /\ line' = "returned"
  /\ \/ code' = "ERR_IO" /\ UNCHANGED <<memory, mem, entree>>
     \/ code' = "ERR_MEM" /\ entree' = "open" /\ UNCHANGED <<memory, mem>>
     \/ code' = "ERR_MEM" /\ memory' = "live" /\ mem' = Zeros(4 * Len(dump)) /\ UNCHANGED entree
     \/ /\ memory' = "live" /\ mem' = Stored(Zeros(4 * Len(dump)), 0, dump)
        /\ UNCHANGED <<code, entree>>
  /\ UNCHANGED <<desc, i, loaded, filename, out>>

-----------------------------------------------------------------------------
(* test-memory.c prints the pages of some addresses and frees the memory.  *)

Bytes(from, to) == IF from < to THEN [k \in 1..to-from |-> from + k - 1] ELSE <<>>

\* vmem_page_dump_with_options: what precedes the address, its line, the rest.
LineAfter(start, offset) == start + LINE_SIZE
EndLine(start, offset) == start + (LINE_SIZE - (offset % LINE_SIZE))
PageDump(paddr) ==
  LET pageStart == PAGE_SIZE * paddr.phy_page_num
      start == pageStart + paddr.page_offset
      endLine == EndLine(start, paddr.page_offset)
  IN Bytes(pageStart, start) \o Bytes(start, endLine) \o Bytes(endLine, pageStart + PAGE_SIZE)

Succeeded == At("returned") /\ code = "ERR_NONE" /\ memory = "live"

DumpPage(vaddr) ==
  /\ Succeeded
  /\ \/ /\ WalkInside(mem, vaddr)
        /\ LET printed == PageDump(PageWalk(mem, vaddr))
           IN IF \A k \in DOMAIN printed : printed[k] \div 4 \in DOMAIN mem
              THEN out' = [vaddr |-> vaddr, bytes |-> printed] /\ UNCHANGED code
              ELSE code' = "wild" /\ UNCHANGED out
     \/ ~WalkInside(mem, vaddr) /\ code' = "wild" /\ UNCHANGED out
  /\ UNCHANGED <<desc, line, i, memory, mem, loaded, entree, filename>>

Free ==
  /\ Succeeded
  /\ line' = "freed" /\ memory' = "freed"
  /\ UNCHANGED <<desc, i, mem, loaded, entree, filename, code, out>>

Next ==
  \/ OpenDescription \/ ReadSize \/ FillPgd \/ ReadCount \/ FillTable \/ TablesDone
  \/ FillData \/ Finish
  \/ \E dump \in DUMPS : InitFromDumpfile(dump)
  \/ \E vaddr \in VADDRS : DumpPage(vaddr)
  \/ Free

Spec == Init /\ [][Next]_vars

-----------------------------------------------------------------------------
\* Types of the state.
TypeOK ==
  /\ desc = None \/ desc \in DESCRIPTIONS
  /\ line \in {"none", "size", "pgd", "count", "tables", "data", "returned", "freed"}
  /\ i \in Nat
  /\ memory \in {"NULL", "live", "freed"}
  /\ \A m \in {mem, loaded} : DOMAIN m \subseteq Nat /\ \A w \in DOMAIN m : m[w] \in Nat
  /\ entree \in {"open", "closed"} /\ filename \in {"none", "NULL", "live", "freed"}

(***************************************************************************)
(* What a call leaves behind, whichever of its steps fails.  A file name   *)
(* is not, nor a stream but the dump's when its calloc fails.  A memory is *)
(* left with ERR_NONE, unless the PGD is empty and its calloc failed, and  *)
(* with an error only by a dump that ends early.  The pointer to a freed   *)
(* one is left by every description that fails once calloc has succeeded,  *)
(* where memory.h asks for NULL in all these errors, and never else.       *)
(***************************************************************************)
Released ==
  line = "returned" /\ Running =>
    /\ filename \in {"none", "freed"}
    /\ entree = "open" => desc = None /\ code = "ERR_MEM" /\ memory = "NULL"
    /\ code = "ERR_NONE" /\ memory # "live" => memory = "NULL" /\ desc # None /\ desc.pgd = <<>>
    /\ code # "ERR_NONE" /\ memory = "live" => desc = None /\ code = "ERR_MEM"
    /\ memory = "freed" => desc # None

\* The tables of a description lie in its memory.
TablesFit(d) ==
  /\ Target(0, d.pgd) \subseteq Words(d.size)
  /\ \A k \in DOMAIN d.tables : Target(d.tables[k].addr, d.tables[k].page) \subseteq Words(d.size)

DataTarget(m, entry) == Target(Translate(m, entry.vaddr), entry.page)

\* In memory m the data pages lie inside, off the tables and off each other.
Apart(m, d) ==
  \A j, k \in DOMAIN d.data :
    /\ WalkInside(m, d.data[j].vaddr)
    /\ DataTarget(m, d.data[j]) \subseteq Words(d.size)
    /\ DataTarget(m, d.data[j]) \cap WalkWords(m, d.data[k].vaddr) = {}
    /\ j # k => DataTarget(m, d.data[j]) \cap DataTarget(m, d.data[k]) = {}

(***************************************************************************)
(* A page is stored where the tables say at that time.  If where they say  *)
(* so before the first data page keeps the data off them and each other,   *)
(* then in the memory that results each data page is found by the walk of  *)
(* its address.                                                            *)
(***************************************************************************)
DataPlaced ==
  line = "returned" /\ code = "ERR_NONE" /\ desc # None /\ memory = "live"
    /\ Apart(loaded, desc) =>
      \A k \in DOMAIN desc.data :
        LET entry == desc.data[k]
            a == Physical(PageWalk(mem, entry.vaddr))
        IN /\ WalkInside(mem, entry.vaddr)
           /\ \A n \in DOMAIN entry.page : mem[(a \div 4) + n - 1] = entry.page[n]

(***************************************************************************)
(* A description whose tables lie in the memory and keep the data apart is *)
(* read without a step outside of the block, and nothing follows a NULL    *)
(* pointer unless an allocation has failed.                                *)
(***************************************************************************)
ReadInside ==
  /\ code = "crash" => memory = "NULL" \/ filename = "NULL"
  /\ code = "overflow" /\ line # "data" => ~TablesFit(desc)
  /\ code \in {"overflow", "wild"} /\ line = "data" => ~Apart(loaded, desc)

(***************************************************************************)
(* The dump of a page, which breaks it at the line of an address, prints   *)
(* each byte of the page of the address once, in order.                    *)
(***************************************************************************)
DumpWhole ==
  out # None =>
    LET first == PAGE_SIZE * PageWalk(mem, out.vaddr).phy_page_num
    IN out.bytes = Bytes(first, first + PAGE_SIZE)
=============================================================================
