------------------------------ MODULE PageWalk ------------------------------
(***************************************************************************)
(* Virtual and physical addresses (addr_mng.c) and the walk through the    *)
(* four levels of page tables that translates one into the other           *)
(* (page_walk.c).  Both are pure: the module has no state.                 *)
(*                                                                         *)
(* The memory a walk reads is a function "word" from word numbers to words *)
(* (32-bit numbers); addresses and table entries are in bytes.             *)
(***************************************************************************)
EXTENDS Integers

CONSTANTS
  PD_ENTRIES,   \* the entries of a page table, 512 in the source
  PAGE_SIZE,    \* the bytes of a page, 4096 in the source
  PHY_PAGES     \* the pages that a physical page number can name, 2^20

ASSUME PageAssumption ==
  /\ PD_ENTRIES \in Nat \ {0} /\ PAGE_SIZE \in Nat \ {0} /\ PHY_PAGES \in Nat \ {0}

TableIndex == 0..PD_ENTRIES-1
PageOffset == 0..PAGE_SIZE-1
VirtAddr == [pgd_entry : TableIndex, pud_entry : TableIndex, pmd_entry : TableIndex,
             pte_entry : TableIndex, page_offset : PageOffset]
PhyAddr == [phy_page_num : 0..PHY_PAGES-1, page_offset : PageOffset]

\* init_virt_addr, of fields that control_virt_addr_param lets pass.
InitVirtAddr(pgd, pud, pmd, pte, offset) ==
  [pgd_entry |-> pgd, pud_entry |-> pud, pmd_entry |-> pmd, pte_entry |-> pte,
   page_offset |-> offset]

\* The fields are cut from 64 bits by shifts and masks; the upper 16 are lost.
Unmasked64(n) ==
  LET pages == n \div PAGE_SIZE
  IN InitVirtAddr(((pages \div PD_ENTRIES) \div PD_ENTRIES) \div PD_ENTRIES,
                  ((pages \div PD_ENTRIES) \div PD_ENTRIES) % PD_ENTRIES,
                  (pages \div PD_ENTRIES) % PD_ENTRIES,
                  pages % PD_ENTRIES,
                  n % PAGE_SIZE)

InitVirtAddr64(n) ==
  LET pages == n \div PAGE_SIZE
  IN InitVirtAddr((((pages \div PD_ENTRIES) \div PD_ENTRIES) \div PD_ENTRIES) % PD_ENTRIES,
                  ((pages \div PD_ENTRIES) \div PD_ENTRIES) % PD_ENTRIES,
                  (pages \div PD_ENTRIES) % PD_ENTRIES,
                  pages % PD_ENTRIES,
                  n % PAGE_SIZE)

VirtualPageNumber(vaddr) ==
  PD_ENTRIES * (PD_ENTRIES * (PD_ENTRIES * vaddr.pgd_entry + vaddr.pud_entry)
                + vaddr.pmd_entry) + vaddr.pte_entry

VirtAddrToUint64(vaddr) == PAGE_SIZE * VirtualPageNumber(vaddr) + vaddr.page_offset

\* The mask keeps one bit more than the field phy_page_num holds.
InitPhyAddr(page_begin, offset) ==
  [phy_page_num |-> ((page_begin \div PAGE_SIZE) % (2 * PHY_PAGES)) % PHY_PAGES,
   page_offset |-> offset]

\* The byte address that the callers make of the two fields.
Physical(paddr) == PAGE_SIZE * paddr.phy_page_num + paddr.page_offset

(***************************************************************************)
(* read_page_entry: the table is at a byte address, its entries are words. *)
(***************************************************************************)
EntryWord(page_start, index) == (page_start \div 4) + index

PgdWord(vaddr) == EntryWord(0, vaddr.pgd_entry)
PudWord(word, vaddr) == EntryWord(word[PgdWord(vaddr)], vaddr.pud_entry)
PmdWord(word, vaddr) == EntryWord(word[PudWord(word, vaddr)], vaddr.pmd_entry)
PteWord(word, vaddr) == EntryWord(word[PmdWord(word, vaddr)], vaddr.pte_entry)

\* The words a walk reads; an empty entry makes it start over in the PGD.
WalkWords(word, vaddr) ==
  {PgdWord(vaddr), PudWord(word, vaddr), PmdWord(word, vaddr), PteWord(word, vaddr)}

\* Every word it reads is a word of the memory.
WalkInside(word, vaddr) ==
  /\ PgdWord(vaddr) \in DOMAIN word
  /\ PudWord(word, vaddr) \in DOMAIN word
  /\ PmdWord(word, vaddr) \in DOMAIN word
  /\ PteWord(word, vaddr) \in DOMAIN word

PageWalk(word, vaddr) == InitPhyAddr(word[PteWord(word, vaddr)], vaddr.page_offset)
=============================================================================
