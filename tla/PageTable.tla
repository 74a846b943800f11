------------------------------ MODULE PageTable ------------------------------
(***************************************************************************)
(* The boot page table (VM::createPageTable) and what the processor makes  *)
(* of it in 4-level paging.  Memory is counted in pages of 4 KiB, so that  *)
(* an address is a page number and an entry is the number of the page it   *)
(* points to; the loops that add a page size to the previous entry are     *)
(* given in closed form.                                                   *)
(***************************************************************************)
EXTENDS Integers

BOOT_PDPTE_NUM == 4
BOOT_PDE_NUM   == 2048
BOOT_PAGETABLE_PAGES == 6      \* BOOT_PAGETABLE_SIZE / PAGE_SIZE_4KB
LARGE == 512                   \* PAGE_SIZE_2MB / PAGE_SIZE_4KB

FourGiB == BOOT_PDE_NUM * LARGE

\* An entry that is present; ps: it maps a 2 MiB page instead of a table.
ToTable(page) == [p |-> TRUE, ps |-> FALSE, page |-> page]
ToLarge(page) == [p |-> TRUE, ps |-> TRUE, page |-> page]
Absent == [p |-> FALSE, ps |-> FALSE, page |-> 0]

\* The table takes pages base to base + 5: one page of PML4, one of page
\* directory pointers, four of page directories.
pml4e(base) == ToTable(base + 1)

\* Plausible bug: the first directory is taken to be the page after the PML4.
pdpte_OffByOne(base, i) == ToTable(base + 1 + i)

pdpte(base, i) == ToTable(base + 2 + i)

\* Plausible bug: the entry is incremented before it is stored.
pde_Early(i) == ToLarge(LARGE * (i + 1))

pde(i) == ToLarge(LARGE * i)

\* Entry idx of the table in the given page, after createPageTable(base); the
\* memset has cleared the entries that are not stored.
EntryAt(base, page, idx) ==
  CASE page = base /\ idx = 0 -> pml4e(base)
    [] page = base + 1 /\ idx < BOOT_PDPTE_NUM -> pdpte(base, idx)
    [] page \in base + 2 .. base + 5 -> pde(512 * (page - base - 2) + idx)
    [] OTHER -> Absent

-----------------------------------------------------------------------------
(***************************************************************************)
(* The processor's walk, from the table cr3 points to: external.           *)
(***************************************************************************)

Pml4Index(page) == (page \div (512 * 512 * 512)) % 512
PdptIndex(page) == (page \div (512 * 512)) % 512
PdIndex(page)   == (page \div 512) % 512

Fault == -1

\* The physical page behind a linear page, or Fault.  The walk ends at a large
\* page in the third level, as it always does here.
Walk(base, cr3, page) ==
  LET e4 == EntryAt(base, cr3, Pml4Index(page))
      e3 == EntryAt(base, e4.page, PdptIndex(page))
      e2 == EntryAt(base, e3.page, PdIndex(page))
  IN  IF e4.p /\ e3.p /\ e2.p /\ e2.ps THEN e2.page + (page % LARGE) ELSE Fault

=============================================================================
