----------------------------- MODULE EntryState -----------------------------
(***************************************************************************)
(* The registers a vCPU enters the guest with (Vcpu::InitRegs, InitSregs), *)
(* as far as they decide what it executes first and where its data are.    *)
(* A control register or RFLAGS is the set of its bits that are 1; a       *)
(* segment counts its base and its size in pages of 4 KiB; ds stands for   *)
(* all the data segments, and for ss but for its db.                       *)
(***************************************************************************)
EXTENDS PageTable

PAGE_SIZE_4KB == 4096
BOOT_PAGETABLE_BASE == \h30000

\* What KVM_CREATE_VCPU leaves: external.  Real mode, at the reset vector.
AtReset ==
  [cr0 |-> {"CD", "NW", "ET"}, cr3 |-> 0, cr4 |-> {}, efer |-> {},
   cs |-> [base |-> \hFFFF0, pages |-> 16, db |-> FALSE, l |-> FALSE],
   ds |-> [base |-> 0, pages |-> 16, db |-> FALSE, l |-> FALSE],
   rip |-> \hFFF0, rsi |-> 0, rflags |-> {"INIT"}]

InitRegs(cpu, rip, rsi) == [cpu EXCEPT !.rip = rip, !.rsi = rsi, !.rflags = {"INIT"}]

\* 1 << 31 is a negative int: as a uint64_t it has the upper half set as well.
CR0_PG == {"PG", "upper half"}

\* Plausible bug: the limit is raised and the base left where it is.
Flat_LimitOnly(seg) == [seg EXCEPT !.pages = FourGiB]

Flat(seg) == [seg EXCEPT !.base = 0, !.pages = FourGiB]

\* Protected mode without paging; what is not named keeps its reset value.
ProtectedMode(cpu) ==
  [cpu EXCEPT !.cs = [Flat(@) EXCEPT !.db = TRUE],
              !.ds = Flat(@),
              !.cr0 = @ \cup {"PE"}]

LongMode(cpu) ==
  [cpu EXCEPT !.cs = [base |-> 0, pages |-> FourGiB, db |-> FALSE, l |-> TRUE],
              !.ds = [base |-> 0, pages |-> FourGiB, db |-> FALSE, l |-> TRUE],
              !.cr0 = {"PE", "MP", "ET", "NE", "WP", "AM"} \cup CR0_PG,
              !.cr3 = BOOT_PAGETABLE_BASE,
              !.cr4 = {"PAE"},
              !.efer = {"LME", "LMA"}]

InitSregs(cpu, is_64bit_boot) ==
  IF is_64bit_boot THEN LongMode(cpu) ELSE ProtectedMode(cpu)

-----------------------------------------------------------------------------
(***************************************************************************)
(* The processor: external.                                                *)
(***************************************************************************)

\* A combination of bits it enters the guest with.
Valid(cpu) ==
  /\ "upper half" \notin cpu.cr0
  /\ "PG" \in cpu.cr0 => "PE" \in cpu.cr0
  /\ "PG" \in cpu.cr0 /\ "LME" \in cpu.efer => "PAE" \in cpu.cr4 /\ "LMA" \in cpu.efer
  /\ cpu.cs.l => "LMA" \in cpu.efer /\ ~cpu.cs.db

\* The physical page an offset in a segment leads to.
PhysicalPage(cpu, seg, offset) ==
  LET linear == seg.base + offset \div PAGE_SIZE_4KB IN
    IF "PG" \in cpu.cr0
    THEN Walk(BOOT_PAGETABLE_BASE \div PAGE_SIZE_4KB, cpu.cr3 \div PAGE_SIZE_4KB, linear)
    ELSE linear

\* The offset leads to the byte at the address.
LeadsTo(cpu, seg, offset, addr) ==
  /\ offset \div PAGE_SIZE_4KB < seg.pages
  /\ PhysicalPage(cpu, seg, offset) = addr \div PAGE_SIZE_4KB
  /\ offset % PAGE_SIZE_4KB = addr % PAGE_SIZE_4KB

=============================================================================
