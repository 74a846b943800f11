----------------------------- MODULE GuestMemory -----------------------------
(***************************************************************************)
(* VM::initRAM: what is copied into the guest's memory before it starts,   *)
(* where, and what the memory map of the boot parameters says of it; and   *)
(* the registers, set just before, that have to lead the guest there.      *)
(* Addresses are bytes; a copy is the half-open range [lo, hi) it fills,   *)
(* its contents are left out.                                              *)
(***************************************************************************)
EXTENDS EntryState, Sequences, FiniteSets

CONSTANTS
  RamSizes,        \* vm_config.ram_size
  InitramfsSizes,  \* the sizes of the files,
  KernelSizes,
  SetupSects,      \* the kernel header's setup_sects,
  CmdlineSizes,    \* and of the command line
  VcpuNums         \* vm_config.vcpu_num

REALMODE_IVT_START == 0
BOOT_PARAMS_ADDR   == \h10000
COMMANDLINE_ADDR   == \h20000
EBDA_START         == \h9FC00
VGARAM_START       == \hA0000
MBBIOS_START       == \hF0000
MBBIOS_SIZE        == \hFFFF
HIGHMEM_BASE       == \h100000
INITRAMFS_ADDR     == \hF000000
APIC_PAGE          == \hFEE00     \* APIC_BASE / PAGE_SIZE_4KB
SECT_SIZE          == 512
SETUP_HEADER_END   == \h26C      \* SETUP_HEADER_ADDR + sizeof(setup_header)
BOOT_PARAMS_SIZE   == \hCD0      \* sizeof(boot_params)
MP_MAX_VCPU_NUM    == 32

ASSUME GuestMemoryAssumption ==
  /\ RamSizes \subseteq {s \in Nat : s > INITRAMFS_ADDR}
  /\ VcpuNums \subseteq 1 .. MP_MAX_VCPU_NUM       \* the array has no more entries
  /\ SetupSects \subseteq 0 .. 255
  /\ InitramfsSizes \cup KernelSizes \cup CmdlineSizes \subseteq Nat

VARIABLES
  pc,       \* the next thing initMachine does
  in,       \* what it is given
  copies,   \* the copies made, in order
  e820,     \* bp.e820map
  sects,    \* bp.header.setup_sects
  ebda,     \* the MP structures, as copied to the guest
  cpu,      \* the registers of a vCPU, any one of them: they are set alike
  set       \* history: which of them KVM has taken, of {"regs", "sregs"}

vars == <<pc, in, copies, e820, sects, ebda, cpu, set>>
registers == <<cpu, set>>

Inputs == [ram_size : RamSizes, initramfs : InitramfsSizes, kernel : KernelSizes,
           setup_sects : SetupSects, cmdline : CmdlineSizes, vcpu_num : VcpuNums,
           magic : BOOLEAN,            \* the header has the magic number
           is_64bit_boot : BOOLEAN,    \* vm_config.is_64bit_boot
           ndebug : BOOLEAN]           \* built without assertions

Init ==
  /\ pc = "regs"
  /\ in \in Inputs
  /\ copies = << >> /\ e820 = << >> /\ sects = 0
  /\ ebda = [entries |-> << >>]
  /\ cpu = AtReset /\ set = {}

Copy(what, lo, size) == copies' = Append(copies, [what |-> what, lo |-> lo, hi |-> lo + size])

-----------------------------------------------------------------------------
(***************************************************************************)
(* The MP structures (gen_ebda).  A checksum makes the sum of the bytes of *)
(* its structure 0 modulo 256.                                             *)
(***************************************************************************)

EBDA_PADDING_SIZE == 48
FPS_SIZE    == 16
HEADER_SIZE == 44
ENTRY_SIZE  == 20
EBDA_SIZE   == EBDA_PADDING_SIZE + FPS_SIZE + HEADER_SIZE + MP_MAX_VCPU_NUM * ENTRY_SIZE

\* The four bytes of a 32-bit value, added up.
ByteSum(x) == (x % 256) + ((x \div 256) % 256) + ((x \div 65536) % 256) + x \div 16777216

\* Plausible bug: ones' complement instead of two's.
mp_gen_checksum_OnesComplement(sum) == 255 - (sum % 256)

\* (sum ^ 0xFF) + 1, in eight bits.
mp_gen_checksum(sum) == ((255 - (sum % 256)) + 1) % 256

phys_addr_ptr == EBDA_START + \h40

\* "_MP_", the pointer, the length and the revision.
FpsSum == 95 + 77 + 80 + 95 + ByteSum(phys_addr_ptr) + 1 + 4

\* Entries beyond vcpu_num stay zero: present in the table, not enabled.
cpu_flags(k, vcpu_num) ==
  IF k < vcpu_num THEN {"EN"} \cup (IF k = 0 THEN {"BP"} ELSE {}) ELSE {}

ProcessorEntry(k, vcpu_num) ==
  [local_apic_id |-> IF k < vcpu_num THEN k ELSE 0, flags |-> cpu_flags(k, vcpu_num)]

\* The bytes of the first n entries: the ids, then version, flags, signature
\* and features of each; the boot processor has a flag of value 2 more.
EntriesSum(n) == (n * (n - 1)) \div 2 + n * (20 + 1 + 6 + 3) + 2

\* "PCMP", the length, the revision, "LIGMTEST", entry_count, APIC_BASE.
HeaderSum ==
  (80 + 67 + 77 + 80) + ByteSum(HEADER_SIZE + MP_MAX_VCPU_NUM * ENTRY_SIZE) + 4
    + (76 + 73 + 71 + 77 + 84 + 69 + 83 + 84) + MP_MAX_VCPU_NUM + (254 + 224)

gen_ebda(vcpu_num) ==
  LET sum == HeaderSum + EntriesSum(vcpu_num) IN
    [fps |-> [sum |-> FpsSum, checksum |-> mp_gen_checksum(FpsSum),
              phys_addr_ptr |-> phys_addr_ptr],
     entries |-> [k \in 1 .. MP_MAX_VCPU_NUM |-> ProcessorEntry(k - 1, vcpu_num)],
     sum |-> sum, checksum |-> mp_gen_checksum(sum)]

-----------------------------------------------------------------------------
(***************************************************************************)
(* initVcpuRegs and initVcpuSregs.  When the ioctls of a vCPU, or of one   *)
(* before it, fail they return 1, upon which initMachine goes on: the vCPU *)
(* keeps the registers it has (see RegistersSet in VmBoot).                *)
(***************************************************************************)

initVcpuRegs ==
  /\ pc = "regs"
  /\ \/ /\ cpu' = InitRegs(cpu, HIGHMEM_BASE, BOOT_PARAMS_ADDR)
        /\ set' = set \cup {"regs"}
     \/ UNCHANGED registers
  /\ pc' = "sregs"
  /\ UNCHANGED <<in, copies, e820, sects, ebda>>

\* assert(!vm_conf.is_64bit_boot), which comes before that of initRAM.
Asserts == in.is_64bit_boot /\ ~in.ndebug

AssertFails ==
  /\ pc = "sregs" /\ Asserts
  /\ pc' = "aborted"
  /\ UNCHANGED <<in, copies, e820, sects, ebda, registers>>

\* Registers that no processor accepts are among those that recent KVMs refuse;
\* others take them, until the guest runs.
initVcpuSregs ==
  /\ pc = "sregs" /\ ~Asserts
  /\ \/ /\ cpu' = InitSregs(cpu, in.is_64bit_boot)
        /\ set' = set \cup {"sregs"}
     \/ UNCHANGED registers
  /\ pc' = "ebda"
  /\ UNCHANGED <<in, copies, e820, sects, ebda>>

-----------------------------------------------------------------------------
(***************************************************************************)
(* initRAM, step by step; every failure returns 1                          *)
(***************************************************************************)

Fail == pc' = "failed" /\ UNCHANGED <<in, copies, e820, sects, ebda, registers>>

CopyEBDA ==
  /\ pc = "ebda"
  /\ ebda' = gen_ebda(in.vcpu_num)
  /\ Copy("ebda", EBDA_START, EBDA_SIZE)
  /\ pc' = "initramfs"
  /\ UNCHANGED <<in, e820, sects, registers>>

LoadInitramfs ==
  /\ pc = "initramfs"
  /\ \/ /\ Copy("initramfs", INITRAMFS_ADDR, in.initramfs)
        /\ pc' = "cmdline"
        /\ UNCHANGED <<in, e820, sects, ebda, registers>>
     \/ Fail                                                  \* a read error

\* Plausible bug: the terminating zero is forgotten.
CmdlineBytes_NoZero == in.cmdline

CmdlineBytes == in.cmdline + 1

\* No size is checked.
CopyCmdline ==
  /\ pc = "cmdline"
  /\ Copy("cmdline", COMMANDLINE_ADDR, CmdlineBytes)
  /\ pc' = "header"
  /\ UNCHANGED <<in, e820, sects, ebda, registers>>

\* Plausible bug: check_setup_sects is forgotten.
EffectiveSects_AsRead(s) == s

\* check_setup_sects: 0 stands for 4.
EffectiveSects(s) == IF s = 0 THEN 4 ELSE s

HeaderReadable == in.kernel >= SETUP_HEADER_END /\ in.magic

ReadHeader ==
  /\ pc = "header"
  /\ \/ /\ HeaderReadable
        /\ sects' = EffectiveSects(in.setup_sects)
        /\ pc' = "bootparams"
        /\ UNCHANGED <<in, copies, e820, ebda, registers>>
     \/ ~HeaderReadable /\ Fail

Entry(addr, size, type) == [lo |-> addr, hi |-> addr + size, type |-> type]

\* Plausible bug: the last entry's size is the end of memory.
HighmemSize_End == in.ram_size

\* Plausible bug: the memory from the initramfs on is left out.
HighmemSize_ToInitramfs == INITRAMFS_ADDR - HIGHMEM_BASE

HighmemSize == in.ram_size - HIGHMEM_BASE

CopyBootParams ==
  /\ pc = "bootparams"
  /\ e820' = << Entry(REALMODE_IVT_START, EBDA_START - REALMODE_IVT_START, "RAM"),
                Entry(EBDA_START, VGARAM_START - EBDA_START, "RESERVED"),
                Entry(MBBIOS_START, MBBIOS_SIZE, "RESERVED"),
                Entry(HIGHMEM_BASE, HighmemSize, "RAM") >>
  /\ Copy("boot_params", BOOT_PARAMS_ADDR, BOOT_PARAMS_SIZE)
  /\ pc' = "kernel"
  /\ UNCHANGED <<in, sects, ebda, registers>>

\* Plausible bug: the boot sector is not counted.
kernel_load_offset_NoBootSector == sects * SECT_SIZE

kernel_load_offset == (sects + 1) * SECT_SIZE

\* A file that ends before its protected-mode part makes the read fail.
LoadKernel ==
  /\ pc = "kernel"
  /\ \/ /\ in.kernel >= kernel_load_offset
        /\ Copy("kernel", HIGHMEM_BASE, in.kernel - kernel_load_offset)
        /\ pc' = IF in.is_64bit_boot THEN "pagetable" ELSE "success"
        /\ UNCHANGED <<in, e820, sects, ebda, registers>>
     \/ Fail

\* Module PageTable has the entries.
createPageTable ==
  /\ pc = "pagetable"
  /\ Copy("pagetable", BOOT_PAGETABLE_BASE, BOOT_PAGETABLE_PAGES * PAGE_SIZE_4KB)
  /\ pc' = "success"
  /\ UNCHANGED <<in, e820, sects, ebda, registers>>

Next ==
  \/ initVcpuRegs \/ AssertFails \/ initVcpuSregs
  \/ CopyEBDA \/ LoadInitramfs \/ CopyCmdline \/ ReadHeader \/ CopyBootParams
  \/ LoadKernel \/ createPageTable

Spec == Init /\ [][Next]_vars

-----------------------------------------------------------------------------
(***************************************************************************)
(* Properties                                                              *)
(***************************************************************************)

\* Types; sects is never the 0 that stands for 4 once the header is read.
TypeOK ==
  /\ pc \in {"regs", "sregs", "ebda", "initramfs", "cmdline", "header", "bootparams", "kernel",
             "pagetable", "success", "failed", "aborted"}
  /\ in \in Inputs
  /\ \A c \in 1 .. Len(copies) : copies[c].lo \in Nat /\ copies[c].hi \in Nat
  /\ \A k \in 1 .. Len(e820) : e820[k].type \in {"RAM", "RESERVED"}
  /\ set \subseteq {"regs", "sregs"}
  /\ sects \in 0 .. 255 /\ (pc \in {"bootparams", "kernel", "success"} => sects > 0)

\* The sizes initRAM relies on and does not check (for the command line, a FIXME
\* at src/vm.cpp:379 says so): the kernel ends where the initramfs begins at the
\* latest, the initramfs with the memory, the command line before the EBDA, and
\* before the page table if there is one.
Fits ==
  LET offset == (1 + IF in.setup_sects = 0 THEN 4 ELSE in.setup_sects) * SECT_SIZE IN
    /\ in.kernel - offset <= INITRAMFS_ADDR - HIGHMEM_BASE
    /\ INITRAMFS_ADDR + in.initramfs <= in.ram_size
    /\ COMMANDLINE_ADDR + in.cmdline
         < IF in.is_64bit_boot THEN BOOT_PAGETABLE_BASE ELSE EBDA_START

Apart(a, b) == a.hi <= b.lo \/ b.hi <= a.lo

\* Inputs that fit are loaded whole: no copy destroys an earlier one.
Intact ==
  Fits => \A c, d \in 1 .. Len(copies) : c # d => Apart(copies[c], copies[d])

\* Inputs that do not fit do destroy something or leave the memory: the bound
\* is exact, so Intact says as much as can be said.
FitsIsExact ==
  pc = "success" /\ ~Fits =>
    \/ \E c, d \in 1 .. Len(copies) : c # d /\ ~Apart(copies[c], copies[d])
    \/ \E c \in 1 .. Len(copies) : copies[c].hi > in.ram_size

\* The map the guest is given: ascending, without overlap, all the memory it
\* calls RAM is there, and none of it in the I/O memory hole of README.md:72-78.
MapSound ==
  /\ \A k \in 1 .. Len(e820) - 1 : e820[k].hi <= e820[k + 1].lo
  /\ \A k \in 1 .. Len(e820) : e820[k].lo < e820[k].hi /\ e820[k].hi <= in.ram_size
  /\ \A k \in 1 .. Len(e820) :
       e820[k].type = "RAM" => e820[k].hi <= VGARAM_START \/ e820[k].lo >= HIGHMEM_BASE

\* The guest is told to keep off the MP structures, and that everything else
\* it is handed lies in memory it may use.
CopiesMapped ==
  pc = "success" /\ Fits =>
    \A c \in 1 .. Len(copies) : \E k \in 1 .. Len(e820) :
      /\ e820[k].lo <= copies[c].lo /\ copies[c].hi <= e820[k].hi
      /\ e820[k].type = IF copies[c].what = "ebda" THEN "RESERVED" ELSE "RAM"

\* A guest that looks for the MP structures finds them: checksums that add up,
\* the table where the pointer says it is, and exactly the vCPUs of the machine
\* enabled in it, each under its own id, with one boot processor.
ProcessorsFound ==
  pc = "success" =>
    LET enabled == {k \in 1 .. MP_MAX_VCPU_NUM : "EN" \in ebda.entries[k].flags} IN
      /\ (ebda.fps.sum + ebda.fps.checksum) % 256 = 0
      /\ (ebda.sum + ebda.checksum) % 256 = 0
      /\ ebda.fps.phys_addr_ptr = EBDA_START + EBDA_PADDING_SIZE + FPS_SIZE
      /\ {ebda.entries[k].local_apic_id : k \in enabled} = 0 .. in.vcpu_num - 1
      /\ Cardinality(enabled) = in.vcpu_num
      /\ Cardinality({k \in enabled : "BP" \in ebda.entries[k].flags}) = 1

\* A 64-bit guest starts with paging on, at the table cr3 points to, if its
\* registers are taken at all (see CR0_PG): all that it was handed, and the local
\* APIC, must be at the same linear address.
LinearIsPhysical ==
  pc = "success" /\ "PG" \in cpu.cr0 =>
    LET first == {copies[c].lo \div PAGE_SIZE_4KB : c \in 1 .. Len(copies)}
        last  == {(copies[c].hi - 1) \div PAGE_SIZE_4KB : c \in 1 .. Len(copies)}
    IN  \A page \in first \cup last \cup {APIC_PAGE} :
          Walk(BOOT_PAGETABLE_BASE \div PAGE_SIZE_4KB, cpu.cr3 \div PAGE_SIZE_4KB, page) = page

\* A vCPU's first instruction is the first of the protected-mode kernel, in
\* 32-bit code without paging or interrupts, with rsi at the boot parameters
\* and all that initRAM has copied within its segments, if KVM has taken the
\* registers of both functions.  Bits, bases and limits are changed one by one,
\* from a state that KVM made, before the memory is filled; a single one missing
\* and the guest starts somewhere else.
KernelEntered ==
  pc = "success" /\ ~in.is_64bit_boot /\ set = {"regs", "sregs"} =>
    /\ Valid(cpu) /\ "PE" \in cpu.cr0 /\ "PG" \notin cpu.cr0
    /\ cpu.cs.db /\ ~cpu.cs.l /\ cpu.rflags = {"INIT"}
    /\ \A c \in 1 .. Len(copies) :
         /\ copies[c].what = "kernel" => LeadsTo(cpu, cpu.cs, cpu.rip, copies[c].lo)
         /\ copies[c].what = "boot_params" => LeadsTo(cpu, cpu.ds, cpu.rsi, copies[c].lo)
         /\ copies[c].hi <= in.ram_size =>
              LeadsTo(cpu, cpu.ds, copies[c].hi - 1, copies[c].hi - 1)

=============================================================================
