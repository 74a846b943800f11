-------------------------- MODULE GuestMemoryProofs --------------------------
(***************************************************************************)
(* For any memory, any files and any number of vCPUs the MP table has room *)
(* for: nothing that is copied into the guest's memory is destroyed if it  *)
(* fits, the guest finds all of it, and it starts at the kernel.           *)
(***************************************************************************)
EXTENDS GuestMemory, FiniteSetTheorems, TLAPS

\* The copies in the order they are made.
Offset == (EffectiveSects(in.setup_sects) + 1) * SECT_SIZE

CopyAt(name, lo, size) == [what |-> name, lo |-> lo, hi |-> lo + size]

Made ==
  << CopyAt("ebda", EBDA_START, EBDA_SIZE),
     CopyAt("initramfs", INITRAMFS_ADDR, in.initramfs),
     CopyAt("cmdline", COMMANDLINE_ADDR, in.cmdline + 1),
     CopyAt("boot_params", BOOT_PARAMS_ADDR, BOOT_PARAMS_SIZE),
     CopyAt("kernel", HIGHMEM_BASE, in.kernel - Offset),
     CopyAt("pagetable", BOOT_PAGETABLE_BASE, BOOT_PAGETABLE_PAGES * PAGE_SIZE_4KB) >>

CopyNames == {Made[c].what : c \in 1 .. 6}

Copies == [what : CopyNames, lo : Nat, hi : Nat]

\* How many have been made.
Progress ==
  /\ pc \in {"regs", "sregs", "ebda", "aborted"} => Len(copies) = 0
  /\ pc = "initramfs" => Len(copies) = 1
  /\ pc = "cmdline" => Len(copies) = 2
  /\ pc \in {"header", "bootparams"} => Len(copies) = 3
  /\ pc = "kernel" => Len(copies) = 4
  /\ pc = "pagetable" => Len(copies) = 5 /\ in.is_64bit_boot
  /\ pc = "success" => Len(copies) = IF in.is_64bit_boot THEN 6 ELSE 5

\* Each of them is what its step makes of the inputs.
CopiesInv ==
  /\ copies \in Seq(Copies)
  /\ Len(copies) <= 6
  /\ \A c \in 1 .. Len(copies) : copies[c] = Made[c]
  /\ Len(copies) >= 5 => in.kernel >= Offset
  /\ Len(copies) >= 6 => in.is_64bit_boot

SectsInv ==
  /\ sects \in 0 .. 255
  /\ pc \in {"bootparams", "kernel", "pagetable", "success"} =>
       sects = EffectiveSects(in.setup_sects)

\* The memory map, once it is written.
Map ==
  << Entry(REALMODE_IVT_START, EBDA_START - REALMODE_IVT_START, "RAM"),
     Entry(EBDA_START, VGARAM_START - EBDA_START, "RESERVED"),
     Entry(MBBIOS_START, MBBIOS_SIZE, "RESERVED"),
     Entry(HIGHMEM_BASE, HighmemSize, "RAM") >>

MapInv ==
  /\ e820 \in {<< >>, Map}
  /\ pc \in {"kernel", "pagetable", "success"} => e820 = Map

EbdaInv ==
  pc \notin {"regs", "sregs", "ebda", "failed", "aborted"} => ebda = gen_ebda(in.vcpu_num)

\* The registers after initVcpuRegs.
Entered == InitRegs(AtReset, HIGHMEM_BASE, BOOT_PARAMS_ADDR)

\* Those a vCPU has, by what KVM has taken.
AfterRegs == IF "regs" \in set THEN Entered ELSE AtReset

CpuInv ==
  /\ set \subseteq {"regs", "sregs"}
  /\ pc = "regs" => set = {}
  /\ pc = "sregs" => "sregs" \notin set
  /\ cpu = IF "sregs" \in set THEN InitSregs(AfterRegs, in.is_64bit_boot) ELSE AfterRegs

IInv ==
  /\ in \in Inputs
  /\ pc \in {"regs", "sregs", "ebda", "initramfs", "cmdline", "header", "bootparams",
             "kernel", "pagetable", "success", "failed", "aborted"}
  /\ Progress /\ CopiesInv /\ SectsInv /\ MapInv /\ EbdaInv /\ CpuInv

-----------------------------------------------------------------------------
(***************************************************************************)
(* The inputs and the copies                                               *)
(***************************************************************************)

LEMMA InputTypes ==
  ASSUME in \in Inputs
  PROVE  /\ in.ram_size \in Nat /\ in.ram_size > INITRAMFS_ADDR
         /\ in.initramfs \in Nat /\ in.kernel \in Nat /\ in.cmdline \in Nat
         /\ in.setup_sects \in 0 .. 255
         /\ in.vcpu_num \in 1 .. MP_MAX_VCPU_NUM
         /\ in.is_64bit_boot \in BOOLEAN
<1>1. /\ in.ram_size \in RamSizes /\ in.initramfs \in InitramfsSizes
      /\ in.kernel \in KernelSizes
  BY SMT DEF Inputs
<1>2. /\ in.setup_sects \in SetupSects /\ in.cmdline \in CmdlineSizes
      /\ in.vcpu_num \in VcpuNums
  BY SMT DEF Inputs
<1>3. in.is_64bit_boot \in BOOLEAN
  BY SMT DEF Inputs
<1>4. in.ram_size \in Nat /\ in.ram_size > INITRAMFS_ADDR
  BY <1>1, GuestMemoryAssumption
<1>5. in.initramfs \in Nat /\ in.kernel \in Nat /\ in.cmdline \in Nat
  BY <1>1, <1>2, GuestMemoryAssumption
<1>6. in.setup_sects \in 0 .. 255 /\ in.vcpu_num \in 1 .. MP_MAX_VCPU_NUM
  BY <1>2, GuestMemoryAssumption
<1>7. QED BY <1>3, <1>4, <1>5, <1>6

\* setup_sects 0 stands for 4; the kernel proper begins behind them.
LEMMA SectsTypes ==
  ASSUME in \in Inputs
  PROVE  /\ EffectiveSects(in.setup_sects) \in 1 .. 255
         /\ Offset \in Nat
         /\ Offset = (1 + IF in.setup_sects = 0 THEN 4 ELSE in.setup_sects) * SECT_SIZE
<1>1. in.setup_sects \in 0 .. 255
  BY InputTypes
<1>2. /\ EffectiveSects(in.setup_sects) \in 1 .. 255
      /\ EffectiveSects(in.setup_sects)
           = IF in.setup_sects = 0 THEN 4 ELSE in.setup_sects
  BY <1>1 DEF EffectiveSects
<1>3. QED BY <1>2 DEF Offset, SECT_SIZE

\* Which copy is where.
LEMMA MadeIs ==
  /\ Made[1] = CopyAt("ebda", EBDA_START, EBDA_SIZE)
  /\ Made[2] = CopyAt("initramfs", INITRAMFS_ADDR, in.initramfs)
  /\ Made[3] = CopyAt("cmdline", COMMANDLINE_ADDR, in.cmdline + 1)
  /\ Made[4] = CopyAt("boot_params", BOOT_PARAMS_ADDR, BOOT_PARAMS_SIZE)
  /\ Made[5] = CopyAt("kernel", HIGHMEM_BASE, in.kernel - Offset)
  /\ Made[6] = CopyAt("pagetable", BOOT_PAGETABLE_BASE,
                      BOOT_PAGETABLE_PAGES * PAGE_SIZE_4KB)
  BY DEF Made

LEMMA CopyAtType ==
  ASSUME NEW c \in 1 .. 6, NEW lo \in Nat, NEW size \in Nat, NEW name,
         Made[c] = CopyAt(name, lo, size)
  PROVE  Made[c] \in Copies
<1>1. Made[c].what = name
  BY DEF CopyAt
<1>2. name \in CopyNames
  BY <1>1 DEF CopyNames
<1>3. lo + size \in Nat
  OBVIOUS
<1>4. QED BY <1>2, <1>3 DEF CopyAt, Copies

\* The next copy in order keeps the copies what they are.
LEMMA NextCopy ==
  ASSUME IInv, in' = in, NEW n \in 0 .. 5, Len(copies) = n,
         copies' = Append(copies, Made[n + 1]),
         Made[n + 1] \in Copies,
         n = 4 => in.kernel >= Offset,
         n = 5 => in.is_64bit_boot
  PROVE  CopiesInv' /\ Len(copies') = n + 1
<1>1. copies \in Seq(Copies) /\ \A c \in 1 .. n : copies[c] = Made[c]
  BY DEF IInv, CopiesInv
<1>2. Copies' = Copies /\ Made' = Made /\ Offset' = Offset
  BY DEF Copies, CopyNames, Made, Offset
<1>3. /\ copies' \in Seq(Copies) /\ Len(copies') = n + 1
      /\ \A c \in 1 .. n : copies'[c] = copies[c]
      /\ copies'[n + 1] = Made[n + 1]
  BY <1>1
<1>4. \A c \in 1 .. n + 1 : copies'[c] = Made[c]
  BY <1>1, <1>3
<1>5. n >= 5 => in.kernel >= Offset
  BY DEF IInv, CopiesInv
<1>6. QED BY <1>2, <1>3, <1>4, <1>5 DEF CopiesInv

-----------------------------------------------------------------------------
(***************************************************************************)
(* The invariant                                                           *)
(***************************************************************************)

LEMMA InitInv == Init => IInv
<1> SUFFICES ASSUME Init PROVE IInv
  OBVIOUS
<1>1. in \in Inputs /\ pc = "regs" /\ copies = << >>
  BY DEF Init
<1>2. Progress
  BY <1>1 DEF Progress
<1>3. CopiesInv
  BY <1>1 DEF CopiesInv
<1>4. SectsInv /\ MapInv /\ EbdaInv /\ CpuInv
  BY DEF Init, SectsInv, MapInv, EbdaInv, CpuInv, AfterRegs
<1>5. QED BY <1>1, <1>2, <1>3, <1>4 DEF IInv

\* Copies, map and the rest stay what they are when nothing is copied.
LEMMA CopiesFrame ==
  ASSUME CopiesInv, UNCHANGED <<in, copies>> PROVE CopiesInv'
<1>1. Copies' = Copies /\ Made' = Made /\ Offset' = Offset
  BY DEF Copies, CopyNames, Made, Offset
<1>2. QED BY <1>1 DEF CopiesInv

LEMMA MapFrame == ASSUME UNCHANGED in PROVE Map' = Map
  BY DEF Map, Entry, HighmemSize

LEMMA FailInv ==
  ASSUME IInv, Fail, pc \notin {"regs", "sregs", "aborted"} PROVE IInv'
<1>1. pc' = "failed" /\ UNCHANGED <<in, copies, e820, sects, ebda, cpu, set>>
  BY DEF Fail, registers
<1>2. CopiesInv'
  BY <1>1, CopiesFrame DEF IInv
<1>3. MapInv'
  BY <1>1, MapFrame DEF IInv, MapInv
<1>4. Progress' /\ SectsInv' /\ EbdaInv'
  BY <1>1 DEF IInv, Progress, SectsInv, EbdaInv
<1>5. CpuInv'
  BY <1>1 DEF IInv, CpuInv, AfterRegs
<1>6. QED BY <1>1, <1>2, <1>3, <1>4, <1>5 DEF IInv

\* The steps that set registers copy nothing.
LEMMA RegsInv == IInv /\ (initVcpuRegs \/ AssertFails \/ initVcpuSregs) => IInv'
<1> SUFFICES ASSUME IInv, initVcpuRegs \/ AssertFails \/ initVcpuSregs PROVE IInv'
  OBVIOUS
<1>1. /\ UNCHANGED <<in, copies, e820, sects, ebda>>
      /\ pc \in {"regs", "sregs"} /\ pc' \in {"sregs", "ebda", "aborted"}
  BY DEF initVcpuRegs, AssertFails, initVcpuSregs
<1>2. CopiesInv'
  BY <1>1, CopiesFrame DEF IInv
<1>3. MapInv'
  BY <1>1, MapFrame DEF IInv, MapInv
<1>4. Progress'
  BY <1>1 DEF IInv, Progress
<1>5. SectsInv' /\ EbdaInv'
  BY <1>1 DEF IInv, SectsInv, EbdaInv
<1>6. CpuInv'
  <2>1. CASE initVcpuRegs
    <3>1. set = {} /\ cpu = AtReset /\ pc' = "sregs"
      BY <2>1 DEF initVcpuRegs, IInv, CpuInv, AfterRegs
    <3>2. CASE UNCHANGED registers
      BY <3>1, <3>2 DEF registers, CpuInv, AfterRegs
    <3>3. CASE cpu' = Entered /\ set' = {"regs"}
      BY <3>1, <3>3 DEF CpuInv, AfterRegs
    <3>4. QED BY <2>1, <3>1, <3>2, <3>3 DEF initVcpuRegs, Entered
  <2>2. CASE AssertFails
    BY <2>2 DEF AssertFails, registers, IInv, CpuInv, AfterRegs
  <2>3. CASE initVcpuSregs
    BY <2>3 DEF initVcpuSregs, registers, IInv, CpuInv, AfterRegs
  <2>4. QED BY <2>1, <2>2, <2>3
<1>7. QED BY <1>1, <1>2, <1>3, <1>4, <1>5, <1>6 DEF IInv

\* What a successful copy leaves to show: which copy it was.
LEMMA CopyStep ==
  ASSUME IInv, UNCHANGED <<in, sects, cpu, set>>,
         pc \in {"ebda", "initramfs", "cmdline", "bootparams", "kernel", "pagetable"},
         pc' \in {"initramfs", "cmdline", "header", "kernel", "pagetable", "success"},
         CopiesInv', Progress', EbdaInv', MapInv',
         pc' \in {"kernel", "pagetable", "success"} =>
           pc \in {"bootparams", "kernel", "pagetable"}
  PROVE  IInv'
<1>1. SectsInv'
  BY DEF IInv, SectsInv
<1>2. CpuInv'
  BY DEF IInv, CpuInv, AfterRegs
<1>3. QED BY <1>1, <1>2 DEF IInv

LEMMA CopyEBDAInv == IInv /\ CopyEBDA => IInv'
<1> SUFFICES ASSUME IInv, CopyEBDA PROVE IInv'
  OBVIOUS
<1>1. /\ pc = "ebda" /\ pc' = "initramfs" /\ UNCHANGED <<in, e820, sects, cpu, set>>
      /\ ebda' = gen_ebda(in.vcpu_num)
      /\ copies' = Append(copies, Made[0 + 1])
  BY MadeIs DEF registers, CopyEBDA, Copy, CopyAt
<1>2. Made[0 + 1] \in Copies
  <2>1. EBDA_START \in Nat /\ EBDA_SIZE \in Nat
    BY SMT DEF EBDA_START, EBDA_SIZE, EBDA_PADDING_SIZE, FPS_SIZE, HEADER_SIZE,
               MP_MAX_VCPU_NUM, ENTRY_SIZE
  <2>2. QED BY <2>1, CopyAtType, MadeIs
<1>3. Len(copies) = 0
  BY <1>1 DEF IInv, Progress
<1>4. CopiesInv' /\ Len(copies') = 0 + 1
  BY <1>1, <1>2, <1>3, NextCopy
<1>5. Progress'
  BY <1>1, <1>4 DEF Progress
<1>6. EbdaInv'
  BY <1>1 DEF EbdaInv
<1>7. MapInv'
  BY <1>1, MapFrame DEF IInv, MapInv
<1>8. QED BY <1>1, <1>4, <1>5, <1>6, <1>7, CopyStep

LEMMA LoadInitramfsInv == IInv /\ LoadInitramfs => IInv'
<1> SUFFICES ASSUME IInv, LoadInitramfs, ~Fail PROVE IInv'
  BY FailInv DEF LoadInitramfs
<1>1. /\ pc = "initramfs" /\ pc' = "cmdline" /\ UNCHANGED <<in, e820, sects, ebda, cpu, set>>
      /\ copies' = Append(copies, Made[1 + 1])
  BY MadeIs DEF registers, LoadInitramfs, Copy, CopyAt
<1>2. Made[1 + 1] \in Copies
  BY CopyAtType, MadeIs, InputTypes DEF INITRAMFS_ADDR, IInv
<1>3. Len(copies) = 1
  BY <1>1 DEF IInv, Progress
<1>4. CopiesInv' /\ Len(copies') = 1 + 1
  BY <1>1, <1>2, <1>3, NextCopy
<1>5. Progress'
  BY <1>1, <1>4 DEF Progress
<1>6. EbdaInv'
  BY <1>1 DEF IInv, EbdaInv
<1>7. MapInv'
  BY <1>1, MapFrame DEF IInv, MapInv
<1>8. QED BY <1>1, <1>4, <1>5, <1>6, <1>7, CopyStep

LEMMA CopyCmdlineInv == IInv /\ CopyCmdline => IInv'
<1> SUFFICES ASSUME IInv, CopyCmdline PROVE IInv'
  OBVIOUS
<1>1. /\ pc = "cmdline" /\ pc' = "header" /\ UNCHANGED <<in, e820, sects, ebda, cpu, set>>
      /\ copies' = Append(copies, Made[2 + 1])
  BY MadeIs DEF registers, CopyCmdline, Copy, CopyAt, CmdlineBytes
<1>2. Made[2 + 1] \in Copies
  <2>1. in.cmdline + 1 \in Nat /\ COMMANDLINE_ADDR \in Nat
    BY InputTypes DEF COMMANDLINE_ADDR, IInv
  <2>2. QED BY <2>1, CopyAtType, MadeIs
<1>3. Len(copies) = 2
  BY <1>1 DEF IInv, Progress
<1>4. CopiesInv' /\ Len(copies') = 2 + 1
  BY <1>1, <1>2, <1>3, NextCopy
<1>5. Progress'
  BY <1>1, <1>4 DEF Progress
<1>6. EbdaInv'
  BY <1>1 DEF IInv, EbdaInv
<1>7. MapInv'
  BY <1>1, MapFrame DEF IInv, MapInv
<1>8. QED BY <1>1, <1>4, <1>5, <1>6, <1>7, CopyStep

LEMMA ReadHeaderInv == IInv /\ ReadHeader => IInv'
<1> SUFFICES ASSUME IInv, ReadHeader, ~Fail PROVE IInv'
  BY FailInv DEF ReadHeader
<1>1. /\ pc = "header" /\ pc' = "bootparams" /\ UNCHANGED <<in, copies, e820, ebda, cpu, set>>
      /\ sects' = EffectiveSects(in.setup_sects)
  BY DEF registers, ReadHeader
<1>2. CopiesInv' /\ MapInv'
  BY <1>1, CopiesFrame, MapFrame DEF IInv, MapInv
<1>3. Progress' /\ EbdaInv' /\ CpuInv'
  BY <1>1 DEF IInv, Progress, EbdaInv, CpuInv, AfterRegs
<1>4. SectsInv'
  BY <1>1, SectsTypes DEF IInv, SectsInv
<1>5. QED BY <1>1, <1>2, <1>3, <1>4 DEF IInv

LEMMA CopyBootParamsInv == IInv /\ CopyBootParams => IInv'
<1> SUFFICES ASSUME IInv, CopyBootParams PROVE IInv'
  OBVIOUS
<1>1. /\ pc = "bootparams" /\ pc' = "kernel" /\ UNCHANGED <<in, sects, ebda, cpu, set>>
      /\ e820' = Map /\ copies' = Append(copies, Made[3 + 1])
  BY MadeIs DEF registers, CopyBootParams, Copy, CopyAt, Map
<1>2. Made[3 + 1] \in Copies
  <2>1. BOOT_PARAMS_ADDR \in Nat /\ BOOT_PARAMS_SIZE \in Nat
    BY SMT DEF BOOT_PARAMS_ADDR, BOOT_PARAMS_SIZE
  <2>2. QED BY <2>1, CopyAtType, MadeIs
<1>3. Len(copies) = 3
  BY <1>1 DEF IInv, Progress
<1>4. CopiesInv' /\ Len(copies') = 3 + 1
  BY <1>1, <1>2, <1>3, NextCopy
<1>5. Progress'
  BY <1>1, <1>4 DEF Progress
<1>6. EbdaInv'
  BY <1>1 DEF IInv, EbdaInv
<1>7. MapInv'
  BY <1>1, MapFrame DEF MapInv
<1>8. QED BY <1>1, <1>4, <1>5, <1>6, <1>7, CopyStep

LEMMA LoadKernelInv == IInv /\ LoadKernel => IInv'
<1> SUFFICES ASSUME IInv, LoadKernel, ~Fail PROVE IInv'
  BY FailInv DEF LoadKernel
<1>1. pc = "kernel" /\ kernel_load_offset = Offset
  BY DEF registers, LoadKernel, kernel_load_offset, Offset, IInv, SectsInv
<1>2. /\ pc' = (IF in.is_64bit_boot THEN "pagetable" ELSE "success")
      /\ UNCHANGED <<in, e820, sects, ebda, cpu, set>>
      /\ in.kernel >= Offset
      /\ copies' = Append(copies, Made[4 + 1])
  BY <1>1, MadeIs DEF registers, LoadKernel, Copy, CopyAt
<1>3. Made[4 + 1] \in Copies
  <2>1. in.kernel - Offset \in Nat /\ HIGHMEM_BASE \in Nat
    BY <1>2, InputTypes, SectsTypes DEF HIGHMEM_BASE, IInv
  <2>2. QED BY <2>1, CopyAtType, MadeIs
<1>4. Len(copies) = 4
  BY <1>1 DEF IInv, Progress
<1>5. CopiesInv' /\ Len(copies') = 4 + 1
  BY <1>2, <1>3, <1>4, NextCopy
<1>6. Progress'
  BY <1>2, <1>5, InputTypes DEF Progress, IInv
<1>7. EbdaInv'
  BY <1>1, <1>2 DEF IInv, EbdaInv
<1>8. MapInv'
  BY <1>1, <1>2, MapFrame DEF IInv, MapInv
<1>9. QED BY <1>1, <1>2, <1>5, <1>6, <1>7, <1>8, CopyStep

LEMMA CreatePageTableInv == IInv /\ createPageTable => IInv'
<1> SUFFICES ASSUME IInv, createPageTable PROVE IInv'
  OBVIOUS
<1>1. /\ pc = "pagetable" /\ pc' = "success" /\ UNCHANGED <<in, e820, sects, ebda, cpu, set>>
      /\ copies' = Append(copies, Made[5 + 1])
  BY MadeIs DEF registers, createPageTable, Copy, CopyAt
<1>2. Made[5 + 1] \in Copies
  <2>1. BOOT_PAGETABLE_BASE \in Nat /\ BOOT_PAGETABLE_PAGES * PAGE_SIZE_4KB \in Nat
    BY SMT DEF BOOT_PAGETABLE_BASE, BOOT_PAGETABLE_PAGES, PAGE_SIZE_4KB
  <2>2. QED BY <2>1, CopyAtType, MadeIs
<1>3. Len(copies) = 5 /\ in.is_64bit_boot
  BY <1>1 DEF IInv, Progress
<1>4. CopiesInv' /\ Len(copies') = 5 + 1
  BY <1>1, <1>2, <1>3, NextCopy
<1>5. Progress'
  BY <1>1, <1>3, <1>4 DEF Progress
<1>6. EbdaInv'
  BY <1>1 DEF IInv, EbdaInv
<1>7. MapInv'
  BY <1>1, MapFrame DEF IInv, MapInv
<1>8. QED BY <1>1, <1>4, <1>5, <1>6, <1>7, CopyStep

LEMMA NextInv == IInv /\ [Next]_vars => IInv'
<1> SUFFICES ASSUME IInv, [Next]_vars PROVE IInv'
  OBVIOUS
<1>1. CASE UNCHANGED vars
  <2>1. CopiesInv' /\ MapInv'
    BY <1>1, CopiesFrame, MapFrame DEF vars, IInv, MapInv
  <2>2. Progress' /\ SectsInv'
    BY <1>1 DEF vars, IInv, Progress, SectsInv
  <2>3. EbdaInv' /\ CpuInv'
    BY <1>1 DEF vars, IInv, EbdaInv, CpuInv, AfterRegs
  <2>4. QED BY <1>1, <2>1, <2>2, <2>3 DEF vars, IInv
<1>2. QED
  BY <1>1, RegsInv, CopyEBDAInv, LoadInitramfsInv, CopyCmdlineInv, ReadHeaderInv,
     CopyBootParamsInv, LoadKernelInv, CreatePageTableInv DEF Next

\* The four entries of the map.
LEMMA MapIs ==
  /\ Len(Map) = 4 /\ \A k \in 1 .. Len(Map) : k \in {1, 2, 3, 4}
  /\ Map[1].lo = REALMODE_IVT_START /\ Map[1].type = "RAM"
  /\ Map[1].hi = REALMODE_IVT_START + (EBDA_START - REALMODE_IVT_START)
  /\ Map[2].lo = EBDA_START /\ Map[2].type = "RESERVED"
  /\ Map[2].hi = EBDA_START + (VGARAM_START - EBDA_START)
  /\ Map[3].lo = MBBIOS_START /\ Map[3].type = "RESERVED"
  /\ Map[3].hi = MBBIOS_START + MBBIOS_SIZE
  /\ Map[4].lo = HIGHMEM_BASE /\ Map[4].type = "RAM"
  /\ Map[4].hi = HIGHMEM_BASE + (in.ram_size - HIGHMEM_BASE)
<1>1. Len(Map) = 4 /\ \A k \in 1 .. Len(Map) : k \in {1, 2, 3, 4}
  BY DEF Map
<1>2. /\ Map[1] = Entry(REALMODE_IVT_START, EBDA_START - REALMODE_IVT_START, "RAM")
      /\ Map[2] = Entry(EBDA_START, VGARAM_START - EBDA_START, "RESERVED")
      /\ Map[3] = Entry(MBBIOS_START, MBBIOS_SIZE, "RESERVED")
      /\ Map[4] = Entry(HIGHMEM_BASE, HighmemSize, "RAM")
  BY DEF Map
<1>3. QED BY <1>1, <1>2 DEF Entry, HighmemSize

\* Types; once the header is read, setup_sects is never the 0 that stands for 4.
THEOREM TypeCorrect == Spec => []TypeOK
<1>1. IInv => TypeOK
  <2> SUFFICES ASSUME IInv PROVE TypeOK
    OBVIOUS
  <2>1. /\ sects \in 0 .. 255
        /\ pc \in {"bootparams", "kernel", "success"} => sects > 0
    BY SectsTypes DEF IInv, SectsInv
  <2>2. \A c \in 1 .. Len(copies) : copies[c].lo \in Nat /\ copies[c].hi \in Nat
    <3>1. \A c \in 1 .. Len(copies) : copies[c] \in Copies
      BY DEF IInv, CopiesInv
    <3>2. QED BY <3>1 DEF Copies
  <2>3. \A k \in 1 .. Len(e820) : e820[k].type \in {"RAM", "RESERVED"}
    <3>1. CASE e820 = << >>
      BY <3>1
    <3>2. CASE e820 = Map
      BY <3>2, MapIs
    <3>3. QED BY <3>1, <3>2 DEF IInv, MapInv
  <2>4. QED BY <2>1, <2>2, <2>3 DEF TypeOK, IInv, CpuInv
<1>2. QED BY InitInv, NextInv, <1>1, PTL DEF Spec

-----------------------------------------------------------------------------
(***************************************************************************)
(* Where everything is                                                     *)
(***************************************************************************)

\* The map has no overlap, ends with the memory and spares the I/O hole.
THEOREM MapIsSound == Spec => []MapSound
<1>1. IInv => MapSound
  <2> SUFFICES ASSUME IInv PROVE MapSound
    OBVIOUS
  <2>1. CASE e820 = << >>
    BY <2>1 DEF MapSound
  <2>2. CASE e820 = Map
    <3>1. in.ram_size \in Nat /\ in.ram_size > INITRAMFS_ADDR
      BY InputTypes DEF IInv
    <3>2. \A k \in 1 .. Len(Map) - 1 : k \in {1, 2, 3} /\ k + 1 \in {2, 3, 4}
      BY MapIs
    <3> USE DEF REALMODE_IVT_START, EBDA_START, VGARAM_START, MBBIOS_START, MBBIOS_SIZE,
                HIGHMEM_BASE, INITRAMFS_ADDR
    <3>3. /\ Map[1].hi <= Map[2].lo /\ Map[2].hi <= Map[3].lo /\ Map[3].hi <= Map[4].lo
          /\ Map[1].lo < Map[1].hi /\ Map[2].lo < Map[2].hi
          /\ Map[3].lo < Map[3].hi /\ Map[4].lo < Map[4].hi
          /\ Map[1].hi <= in.ram_size /\ Map[2].hi <= in.ram_size
          /\ Map[3].hi <= in.ram_size /\ Map[4].hi <= in.ram_size
      BY <3>1, MapIs
    <3>4. Map[1].hi <= VGARAM_START /\ Map[4].lo >= HIGHMEM_BASE
      BY MapIs
    <3>5. \A k \in 1 .. Len(Map) - 1 : Map[k].hi <= Map[k + 1].lo
      BY <3>2, <3>3
    <3>6. \A k \in 1 .. Len(Map) : Map[k].lo < Map[k].hi /\ Map[k].hi <= in.ram_size
      BY <3>3, MapIs
    <3>7. \A k \in 1 .. Len(Map) : Map[k].type = "RAM" =>
            Map[k].hi <= VGARAM_START \/ Map[k].lo >= HIGHMEM_BASE
      BY <3>4, MapIs
    <3>8. QED BY <2>2, <3>5, <3>6, <3>7 DEF MapSound
  <2>3. QED BY <2>1, <2>2 DEF IInv, MapInv
<1>2. QED BY InitInv, NextInv, <1>1, PTL DEF Spec

\* Where each copy is.
LEMMA Places ==
  /\ Made[1].lo = EBDA_START /\ Made[1].hi = EBDA_START + EBDA_SIZE
  /\ Made[2].lo = INITRAMFS_ADDR /\ Made[2].hi = INITRAMFS_ADDR + in.initramfs
  /\ Made[3].lo = COMMANDLINE_ADDR /\ Made[3].hi = COMMANDLINE_ADDR + (in.cmdline + 1)
  /\ Made[4].lo = BOOT_PARAMS_ADDR /\ Made[4].hi = BOOT_PARAMS_ADDR + BOOT_PARAMS_SIZE
  /\ Made[5].lo = HIGHMEM_BASE /\ Made[5].hi = HIGHMEM_BASE + (in.kernel - Offset)
  /\ Made[6].lo = BOOT_PAGETABLE_BASE
  /\ Made[6].hi = BOOT_PAGETABLE_BASE + BOOT_PAGETABLE_PAGES * PAGE_SIZE_4KB
  BY MadeIs DEF CopyAt

\* The order of the copies in memory if everything fits: boot parameters,
\* command line, page table, MP structures, kernel, initramfs.
LEMMA InOrder ==
  ASSUME IInv, Fits
  PROVE  /\ Made[1].lo \in Nat /\ Made[1].hi \in Nat /\ Made[1].lo <= Made[1].hi
         /\ Made[2].lo \in Nat /\ Made[2].hi \in Nat /\ Made[2].lo <= Made[2].hi
         /\ Made[3].lo \in Nat /\ Made[3].hi \in Nat /\ Made[3].lo <= Made[3].hi
         /\ Made[4].lo \in Nat /\ Made[4].hi \in Nat /\ Made[4].lo <= Made[4].hi
         /\ Made[6].lo \in Nat /\ Made[6].hi \in Nat /\ Made[6].lo <= Made[6].hi
         /\ Made[4].hi <= Made[3].lo /\ Made[3].hi <= Made[1].lo
         /\ in.is_64bit_boot => Made[3].hi <= Made[6].lo
         /\ Made[3].lo <= Made[6].lo /\ Made[6].hi <= Made[1].lo
         /\ Made[1].hi <= Made[5].lo /\ Made[5].hi <= Made[2].lo
         /\ Made[5].lo <= Made[2].lo /\ Made[2].hi <= in.ram_size
<1>1. /\ in.ram_size \in Nat /\ in.ram_size > INITRAMFS_ADDR /\ in.initramfs \in Nat
      /\ in.kernel \in Nat /\ in.cmdline \in Nat /\ Offset \in Nat
  BY InputTypes, SectsTypes DEF IInv
<1>2. /\ in.kernel - Offset <= INITRAMFS_ADDR - HIGHMEM_BASE
      /\ INITRAMFS_ADDR + in.initramfs <= in.ram_size
      /\ COMMANDLINE_ADDR + in.cmdline
           < IF in.is_64bit_boot THEN BOOT_PAGETABLE_BASE ELSE EBDA_START
  BY SectsTypes DEF Fits, IInv
<1> USE DEF EBDA_START, INITRAMFS_ADDR, COMMANDLINE_ADDR, BOOT_PARAMS_ADDR,
            BOOT_PARAMS_SIZE, HIGHMEM_BASE, BOOT_PAGETABLE_BASE, BOOT_PAGETABLE_PAGES,
            PAGE_SIZE_4KB, EBDA_SIZE, EBDA_PADDING_SIZE, FPS_SIZE, HEADER_SIZE,
            MP_MAX_VCPU_NUM, ENTRY_SIZE
<1>3. /\ Made[1].lo \in Nat /\ Made[1].hi \in Nat /\ Made[1].lo <= Made[1].hi
      /\ Made[2].lo \in Nat /\ Made[2].hi \in Nat /\ Made[2].lo <= Made[2].hi
      /\ Made[3].lo \in Nat /\ Made[3].hi \in Nat /\ Made[3].lo <= Made[3].hi
      /\ Made[4].lo \in Nat /\ Made[4].hi \in Nat /\ Made[4].lo <= Made[4].hi
      /\ Made[6].lo \in Nat /\ Made[6].hi \in Nat /\ Made[6].lo <= Made[6].hi
  BY <1>1, Places
<1>4. /\ Made[4].hi <= Made[3].lo /\ Made[3].lo <= Made[6].lo
      /\ Made[6].hi <= Made[1].lo /\ Made[1].hi <= Made[5].lo
  BY <1>1, Places
<1>5. /\ Made[3].hi <= Made[1].lo
      /\ in.is_64bit_boot => Made[3].hi <= Made[6].lo
  BY <1>1, Places, <1>2
<1>6. /\ Made[5].lo <= Made[2].lo
      /\ Made[5].hi <= Made[2].lo /\ Made[2].hi <= in.ram_size
  BY <1>1, Places, <1>2
<1>7. QED BY <1>3, <1>4, <1>5, <1>6

\* Inputs that fit are loaded whole: no copy destroys another.
THEOREM NothingDestroyed == Spec => []Intact
<1>1. IInv => Intact
  <2> SUFFICES ASSUME IInv, Fits,
                      NEW c \in 1 .. Len(copies), NEW d \in 1 .. Len(copies), c # d
               PROVE  Apart(copies[c], copies[d])
    BY DEF Intact
  <2>1. /\ c \in 1 .. 6 /\ d \in 1 .. 6
        /\ copies[c] = Made[c] /\ copies[d] = Made[d]
        /\ c = 6 \/ d = 6 => in.is_64bit_boot
    BY DEF IInv, CopiesInv
  <2>2. c \in {1, 2, 3, 4, 5, 6} /\ d \in {1, 2, 3, 4, 5, 6}
    BY <2>1
  <2> DEFINE lo(a) == Made[a].lo
             hi(a) == Made[a].hi
             Before(a, b) == hi(a) <= lo(b)
  <2>3. lo(1) \in Nat /\ hi(1) \in Nat /\ lo(1) <= hi(1)
    BY InOrder, Zenon
  <2>4. lo(3) \in Nat /\ hi(3) \in Nat /\ lo(3) <= hi(3)
    BY InOrder, Zenon
  <2>5. lo(6) \in Nat /\ hi(6) \in Nat /\ lo(6) <= hi(6)
    BY InOrder, Zenon
  <2>6. lo(2) \in Nat /\ hi(4) \in Nat
    BY InOrder, Zenon
  <2>7. lo(5) \in Int /\ hi(5) \in Int
    BY MadeIs, InputTypes, SectsTypes DEF CopyAt, HIGHMEM_BASE, IInv
  <2>8. Before(4, 3) /\ Before(3, 1) /\ Before(1, 5) /\ Before(5, 2) /\ Before(6, 1)
    BY InOrder, Zenon
  <2>9. /\ in.is_64bit_boot => Before(3, 6)
        /\ lo(3) <= lo(6) /\ lo(5) <= lo(2)
    BY InOrder, Zenon
  <2> HIDE DEF lo, hi
  <2>10. Before(4, 1)
    BY <2>3, <2>4, <2>6, <2>8
  <2>11. Before(4, 6)
    BY <2>4, <2>5, <2>6, <2>8, <2>9
  <2>12. Before(4, 5)
    BY <2>3, <2>6, <2>7, <2>8, <2>10
  <2>13. Before(3, 5)
    BY <2>3, <2>4, <2>7, <2>8
  <2>14. Before(6, 5)
    BY <2>3, <2>5, <2>7, <2>8
  <2>15. Before(1, 2)
    BY <2>3, <2>6, <2>7, <2>8, <2>9
  <2>16. Before(3, 2)
    BY <2>4, <2>6, <2>7, <2>8, <2>9, <2>13
  <2>17. Before(4, 2)
    BY <2>6, <2>7, <2>8, <2>9, <2>12
  <2>18. Before(6, 2)
    BY <2>5, <2>6, <2>7, <2>8, <2>9, <2>14
  <2> HIDE DEF Before
  <2>19. Before(c, d) \/ Before(d, c)
    <3>1. CASE 2 \in {c, d}
      BY <3>1, <2>1, <2>2, <2>8, <2>15, <2>16, <2>17, <2>18
    <3>2. CASE 5 \in {c, d} /\ 2 \notin {c, d}
      BY <3>2, <2>1, <2>2, <2>8, <2>12, <2>13, <2>14
    <3>3. CASE 5 \notin {c, d} /\ 2 \notin {c, d}
      BY <3>3, <2>1, <2>2, <2>8, <2>9, <2>10, <2>11
    <3>4. QED BY <3>1, <3>2, <3>3
  <2>20. QED BY <2>1, <2>19 DEF Apart, Before, lo, hi
<1>2. QED BY InitInv, NextInv, <1>1, PTL DEF Spec

\* The copies of a start that succeeds.
LEMMA AllMade ==
  ASSUME IInv, pc = "success"
  PROVE  /\ \A c \in 1 .. 5 : c \in 1 .. Len(copies) /\ copies[c] = Made[c]
         /\ in.is_64bit_boot => 6 \in 1 .. Len(copies) /\ copies[6] = Made[6]
         /\ Len(copies) <= 6 /\ (Len(copies) = 6 => in.is_64bit_boot)
         /\ \A c \in 1 .. Len(copies) : copies[c] = Made[c] /\ c \in {1, 2, 3, 4, 5, 6}
<1>1. Len(copies) = IF in.is_64bit_boot THEN 6 ELSE 5
  BY DEF IInv, Progress
<1>2. in.is_64bit_boot \in BOOLEAN
  BY InputTypes DEF IInv
<1>3. \A c \in 1 .. Len(copies) : copies[c] = Made[c]
  BY DEF IInv, CopiesInv
<1>4. QED BY <1>1, <1>2, <1>3

\* What does not fit destroys something or is outside the memory.
THEOREM FitIsExact == Spec => []FitsIsExact
<1>1. IInv => FitsIsExact
  <2> SUFFICES ASSUME IInv, pc = "success", ~Fits
               PROVE  \/ \E c, d \in 1 .. Len(copies) : c # d /\ ~Apart(copies[c], copies[d])
                      \/ \E c \in 1 .. Len(copies) : copies[c].hi > in.ram_size
    BY DEF FitsIsExact
  <2>1. /\ in.ram_size \in Nat /\ in.initramfs \in Nat /\ in.kernel \in Nat
        /\ in.cmdline \in Nat /\ Offset \in Nat /\ in.is_64bit_boot \in BOOLEAN
    BY InputTypes, SectsTypes DEF IInv
  <2>2. \/ in.kernel - Offset > INITRAMFS_ADDR - HIGHMEM_BASE
        \/ INITRAMFS_ADDR + in.initramfs > in.ram_size
        \/ in.is_64bit_boot /\ COMMANDLINE_ADDR + in.cmdline >= BOOT_PAGETABLE_BASE
        \/ ~in.is_64bit_boot /\ COMMANDLINE_ADDR + in.cmdline >= EBDA_START
    BY <2>1, SectsTypes, SMT DEF Fits, IInv, INITRAMFS_ADDR, HIGHMEM_BASE, COMMANDLINE_ADDR,
       BOOT_PAGETABLE_BASE, EBDA_START
  <2> USE DEF INITRAMFS_ADDR, HIGHMEM_BASE, COMMANDLINE_ADDR, BOOT_PAGETABLE_BASE,
              BOOT_PAGETABLE_PAGES, PAGE_SIZE_4KB, EBDA_START, EBDA_SIZE,
              EBDA_PADDING_SIZE, FPS_SIZE, HEADER_SIZE, MP_MAX_VCPU_NUM, ENTRY_SIZE
  <2>3. CASE in.kernel - Offset > INITRAMFS_ADDR - HIGHMEM_BASE
    <3>1. ~(Made[5].hi <= Made[2].lo) /\ ~(Made[2].hi <= Made[5].lo)
      BY <2>1, <2>3, Places, SMT
    <3>2. QED BY <3>1, AllMade DEF Apart
  <2>4. CASE INITRAMFS_ADDR + in.initramfs > in.ram_size
    BY <2>4, Places, AllMade, SMT
  <2>5. CASE in.is_64bit_boot /\ COMMANDLINE_ADDR + in.cmdline >= BOOT_PAGETABLE_BASE
    <3>1. ~(Made[3].hi <= Made[6].lo) /\ ~(Made[6].hi <= Made[3].lo)
      BY <2>1, <2>5, Places, SMT
    <3>2. QED BY <2>5, <3>1, AllMade DEF Apart
  <2>6. CASE ~in.is_64bit_boot /\ COMMANDLINE_ADDR + in.cmdline >= EBDA_START
    <3>1. ~(Made[3].hi <= Made[1].lo) /\ ~(Made[1].hi <= Made[3].lo)
      BY <2>1, <2>6, Places, SMT
    <3>2. QED BY <3>1, AllMade DEF Apart
  <2>7. QED BY <2>2, <2>3, <2>4, <2>5, <2>6
<1>2. QED BY InitInv, NextInv, <1>1, PTL DEF Spec

\* The guest is told to keep off the MP structures, and that everything else it
\* is handed is in memory it may use.
THEOREM EverythingMapped == Spec => []CopiesMapped
<1>1. IInv => CopiesMapped
  <2> SUFFICES ASSUME IInv, pc = "success", Fits, NEW c \in 1 .. Len(copies)
               PROVE  \E k \in 1 .. Len(e820) :
                        /\ e820[k].lo <= copies[c].lo /\ copies[c].hi <= e820[k].hi
                        /\ e820[k].type = IF copies[c].what = "ebda" THEN "RESERVED" ELSE "RAM"
    BY DEF CopiesMapped
  <2> DEFINE Holds(k, m) ==
        /\ Map[k].lo <= m.lo /\ m.hi <= Map[k].hi
        /\ Map[k].type = IF m.what = "ebda" THEN "RESERVED" ELSE "RAM"
  <2>1. e820 = Map /\ \A k \in {1, 2, 3, 4} : k \in 1 .. Len(e820)
    <3>1. e820 = Map
      BY DEF IInv, MapInv
    <3>2. Len(Map) = 4
      BY MapIs, Zenon
    <3>3. QED BY <3>1, <3>2
  <2>2. copies[c] = Made[c] /\ c \in {1, 2, 3, 4, 5, 6}
    BY AllMade
  <2>3. /\ in.ram_size \in Nat /\ in.initramfs \in Nat /\ in.kernel \in Nat
        /\ in.ram_size > INITRAMFS_ADDR
        /\ in.cmdline \in Nat /\ Offset \in Nat
    BY InputTypes, SectsTypes DEF IInv
  <2>4. /\ Made[1].what = "ebda" /\ Made[2].what = "initramfs" /\ Made[3].what = "cmdline"
        /\ Made[4].what = "boot_params" /\ Made[5].what = "kernel"
        /\ Made[6].what = "pagetable"
    BY MadeIs DEF CopyAt
  <2>5. Made[3].hi <= Made[1].lo /\ Made[5].hi <= Made[2].lo /\ Made[2].hi <= in.ram_size
    BY InOrder, Zenon
  <2> USE DEF INITRAMFS_ADDR, HIGHMEM_BASE, COMMANDLINE_ADDR, BOOT_PAGETABLE_BASE,
              BOOT_PAGETABLE_PAGES, PAGE_SIZE_4KB, EBDA_START, EBDA_SIZE,
              EBDA_PADDING_SIZE, FPS_SIZE, HEADER_SIZE, MP_MAX_VCPU_NUM, ENTRY_SIZE,
              BOOT_PARAMS_ADDR, BOOT_PARAMS_SIZE, REALMODE_IVT_START, VGARAM_START
  <2>6. Holds(2, Made[1])
    BY <2>4, Places, MapIs, SMT
  <2>7. Holds(1, Made[3])
    BY <2>3, <2>4, <2>5, Places, MapIs, SMT
  <2>8. Holds(1, Made[4])
    BY <2>4, Places, MapIs, SMT
  <2>9. Holds(1, Made[6])
    BY <2>4, Places, MapIs, SMT
  <2>10. Map[4].lo = HIGHMEM_BASE /\ Map[4].hi = in.ram_size /\ Map[4].type = "RAM"
    <3>1. Map[4].lo = HIGHMEM_BASE /\ Map[4].hi = HIGHMEM_BASE + (in.ram_size - HIGHMEM_BASE)
      BY MapIs, SMT
    <3>2. Map[4].type = "RAM"
      BY MapIs, SMT
    <3>3. QED BY <2>3, <3>1, <3>2, SMT
  <2>11. Holds(4, Made[2])
    BY <2>4, <2>5, <2>10, Places, SMT
  <2>12. Holds(4, Made[5])
    <3>1. Made[5].lo = HIGHMEM_BASE /\ Made[5].hi = HIGHMEM_BASE + (in.kernel - Offset)
      BY Places, SMT
    <3>2. Made[5].hi <= INITRAMFS_ADDR
      BY <2>5, Places, SMT
    <3>3. Made[5].hi <= in.ram_size
      BY <2>3, <3>1, <3>2, SMT
    <3>4. QED BY <2>4, <2>10, <3>1, <3>3, SMT
  <2> HIDE DEF Holds
  <2>13. \E k \in {1, 2, 3, 4} : Holds(k, Made[c])
    BY <2>2, <2>6, <2>7, <2>8, <2>9, <2>11, <2>12
  <2>14. QED BY <2>1, <2>2, <2>13 DEF Holds
<1>2. QED BY InitInv, NextInv, <1>1, PTL DEF Spec

-----------------------------------------------------------------------------
(***************************************************************************)
(* The MP structures                                                       *)
(***************************************************************************)

\* The two's complement of a sum of bytes makes the sum 0 modulo 256.
LEMMA ChecksumCompletes ==
  ASSUME NEW sum \in Nat PROVE (sum + mp_gen_checksum(sum)) % 256 = 0
  BY SMT DEF mp_gen_checksum

LEMMA SumsAreNat ==
  ASSUME NEW n \in 1 .. MP_MAX_VCPU_NUM
  PROVE  FpsSum \in Nat /\ HeaderSum + EntriesSum(n) \in Nat
<1>1. FpsSum \in Nat
  BY SMT DEF FpsSum, ByteSum, phys_addr_ptr, EBDA_START
<1>2. HeaderSum \in Nat
  BY SMT DEF HeaderSum, ByteSum, HEADER_SIZE, MP_MAX_VCPU_NUM, ENTRY_SIZE
<1>3. n \in Nat /\ n - 1 \in Nat
  BY SMT DEF MP_MAX_VCPU_NUM
<1>4. n * (n - 1) \in Nat
  BY <1>3, SMT
<1>5. (n * (n - 1)) \div 2 \in Nat
  <2>1. \A m \in Nat : m \div 2 \in Nat
    BY SMT
  <2>2. QED BY <1>4, <2>1
<1>6. EntriesSum(n) \in Nat
  BY <1>3, <1>5, SMT DEF EntriesSum
<1>7. QED BY <1>1, <1>2, <1>6, SMT

\* The first n entries are those of processors 0 to n - 1, the first of which
\* boots; the others are not enabled.
LEMMA EnabledEntries ==
  ASSUME NEW n \in 1 .. MP_MAX_VCPU_NUM, NEW k \in 1 .. MP_MAX_VCPU_NUM
  PROVE  LET entry == gen_ebda(n).entries[k] IN
           /\ "EN" \in entry.flags <=> k <= n
           /\ k <= n => entry.local_apic_id = k - 1
           /\ "BP" \in entry.flags <=> k = 1
<1>1. gen_ebda(n).entries[k] = ProcessorEntry(k - 1, n)
  BY DEF gen_ebda
<1>2. k \in Int /\ n \in Int /\ 1 <= k /\ 1 <= n
  BY SMT DEF MP_MAX_VCPU_NUM
<1>3. k - 1 < n <=> k <= n
  BY <1>2, SMT
<1>4. /\ "EN" \in cpu_flags(k - 1, n) <=> k <= n
      /\ "BP" \in cpu_flags(k - 1, n) <=> k = 1
  BY <1>2, SMT DEF cpu_flags
<1>5. k <= n => ProcessorEntry(k - 1, n).local_apic_id = k - 1
  BY <1>3 DEF ProcessorEntry
<1>6. ProcessorEntry(k - 1, n).flags = cpu_flags(k - 1, n)
  BY DEF ProcessorEntry
<1>7. QED BY <1>1, <1>4, <1>5, <1>6

\* A guest that looks for its processors finds exactly those it has.
THEOREM AllProcessorsFound == Spec => []ProcessorsFound
<1>1. IInv => ProcessorsFound
  <2> SUFFICES ASSUME IInv, pc = "success" PROVE ProcessorsFound
    BY DEF ProcessorsFound
  <2>1. PICK n \in 1 .. MP_MAX_VCPU_NUM : n = in.vcpu_num
    BY InputTypes DEF IInv
  <2>2. ebda = gen_ebda(n)
    BY <2>1 DEF IInv, EbdaInv
  <2> DEFINE entries == gen_ebda(n).entries
             enabled == {k \in 1 .. MP_MAX_VCPU_NUM : "EN" \in entries[k].flags}
  <2>3. (ebda.fps.sum + ebda.fps.checksum) % 256 = 0
    BY <2>2, SumsAreNat, ChecksumCompletes DEF gen_ebda
  <2>4. (ebda.sum + ebda.checksum) % 256 = 0
    BY <2>2, SumsAreNat, ChecksumCompletes DEF gen_ebda
  <2>5. ebda.fps.phys_addr_ptr = EBDA_START + EBDA_PADDING_SIZE + FPS_SIZE
    <3>1. ebda.fps.phys_addr_ptr = phys_addr_ptr
      BY <2>2 DEF gen_ebda
    <3>2. phys_addr_ptr = EBDA_START + EBDA_PADDING_SIZE + FPS_SIZE
      BY SMT DEF phys_addr_ptr, EBDA_START, EBDA_PADDING_SIZE, FPS_SIZE
    <3>3. QED BY <3>1, <3>2
  <2>6. n \in Nat /\ 1 <= n /\ n <= MP_MAX_VCPU_NUM /\ MP_MAX_VCPU_NUM \in Nat
    BY SMT DEF MP_MAX_VCPU_NUM
  <2>7. enabled = 1 .. n
    <3>1. \A k \in 1 .. MP_MAX_VCPU_NUM : "EN" \in entries[k].flags <=> k <= n
      BY EnabledEntries
    <3> HIDE DEF entries
    <3>2. QED BY <2>6, <3>1
  <2>8. {entries[k].local_apic_id : k \in enabled} = 0 .. n - 1
    <3>1. \A k \in 1 .. n : entries[k].local_apic_id = k - 1
      <4>1. \A k \in 1 .. n : k \in 1 .. MP_MAX_VCPU_NUM /\ k <= n
        BY <2>6
      <4>2. QED BY <4>1, EnabledEntries
    <3> HIDE DEF entries, enabled
    <3>2. \A id \in 0 .. n - 1 : id + 1 \in 1 .. n /\ (id + 1) - 1 = id
      BY <2>6
    <3>3. {entries[k].local_apic_id : k \in 1 .. n} = {k - 1 : k \in 1 .. n}
      BY <3>1
    <3>4. {k - 1 : k \in 1 .. n} = 0 .. n - 1
      BY <2>6, <3>2
    <3>5. QED BY <2>7, <3>3, <3>4
  <2>9. Cardinality(enabled) = n
    <3> HIDE DEF enabled
    <3>1. Cardinality(1 .. n) = n
      BY <2>6, FS_Interval
    <3>2. QED BY <2>7, <3>1
  <2>10. Cardinality({k \in enabled : "BP" \in entries[k].flags}) = 1
    <3>1. \A k \in 1 .. MP_MAX_VCPU_NUM : "BP" \in entries[k].flags <=> k = 1
      BY EnabledEntries
    <3> HIDE DEF entries, enabled
    <3>2. {k \in enabled : "BP" \in entries[k].flags} = {1}
      BY <2>6, <2>7, <3>1
    <3>3. QED BY <3>2, FS_Singleton
  <2>11. ebda.entries = entries
    BY <2>2
  <2> HIDE DEF entries
  <2>12. QED BY <2>1, <2>3, <2>4, <2>5, <2>8, <2>9, <2>10, <2>11 DEF ProcessorsFound
<1>2. QED BY InitInv, NextInv, <1>1, PTL DEF Spec

-----------------------------------------------------------------------------
(***************************************************************************)
(* The boot page table, wherever it is put                                 *)
(***************************************************************************)

\* How a page number below 4 GiB splits into the indices of the three levels.
LEMMA Indices ==
  ASSUME NEW page \in Nat, page < FourGiB
  PROVE  /\ Pml4Index(page) = 0
         /\ PdptIndex(page) \in 0 .. BOOT_PDPTE_NUM - 1
         /\ PdIndex(page) \in 0 .. 511
         /\ page = LARGE * (512 * PdptIndex(page) + PdIndex(page)) + (page % LARGE)
<1> DEFINE large == page \div 512
<1>1. page < 1048576
  BY SMT DEF FourGiB, BOOT_PDE_NUM, LARGE
<1>2. Pml4Index(page) = 0
  BY <1>1, SMT DEF Pml4Index
<1>3. large \in 0 .. 2047 /\ page = 512 * large + (page % 512)
  BY <1>1, SMT
<1>4. page \div (512 * 512) = large \div 512
  BY <1>1, SMT
<1>5. PdptIndex(page) = large \div 512 /\ large \div 512 \in 0 .. 3
  BY <1>3, <1>4, SMT DEF PdptIndex
<1>6. large = 512 * (large \div 512) + (large % 512) /\ large % 512 \in 0 .. 511
  BY <1>3, SMT
<1>7. PdIndex(page) = large % 512
  BY DEF PdIndex
<1>8. QED BY <1>2, <1>3, <1>5, <1>6, <1>7 DEF BOOT_PDPTE_NUM, LARGE

\* The walk meets the one PML4 entry, a directory pointer and a large page.
THEOREM IdentityMapped ==
  ASSUME NEW base \in Nat, NEW page \in Nat, page < FourGiB
  PROVE  Walk(base, base, page) = page
<1> DEFINE i3 == PdptIndex(page)
           i2 == PdIndex(page)
<1>1. i3 \in 0 .. 3 /\ i2 \in 0 .. 511 /\ page = 512 * (512 * i3 + i2) + (page % 512)
  BY Indices DEF BOOT_PDPTE_NUM, LARGE
<1>2. EntryAt(base, base, Pml4Index(page)) = ToTable(base + 1)
  BY Indices DEF EntryAt, pml4e
<1>3. EntryAt(base, base + 1, i3) = ToTable(base + 2 + i3)
  BY <1>1 DEF EntryAt, pdpte, BOOT_PDPTE_NUM
<1>4. EntryAt(base, base + 2 + i3, i2) = ToLarge(512 * (512 * i3 + i2))
  <2>1. base + 2 + i3 \in base + 2 .. base + 5 /\ (base + 2 + i3) - base - 2 = i3
    BY <1>1
  <2>2. base + 2 + i3 # base /\ base + 2 + i3 # base + 1
    BY <1>1
  <2>3. QED BY <2>1, <2>2 DEF EntryAt, pde, LARGE
<1>5. Walk(base, base, page) = 512 * (512 * i3 + i2) + (page % 512)
  BY <1>2, <1>3, <1>4 DEF Walk, ToTable, ToLarge, LARGE
<1>6. QED BY <1>1, <1>5

\* Up to the end of the first 512 GiB a page beyond 4 GiB meets a directory
\* pointer that the memset has cleared.
THEOREM NothingBeyond ==
  ASSUME NEW base \in Nat, NEW page \in Nat,
         FourGiB <= page, page < 512 * 512 * 512
  PROVE  Walk(base, base, page) = Fault
<1>1. 1048576 <= page /\ page < 134217728
  BY SMT DEF FourGiB, BOOT_PDE_NUM, LARGE
<1>2. Pml4Index(page) = 0
  BY <1>1, SMT DEF Pml4Index
<1>3. page \div (512 * 512) \in 4 .. 511
  BY <1>1, SMT
<1>4. PdptIndex(page) \in 4 .. 511
  BY <1>3, SMT DEF PdptIndex
<1>5. EntryAt(base, base, Pml4Index(page)) = ToTable(base + 1)
  BY <1>2 DEF EntryAt, pml4e
<1>6. EntryAt(base, base + 1, PdptIndex(page)) = Absent
  BY <1>4 DEF EntryAt, BOOT_PDPTE_NUM
<1>7. QED BY <1>5, <1>6 DEF Walk, ToTable, Absent

-----------------------------------------------------------------------------
(***************************************************************************)
(* The registers                                                           *)
(***************************************************************************)

\* One bank of memory, and no file, reaches beyond what 32 bits address.
RamBelow4GiB == \A size \in RamSizes : size <= FourGiB * PAGE_SIZE_4KB

FilesBelow4GiB ==
  \A size \in InitramfsSizes \cup KernelSizes \cup CmdlineSizes :
    INITRAMFS_ADDR + size < FourGiB * PAGE_SIZE_4KB

LEMMA PageBelow4GiB ==
  ASSUME NEW addr \in Nat, addr < FourGiB * PAGE_SIZE_4KB
  PROVE  addr \div PAGE_SIZE_4KB \in Nat /\ addr \div PAGE_SIZE_4KB < FourGiB
  BY SMT DEF FourGiB, BOOT_PDE_NUM, LARGE, PAGE_SIZE_4KB

\* The registers in protected mode, one by one.
LEMMA InProtectedMode ==
  LET regs == ProtectedMode(Entered) IN
    /\ regs.cr0 = {"CD", "NW", "ET"} \cup {"PE"} /\ regs.efer = {} /\ regs.rflags = {"INIT"}
    /\ regs.cs.db /\ ~regs.cs.l /\ regs.cs.base = 0 /\ regs.cs.pages = FourGiB
    /\ regs.ds.base = 0 /\ regs.ds.pages = FourGiB
    /\ regs.rip = HIGHMEM_BASE /\ regs.rsi = BOOT_PARAMS_ADDR
<1>1. /\ Entered.cs = AtReset.cs /\ Entered.ds = AtReset.ds
      /\ Entered.cr0 = {"CD", "NW", "ET"} /\ Entered.efer = {}
  BY SMT DEF Entered, InitRegs, AtReset
<1>2. /\ Entered.rip = HIGHMEM_BASE /\ Entered.rsi = BOOT_PARAMS_ADDR
      /\ Entered.rflags = {"INIT"}
  BY SMT DEF Entered, InitRegs, AtReset
<1>3. DOMAIN Entered = {"cr0", "cr3", "cr4", "efer", "cs", "ds", "rip", "rsi", "rflags"}
  BY SMT DEF Entered, InitRegs, AtReset
<1>4. Flat(AtReset.ds).base = 0 /\ Flat(AtReset.ds).pages = FourGiB
  BY SMT DEF Flat, AtReset
<1> DEFINE code == [Flat(AtReset.cs) EXCEPT !.db = TRUE]
<1>5. code.base = 0 /\ code.pages = FourGiB /\ code.db /\ ~code.l
  BY SMT DEF Flat, AtReset
<1> HIDE DEF code
<1>6. ProtectedMode(Entered)
        = [Entered EXCEPT !.cs = code, !.ds = Flat(AtReset.ds),
                          !.cr0 = {"CD", "NW", "ET"} \cup {"PE"}]
  BY <1>1 DEF ProtectedMode, code
<1> DEFINE regs == ProtectedMode(Entered)
<1>7. regs.cs = code /\ regs.ds = Flat(AtReset.ds) /\ regs.cr0 = {"CD", "NW", "ET"} \cup {"PE"}
  BY <1>3, <1>6, SMT
<1>8. regs.efer = {} /\ regs.rflags = {"INIT"}
  BY <1>1, <1>2, <1>3, <1>6, SMT
<1>9. regs.rip = HIGHMEM_BASE /\ regs.rsi = BOOT_PARAMS_ADDR
  BY <1>2, <1>3, <1>6, SMT
<1> HIDE DEF regs
<1>10. QED BY <1>4, <1>5, <1>7, <1>8, <1>9, Zenon DEF regs

\* The registers a vCPU can be left with.
LEMMA RegistersAre ==
  ASSUME IInv, pc = "success"
  PROVE  /\ ~in.is_64bit_boot /\ set = {"regs", "sregs"} => cpu = ProtectedMode(Entered)
         /\ "PG" \in cpu.cr0 => cpu.cr3 = BOOT_PAGETABLE_BASE
<1>1. in.is_64bit_boot \in BOOLEAN
  BY InputTypes DEF IInv
<1>2. AfterRegs = Entered \/ AfterRegs = AtReset
  BY DEF AfterRegs
<1>3. /\ "PG" \notin Entered.cr0 /\ "PG" \notin ProtectedMode(Entered).cr0
      /\ LongMode(Entered).cr3 = BOOT_PAGETABLE_BASE
  BY SMT DEF Entered, InitRegs, AtReset, ProtectedMode, LongMode
<1>4. /\ "PG" \notin AtReset.cr0 /\ "PG" \notin ProtectedMode(AtReset).cr0
      /\ LongMode(AtReset).cr3 = BOOT_PAGETABLE_BASE
  BY SMT DEF AtReset, ProtectedMode, LongMode
<1>5. cpu = IF "sregs" \in set THEN InitSregs(AfterRegs, in.is_64bit_boot) ELSE AfterRegs
  BY DEF IInv, CpuInv
<1>6. "PG" \in cpu.cr0 => cpu.cr3 = BOOT_PAGETABLE_BASE
  <2>1. CASE "sregs" \notin set
    BY <1>2, <1>3, <1>4, <1>5, <2>1
  <2>2. CASE "sregs" \in set /\ in.is_64bit_boot
    BY <1>2, <1>3, <1>4, <1>5, <2>2 DEF InitSregs
  <2>3. CASE "sregs" \in set /\ ~in.is_64bit_boot
    BY <1>2, <1>3, <1>4, <1>5, <2>3 DEF InitSregs
  <2>4. QED BY <1>1, <2>1, <2>2, <2>3
<1>7. ~in.is_64bit_boot /\ set = {"regs", "sregs"} => cpu = ProtectedMode(Entered)
  BY <1>5 DEF AfterRegs, InitSregs
<1>8. QED BY <1>6, <1>7

\* A copy ends after address 0.
LEMMA LastByte ==
  ASSUME IInv, NEW c \in 1 .. Len(copies) 
  PROVE  copies[c].hi \in Nat /\ copies[c].hi - 1 \in Nat
<1>1. copies[c] = Made[c] /\ c \in {1, 2, 3, 4, 5, 6} /\ (c = 5 => in.kernel >= Offset)
  BY DEF IInv, CopiesInv
<1>2. /\ in.initramfs \in Nat /\ in.kernel \in Nat /\ in.cmdline \in Nat /\ Offset \in Nat
  BY InputTypes, SectsTypes DEF IInv
<1>3. Made[2].hi = INITRAMFS_ADDR + in.initramfs /\ Made[2].lo = INITRAMFS_ADDR
  BY Places, Zenon
<1>4. Made[3].hi = COMMANDLINE_ADDR + (in.cmdline + 1) /\ Made[3].lo = COMMANDLINE_ADDR
  BY Places, Zenon
<1>5. Made[5].hi = HIGHMEM_BASE + (in.kernel - Offset) /\ Made[5].lo = HIGHMEM_BASE
  BY Places, Zenon
<1> DEFINE Ends(m) == m.hi \in Nat /\ m.hi - 1 \in Nat
<1> USE DEF INITRAMFS_ADDR, HIGHMEM_BASE, COMMANDLINE_ADDR, BOOT_PAGETABLE_BASE,
            BOOT_PAGETABLE_PAGES, PAGE_SIZE_4KB, EBDA_START, EBDA_SIZE,
            EBDA_PADDING_SIZE, FPS_SIZE, HEADER_SIZE, MP_MAX_VCPU_NUM, ENTRY_SIZE,
            BOOT_PARAMS_ADDR, BOOT_PARAMS_SIZE
<1>6a. Ends(Made[1])
  BY Places, SMT
<1>6b. Ends(Made[4])
  BY Places, SMT
<1>6c. Ends(Made[6])
  BY Places, SMT
<1>7. Ends(Made[2])
  BY <1>2, <1>3, SMT
<1>8. Ends(Made[3])
  BY <1>2, <1>4, SMT
<1>9. in.kernel >= Offset => Ends(Made[5])
  BY <1>2, <1>5, SMT
<1> HIDE DEF Ends
<1>10. Ends(copies[c])
  BY <1>1, <1>6a, <1>6b, <1>6c, <1>7, <1>8, <1>9, SMT
<1>11. QED BY <1>10, SMT DEF Ends

\* What a copy fills begins, and ends, below 4 GiB.
LEMMA CopiesBelow4GiB ==
  ASSUME IInv, FilesBelow4GiB, NEW c \in 1 .. Len(copies)
  PROVE  /\ copies[c].lo \in Nat /\ copies[c].lo < FourGiB * PAGE_SIZE_4KB
         /\ copies[c].hi - 1 \in Nat /\ copies[c].hi - 1 < FourGiB * PAGE_SIZE_4KB
<1>1. copies[c] = Made[c] /\ c \in {1, 2, 3, 4, 5, 6} /\ (c = 5 => in.kernel >= Offset)
  BY DEF IInv, CopiesInv
<1>2. /\ in.initramfs \in Nat /\ in.kernel \in Nat /\ in.cmdline \in Nat /\ Offset \in Nat
  BY InputTypes, SectsTypes DEF IInv
<1>3. /\ INITRAMFS_ADDR + in.initramfs < FourGiB * PAGE_SIZE_4KB
      /\ INITRAMFS_ADDR + in.kernel < FourGiB * PAGE_SIZE_4KB
      /\ INITRAMFS_ADDR + in.cmdline < FourGiB * PAGE_SIZE_4KB
  <2>1. in.initramfs \in InitramfsSizes /\ in.kernel \in KernelSizes /\ in.cmdline \in CmdlineSizes
    BY SMT DEF IInv, Inputs
  <2>2. QED BY <2>1 DEF FilesBelow4GiB
<1>4. Made[2].hi = INITRAMFS_ADDR + in.initramfs /\ Made[2].lo = INITRAMFS_ADDR
  BY Places, Zenon
<1>5. Made[3].hi = COMMANDLINE_ADDR + (in.cmdline + 1) /\ Made[3].lo = COMMANDLINE_ADDR
  BY Places, Zenon
<1>6. Made[5].hi = HIGHMEM_BASE + (in.kernel - Offset) /\ Made[5].lo = HIGHMEM_BASE
  BY Places, Zenon
<1> DEFINE Below(m) == /\ m.lo \in Nat /\ m.lo < FourGiB * PAGE_SIZE_4KB
                       /\ m.hi - 1 \in Nat /\ m.hi - 1 < FourGiB * PAGE_SIZE_4KB
<1> USE DEF FourGiB, BOOT_PDE_NUM, LARGE,
            INITRAMFS_ADDR, HIGHMEM_BASE, COMMANDLINE_ADDR, BOOT_PAGETABLE_BASE,
            BOOT_PAGETABLE_PAGES, PAGE_SIZE_4KB, EBDA_START, EBDA_SIZE,
            EBDA_PADDING_SIZE, FPS_SIZE, HEADER_SIZE, MP_MAX_VCPU_NUM, ENTRY_SIZE,
            BOOT_PARAMS_ADDR, BOOT_PARAMS_SIZE
<1>7a. Below(Made[1])
  BY Places, SMT
<1>7b. Below(Made[4])
  BY Places, SMT
<1>7c. Below(Made[6])
  BY Places, SMT
<1>8. Below(Made[2])
  BY <1>2, <1>3, <1>4, SMT
<1>9. Below(Made[3])
  <2>1. in.cmdline \in Nat /\ INITRAMFS_ADDR + in.cmdline < FourGiB * PAGE_SIZE_4KB
    BY <1>2, <1>3
  <2>2. /\ COMMANDLINE_ADDR \in Nat /\ INITRAMFS_ADDR \in Nat
        /\ COMMANDLINE_ADDR + 1 <= INITRAMFS_ADDR
        /\ FourGiB * PAGE_SIZE_4KB \in Nat
    BY SMT
  <2> HIDE DEF FourGiB, PAGE_SIZE_4KB, COMMANDLINE_ADDR, INITRAMFS_ADDR
  <2>3. QED BY <2>1, <2>2, <1>5, SMT
<1>10. ASSUME in.kernel >= Offset PROVE Below(Made[5])
  <2>1. /\ in.kernel - Offset \in Nat /\ in.kernel - Offset <= in.kernel
        /\ HIGHMEM_BASE \in Nat \ {0} /\ HIGHMEM_BASE <= INITRAMFS_ADDR
        /\ INITRAMFS_ADDR \in Nat
    BY <1>2, <1>10, SMT
  <2>2. INITRAMFS_ADDR + in.kernel < FourGiB * PAGE_SIZE_4KB
    BY <1>3
  <2> DEFINE limit == FourGiB * PAGE_SIZE_4KB
             size  == in.kernel - Offset
  <2>3. limit \in Nat
    BY SMT
  <2>4. /\ size \in Nat /\ size <= in.kernel /\ INITRAMFS_ADDR + in.kernel < limit
        /\ Made[5].lo = HIGHMEM_BASE /\ Made[5].hi = HIGHMEM_BASE + size
    BY <2>1, <2>2, <1>6
  <2> HIDE DEF limit, size, FourGiB, PAGE_SIZE_4KB, HIGHMEM_BASE, INITRAMFS_ADDR
  <2>5. Made[5].lo \in Nat /\ Made[5].lo < limit
    BY <1>2, <2>1, <2>3, <2>4
  <2>6. Made[5].hi - 1 \in Nat /\ Made[5].hi - 1 < limit
    BY <1>2, <2>1, <2>3, <2>4
  <2>7. QED BY <2>5, <2>6 DEF limit
<1> HIDE DEF Below
<1>11. Below(copies[c])
  BY <1>1, <1>7a, <1>7b, <1>7c, <1>8, <1>9, <1>10, SMT
<1>12. QED BY <1>11, SMT DEF Below

\* With paging on, all the guest was handed is where it was told to look.
THEOREM PagingKeepsAddresses ==
  ASSUME FilesBelow4GiB PROVE Spec => []LinearIsPhysical
<1>1. IInv => LinearIsPhysical
  <2> SUFFICES ASSUME IInv, pc = "success", "PG" \in cpu.cr0
               PROVE  LinearIsPhysical
    BY DEF LinearIsPhysical
  <2> DEFINE base == BOOT_PAGETABLE_BASE \div PAGE_SIZE_4KB
             first == {copies[c].lo \div PAGE_SIZE_4KB : c \in 1 .. Len(copies)}
             last  == {(copies[c].hi - 1) \div PAGE_SIZE_4KB : c \in 1 .. Len(copies)}
  <2>1. cpu.cr3 \div PAGE_SIZE_4KB = base
    BY RegistersAre
  <2>2. base \in Nat
    BY SMT DEF BOOT_PAGETABLE_BASE, PAGE_SIZE_4KB
  <2>3. \A page \in first \cup last : page \in Nat /\ page < FourGiB
    BY CopiesBelow4GiB, PageBelow4GiB
  <2>4. APIC_PAGE \in Nat /\ APIC_PAGE < FourGiB
    BY SMT DEF APIC_PAGE, FourGiB, BOOT_PDE_NUM, LARGE
  <2> HIDE DEF base, first, last
  <2>5. \A page \in first \cup last \cup {APIC_PAGE} : Walk(base, base, page) = page
    BY <2>2, <2>3, <2>4, IdentityMapped
  <2>6. QED BY <2>1, <2>5 DEF LinearIsPhysical, base, first, last
<1>2. QED BY InitInv, NextInv, <1>1, PTL DEF Spec

\* In a flat segment without paging an offset is an address.
LEMMA FlatLeadsTo ==
  ASSUME NEW regs, NEW seg, NEW addr \in Nat, addr < FourGiB * PAGE_SIZE_4KB,
         "PG" \notin regs.cr0, seg.base = 0, seg.pages = FourGiB
  PROVE  LeadsTo(regs, seg, addr, addr)
<1> DEFINE page == addr \div PAGE_SIZE_4KB
<1>1. page \in Nat /\ page < FourGiB
  BY PageBelow4GiB
<1> HIDE DEF page
<1>2. 0 + page = page
  BY <1>1
<1>3. QED BY <1>1, <1>2 DEF LeadsTo, PhysicalPage, page

\* The first instruction of a 32-bit vCPU whose registers KVM has taken is the
\* kernel's, and all it was handed is within its segments.
THEOREM KernelIsEntered ==
  ASSUME RamBelow4GiB PROVE Spec => []KernelEntered
<1>1. IInv => KernelEntered
  <2> SUFFICES ASSUME IInv, pc = "success", ~in.is_64bit_boot, set = {"regs", "sregs"}
               PROVE  KernelEntered
    BY DEF KernelEntered
  <2>1. cpu = ProtectedMode(Entered)
    BY RegistersAre
  <2>3. /\ cpu.cr0 = {"CD", "NW", "ET"} \cup {"PE"} /\ cpu.efer = {} /\ cpu.rflags = {"INIT"}
        /\ cpu.cs.db /\ ~cpu.cs.l /\ cpu.cs.base = 0 /\ cpu.cs.pages = FourGiB
        /\ cpu.ds.base = 0 /\ cpu.ds.pages = FourGiB
        /\ cpu.rip = HIGHMEM_BASE /\ cpu.rsi = BOOT_PARAMS_ADDR
    BY <2>1, InProtectedMode, Zenon
  <2>4. Valid(cpu) /\ "PE" \in cpu.cr0 /\ "PG" \notin cpu.cr0
    BY <2>3 DEF Valid
  <2>5. /\ HIGHMEM_BASE \in Nat /\ HIGHMEM_BASE < FourGiB * PAGE_SIZE_4KB
        /\ BOOT_PARAMS_ADDR \in Nat /\ BOOT_PARAMS_ADDR < FourGiB * PAGE_SIZE_4KB
    BY SMT DEF HIGHMEM_BASE, BOOT_PARAMS_ADDR, FourGiB, BOOT_PDE_NUM, LARGE, PAGE_SIZE_4KB
  <2>6. LeadsTo(cpu, cpu.cs, cpu.rip, HIGHMEM_BASE)
    BY <2>3, <2>4, <2>5, FlatLeadsTo
  <2>7. LeadsTo(cpu, cpu.ds, cpu.rsi, BOOT_PARAMS_ADDR)
    BY <2>3, <2>4, <2>5, FlatLeadsTo
  <2>8. ASSUME NEW c \in 1 .. Len(copies), copies[c].hi <= in.ram_size
        PROVE  LeadsTo(cpu, cpu.ds, copies[c].hi - 1, copies[c].hi - 1)
    <3>1. copies[c].hi \in Nat /\ copies[c].hi - 1 \in Nat
      BY LastByte
    <3>2. in.ram_size \in Nat /\ in.ram_size <= FourGiB * PAGE_SIZE_4KB
      <4>1. in.ram_size \in RamSizes
        BY SMT DEF IInv, Inputs
      <4>2. QED BY <4>1, InputTypes DEF RamBelow4GiB, IInv
    <3>3. copies[c].hi - 1 < FourGiB * PAGE_SIZE_4KB
      BY <2>8, <3>1, <3>2, SMT DEF FourGiB, BOOT_PDE_NUM, LARGE, PAGE_SIZE_4KB
    <3>4. QED BY <2>3, <2>4, <3>1, <3>3, FlatLeadsTo
  <2>9. ASSUME NEW c \in 1 .. Len(copies)
        PROVE  /\ copies[c].what = "kernel" => copies[c].lo = HIGHMEM_BASE
               /\ copies[c].what = "boot_params" => copies[c].lo = BOOT_PARAMS_ADDR
    <3>1. copies[c] = Made[c] /\ c \in {1, 2, 3, 4, 5, 6}
      BY AllMade
    <3>2. QED BY <3>1, MadeIs DEF CopyAt
  <2>10. QED BY <2>3, <2>4, <2>6, <2>7, <2>8, <2>9 DEF KernelEntered
<1>2. QED BY InitInv, NextInv, <1>1, PTL DEF Spec

=============================================================================
