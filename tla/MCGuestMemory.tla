--------------------------- MODULE MCGuestMemory ---------------------------
(***************************************************************************)
(* initRAM at the boundaries: files and command lines that just fit, and   *)
(* one byte more.                                                          *)
(***************************************************************************)
EXTENDS GuestMemory

LOCAL INSTANCE FiniteSetsExt

MCRamSizes == {\h10000000, \h40000000}
MCInitramfsSizes == {1, \h1000000, \h1000001}
KernelRoom == INITRAMFS_ADDR - HIGHMEM_BASE
MCKernelSizes == {\h26B, 5 * 512 - 1, 5 * 512, KernelRoom + 2 * 512, KernelRoom + 2 * 512 + 1,
                  KernelRoom + 5 * 512, KernelRoom + 5 * 512 + 1}
MCSetupSects == {0, 1, 4}
MCCmdlineSizes == {157, \hFFFF, \h10000, EBDA_START - COMMANDLINE_ADDR - 1,
                   EBDA_START - COMMANDLINE_ADDR}
MCVcpuNums == {1, 2, 32}

\* EntriesSum is what the entries add up to, one after the other.
EntryBytes(k) == k + 20 + (IF k = 0 THEN 3 ELSE 1) + 6 + 3

ASSUME EntriesSumAssumption ==
  \A n \in 1 .. MP_MAX_VCPU_NUM : EntriesSum(n) = MapThenSumSet(EntryBytes, 0 .. n - 1)

=============================================================================
