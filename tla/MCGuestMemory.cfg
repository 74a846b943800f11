SPECIFICATION Spec
CONSTANTS
  RamSizes <- MCRamSizes
  InitramfsSizes <- MCInitramfsSizes
  KernelSizes <- MCKernelSizes
  SetupSects <- MCSetupSects
  CmdlineSizes <- MCCmdlineSizes
  VcpuNums <- MCVcpuNums
INVARIANTS TypeOK Intact FitsIsExact MapSound CopiesMapped ProcessorsFound LinearIsPhysical KernelEntered
CHECK_DEADLOCK FALSE
