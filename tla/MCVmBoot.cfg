SPECIFICATION Spec
CONSTANTS
  vcpu_num = 3
  HostLimits <- MCHostLimits
  Faults <- MCAllFaults
INVARIANTS TypeOK KVMOrder TerminalRestored RunsComplete LineNeedsMachine
CHECK_DEADLOCK FALSE
