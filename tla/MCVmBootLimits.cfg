SPECIFICATION Spec
CONSTANTS
  vcpu_num = 3
  HostLimits <- MCNoHardLimit
  Faults <- MCAllFaults
INVARIANTS HardLimitAssumed
CHECK_DEADLOCK FALSE
