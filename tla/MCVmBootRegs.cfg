SPECIFICATION Spec
CONSTANTS
  vcpu_num = 3
  HostLimits <- MCHostLimits
  Faults <- MCAllFaults
INVARIANTS RegistersSet
CHECK_DEADLOCK FALSE
