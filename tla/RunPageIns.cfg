\* A string IN (REP INSB) from RBR: two elements in one exit.

SPECIFICATION PageSpec
CONSTANTS
  VCPUs = {vcpu0, vcpu1}
  BootVcpu = vcpu0
  Ports = {1016}
  Sizes = {1}
  MaxCount = 2
  KvmErrors = {"EINTR", "EAGAIN"}
  GuestDebug = FALSE
  RcMax = 0
  MaxTyped = 2
  MaxSent = 1
  MaxMoved = 3
INVARIANTS
  KeysReachGuest
CHECK_DEADLOCK FALSE
