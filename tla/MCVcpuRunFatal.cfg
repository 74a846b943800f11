SPECIFICATION Spec
CONSTANTS
  VCPUs = {v0}
  BootVcpu = v0
  v0 = v0
  Ports <- MCOnePort
  Sizes = {1}
  MaxCount = 2
  KvmErrors = {"EINTR", "EAGAIN", "fatal"}
  GuestDebug = FALSE
  RcMax = 0
INVARIANTS CannotRecover
CHECK_DEADLOCK FALSE
