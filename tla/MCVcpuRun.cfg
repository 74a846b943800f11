SPECIFICATION Spec
CONSTANTS
  VCPUs = {v0, v1}
  BootVcpu = v0
  v0 = v0
  v1 = v1
  Ports <- MCPorts
  Sizes = {1}
  MaxCount = 2
  KvmErrors = {"EINTR", "EAGAIN", "fatal"}
  GuestDebug = TRUE
  RcMax = 1
INVARIANTS TypeOK HandledOnce WaitingSurvives BootWaitsForAll DevicesReached
PROPERTIES IOAnswered
CHECK_DEADLOCK FALSE
