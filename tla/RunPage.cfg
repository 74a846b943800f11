\* Single-element INs and OUTs, one or two bytes wide: a device with a queue, a
\* device without, and an ignored port.
SPECIFICATION PageSpec
CONSTANTS
  VCPUs = {vcpu0, vcpu1}
  BootVcpu = vcpu0
  Ports = {1016, 113, 760}
  Sizes = {1, 2}
  MaxCount = 1
  KvmErrors = {"EINTR", "EAGAIN"}
  GuestDebug = FALSE
  RcMax = 0
  MaxTyped = 2
  MaxSent = 2
  MaxMoved = 3
INVARIANTS
  KeysReachGuest
  KeysOnceInOrder
  DevicesTakeWhatIsSent
  NoForeignData
CHECK_DEADLOCK FALSE
