SPECIFICATION Spec
CONSTANTS
  Threads = {reader, vcpu0, vcpu1}
  IrqFaults = TRUE
INVARIANTS
  TypeOK
  FlapServed
PROPERTIES
  ImplementsEdgeRequest
