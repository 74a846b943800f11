\* More bytes than one FIFO load, as in the comment at src/com1.cpp:134-136, with
\* ioctls that fail, of which neither the reader nor a guest is told.
SPECIFICATION ConsoleSpec
CONSTANTS
  Guest = vcpu0
  VCPUs = {vcpu0}
  Reader = reader
  Threads = {reader, vcpu0}
  IERValues = {{"DATA_AVL"}, {"DATA_AVL", "THR_EMPTY"}}
  FCRValues = {}
  LCRValues = {}
  MCRValues = {}
  ScratchValues = {}
  Faults = {"irq"}
  MaxTyped = 3
  MaxSent = 3
  FifoLoad = 2
INVARIANTS
  RestMeansDone
PROPERTIES
  ImplementsConsoleSafely
  KeystrokesDelivered
  OutputDrained
CHECK_DEADLOCK FALSE
