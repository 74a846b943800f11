\* Two vCPU threads, as kvm.hpp allows, and every host failure the handlers meet.
SPECIFICATION Spec
CONSTANTS
  VCPUs = {vcpu0, vcpu1}
  Reader = reader
  Threads = {reader, vcpu0, vcpu1}
  IERValues <- MCIERValues
  FCRValues <- MCFCRValues
  LCRValues <- MCLCRValues
  MCRValues <- MCMCRValues
  ScratchValues = {0}
  Faults = {"irq", "stdout", "eof"}
  MaxTyped = 2
  MaxSent = 1
SYMMETRY VcpuSymmetry
INVARIANTS
  TypeOK
  NoLostRx
  NoLostTx
  KeystrokesInOrder
CHECK_DEADLOCK FALSE
