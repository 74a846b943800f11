------------------------------ MODULE MCCOM1 ------------------------------
(***************************************************************************)
(* What the guest writes to the serial port's registers, for TLC.          *)
(***************************************************************************)
EXTENDS COM1, TLC

\* Each interrupt source alone, none, and both with a reserved bit.
MCIERValues == {{}, {"DATA_AVL"}, {"DATA_AVL", "THR_EMPTY", "RESERVED"}}
MCFCRValues == {{"CLEAR_RX"}}
MCLCRValues == {{}, {"DLAB"}}
MCMCRValues == {{}, {"LOOP"}}

\* The vCPU threads run the same code.
VcpuSymmetry == Permutations(VCPUs)

=============================================================================
