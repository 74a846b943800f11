----------------------------- MODULE MCVcpuRun -----------------------------
(***************************************************************************)
(* The vCPU threads with a port of each kind of handler that can stop a    *)
(* vCPU: CMOS data, the first port of COM1 and the reset generator, each   *)
(* at the edge of its range and next to another one.                       *)
(***************************************************************************)
EXTENDS VcpuRun

MCPorts == {\h71, \h3F8, \hCF9}
MCOnePort == {\h3F8}

=============================================================================
