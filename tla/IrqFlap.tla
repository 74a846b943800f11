------------------------------ MODULE IrqFlap ------------------------------
(***************************************************************************)
(* flapIRQLine on its own: any thread (the serial reader thread, the vCPU  *)
(* threads) calls it at any time, and the guest acknowledges requests at   *)
(* any time.  The module checks that an unlocked low/high pair is still an *)
(* atomic request in the sense of EdgeRequest.                             *)
(***************************************************************************)
EXTENDS IrqLine

CONSTANT IrqFaults    \* TRUE: the KVM_IRQ_LINE ioctl may fail

ASSUME IrqFaultsAssumption == IrqFaults \in BOOLEAN

VARIABLE served       \* history: threads whose current call has seen an edge

vars == <<line, irr, flap, served>>

Init ==
  /\ IrqInit
  /\ served = {}

Call(t) ==
  /\ CallFlap(t)
  /\ served' = served \ {t}

Lower(t) ==
  /\ LowerLine(t)
  /\ UNCHANGED served

Raise(t) ==
  /\ RaiseLine(t)
  /\ served' = IF RisingEdge THEN Threads ELSE served

Fails(t) ==
  /\ IrqFaults
  /\ IrqLineFails(t)
  /\ UNCHANGED served

Return(t) ==
  /\ ReturnFlap(t)
  /\ UNCHANGED served

GuestAck ==
  /\ Acknowledge
  /\ UNCHANGED served

Next ==
  \/ GuestAck
  \/ \E t \in Threads : Call(t) \/ Lower(t) \/ Raise(t) \/ Fails(t) \/ Return(t)

Spec == Init /\ [][Next]_vars

-----------------------------------------------------------------------------
(***************************************************************************)
(* Properties                                                              *)
(***************************************************************************)

\* Types of the line, the latch, the program counters and the history.
TypeOK ==
  /\ IrqTypeOK
  /\ served \subseteq Threads

\* A flapIRQLine call that succeeds contains a rising edge, even when another
\* thread's flap lowered or raised the line between its two ioctls: merging
\* two flaps into one edge never loses the request of either caller.
FlapServed == \A t \in Threads : flap[t] = "ok" => t \in served

\* Why FlapServed is inductive: whoever finds the line already high before its
\* own raise has been overtaken by an edge since its own call.
HighMeansServed ==
  \A t \in Threads : flap[t] = "raise" /\ line = 1 => t \in served

\* The unlocked pair of ioctls implements the atomic request of EdgeRequest.
CallOf(t) == CASE flap[t] = "idle" -> "outside"
               [] flap[t] \in {"lower", "raise"} -> "inside"
               [] flap[t] \in {"ok", "failed"} -> flap[t]

Request == INSTANCE EdgeRequest WITH
             call    <- [t \in Threads |-> CallOf(t)],
             waiting <- {t \in Threads : flap[t] # "idle"} \ served

ImplementsEdgeRequest == Request!Spec

=============================================================================
