------------------------------ MODULE IrqLine ------------------------------
(***************************************************************************)
(* The interrupt request line of a device and the code that drives it.     *)
(*                                                                         *)
(* VM::irqLine (src/vm.cpp) is one KVM_IRQ_LINE ioctl; VM::flapIRQLine is  *)
(* two of them, low then high, with no lock around the pair, so that the   *)
(* flaps of several threads may interleave.  The line ends in KVM's        *)
(* edge-triggered 8259: a 0 -> 1 transition latches a request in IRR, the  *)
(* level itself requests nothing.                                          *)
(*                                                                         *)
(* This module has no specification of its own.  IrqFlap runs these        *)
(* actions alone, COM1 runs them under the serial port's handlers.         *)
(***************************************************************************)
EXTENDS Naturals

CONSTANT Threads      \* the threads that may call flapIRQLine

VARIABLES
  line,               \* level of the line: 0 or 1
  irr,                \* 1: the 8259 holds a latched, unacknowledged request
  flap                \* where each thread is in flapIRQLine

irqVars == <<line, irr, flap>>

FlapStates == {"idle", "lower", "raise", "ok", "failed"}

IrqTypeOK ==
  /\ line \in {0, 1}
  /\ irr  \in {0, 1}
  /\ flap \in [Threads -> FlapStates]

IrqInit ==
  /\ line = 0
  /\ irr  = 0
  /\ flap = [t \in Threads |-> "idle"]

\* The in-kernel 8259 on KVM_IRQ_LINE: only a rising edge latches.
SetLevel(level) ==
  /\ line' = level
  /\ irr'  = IF line = 0 /\ level = 1 THEN 1 ELSE irr

\* A step that makes the line rise.
RisingEdge == line = 0 /\ line' = 1

\* Thread t enters flapIRQLine.
CallFlap(t) ==
  /\ flap[t] = "idle"
  /\ flap' = [flap EXCEPT ![t] = "lower"]
  /\ UNCHANGED <<line, irr>>

\* Plausible bug: only the level is set, the line is not taken low first.
LowerLine_Skipped(t) ==
  /\ flap[t] = "lower"
  /\ flap' = [flap EXCEPT ![t] = "raise"]
  /\ UNCHANGED <<line, irr>>

\* irqLine(irq, false) succeeds.
LowerLine(t) ==
  /\ flap[t] = "lower"
  /\ SetLevel(0)
  /\ flap' = [flap EXCEPT ![t] = "raise"]

\* Plausible bug: the two uint32_t parameters of irqLine swapped at the call.
RaiseLine_SwappedArguments(t) ==
  /\ flap[t] = "raise"
  /\ SetLevel(4)
  /\ flap' = [flap EXCEPT ![t] = "ok"]

\* irqLine(irq, true) succeeds.
RaiseLine(t) ==
  /\ flap[t] = "raise"
  /\ SetLevel(1)
  /\ flap' = [flap EXCEPT ![t] = "ok"]

\* The ioctl of either irqLine call fails: flapIRQLine returns -errno at once.
IrqLineFails(t) ==
  /\ flap[t] \in {"lower", "raise"}
  /\ flap' = [flap EXCEPT ![t] = "failed"]
  /\ UNCHANGED <<line, irr>>

\* Plausible bug: flapIRQLine returns as soon as the first ioctl has succeeded.
ReturnFlap_AfterFirstIoctl(t) ==
  /\ flap[t] \in {"raise", "ok", "failed"}
  /\ flap' = [flap EXCEPT ![t] = "idle"]
  /\ UNCHANGED <<line, irr>>

\* flapIRQLine returns to its caller, who sees "ok" or "failed".
ReturnFlap(t) ==
  /\ flap[t] \in {"ok", "failed"}
  /\ flap' = [flap EXCEPT ![t] = "idle"]
  /\ UNCHANGED <<line, irr>>

\* The virtual CPU acknowledges the latched request (INTA cycle).
Acknowledge ==
  /\ irr = 1
  /\ irr' = 0
  /\ UNCHANGED <<line, flap>>

=============================================================================
