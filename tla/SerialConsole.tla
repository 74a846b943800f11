--------------------------- MODULE SerialConsole ---------------------------
(***************************************************************************)
(* The serial console end to end: the host's keyboard and terminal, the    *)
(* device of COM1, and a guest driver on one vCPU, as src/main.cpp         *)
(* configures the machine.                                                 *)
(*                                                                         *)
(* The driver is not in the repository.  It is the client src/com1.cpp is  *)
(* written for: interrupt-driven, with the transmit path its comments      *)
(* describe (enable the TX-empty interrupt, load the FIFO at each          *)
(* interrupt, disable it when the buffer is empty).  An interrupt is taken *)
(* only while the driver is idle: its interrupt routine and its start of a *)
(* transmission run with interrupts off.  After a pass the routine starts  *)
(* over or returns, as it likes: drivers of both kinds exist.              *)
(***************************************************************************)
EXTENDS COM1

CONSTANTS
  Guest,      \* the vCPU the driver runs on
  FifoLoad    \* bytes the driver writes to THR in one go

ASSUME DriverAssumption ==
  /\ Guest \in VCPUs /\ FifoLoad \in Nat \ {0}
  /\ {{"DATA_AVL"}, {"DATA_AVL", "THR_EMPTY"}} \subseteq IERValues

VARIABLES
  drv,        \* where the driver is
  load,       \* bytes written to THR in the current FIFO load
  queued,     \* bytes the guest's programs have written so far
  received    \* what the driver has read from RBR

drvVars == <<drv, load, queued, received>>
allVars == <<vars, drvVars>>

ConsoleInit ==
  /\ Init
  /\ drv = "off" /\ load = 0 /\ queued = 0 /\ received = <<>>

\* Where the interrupt routine may go after one pass.
PassDone == {"isr", "idle"}

\* The driver opens the port: bytes may have been typed long before.
Startup ==
  /\ drv = "off"
  /\ WriteIER(Guest, {"DATA_AVL"})
  /\ drv' = "idle"
  /\ UNCHANGED <<load, queued, received>>

TakeInterrupt ==
  /\ drv = "idle" /\ vcpu[Guest] = "guest"
  /\ GuestAck
  /\ drv' = "isr"
  /\ UNCHANGED <<load, queued, received>>

IsrReadIIR ==
  /\ \/ drv = "isr" /\ ReadIIR_Sample(Guest) /\ drv' = "iir"
     \/ /\ drv = "iir" /\ ReadIIR_Receiver(Guest)
        /\ drv' = IF IIR_RDA(Guest) THEN "lsr" ELSE "iir"
     \/ /\ drv = "iir" /\ ReadIIR_Transmitter(Guest)
        /\ drv' = IF IIR_THRE THEN "lsr" ELSE "idle"
  /\ UNCHANGED <<load, queued, received>>

\* Received bytes first, then the transmitter if its interrupt is enabled.
IsrReadLSR ==
  /\ drv = "lsr" /\ vcpu[Guest] = "guest"
  /\ drv' \in CASE "DR" \in LSR -> {"rbr"}
                [] "DR" \notin LSR /\ "THR_EMPTY" \in IER ->
                     {IF queued > sent THEN "tx" ELSE "stop"}
                [] OTHER -> PassDone
  /\ UNCHANGED <<vars, load, queued, received>>

IsrReadRBR ==
  /\ drv = "rbr"
  /\ received' = Append(received, RBR)
  /\ ReadRBR(Guest)
  /\ drv' = "lsr"
  /\ UNCHANGED <<load, queued>>

\* One byte of a FIFO load.
IsrTransmit ==
  /\ drv = "tx"
  /\ WriteTHR_Stdout(Guest)
  /\ load' = (load + 1) % FifoLoad
  /\ drv' \in CASE queued = sent' -> {"stop"}
                [] queued # sent' /\ load' # 0 -> {"tx"}
                [] OTHER -> PassDone
  /\ UNCHANGED <<queued, received>>

IsrStopTx ==
  /\ drv = "stop"
  /\ WriteIER(Guest, {"DATA_AVL"})
  /\ load' = 0
  /\ drv' \in PassDone
  /\ UNCHANGED <<queued, received>>

\* A program writes one byte to the console.
AppWrites ==
  /\ drv = "idle" /\ vcpu[Guest] = "guest"
  /\ queued < MaxSent
  /\ queued' = queued + 1
  /\ drv' = IF "THR_EMPTY" \in IER THEN "idle" ELSE "start"
  /\ UNCHANGED <<vars, load, received>>

StartTx ==
  /\ drv = "start"
  /\ WriteIER(Guest, {"DATA_AVL", "THR_EMPTY"})
  /\ drv' = "idle"
  /\ UNCHANGED <<load, queued, received>>

Driver ==
  \/ Startup \/ IsrReadIIR \/ IsrReadLSR \/ IsrReadRBR \/ IsrTransmit \/ IsrStopTx
  \/ StartTx

\* The rest of a write handler, on the vCPU's thread.
Handler ==
  /\ \/ SampleRx(Guest) \/ KickTransmitter(Guest) \/ KickReceiver(Guest)
     \/ NotifyTransmitter(Guest) \/ WriteReturns(Guest)
  /\ UNCHANGED drvVars

Reading == (ReaderPushes \/ ReaderChecksIER \/ ReaderFlapReturns) /\ UNCHANGED drvVars
Flapping(t) == FlapStep(t) /\ UNCHANGED drvVars

ConsoleNext ==
  \/ Driver \/ TakeInterrupt \/ AppWrites
  \/ Handler
  \/ Reading \/ (ReaderReads /\ UNCHANGED drvVars)
  \/ \E t \in Threads : Flapping(t)

\* Every thread that can go on does; nobody has to type, and no program to write.
Fairness ==
  /\ WF_allVars(Driver) /\ WF_allVars(TakeInterrupt) /\ WF_allVars(Handler)
  /\ WF_allVars(Reading)
  /\ \A t \in Threads : WF_allVars(Flapping(t))

ConsoleSpec == ConsoleInit /\ [][ConsoleNext]_allVars /\ Fairness

-----------------------------------------------------------------------------
(***************************************************************************)
(* Properties                                                              *)
(***************************************************************************)

\* The keystrokes among what the driver has read: anything else counts as key 0.
ReceivedKeys ==
  [i \in DOMAIN received |-> IF received[i].src = "host" THEN received[i].n ELSE 0]

\* Device, interrupts, threads and driver together are the console of the
\* abstract specification: the guest gets what was typed, in order, nothing
\* lost or repeated and never the 0 that an RBR read of an empty queue returns,
\* and the terminal shows what the programs wrote, across FIFO loads.
Abstract == INSTANCE Console WITH
              received <- ReceivedKeys, written <- queued, shown <- hostOut

\* Whatever fails, every step of the device and the driver is one of the
\* console's, or none.
ImplementsConsoleSafely == Abstract!Spec

\* Failed ioctls are made good: after the last of them there is an edge, and none
\* has stopped the vCPU.  Nobody repeats an ioctl, so without this a key may wait
\* for ever; with it nothing may, however many have failed before.
FailuresPass == <>[](~irqFailed /\ vcpu[Guest] # "stopped")

\* The driver does nothing until an interrupt comes, and a handler that could
\* still cause one is nowhere under way.  Then there must be nothing to do: every
\* key typed has been received and every byte written is shown.  This is what
\* the tests of IER and the flaps at src/com1.cpp:137, :156-157 and :204 are for; a
\* key or a byte they forget would wait for a keystroke that may never come.  Only
\* a failed ioctl, of which nobody is told, may leave something behind.
RestMeansDone ==
  drv = "idle" /\ irr = 0 /\ Quiet /\ ~irqFailed =>
    Len(received) = typed /\ Len(hostOut) = queued

\* Every byte typed is received, however early it was typed.
KeystrokesDelivered ==
  FailuresPass => \A n \in 1 .. MaxTyped : typed >= n ~> Len(received) >= n

\* Every byte a program writes reaches the host's terminal, past any number of
\* FIFO loads.
OutputDrained ==
  FailuresPass => \A n \in 1 .. MaxSent : queued >= n ~> Len(hostOut) >= n

=============================================================================
