-------------------------------- MODULE COM1 --------------------------------
(***************************************************************************)
(* The emulated 16550 serial port (src/com1.cpp) under every guest.        *)
(*                                                                         *)
(* Two kinds of threads run its code: the reader thread (readerLoop)       *)
(* pushes host keystrokes into rx_buf, and each vCPU thread runs           *)
(* COM1::Read or COM1::Write for the guest's port accesses.  rx_mutex      *)
(* protects rx_buf only: IER and the other registers are plain bytes, read *)
(* and written without it.  A handler is split where another thread can    *)
(* get in between: at each rx_mutex section, system call and ioctl, and    *)
(* between a store to IER and a later load of it.                          *)
(*                                                                         *)
(* A register value is the set of its bits that are 1.  Bytes are numbered *)
(* in the order they are typed on the host or sent by the guest.           *)
(***************************************************************************)
EXTENDS IrqLine, Sequences, FiniteSets

CONSTANTS
  VCPUs,          \* the vCPU threads
  Reader,         \* the reader thread
  IERValues,      \* what the guest writes to each register ...
  FCRValues,
  LCRValues,
  MCRValues,
  ScratchValues,  \* ... and to SR, DLL and DLH
  Faults,         \* the host failures that may happen, of FaultKinds
  MaxTyped,       \* bound: bytes typed on the host
  MaxSent         \* bound: bytes the guest writes to THR

FaultKinds == {"irq", "stdout", "eof"}

IERBits == {"DATA_AVL", "THR_EMPTY", "LINE_STATUS", "MODEM_STATUS"}
FCRBits == {"ENABLE", "CLEAR_RX", "CLEAR_TX"}
LCRBits == {"DLAB", "WLEN"}
MCRBits == {"DTR", "RTS", "OUT1", "OUT2", "LOOP"}

ASSUME ThreadsAssumption == Reader \notin VCPUs /\ Threads = VCPUs \cup {Reader}

ASSUME ValuesAssumption ==
  /\ FCRValues \subseteq SUBSET FCRBits
  /\ LCRValues \subseteq SUBSET LCRBits
  /\ MCRValues \subseteq SUBSET MCRBits
  /\ Faults \subseteq FaultKinds
  /\ MaxTyped \in Nat /\ MaxSent \in Nat

VARIABLES
  IER, FCR, LCR, MCR, SR, DLL, DLH,   \* the registers the guest writes
  rx_buf,      \* the receive queue, guarded by rx_mutex
  reader,      \* where the reader thread is
  vcpu,        \* where each vCPU thread is
  rx_pending,  \* the local variable rx_pending of each vCPU's handler
  typed,       \* bytes read from stdin so far
  sent,        \* bytes the guest has written to THR so far
  hostOut,     \* those that reached stdout
  taken,       \* history: host bytes the guest has taken out of RBR
  owed,        \* history: interrupt causes that arose since the last edge
  irqFailed    \* history: a KVM_IRQ_LINE ioctl has failed since the last edge

regVars  == <<IER, FCR, LCR, MCR, SR, DLL, DLH>>
hostVars == <<reader, typed>>
histVars == <<taken, owed, irqFailed>>
vars == <<irqVars, regVars, rx_buf, hostVars, vcpu, rx_pending, sent,
          hostOut, histVars>>

\* The IER bit that enables each cause of an interrupt.
cause == [rx |-> "DATA_AVL", tx |-> "THR_EMPTY"]

HostByte(n)  == [src |-> "host",  n |-> n]
GuestByte(n) == [src |-> "guest", n |-> n]
ZeroByte     == [src |-> "none",  n |-> 0]
Byte == [src : {"host", "guest"}, n : Nat]

ReaderStates == {"read", "push", "check", "flap", "eof"}
VcpuStates   == {"guest", "iir", "iir2", "sample", "kick", "kick2", "thr", "flap",
                 "stopped"}

Init ==
  /\ IrqInit
  /\ IER = {} /\ FCR = {} /\ LCR = {} /\ MCR = {}
  /\ SR = 0 /\ DLL = 0 /\ DLH = 0
  /\ rx_buf = <<>>
  /\ reader = "read"
  /\ vcpu = [v \in VCPUs |-> "guest"]
  /\ rx_pending = [v \in VCPUs |-> FALSE]
  /\ typed = 0 /\ sent = 0 /\ hostOut = <<>>
  /\ taken = 0 /\ owed = {} /\ irqFailed = FALSE

-----------------------------------------------------------------------------
(***************************************************************************)
(* readerLoop.  A failing read (n < 0) only goes round the loop: no step.  *)
(***************************************************************************)

readerUnchanged == UNCHANGED <<regVars, vcpu, rx_pending, sent, hostOut>>

\* read() returns one byte, kept in the local variable c (number typed).
ReaderReads ==
  /\ reader = "read" /\ typed < MaxTyped
  /\ reader' = "push"
  /\ typed' = typed + 1
  /\ readerUnchanged
  /\ UNCHANGED <<irqVars, rx_buf, histVars>>

\* Plausible bug: the receiver as the single byte of a real RBR, so that a
\* second keystroke replaces one the guest has not read yet.
ReaderPushes_Overwriting ==
  /\ reader = "push"
  /\ rx_buf' = <<HostByte(typed)>>
  /\ owed' = owed \cup {"rx"}
  /\ reader' = "check"
  /\ readerUnchanged
  /\ UNCHANGED <<irqVars, typed, taken, irqFailed>>

\* The byte is queued under rx_mutex.
ReaderPushes ==
  /\ reader = "push"
  /\ rx_buf' = Append(rx_buf, HostByte(typed))
  /\ owed' = owed \cup {"rx"}
  /\ reader' = "check"
  /\ readerUnchanged
  /\ UNCHANGED <<irqVars, typed, taken, irqFailed>>

\* Plausible bug: the reader notifies only for the first byte of a burst.
ReaderChecksIER_FirstOnly ==
  /\ reader = "check"
  /\ \/ /\ "DATA_AVL" \in IER /\ Len(rx_buf) = 1
        /\ CallFlap(Reader)
        /\ reader' = "flap"
     \/ /\ "DATA_AVL" \notin IER \/ Len(rx_buf) # 1
        /\ reader' = "read"
        /\ UNCHANGED irqVars
  /\ readerUnchanged
  /\ UNCHANGED <<rx_buf, typed, histVars>>

\* IER is read after rx_mutex is released.
ReaderChecksIER ==
  /\ reader = "check"
  /\ \/ /\ "DATA_AVL" \in IER
        /\ CallFlap(Reader)
        /\ reader' = "flap"
     \/ /\ "DATA_AVL" \notin IER
        /\ reader' = "read"
        /\ UNCHANGED irqVars
  /\ readerUnchanged
  /\ UNCHANGED <<rx_buf, typed, histVars>>

\* The result of flapIRQLine is ignored.
ReaderFlapReturns ==
  /\ reader = "flap"
  /\ ReturnFlap(Reader)
  /\ reader' = "read"
  /\ readerUnchanged
  /\ UNCHANGED <<rx_buf, typed, histVars>>

\* read() returns 0: the thread ends.
ReaderEOF ==
  /\ "eof" \in Faults
  /\ reader = "read"
  /\ reader' = "eof"
  /\ readerUnchanged
  /\ UNCHANGED <<irqVars, rx_buf, typed, histVars>>

ReaderStep ==
  \/ ReaderReads \/ ReaderPushes \/ ReaderChecksIER \/ ReaderFlapReturns \/ ReaderEOF

-----------------------------------------------------------------------------
(***************************************************************************)
(* COM1::Read.  A vCPU at "guest" is executing guest code; it enters a     *)
(* handler by an IN or OUT, and leaves it at "guest" again, or at          *)
(* "stopped" when the handler's result is not 0.  Reading a register       *)
(* changes nothing except for RBR; what LSR and MSR read as are operators, *)
(* the others read as stored (DLL and DLH as constants).                   *)
(***************************************************************************)

DLAB == "DLAB" \in LCR          \* is_dlab_set

\* The byte an RBR read returns: 0 when nothing is queued.
RBR == IF rx_buf = <<>> THEN ZeroByte ELSE Head(rx_buf)

\* Plausible bug: the byte read last is taken out instead of the oldest.
ReadRBR_PopBack(v) ==
  /\ vcpu[v] = "guest" /\ ~DLAB
  /\ taken' = IF RBR.src = "host" THEN taken + 1 ELSE taken
  /\ rx_buf' = IF rx_buf = <<>> THEN <<>> ELSE SubSeq(rx_buf, 1, Len(rx_buf) - 1)
  /\ UNCHANGED <<irqVars, regVars, hostVars, vcpu, rx_pending, sent, hostOut, owed,
                 irqFailed>>

ReadRBR(v) ==
  /\ vcpu[v] = "guest" /\ ~DLAB
  /\ taken' = IF RBR.src = "host" THEN taken + 1 ELSE taken
  /\ rx_buf' = IF rx_buf = <<>> THEN <<>> ELSE Tail(rx_buf)
  /\ UNCHANGED <<irqVars, regVars, hostVars, vcpu, rx_pending, sent, hostOut, owed,
                 irqFailed>>

\* Plausible bug: LSR as a constant, like the other registers with no storage.
LSR_Constant == {"TEMT", "THRE"}

\* Data Ready comes from the queue; the transmitter always reads as empty.
LSR == {"TEMT", "THRE"} \cup (IF rx_buf = <<>> THEN {} ELSE {"DR"})

\* In loopback the modem lines reflect the MCR outputs.
Loopback == [DTR |-> "DSR", RTS |-> "CTS", OUT1 |-> "RI", OUT2 |-> "DCD"]

MSR == IF "LOOP" \in MCR
       THEN {Loopback[b] : b \in MCR \cap DOMAIN Loopback}
       ELSE {"CTS", "DSR", "DCD"}

iirUnchanged == UNCHANGED <<irqVars, regVars, rx_buf, hostVars, sent, hostOut, histVars>>

\* A local variable has no value once it has been used for the last time.
RxPendingDies(v) == rx_pending' = [rx_pending EXCEPT ![v] = FALSE]

\* rx_pending is sampled under rx_mutex; IER is consulted after its release.
ReadIIR_Sample(v) ==
  /\ vcpu[v] = "guest"
  /\ rx_pending' = [rx_pending EXCEPT ![v] = rx_buf # <<>>]
  /\ vcpu' = [vcpu EXCEPT ![v] = "iir"]
  /\ iirUnchanged

\* The first test of IER: received data available.
IIR_RDA(v) == "DATA_AVL" \in IER /\ rx_pending[v]

ReadIIR_Receiver(v) ==
  /\ vcpu[v] = "iir"
  /\ vcpu' = [vcpu EXCEPT ![v] = IF IIR_RDA(v) THEN "guest" ELSE "iir2"]
  /\ RxPendingDies(v) /\ iirUnchanged

\* The second: transmitter holding register empty, else no interrupt pending.
IIR_THRE == "THR_EMPTY" \in IER

ReadIIR_Transmitter(v) ==
  /\ vcpu[v] = "iir2"
  /\ vcpu' = [vcpu EXCEPT ![v] = "guest"]
  /\ iirUnchanged /\ UNCHANGED rx_pending

Read(v) ==
  \/ ReadRBR(v)
  \/ ReadIIR_Sample(v) \/ ReadIIR_Receiver(v) \/ ReadIIR_Transmitter(v)

-----------------------------------------------------------------------------
(***************************************************************************)
(* COM1::Write.                                                            *)
(***************************************************************************)

\* A store to one register that has no other effect.
Store(v, others) ==
  /\ vcpu[v] = "guest"
  /\ UNCHANGED <<irqVars, rx_buf, hostVars, vcpu, rx_pending, sent, hostOut,
                 histVars, others>>

WriteDLL(v) == \E x \in ScratchValues :
  DLAB /\ DLL' = x /\ Store(v, <<IER, FCR, LCR, MCR, SR, DLH>>)
WriteDLH(v) == \E x \in ScratchValues :
  DLAB /\ DLH' = x /\ Store(v, <<IER, FCR, LCR, MCR, SR, DLL>>)
\* The FIFO clear bits are stored like the others: rx_buf keeps its bytes.
WriteFCR(v, x) == FCR' = x /\ Store(v, <<IER, LCR, MCR, SR, DLL, DLH>>)
WriteLCR(v, x) == LCR' = x /\ Store(v, <<IER, FCR, MCR, SR, DLL, DLH>>)
WriteMCR(v, x) == MCR' = x /\ Store(v, <<IER, FCR, LCR, SR, DLL, DLH>>)
WriteSR(v) == \E x \in ScratchValues :
  SR' = x /\ Store(v, <<IER, FCR, LCR, MCR, DLL, DLH>>)
\* LSR and MSR are read-only.
WriteReadOnly(v) == Store(v, regVars)

\* Plausible bug: the reserved bits of IER are stored too.
WriteIER_Unmasked(v, x) ==
  /\ vcpu[v] = "guest" /\ ~DLAB
  /\ IER' = x
  /\ owed' = owed \cup {c \in {"rx", "tx"} : cause[c] \in x}
  /\ vcpu' = [vcpu EXCEPT ![v] = "sample"]
  /\ UNCHANGED <<irqVars, FCR, LCR, MCR, SR, DLL, DLH, rx_buf, hostVars, rx_pending,
                 sent, hostOut, taken, irqFailed>>

\* Enabling a source makes it owed an interrupt.
WriteIER(v, x) ==
  /\ vcpu[v] = "guest" /\ ~DLAB
  /\ IER' = x \cap IERBits
  /\ owed' = owed \cup {c \in {"rx", "tx"} : cause[c] \in x}
  /\ vcpu' = [vcpu EXCEPT ![v] = "sample"]
  /\ UNCHANGED <<irqVars, FCR, LCR, MCR, SR, DLL, DLH, rx_buf, hostVars, rx_pending,
                 sent, hostOut, taken, irqFailed>>

\* rx_pending is sampled under rx_mutex, after the store.
SampleRx(v) ==
  /\ vcpu[v] = "sample"
  /\ rx_pending' = [rx_pending EXCEPT ![v] = rx_buf # <<>>]
  /\ vcpu' = [vcpu EXCEPT ![v] = "kick"]
  /\ UNCHANGED <<irqVars, regVars, rx_buf, hostVars, sent, hostOut, histVars>>

\* v calls flapIRQLine if raise, and otherwise goes on at pc.
FlapIf(v, raise, pc) ==
  /\ IF raise
     THEN CallFlap(v) /\ vcpu' = [vcpu EXCEPT ![v] = "flap"]
     ELSE vcpu' = [vcpu EXCEPT ![v] = pc] /\ UNCHANGED irqVars
  /\ IF raise \/ pc = "guest" THEN RxPendingDies(v) ELSE UNCHANGED rx_pending
  /\ UNCHANGED <<regVars, rx_buf, hostVars, sent, hostOut, histVars>>

\* Plausible bug: enabling the TX-empty interrupt waits for a byte to be sent.
KickTransmitter_Never(v) ==
  /\ vcpu[v] = "kick"
  /\ FlapIf(v, FALSE, "kick2")

\* should_raise: the transmitter is always ready when enabled ...
KickTransmitter(v) ==
  /\ vcpu[v] = "kick"
  /\ FlapIf(v, "THR_EMPTY" \in IER, "kick2")

\* Plausible bug: enabling DATA_AVL does not look at the bytes already queued.
KickReceiver_Never(v) ==
  /\ vcpu[v] = "kick2"
  /\ FlapIf(v, FALSE, "guest")

\* ... the receiver when something was queued.
KickReceiver(v) ==
  /\ vcpu[v] = "kick2"
  /\ FlapIf(v, "DATA_AVL" \in IER /\ rx_pending[v], "guest")

\* THR in loopback: the byte lands in rx_buf and nobody is notified.
WriteTHR_Loopback(v) ==
  /\ vcpu[v] = "guest" /\ ~DLAB /\ "LOOP" \in MCR
  /\ sent < MaxSent
  /\ sent' = sent + 1
  /\ rx_buf' = Append(rx_buf, GuestByte(sent'))
  /\ UNCHANGED <<irqVars, regVars, hostVars, vcpu, rx_pending, hostOut, histVars>>

\* THR otherwise: write(STDOUT_FILENO) succeeds ...
WriteTHR_Stdout(v) ==
  /\ vcpu[v] = "guest" /\ ~DLAB /\ "LOOP" \notin MCR
  /\ sent < MaxSent
  /\ sent' = sent + 1
  /\ hostOut' = Append(hostOut, sent')
  /\ owed' = owed \cup {"tx"}
  /\ vcpu' = [vcpu EXCEPT ![v] = "thr"]
  /\ UNCHANGED <<irqVars, regVars, rx_buf, hostVars, rx_pending, taken, irqFailed>>

\* ... or fails: the handler returns -errno.
WriteTHR_StdoutFails(v) ==
  /\ "stdout" \in Faults
  /\ vcpu[v] = "guest" /\ ~DLAB /\ "LOOP" \notin MCR
  /\ sent < MaxSent
  /\ sent' = sent + 1
  /\ vcpu' = [vcpu EXCEPT ![v] = "stopped"]
  /\ UNCHANGED <<irqVars, regVars, rx_buf, hostVars, rx_pending, hostOut, histVars>>

\* Plausible bug: no notification after a byte has been sent, as if THRE were
\* not reported at once.
NotifyTransmitter_Never(v) ==
  /\ vcpu[v] = "thr"
  /\ FlapIf(v, FALSE, "guest")

\* After the byte has gone out, IER is loaded.
NotifyTransmitter(v) ==
  /\ vcpu[v] = "thr"
  /\ FlapIf(v, "THR_EMPTY" \in IER, "guest")

\* flapIRQLine returns: the handler returns its result.
WriteReturns(v) ==
  /\ vcpu[v] = "flap"
  /\ vcpu' = [vcpu EXCEPT ![v] = IF flap[v] = "failed" THEN "stopped" ELSE "guest"]
  /\ ReturnFlap(v)
  /\ UNCHANGED <<regVars, rx_buf, hostVars, rx_pending, sent, hostOut, histVars>>

Write(v) ==
  \/ WriteDLL(v) \/ WriteDLH(v) \/ WriteSR(v) \/ WriteReadOnly(v)
  \/ \E x \in FCRValues : WriteFCR(v, x)
  \/ \E x \in LCRValues : WriteLCR(v, x)
  \/ \E x \in MCRValues : WriteMCR(v, x)
  \/ \E x \in IERValues : WriteIER(v, x)
  \/ SampleRx(v) \/ KickTransmitter(v) \/ KickReceiver(v)
  \/ WriteTHR_Loopback(v) \/ WriteTHR_Stdout(v) \/ WriteTHR_StdoutFails(v)
  \/ NotifyTransmitter(v) \/ WriteReturns(v)

-----------------------------------------------------------------------------
(***************************************************************************)
(* flapIRQLine under the handlers, and the guest's acknowledgement.        *)
(***************************************************************************)

flapUnchanged == UNCHANGED <<regVars, rx_buf, hostVars, vcpu, rx_pending, sent,
                             hostOut, taken>>

FlapLowers(t) == LowerLine(t) /\ flapUnchanged /\ UNCHANGED <<owed, irqFailed>>

FlapRaises(t) ==
  /\ RaiseLine(t)
  /\ owed' = IF RisingEdge THEN {} ELSE owed
  /\ irqFailed' = (irqFailed /\ ~RisingEdge)
  /\ flapUnchanged

FlapFails(t) ==
  /\ "irq" \in Faults
  /\ IrqLineFails(t)
  /\ irqFailed' = TRUE
  /\ flapUnchanged /\ UNCHANGED owed

FlapStep(t) == FlapLowers(t) \/ FlapRaises(t) \/ FlapFails(t)

GuestAck == Acknowledge /\ flapUnchanged /\ UNCHANGED <<owed, irqFailed>>

Next ==
  \/ ReaderStep
  \/ GuestAck
  \/ \E t \in Threads : FlapStep(t)
  \/ \E v \in VCPUs : Read(v) \/ Write(v)

Spec == Init /\ [][Next]_vars

-----------------------------------------------------------------------------
(***************************************************************************)
(* Properties                                                              *)
(***************************************************************************)

\* Types of the device's registers, the queue, and the threads.
TypeOK ==
  /\ IrqTypeOK
  /\ IER \subseteq IERBits /\ FCR \subseteq FCRBits
  /\ LCR \subseteq LCRBits /\ MCR \subseteq MCRBits
  /\ rx_buf \in Seq(Byte)
  /\ reader \in ReaderStates
  /\ vcpu \in [VCPUs -> VcpuStates]
  /\ rx_pending \in [VCPUs -> BOOLEAN]
  /\ typed \in Nat /\ sent \in Nat /\ taken \in Nat
  /\ hostOut \in Seq(Nat)
  /\ owed \subseteq {"rx", "tx"}
  /\ irqFailed \in BOOLEAN

\* No thread is at a point from which its handler may still raise the line.
Quiet ==
  /\ reader \in {"read", "eof"}
  /\ \A v \in VCPUs : vcpu[v] \in {"guest", "iir", "iir2", "stopped"}

HostWaiting == \E i \in DOMAIN rx_buf : rx_buf[i].src = "host"

\* readerLoop tests IER after it has released rx_mutex, and a write to IER
\* samples rx_buf after the store: between them no keystroke may be left in
\* rx_buf, its interrupt enabled, without an edge since it was queued or
\* since it was enabled.  readerLoop ignores a failed KVM_IRQ_LINE: what that
\* leaves without an edge is served by the next one, whichever thread raises it.
NoLostRx ==
  Quiet /\ ~irqFailed /\ HostWaiting /\ "DATA_AVL" \in IER => "rx" \notin owed

\* A guest that has the TX-empty interrupt enabled is notified after each byte
\* it sends and when it enables the interrupt, or it would wait forever with a
\* full transmit buffer.
NoLostTx ==
  Quiet /\ ~irqFailed /\ "THR_EMPTY" \in IER => "tx" \notin owed

\* The keystrokes that have reached the queue.
pushed == IF reader = "push" THEN typed - 1 ELSE typed

HostBytes == {i \in DOMAIN rx_buf : rx_buf[i].src = "host"}

\* rx_buf holds exactly the keystrokes queued and not yet read, oldest first,
\* whatever the guest writes to FCR and however loopback bytes mix with them.
KeystrokesInOrder ==
  /\ {rx_buf[i].n : i \in HostBytes} = taken + 1 .. pushed
  /\ \A i, j \in HostBytes : i < j => rx_buf[i].n < rx_buf[j].n

=============================================================================
