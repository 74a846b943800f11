----------------------------- MODULE COM1Proofs -----------------------------
(***************************************************************************)
(* For any number of vCPUs, any register values and any host failure: the  *)
(* serial port loses no interrupt.                                         *)
(***************************************************************************)
EXTENDS COM1, Integers, TLAPS

\* A thread is inside flapIRQLine exactly when its handler waits for it.
FlapSync ==
  \A t \in Threads :
    flap[t] # "idle" <=> \/ t = Reader /\ reader = "flap"
                         \/ t \in VCPUs /\ vcpu[t] = "flap"

\* Thread t will make the line rise, or fail, before it returns.
Raising(t) == flap[t] = "lower" \/ (flap[t] = "raise" /\ line = 0)

\* Whoever still has to answer a keystroke: the reader before its test of IER,
\* a vCPU that has stored to IER and not decided yet, or a flap under way.
RxHandler ==
  \/ reader = "check"
  \/ \E v \in VCPUs : vcpu[v] = "sample"
  \/ \E v \in VCPUs : vcpu[v] \in {"kick", "kick2"} /\ rx_pending[v]
  \/ \E t \in Threads : Raising(t)

\* The same for a transmitter that has become empty or has been enabled.
TxHandler ==
  \/ \E v \in VCPUs : vcpu[v] \in {"sample", "kick", "thr"}
  \/ \E t \in Threads : Raising(t)

RxAnswered ==
  "rx" \in owed /\ ~irqFailed /\ HostWaiting /\ "DATA_AVL" \in IER => RxHandler

TxAnswered ==
  "tx" \in owed /\ ~irqFailed /\ "THR_EMPTY" \in IER => TxHandler

-----------------------------------------------------------------------------
(***************************************************************************)
(* Type correctness                                                        *)
(***************************************************************************)

LEMMA TypeInit == Init => TypeOK
<1> SUFFICES ASSUME Init PROVE TypeOK
  OBVIOUS
<1>1. rx_buf \in Seq(Byte) /\ hostOut \in Seq(Nat)
  BY DEF Init
<1>2. QED
  BY <1>1 DEF Init, IrqInit, TypeOK, IrqTypeOK, FlapStates, ReaderStates, VcpuStates

LEMMA TypeReader == TypeOK /\ ReaderStep => TypeOK'
<1> SUFFICES ASSUME TypeOK, ReaderStep PROVE TypeOK'
  OBVIOUS
<1> USE DEF TypeOK, IrqTypeOK, FlapStates, ReaderStates, irqVars, regVars, histVars,
            readerUnchanged
<1>1. CASE ReaderReads
  BY <1>1 DEF ReaderReads
<1>2. CASE ReaderPushes
  <2>1. HostByte(typed) \in Byte
    BY DEF HostByte, Byte
  <2>2. rx_buf' \in Seq(Byte)
    BY <1>2, <2>1 DEF ReaderPushes
  <2>3. QED BY <1>2, <2>2 DEF ReaderPushes
<1>3. CASE ReaderChecksIER
  BY <1>3, ThreadsAssumption DEF ReaderChecksIER, CallFlap
<1>4. CASE ReaderFlapReturns
  BY <1>4, ThreadsAssumption DEF ReaderFlapReturns, ReturnFlap
<1>5. CASE ReaderEOF
  BY <1>5 DEF ReaderEOF
<1>6. QED BY <1>1, <1>2, <1>3, <1>4, <1>5 DEF ReaderStep

LEMMA TypeRead == ASSUME NEW v \in VCPUs, TypeOK, Read(v) PROVE TypeOK'
<1> USE DEF TypeOK, IrqTypeOK, VcpuStates, irqVars, regVars, hostVars, histVars,
            iirUnchanged
<1>1. CASE ReadRBR(v)
  <2>1. rx_buf' \in Seq(Byte)
    BY <1>1 DEF ReadRBR
  <2>2. taken' \in Nat
    BY <1>1 DEF ReadRBR
  <2>3. QED BY <1>1, <2>1, <2>2 DEF ReadRBR
<1>2. CASE ReadIIR_Sample(v)
  BY <1>2 DEF ReadIIR_Sample
<1>3. CASE ReadIIR_Receiver(v)
  BY <1>3 DEF ReadIIR_Receiver, RxPendingDies
<1>4. CASE ReadIIR_Transmitter(v)
  BY <1>4 DEF ReadIIR_Transmitter
<1>5. QED BY <1>1, <1>2, <1>3, <1>4 DEF Read

LEMMA TypeWrite == ASSUME NEW v \in VCPUs, TypeOK, Write(v) PROVE TypeOK'
<1> USE DEF TypeOK, IrqTypeOK, VcpuStates, irqVars, regVars, hostVars, histVars
<1>1. CASE WriteDLL(v) \/ WriteDLH(v) \/ WriteSR(v) \/ WriteReadOnly(v)
  BY <1>1 DEF WriteDLL, WriteDLH, WriteSR, WriteReadOnly, Store
<1>2. ASSUME NEW x \in FCRValues, WriteFCR(v, x) PROVE TypeOK'
  BY <1>2, ValuesAssumption DEF WriteFCR, Store
<1>3. ASSUME NEW x \in LCRValues, WriteLCR(v, x) PROVE TypeOK'
  BY <1>3, ValuesAssumption DEF WriteLCR, Store
<1>4. ASSUME NEW x \in MCRValues, WriteMCR(v, x) PROVE TypeOK'
  BY <1>4, ValuesAssumption DEF WriteMCR, Store
<1>5. ASSUME NEW x \in IERValues, WriteIER(v, x) PROVE TypeOK'
  BY <1>5 DEF WriteIER
<1>6. CASE SampleRx(v)
  BY <1>6 DEF SampleRx
<1>7. ASSUME NEW raise, NEW pc \in VcpuStates, FlapIf(v, raise, pc) PROVE TypeOK'
  <2>1. rx_pending' \in [VCPUs -> BOOLEAN]
    BY <1>7 DEF FlapIf, RxPendingDies
  <2>2. CASE raise
    BY <1>7, <2>1, <2>2, ThreadsAssumption DEF FlapIf, CallFlap, FlapStates
  <2>3. CASE ~raise
    BY <1>7, <2>1, <2>3 DEF FlapIf
  <2>4. QED BY <2>2, <2>3
<1>8. CASE KickTransmitter(v) \/ KickReceiver(v) \/ NotifyTransmitter(v)
  BY <1>8, <1>7 DEF KickTransmitter, KickReceiver, NotifyTransmitter
<1>9. CASE WriteTHR_Loopback(v)
  <2>1. GuestByte(sent') \in Byte
    BY <1>9 DEF WriteTHR_Loopback, GuestByte, Byte
  <2>2. rx_buf' \in Seq(Byte)
    BY <1>9, <2>1 DEF WriteTHR_Loopback
  <2>3. QED BY <1>9, <2>2 DEF WriteTHR_Loopback
<1>10. CASE WriteTHR_Stdout(v)
  <2>1. hostOut' \in Seq(Nat)
    BY <1>10 DEF WriteTHR_Stdout
  <2>2. QED BY <1>10, <2>1 DEF WriteTHR_Stdout
<1>11. CASE WriteTHR_StdoutFails(v)
  BY <1>11 DEF WriteTHR_StdoutFails
<1>12. CASE WriteReturns(v)
  BY <1>12, ThreadsAssumption DEF WriteReturns, ReturnFlap, FlapStates
<1>13. QED
  BY <1>1, <1>2, <1>3, <1>4, <1>5, <1>6, <1>8, <1>9, <1>10, <1>11, <1>12 DEF Write

LEMMA TypeFlap == ASSUME NEW t \in Threads, TypeOK, FlapStep(t) PROVE TypeOK'
  BY DEF TypeOK, IrqTypeOK, FlapStates, FlapStep, FlapLowers, LowerLine, SetLevel,
         FlapRaises, RaiseLine, FlapFails, IrqLineFails, flapUnchanged, regVars, hostVars

LEMMA TypeNext == TypeOK /\ [Next]_vars => TypeOK'
<1> SUFFICES ASSUME TypeOK, [Next]_vars PROVE TypeOK'
  OBVIOUS
<1>1. CASE GuestAck
  BY <1>1 DEF TypeOK, IrqTypeOK, GuestAck, Acknowledge, flapUnchanged, regVars, hostVars
<1>2. CASE UNCHANGED vars
  BY <1>2 DEF vars, TypeOK, IrqTypeOK, irqVars, regVars, hostVars, histVars
<1>3. QED
  BY <1>1, <1>2, TypeReader, TypeRead, TypeWrite, TypeFlap DEF Next

\* The registers hold only their writable bits and every thread is at one of
\* the points the handlers have.
THEOREM TypeCorrect == Spec => []TypeOK
  BY TypeInit, TypeNext, PTL DEF Spec

-----------------------------------------------------------------------------
(***************************************************************************)
(* No lost wakeup                                                          *)
(***************************************************************************)

IInv == TypeOK /\ FlapSync /\ RxAnswered /\ TxAnswered

LEMMA InitInv == Init => IInv
<1>1. Init => FlapSync
  BY ThreadsAssumption DEF Init, IrqInit, FlapSync
<1>2. Init => RxAnswered /\ TxAnswered
  BY DEF Init, RxAnswered, TxAnswered
<1>3. QED BY TypeInit, <1>1, <1>2 DEF IInv

-----------------------------------------------------------------------------

LEMMA SyncNext == TypeOK /\ FlapSync /\ [Next]_vars => FlapSync'
<1> SUFFICES ASSUME TypeOK, FlapSync, [Next]_vars PROVE FlapSync'
  OBVIOUS
<1> USE ThreadsAssumption
    DEF FlapSync, TypeOK, IrqTypeOK, irqVars, hostVars, VcpuStates, ReaderStates
<1>1. CASE ReaderStep
  BY <1>1 DEF ReaderStep, ReaderReads, ReaderPushes, ReaderChecksIER,
              ReaderFlapReturns, ReaderEOF, CallFlap, ReturnFlap, readerUnchanged
<1>2. ASSUME NEW v \in VCPUs, Read(v) PROVE FlapSync'
  BY <1>2 DEF Read, ReadRBR, ReadIIR_Sample, ReadIIR_Receiver, ReadIIR_Transmitter,
              RxPendingDies, iirUnchanged
<1>3. ASSUME NEW v \in VCPUs, Write(v) PROVE FlapSync'
  <2>1. ASSUME NEW others, Store(v, others) PROVE FlapSync'
    BY <2>1 DEF Store
  <2>2. ASSUME NEW raise, NEW pc \in {"guest", "kick2"}, vcpu[v] # "flap",
               FlapIf(v, raise, pc)
        PROVE  FlapSync'
    BY <2>2 DEF FlapIf, RxPendingDies, CallFlap
  <2>3. CASE \/ WriteDLL(v) \/ WriteDLH(v) \/ WriteSR(v) \/ WriteReadOnly(v)
             \/ \E x \in FCRValues : WriteFCR(v, x)
             \/ \E x \in LCRValues : WriteLCR(v, x)
             \/ \E x \in MCRValues : WriteMCR(v, x)
    BY <2>3, <2>1 DEF WriteDLL, WriteDLH, WriteSR, WriteReadOnly, WriteFCR, WriteLCR,
                      WriteMCR
  <2>4. CASE KickTransmitter(v) \/ KickReceiver(v) \/ NotifyTransmitter(v)
    BY <2>4, <2>2 DEF KickTransmitter, KickReceiver, NotifyTransmitter
  <2>5. CASE WriteReturns(v)
    BY <2>5 DEF WriteReturns, ReturnFlap
  <2>6. CASE \/ \E x \in IERValues : WriteIER(v, x)
             \/ SampleRx(v) \/ WriteTHR_Loopback(v) \/ WriteTHR_Stdout(v)
             \/ WriteTHR_StdoutFails(v)
    BY <2>6 DEF WriteIER, SampleRx, WriteTHR_Loopback, WriteTHR_Stdout,
                WriteTHR_StdoutFails
  <2>7. QED BY <1>3, <2>3, <2>4, <2>5, <2>6 DEF Write
<1>4. ASSUME NEW t \in Threads, FlapStep(t) PROVE FlapSync'
  BY <1>4 DEF FlapStep, FlapLowers, FlapRaises, FlapFails, LowerLine, RaiseLine,
              IrqLineFails, flapUnchanged
<1>5. CASE GuestAck
  BY <1>5 DEF GuestAck, Acknowledge, flapUnchanged
<1>6. CASE UNCHANGED vars
  BY <1>6 DEF vars
<1>7. QED BY <1>1, <1>2, <1>3, <1>4, <1>5, <1>6 DEF Next

\* The steps of a flap: either an edge has settled all that was owed, or the
\* ioctl has failed, or somebody is still going to raise the line.
LEMMA FlapKeepsRaising ==
  ASSUME NEW t \in Threads, TypeOK, FlapStep(t), \E u \in Threads : Raising(u)
  PROVE  owed' = {} \/ irqFailed' \/ \E u \in Threads : Raising(u)'
<1> PICK u \in Threads : Raising(u)
  OBVIOUS
<1> USE DEF TypeOK, IrqTypeOK, FlapStates, Raising
<1>1. CASE FlapLowers(t)
  BY <1>1 DEF FlapLowers, LowerLine, SetLevel
<1>2. CASE FlapRaises(t)
  <2>1. CASE line = 0
    BY <1>2, <2>1 DEF FlapRaises, RaiseLine, SetLevel, RisingEdge
  <2>2. CASE line = 1
    BY <1>2, <2>2 DEF FlapRaises, RaiseLine, SetLevel, RisingEdge
  <2>3. QED BY <2>1, <2>2
<1>3. CASE FlapFails(t)
  BY <1>3 DEF FlapFails
<1>4. QED BY <1>1, <1>2, <1>3 DEF FlapStep

\* A step of a flap that is not an edge adds nothing to what is owed, and
\* forgets no failure.
LEMMA FlapFrame ==
  ASSUME NEW t \in Threads, TypeOK, FlapStep(t)
  PROVE  /\ owed' = {} \/ (owed' = owed /\ (irqFailed => irqFailed'))
         /\ UNCHANGED <<IER, rx_buf, reader, vcpu, rx_pending>>
<1> USE DEF flapUnchanged, regVars, hostVars
<1>1. CASE FlapRaises(t)
  BY <1>1 DEF FlapRaises
<1>2. CASE FlapLowers(t) \/ FlapFails(t)
  BY <1>2 DEF FlapLowers, FlapFails
<1>3. QED BY <1>1, <1>2 DEF FlapStep

\* A keystroke waiting after a read was waiting before it.
LEMMA ReadHostWaiting ==
  ASSUME NEW v \in VCPUs, TypeOK, ReadRBR(v), HostWaiting'
  PROVE  HostWaiting
<1>1. PICK i \in DOMAIN rx_buf' : rx_buf'[i].src = "host"
  BY DEF HostWaiting
<1>2. rx_buf # <<>> /\ rx_buf' = Tail(rx_buf)
  BY <1>1 DEF ReadRBR
<1>3. rx_buf \in Seq(Byte) /\ i + 1 \in DOMAIN rx_buf /\ rx_buf[i + 1] = rx_buf'[i]
  BY <1>1, <1>2 DEF TypeOK
<1>4. QED BY <1>1, <1>3 DEF HostWaiting

\* A keystroke waiting after a loopback write was waiting before it.
LEMMA LoopHostWaiting ==
  ASSUME NEW v \in VCPUs, TypeOK, WriteTHR_Loopback(v), HostWaiting'
  PROVE  HostWaiting
<1>1. PICK i \in DOMAIN rx_buf' : rx_buf'[i].src = "host"
  BY DEF HostWaiting
<1>2. rx_buf \in Seq(Byte) /\ rx_buf' = Append(rx_buf, GuestByte(sent'))
  BY DEF TypeOK, WriteTHR_Loopback
<1>3. GuestByte(sent').src = "guest"
  BY DEF GuestByte
<1>4. i \in DOMAIN rx_buf /\ rx_buf[i] = rx_buf'[i]
  BY <1>1, <1>2, <1>3
<1>5. QED BY <1>1, <1>4 DEF HostWaiting

-----------------------------------------------------------------------------

LEMMA RxNext == IInv /\ [Next]_vars => RxAnswered'
<1> SUFFICES ASSUME IInv, [Next]_vars,
                    "rx" \in owed', ~irqFailed', HostWaiting', "DATA_AVL" \in IER'
             PROVE  RxHandler'
  BY DEF RxAnswered
<1> USE DEF IInv, RxAnswered
<1> USE ThreadsAssumption DEF TypeOK, IrqTypeOK, FlapStates
<1>1. CASE ReaderStep
  <2> USE DEF readerUnchanged, irqVars, regVars, histVars, RxHandler, Raising
  <2>1. CASE ReaderReads \/ ReaderEOF
    BY <1>1, <2>1 DEF ReaderReads, ReaderEOF, HostWaiting
  <2>2. CASE ReaderPushes
    BY <2>2 DEF ReaderPushes
  <2>3. CASE ReaderChecksIER
    BY <2>3 DEF ReaderChecksIER, CallFlap
  <2>4. CASE ReaderFlapReturns
    BY <2>4 DEF ReaderFlapReturns, ReturnFlap, HostWaiting
  <2>5. QED BY <1>1, <2>1, <2>2, <2>3, <2>4 DEF ReaderStep
<1>2. ASSUME NEW v \in VCPUs, Read(v) PROVE RxHandler'
  <2> USE DEF irqVars, regVars, histVars, hostVars, iirUnchanged, RxHandler, Raising
  <2>1. CASE ReadRBR(v)
    <3>1. HostWaiting
      BY <2>1, ReadHostWaiting
    <3>2. QED BY <2>1, <3>1 DEF ReadRBR
  <2>2. CASE ReadIIR_Sample(v)
    BY <2>2 DEF ReadIIR_Sample, HostWaiting
  <2>3. CASE ReadIIR_Receiver(v) \/ ReadIIR_Transmitter(v)
    BY <2>3 DEF ReadIIR_Receiver, ReadIIR_Transmitter, RxPendingDies, HostWaiting
  <2>4. QED BY <1>2, <2>1, <2>2, <2>3 DEF Read
<1>3. ASSUME NEW v \in VCPUs, Write(v) PROVE RxHandler'
  <2> USE DEF irqVars, regVars, histVars, hostVars, RxHandler, Raising
  <2>1. CASE \/ WriteDLL(v) \/ WriteDLH(v) \/ WriteSR(v) \/ WriteReadOnly(v)
             \/ \E x \in FCRValues : WriteFCR(v, x)
             \/ \E x \in LCRValues : WriteLCR(v, x)
             \/ \E x \in MCRValues : WriteMCR(v, x)
    <3>1. UNCHANGED <<irqVars, IER, rx_buf, reader, vcpu, rx_pending, owed, irqFailed>>
      BY <2>1 DEF WriteDLL, WriteDLH, WriteSR, WriteReadOnly, WriteFCR, WriteLCR,
                  WriteMCR, Store
    <3>2. QED BY <3>1 DEF HostWaiting
  <2>2. CASE \E x \in IERValues : WriteIER(v, x)
    BY <2>2 DEF WriteIER, VcpuStates
  <2>3. CASE SampleRx(v)
    <3>1. rx_buf # <<>>
      BY <2>3 DEF SampleRx, HostWaiting
    <3>2. QED BY <2>3, <3>1 DEF SampleRx
  <2>4. CASE KickTransmitter(v)
    BY <2>4 DEF KickTransmitter, FlapIf, RxPendingDies, CallFlap, HostWaiting
  <2>5. CASE KickReceiver(v)
    BY <2>5 DEF KickReceiver, FlapIf, RxPendingDies, CallFlap, HostWaiting
  <2>6. CASE WriteTHR_Loopback(v)
    <3>1. HostWaiting
      BY <2>6, LoopHostWaiting
    <3>2. QED BY <2>6, <3>1 DEF WriteTHR_Loopback
  <2>7. CASE WriteTHR_Stdout(v) \/ WriteTHR_StdoutFails(v)
    BY <2>7 DEF WriteTHR_Stdout, WriteTHR_StdoutFails, HostWaiting
  <2>8. CASE NotifyTransmitter(v)
    BY <2>8 DEF NotifyTransmitter, FlapIf, RxPendingDies, CallFlap, HostWaiting
  <2>9. CASE WriteReturns(v)
    BY <2>9 DEF WriteReturns, ReturnFlap, HostWaiting
  <2>10. QED
    BY <1>3, <2>1, <2>2, <2>3, <2>4, <2>5, <2>6, <2>7, <2>8, <2>9 DEF Write
<1>4. ASSUME NEW t \in Threads, FlapStep(t) PROVE RxHandler'
  <2>1. RxHandler
    BY <1>4, FlapFrame DEF HostWaiting
  <2>2. CASE \E u \in Threads : Raising(u)
    BY <1>4, <2>2, FlapKeepsRaising DEF RxHandler
  <2>3. CASE ~ \E u \in Threads : Raising(u)
    BY <1>4, <2>1, <2>3, FlapFrame DEF RxHandler
  <2>4. QED BY <2>2, <2>3
<1>5. CASE GuestAck \/ UNCHANGED vars
  <2>1. UNCHANGED <<line, flap, IER, rx_buf, reader, vcpu, rx_pending, owed, irqFailed>>
    BY <1>5 DEF GuestAck, Acknowledge, flapUnchanged, vars, irqVars, regVars, hostVars,
                histVars
  <2>2. QED BY <2>1 DEF HostWaiting, RxHandler, Raising
<1>6. QED BY <1>1, <1>2, <1>3, <1>4, <1>5 DEF Next

LEMMA TxNext == IInv /\ [Next]_vars => TxAnswered'
<1> SUFFICES ASSUME IInv, [Next]_vars,
                    "tx" \in owed', ~irqFailed', "THR_EMPTY" \in IER'
             PROVE  TxHandler'
  BY DEF TxAnswered
<1> USE DEF IInv, TxAnswered
<1> USE ThreadsAssumption DEF TypeOK, IrqTypeOK, FlapStates
<1>1. CASE ReaderStep
  <2> USE DEF readerUnchanged, irqVars, regVars, histVars, TxHandler, Raising
  <2>1. CASE ReaderReads \/ ReaderPushes \/ ReaderEOF
    BY <2>1 DEF ReaderReads, ReaderPushes, ReaderEOF
  <2>2. CASE ReaderChecksIER
    BY <2>2 DEF ReaderChecksIER, CallFlap
  <2>3. CASE ReaderFlapReturns
    BY <2>3 DEF ReaderFlapReturns, ReturnFlap
  <2>4. QED BY <1>1, <2>1, <2>2, <2>3 DEF ReaderStep
<1>2. ASSUME NEW v \in VCPUs, Read(v) PROVE TxHandler'
  <2> USE DEF irqVars, regVars, histVars, hostVars, iirUnchanged, TxHandler, Raising
  <2>1. CASE ReadRBR(v)
    BY <2>1 DEF ReadRBR
  <2>2. CASE ReadIIR_Sample(v) \/ ReadIIR_Receiver(v) \/ ReadIIR_Transmitter(v)
    BY <2>2 DEF ReadIIR_Sample, ReadIIR_Receiver, ReadIIR_Transmitter, RxPendingDies
  <2>3. QED BY <1>2, <2>1, <2>2 DEF Read
<1>3. ASSUME NEW v \in VCPUs, Write(v) PROVE TxHandler'
  <2> USE DEF irqVars, regVars, histVars, hostVars, TxHandler, Raising
  <2>1. CASE \/ WriteDLL(v) \/ WriteDLH(v) \/ WriteSR(v) \/ WriteReadOnly(v)
             \/ \E x \in FCRValues : WriteFCR(v, x)
             \/ \E x \in LCRValues : WriteLCR(v, x)
             \/ \E x \in MCRValues : WriteMCR(v, x)
    <3>1. UNCHANGED <<irqVars, IER, vcpu, owed, irqFailed>>
      BY <2>1 DEF WriteDLL, WriteDLH, WriteSR, WriteReadOnly, WriteFCR, WriteLCR,
                  WriteMCR, Store
    <3>2. QED BY <3>1
  <2>2. CASE \/ \E x \in IERValues : WriteIER(v, x)
             \/ WriteTHR_Stdout(v)
    BY <2>2 DEF WriteIER, WriteTHR_Stdout
  <2>3. CASE SampleRx(v) \/ WriteTHR_Loopback(v) \/ WriteTHR_StdoutFails(v)
    BY <2>3 DEF SampleRx, WriteTHR_Loopback, WriteTHR_StdoutFails
  <2>4. CASE KickTransmitter(v) \/ KickReceiver(v) \/ NotifyTransmitter(v)
    BY <2>4 DEF KickTransmitter, KickReceiver, NotifyTransmitter, FlapIf, RxPendingDies,
                CallFlap
  <2>5. CASE WriteReturns(v)
    BY <2>5 DEF WriteReturns, ReturnFlap
  <2>6. QED BY <1>3, <2>1, <2>2, <2>3, <2>4, <2>5 DEF Write
<1>4. ASSUME NEW t \in Threads, FlapStep(t) PROVE TxHandler'
  <2>1. TxHandler
    BY <1>4, FlapFrame
  <2>2. CASE \E u \in Threads : Raising(u)
    BY <1>4, <2>2, FlapKeepsRaising DEF TxHandler
  <2>3. CASE ~ \E u \in Threads : Raising(u)
    BY <1>4, <2>1, <2>3, FlapFrame DEF TxHandler
  <2>4. QED BY <2>2, <2>3
<1>5. CASE GuestAck \/ UNCHANGED vars
  <2>1. UNCHANGED <<line, flap, IER, vcpu, owed, irqFailed>>
    BY <1>5 DEF GuestAck, Acknowledge, flapUnchanged, vars, irqVars, regVars, hostVars,
                histVars
  <2>2. QED BY <2>1 DEF TxHandler, Raising
<1>6. QED BY <1>1, <1>2, <1>3, <1>4, <1>5 DEF Next

LEMMA NextInv == IInv /\ [Next]_vars => IInv'
  BY TypeNext, SyncNext, RxNext, TxNext DEF IInv

\* A thread that will still raise the line is inside a handler.
LEMMA QuietNotRaising ==
  IInv /\ Quiet => ~ \E t \in Threads : Raising(t)
  BY ThreadsAssumption DEF IInv, TypeOK, Quiet, FlapSync, Raising

\* No keystroke is stranded: whenever all handlers are done and no ioctl has
\* failed since the last edge, an enabled receive interrupt has had its edge.
THEOREM NoKeystrokeStranded == Spec => []NoLostRx
<1>1. IInv => NoLostRx
  BY QuietNotRaising DEF IInv, NoLostRx, RxAnswered, RxHandler, Quiet
<1>2. QED BY InitInv, NextInv, <1>1, PTL DEF Spec

\* No transmitter is stranded: the same for the TX-empty interrupt.
THEOREM NoTransmitterStranded == Spec => []NoLostTx
<1>1. IInv => NoLostTx
  BY QuietNotRaising DEF IInv, NoLostTx, TxAnswered, TxHandler, Quiet
<1>2. QED BY InitInv, NextInv, <1>1, PTL DEF Spec

-----------------------------------------------------------------------------
(***************************************************************************)
(* Keystrokes reach the guest in order                                     *)
(***************************************************************************)

\* What KeystrokesInOrder leaves open: the byte the reader holds has been
\* counted, and the guest has taken no more than was queued.
KInv ==
  /\ TypeOK
  /\ reader = "push" => typed # 0
  /\ taken <= pushed
  /\ KeystrokesInOrder

\* The numbers of the queued keystrokes.
Queued == {rx_buf[i].n : i \in HostBytes}

\* A step that leaves the queue and the reader's progress alone keeps the order.
LEMMA OrderFrame ==
  ASSUME KInv, UNCHANGED <<rx_buf, taken, pushed>>
  PROVE  KeystrokesInOrder' /\ taken' <= pushed'
  BY DEF KInv, KeystrokesInOrder, HostBytes

\* A keystroke pushed behind all others is the next in order.
LEMMA OrderPush ==
  ASSUME KInv, ReaderPushes
  PROVE  KeystrokesInOrder' /\ taken' <= pushed'
<1>1. /\ rx_buf \in Seq(Byte) /\ typed \in Nat /\ taken \in Nat /\ typed # 0
      /\ pushed = typed - 1 /\ taken <= typed - 1
  BY DEF KInv, TypeOK, ReaderPushes, pushed
<1>2. /\ taken' = taken /\ pushed' = typed
      /\ rx_buf' = Append(rx_buf, HostByte(typed))
  BY DEF ReaderPushes, pushed
<1> DEFINE last == Len(rx_buf) + 1
<1>3. /\ DOMAIN rx_buf = 1 .. Len(rx_buf) /\ DOMAIN rx_buf' = 1 .. last
      /\ Len(rx_buf) \in Nat
      /\ \A i \in DOMAIN rx_buf : rx_buf'[i] = rx_buf[i]
      /\ rx_buf'[last] = HostByte(typed)
  BY <1>1, <1>2
<1>4. HostByte(typed).src = "host" /\ HostByte(typed).n = typed
  BY DEF HostByte
<1>5. HostBytes' = HostBytes \cup {last}
  BY <1>3, <1>4 DEF HostBytes
<1>6. last \notin HostBytes /\ \A i \in HostBytes : i < last /\ i \in DOMAIN rx_buf
  BY <1>3 DEF HostBytes
<1>7. \A i \in HostBytes : rx_buf'[i] = rx_buf[i] /\ rx_buf[i].n \in taken + 1 .. typed - 1
  BY <1>1, <1>3, <1>6 DEF KInv, KeystrokesInOrder
<1>8. Queued' = taken + 1 .. typed
  <2>1. Queued' = Queued \cup {typed}
    BY <1>3, <1>4, <1>5, <1>7 DEF Queued
  <2>2. Queued = taken + 1 .. typed - 1
    BY <1>1 DEF KInv, KeystrokesInOrder, Queued
  <2>3. (taken + 1 .. typed - 1) \cup {typed} = taken + 1 .. typed
    BY <1>1
  <2>4. QED BY <2>1, <2>2, <2>3
<1>9. ASSUME NEW i \in HostBytes', NEW j \in HostBytes', i < j
      PROVE  rx_buf'[i].n < rx_buf'[j].n
  <2>1. i \in HostBytes
    BY <1>3, <1>5, <1>6, <1>9
  <2>2. CASE j = last
    BY <1>1, <1>3, <1>4, <1>7, <2>1, <2>2
  <2>3. CASE j \in HostBytes
    BY <1>7, <1>9, <2>1, <2>3 DEF KInv, KeystrokesInOrder
  <2>4. QED BY <1>5, <2>2, <2>3
<1>10. {rx_buf'[i].n : i \in HostBytes'} = taken' + 1 .. pushed'
  BY <1>2, <1>8 DEF Queued
<1>11. taken' <= pushed'
  BY <1>1, <1>2
<1>12. QED BY <1>9, <1>10, <1>11 DEF KeystrokesInOrder

\* A byte the guest sends itself in loopback does not disturb the keystrokes.
LEMMA OrderLoopback ==
  ASSUME NEW v \in VCPUs, KInv, WriteTHR_Loopback(v)
  PROVE  KeystrokesInOrder' /\ taken' <= pushed'
<1>1. /\ rx_buf \in Seq(Byte) /\ rx_buf' = Append(rx_buf, GuestByte(sent'))
      /\ taken' = taken /\ pushed' = pushed
  BY DEF KInv, TypeOK, WriteTHR_Loopback, hostVars, histVars, pushed
<1>2. GuestByte(sent').src # "host"
  BY DEF GuestByte
<1>3. /\ DOMAIN rx_buf = 1 .. Len(rx_buf) /\ DOMAIN rx_buf' = 1 .. Len(rx_buf) + 1
      /\ Len(rx_buf) \in Nat
      /\ \A i \in DOMAIN rx_buf : rx_buf'[i] = rx_buf[i]
      /\ rx_buf'[Len(rx_buf) + 1] = GuestByte(sent')
  BY <1>1
<1>4. HostBytes' = HostBytes
  BY <1>2, <1>3 DEF HostBytes
<1>5. \A i \in HostBytes : rx_buf'[i] = rx_buf[i]
  BY <1>3 DEF HostBytes
<1>6. Queued' = Queued
  BY <1>4, <1>5 DEF Queued
<1>7. QED BY <1>1, <1>4, <1>5, <1>6 DEF KInv, KeystrokesInOrder, Queued

\* The keystroke at the front of the queue is the one after those taken.
LEMMA OldestFirst ==
  ASSUME KInv, 1 \in HostBytes
  PROVE  /\ rx_buf[1].n = taken + 1
         /\ taken + 1 <= pushed
         /\ \A i \in HostBytes \ {1} : rx_buf[i].n # taken + 1
<1>1. /\ DOMAIN rx_buf = 1 .. Len(rx_buf) /\ Len(rx_buf) \in Nat
      /\ taken \in Nat /\ pushed \in Int
  BY DEF KInv, TypeOK, pushed
<1>2. \A i \in HostBytes : rx_buf[i].n \in taken + 1 .. pushed
  BY DEF KInv, KeystrokesInOrder
<1>3. taken + 1 \in taken + 1 .. pushed
  BY <1>1, <1>2
<1>4. PICK j \in HostBytes : rx_buf[j].n = taken + 1
  BY <1>3 DEF KInv, KeystrokesInOrder
<1>5. \A i \in HostBytes \ {1} : rx_buf[1].n < rx_buf[i].n
  BY <1>1 DEF KInv, KeystrokesInOrder, HostBytes
<1>6. j = 1
  BY <1>1, <1>2, <1>4, <1>5
<1>7. rx_buf[1].n = taken + 1
  BY <1>4, <1>6
<1>8. taken + 1 <= pushed
  BY <1>1, <1>2, <1>4
<1>9. \A i \in HostBytes \ {1} : rx_buf[i].n # taken + 1
  BY <1>1, <1>2, <1>5, <1>7
<1>10. QED BY <1>7, <1>8, <1>9

\* What is left after a read of RBR is still in order.
LEMMA OrderTake ==
  ASSUME NEW v \in VCPUs, KInv, ReadRBR(v)
  PROVE  KeystrokesInOrder' /\ taken' <= pushed'
<1>1. /\ rx_buf \in Seq(Byte) /\ Len(rx_buf) \in Nat
      /\ DOMAIN rx_buf = 1 .. Len(rx_buf)
      /\ taken \in Nat /\ pushed \in Int /\ pushed' = pushed
  BY DEF KInv, TypeOK, ReadRBR, hostVars, pushed
<1>2. CASE rx_buf = <<>>
  <2>1. UNCHANGED <<rx_buf, taken, pushed>>
    BY <1>1, <1>2 DEF ReadRBR, RBR, ZeroByte
  <2>2. QED BY <2>1, OrderFrame
<1>3. CASE rx_buf # <<>>
  <2>1. /\ rx_buf' = Tail(rx_buf) /\ RBR = rx_buf[1] /\ 1 \in DOMAIN rx_buf
        /\ DOMAIN rx_buf' = 1 .. Len(rx_buf) - 1
        /\ \A i \in 1 .. Len(rx_buf) - 1 : rx_buf'[i] = rx_buf[i + 1]
    BY <1>1, <1>3 DEF ReadRBR, RBR
  <2>2. /\ \A i \in HostBytes' : i \in Int /\ i + 1 \in HostBytes \ {1}
        /\ \A i \in HostBytes' : rx_buf'[i].n = rx_buf[i + 1].n
    BY <1>1, <2>1 DEF HostBytes
  <2>3. \A k \in HostBytes \ {1} : k - 1 \in HostBytes' /\ rx_buf'[k - 1].n = rx_buf[k].n
    BY <1>1, <2>1 DEF HostBytes
  <2>4. Queued' = {rx_buf[k].n : k \in HostBytes \ {1}}
    BY <2>2, <2>3 DEF Queued
  <2>5. \A i, j \in HostBytes' : i < j => rx_buf'[i].n < rx_buf'[j].n
    BY <2>2 DEF KInv, KeystrokesInOrder
  <2>6. Queued = taken + 1 .. pushed
    BY DEF KInv, KeystrokesInOrder, Queued
  <2>7. CASE 1 \in HostBytes
    <3>1. taken' = taken + 1 /\ taken + 1 <= pushed
      BY <2>1, <2>7, OldestFirst DEF ReadRBR, HostBytes
    <3>2. Queued' = Queued \ {taken + 1}
      BY <2>4, <2>7, OldestFirst DEF Queued
    <3>3. Queued' = taken' + 1 .. pushed'
      BY <1>1, <2>6, <3>1, <3>2
    <3>4. QED BY <1>1, <2>5, <3>1, <3>3 DEF KeystrokesInOrder, Queued
  <2>8. CASE 1 \notin HostBytes
    <3>1. taken' = taken
      BY <2>1, <2>8 DEF ReadRBR, HostBytes
    <3>2. Queued' = Queued
      BY <2>4, <2>8 DEF Queued
    <3>3. QED BY <1>1, <2>5, <2>6, <3>1, <3>2 DEF KInv, KeystrokesInOrder, Queued
  <2>9. QED BY <2>7, <2>8
<1>4. QED BY <1>2, <1>3

LEMMA KInit == Init => KInv
<1> SUFFICES ASSUME Init PROVE KInv
  OBVIOUS
<1>1. rx_buf = <<>> /\ taken = 0 /\ pushed = 0 /\ reader = "read"
  BY DEF Init, pushed
<1>2. HostBytes = {}
  BY <1>1 DEF HostBytes
<1>3. KeystrokesInOrder
  BY <1>1, <1>2 DEF KeystrokesInOrder
<1>4. QED BY <1>1, <1>3, TypeInit DEF KInv

LEMMA KNext == KInv /\ [Next]_vars => KInv'
<1> SUFFICES ASSUME KInv, [Next]_vars PROVE KInv'
  OBVIOUS
<1>1. TypeOK'
  BY TypeNext DEF KInv
<1> SUFFICES /\ (reader = "push" => typed # 0)'
             /\ KeystrokesInOrder' /\ taken' <= pushed'
  BY <1>1 DEF KInv
<1>2. ASSUME UNCHANGED <<rx_buf, taken, reader, typed>>
      PROVE  /\ (reader = "push" => typed # 0)'
             /\ KeystrokesInOrder' /\ taken' <= pushed'
  <2>1. UNCHANGED pushed
    BY <1>2 DEF pushed
  <2>2. QED BY <1>2, <2>1, OrderFrame DEF KInv
<1>3. CASE ReaderStep
  <2>1. CASE ReaderPushes
    BY <2>1, OrderPush DEF ReaderPushes
  <2>2. CASE ReaderReads
    <3>1. UNCHANGED <<rx_buf, taken, pushed>>
      BY <2>2 DEF ReaderReads, pushed, histVars, KInv, TypeOK
    <3>2. (typed # 0)'
      BY <2>2 DEF ReaderReads, KInv, TypeOK
    <3>3. QED BY <3>1, <3>2, OrderFrame
  <2>3. CASE ReaderChecksIER \/ ReaderFlapReturns \/ ReaderEOF
    <3>1. UNCHANGED <<rx_buf, taken, typed>> /\ reader # "push" /\ reader' # "push"
      BY <2>3 DEF ReaderChecksIER, ReaderFlapReturns, ReaderEOF, histVars
    <3>2. UNCHANGED <<rx_buf, taken, pushed>>
      BY <3>1 DEF pushed
    <3>3. QED BY <3>1, <3>2, OrderFrame
  <2>4. QED BY <1>3, <2>1, <2>2, <2>3 DEF ReaderStep
<1>4. ASSUME NEW v \in VCPUs, Read(v)
      PROVE  /\ (reader = "push" => typed # 0)'
             /\ KeystrokesInOrder' /\ taken' <= pushed'
  <2>1. CASE ReadRBR(v)
    BY <2>1, OrderTake DEF ReadRBR, hostVars, KInv
  <2>2. CASE ReadIIR_Sample(v) \/ ReadIIR_Receiver(v) \/ ReadIIR_Transmitter(v)
    BY <2>2, <1>2 DEF ReadIIR_Sample, ReadIIR_Receiver, ReadIIR_Transmitter,
                      iirUnchanged, hostVars, histVars
  <2>3. QED BY <1>4, <2>1, <2>2 DEF Read
<1>5. ASSUME NEW v \in VCPUs, Write(v)
      PROVE  /\ (reader = "push" => typed # 0)'
             /\ KeystrokesInOrder' /\ taken' <= pushed'
  <2>1. CASE WriteTHR_Loopback(v)
    BY <2>1, OrderLoopback DEF WriteTHR_Loopback, hostVars, KInv
  <2>2. CASE \/ WriteDLL(v) \/ WriteDLH(v) \/ WriteSR(v) \/ WriteReadOnly(v)
             \/ \E x \in FCRValues : WriteFCR(v, x)
             \/ \E x \in LCRValues : WriteLCR(v, x)
             \/ \E x \in MCRValues : WriteMCR(v, x)
    BY <2>2, <1>2 DEF WriteDLL, WriteDLH, WriteSR, WriteReadOnly, WriteFCR, WriteLCR,
                      WriteMCR, Store, hostVars, histVars
  <2>3. CASE \/ \E x \in IERValues : WriteIER(v, x)
             \/ SampleRx(v) \/ WriteTHR_Stdout(v) \/ WriteTHR_StdoutFails(v)
             \/ WriteReturns(v)
    BY <2>3, <1>2 DEF WriteIER, SampleRx, WriteTHR_Stdout, WriteTHR_StdoutFails,
                      WriteReturns, hostVars, histVars
  <2>4. CASE KickTransmitter(v) \/ KickReceiver(v) \/ NotifyTransmitter(v)
    BY <2>4, <1>2 DEF KickTransmitter, KickReceiver, NotifyTransmitter, FlapIf,
                      hostVars, histVars
  <2>5. QED BY <1>5, <2>1, <2>2, <2>3, <2>4 DEF Write
<1>6. CASE GuestAck \/ \E t \in Threads : FlapStep(t)
  BY <1>6, <1>2 DEF GuestAck, FlapStep, FlapLowers, FlapRaises, FlapFails,
                    flapUnchanged, hostVars
<1>7. CASE UNCHANGED vars
  BY <1>7, <1>2 DEF vars, hostVars, histVars
<1>8. QED BY <1>3, <1>4, <1>5, <1>6, <1>7 DEF Next

\* Whatever the guest writes to the registers and sends itself in loopback, it
\* reads the keystrokes in the order they were typed, each exactly once.
THEOREM KeystrokesKeepOrder == Spec => []KeystrokesInOrder
<1>1. KInv => KeystrokesInOrder
  BY DEF KInv
<1>2. QED BY KInit, KNext, <1>1, PTL DEF Spec

=============================================================================
