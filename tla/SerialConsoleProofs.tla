------------------------- MODULE SerialConsoleProofs -------------------------
(***************************************************************************)
(* For any number of keystrokes and bytes, any FIFO load and any faults of *)
(* the interrupt line: the device of COM1 with its driver takes only steps *)
(* that the abstract console allows, and the driver is never left waiting  *)
(* for an interrupt that does not come.                                    *)
(***************************************************************************)
EXTENDS SerialConsole, COM1Proofs

\* The keys received are the first ones typed, and the queue holds those that
\* come next, up to the one the reader has in its hand.
KeysInv ==
  /\ typed \in Nat /\ (reader = "push" => typed # 0)
  /\ received \in Seq(Byte) /\ rx_buf \in Seq(Byte)
  /\ \A i \in 1 .. Len(received) : received[i] = HostByte(i)
  /\ Len(received) + Len(rx_buf) = pushed
  /\ \A i \in 1 .. Len(rx_buf) : rx_buf[i] = HostByte(Len(received) + i)

\* The terminal shows what was sent, the first of what the programs wrote.
OutputInv ==
  /\ sent \in Nat /\ queued \in Nat /\ sent <= queued
  /\ hostOut \in Seq(Nat) /\ Len(hostOut) = sent
  /\ \A i \in 1 .. Len(hostOut) : hostOut[i] = i

\* The driver has seen Data Ready when it reads RBR, and has a byte to send
\* when it transmits.
DriverInv ==
  /\ drv = "rbr" => rx_buf # <<>>
  /\ drv = "tx" => sent < queued

ConsoleInv == KeysInv /\ OutputInv /\ DriverInv

-----------------------------------------------------------------------------
\* A step that neither the user nor the programs see, and after which the driver
\* neither reads RBR nor transmits, unless it was about to before.
Silent ==
  /\ UNCHANGED <<typed, rx_buf, received, queued, sent, hostOut>>
  /\ reader' = "push" <=> reader = "push"
  /\ drv' \in {"rbr", "tx"} => drv' = drv

LEMMA SilentStep == ASSUME ConsoleInv, Silent PROVE ConsoleInv' /\ UNCHANGED Abstract!vars
<1>1. pushed' = pushed
  BY DEF Silent, pushed
<1>2. KeysInv'
  BY <1>1 DEF ConsoleInv, KeysInv, Silent
<1>3. OutputInv' /\ DriverInv'
  BY DEF ConsoleInv, OutputInv, DriverInv, Silent
<1>4. ReceivedKeys' = ReceivedKeys
  BY DEF Silent, ReceivedKeys
<1>5. QED BY <1>2, <1>3, <1>4 DEF ConsoleInv, Silent, Abstract!vars

\* The interrupt line, the registers and the handlers are silent.
LEMMA LineSilent == ASSUME NEW t, FlapStep(t), UNCHANGED drvVars PROVE Silent
  BY DEF FlapStep, FlapLowers, FlapRaises, FlapFails, flapUnchanged, hostVars, drvVars, Silent

LEMMA HandlerSilent == ASSUME Handler PROVE Silent
  BY DEF Handler, SampleRx, KickTransmitter, KickReceiver, NotifyTransmitter, WriteReturns,
         FlapIf, hostVars, drvVars, Silent

LEMMA ReaderSilent ==
  ASSUME ReaderChecksIER \/ ReaderFlapReturns, UNCHANGED drvVars PROVE Silent
  BY DEF ReaderChecksIER, ReaderFlapReturns, readerUnchanged, drvVars, Silent

LEMMA InterruptSilent == ASSUME TakeInterrupt PROVE Silent
  BY DEF TakeInterrupt, GuestAck, flapUnchanged, hostVars, Silent

LEMMA IIRSilent == ASSUME IsrReadIIR PROVE Silent
  BY DEF IsrReadIIR, ReadIIR_Sample, ReadIIR_Receiver, ReadIIR_Transmitter, iirUnchanged,
         hostVars, Silent

LEMMA IERSilent == ASSUME Startup \/ IsrStopTx \/ StartTx PROVE Silent
  BY DEF Startup, IsrStopTx, StartTx, PassDone, WriteIER, hostVars, Silent

-----------------------------------------------------------------------------
\* Under KeysInv the keys received are 1, 2, 3 and so on.
LEMMA KeysAre ==
  ASSUME KeysInv
  PROVE  ReceivedKeys = [i \in 1 .. Len(received) |-> i] /\ Len(received) \in Nat
<1>1. DOMAIN received = 1 .. Len(received) /\ Len(received) \in Nat
  BY DEF KeysInv
<1>2. \A i \in 1 .. Len(received) : received[i].src = "host" /\ received[i].n = i
  <2>1. \A i \in 1 .. Len(received) : HostByte(i).src = "host" /\ HostByte(i).n = i
    BY DEF HostByte
  <2>2. QED BY <2>1 DEF KeysInv
<1> DEFINE key(i) == IF received[i].src = "host" THEN received[i].n ELSE 0
<1>3. \A i \in 1 .. Len(received) : key(i) = i
  BY <1>2, Zenon
<1>4. ReceivedKeys = [i \in 1 .. Len(received) |-> key(i)]
  BY <1>1 DEF ReceivedKeys
<1> HIDE DEF key
<1>5. [i \in 1 .. Len(received) |-> key(i)] = [i \in 1 .. Len(received) |-> i]
  BY <1>3
<1>6. QED BY <1>1, <1>4, <1>5

LEMMA OneMore ==
  ASSUME NEW n \in Nat
  PROVE  Append([i \in 1 .. n |-> i], n + 1) = [i \in 1 .. n + 1 |-> i]
<1> DEFINE s == [i \in 1 .. n |-> i]
           t == [i \in 1 .. n + 1 |-> i]
<1>1. s \in Seq(Nat) /\ Len(s) = n /\ \A i \in 1 .. n : s[i] = i
  OBVIOUS
<1>2. t \in Seq(Nat) /\ Len(t) = n + 1 /\ \A i \in 1 .. n + 1 : t[i] = i
  OBVIOUS
<1> HIDE DEF s, t
<1>3. /\ Append(s, n + 1) \in Seq(Nat) /\ Len(Append(s, n + 1)) = n + 1
      /\ \A i \in 1 .. n + 1 : Append(s, n + 1)[i] = i
  BY <1>1
<1>4. Append(s, n + 1) = t
  BY <1>2, <1>3
<1>5. QED BY <1>4 DEF s, t

\* A key is typed, and queued some time later.
LEMMA TypeStep ==
  ASSUME ConsoleInv, ReaderReads, UNCHANGED drvVars PROVE ConsoleInv' /\ Abstract!Type
<1>1. /\ reader = "read" /\ reader' = "push" /\ typed' = typed + 1
      /\ UNCHANGED <<rx_buf, received, queued, sent, hostOut, drv>>
  BY DEF ReaderReads, readerUnchanged, drvVars
<1>2. typed \in Nat
  BY DEF ConsoleInv, KeysInv
<1>3. pushed' = pushed /\ typed' # 0 /\ typed' \in Nat
  BY <1>1, <1>2 DEF pushed
<1>4. KeysInv'
  BY <1>1, <1>3 DEF ConsoleInv, KeysInv
<1>5. OutputInv' /\ DriverInv'
  BY <1>1 DEF ConsoleInv, OutputInv, DriverInv
<1>6. ReceivedKeys' = ReceivedKeys
  BY <1>1 DEF ReceivedKeys
<1>7. QED BY <1>1, <1>4, <1>5, <1>6 DEF ConsoleInv, Abstract!Type

LEMMA PushStep ==
  ASSUME ConsoleInv, ReaderPushes, UNCHANGED drvVars PROVE ConsoleInv' /\ UNCHANGED Abstract!vars
<1>1. /\ reader = "push" /\ reader' = "check" /\ rx_buf' = Append(rx_buf, HostByte(typed))
      /\ UNCHANGED <<typed, received, queued, sent, hostOut, drv>>
  BY DEF ReaderPushes, readerUnchanged, drvVars
<1>2. /\ typed \in Nat /\ rx_buf \in Seq(Byte) /\ Len(rx_buf) \in Nat /\ Len(received) \in Nat
      /\ Len(received) + Len(rx_buf) = typed - 1 /\ pushed' = typed
  BY <1>1 DEF ConsoleInv, KeysInv, pushed
<1>3. HostByte(typed) \in Byte
  BY <1>2 DEF HostByte, Byte
<1> DEFINE last == Len(rx_buf) + 1
<1>4. /\ rx_buf' \in Seq(Byte) /\ Len(rx_buf') = last /\ rx_buf'[last] = HostByte(typed)
      /\ \A i \in 1 .. Len(rx_buf) : rx_buf'[i] = rx_buf[i]
  BY <1>1, <1>2, <1>3
<1>5. Len(received) + last = typed
  BY <1>2
<1>6. \A i \in 1 .. last : i = last \/ i \in 1 .. Len(rx_buf)
  BY <1>2
<1>7. rx_buf' # <<>>
  BY <1>2, <1>4
<1> HIDE DEF last
<1>8. \A i \in 1 .. Len(rx_buf') : rx_buf'[i] = HostByte(Len(received) + i)
  BY <1>4, <1>5, <1>6 DEF ConsoleInv, KeysInv
<1>9. KeysInv'
  BY <1>1, <1>2, <1>4, <1>5, <1>8 DEF ConsoleInv, KeysInv
<1>10. OutputInv' /\ DriverInv'
  BY <1>1, <1>7 DEF ConsoleInv, OutputInv, DriverInv
<1>11. ReceivedKeys' = ReceivedKeys
  BY <1>1 DEF ReceivedKeys
<1>12. QED BY <1>1, <1>9, <1>10, <1>11 DEF ConsoleInv, Abstract!vars

\* The driver reads RBR: the next key is delivered.
LEMMA DeliverStep ==
  ASSUME ConsoleInv, IsrReadRBR PROVE ConsoleInv' /\ Abstract!Deliver
<1>1. /\ rx_buf # <<>> /\ drv' = "lsr"
      /\ UNCHANGED <<typed, reader, queued, sent, hostOut>>
  BY DEF IsrReadRBR, ReadRBR, hostVars, ConsoleInv, DriverInv
<1>2. rx_buf' = Tail(rx_buf) /\ received' = Append(received, Head(rx_buf))
  BY <1>1 DEF IsrReadRBR, ReadRBR, RBR
<1>3. /\ received \in Seq(Byte) /\ rx_buf \in Seq(Byte) /\ typed \in Nat
      /\ Len(received) + Len(rx_buf) = pushed /\ pushed' = pushed /\ pushed <= typed
  BY <1>1 DEF ConsoleInv, KeysInv, pushed
<1> DEFINE n == Len(received)
<1>4. /\ n \in Nat /\ Len(rx_buf) \in Nat \ {0} /\ Head(rx_buf) = rx_buf[1]
      /\ Len(rx_buf') = Len(rx_buf) - 1 /\ rx_buf' \in Seq(Byte) /\ rx_buf[1] \in Byte
      /\ \A i \in 1 .. Len(rx_buf) - 1 : rx_buf'[i] = rx_buf[i + 1]
  BY <1>1, <1>2, <1>3
<1>5. rx_buf[1] = HostByte(n + 1)
  BY <1>4 DEF ConsoleInv, KeysInv
<1>6. /\ received' \in Seq(Byte) /\ Len(received') = n + 1 /\ received'[n + 1] = HostByte(n + 1)
      /\ \A i \in 1 .. n : received'[i] = received[i]
  BY <1>2, <1>3, <1>4, <1>5
<1>7. \A i \in 1 .. n + 1 : i = n + 1 \/ i \in 1 .. n
  BY <1>4
<1> HIDE DEF n
<1>8. \A i \in 1 .. Len(received') : received'[i] = HostByte(i)
  BY <1>6, <1>7 DEF ConsoleInv, KeysInv, n
<1>9. ASSUME NEW i \in 1 .. Len(rx_buf') PROVE rx_buf'[i] = HostByte(Len(received') + i)
  <2>1. i \in Nat /\ i \in 1 .. Len(rx_buf) - 1 /\ i + 1 \in 1 .. Len(rx_buf)
    BY <1>4
  <2>2. rx_buf'[i] = rx_buf[i + 1]
    BY <1>4, <2>1
  <2>3. rx_buf[i + 1] = HostByte(n + (i + 1))
    BY <2>1 DEF ConsoleInv, KeysInv, n
  <2>4. n + (i + 1) = Len(received') + i
    BY <1>4, <1>6, <2>1
  <2>5. QED BY <2>2, <2>3, <2>4
<1>10. Len(received') + Len(rx_buf') = pushed'
  BY <1>3, <1>4, <1>6 DEF n
<1>11. KeysInv'
  BY <1>1, <1>3, <1>4, <1>6, <1>8, <1>9, <1>10 DEF ConsoleInv, KeysInv
<1>12. OutputInv' /\ DriverInv'
  BY <1>1 DEF ConsoleInv, OutputInv, DriverInv
<1>13. ReceivedKeys = [i \in 1 .. n |-> i]
  BY KeysAre DEF ConsoleInv, n
<1>14. ReceivedKeys' = [i \in 1 .. n + 1 |-> i]
  <2>1. DOMAIN received' = 1 .. n + 1
    BY <1>6
  <2>2. \A i \in 1 .. n + 1 : received'[i].src = "host" /\ received'[i].n = i
    BY <1>6, <1>8 DEF HostByte
  <2>3. QED BY <2>1, <2>2 DEF ReceivedKeys
<1>15. Len(ReceivedKeys) = n
  BY <1>4, <1>13
<1>16. ReceivedKeys' = Append(ReceivedKeys, Len(ReceivedKeys) + 1)
  BY <1>4, <1>13, <1>14, <1>15, OneMore
<1>17. Len(ReceivedKeys) < typed
  BY <1>3, <1>4, <1>15 DEF n
<1>18. QED BY <1>1, <1>11, <1>12, <1>16, <1>17 DEF ConsoleInv, Abstract!Deliver

\* A byte goes out of THR: it is shown.
LEMMA ShowStep ==
  ASSUME ConsoleInv, IsrTransmit PROVE ConsoleInv' /\ Abstract!Show
<1>1. /\ drv = "tx" /\ sent' = sent + 1 /\ hostOut' = Append(hostOut, sent')
      /\ UNCHANGED <<typed, reader, rx_buf, received, queued>>
  BY DEF IsrTransmit, WriteTHR_Stdout, hostVars
<1>2. drv' = "tx" => queued # sent'
  BY DEF IsrTransmit, PassDone
<1>3. drv' # "rbr"
  BY DEF IsrTransmit, PassDone
<1>4. /\ sent \in Nat /\ queued \in Nat /\ sent < queued
      /\ hostOut \in Seq(Nat) /\ Len(hostOut) = sent
      /\ \A i \in 1 .. sent : hostOut[i] = i
  BY <1>1 DEF ConsoleInv, OutputInv, DriverInv
<1>5. /\ hostOut' \in Seq(Nat) /\ Len(hostOut') = sent + 1 /\ hostOut'[sent + 1] = sent + 1
      /\ \A i \in 1 .. sent : hostOut'[i] = hostOut[i]
  BY <1>1, <1>4
<1>6. \A i \in 1 .. sent + 1 : hostOut'[i] = i
  BY <1>4, <1>5
<1>7. OutputInv'
  BY <1>1, <1>4, <1>5, <1>6 DEF OutputInv
<1>8. DriverInv'
  BY <1>1, <1>2, <1>3, <1>4 DEF DriverInv
<1>9. KeysInv'
  BY <1>1 DEF ConsoleInv, KeysInv, pushed
<1>10. Abstract!Show
  <2>1. ReceivedKeys' = ReceivedKeys
    BY <1>1 DEF ReceivedKeys
  <2>2. QED BY <1>1, <1>4, <2>1 DEF Abstract!Show
<1>11. QED BY <1>7, <1>8, <1>9, <1>10 DEF ConsoleInv

\* A program writes a byte.
LEMMA WriteStep ==
  ASSUME ConsoleInv, AppWrites PROVE ConsoleInv' /\ Abstract!Write
<1>1. /\ queued' = queued + 1 /\ drv' \notin {"rbr", "tx"}
      /\ UNCHANGED <<typed, reader, rx_buf, received, sent, hostOut>>
  BY DEF AppWrites, vars, hostVars
<1>2. KeysInv'
  BY <1>1 DEF ConsoleInv, KeysInv, pushed
<1>3. OutputInv' /\ DriverInv'
  BY <1>1 DEF ConsoleInv, OutputInv, DriverInv
<1>4. ReceivedKeys' = ReceivedKeys
  BY <1>1 DEF ReceivedKeys
<1>5. QED BY <1>1, <1>2, <1>3, <1>4 DEF ConsoleInv, Abstract!Write

\* The driver reads LSR, and decides by it what to do next.
LEMMA LSRStep ==
  ASSUME ConsoleInv, IsrReadLSR PROVE ConsoleInv' /\ UNCHANGED Abstract!vars
<1>1. UNCHANGED <<typed, reader, rx_buf, received, queued, sent, hostOut>>
  BY DEF IsrReadLSR, vars, hostVars
<1>2. /\ drv' = "rbr" => "DR" \in LSR
      /\ drv' = "tx" => queued > sent
  BY DEF IsrReadLSR, PassDone
<1>3. "DR" \in LSR => rx_buf # <<>>
  BY DEF LSR
<1>4. DriverInv'
  BY <1>1, <1>2, <1>3 DEF ConsoleInv, OutputInv, DriverInv
<1>5. KeysInv' /\ OutputInv'
  BY <1>1 DEF ConsoleInv, KeysInv, OutputInv, pushed
<1>6. ReceivedKeys' = ReceivedKeys
  BY <1>1 DEF ReceivedKeys
<1>7. QED BY <1>1, <1>4, <1>5, <1>6 DEF ConsoleInv, Abstract!vars

-----------------------------------------------------------------------------
LEMMA InitConsole == ConsoleInit => ConsoleInv /\ Abstract!Init
<1> SUFFICES ASSUME ConsoleInit PROVE ConsoleInv /\ Abstract!Init
  OBVIOUS
<1>1. /\ rx_buf = <<>> /\ received = <<>> /\ hostOut = <<>> /\ reader = "read" /\ drv = "off"
      /\ typed = 0 /\ sent = 0 /\ queued = 0
  BY DEF ConsoleInit, Init
<1>2. KeysInv
  BY <1>1 DEF KeysInv, pushed
<1>3. OutputInv /\ DriverInv
  BY <1>1 DEF OutputInv, DriverInv
<1>4. ReceivedKeys = <<>>
  BY <1>1 DEF ReceivedKeys
<1>5. QED BY <1>1, <1>2, <1>3, <1>4 DEF ConsoleInv, Abstract!Init

LEMMA NextConsole ==
  ConsoleInv /\ [ConsoleNext]_allVars => ConsoleInv' /\ [Abstract!Next]_Abstract!vars
<1> SUFFICES ASSUME ConsoleInv, [ConsoleNext]_allVars
             PROVE  ConsoleInv' /\ [Abstract!Next]_Abstract!vars
  OBVIOUS
<1>1. CASE Driver
  <2>1. CASE IsrReadRBR
    BY <2>1, DeliverStep DEF Abstract!Next
  <2>2. CASE IsrTransmit
    BY <2>2, ShowStep DEF Abstract!Next
  <2>3. CASE IsrReadLSR
    BY <2>3, LSRStep
  <2>4. CASE IsrReadIIR \/ Startup \/ IsrStopTx \/ StartTx
    BY <2>4, IIRSilent, IERSilent, SilentStep
  <2>5. QED BY <1>1, <2>1, <2>2, <2>3, <2>4 DEF Driver
<1>2. CASE TakeInterrupt \/ Handler
  BY <1>2, InterruptSilent, HandlerSilent, SilentStep
<1>3. CASE AppWrites
  BY <1>3, WriteStep DEF Abstract!Next
<1>4. CASE Reading
  BY <1>4, PushStep, ReaderSilent, SilentStep DEF Reading
<1>5. CASE ReaderReads /\ UNCHANGED drvVars
  BY <1>5, TypeStep DEF Abstract!Next
<1>6. ASSUME NEW t \in Threads, Flapping(t) PROVE ConsoleInv' /\ UNCHANGED Abstract!vars
  BY <1>6, LineSilent, SilentStep DEF Flapping
<1>7. CASE UNCHANGED allVars
  <2>1. Silent
    BY <1>7 DEF allVars, vars, hostVars, drvVars, Silent
  <2>2. QED BY <2>1, SilentStep
<1>8. QED BY <1>1, <1>2, <1>3, <1>4, <1>5, <1>6, <1>7 DEF ConsoleNext

\* Every step of the device and its driver is a step of the abstract console or
\* none: no key is lost, repeated or out of order, a read of RBR never returns
\* the 0 of an empty queue, and the terminal shows what the programs write.
THEOREM Refinement == ConsoleSpec => ImplementsConsoleSafely
<1>1. QED
  BY InitConsole, NextConsole, PTL DEF ConsoleSpec, ImplementsConsoleSafely, Abstract!Spec

-----------------------------------------------------------------------------
(***************************************************************************)
(* The driver is one guest of the device: what holds of COM1 under every   *)
(* guest holds here.                                                       *)
(***************************************************************************)

LEMMA DriverIsAGuest == Driver => [Next]_vars
<1> SUFFICES ASSUME Driver PROVE [Next]_vars
  OBVIOUS
<1>1. Guest \in VCPUs /\ {"DATA_AVL"} \in IERValues /\ {"DATA_AVL", "THR_EMPTY"} \in IERValues
  BY DriverAssumption
<1>2. CASE Startup \/ IsrStopTx \/ StartTx
  BY <1>1, <1>2 DEF Startup, IsrStopTx, StartTx, Write, Next
<1>3. CASE IsrReadIIR
  BY <1>1, <1>3 DEF IsrReadIIR, Read, Next
<1>4. CASE IsrReadLSR
  BY <1>4 DEF IsrReadLSR
<1>5. CASE IsrReadRBR
  BY <1>1, <1>5 DEF IsrReadRBR, Read, Next
<1>6. CASE IsrTransmit
  BY <1>1, <1>6 DEF IsrTransmit, Write, Next
<1>7. QED BY <1>2, <1>3, <1>4, <1>5, <1>6 DEF Driver

LEMMA ConsoleIsAGuest == [ConsoleNext]_allVars => [Next]_vars
<1> SUFFICES ASSUME [ConsoleNext]_allVars PROVE [Next]_vars
  OBVIOUS
<1>1. Guest \in VCPUs
  BY DriverAssumption
<1>2. CASE Driver
  BY <1>2, DriverIsAGuest
<1>3. CASE TakeInterrupt
  BY <1>3 DEF TakeInterrupt, Next
<1>4. CASE AppWrites
  BY <1>4 DEF AppWrites
<1>5. CASE Handler
  BY <1>1, <1>5 DEF Handler, Write, Next
<1>6. CASE Reading \/ (ReaderReads /\ UNCHANGED drvVars)
  BY <1>6 DEF Reading, ReaderStep, Next
<1>7. ASSUME NEW t \in Threads, Flapping(t) PROVE Next
  BY <1>7 DEF Flapping, Next
<1>8. CASE UNCHANGED allVars
  BY <1>8 DEF allVars
<1>9. QED BY <1>2, <1>3, <1>4, <1>5, <1>6, <1>7, <1>8 DEF ConsoleNext

\* The device under this driver behaves as the device under some guest: every
\* theorem of COM1 holds of the console.
THEOREM DeviceUnderDriver == ConsoleSpec => Spec
<1>1. ConsoleInit => Init
  BY DEF ConsoleInit
<1>2. QED BY <1>1, ConsoleIsAGuest, PTL DEF ConsoleSpec, Spec

-----------------------------------------------------------------------------
(***************************************************************************)
(* The driver rests only when there is nothing to do.                      *)
(***************************************************************************)

\* A queued byte whose interrupt has been raised is known to the driver: the
\* interrupt is still to be taken, or the pass under way will see the byte.
RxSeen ==
  rx_buf # <<>> /\ "rx" \notin owed =>
    /\ drv \in {"idle", "tx", "stop", "start"} => irr = 1
    /\ drv = "iir" /\ vcpu[Guest] = "iir" => irr = 1 \/ rx_pending[Guest]
    /\ drv = "iir" /\ vcpu[Guest] = "iir2" => irr = 1

\* The same for the transmitter, which an idle driver relies on only while it has
\* its interrupt enabled.
TxSeen ==
  drv = "idle" /\ "THR_EMPTY" \in IER /\ "tx" \notin owed => irr = 1

\* The driver keeps the receiver enabled, and the transmitter while it has bytes
\* to send.
Enabled ==
  /\ drv # "off" => "DATA_AVL" \in IER
  /\ drv \in {"off", "stop"} => queued = sent
  /\ queued # sent /\ drv # "start" => "THR_EMPTY" \in IER

WatchInv == RxSeen /\ TxSeen /\ Enabled

\* A raise of the line that settles what is owed leaves a request behind.
LEMMA WatchFlap ==
  ASSUME NEW t \in Threads, TypeOK, WatchInv, FlapStep(t), UNCHANGED drvVars
  PROVE  WatchInv'
<1>1. /\ owed' = owed \/ irr' = 1
      /\ irr = 1 => irr' = 1
  BY DEF FlapStep, FlapLowers, FlapRaises, FlapFails, LowerLine, RaiseLine, IrqLineFails,
         SetLevel, RisingEdge
<1>2. UNCHANGED <<rx_buf, IER, vcpu, rx_pending, sent, queued, drv>>
  BY DEF FlapStep, FlapLowers, FlapRaises, FlapFails, flapUnchanged, regVars, drvVars
<1>3. RxSeen' /\ TxSeen'
  BY <1>1, <1>2 DEF WatchInv, RxSeen, TxSeen
<1>4. Enabled'
  BY <1>2 DEF WatchInv, Enabled
<1>5. QED BY <1>3, <1>4 DEF WatchInv

\* The rest of a write handler touches neither the queue nor IER, and it is not a
\* read of IIR.
LEMMA WatchHandler ==
  ASSUME TypeOK, WatchInv, Handler PROVE WatchInv'
<1>1. Guest \in VCPUs /\ vcpu \in [VCPUs -> VcpuStates]
  BY DriverAssumption DEF TypeOK
<1>2. UNCHANGED <<rx_buf, IER, owed, irr, sent, queued, drv>>
  BY DEF Handler, SampleRx, KickTransmitter, KickReceiver, NotifyTransmitter, WriteReturns,
         FlapIf, CallFlap, ReturnFlap, irqVars, regVars, histVars, drvVars
<1>3. vcpu'[Guest] \notin {"iir", "iir2"}
  BY <1>1 DEF Handler, SampleRx, KickTransmitter, KickReceiver, NotifyTransmitter,
              WriteReturns, FlapIf
<1>4. RxSeen' /\ TxSeen'
  BY <1>2, <1>3 DEF WatchInv, RxSeen, TxSeen
<1>5. Enabled'
  BY <1>2 DEF WatchInv, Enabled
<1>6. QED BY <1>4, <1>5 DEF WatchInv

\* A byte is queued and becomes owed an interrupt in the same step.
LEMMA WatchReader ==
  ASSUME WatchInv, Reading \/ (ReaderReads /\ UNCHANGED drvVars) PROVE WatchInv'
<1>1. UNCHANGED <<IER, vcpu, rx_pending, irr, sent, queued, drv>>
  BY DEF Reading, ReaderReads, ReaderPushes, ReaderChecksIER, ReaderFlapReturns, CallFlap,
         ReturnFlap, readerUnchanged, irqVars, regVars, drvVars
<1>2. \/ "rx" \in owed' /\ ("tx" \in owed' <=> "tx" \in owed)
      \/ UNCHANGED <<rx_buf, owed>>
  BY DEF Reading, ReaderReads, ReaderPushes, ReaderChecksIER, ReaderFlapReturns, histVars
<1>3. RxSeen' /\ TxSeen'
  BY <1>1, <1>2 DEF WatchInv, RxSeen, TxSeen
<1>4. Enabled'
  BY <1>1 DEF WatchInv, Enabled
<1>5. QED BY <1>3, <1>4 DEF WatchInv

\* Bits that the driver enables become owed.
LEMMA WatchIER ==
  ASSUME TypeOK, ConsoleInv, WatchInv, Startup \/ IsrStopTx \/ StartTx PROVE WatchInv'
<1>1. Guest \in VCPUs /\ vcpu \in [VCPUs -> VcpuStates]
  BY DriverAssumption DEF TypeOK
<1>2. PICK x \in {{"DATA_AVL"}, {"DATA_AVL", "THR_EMPTY"}} :
        /\ WriteIER(Guest, x)
        /\ drv # "start" => queued = sent /\ x = {"DATA_AVL"}
        /\ drv = "start" => x = {"DATA_AVL", "THR_EMPTY"}
  BY DEF Startup, IsrStopTx, StartTx, WatchInv, Enabled
<1>3. /\ IER' = x
      /\ owed' = owed \cup {c \in {"rx", "tx"} : cause[c] \in x}
      /\ vcpu'[Guest] = "sample"
      /\ UNCHANGED <<rx_buf, irr, sent>>
  BY <1>1, <1>2 DEF WriteIER, IERBits, irqVars
<1>4. drv' \in {"idle", "isr"} /\ UNCHANGED queued
  BY DEF Startup, IsrStopTx, StartTx, PassDone
<1>5. "rx" \in owed' /\ ("THR_EMPTY" \in x => "tx" \in owed')
  BY <1>3 DEF cause
<1>6. RxSeen' /\ TxSeen'
  BY <1>3, <1>4, <1>5 DEF RxSeen, TxSeen
<1>7. Enabled'
  BY <1>2, <1>3, <1>4 DEF Enabled
<1>8. QED BY <1>6, <1>7 DEF WatchInv

\* The driver sees the queue in IIR after the interrupt, and gives up only when no
\* cause is left.
LEMMA WatchIIR ==
  ASSUME TypeOK, WatchInv, IsrReadIIR PROVE WatchInv'
<1>1. /\ Guest \in VCPUs /\ vcpu \in [VCPUs -> VcpuStates]
      /\ rx_pending \in [VCPUs -> BOOLEAN]
  BY DriverAssumption DEF TypeOK
<1>2. UNCHANGED <<rx_buf, IER, owed, irr, sent, queued>>
  BY DEF IsrReadIIR, ReadIIR_Sample, ReadIIR_Receiver, ReadIIR_Transmitter, iirUnchanged,
         irqVars, regVars, histVars
<1>3. CASE drv = "isr"
  <2>1. /\ drv' = "iir" /\ vcpu'[Guest] = "iir"
        /\ rx_pending'[Guest] = (rx_buf # <<>>)
    BY <1>1, <1>3 DEF IsrReadIIR, ReadIIR_Sample
  <2>2. RxSeen' /\ TxSeen'
    BY <1>2, <2>1 DEF RxSeen, TxSeen
  <2>3. Enabled'
    BY <1>2, <1>3, <2>1 DEF WatchInv, Enabled
  <2>4. QED BY <2>2, <2>3 DEF WatchInv
<1>4. CASE drv = "iir" /\ vcpu[Guest] = "iir"
  <2>1. CASE IIR_RDA(Guest)
    <3>1. drv' = "lsr"
      BY <1>4, <2>1 DEF IsrReadIIR, ReadIIR_Receiver, ReadIIR_Transmitter
    <3>2. RxSeen' /\ TxSeen' /\ Enabled'
      BY <1>2, <1>4, <3>1 DEF WatchInv, RxSeen, TxSeen, Enabled
    <3>3. QED BY <3>2 DEF WatchInv
  <2>2. CASE ~IIR_RDA(Guest)
    <3>1. drv' = "iir" /\ vcpu'[Guest] = "iir2" /\ rx_pending[Guest] = FALSE
      BY <1>1, <1>4, <2>2 DEF IsrReadIIR, ReadIIR_Receiver, ReadIIR_Transmitter, IIR_RDA,
                              WatchInv, Enabled
    <3>2. rx_buf # <<>> /\ "rx" \notin owed => irr = 1
      BY <1>4, <3>1 DEF WatchInv, RxSeen
    <3>3. RxSeen' /\ TxSeen'
      BY <1>2, <3>1, <3>2 DEF RxSeen, TxSeen
    <3>4. Enabled'
      BY <1>2, <1>4, <3>1 DEF WatchInv, Enabled
    <3>5. QED BY <3>3, <3>4 DEF WatchInv
  <2>3. QED BY <2>1, <2>2
<1>5. CASE drv = "iir" /\ vcpu[Guest] = "iir2"
  <2>1. /\ drv' \in {"lsr", "idle"} /\ (drv' = "idle" => "THR_EMPTY" \notin IER)
        /\ vcpu'[Guest] = "guest"
    BY <1>1, <1>5 DEF IsrReadIIR, ReadIIR_Receiver, ReadIIR_Transmitter, IIR_THRE
  <2>2. RxSeen' /\ TxSeen'
    BY <1>2, <1>5, <2>1 DEF WatchInv, RxSeen, TxSeen
  <2>3. Enabled'
    BY <1>2, <1>5, <2>1 DEF WatchInv, Enabled
  <2>4. QED BY <2>2, <2>3 DEF WatchInv
<1>6. QED
  BY <1>3, <1>4, <1>5 DEF IsrReadIIR, ReadIIR_Sample, ReadIIR_Receiver, ReadIIR_Transmitter

\* The driver leaves the receiver only when LSR shows no byte.
LEMMA WatchLSR ==
  ASSUME ConsoleInv, WatchInv, IsrReadLSR PROVE WatchInv'
<1>1. drv = "lsr" /\ UNCHANGED <<rx_buf, IER, owed, irr, sent, queued, vcpu, rx_pending>>
  BY DEF IsrReadLSR, vars, irqVars, regVars, histVars
<1>2. \/ drv' \in {"rbr", "isr"}
      \/ rx_buf = <<>> /\ drv' = "tx"
      \/ rx_buf = <<>> /\ drv' = "stop" /\ ~(queued > sent)
      \/ rx_buf = <<>> /\ drv' = "idle" /\ "THR_EMPTY" \notin IER
  BY DEF IsrReadLSR, LSR, PassDone
<1>3. sent \in Nat /\ queued \in Nat /\ sent <= queued
  BY DEF ConsoleInv, OutputInv
<1>4. RxSeen' /\ TxSeen'
  BY <1>1, <1>2 DEF RxSeen, TxSeen
<1>5. Enabled'
  BY <1>1, <1>2, <1>3 DEF WatchInv, Enabled
<1>6. QED BY <1>4, <1>5 DEF WatchInv

\* A byte sent makes the transmitter owed an interrupt.
LEMMA WatchTransmit ==
  ASSUME ConsoleInv, WatchInv, IsrTransmit PROVE WatchInv'
<1>1. /\ drv = "tx" /\ sent' = sent + 1 /\ owed' = owed \cup {"tx"}
      /\ UNCHANGED <<rx_buf, IER, irr, queued>>
  BY DEF IsrTransmit, WriteTHR_Stdout, irqVars, regVars
<1>2. drv' \in {"tx", "isr", "idle"} \/ (drv' = "stop" /\ queued = sent')
  BY DEF IsrTransmit, PassDone
<1>3. sent \in Nat /\ queued \in Nat /\ sent < queued
  BY <1>1 DEF ConsoleInv, OutputInv, DriverInv
<1>4. RxSeen' /\ TxSeen'
  BY <1>1, <1>2 DEF WatchInv, RxSeen, TxSeen
<1>5. Enabled'
  BY <1>1, <1>2, <1>3 DEF WatchInv, Enabled
<1>6. QED BY <1>4, <1>5 DEF WatchInv

\* A program that finds the transmitter disabled makes the driver enable it.
LEMMA WatchWrite == ASSUME WatchInv, AppWrites PROVE WatchInv'
<1>1. /\ drv = "idle" /\ drv' = IF "THR_EMPTY" \in IER THEN "idle" ELSE "start"
      /\ UNCHANGED <<rx_buf, IER, owed, irr, sent, vcpu, rx_pending>>
  BY DEF AppWrites, vars, irqVars, regVars, histVars
<1>2. RxSeen' /\ TxSeen'
  BY <1>1 DEF WatchInv, RxSeen, TxSeen
<1>3. Enabled'
  BY <1>1 DEF WatchInv, Enabled
<1>4. QED BY <1>2, <1>3 DEF WatchInv

LEMMA WatchNext ==
  TypeOK /\ ConsoleInv /\ WatchInv /\ [ConsoleNext]_allVars => WatchInv'
<1> SUFFICES ASSUME TypeOK, ConsoleInv, WatchInv, [ConsoleNext]_allVars PROVE WatchInv'
  OBVIOUS
<1>1. CASE IsrReadRBR \/ TakeInterrupt
  <2>1. /\ drv' \in {"lsr", "isr"} /\ drv \in {"rbr", "idle"}
        /\ UNCHANGED <<IER, sent, queued>>
    BY <1>1 DEF IsrReadRBR, ReadRBR, TakeInterrupt, GuestAck, flapUnchanged, regVars
  <2>2. RxSeen' /\ TxSeen' /\ Enabled'
    BY <2>1 DEF WatchInv, RxSeen, TxSeen, Enabled
  <2>3. QED BY <2>2 DEF WatchInv
<1>2. CASE Driver
  BY <1>1, <1>2, WatchIER, WatchIIR, WatchLSR, WatchTransmit DEF Driver
<1>3. ASSUME NEW t \in Threads, Flapping(t) PROVE WatchInv'
  BY <1>3, WatchFlap DEF Flapping
<1>4. CASE UNCHANGED allVars
  <2>1. UNCHANGED <<rx_buf, IER, owed, irr, sent, queued, vcpu, rx_pending, drv>>
    BY <1>4 DEF allVars, vars, irqVars, regVars, histVars, drvVars
  <2>2. RxSeen' /\ TxSeen' /\ Enabled'
    BY <2>1 DEF WatchInv, RxSeen, TxSeen, Enabled
  <2>3. QED BY <2>2 DEF WatchInv
<1>5. QED
  BY <1>1, <1>2, <1>3, <1>4, WatchHandler, WatchReader, WatchWrite DEF ConsoleNext

LEMMA RestIsDone ==
  ConsoleInv /\ WatchInv /\ NoLostRx /\ NoLostTx => RestMeansDone
<1> SUFFICES ASSUME ConsoleInv, WatchInv, NoLostRx, NoLostTx,
                    drv = "idle", irr = 0, Quiet, ~irqFailed
             PROVE  Len(received) = typed /\ Len(hostOut) = queued
  BY DEF RestMeansDone
<1>1. rx_buf = <<>>
  <2> SUFFICES ASSUME rx_buf # <<>> PROVE FALSE
    OBVIOUS
  <2>1. 1 \in 1 .. Len(rx_buf) /\ 1 \in DOMAIN rx_buf
    BY DEF ConsoleInv, KeysInv
  <2>2. rx_buf[1].src = "host"
    <3>1. rx_buf[1] = HostByte(Len(received) + 1)
      BY <2>1 DEF ConsoleInv, KeysInv
    <3>2. QED BY <3>1 DEF HostByte
  <2>3. "rx" \notin owed
    BY <2>1, <2>2 DEF HostWaiting, NoLostRx, WatchInv, Enabled
  <2>4. QED BY <2>3 DEF WatchInv, RxSeen
<1>2. Len(received) = typed
  BY <1>1 DEF Quiet, ConsoleInv, KeysInv, pushed
<1>3. "THR_EMPTY" \notin IER
  BY DEF NoLostTx, WatchInv, TxSeen
<1>4. queued = sent
  BY <1>3 DEF WatchInv, Enabled
<1>5. QED BY <1>2, <1>4 DEF ConsoleInv, OutputInv

\* The driver waits for an interrupt only when every key typed has been received
\* and every byte written is shown: no order of the reader's test of IER, a write
\* to IER, the flaps and the driver's own pass leaves something behind for a
\* keystroke that may never come.
THEOREM NoWaitingInVain == ConsoleSpec => []RestMeansDone
<1>1. ConsoleInit => WatchInv
  BY DEF ConsoleInit, Init, WatchInv, RxSeen, TxSeen, Enabled
<1>2. ConsoleSpec => []TypeOK /\ []NoLostRx /\ []NoLostTx
  BY DeviceUnderDriver, TypeCorrect, NoKeystrokeStranded, NoTransmitterStranded, PTL
<1>3. QED
  BY <1>1, <1>2, InitConsole, NextConsole, WatchNext, RestIsDone, PTL DEF ConsoleSpec

=============================================================================
