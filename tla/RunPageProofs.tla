---------------------------- MODULE RunPageProofs ----------------------------
(***************************************************************************)
(* For any number of vCPUs, any ports, and any amount of typing and of     *)
(* output: what is proved of the data that goes through the run page.      *)
(***************************************************************************)
EXTENDS RunPage, VcpuRunProofs

\* The bytes there are.
AllKeys == {Key(n) : n \in Nat \ {0}}
AllSent == {Sent(v, n) : v \in VCPUs, n \in Nat}
Bytes == {Zero, Answer} \cup AllKeys \cup AllSent

DataTypes ==
  /\ clears \in BOOLEAN
  /\ page \in [VCPUs -> [Offsets -> Bytes]]
  /\ rx_buf \in Seq(AllKeys)
  /\ typed \in Nat
  /\ sent \in [VCPUs -> Nat]
  /\ devOut \in Seq(AllSent)
  /\ got \in [VCPUs -> Seq(Bytes)]

\* The control is that of VcpuRun, without failures of KVM_RUN.
ControlInv == RunInv /\ \A v \in VCPUs : ~failed[v]

DataInv == ControlInv /\ DataTypes

-----------------------------------------------------------------------------
\* What a device has taken was sent before; what the vCPU at an OUT has just
\* sent is in the page, and not taken yet if no handler has been called.
TakenInv ==
  /\ \A i \in 1 .. Len(devOut) :
       devOut[i][3] > 0 /\ devOut[i][3] <= sent[devOut[i][2]]
  /\ \A i, j \in 1 .. Len(devOut) :
       i < j /\ devOut[i][2] = devOut[j][2] => devOut[i][3] < devOut[j][3]

AtOut(v) == reason[v] = "IO" /\ io[v].dir = "out"

OutInv(v) ==
  AtOut(v) =>
    /\ io[v].count = 1 /\ sent[v] > 0 /\ page[v][0] = Sent(v, sent[v])
    /\ calls[v] = 0 => \A i \in 1 .. Len(devOut) : devOut[i][2] = v => devOut[i][3] < sent[v]

\* What is foreign in the array of an IN is there because KVM does not clear
\* it: the first byte only until a device has answered.
InInv(v) ==
  reason[v] = "IO" /\ io[v].dir = "in" =>
    \A i \in 0 .. io[v].size * io[v].count - 1 :
      Foreign(v, page[v][i]) =>
        /\ ~clears
        /\ \/ i > 0 \/ calls[v] = 0 \/ pc[v] = "stopped"
           \/ Handler(io[v].port, "in") \notin {"COM1", "CMOS"}

-----------------------------------------------------------------------------
\* Keys taken out of the queue.
taken == typed - Len(rx_buf)

\* The queue holds the other ones.
QueueInv ==
  /\ Len(rx_buf) <= typed
  /\ \A i \in 1 .. Len(rx_buf) : rx_buf[i] = Key(taken + i)

\* A vCPU has been given a key that its guest code has not got.
InFlight(v) ==
  /\ Answered(v) /\ io[v].port = RBR /\ pc[v] \in {"io", "run"}
  /\ IsKey(page[v][0])

\* Keys on their way are different, and of those that were taken out.
FlightInv ==
  /\ \A v \in VCPUs : InFlight(v) => page[v][0][2] <= taken
  /\ \A v, w \in VCPUs :
       v # w /\ InFlight(v) /\ InFlight(w) => page[v][0][2] # page[w][0][2]

\* So are those that have arrived, each vCPU's in order and before the one on its way.
GotInv ==
  /\ \A v \in VCPUs : \A i \in 1 .. Len(got[v]) :
       IsKey(got[v][i]) => got[v][i][2] <= taken
  /\ \A v \in VCPUs : \A i, j \in 1 .. Len(got[v]) :
       i < j /\ IsKey(got[v][i]) /\ IsKey(got[v][j]) => got[v][i][2] < got[v][j][2]
  /\ \A v, w \in VCPUs : v # w =>
       \A i \in 1 .. Len(got[v]), j \in 1 .. Len(got[w]) :
         IsKey(got[v][i]) /\ IsKey(got[w][j]) => got[v][i][2] # got[w][j][2]
  /\ \A v, w \in VCPUs : InFlight(w) =>
       \A i \in 1 .. Len(got[v]) : IsKey(got[v][i]) =>
         IF v = w THEN got[v][i][2] < page[w][0][2] ELSE got[v][i][2] # page[w][0][2]

\* Nothing puts a key anywhere but at the start of a page.
KeyFirst == \A v \in VCPUs : \A o \in Offsets : IsKey(page[v][o]) => o = 0

KeyInv == QueueInv /\ FlightInv /\ GotInv /\ KeyFirst

\* Every key that was taken out is on its way or has arrived.
Accounted ==
  \A n \in 1 .. taken :
    \/ \E v \in VCPUs : InFlight(v) /\ page[v][0] = Key(n)
    \/ \E v \in VCPUs : \E i \in 1 .. Len(got[v]) : got[v][i] = Key(n)

\* The guest reads RBR one byte at a time, as serial drivers do.
Bytewise ==
  \A v \in VCPUs :
    reason[v] = "IO" /\ io[v].dir = "in" /\ io[v].port = RBR => io[v].count = 1

-----------------------------------------------------------------------------
(***************************************************************************)
(* Bytes                                                                   *)
(***************************************************************************)

LEMMA KeyIs == ASSUME NEW n PROVE IsKey(Key(n)) /\ Key(n)[1] # "guest" /\ Key(n)[2] = n
  BY DEF IsKey, Key

LEMMA SentIs ==
  ASSUME NEW v, NEW n
  PROVE  ~IsKey(Sent(v, n)) /\ Sent(v, n)[1] = "guest" /\ Sent(v, n)[2] = v /\ Sent(v, n)[3] = n
  BY DEF IsKey, Sent

LEMMA OtherBytes ==
  ~IsKey(Zero) /\ Zero[1] # "guest" /\ ~IsKey(Answer) /\ Answer[1] # "guest"
  BY DEF IsKey, Zero, Answer

\* The first byte of the array is in the page.
LEMMA FirstByte == 0 \in Offsets
  BY RunPageAssumption, VcpuRunAssumption DEF Offsets

-----------------------------------------------------------------------------
(***************************************************************************)
(* The control                                                             *)
(***************************************************************************)

LEMMA EnterIsKvmRun == ASSUME NEW v, Enter(v) PROVE KvmRun(v)
  BY DEF Enter, KvmRun

LEMMA PageStepIsStep == [PageNext]_allVars => [Next]_vars
<1>1. Control => [Next]_vars
  BY DEF Control, Next, HostStep
<1>2. ReaderPushes => [Next]_vars
  BY DEF ReaderPushes
<1>3. ASSUME NEW v \in VCPUs, Enter(v) \/ Handle(v) PROVE [Next]_vars
  BY <1>3, EnterIsKvmRun DEF Handle, Next, HostStep
<1>4. UNCHANGED allVars => UNCHANGED vars
  BY DEF allVars
<1>5. QED BY <1>1, <1>2, <1>3, <1>4 DEF PageNext

\* No step lets KVM_RUN fail for good.
LEMMA NobodyFails ==
  ASSUME ControlInv, [PageNext]_allVars, NEW v \in VCPUs PROVE ~failed'[v]
<1>1. Control \/ ReaderPushes \/ UNCHANGED allVars => failed' = failed
  BY DEF Control, Boot, SpawnFails, JoinThread, BootReturns, Spawn, Continue,
      StartIO, EndIO, Stop, ReaderPushes, vars, allVars
<1>2. ASSUME NEW w \in VCPUs, Enter(w) \/ Handle(w) PROVE failed' = failed
  BY <1>2 DEF Enter, Exits, ExitsForIO, Interrupted, NotYetStarted, Handle, CallHandler
<1>3. failed' = failed
  BY <1>1, <1>2 DEF PageNext
<1>4. QED BY <1>3 DEF ControlInv

LEMMA ControlNext == ControlInv /\ [PageNext]_allVars => ControlInv'
  BY PageStepIsStep, RunNext, NobodyFails DEF ControlInv

LEMMA ControlInit == PageInit => ControlInv
  BY TypeInit, LoopInit DEF PageInit, ControlInv, RunInv, Init

-----------------------------------------------------------------------------
(***************************************************************************)
(* What the steps do to the data                                           *)
(***************************************************************************)

\* A step leaves vCPU w, its page and its guest code alone.
Same(w) ==
  /\ pc'[w] = pc[w] /\ reason'[w] = reason[w] /\ io'[w] = io[w] /\ calls'[w] = calls[w]
  /\ page'[w] = page[w] /\ sent'[w] = sent[w] /\ got'[w] = got[w]

LEMMA EnterControl ==
  ASSUME NEW v \in VCPUs, ControlInv, Enter(v)
  PROVE  /\ pc[v] = "run" /\ pc'[v] = "switch"
         /\ reason'[v] = "IO" => io'[v] \in IO /\ calls'[v] = 0
         /\ UNCHANGED <<clears, rx_buf, typed, devOut>>
         /\ Completes(v) /\ Fills(v)
<1> USE DEF ControlInv, RunInv, TypeOK
<1>1. /\ UNCHANGED <<clears, rx_buf, typed, devOut>>
      /\ Completes(v) /\ Fills(v)
  BY DEF Enter
<1>2. pc[v] = "run" /\ pc'[v] = "switch"
  BY DEF Enter, Exits, ExitsForIO, Interrupted, NotYetStarted, RunReturns
<1>3. CASE Exits(v) /\ reason'[v] = "HLT"
  BY <1>1, <1>2, <1>3
<1>4. CASE ExitsForIO(v)
  BY <1>1, <1>2, <1>4 DEF ExitsForIO
<1>5. CASE Interrupted(v)
  BY <1>1, <1>2, <1>5 DEF Interrupted
<1>6. CASE NotYetStarted(v)
  BY <1>1, <1>2, <1>6 DEF NotYetStarted, LoopInv
<1>7. QED BY <1>3, <1>4, <1>5, <1>6 DEF Enter

LEMMA EnterOthers ==
  ASSUME NEW v \in VCPUs, NEW w \in VCPUs, v # w, DataInv, Enter(v)
  PROVE  Same(w)
<1> USE DEF DataInv, DataTypes, ControlInv, RunInv, TypeOK
<1>1. pc'[w] = pc[w] /\ reason'[w] = reason[w] /\ io'[w] = io[w] /\ calls'[w] = calls[w]
  BY DEF Enter, Exits, ExitsForIO, Interrupted, NotYetStarted, RunReturns, NoIO
<1>2. got'[w] = got[w]
  BY DEF Enter, Completes
<1>3. sent'[w] = sent[w]
  BY DEF Enter, Fills
<1>4. page'[w] = page[w]
  <2>1. \E f : page' = [page EXCEPT ![v] = f]
    BY Zenon DEF Enter, Fills
  <2>2. QED BY <2>1
<1>5. QED BY <1>1, <1>2, <1>3, <1>4 DEF Same

\* What KVM puts into the page at an exit.
LEMMA EnterFills ==
  ASSUME NEW v \in VCPUs, DataInv, Enter(v)
  PROVE  /\ AtOut(v)' => /\ io'[v].count = 1 /\ sent'[v] = sent[v] + 1
                         /\ page'[v][0] = Sent(v, sent'[v])
         /\ ~AtOut(v)' => sent'[v] = sent[v]
         /\ reason'[v] = "IO" /\ io'[v].dir = "in" =>
              \A i \in 0 .. io'[v].size * io'[v].count - 1 :
                i \in Offsets => page'[v][i] = IF clears THEN Zero ELSE page[v][i]
<1> USE DEF DataInv, DataTypes
<1> DEFINE array == 0 .. io'[v].size * io'[v].count - 1
           out == reason'[v] = "IO" /\ io'[v].dir = "out"
           in  == reason'[v] = "IO" /\ io'[v].dir = "in"
           F(i) == CASE out /\ i \in array -> Sent(v, IF i = 0 THEN sent'[v] ELSE 0)
                     [] in /\ i \in array /\ clears -> Zero
                     [] OTHER -> page[v][i]
<1>1. /\ out => io'[v].count = 1
      /\ sent' = IF out THEN [sent EXCEPT ![v] = @ + 1] ELSE sent
      /\ page' = [page EXCEPT ![v] = [i \in Offsets |-> F(i)]]
  BY Zenon DEF Enter, Fills
<1>2. reason'[v] = "IO" => io'[v] \in IO
  BY EnterControl
<1>3. out => 0 \in array
  <2>1. ASSUME out PROVE io'[v].size \in {1, 2, 4}
    BY <1>2, <2>1, RunPageAssumption DEF IO
  <2>2. QED BY <1>1, <2>1
<1> HIDE DEF F
<1>4. \A i \in Offsets : page'[v][i] = F(i)
  BY <1>1
<1> HIDE DEF array
<1>5. out => F(0) = Sent(v, sent'[v])
  BY <1>3, Zenon DEF F
<1>6. ASSUME in, NEW i \in array PROVE F(i) = IF clears THEN Zero ELSE page[v][i]
  <2>1. ~out
    BY <1>6
  <2> HIDE DEF in, out
  <2>2. CASE clears
    BY <1>6, <2>1, <2>2, Zenon DEF F
  <2>3. CASE ~clears
    BY <1>6, <2>1, <2>3, Zenon DEF F
  <2>4. QED BY <2>2, <2>3
<1>7. /\ out => sent'[v] = sent[v] + 1
      /\ ~out => sent'[v] = sent[v]
  BY <1>1
<1>8. AtOut(v)' <=> out
  BY DEF AtOut
<1>9. out => page'[v][0] = Sent(v, sent'[v])
  BY <1>4, <1>5, FirstByte
<1>10. in => \A i \in array : i \in Offsets => page'[v][i] = IF clears THEN Zero ELSE page[v][i]
  BY <1>4, <1>6
<1>11. QED BY <1>1, <1>7, <1>8, <1>9, <1>10 DEF array

\* The array of an I/O exit is within the page.
LEMMA ArrayInPage ==
  ASSUME NEW x \in IO
  PROVE  /\ x.count \in 1 .. MaxCount
         /\ \A i \in 0 .. x.size * x.count - 1 : i \in Offsets
         /\ 0 \in 0 .. x.size * x.count - 1
<1>1. x.size \in {1, 2, 4} /\ x.count \in 1 .. MaxCount
  BY RunPageAssumption DEF IO
<1>2. MaxCount \in Nat /\ x.count \in Nat
  BY <1>1, VcpuRunAssumption
<1>3. x.size * x.count <= 4 * MaxCount /\ x.size * x.count \in Nat /\ x.size * x.count > 0
  BY <1>1, <1>2
<1>4. QED BY <1>1, <1>2, <1>3 DEF Offsets

LEMMA ElementInPage ==
  ASSUME NEW x \in IO, NEW i \in 1 .. x.count PROVE (i - 1) * x.size \in Offsets
<1>1. x.size \in {1, 2, 4} /\ x.count \in 1 .. MaxCount
  BY RunPageAssumption DEF IO
<1>2. MaxCount \in Nat /\ x.count \in Nat /\ i - 1 \in Nat /\ i <= MaxCount
  BY <1>1, VcpuRunAssumption
<1>3. (i - 1) * x.size \in Nat /\ (i - 1) * x.size <= 4 * (i - 1)
  BY <1>1, <1>2
<1>4. QED BY <1>2, <1>3 DEF Offsets

\* The types of the data survive an entry.
LEMMA EnterTypes ==
  ASSUME NEW v \in VCPUs, DataInv, Enter(v) PROVE DataTypes'
<1> USE DEF DataInv, DataTypes
<1>1. UNCHANGED <<clears, rx_buf, typed, devOut>>
  BY DEF Enter
<1>2. sent' \in [VCPUs -> Nat]
  BY DEF Enter, Fills
<1>3. page' \in [VCPUs -> [Offsets -> Bytes]]
  <2> DEFINE array == 0 .. io'[v].size * io'[v].count - 1
             out == reason'[v] = "IO" /\ io'[v].dir = "out"
             in  == reason'[v] = "IO" /\ io'[v].dir = "in"
             F(i) == CASE out /\ i \in array -> Sent(v, IF i = 0 THEN sent'[v] ELSE 0)
                       [] in /\ i \in array /\ clears -> Zero
                       [] OTHER -> page[v][i]
  <2>1. page' = [page EXCEPT ![v] = [i \in Offsets |-> F(i)]]
    BY Zenon DEF Enter, Fills
  <2>2. ASSUME NEW i \in Offsets PROVE F(i) \in Bytes
    <3> DEFINE n == IF i = 0 THEN sent'[v] ELSE 0
    <3>1. n \in Nat
      BY <1>2
    <3> HIDE DEF n
    <3>2. Sent(v, n) \in Bytes /\ Zero \in Bytes /\ page[v][i] \in Bytes
      BY <3>1 DEF Bytes, AllSent
    <3> HIDE DEF in, out, array
    <3>3. F(i) \in {Sent(v, n), Zero, page[v][i]}
      <4>1. CASE out /\ i \in array
        <5>1. ~(in /\ i \in array /\ clears)
          BY <4>1 DEF in, out
        <5>2. F(i) = Sent(v, n)
          BY <4>1, <5>1, Zenon DEF n
        <5>3. QED BY <5>2
      <4>2. CASE ~(out /\ i \in array) /\ in /\ i \in array /\ clears
        BY <4>2, Zenon
      <4>3. CASE ~(out /\ i \in array) /\ ~(in /\ i \in array /\ clears)
        BY <4>3, Zenon
      <4>4. QED BY <4>1, <4>2, <4>3
    <3>4. QED BY <3>2, <3>3
  <2> HIDE DEF F
  <2>3. [i \in Offsets |-> F(i)] \in [Offsets -> Bytes]
    BY <2>2
  <2>4. QED BY <2>1, <2>3
<1>4. got' \in [VCPUs -> Seq(Bytes)]
  <2> DEFINE array == [i \in 1 .. io[v].count |-> page[v][Elements(v)[i]]]
  <2>1. \/ got'[v] = got[v]
        \/ Answered(v) /\ got'[v] = got[v] \o array
    BY DEF Enter, Completes
  <2>2. ASSUME Answered(v) PROVE array \in Seq(Bytes)
    <3>1. io[v] \in IO
      BY <2>2 DEF Answered, ControlInv, RunInv, LoopInv
    <3>2. \A i \in 1 .. io[v].count : Elements(v)[i] \in Offsets
      BY <3>1, ElementInPage DEF Elements
    <3>3. io[v].count \in Nat
      BY <3>1, ArrayInPage
    <3>4. \A i \in 1 .. io[v].count : page[v][Elements(v)[i]] \in Bytes
      BY <3>2
    <3> DEFINE n == io[v].count
               B(i) == page[v][Elements(v)[i]]
    <3>5. n \in Nat /\ \A i \in 1 .. n : B(i) \in Bytes
      BY <3>3, <3>4
    <3> HIDE DEF n, B
    <3>6. [i \in 1 .. n |-> B(i)] \in Seq(Bytes)
      BY <3>5
    <3>7. QED BY <3>6 DEF n, B
  <2> HIDE DEF array
  <2>3. got'[v] \in Seq(Bytes)
    <3>1. got[v] \in Seq(Bytes)
      OBVIOUS
    <3>2. Answered(v) => got[v] \o array \in Seq(Bytes)
      BY <2>2, <3>1
    <3>3. QED BY <2>1, <3>1, <3>2, Zenon
  <2>4. PICK s : got' = [got EXCEPT ![v] = s]
    BY Zenon DEF Enter, Completes
  <2>5. s = got'[v]
    BY <2>4
  <2>6. s \in Seq(Bytes)
    BY <2>3, <2>5
  <2>7. got \in [VCPUs -> Seq(Bytes)]
    OBVIOUS
  <2> HIDE DEF DataInv, DataTypes
  <2>8. QED BY <2>4, <2>6, <2>7, Zenon
<1>5. QED BY <1>1, <1>2, <1>3, <1>4

\* A call of a handler.
LEMMA HandleControl ==
  ASSUME NEW v \in VCPUs, DataInv, Handle(v)
  PROVE  /\ pc[v] = "io" /\ pc'[v] \in {"io", "stopped"}
         /\ reason[v] = "IO" /\ io[v] \in IO
         /\ calls[v] \in Nat /\ calls[v] < io[v].count /\ calls'[v] = calls[v] + 1
         /\ UNCHANGED <<reason, io, clears, typed, sent, got>>
         /\ \A w \in VCPUs \ {v} : pc'[w] = pc[w] /\ calls'[w] = calls[w]
<1> USE DEF DataInv, ControlInv, RunInv, TypeOK
<1>1. /\ pc[v] = "io" /\ iter[v] < io[v].count
      /\ UNCHANGED <<reason, io, clears, typed, sent, got>>
      /\ calls' = [calls EXCEPT ![v] = IF @ > MaxCount THEN @ ELSE @ + 1]
      /\ \/ pc' = [pc EXCEPT ![v] = "io"]
         \/ pc' = [pc EXCEPT ![v] = "stopped"]
  BY DEF Handle, CallHandler, MoreIterations
<1>2. reason[v] = "IO" /\ io[v] \in IO /\ calls[v] = iter[v]
  BY <1>1 DEF LoopInv, CallsMade
<1>3. io[v].count \in 1 .. MaxCount /\ MaxCount \in Nat
  BY <1>2, ArrayInPage, VcpuRunAssumption
<1>4. calls[v] \in Nat /\ calls[v] <= MaxCount /\ calls[v] < io[v].count
  BY <1>1, <1>2, <1>3
<1>5. calls'[v] = calls[v] + 1 /\ pc'[v] \in {"io", "stopped"}
  BY <1>1, <1>3, <1>4
<1>6. \A w \in VCPUs \ {v} : pc'[w] = pc[w] /\ calls'[w] = calls[w]
  BY <1>1
<1>7. QED BY <1>1, <1>2, <1>4, <1>5, <1>6

\* It answers an IN, or has nothing to say,
LEMMA HandlesIn ==
  ASSUME NEW v \in VCPUs, HandleIn(v)
  PROVE  /\ io[v].dir = "in" /\ devOut' = devOut
         /\ \/ /\ UNCHANGED <<page, rx_buf>>
               /\ \/ pc'[v] = "stopped"
                  \/ io[v].port # RBR /\ Handler(io[v].port, "in") \notin {"COM1", "CMOS"}
            \/ pc'[v] # "stopped" /\ io[v].port = RBR /\ ReadRBR(v)
            \/ /\ pc'[v] # "stopped" /\ io[v].port # RBR
               /\ page' = [page EXCEPT ![v][0] = Answer] /\ UNCHANGED rx_buf
<1>1. Handler(RBR, "in") = "COM1"
  BY DevicePorts, SMT DEF RBR
<1> DEFINE answers == Handler(io[v].port, "in") \in {"COM1", "CMOS"} /\ pc'[v] # "stopped"
<1>2. io[v].dir = "in" /\ devOut' = devOut
  BY Zenon DEF HandleIn
<1>3. \/ answers /\ io[v].port = RBR /\ ReadRBR(v)
      \/ answers /\ io[v].port # RBR /\ page' = [page EXCEPT ![v][0] = Answer] /\ UNCHANGED rx_buf
      \/ ~answers /\ UNCHANGED <<page, rx_buf>>
  BY Zenon DEF HandleIn, Answers, DataPtr
<1> HIDE DEF ReadRBR, RBR
<1>4. QED BY <1>1, <1>2, <1>3

\* or takes the first byte of an OUT, or does not.
LEMMA HandlesOut ==
  ASSUME NEW v \in VCPUs, HandleOut(v)
  PROVE  /\ io[v].dir = "out" /\ UNCHANGED <<page, rx_buf>>
         /\ devOut' = devOut \/ devOut' = Append(devOut, page[v][0])
  BY DEF HandleOut, DataPtr

\* The byte a read of RBR stores, and what is left of the queue.
LEMMA ReadsRBR ==
  ASSUME NEW v, DataTypes, ReadRBR(v)
  PROVE  \/ /\ rx_buf = <<>> /\ UNCHANGED rx_buf
            /\ page' = [page EXCEPT ![v][0] = Zero]
         \/ /\ rx_buf # <<>> /\ rx_buf' = Tail(rx_buf) /\ Head(rx_buf) \in AllKeys
            /\ page' = [page EXCEPT ![v][0] = Head(rx_buf)]
<1>1. rx_buf # <<>> => Head(rx_buf) \in AllKeys
  BY DEF DataTypes
<1>2. QED BY <1>1 DEF ReadRBR, Answers, DataPtr

\* Either way at most the first byte in the page of its vCPU changes.
LEMMA HandlePage ==
  ASSUME NEW v \in VCPUs, DataInv, Handle(v)
  PROVE  \/ page' = page
         \/ \E b \in {Zero, Answer} \cup AllKeys : page' = [page EXCEPT ![v][0] = b]
<1>1. CASE HandleIn(v)
  BY <1>1, HandlesIn, ReadsRBR DEF DataInv
<1>2. CASE HandleOut(v)
  BY <1>2, HandlesOut
<1>3. QED BY <1>1, <1>2 DEF Handle

LEMMA HandleOthers ==
  ASSUME NEW v \in VCPUs, NEW w \in VCPUs, v # w, DataInv, Handle(v)
  PROVE  Same(w)
<1>1. page'[w] = page[w]
  BY HandlePage DEF DataInv, DataTypes
<1>2. QED BY <1>1, HandleControl DEF Same

LEMMA HandleTypes ==
  ASSUME NEW v \in VCPUs, DataInv, OutInv(v), Handle(v) PROVE DataTypes'
<1>1. page' \in [VCPUs -> [Offsets -> Bytes]]
  <2>1. page \in [VCPUs -> [Offsets -> Bytes]]
    BY DEF DataInv, DataTypes
  <2>2. ASSUME NEW b \in {Zero, Answer} \cup AllKeys, page' = [page EXCEPT ![v][0] = b]
        PROVE  page' \in [VCPUs -> [Offsets -> Bytes]]
    <3>1. b \in Bytes
      BY DEF Bytes
    <3>2. QED BY <2>1, <2>2, <3>1
  <2>3. QED BY <2>1, <2>2, HandlePage
<1>2. devOut' \in Seq(AllSent)
  <2>1. CASE devOut' = devOut
    BY <2>1 DEF DataInv, DataTypes
  <2>2. CASE HandleOut(v) /\ devOut' = Append(devOut, page[v][0])
    <3>1. page[v][0] = Sent(v, sent[v]) /\ sent[v] \in Nat
      BY <2>2, HandlesOut, HandleControl DEF OutInv, AtOut, DataInv, DataTypes
    <3>2. page[v][0] \in AllSent
      BY <3>1 DEF AllSent
    <3>3. devOut \in Seq(AllSent)
      BY DEF DataInv, DataTypes
    <3>4. QED BY <2>2, <3>2, <3>3
  <2>3. QED BY <2>1, <2>2, HandlesIn, HandlesOut DEF Handle
<1>3. rx_buf' \in Seq(AllKeys)
  <2>1. rx_buf' = rx_buf \/ (rx_buf # <<>> /\ rx_buf' = Tail(rx_buf))
    BY HandlesIn, HandlesOut, ReadsRBR DEF Handle, DataInv
  <2>2. rx_buf \in Seq(AllKeys)
    BY DEF DataInv, DataTypes
  <2>3. rx_buf # <<>> => Tail(rx_buf) \in Seq(AllKeys)
    BY <2>2
  <2>4. QED BY <2>1, <2>2, <2>3
<1>4. QED BY <1>1, <1>2, <1>3, HandleControl DEF DataInv, DataTypes

\* What moves no data ends no call that was answered, and no stopped thread.
LEMMA ControlMoves ==
  ASSUME NEW w \in VCPUs, DataInv, Control
  PROVE  /\ UNCHANGED <<reason, io, calls>> /\ UNCHANGED pageVars
         /\ pc[w] = "stopped" => pc'[w] = "stopped"
         /\ Answered(w) => (pc'[w] \in {"io", "run"} <=> pc[w] \in {"io", "run"})
<1> USE DEF DataInv, ControlInv, RunInv, TypeOK
<1>1. UNCHANGED <<reason, io, calls>> /\ UNCHANGED pageVars
  BY DEF Control, Boot, SpawnFails, JoinThread, BootReturns, Spawn, Continue,
      StartIO, EndIO, Stop
<1>2. Answered(w) => reason[w] = "IO" /\ pc[w] \in {"io", "run", "stopped"}
  BY VcpuRunAssumption DEF Answered, LoopInv, CallsMade
<1>3. CASE Boot
  BY <1>1, <1>3 DEF Boot, SpawnFails, JoinThread, BootReturns
<1>4. ASSUME NEW v \in VCPUs, Spawn(v) \/ Continue(v) \/ StartIO(v) \/ EndIO(v) \/ Stop(v)
      PROVE  /\ pc[w] = "stopped" => pc'[w] = "stopped"
             /\ Answered(w) => (pc'[w] \in {"io", "run"} <=> pc[w] \in {"io", "run"})
  BY <1>2, <1>4 DEF Spawn, Continue, StartIO, EndIO, Stop
<1>5. QED BY <1>1, <1>3, <1>4 DEF Control

LEMMA DataTypesNext ==
  ASSUME DataInv, \A v \in VCPUs : OutInv(v), [PageNext]_allVars PROVE DataTypes'
<1>1. CASE Control \/ UNCHANGED allVars
  BY <1>1 DEF Control, allVars, pageVars, DataInv, DataTypes
<1>2. CASE ReaderPushes
  <2>1. typed \in Nat /\ rx_buf \in Seq(AllKeys)
    BY DEF DataInv, DataTypes
  <2>2. typed' \in Nat /\ Key(typed') \in AllKeys /\ rx_buf' = Append(rx_buf, Key(typed'))
    BY <1>2, <2>1 DEF ReaderPushes, AllKeys
  <2>3. rx_buf' \in Seq(AllKeys)
    BY <2>1, <2>2
  <2>4. QED BY <1>2, <2>2, <2>3 DEF ReaderPushes, DataInv, DataTypes
<1>3. QED BY <1>1, <1>2, EnterTypes, HandleTypes DEF PageNext

LEMMA DataInit == PageInit => DataInv
<1> SUFFICES ASSUME PageInit PROVE DataTypes
  BY ControlInit DEF DataInv
<1>1. page \in [VCPUs -> [Offsets -> Bytes]]
  BY DEF PageInit, Bytes
<1>2. QED BY <1>1 DEF PageInit, DataTypes

-----------------------------------------------------------------------------
(***************************************************************************)
(* What the devices take                                                   *)
(***************************************************************************)

\* The bytes the devices have taken, as records would have it.
LEMMA TakenIs ==
  ASSUME DataTypes, NEW i \in 1 .. Len(devOut)
  PROVE  /\ devOut[i][2] \in VCPUs /\ devOut[i][3] \in Nat
         /\ devOut[i] = Sent(devOut[i][2], devOut[i][3])
<1>1. devOut[i] \in AllSent
  BY DEF DataTypes
<1>2. PICK v \in VCPUs, n \in Nat : devOut[i] = Sent(v, n)
  BY <1>1 DEF AllSent
<1>3. QED BY <1>2, SentIs

LEMMA TakenEnter ==
  ASSUME NEW v \in VCPUs, DataInv, TakenInv, Enter(v) PROVE TakenInv'
<1>1. devOut' = devOut
  BY EnterControl DEF DataInv
<1>2. \A w \in VCPUs : sent[w] \in Nat /\ sent'[w] \in Nat /\ sent[w] <= sent'[w]
  <2>1. \A w \in VCPUs : sent[w] \in Nat
    BY DEF DataInv, DataTypes
  <2>2. sent'[v] = sent[v] \/ sent'[v] = sent[v] + 1
    BY EnterFills
  <2>3. \A w \in VCPUs : w # v => sent'[w] = sent[w]
    BY EnterOthers DEF Same
  <2>4. QED BY <2>1, <2>2, <2>3
<1>3. \A i \in 1 .. Len(devOut) : devOut[i][2] \in VCPUs /\ devOut[i][3] \in Nat
  BY TakenIs DEF DataInv
<1>4. ASSUME NEW i \in 1 .. Len(devOut)
      PROVE  devOut[i][3] > 0 /\ devOut[i][3] <= sent'[devOut[i][2]]
  BY <1>2, <1>3 DEF TakenInv
<1>5. QED BY <1>1, <1>4 DEF TakenInv

LEMMA OutEnter ==
  ASSUME NEW v \in VCPUs, NEW w \in VCPUs, DataInv, TakenInv, OutInv(w), Enter(v)
  PROVE  OutInv(w)'
<1>1. devOut' = devOut
  BY EnterControl DEF DataInv
<1>2. CASE w # v
  <2>1. Same(w)
    BY <1>2, EnterOthers
  <2>2. QED BY <1>1, <2>1 DEF Same, OutInv, AtOut
<1>3. CASE w = v
  <2>1. ASSUME AtOut(v)'
        PROVE  /\ io'[v].count = 1 /\ sent'[v] = sent[v] + 1 /\ page'[v][0] = Sent(v, sent'[v])
    BY <2>1, EnterFills
  <2>2. sent[v] \in Nat /\ \A i \in 1 .. Len(devOut) : devOut[i][3] \in Nat
    BY TakenIs DEF DataInv, DataTypes
  <2>3. \A i \in 1 .. Len(devOut) : devOut[i][2] = v => devOut[i][3] < sent[v] + 1
    BY <2>2 DEF TakenInv
  <2>4. QED BY <1>1, <1>3, <2>1, <2>2, <2>3 DEF OutInv
<1>4. QED BY <1>2, <1>3

\* A call of a handler for an OUT has not been preceded by one.
LEMMA FirstCall ==
  ASSUME NEW v \in VCPUs, DataInv, OutInv(v), Handle(v), HandleOut(v)
  PROVE  /\ page[v][0] = Sent(v, sent[v]) /\ sent[v] \in Nat /\ sent[v] > 0
         /\ \A i \in 1 .. Len(devOut) : devOut[i][2] = v => devOut[i][3] < sent[v]
<1>1. AtOut(v)
  BY HandleControl, HandlesOut DEF AtOut
<1>2. io[v].count = 1 /\ calls[v] \in Nat /\ calls[v] < io[v].count
  BY <1>1, HandleControl DEF OutInv
<1>3. calls[v] = 0
  BY <1>2
<1>4. QED BY <1>1, <1>3 DEF OutInv, DataInv, DataTypes

LEMMA TakenHandle ==
  ASSUME NEW v \in VCPUs, DataInv, TakenInv, OutInv(v), Handle(v)
  PROVE  TakenInv' /\ \A w \in VCPUs : OutInv(w) => OutInv(w)'
<1>1. sent' = sent
  BY HandleControl
<1>2. \A w \in VCPUs : w # v => Same(w)
  BY HandleOthers
<1>3. calls'[v] # 0 /\ UNCHANGED <<reason, io>>
  BY HandleControl
<1>4. AtOut(v) => page' = page
  BY HandlesIn, HandlesOut DEF Handle, AtOut
<1>5. CASE devOut' = devOut
  <2>1. TakenInv'
    BY <1>1, <1>5 DEF TakenInv
  <2>2. ASSUME NEW w \in VCPUs, OutInv(w) PROVE OutInv(w)'
    <3>1. CASE w # v
      BY <1>2, <1>5, <2>2, <3>1 DEF Same, OutInv, AtOut
    <3>2. CASE w = v
      BY <1>1, <1>3, <1>4, <2>2, <3>2 DEF OutInv, AtOut
    <3>3. QED BY <3>1, <3>2
  <2>3. QED BY <2>1, <2>2
<1>6. CASE HandleOut(v) /\ devOut' = Append(devOut, page[v][0])
  <2> DEFINE n == sent[v]
             last == Len(devOut) + 1
  <2>1. /\ page[v][0] = Sent(v, n) /\ n \in Nat /\ n > 0
        /\ \A i \in 1 .. Len(devOut) : devOut[i][2] = v => devOut[i][3] < n
    BY <1>6, FirstCall
  <2>2. devOut \in Seq(AllSent)
    BY DEF DataInv, DataTypes
  <2> DEFINE byte == page[v][0]
  <2>3. byte[2] = v /\ byte[3] = n
    BY <2>1, SentIs
  <2> HIDE DEF byte
  <2>4. /\ Len(devOut) \in Nat /\ Len(devOut') = last /\ devOut'[last] = byte
        /\ \A i \in 1 .. Len(devOut) : devOut'[i] = devOut[i]
    BY <1>6, <2>2 DEF byte
  <2>5. \A i \in 1 .. last : i = last \/ i \in 1 .. Len(devOut)
    BY <2>4
  <2> HIDE DEF last
  <2>6. \A i \in 1 .. Len(devOut') :
          devOut'[i][3] > 0 /\ devOut'[i][3] <= sent'[devOut'[i][2]]
    BY <1>1, <2>1, <2>3, <2>4, <2>5 DEF TakenInv
  <2>7. ASSUME NEW i \in 1 .. Len(devOut'), NEW j \in 1 .. Len(devOut'),
               i < j, devOut'[i][2] = devOut'[j][2]
        PROVE  devOut'[i][3] < devOut'[j][3]
    <3>1. i \in 1 .. Len(devOut)
      BY <2>4, <2>5, <2>7 DEF last
    <3>2. CASE j = last
      BY <2>1, <2>3, <2>4, <2>7, <3>1, <3>2
    <3>3. CASE j \in 1 .. Len(devOut)
      BY <2>4, <2>7, <3>1, <3>3 DEF TakenInv
    <3>4. QED BY <2>4, <2>5, <3>2, <3>3
  <2>8. TakenInv'
    BY <2>6, <2>7 DEF TakenInv
  <2>9. ASSUME NEW w \in VCPUs, OutInv(w) PROVE OutInv(w)'
    <3>1. CASE w # v
      <4>1. \A i \in 1 .. Len(devOut') : devOut'[i][2] = w => i \in 1 .. Len(devOut)
        BY <2>3, <2>4, <2>5, <3>1
      <4>2. QED BY <1>2, <2>4, <2>9, <3>1, <4>1 DEF Same, OutInv, AtOut
    <3>2. CASE w = v
      BY <1>1, <1>3, <1>4, <2>9, <3>2 DEF OutInv, AtOut
    <3>3. QED BY <3>1, <3>2
  <2>10. QED BY <2>8, <2>9
<1>7. QED BY <1>5, <1>6, HandlesIn, HandlesOut DEF Handle

\* Neither changes while nothing is sent.
LEMMA TakenFrame ==
  ASSUME DataInv, UNCHANGED <<reason, io, calls, page, sent, devOut>>
  PROVE  /\ TakenInv => TakenInv'
         /\ \A w \in VCPUs : OutInv(w) => OutInv(w)'
  BY DEF TakenInv, OutInv, AtOut

SentInv == DataInv /\ TakenInv /\ \A v \in VCPUs : OutInv(v)

LEMMA SentNext == SentInv /\ [PageNext]_allVars => SentInv'
<1> SUFFICES ASSUME SentInv, [PageNext]_allVars PROVE SentInv'
  OBVIOUS
<1> USE DEF SentInv
<1>1. DataInv'
  BY ControlNext, DataTypesNext DEF DataInv
<1>2. CASE Control \/ ReaderPushes \/ UNCHANGED allVars
  <2>1. UNCHANGED <<reason, io, calls, page, sent, devOut>>
    BY <1>2 DEF Control, Boot, SpawnFails, JoinThread, BootReturns, Spawn, Continue,
      StartIO, EndIO, Stop, ReaderPushes,
                vars, pageVars, allVars
  <2>2. QED BY <1>1, <2>1, TakenFrame
<1>3. ASSUME NEW v \in VCPUs, Enter(v) PROVE SentInv'
  BY <1>1, <1>3, TakenEnter, OutEnter
<1>4. ASSUME NEW v \in VCPUs, Handle(v) PROVE SentInv'
  BY <1>1, <1>4, TakenHandle
<1>5. QED BY <1>2, <1>3, <1>4 DEF PageNext

LEMMA AlwaysSent == PageSpec => []SentInv
<1>1. PageInit => SentInv
  <2> SUFFICES ASSUME PageInit PROVE TakenInv /\ \A v \in VCPUs : OutInv(v)
    BY DataInit DEF SentInv
  <2>1. devOut = <<>> /\ reason = [v \in VCPUs |-> "UNKNOWN"]
    BY DEF PageInit, Init
  <2>2. QED BY <2>1 DEF TakenInv, OutInv, AtOut
<1>2. QED BY <1>1, SentNext, PTL DEF PageSpec

\* A device takes what the guest sends to it, at most once and in order.
THEOREM DevicesTakeOnce == PageSpec => []DevicesTakeWhatIsSent
<1>1. SentInv => DevicesTakeWhatIsSent
  <2> SUFFICES ASSUME SentInv PROVE DevicesTakeWhatIsSent
    OBVIOUS
  <2>1. DOMAIN devOut = 1 .. Len(devOut) /\ Len(devOut) \in Nat
    BY DEF SentInv, DataInv, DataTypes
  <2>2. ASSUME NEW i \in 1 .. Len(devOut)
        PROVE  \E v \in VCPUs : \E n \in 1 .. sent[v] : devOut[i] = Sent(v, n)
    <3>1. /\ devOut[i][2] \in VCPUs /\ devOut[i][3] \in Nat
          /\ devOut[i] = Sent(devOut[i][2], devOut[i][3])
      BY TakenIs DEF SentInv, DataInv
    <3>2. devOut[i][3] \in 1 .. sent[devOut[i][2]]
      BY <3>1 DEF SentInv, TakenInv, DataInv, DataTypes
    <3>3. QED BY <3>1, <3>2
  <2>3. QED BY <2>1, <2>2 DEF DevicesTakeWhatIsSent, SentInv, TakenInv
<1>2. QED BY <1>1, AlwaysSent, PTL

-----------------------------------------------------------------------------
(***************************************************************************)
(* What a vCPU is answered                                                 *)
(***************************************************************************)

LEMMA InEnter ==
  ASSUME NEW v \in VCPUs, NEW w \in VCPUs, DataInv, InInv(w), Enter(v)
  PROVE  InInv(w)'
<1>1. clears' = clears /\ pc'[v] = "switch" /\ (reason'[v] = "IO" => calls'[v] = 0)
  BY EnterControl DEF DataInv
<1>2. CASE w # v
  <2>1. Same(w)
    BY <1>2, EnterOthers
  <2>2. QED BY <1>1, <2>1 DEF Same, InInv, Foreign
<1>3. CASE w = v
  <2> SUFFICES ASSUME reason'[v] = "IO", io'[v].dir = "in", clears,
                      NEW i \in 0 .. io'[v].size * io'[v].count - 1
               PROVE  ~Foreign(v, page[v][i])'
    BY <1>1, <1>3 DEF InInv
  <2>1. io'[v] \in IO
    BY EnterControl DEF DataInv
  <2>2. i \in Offsets
    BY <2>1, ArrayInPage
  <2>3. page'[v][i] = Zero
    BY <2>2, EnterFills
  <2>4. QED BY <2>3, OtherBytes DEF Foreign
<1>4. QED BY <1>2, <1>3

LEMMA InHandle ==
  ASSUME NEW v \in VCPUs, NEW w \in VCPUs, DataInv, InInv(w), Handle(v)
  PROVE  InInv(w)'
<1>1. UNCHANGED <<clears, reason, io>> /\ io[v] \in IO
  BY HandleControl
<1>2. CASE w # v
  <2>1. Same(w)
    BY <1>2, HandleOthers
  <2>2. QED BY <1>1, <2>1 DEF Same, InInv, Foreign
<1>3. CASE w = v /\ HandleOut(v)
  BY <1>1, <1>3, HandlesOut DEF InInv
<1>4. CASE w = v /\ HandleIn(v)
  <2> DEFINE ignored == Handler(io[v].port, "in") \notin {"COM1", "CMOS"}
             array == 0 .. io[v].size * io[v].count - 1
  <2>1. InInv(v) /\ reason[v] = "IO" /\ io[v].dir = "in"
    BY <1>4, HandlesIn, HandleControl
  <2>2. \A i \in array : Foreign(v, page[v][i]) => ~clears
    BY <2>1 DEF InInv
  <2>3. \A i \in array : i \in Offsets
    BY <1>1, ArrayInPage
  <2>4. page \in [VCPUs -> [Offsets -> Bytes]]
    BY DEF DataInv, DataTypes
  <2>5. array \subseteq Nat
    <3>1. io[v].size * io[v].count - 1 \in Int
      <4>1. io[v].size \in {1, 2, 4} /\ io[v].count \in 1 .. MaxCount
        BY <1>1, RunPageAssumption DEF IO
      <4>2. QED BY <4>1
    <3>2. QED BY <3>1
  <2> HIDE DEF array
  <2>6. CASE page' = page /\ (pc'[v] = "stopped" \/ ignored)
    BY <1>1, <1>4, <2>2, <2>6 DEF InInv, Foreign, array
  <2>7. ASSUME NEW b, page' = [page EXCEPT ![v][0] = b],
               b[1] # "guest" /\ (IsKey(b) => io[v].port = RBR)
        PROVE  InInv(w)'
    <3>1. page'[v][0] = b /\ \A i \in array : i # 0 => page'[v][i] = page[v][i]
      BY <2>3, <2>4, <2>7, FirstByte
    <3>2. ASSUME NEW i \in array, Foreign(v, page'[v][i]) PROVE i > 0 /\ ~clears
      <4>1. i # 0
        BY <2>7, <3>1, <3>2 DEF Foreign
      <4>2. QED BY <2>2, <2>5, <3>1, <3>2, <4>1
    <3>3. QED BY <1>1, <1>4, <3>2 DEF InInv, Foreign, array
  <2>8. CASE io[v].port = RBR /\ ReadRBR(v)
    <3>1. PICK b \in {Zero} \cup AllKeys : page' = [page EXCEPT ![v][0] = b]
      BY <2>8, ReadsRBR DEF DataInv
    <3>2. b[1] # "guest"
      BY KeyIs, OtherBytes DEF AllKeys
    <3>3. QED BY <2>7, <2>8, <3>1, <3>2
  <2>9. CASE page' = [page EXCEPT ![v][0] = Answer]
    BY <2>7, <2>9, OtherBytes
  <2>10. QED BY <1>4, <2>6, <2>8, <2>9, HandlesIn
<1>5. QED BY <1>2, <1>3, <1>4 DEF Handle

LEMMA InNext ==
  ASSUME DataInv, \A v \in VCPUs : InInv(v), [PageNext]_allVars
  PROVE  \A v \in VCPUs : InInv(v)'
<1>1. ASSUME NEW w \in VCPUs, Control PROVE InInv(w)'
  <2>1. /\ UNCHANGED <<reason, io, calls, page, clears>>
        /\ pc[w] = "stopped" => pc'[w] = "stopped"
    BY <1>1, ControlMoves DEF pageVars
  <2>2. QED BY <2>1 DEF InInv, Foreign
<1>2. ASSUME NEW w \in VCPUs, ReaderPushes \/ UNCHANGED allVars PROVE InInv(w)'
  BY <1>2 DEF ReaderPushes, vars, pageVars, allVars, InInv, Foreign
<1>3. QED BY <1>1, <1>2, InEnter, InHandle DEF PageNext

LEMMA AlwaysInInv == PageSpec => []\A v \in VCPUs : InInv(v)
<1>1. PageInit => \A v \in VCPUs : InInv(v)
  BY DEF PageInit, Init, InInv
<1>2. SentInv /\ (\A v \in VCPUs : InInv(v)) /\ [PageNext]_allVars => (\A v \in VCPUs : InInv(v))'
  BY InNext DEF SentInv
<1>3. QED BY <1>1, <1>2, AlwaysSent, PTL DEF PageSpec

\* No vCPU is answered with what the run page still holds of an earlier exit,
\* where KVM clears it; where not, but for what no device writes to.
THEOREM NothingForeign == PageSpec => []NoForeignData
<1>1. (\A v \in VCPUs : InInv(v)) /\ SentInv => NoForeignData
  <2> SUFFICES ASSUME NEW v \in VCPUs, InInv(v), SentInv, pc[v] = "run", Answered(v),
                      NEW i \in 0 .. io[v].size * io[v].count - 1, Foreign(v, page[v][i])
               PROVE  ~clears /\ (i > 0 \/ Handler(io[v].port, "in") \notin {"COM1", "CMOS"})
    BY DEF NoForeignData
  <2>1. calls[v] # 0
    BY DEF Answered, SentInv, DataInv, ControlInv, RunInv, TypeOK
  <2>2. QED BY <2>1 DEF InInv, Answered
<1>2. QED BY <1>1, AlwaysInInv, AlwaysSent, PTL

-----------------------------------------------------------------------------
(***************************************************************************)
(* Where the keys are                                                      *)
(***************************************************************************)

LEMMA KeyByte ==
  ASSUME NEW b \in Bytes, IsKey(b)
  PROVE  b \in AllKeys /\ b = Key(b[2]) /\ b[2] \in Nat
<1>1. b \notin AllSent /\ b # Zero /\ b # Answer
  BY SentIs, OtherBytes DEF AllSent
<1>2. b \in AllKeys
  BY <1>1 DEF Bytes
<1>3. PICK n \in Nat \ {0} : b = Key(n)
  BY <1>2 DEF AllKeys
<1>4. QED BY <1>2, <1>3, KeyIs

LEMMA GotIs ==
  ASSUME DataTypes, NEW v \in VCPUs, NEW i \in 1 .. Len(got[v])
  PROVE  got[v][i] \in Bytes
  BY DEF DataTypes

LEMMA FlightIs ==
  ASSUME DataTypes, NEW v \in VCPUs, InFlight(v)
  PROVE  /\ page[v][0] \in Bytes /\ IsKey(page[v][0])
         /\ page[v][0] = Key(page[v][0][2]) /\ page[v][0][2] \in Nat
<1>1. page[v][0] \in Bytes
  BY FirstByte DEF DataTypes
<1>2. QED BY <1>1, KeyByte DEF InFlight

\* A step that neither takes a key out of the queue nor hands one over; a key on
\* its way may be lost in it.
LEMMA KeyFrame ==
  ASSUME FlightInv, GotInv, got' = got, taken' = taken,
         \A w \in VCPUs : InFlight(w)' => InFlight(w) /\ page'[w][0] = page[w][0]
  PROVE  FlightInv' /\ GotInv'
<1> HIDE DEF taken, InFlight
<1>1. FlightInv'
  BY DEF FlightInv
<1>2. GotInv'
  BY DEF GotInv
<1>3. QED BY <1>1, <1>2

\* If none is lost, all are still accounted for.
LEMMA AccountFrame ==
  ASSUME Accounted, got' = got, taken' = taken,
         \A w \in VCPUs : InFlight(w) => InFlight(w)' /\ page'[w][0] = page[w][0]
  PROVE  Accounted'
<1> HIDE DEF taken, InFlight
<1>1. QED BY DEF Accounted

\* One that hands over the key of vCPU v, at the start of an array.
Delivers(v) ==
  LET last == Len(got[v]) + 1 IN
  /\ InFlight(v) /\ ~InFlight(v)'
  /\ \A w \in VCPUs \ {v} : got'[w] = got[w]
  /\ last <= Len(got'[v]) /\ got'[v][last] = page[v][0]
  /\ \A i \in 1 .. Len(got[v]) : got'[v][i] = got[v][i]
  /\ \A i \in 1 .. Len(got'[v]) : IsKey(got'[v][i]) => i = last \/ i \in 1 .. Len(got[v])

LEMMA KeyDelivered ==
  ASSUME NEW v \in VCPUs, DataTypes, DataTypes', FlightInv, GotInv, taken' = taken, Delivers(v),
         \A w \in VCPUs \ {v} : (InFlight(w)' <=> InFlight(w))
                                /\ (InFlight(w) => page'[w][0] = page[w][0])
  PROVE  FlightInv' /\ GotInv' /\ (Accounted => Accounted')
<1> DEFINE key  == page[v][0]
           last == Len(got[v]) + 1
<1>1. key = Key(key[2]) /\ key[2] \in Nat /\ IsKey(key) /\ key[2] <= taken
  BY FlightIs DEF FlightInv, Delivers
<1>2. /\ \A w \in VCPUs : Len(got[w]) \in Nat
      /\ \A w \in VCPUs \ {v} : got'[w] = got[w]
      /\ got'[v][last] = key
      /\ \A i \in 1 .. Len(got[v]) : got'[v][i] = got[v][i]
      /\ Len(got'[v]) \in Nat /\ last <= Len(got'[v])
      /\ ~InFlight(v)'
  BY DEF DataTypes, Delivers
<1>3. \A i \in 1 .. Len(got'[v]) : IsKey(got'[v][i]) => i = last \/ i \in 1 .. Len(got[v])
  BY DEF Delivers
<1>4. /\ \A i \in 1 .. Len(got[v]) : i < last
      /\ \A i, j \in 1 .. Len(got'[v]) : i < j /\ i = last => j # last /\ j \notin 1 .. Len(got[v])
  BY <1>2
<1>5. last \in 1 .. Len(got'[v]) /\ \A i \in 1 .. Len(got[v]) : i \in 1 .. Len(got'[v])
  BY <1>2
<1> HIDE DEF taken, InFlight, last
<1>6. FlightInv'
  BY <1>2 DEF FlightInv
<1>7. ASSUME Accounted PROVE Accounted'
  <2>1. ASSUME NEW n \in 1 .. taken
        PROVE  \/ \E w \in VCPUs : InFlight(w)' /\ page'[w][0] = Key(n)
               \/ \E w \in VCPUs : \E i \in 1 .. Len(got'[w]) : got'[w][i] = Key(n)
    <3>1. CASE \E w \in VCPUs \ {v} : InFlight(w) /\ page[w][0] = Key(n)
      BY <3>1
    <3>2. CASE page[v][0] = Key(n)
      BY <1>2, <1>5, <3>2
    <3>3. CASE \E w \in VCPUs : \E i \in 1 .. Len(got[w]) : got[w][i] = Key(n)
      BY <1>2, <1>5, <3>3
    <3>4. QED BY <1>7, <3>1, <3>2, <3>3 DEF Accounted
  <2>2. QED BY <2>1 DEF Accounted
<1>8. GotInv'
  <2>1. \A w \in VCPUs : \A i \in 1 .. Len(got'[w]) :
          IsKey(got'[w][i]) => got'[w][i][2] <= taken
    BY <1>1, <1>2, <1>3 DEF GotInv
  <2>2. \A w \in VCPUs : \A i, j \in 1 .. Len(got'[w]) :
          i < j /\ IsKey(got'[w][i]) /\ IsKey(got'[w][j]) => got'[w][i][2] < got'[w][j][2]
    <3>1. ASSUME NEW i \in 1 .. Len(got'[v]), NEW j \in 1 .. Len(got'[v]), i < j,
                 IsKey(got'[v][i]), IsKey(got'[v][j])
          PROVE  got'[v][i][2] < got'[v][j][2]
      <4>1. i \in 1 .. Len(got[v]) /\ IsKey(got[v][i]) /\ got'[v][i] = got[v][i]
        BY <1>2, <1>3, <1>4, <3>1
      <4>2. CASE j = last
        BY <1>2, <4>1, <4>2 DEF GotInv, Delivers
      <4>3. CASE j \in 1 .. Len(got[v])
        BY <1>2, <3>1, <4>1, <4>3 DEF GotInv
      <4>4. QED BY <1>3, <3>1, <4>2, <4>3
    <3>2. QED BY <1>2, <3>1 DEF GotInv
  <2>3. ASSUME NEW w \in VCPUs \ {v}, NEW i \in 1 .. Len(got'[v]), NEW j \in 1 .. Len(got[w]),
               IsKey(got'[v][i]), IsKey(got[w][j])
        PROVE  got'[v][i][2] # got[w][j][2]
    <3>1. CASE i = last
      <4>1. got'[v][i] = key /\ InFlight(v)
        BY <1>2, <3>1 DEF Delivers
      <4>2. got[w][j][2] # page[v][0][2]
        BY <2>3, <4>1 DEF GotInv
      <4>3. QED BY <4>1, <4>2
    <3>2. CASE i \in 1 .. Len(got[v])
      <4>1. got'[v][i] = got[v][i]
        BY <1>2, <3>2
      <4>2. QED BY <2>3, <3>2, <4>1 DEF GotInv
    <3>3. QED BY <1>3, <2>3, <3>1, <3>2
  <2>4. \A u, w \in VCPUs : u # w =>
          \A i \in 1 .. Len(got'[u]), j \in 1 .. Len(got'[w]) :
            IsKey(got'[u][i]) /\ IsKey(got'[w][j]) => got'[u][i][2] # got'[w][j][2]
    <3> SUFFICES ASSUME NEW u \in VCPUs, NEW w \in VCPUs, u # w,
                        NEW i \in 1 .. Len(got'[u]), NEW j \in 1 .. Len(got'[w]),
                        IsKey(got'[u][i]), IsKey(got'[w][j])
                 PROVE  got'[u][i][2] # got'[w][j][2]
      OBVIOUS
    <3>1. CASE u = v
      <4>1. w \in VCPUs \ {v} /\ got'[w] = got[w]
        BY <1>2, <3>1
      <4>2. /\ i \in 1 .. Len(got'[v]) /\ j \in 1 .. Len(got[w])
            /\ IsKey(got'[v][i]) /\ IsKey(got[w][j])
        BY <3>1, <4>1
      <4>3. QED BY <2>3, <3>1, <4>1, <4>2
    <3>2. CASE w = v
      <4>1. u \in VCPUs \ {v} /\ got'[u] = got[u]
        BY <1>2, <3>2
      <4>2. j \in 1 .. Len(got'[v]) /\ i \in 1 .. Len(got[u])
        BY <3>2, <4>1
      <4>3. QED BY <2>3, <3>2, <4>1, <4>2
    <3>3. CASE u # v /\ w # v
      <4>1. got'[u] = got[u] /\ got'[w] = got[w]
        BY <1>2, <3>3
      <4>2. i \in 1 .. Len(got[u]) /\ IsKey(got[u][i]) /\ j \in 1 .. Len(got[w]) /\ IsKey(got[w][j])
        BY <4>1
      <4>3. got[u][i][2] # got[w][j][2]
        BY <4>2 DEF GotInv
      <4>4. QED BY <4>1, <4>3
    <3>4. QED BY <3>1, <3>2, <3>3
  <2>5. ASSUME NEW u \in VCPUs, NEW w \in VCPUs, InFlight(w)', NEW i \in 1 .. Len(got'[u]),
               IsKey(got'[u][i])
        PROVE  IF u = w THEN got'[u][i][2] < page'[w][0][2] ELSE got'[u][i][2] # page'[w][0][2]
    <3>1. w # v /\ InFlight(w) /\ page'[w][0] = page[w][0]
      BY <1>2, <2>5
    <3>2. CASE u # v
      BY <1>2, <2>5, <3>1, <3>2 DEF GotInv
    <3>3. CASE u = v
      <4>1. CASE i = last
        BY <1>2, <3>1, <3>3, <4>1 DEF FlightInv, Delivers
      <4>2. CASE i \in 1 .. Len(got[v])
        BY <1>2, <2>5, <3>1, <3>3, <4>2 DEF GotInv
      <4>3. QED BY <1>3, <2>5, <3>3, <4>1, <4>2
    <3>4. QED BY <3>2, <3>3
  <2>6. QED BY <2>1, <2>2, <2>4, <2>5 DEF GotInv
<1>9. QED BY <1>6, <1>7, <1>8

\* One that takes the next key out of the queue for vCPU v, in place of one that
\* may still have been on its way to v.
LEMMA KeyTaken ==
  ASSUME NEW v \in VCPUs, DataTypes, FlightInv, GotInv, taken \in Nat, taken' = taken + 1,
         InFlight(v)', page'[v][0] = Key(taken + 1), got' = got,
         \A w \in VCPUs \ {v} : (InFlight(w)' <=> InFlight(w))
                                /\ (InFlight(w) => page'[w][0] = page[w][0])
  PROVE  FlightInv' /\ GotInv' /\ (Accounted /\ ~InFlight(v) => Accounted')
<1>1. page'[v][0][2] = taken + 1
  BY KeyIs
<1>2. \A w \in VCPUs : InFlight(w) => page[w][0][2] \in Nat
  BY FlightIs
<1>3. \A w \in VCPUs : \A i \in 1 .. Len(got[w]) : IsKey(got[w][i]) => got[w][i][2] \in Nat
  BY GotIs, KeyByte DEF GotInv
<1>4. \A n \in 1 .. taken' : n = taken + 1 \/ n \in 1 .. taken
  OBVIOUS
<1> HIDE DEF taken, InFlight
<1>5. FlightInv'
  <2>1. \A w \in VCPUs : InFlight(w)' => page'[w][0][2] <= taken'
    BY <1>1, <1>2 DEF FlightInv
  <2>2. \A u, w \in VCPUs :
          u # w /\ InFlight(u)' /\ InFlight(w)' => page'[u][0][2] # page'[w][0][2]
    BY <1>1, <1>2 DEF FlightInv
  <2>3. QED BY <2>1, <2>2 DEF FlightInv
<1>6. ASSUME Accounted, ~InFlight(v) PROVE Accounted'
  BY <1>4, <1>6 DEF Accounted
<1>7. GotInv'
  <2>1. \A w \in VCPUs : \A i \in 1 .. Len(got[w]) : IsKey(got[w][i]) => got[w][i][2] < taken + 1
    BY <1>3 DEF GotInv
  <2>2. ASSUME NEW u \in VCPUs, NEW w \in VCPUs, InFlight(w)', NEW i \in 1 .. Len(got'[u]),
               IsKey(got'[u][i])
        PROVE  IF u = w THEN got'[u][i][2] < page'[w][0][2] ELSE got'[u][i][2] # page'[w][0][2]
    <3>1. i \in 1 .. Len(got[u]) /\ IsKey(got[u][i]) /\ got'[u][i] = got[u][i]
      BY <2>2
    <3>2. CASE w = v
      <4>1. page'[w][0][2] = taken + 1
        BY <1>1, <3>2
      <4>2. got[u][i][2] \in Nat /\ got[u][i][2] < taken + 1
        BY <1>3, <2>1, <3>1
      <4>3. QED BY <3>1, <4>1, <4>2
    <3>3. CASE w # v
      <4>1. InFlight(w) /\ page'[w][0] = page[w][0]
        BY <2>2, <3>3
      <4>2. QED BY <3>1, <4>1 DEF GotInv
    <3>4. QED BY <3>2, <3>3
  <2>3. QED BY <1>3, <2>1, <2>2 DEF GotInv
<1>8. QED BY <1>5, <1>6, <1>7

\* An array behind what a vCPU has got, with a key at most at its start.
LEMMA Behind ==
  ASSUME NEW s \in Seq(Bytes), NEW a \in Seq(Bytes), Len(a) >= 1,
         \A i \in 1 .. Len(a) : IsKey(a[i]) => i = 1
  PROVE  /\ Len(s) + 1 <= Len(s \o a) /\ (s \o a)[Len(s) + 1] = a[1]
         /\ \A i \in 1 .. Len(s) : (s \o a)[i] = s[i]
         /\ \A i \in 1 .. Len(s \o a) :
              IsKey((s \o a)[i]) => i = Len(s) + 1 \/ i \in 1 .. Len(s)
<1> DEFINE t == s \o a
<1>1. /\ Len(s) \in Nat /\ Len(a) \in Nat /\ Len(t) = Len(s) + Len(a)
      /\ \A i \in 1 .. Len(s) : t[i] = s[i]
      /\ \A i \in 1 .. Len(a) : t[Len(s) + i] = a[i]
  OBVIOUS
<1> HIDE DEF t
<1>2. ASSUME NEW i \in 1 .. Len(t), IsKey(t[i]), i \notin 1 .. Len(s) PROVE i = Len(s) + 1
  <2>1. i - Len(s) \in 1 .. Len(a) /\ Len(s) + (i - Len(s)) = i
    BY <1>1, <1>2
  <2>2. t[i] = a[i - Len(s)]
    BY <1>1, <2>1
  <2>3. i - Len(s) = 1
    BY <1>2, <2>1, <2>2
  <2>4. QED BY <1>1, <2>1, <2>3
<1>3. Len(s) + 1 <= Len(t) /\ t[Len(s) + 1] = a[1]
  BY <1>1
<1>4. QED BY <1>1, <1>2, <1>3 DEF t

\* KVM puts no key into a page.
LEMMA EnterKeyFirst ==
  ASSUME NEW v \in VCPUs, DataInv, KeyFirst, Enter(v) PROVE KeyFirst'
<1> DEFINE array == 0 .. io'[v].size * io'[v].count - 1
           out == reason'[v] = "IO" /\ io'[v].dir = "out"
           in  == reason'[v] = "IO" /\ io'[v].dir = "in"
           F(i) == CASE out /\ i \in array -> Sent(v, IF i = 0 THEN sent'[v] ELSE 0)
                     [] in /\ i \in array /\ clears -> Zero
                     [] OTHER -> page[v][i]
<1>1. page' = [page EXCEPT ![v] = [i \in Offsets |-> F(i)]]
  BY Zenon DEF Enter, Fills
<1>2. ASSUME NEW i \in Offsets, IsKey(F(i)) PROVE IsKey(page[v][i])
  <2> HIDE DEF in, out, array
  <2> DEFINE n == IF i = 0 THEN sent'[v] ELSE 0
  <2>1. ~IsKey(Sent(v, n)) /\ ~IsKey(Zero)
    BY SentIs, OtherBytes
  <2> HIDE DEF n
  <2>2. CASE out /\ i \in array
    <3>1. ~(in /\ i \in array /\ clears)
      BY <2>2 DEF in, out
    <3>2. F(i) = Sent(v, n)
      BY <2>2, <3>1, Zenon DEF n
    <3>3. QED BY <1>2, <2>1, <3>2
  <2>3. CASE ~(out /\ i \in array) /\ in /\ i \in array /\ clears
    <3>1. F(i) = Zero
      BY <2>3, Zenon
    <3>2. QED BY <1>2, <2>1, <3>1
  <2>4. CASE ~(out /\ i \in array) /\ ~(in /\ i \in array /\ clears)
    <3>1. F(i) = page[v][i]
      BY <2>4, Zenon
    <3>2. QED BY <1>2, <3>1
  <2>5. QED BY <2>2, <2>3, <2>4
<1> HIDE DEF F
<1>3. page \in [VCPUs -> [Offsets -> Bytes]]
  BY DEF DataInv, DataTypes
<1>4. /\ \A i \in Offsets : page'[v][i] = F(i)
      /\ \A w \in VCPUs \ {v} : page'[w] = page[w]
  BY <1>1, <1>3
<1>5. QED BY <1>2, <1>4 DEF KeyFirst

\* KVM_RUN hands over what the vCPU has been answered with.
LEMMA KeyEnter ==
  ASSUME NEW v \in VCPUs, DataInv, KeyInv, Enter(v)
  PROVE  KeyInv' /\ (Accounted => Accounted')
<1>1. /\ pc[v] = "run" /\ pc'[v] = "switch" /\ UNCHANGED <<rx_buf, typed>>
      /\ Completes(v)
  BY EnterControl DEF DataInv
<1>2. taken' = taken /\ QueueInv'
  BY <1>1 DEF KeyInv, QueueInv, taken
<1>3. ~InFlight(v)'
  BY <1>1 DEF InFlight
<1>4. \A w \in VCPUs \ {v} : (InFlight(w)' <=> InFlight(w))
                             /\ (InFlight(w) => page'[w][0] = page[w][0])
  BY EnterOthers DEF Same, InFlight, Answered
<1>5. KeyFirst'
  BY EnterKeyFirst DEF KeyInv
<1>6. DataTypes'
  BY EnterTypes
<1>7. got \in [VCPUs -> Seq(Bytes)] /\ page \in [VCPUs -> [Offsets -> Bytes]]
  BY DEF DataInv, DataTypes
<1> DEFINE n == io[v].count
           B(i) == page[v][Elements(v)[i]]
           array == [i \in 1 .. n |-> B(i)]
<1>8. got' = [got EXCEPT ![v] =
                IF Answered(v) /\ io[v].port = RBR /\ \E i \in DOMAIN array : IsKey(array[i])
                THEN @ \o array ELSE @]
  BY <1>1, Zenon DEF Completes
<1>9. ASSUME Answered(v)
      PROVE  /\ n \in Nat \ {0} /\ B(1) = page[v][0]
             /\ \A i \in 1 .. n : B(i) \in Bytes /\ (IsKey(B(i)) => i = 1)
  <2>1. io[v] \in IO
    BY <1>9 DEF Answered, DataInv, ControlInv, RunInv, LoopInv
  <2>2. io[v].size \in {1, 2, 4} /\ n \in Nat \ {0}
    <3>1. io[v].size \in {1, 2, 4}
      BY <2>1, RunPageAssumption DEF IO
    <3>2. n \in 1 .. MaxCount
      BY <2>1, ArrayInPage
    <3>3. QED BY <3>1, <3>2
  <2>3. ASSUME NEW i \in 1 .. n
        PROVE  Elements(v)[i] \in Offsets /\ (Elements(v)[i] = 0 <=> i = 1)
    <3>1. Elements(v)[i] = (i - 1) * io[v].size
      BY DEF Elements
    <3>2. (i - 1) * io[v].size \in Offsets
      BY <2>1, ElementInPage
    <3>3. (i - 1) * io[v].size = 0 <=> i = 1
      BY <2>2
    <3>4. QED BY <3>1, <3>2, <3>3
  <2>4. ASSUME NEW i \in 1 .. n PROVE B(i) \in Bytes /\ (IsKey(B(i)) => i = 1)
    BY <1>7, <2>3 DEF KeyInv, KeyFirst
  <2>5. B(1) = page[v][0]
    BY <2>2, <2>3
  <2>6. QED BY <2>2, <2>4, <2>5
<1> HIDE DEF n, B
<1>10. Answered(v) => /\ array \in Seq(Bytes) /\ Len(array) >= 1 /\ DOMAIN array = 1 .. Len(array)
                      /\ array[1] = page[v][0]
                      /\ \A i \in 1 .. Len(array) : IsKey(array[i]) => i = 1
  <2> SUFFICES ASSUME Answered(v)
               PROVE  /\ array \in Seq(Bytes) /\ Len(array) >= 1
                      /\ DOMAIN array = 1 .. Len(array) /\ array[1] = page[v][0]
                      /\ \A i \in 1 .. Len(array) : IsKey(array[i]) => i = 1
    OBVIOUS
  <2>1. n \in Nat \ {0} /\ \A i \in 1 .. n : B(i) \in Bytes
    BY <1>9
  <2>2. array \in Seq(Bytes) /\ Len(array) = n
    BY <2>1
  <2>3. QED BY <1>9, <2>1, <2>2
<1> HIDE DEF array
<1>11. CASE InFlight(v)
  <2>1. Answered(v) /\ io[v].port = RBR /\ IsKey(page[v][0])
    BY <1>11 DEF InFlight
  <2>2. 1 \in DOMAIN array /\ IsKey(array[1])
    BY <1>10, <2>1
  <2>3. got' = [got EXCEPT ![v] = got[v] \o array]
    BY <1>8, <2>1, <2>2
  <2>4. got'[v] = got[v] \o array /\ \A w \in VCPUs \ {v} : got'[w] = got[w]
    BY <1>7, <2>3
  <2>5. got[v] \in Seq(Bytes)
    BY <1>7
  <2>6. Delivers(v)
    BY <1>3, <1>10, <1>11, <2>1, <2>4, <2>5, Behind DEF Delivers
  <2>7. QED BY <1>2, <1>4, <1>5, <1>6, <2>6, KeyDelivered DEF DataInv, KeyInv
<1>12. CASE ~InFlight(v)
  <2>1. ASSUME Answered(v), io[v].port = RBR, NEW i \in DOMAIN array, IsKey(array[i])
        PROVE  FALSE
    <3>1. i = 1 /\ IsKey(page[v][0])
      BY <1>10, <2>1
    <3>2. QED BY <1>1, <1>12, <2>1, <3>1 DEF InFlight
  <2>2. got' = got
    BY <1>7, <1>8, <2>1
  <2>3. FlightInv' /\ GotInv'
    BY <1>2, <1>3, <1>4, <2>2, KeyFrame DEF KeyInv
  <2>4. Accounted => Accounted'
    BY <1>2, <1>4, <1>12, <2>2, AccountFrame
  <2>5. QED BY <1>2, <1>5, <2>3, <2>4 DEF KeyInv
<1>13. QED BY <1>11, <1>12

\* The queue gives up its first key, the next one to be taken.
LEMMA KeyHead ==
  ASSUME DataTypes, QueueInv, rx_buf # <<>>, rx_buf' = Tail(rx_buf), typed' = typed
  PROVE  /\ taken \in Nat /\ taken' = taken + 1 /\ Head(rx_buf) = Key(taken + 1)
         /\ QueueInv'
<1>1. rx_buf \in Seq(AllKeys) /\ typed \in Nat
  BY DEF DataTypes
<1>2. /\ Len(rx_buf) \in Nat /\ Len(rx_buf) > 0 /\ Head(rx_buf) = rx_buf[1]
      /\ Len(rx_buf') = Len(rx_buf) - 1
      /\ \A i \in 1 .. Len(rx_buf) - 1 : rx_buf'[i] = rx_buf[i + 1]
  BY <1>1
<1>3. taken \in Nat /\ taken' = taken + 1 /\ Head(rx_buf) = Key(taken + 1)
  BY <1>1, <1>2 DEF QueueInv, taken
<1>4. ASSUME NEW i \in 1 .. Len(rx_buf) - 1 PROVE rx_buf'[i] = Key(taken' + i)
  <2>1. rx_buf'[i] = Key(taken + (i + 1))
    BY <1>2 DEF QueueInv
  <2>2. taken + (i + 1) = taken' + i
    BY <1>3
  <2>3. QED BY <2>1, <2>2
<1>5. QED BY <1>1, <1>2, <1>3, <1>4 DEF QueueInv

\* A handler changes nothing but the start of a page.
LEMMA HandleKeyFirst ==
  ASSUME NEW v \in VCPUs, DataInv, KeyFirst, Handle(v) PROVE KeyFirst'
<1>1. page \in [VCPUs -> [Offsets -> Bytes]]
  BY DEF DataInv, DataTypes
<1>2. \A w \in VCPUs : \A o \in Offsets : o # 0 => page'[w][o] = page[w][o]
  BY <1>1, HandlePage
<1>3. QED BY <1>2 DEF KeyFirst

\* A handler takes a key for its vCPU, or answers something else.  In the first
\* iteration of an IN no key can be lost by it.
LEMMA KeyHandle ==
  ASSUME NEW v \in VCPUs, DataInv, KeyInv, Handle(v)
  PROVE  KeyInv' /\ (Accounted /\ Bytewise => Accounted')
<1>1. /\ pc[v] = "io" /\ pc'[v] \in {"io", "stopped"} /\ reason[v] = "IO" /\ io[v] \in IO
      /\ calls[v] \in Nat /\ calls[v] < io[v].count /\ calls'[v] = calls[v] + 1
      /\ UNCHANGED <<reason, io, typed, got>>
  BY HandleControl
<1>2. Bytewise => ~InFlight(v)
  BY <1>1 DEF Bytewise, InFlight, Answered
<1>3. \A w \in VCPUs \ {v} : (InFlight(w)' <=> InFlight(w))
                             /\ (InFlight(w) => page'[w][0] = page[w][0])
  BY HandleOthers DEF Same, InFlight, Answered
<1>4. page \in [VCPUs -> [Offsets -> Bytes]]
  BY DEF DataInv, DataTypes
<1>5. KeyFirst'
  BY HandleKeyFirst DEF KeyInv
<1>6. ASSUME ~InFlight(v)', UNCHANGED rx_buf
      PROVE  KeyInv' /\ (Accounted /\ Bytewise => Accounted')
  <2>1. taken' = taken /\ QueueInv'
    BY <1>1, <1>6 DEF KeyInv, QueueInv, taken
  <2>2. FlightInv' /\ GotInv'
    BY <1>1, <1>3, <1>6, <2>1, KeyFrame DEF KeyInv
  <2>3. Accounted /\ Bytewise => Accounted'
    BY <1>1, <1>2, <1>3, <2>1, AccountFrame
  <2>4. QED BY <1>5, <2>1, <2>2, <2>3 DEF KeyInv
<1>7. CASE HandleOut(v)
  <2>1. ~InFlight(v)' /\ UNCHANGED rx_buf
    BY <1>1, <1>7, HandlesOut DEF InFlight, Answered
  <2>2. QED BY <1>6, <2>1
<1>8. CASE HandleIn(v) /\ UNCHANGED rx_buf /\ (io[v].port # RBR \/ pc'[v] = "stopped")
  <2>1. ~InFlight(v)'
    BY <1>1, <1>8 DEF InFlight
  <2>2. QED BY <1>6, <1>8, <2>1
<1>9. CASE HandleIn(v) /\ pc'[v] # "stopped" /\ io[v].port = RBR /\ ReadRBR(v)
  <2>1. CASE rx_buf = <<>> /\ UNCHANGED rx_buf /\ page' = [page EXCEPT ![v][0] = Zero]
    <3>1. page'[v][0] = Zero
      BY <1>4, <2>1, FirstByte
    <3>2. ~InFlight(v)'
      BY <3>1, OtherBytes DEF InFlight
    <3>3. QED BY <1>6, <2>1, <3>2
  <2>2. CASE /\ rx_buf # <<>> /\ rx_buf' = Tail(rx_buf) /\ Head(rx_buf) \in AllKeys
             /\ page' = [page EXCEPT ![v][0] = Head(rx_buf)]
    <3>1. /\ taken \in Nat /\ taken' = taken + 1 /\ Head(rx_buf) = Key(taken + 1)
          /\ QueueInv'
      BY <1>1, <2>2, KeyHead DEF DataInv, KeyInv
    <3>2. page'[v][0] = Key(taken + 1)
      BY <1>4, <2>2, <3>1, FirstByte
    <3>3. IsKey(page'[v][0])
      BY <3>2, KeyIs
    <3>4. io[v].dir = "in"
      BY <1>9, HandlesIn
    <3>5. calls'[v] > 0
      BY <1>1
    <3>6. InFlight(v)'
      BY <1>1, <1>9, <3>3, <3>4, <3>5 DEF InFlight, Answered
    <3>7. FlightInv' /\ GotInv' /\ (Accounted /\ ~InFlight(v) => Accounted')
      BY <1>1, <1>3, <3>1, <3>2, <3>6, KeyTaken DEF DataInv, KeyInv
    <3>8. QED BY <1>2, <1>5, <3>1, <3>7 DEF KeyInv
  <2>3. QED BY <1>9, <2>1, <2>2, ReadsRBR DEF DataInv
<1>10. QED BY <1>7, <1>8, <1>9, HandlesIn DEF Handle

\* A key is queued behind the others.
LEMMA KeyPushes ==
  ASSUME DataInv, KeyInv, ReaderPushes PROVE KeyInv' /\ (Accounted => Accounted')
<1>1. /\ typed' = typed + 1 /\ rx_buf' = Append(rx_buf, Key(typed'))
      /\ UNCHANGED <<pc, reason, io, calls, page, got>>
  BY DEF ReaderPushes, vars
<1>2. rx_buf \in Seq(AllKeys) /\ typed \in Nat
  BY DEF DataInv, DataTypes
<1>3. /\ Len(rx_buf) \in Nat /\ Len(rx_buf') = Len(rx_buf) + 1
      /\ rx_buf'[Len(rx_buf) + 1] = Key(typed')
      /\ \A i \in 1 .. Len(rx_buf) : rx_buf'[i] = rx_buf[i]
  BY <1>1, <1>2
<1>4. Len(rx_buf) <= typed /\ taken' = taken
  BY <1>1, <1>2, <1>3 DEF KeyInv, QueueInv, taken
<1>5. ASSUME NEW i \in 1 .. Len(rx_buf') PROVE rx_buf'[i] = Key(taken' + i)
  <2>1. CASE i \in 1 .. Len(rx_buf)
    BY <1>3, <1>4, <2>1 DEF KeyInv, QueueInv
  <2>2. CASE i = Len(rx_buf) + 1
    <3>1. typed' = taken' + i
      BY <1>1, <1>2, <1>3, <1>4, <2>2 DEF taken
    <3>2. QED BY <1>3, <2>2, <3>1
  <2>3. QED BY <1>3, <2>1, <2>2
<1>6. QueueInv'
  BY <1>1, <1>2, <1>3, <1>4, <1>5 DEF QueueInv
<1>7. \A w \in VCPUs : (InFlight(w)' <=> InFlight(w))
                       /\ (InFlight(w) => page'[w][0] = page[w][0])
  BY <1>1 DEF InFlight, Answered
<1>8. FlightInv' /\ GotInv'
  BY <1>1, <1>4, <1>7, KeyFrame DEF KeyInv
<1>9. Accounted => Accounted'
  BY <1>1, <1>4, <1>7, AccountFrame
<1>10. KeyFirst'
  BY <1>1 DEF KeyInv, KeyFirst
<1>11. QED BY <1>6, <1>8, <1>9, <1>10 DEF KeyInv

LEMMA KeyNext ==
  ASSUME DataInv, KeyInv, [PageNext]_allVars
  PROVE  KeyInv' /\ (Accounted /\ Bytewise => Accounted')
<1>1. CASE Control \/ UNCHANGED allVars
  <2>1. UNCHANGED <<reason, io, calls>> /\ UNCHANGED pageVars
    <3>1. Control => UNCHANGED <<reason, io, calls>> /\ UNCHANGED pageVars
      BY DEF Control, Boot, SpawnFails, JoinThread, BootReturns, Spawn, Continue,
      StartIO, EndIO, Stop
    <3>2. QED BY <1>1, <3>1 DEF allVars, vars
  <2>2. \A w \in VCPUs : Answered(w) => (pc'[w] \in {"io", "run"} <=> pc[w] \in {"io", "run"})
    BY <1>1, ControlMoves DEF allVars, vars
  <2>3. \A w \in VCPUs : (InFlight(w)' <=> InFlight(w))
                         /\ (InFlight(w) => page'[w][0] = page[w][0])
    BY <2>1, <2>2 DEF InFlight, Answered, pageVars
  <2>4. taken' = taken /\ got' = got /\ QueueInv'
    BY <2>1 DEF pageVars, KeyInv, QueueInv, taken
  <2>5. FlightInv' /\ GotInv'
    BY <2>3, <2>4, KeyFrame DEF KeyInv
  <2>6. Accounted => Accounted'
    BY <2>3, <2>4, AccountFrame
  <2>7. KeyFirst'
    BY <2>1 DEF pageVars, KeyInv, KeyFirst
  <2>8. QED BY <2>4, <2>5, <2>6, <2>7 DEF KeyInv
<1>2. QED BY <1>1, KeyEnter, KeyHandle, KeyPushes DEF PageNext

LEMMA KeyInit == PageInit => KeyInv /\ Accounted
<1> SUFFICES ASSUME PageInit PROVE KeyInv /\ Accounted
  OBVIOUS
<1>1. /\ rx_buf = <<>> /\ Len(rx_buf) = 0 /\ typed = 0
      /\ \A v \in VCPUs : got[v] = <<>> /\ Len(got[v]) = 0 /\ reason[v] = "UNKNOWN"
  BY DEF PageInit, Init
<1>2. QueueInv
  BY <1>1 DEF QueueInv
<1>3. \A v \in VCPUs : ~InFlight(v)
  BY <1>1 DEF InFlight, Answered
<1>4. FlightInv /\ GotInv /\ Accounted
  BY <1>1, <1>3 DEF FlightInv, GotInv, Accounted, taken
<1>5. KeyFirst
  BY OtherBytes DEF PageInit, KeyFirst
<1>6. QED BY <1>2, <1>4, <1>5 DEF KeyInv

\* What is in a sequence, by its elements.
LEMMA KeysIn ==
  ASSUME NEW s, NEW b \in Keys(s) PROVE \E i \in DOMAIN s : IsKey(s[i]) /\ b = s[i]
  BY DEF Keys

LEMMA InKeys ==
  ASSUME NEW s, NEW i \in DOMAIN s, IsKey(s[i]) PROVE s[i] \in Keys(s)
  BY DEF Keys

LEMMA KeyInvOrders == ASSUME DataInv, KeyInv PROVE KeysOnceInOrder
<1>1. /\ DOMAIN rx_buf = 1 .. Len(rx_buf) /\ Len(rx_buf) \in Nat /\ typed \in Nat
      /\ \A v \in VCPUs : DOMAIN got[v] = 1 .. Len(got[v])
  BY DEF DataInv, DataTypes
<1>2. taken \in Nat
  BY <1>1 DEF KeyInv, QueueInv, taken
<1>3. \A v \in VCPUs : \A i, j \in DOMAIN got[v] :
        i < j /\ IsKey(got[v][i]) /\ IsKey(got[v][j]) => got[v][i][2] < got[v][j][2]
  BY <1>1 DEF KeyInv, GotInv
<1>4. \A v, w \in VCPUs : v # w => Keys(got[v]) \cap Keys(got[w]) = {}
  <2> SUFFICES ASSUME NEW v \in VCPUs, NEW w \in VCPUs, v # w,
                      NEW b \in Keys(got[v]), b \in Keys(got[w])
               PROVE  FALSE
    OBVIOUS
  <2>1. PICK i \in 1 .. Len(got[v]), j \in 1 .. Len(got[w]) :
          IsKey(b) /\ b = got[v][i] /\ b = got[w][j]
    BY <1>1, KeysIn
  <2>2. QED BY <2>1 DEF KeyInv, GotInv
<1>5. \A v \in VCPUs : Keys(got[v]) \cap Keys(rx_buf) = {}
  <2> SUFFICES ASSUME NEW v \in VCPUs, NEW b \in Keys(got[v]), b \in Keys(rx_buf)
               PROVE  FALSE
    OBVIOUS
  <2>1. PICK i \in 1 .. Len(got[v]), j \in 1 .. Len(rx_buf) :
          IsKey(b) /\ b = got[v][i] /\ b = rx_buf[j]
    BY <1>1, KeysIn
  <2>2. b[2] <= taken
    BY <2>1 DEF KeyInv, GotInv
  <2>3. b = Key(taken + j)
    BY <2>1 DEF KeyInv, QueueInv
  <2>4. b[2] = taken + j
    BY <2>3, KeyIs
  <2>5. QED BY <1>1, <1>2, <2>2, <2>4
<1>6. QED BY <1>3, <1>4, <1>5 DEF KeysOnceInOrder

LEMMA KeyInvReaches == ASSUME DataInv, KeyInv, Accounted PROVE KeysReachGuest
<1>1. /\ DOMAIN rx_buf = 1 .. Len(rx_buf) /\ Len(rx_buf) \in Nat /\ typed \in Nat
      /\ \A v \in VCPUs : DOMAIN got[v] = 1 .. Len(got[v])
  BY DEF DataInv, DataTypes
<1>2. taken \in Nat
  BY <1>1 DEF KeyInv, QueueInv, taken
<1>3. ASSUME NEW n \in 1 .. typed
      PROVE  \/ Key(n) \in Keys(rx_buf)
             \/ \E v \in VCPUs : Answered(v) /\ page[v][0] = Key(n)
             \/ \E v \in VCPUs : Key(n) \in Keys(got[v])
  <2>1. CASE n \in 1 .. taken
    <3>1. \/ \E v \in VCPUs : InFlight(v) /\ page[v][0] = Key(n)
          \/ \E v \in VCPUs : \E i \in 1 .. Len(got[v]) : got[v][i] = Key(n)
      BY <2>1 DEF Accounted
    <3>2. ASSUME NEW v \in VCPUs, NEW i \in 1 .. Len(got[v]), got[v][i] = Key(n)
          PROVE  Key(n) \in Keys(got[v])
      BY <1>1, <3>2, KeyIs, InKeys
    <3>3. QED BY <3>1, <3>2 DEF InFlight
  <2>2. CASE n \notin 1 .. taken
    <3>1. n - taken \in 1 .. Len(rx_buf) /\ taken + (n - taken) = n
      BY <1>1, <1>2, <2>2 DEF taken
    <3>2. rx_buf[n - taken] = Key(n)
      BY <3>1 DEF KeyInv, QueueInv
    <3>3. QED BY <1>1, <3>1, <3>2, KeyIs, InKeys
  <2>3. QED BY <2>1, <2>2
<1>4. QED BY <1>3 DEF KeysReachGuest

LEMMA AlwaysKeyInv == PageSpec => []KeyInv
<1>1. SentInv /\ KeyInv /\ [PageNext]_allVars => KeyInv'
  BY KeyNext DEF SentInv
<1>2. PageInit => KeyInv
  BY KeyInit
<1>3. QED BY <1>1, <1>2, AlwaysSent, PTL DEF PageSpec

\* With strings of any length on any number of vCPUs: guest code reads no key twice,
\* none that another vCPU has read or that is still queued, and each vCPU reads
\* them in the order of the queue.
THEOREM KeysNeverRepeat == PageSpec => []KeysOnceInOrder
<1>1. SentInv /\ KeyInv => KeysOnceInOrder
  BY KeyInvOrders DEF SentInv
<1>2. QED BY <1>1, AlwaysKeyInv, AlwaysSent, PTL

\* A guest that reads RBR one byte at a time, whatever strings it uses on other
\* ports, loses none: a key that COM1::Read has taken out of the queue reaches the
\* guest code that asked for it.  (An INS of more elements loses keys.)
THEOREM KeysArrive == PageSpec /\ []Bytewise => []KeysReachGuest
<1>1. SentInv /\ KeyInv /\ Bytewise /\ Accounted /\ [PageNext]_allVars => Accounted'
  BY KeyNext DEF SentInv
<1>2. SentInv /\ KeyInv /\ Accounted => KeysReachGuest
  BY KeyInvReaches DEF SentInv
<1>3. PageInit => Accounted
  BY KeyInit
<1>4. QED BY <1>1, <1>2, <1>3, AlwaysKeyInv, AlwaysSent, PTL DEF PageSpec

=============================================================================
