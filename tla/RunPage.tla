------------------------------ MODULE RunPage ------------------------------
(***************************************************************************)
(* The data of an I/O exit.  KVM and RunOnce pass it through the run page: *)
(* KVM puts there what the guest sends and takes from there, at the next   *)
(* KVM_RUN, what the guest receives, as an array of count elements of size *)
(* bytes; RunOnce hands every iteration's handler the start of that array. *)
(* The module adds the bytes, and the queue of COM1, to the control of     *)
(* VcpuRun.  KVM is external: recent kernels clear the array before an IN, *)
(* older ones leave what earlier exits put there, and a string OUT arrives *)
(* one element at a time.                                                  *)
(***************************************************************************)
EXTENDS VcpuRun
Ext == INSTANCE FiniteSetsExt

CONSTANTS
  MaxTyped,      \* bound: bytes typed on the host
  MaxSent,       \* bound: OUT instructions of all vCPUs together
  MaxMoved       \* bound: both together

ASSUME RunPageAssumption ==
  /\ MaxTyped \in Nat /\ MaxSent \in Nat /\ MaxMoved \in Nat
  /\ Sizes \subseteq {1, 2, 4}
  /\ "fatal" \notin KvmErrors       \* see CannotRecover

VARIABLES
  clears,    \* whether this host's KVM clears the array before an IN
  page,      \* the bytes at data_offset in each vCPU's run page
  rx_buf,    \* COM1's receive queue
  typed,     \* keys queued so far
  sent,      \* bytes each vCPU's guest code has sent so far
  devOut,    \* those a device has taken
  got        \* the arrays with a key each vCPU's guest code has read from RBR

pageVars == <<clears, page, rx_buf, typed, sent, devOut, got>>
allVars == <<vars, pageVars>>

RBR == \h3F8
Offsets == 0 .. 4 * MaxCount - 1    \* an element has 1, 2 or 4 bytes

\* Bytes are told apart by where they come from.
Zero == <<"zero">>
Answer == <<"device">>              \* what a register other than RBR reads as
Key(n) == <<"key", n>>
Sent(v, n) == <<"guest", v, n>>
IsKey(byte) == byte[1] = "key"

PageInit ==
  /\ Init
  /\ clears \in BOOLEAN
  /\ page = [v \in VCPUs |-> [i \in Offsets |-> Zero]]
  /\ rx_buf = <<>> /\ typed = 0
  /\ sent = [v \in VCPUs |-> 0] /\ devOut = <<>>
  /\ got = [v \in VCPUs |-> <<>>]

-----------------------------------------------------------------------------
(***************************************************************************)
(* KVM                                                                     *)
(***************************************************************************)

\* A handler has left an IN's data in the page and the guest has not got it.
Answered(v) == reason[v] = "IO" /\ io[v].dir = "in" /\ calls[v] > 0

\* Where the elements of the array begin.
Elements(v) == [i \in 1 .. io[v].count |-> (i - 1) * io[v].size]

\* The guest gets the array; of what it reads from RBR it keeps what holds a key.
Completes(v) ==
  LET array == [i \in 1 .. io[v].count |-> page[v][Elements(v)[i]]] IN
    got' = [got EXCEPT ![v] =
              IF Answered(v) /\ io[v].port = RBR /\ \E i \in DOMAIN array : IsKey(array[i])
              THEN @ \o array ELSE @]

OutsSoFar == Ext!MapThenSumSet(LAMBDA v : sent[v], VCPUs)
MoreToMove == typed + OutsSoFar < MaxMoved

\* The array of the next exit, if it is an IN or OUT.
Fills(v) ==
  LET out   == reason'[v] = "IO" /\ io'[v].dir = "out"
      in    == reason'[v] = "IO" /\ io'[v].dir = "in"
      array == 0 .. io'[v].size * io'[v].count - 1
  IN  /\ out => OutsSoFar < MaxSent /\ MoreToMove /\ io'[v].count = 1
      /\ sent' = IF out THEN [sent EXCEPT ![v] = @ + 1] ELSE sent
      /\ page' = [page EXCEPT ![v] = [i \in Offsets |->
                    CASE out /\ i \in array -> Sent(v, IF i = 0 THEN sent'[v] ELSE 0)
                      [] in /\ i \in array /\ clears -> Zero
                      [] OTHER -> @[i]]]

\* KVM_RUN: what is left of the last exit first, then the guest.  Of the exits
\* that end the run, one stands for all.
Enter(v) ==
  /\ Alive
  /\ \/ Exits(v) /\ reason'[v] = "HLT"
     \/ ExitsForIO(v) \/ Interrupted(v) \/ NotYetStarted(v)
  /\ Completes(v) /\ Fills(v)
  /\ UNCHANGED <<clears, rx_buf, typed, devOut>>

-----------------------------------------------------------------------------
(***************************************************************************)
(* The handlers                                                            *)
(***************************************************************************)

\* Plausible bug: the offset of the second element.
DataPtr_Next(v) == io[v].size

\* data_ptr is the start of the array in every iteration.
DataPtr(v) == 0

Answers(v, byte) == page' = [page EXCEPT ![v][DataPtr(v)] = byte]

\* Plausible bug: the queue is read without taking the byte out.
ReadRBR_Peek(v) ==
  /\ Answers(v, IF rx_buf = <<>> THEN Zero ELSE Head(rx_buf))
  /\ UNCHANGED rx_buf

\* Plausible bug: nothing is stored when nothing is queued.
ReadRBR_EmptyKeeps(v) ==
  IF rx_buf = <<>>
  THEN UNCHANGED <<page, rx_buf>>
  ELSE Answers(v, Head(rx_buf)) /\ rx_buf' = Tail(rx_buf)

\* COM1::Read of RBR, DLAB clear: one byte, whatever the operand size.
ReadRBR(v) ==
  IF rx_buf = <<>>
  THEN Answers(v, Zero) /\ UNCHANGED rx_buf
  ELSE Answers(v, Head(rx_buf)) /\ rx_buf' = Tail(rx_buf)

\* COM1 and CMOS store one byte of answer, the handlers of other ports nothing.
HandleIn(v) ==
  LET answers == Handler(io[v].port, "in") \in {"COM1", "CMOS"} /\ pc'[v] # "stopped" IN
  /\ io[v].dir = "in"
  /\ \/ answers /\ io[v].port = RBR /\ ReadRBR(v)
     \/ answers /\ io[v].port # RBR /\ Answers(v, Answer) /\ UNCHANGED rx_buf
     \/ ~answers /\ UNCHANGED <<page, rx_buf>>
  /\ UNCHANGED devOut

\* A device takes one byte.  COM1 may have done so before it fails: Write sends
\* the byte, or stores IER, and pulses the line after that.
HandleOut(v) ==
  LET h == Handler(io[v].port, "out")
      fails == pc'[v] = "stopped"
  IN  /\ io[v].dir = "out"
      /\ \/ /\ h = "COM1" \/ (h = "CMOS" /\ ~fails)
            /\ devOut' = Append(devOut, page[v][DataPtr(v)])
         \/ /\ h \notin {"COM1", "CMOS"} \/ fails
            /\ UNCHANGED devOut
      /\ UNCHANGED <<page, rx_buf>>

Handle(v) ==
  /\ Alive /\ CallHandler(v)
  /\ HandleIn(v) \/ HandleOut(v)
  /\ UNCHANGED <<clears, typed, sent, got>>

\* The reader thread queues a key, at any time.
ReaderPushes ==
  /\ Alive /\ typed < MaxTyped /\ MoreToMove
  /\ typed' = typed + 1
  /\ rx_buf' = Append(rx_buf, Key(typed'))
  /\ UNCHANGED <<vars, clears, page, sent, devOut, got>>

\* The steps of VcpuRun that move no data.
Control ==
  /\ \/ Boot
     \/ \E v \in VCPUs :
          \/ Spawn(v)
          \/ Alive /\ (Continue(v) \/ StartIO(v) \/ EndIO(v) \/ Stop(v))
  /\ UNCHANGED pageVars

PageNext ==
  \/ Control \/ ReaderPushes
  \/ \E v \in VCPUs : Enter(v) \/ Handle(v)

PageSpec == PageInit /\ [][PageNext]_allVars

-----------------------------------------------------------------------------
(***************************************************************************)
(* Properties                                                              *)
(***************************************************************************)

Keys(s) == {s[i] : i \in {j \in DOMAIN s : IsKey(s[j])}}

\* Whatever the strings do: guest code reads no key twice, none that another vCPU
\* has read or that is still queued, and each vCPU in the order of the queue.
\* RunOnce's handlers write to the start of the array only, so what the guest gets
\* beyond it must never be a key of an earlier exit that KVM left there.
KeysOnceInOrder ==
  /\ \A v \in VCPUs : \A i, j \in DOMAIN got[v] :
       i < j /\ IsKey(got[v][i]) /\ IsKey(got[v][j]) => got[v][i][2] < got[v][j][2]
  /\ \A v, w \in VCPUs : v # w => Keys(got[v]) \cap Keys(got[w]) = {}
  /\ \A v \in VCPUs : Keys(got[v]) \cap Keys(rx_buf) = {}

\* "forwards keystrokes to the guest serial port" (README.md:59-60): a key that
\* COM1::Read has taken out of rx_buf is in the run page of the vCPU that asked
\* for it until its guest code has it, whatever other exits, signals and vCPUs
\* come in between.
KeysReachGuest ==
  \A n \in 1 .. typed :
    \/ Key(n) \in Keys(rx_buf)
    \/ \E v \in VCPUs : Answered(v) /\ page[v][0] = Key(n)
    \/ \E v \in VCPUs : Key(n) \in Keys(got[v])

\* A device takes what the guest sends to it: the first byte of the operand, at
\* most once and in the order of each vCPU's instructions.
DevicesTakeWhatIsSent ==
  /\ \A i \in DOMAIN devOut :
       \E v \in VCPUs : \E n \in 1 .. sent[v] : devOut[i] = Sent(v, n)
  /\ \A i, j \in DOMAIN devOut :
       i < j /\ devOut[i][2] = devOut[j][2] => devOut[i][3] < devOut[j][3]

\* Data of another exit: sent by an OUT, or a key read from RBR.
Foreign(v, byte) == byte[1] = "guest" \/ (IsKey(byte) /\ io[v].port # RBR)

\* The run page still holds the bytes of earlier exits when a handler is called.
\* A device's answer always replaces them, and where it does not (ignored
\* ports, the upper bytes of a wide operand) KVM's clearing must.
NoForeignData ==
  \A v \in VCPUs : pc[v] = "run" /\ Answered(v) =>
    \A i \in 0 .. io[v].size * io[v].count - 1 :
      Foreign(v, page[v][i]) =>
        ~clears /\ (i > 0 \/ Handler(io[v].port, "in") \notin {"COM1", "CMOS"})

=============================================================================
