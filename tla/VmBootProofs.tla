---------------------------- MODULE VmBootProofs ----------------------------
(***************************************************************************)
(* For any number of vCPUs, any host and any faults: what is proved of the *)
(* bring-up.                                                               *)
(***************************************************************************)
EXTENDS VmBoot, TLAPS

\* The table, and where in it the functions are that go over the vCPUs.
LEMMA Table ==
  /\ Len(initmachine_func) = 10 /\ DOMAIN initmachine_func = 1 .. 10
  /\ initmachine_func[1] = "setTSSAddr" /\ initmachine_func[2] = "setIdentityMapAddr"
  /\ initmachine_func[3] = "createIRQChip" /\ initmachine_func[4] = "createPIT2"
  /\ initmachine_func[5] = "createVcpu" /\ initmachine_func[6] = "allocGuestRAM"
  /\ initmachine_func[7] = "setUserMemRegion" /\ initmachine_func[8] = "initPIOHandler"
  /\ initmachine_func[9] = "initVcpuRegs" /\ initmachine_func[10] = "initVcpuSregs"
  BY DEF initmachine_func

LEMMA Places ==
  ASSUME NEW k \in 1 .. 10
  PROVE  /\ initmachine_func[k] \in OneCall <=> k \notin {5, 9, 10}
         /\ initmachine_func[k] = "createVcpu" <=> k = 5
         /\ initmachine_func[k] = "initVcpuRegs" <=> k = 9
         /\ initmachine_func[k] = "initVcpuSregs" <=> k = 10
<1>1. k = 1 \/ k = 2 \/ k = 3 \/ k = 4 \/ k = 5 \/ k = 6 \/ k = 7 \/ k = 8 \/ k = 9 \/ k = 10
  OBVIOUS
<1>2. QED BY <1>1, Table DEF OneCall

-----------------------------------------------------------------------------
(***************************************************************************)
(* Type correctness                                                        *)
(***************************************************************************)

LEMMA TypeInit == Init => TypeOK
<1> SUFFICES ASSUME Init PROVE TypeOK
  OBVIOUS
<1>1. 0 \in VCPUs
  BY VmBootAssumption DEF VCPUs
<1>2. limits \in Nat \X Nat
  BY VmBootAssumption DEF Init
<1>3. n \in DOMAIN initmachine_func
  BY Table DEF Init
<1>4. QED BY <1>1, <1>2, <1>3 DEF Init, TypeOK

\* The function in the table comes back: the machine's parts aside.
LEMMA TypeReturns ==
  ASSUME TypeOK, at = "table", NEW r, Returns(r)
  PROVE  /\ at' \in {"table", "initRAM", "exited"}
         /\ n' \in DOMAIN initmachine_func
         /\ terminal' \in {"none", "cooked", "raw"} /\ restore' \in BOOLEAN
  BY Table DEF Returns, TypeOK, Exit, tty

LEMMA TypeNextVcpu ==
  ASSUME TypeOK, at = "table", NextVcpu
  PROVE  /\ at' \in {"table", "initRAM", "exited"}
         /\ n' \in DOMAIN initmachine_func
         /\ terminal' \in {"none", "cooked", "raw"} /\ restore' \in BOOLEAN
         /\ i' \in VCPUs
<1>1. i' \in VCPUs
  BY VmBootAssumption DEF NextVcpu, LastVcpu, TypeOK, VCPUs
<1>2. QED BY <1>1, TypeReturns DEF NextVcpu, TypeOK, tty

LEMMA TypeNext == TypeOK /\ [Next]_vars => TypeOK'
<1> SUFFICES ASSUME TypeOK, [Next]_vars PROVE TypeOK'
  OBVIOUS
<1> USE DEF serial, machine, tty, mainVars
<1>1. CASE KeyTyped \/ FlapReturns \/ WriteIER
  BY <1>1 DEF KeyTyped, FlapReturns, WriteIER, TypeOK
<1>2. CASE GetKVMFDFails \/ kvmCreateVM \/ ConstructVM \/ AddIODevs \/ StartReader
           \/ initRAM \/ BootReturns \/ BootThrows
  BY <1>2 DEF GetKVMFDFails, kvmCreateVM, ConstructVM, AddIODevs, RawMode, StartReader,
              initRAM, BootReturns, BootThrows, Exit, Abort, TypeOK
<1>3. CASE ConstructKVM
  <2>1. limits' \in Nat \X Nat
    BY <1>3 DEF ConstructKVM, CheckedLimits, TypeOK
  <2>2. QED BY <1>3, <2>1 DEF ConstructKVM, Abort, TypeOK
<1>4. ASSUME NEW f \in OneCall, CallOnce(f) PROVE TypeOK'
  <2>1. PICK r \in {0, -1} : Returns(r)
    BY <1>4 DEF CallOnce
  <2>2. QED BY <1>4, <2>1, TypeReturns DEF CallOnce, In, TypeOK
<1>5. CASE createVcpu
  <2>1. CASE Vcpu /\ NextVcpu
    BY <1>5, <2>1, TypeNextVcpu DEF createVcpu, In, Vcpu, TypeOK
  <2>2. CASE Returns(-1) /\ UNCHANGED <<created, i>>
    BY <1>5, <2>2, TypeReturns DEF createVcpu, In, TypeOK
  <2>3. CASE Abort /\ UNCHANGED <<created, i>>
    BY <1>5, <2>3 DEF createVcpu, Abort, TypeOK
  <2>4. QED BY <1>5, <2>1, <2>2, <2>3 DEF createVcpu
<1>6. CASE initVcpuRegs
  <2>1. CASE InitRegs /\ NextVcpu
    BY <1>6, <2>1, TypeNextVcpu DEF initVcpuRegs, In, InitRegs, TypeOK
  <2>2. CASE Returns(1) /\ i' = 0 /\ UNCHANGED regs
    BY <1>6, <2>2, TypeReturns, VmBootAssumption DEF initVcpuRegs, In, TypeOK, VCPUs
  <2>3. QED BY <1>6, <2>1, <2>2 DEF initVcpuRegs
<1>7. CASE initVcpuSregs
  <2>1. CASE InitSregs /\ NextVcpu
    BY <1>7, <2>1, TypeNextVcpu DEF initVcpuSregs, In, InitSregs, TypeOK
  <2>2. CASE Returns(1) /\ i' = 0 /\ UNCHANGED sregs
    BY <1>7, <2>2, TypeReturns, VmBootAssumption DEF initVcpuSregs, In, TypeOK, VCPUs
  <2>3. QED BY <1>7, <2>1, <2>2 DEF initVcpuSregs
<1>8. CASE UNCHANGED vars
  BY <1>8 DEF vars, TypeOK
<1>9. QED BY <1>1, <1>2, <1>3, <1>4, <1>5, <1>6, <1>7, <1>8 DEF Next

\* initMachine is never beyond its table nor a loop beyond the vCPUs, for any
\* number of them.
THEOREM TypeCorrect == Spec => []TypeOK
  BY TypeInit, TypeNext, PTL DEF Spec

-----------------------------------------------------------------------------
(***************************************************************************)
(* The terminal                                                            *)
(***************************************************************************)

\* The handler is registered before the terminal is changed.
RawMeansRestore == terminal = "raw" => restore

TermInv == RawMeansRestore /\ TerminalRestored

\* Wherever main returns from, the terminal is as it was.
THEOREM TerminalAlwaysRestored == Spec => []TerminalRestored
<1>1. Init => TermInv
  BY DEF Init, TermInv, RawMeansRestore, TerminalRestored
<1>2. TermInv /\ [Next]_vars => TermInv'
  <2> SUFFICES ASSUME TermInv, [Next]_vars PROVE TermInv'
    OBVIOUS
  <2> USE DEF TermInv, RawMeansRestore, TerminalRestored, serial, machine, tty, mainVars
  <2>1. ASSUME NEW r, Returns(r), at = "table" PROVE TermInv'
    BY <2>1 DEF Returns, Exit
  <2>2. ASSUME NextVcpu, at = "table" PROVE TermInv'
    BY <2>1, <2>2 DEF NextVcpu
  <2>3. ASSUME NEW f \in OneCall, CallOnce(f) PROVE TermInv'
    BY <2>1, <2>3 DEF CallOnce, In
  <2>4. CASE createVcpu \/ initVcpuRegs \/ initVcpuSregs
    BY <2>1, <2>2, <2>4 DEF createVcpu, initVcpuRegs, initVcpuSregs, In, Abort
  <2>5. CASE KeyTyped \/ FlapReturns \/ WriteIER \/ UNCHANGED vars
    BY <2>5 DEF KeyTyped, FlapReturns, WriteIER, vars
  <2>6. CASE \/ GetKVMFDFails \/ ConstructKVM \/ kvmCreateVM \/ ConstructVM
             \/ AddIODevs \/ StartReader \/ initRAM \/ BootReturns \/ BootThrows
    BY <2>6 DEF GetKVMFDFails, ConstructKVM, kvmCreateVM, ConstructVM, AddIODevs, RawMode,
                StartReader, initRAM, BootReturns, BootThrows, Exit, Abort
  <2>7. QED BY <2>3, <2>4, <2>5, <2>6 DEF Next
<1>3. TermInv => TerminalRestored
  BY DEF TermInv
<1>4. QED BY <1>1, <1>2, <1>3, PTL DEF Spec

-----------------------------------------------------------------------------
(***************************************************************************)
(* The machine                                                             *)
(***************************************************************************)

Begins == {"main", "kvmCreateVM", "VM", "addIODev", "reader_thread"}

\* Before the table nothing is there.
NothingYet == at \in Begins => n = 1 /\ i = 0 /\ done \subseteq {"initRAM"}

\* Of the functions that are one call, those before the n-th have had their effect.
DoneBelow == \A f \in OneCall : f \in done <=> \E k \in 1 .. n - 1 : initmachine_func[k] = f

\* The loop over the vCPUs has created those below i, and nothing has a
\* register before the function that sets them.
CreatedBelow ==
  /\ n < 5 => created = {} /\ i = 0
  /\ n = 5 /\ at = "table" => created = 0 .. i - 1
  /\ n > 5 => created = VCPUs
  /\ n < 9 => regs = {}
  /\ n < 10 => sregs = {}

\* initRAM and Boot come after the whole table, and the guest, without which
\* nobody asks for an interrupt, after both.
AfterTable ==
  /\ at \in {"initRAM", "running"} => n = 10
  /\ at = "running" => "initRAM" \in done
  /\ DATA_AVL \/ reader = "flap" => done = OneCall \cup {"initRAM"}

Built == NothingYet /\ DoneBelow /\ CreatedBelow /\ AfterTable

BInv == TypeOK /\ Built

LEMMA BuiltInit == Init => Built
<1> SUFFICES ASSUME Init PROVE Built
  OBVIOUS
<1>1. \A f \in OneCall : f \in done <=> \E k \in 1 .. n - 1 : initmachine_func[k] = f
  BY DEF Init
<1>2. QED BY <1>1 DEF Init, Built, NothingYet, DoneBelow, CreatedBelow, AfterTable, Begins

\* All of the table has been gone through: every one of its calls has been made.
LEMMA AllDone ==
  ASSUME BInv, n = 10
  PROVE  OneCall \subseteq done /\ created = VCPUs
<1>1. ASSUME NEW f \in OneCall PROVE \E k \in 1 .. n - 1 : initmachine_func[k] = f
  BY <1>1, Table DEF OneCall
<1>2. QED BY <1>1 DEF BInv, Built, DoneBelow, CreatedBelow

\* What the steps outside the table leave alone.
LEMMA BuiltOutside ==
  ASSUME BInv, UNCHANGED <<n, i, created, regs, sregs, reader, DATA_AVL>>,
         \/ UNCHANGED done /\ at' # "table" /\ (at' = "running" => at = "running")
         \/ UNCHANGED done /\ at' = "table" /\ at \in Begins
         \/ at = "initRAM" /\ at' = "running" /\ done' = done \cup {"initRAM"},
         at' \in Begins => at \in Begins,
         at' = "initRAM" => at = "initRAM"
  PROVE  Built'
<1> USE DEF BInv, Built
<1>1. NothingYet'
  BY DEF NothingYet, Begins
<1>2. DoneBelow'
  <2>1. "initRAM" \notin OneCall
    BY DEF OneCall
  <2>2. QED BY <2>1 DEF DoneBelow
<1>3. CreatedBelow'
  BY DEF CreatedBelow, NothingYet
<1>4. AfterTable'
  BY DEF AfterTable
<1>5. QED BY <1>1, <1>2, <1>3, <1>4

\* Where initMachine is after a function of the table has returned.
LEMMA ReturnsTo ==
  ASSUME TypeOK, at = "table", NEW r \in {-1, 0, 1}, Returns(r)
  PROVE  \/ r = -1 /\ at' = "exited" /\ n' = n
         \/ r # -1 /\ n = 10 /\ at' = "initRAM" /\ n' = n
         \/ r # -1 /\ n < 10 /\ at' = "table" /\ n' = n + 1
  BY Table DEF Returns, EndsInit, Exit, TypeOK

LEMMA BuiltCallOnce ==
  ASSUME BInv, NEW f \in OneCall, CallOnce(f)
  PROVE  Built'
<1> USE DEF BInv, Built
<1>1. n \in 1 .. 10 /\ at = "table" /\ initmachine_func[n] = f /\ n \notin {5, 9, 10}
  BY Table, Places DEF CallOnce, In, TypeOK
<1>2. UNCHANGED <<i, created, regs, sregs, reader, DATA_AVL>>
  BY DEF CallOnce, serial
<1>3. CASE Returns(0) /\ done' = done \cup {f}
  <2>1. at' = "table" /\ n' = n + 1
    BY <1>1, <1>3, ReturnsTo
  <2>2. DoneBelow'
    BY <1>1, <1>3, <2>1 DEF DoneBelow
  <2>3. CreatedBelow'
    <3>1. CASE n < 4
      BY <1>1, <1>2, <2>1, <3>1 DEF CreatedBelow
    <3>2. CASE n = 4
      <4>1. created' = {} /\ i' = 0 /\ regs' = {} /\ sregs' = {} /\ n' = 5
        BY <1>1, <1>2, <2>1, <3>2 DEF CreatedBelow
      <4>2. 0 .. i' - 1 = {}
        BY <4>1
      <4>3. QED BY <4>1, <4>2 DEF CreatedBelow
    <3>3. CASE n > 5
      BY <1>1, <1>2, <2>1, <3>3 DEF CreatedBelow
    <3>4. QED BY <1>1, <3>1, <3>2, <3>3
  <2>4. NothingYet' /\ AfterTable'
    BY <1>2, <1>3, <2>1 DEF NothingYet, AfterTable, Begins
  <2>5. QED BY <2>2, <2>3, <2>4
<1>4. CASE Returns(-1) /\ UNCHANGED done
  <2>1. at' = "exited" /\ n' = n
    BY <1>1, <1>4, ReturnsTo
  <2>2. QED
    BY <1>1, <1>2, <1>4, <2>1
       DEF NothingYet, DoneBelow, CreatedBelow, AfterTable, Begins
<1>5. QED BY <1>3, <1>4 DEF CallOnce

LEMMA BuiltCreateVcpu ==
  ASSUME BInv, createVcpu
  PROVE  Built'
<1> USE DEF BInv, Built
<1>1. n = 5 /\ at = "table"
  BY Table, Places DEF createVcpu, In, TypeOK
<1>2. UNCHANGED <<done, regs, sregs, reader, DATA_AVL>>
  BY DEF createVcpu, serial
<1>3. i \in 0 .. vcpu_num - 1 /\ vcpu_num \in Nat /\ created = 0 .. i - 1
  BY <1>1, VmBootAssumption DEF TypeOK, VCPUs, CreatedBelow
<1>4. initmachine_func[5] \notin OneCall
  BY Places
<1>5. CASE Vcpu /\ NextVcpu /\ LastVcpu
  <2>1. at' = "table" /\ n' = 6
    BY <1>1, <1>5, ReturnsTo DEF NextVcpu
  <2>2. created' = VCPUs
    BY <1>3, <1>5 DEF Vcpu, LastVcpu, VCPUs
  <2>3. DoneBelow'
    BY <1>1, <1>2, <1>4, <2>1 DEF DoneBelow
  <2>4. QED
    BY <1>1, <1>2, <2>1, <2>2, <2>3 DEF NothingYet, CreatedBelow, AfterTable, Begins
<1>6. CASE Vcpu /\ NextVcpu /\ ~LastVcpu
  <2>1. at' = "table" /\ n' = 5 /\ i' = i + 1
    BY <1>1, <1>6 DEF NextVcpu
  <2>2. created' = 0 .. i' - 1
    BY <1>3, <1>6, <2>1 DEF Vcpu
  <2>3. DoneBelow'
    BY <1>1, <1>2, <2>1 DEF DoneBelow
  <2>4. QED
    BY <1>1, <1>2, <2>1, <2>2, <2>3 DEF NothingYet, CreatedBelow, AfterTable, Begins
<1>7. CASE (Returns(-1) \/ Abort) /\ UNCHANGED <<created, i>>
  <2>1. at' \in {"exited", "aborted"} /\ n' = n
    BY <1>1, <1>7, ReturnsTo DEF Abort
  <2>2. QED
    BY <1>1, <1>2, <1>7, <2>1
       DEF NothingYet, DoneBelow, CreatedBelow, AfterTable, Begins
<1>8. QED BY <1>5, <1>6, <1>7 DEF createVcpu

LEMMA BuiltInitRegs ==
  ASSUME BInv, initVcpuRegs \/ initVcpuSregs
  PROVE  Built'
<1> USE DEF BInv, Built
<1>1. n \in {9, 10} /\ at = "table" /\ (initVcpuRegs => n = 9)
  BY Table, Places DEF initVcpuRegs, initVcpuSregs, In, TypeOK
<1>2. UNCHANGED <<done, created, reader, DATA_AVL>> /\ (initVcpuRegs => UNCHANGED sregs)
  BY DEF initVcpuRegs, initVcpuSregs, serial
<1>3. (initVcpuSregs => n = 10)
  BY Table, Places DEF initVcpuSregs, In, TypeOK
<1>4. initmachine_func[9] \notin OneCall
  BY Places
<1>5. \/ n' = n /\ at' = "table"
      \/ n = 9 /\ n' = 10 /\ at' = "table"
      \/ n = 10 /\ n' = 10 /\ at' = "initRAM"
  <2>1. CASE NextVcpu
    BY <1>1, <2>1, ReturnsTo DEF NextVcpu
  <2>2. CASE Returns(1)
    BY <1>1, <2>2, ReturnsTo
  <2>3. QED BY <2>1, <2>2 DEF initVcpuRegs, initVcpuSregs
<1>6. DoneBelow'
  BY <1>1, <1>2, <1>4, <1>5 DEF DoneBelow
<1>7. CreatedBelow'
  BY <1>1, <1>2, <1>3, <1>5 DEF CreatedBelow
<1>8. NothingYet' /\ AfterTable'
  BY <1>1, <1>2, <1>5 DEF NothingYet, AfterTable, Begins
<1>9. QED BY <1>6, <1>7, <1>8

LEMMA BuiltNext == BInv /\ [Next]_vars => BInv'
<1> SUFFICES ASSUME BInv, [Next]_vars PROVE Built'
  BY TypeNext DEF BInv
<1>1. CASE GetKVMFDFails \/ ConstructKVM \/ kvmCreateVM \/ ConstructVM \/ AddIODevs
           \/ initRAM \/ BootReturns \/ BootThrows
  BY <1>1, BuiltOutside
     DEF GetKVMFDFails, ConstructKVM, kvmCreateVM, ConstructVM, AddIODevs, initRAM,
         BootReturns, BootThrows, Exit, Abort, machine, serial, tty, Begins
<1>2. CASE StartReader
  BY <1>2 DEF StartReader, Abort, machine, tty, BInv, Built, NothingYet, DoneBelow,
              CreatedBelow, AfterTable, Begins
<1>3. CASE createVcpu \/ initVcpuRegs \/ initVcpuSregs
  BY <1>3, BuiltCreateVcpu, BuiltInitRegs
<1>4. CASE \E f \in OneCall : CallOnce(f)
  BY <1>4, BuiltCallOnce
<1>5. CASE KeyTyped \/ FlapReturns \/ UNCHANGED vars
  BY <1>5 DEF KeyTyped, FlapReturns, vars, mainVars, BInv, Built, NothingYet, DoneBelow,
              CreatedBelow, AfterTable
<1>6. CASE WriteIER
  <2>1. done = OneCall \cup {"initRAM"}
    <3>1. n = 10 /\ "initRAM" \in done /\ done \subseteq OneCall \cup {"initRAM"}
      BY <1>6 DEF WriteIER, BInv, Built, AfterTable, TypeOK
    <3>2. QED BY <3>1, AllDone
  <2>2. QED
    BY <1>6, <2>1 DEF WriteIER, mainVars, BInv, Built, NothingYet, DoneBelow,
                      CreatedBelow, AfterTable
<1>7. QED BY <1>1, <1>2, <1>3, <1>4, <1>5, <1>6 DEF Next

LEMMA AlwaysBuilt == Spec => []BInv
<1>1. Init => BInv
  BY TypeInit, BuiltInit DEF BInv
<1>2. QED BY <1>1, BuiltNext, PTL DEF Spec

\* KVM gets the calls in an order it accepts, whatever fails.
THEOREM KVMOrderKept == Spec => []KVMOrder
<1>1. BInv => KVMOrder
  <2> SUFFICES ASSUME BInv PROVE KVMOrder
    OBVIOUS
  <2> USE DEF BInv, Built
  <2>1. n \in 1 .. 10
    BY Table DEF TypeOK
  <2>2. ASSUME NEW k \in 1 .. 10, k < n, initmachine_func[k] \in OneCall
        PROVE  initmachine_func[k] \in done
    BY <2>1, <2>2 DEF DoneBelow
  <2>3. ASSUME NEW k \in 1 .. 10, initmachine_func[k] \in OneCall \cap done,
               \A j \in 1 .. 10 : initmachine_func[j] = initmachine_func[k] => j = k
        PROVE  k < n
    BY <2>1, <2>3 DEF DoneBelow
  <2>4. created # {} => {"setTSSAddr", "setIdentityMapAddr", "createIRQChip"} \subseteq done
    <3>1. created # {} => n >= 5
      BY <2>1 DEF CreatedBelow
    <3>2. created # {} => /\ initmachine_func[1] \in done
                          /\ initmachine_func[2] \in done
                          /\ initmachine_func[3] \in done
      BY <2>1, <2>2, <3>1, Places
    <3>3. QED BY <3>2, Table
  <2>5. "createPIT2" \in done => "createIRQChip" \in done
    <3>1. initmachine_func[4] \in done => 4 < n
      BY <2>3, Places, Table
    <3>2. 4 < n => initmachine_func[3] \in done
      BY <2>1, <2>2, Places
    <3>3. QED BY <3>1, <3>2, Table
  <2>6. "setUserMemRegion" \in done => "allocGuestRAM" \in done
    <3>1. initmachine_func[7] \in done => 7 < n
      BY <2>3, Places, Table
    <3>2. 7 < n => initmachine_func[6] \in done
      BY <2>1, <2>2, Places
    <3>3. QED BY <3>1, <3>2, Table
  <2>7. regs \cup sregs \subseteq created
    BY <2>1 DEF CreatedBelow, TypeOK
  <2>8. QED BY <2>4, <2>5, <2>6, <2>7 DEF KVMOrder
<1>2. QED BY <1>1, AlwaysBuilt, PTL

\* A guest that runs has every part whose failure is reported by -errno.
THEOREM RunsOnlyComplete == Spec => []RunsComplete
<1>1. ASSUME BInv PROVE RunsComplete
  BY <1>1, AllDone DEF RunsComplete, BInv, Built, AfterTable, TypeOK
<1>2. QED BY <1>1, AlwaysBuilt, PTL

\* The reader thread pulses the line of a complete machine only.
THEOREM LineOnlyWithMachine == Spec => []LineNeedsMachine
<1>1. ASSUME BInv PROVE LineNeedsMachine
  BY <1>1 DEF LineNeedsMachine, BInv, Built, AfterTable
<1>2. QED BY <1>1, AlwaysBuilt, PTL

=============================================================================
