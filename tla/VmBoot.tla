------------------------------- MODULE VmBoot -------------------------------
(***************************************************************************)
(* Bringing a machine up: main, the constructors of KVM, VM, COM1 and      *)
(* Vcpu, the table of functions initMachine goes through, initRAM and      *)
(* Boot, with every way each of them can fail.  A function that fails      *)
(* makes main return -1, which runs the atexit handlers; a constructor     *)
(* that fails throws, nobody catches it and the process aborts, which      *)
(* does not.  The reader thread of COM1 starts in the middle of it and     *)
(* reads the keyboard from then on, whatever main is doing.                *)
(***************************************************************************)
EXTENDS Integers, Sequences

CONSTANTS
  vcpu_num,    \* vm_config.vcpu_num
  HostLimits,  \* the <<soft, hard>> vCPU limits a host may report, 0: none
  Faults       \* what may fail: function names, and "new" for constructors and threads

VCPUs == 0 .. vcpu_num - 1

ASSUME VmBootAssumption ==
  /\ vcpu_num \in Nat \ {0}
  /\ HostLimits \subseteq Nat \X Nat

\* Plausible bug: the vCPUs are created before the interrupt controller.
initmachine_func_VcpusFirst ==
  << "setTSSAddr", "setIdentityMapAddr", "createVcpu", "createIRQChip", "createPIT2",
     "allocGuestRAM", "setUserMemRegion", "initPIOHandler", "initVcpuRegs", "initVcpuSregs" >>

initmachine_func ==
  << "setTSSAddr", "setIdentityMapAddr", "createIRQChip", "createPIT2", "createVcpu",
     "allocGuestRAM", "setUserMemRegion", "initPIOHandler", "initVcpuRegs", "initVcpuSregs" >>

\* The functions that are one system call, or, for initPIOHandler, cannot fail.
OneCall == {"setTSSAddr", "setIdentityMapAddr", "createIRQChip", "createPIT2",
            "allocGuestRAM", "setUserMemRegion", "initPIOHandler"}

VARIABLES
  at,         \* where main is
  n,          \* in the table: the index of the function initMachine is in
  limits,     \* cap.soft_vcpus_limit and cap.hard_vcpus_limit
  done,       \* the OneCall functions that have taken effect, and "initRAM"
  i,          \* the loop index of the function that goes over the vCPUs
  created,    \* the vCPUs whose object is complete
  regs,       \* those whose registers are set
  sregs,      \* those whose segment and control registers are set
  terminal,   \* "none" (no tty), "cooked" or "raw"
  restore,    \* restore_termios_atexit is registered
  reader,     \* the reader thread: "none", in "read", or in flapIRQLine
  DATA_AVL    \* the guest has enabled the receive interrupt in IER

mainVars == <<at, n, limits, done, i, created, regs, sregs, terminal, restore>>
vars == <<mainVars, reader, DATA_AVL>>

serial == <<reader, DATA_AVL>>
machine == <<done, i, created, regs, sregs>>
tty == <<terminal, restore>>

Init ==
  /\ at = "main" /\ n = 1
  /\ limits \in HostLimits
  /\ done = {} /\ i = 0
  /\ created = {} /\ regs = {} /\ sregs = {}
  /\ terminal \in {"none", "cooked"}
  /\ restore = FALSE
  /\ reader = "none" /\ DATA_AVL = FALSE

-----------------------------------------------------------------------------
(***************************************************************************)
(* The two ways to end                                                     *)
(***************************************************************************)

\* main returns: restore_termios_atexit runs if it is registered.
Exit ==
  /\ at' = "exited"
  /\ terminal' = IF restore THEN "cooked" ELSE terminal
  /\ UNCHANGED <<n, restore>>

\* An exception nobody catches.
Abort == at' = "aborted" /\ UNCHANGED <<n, tty>>

-----------------------------------------------------------------------------
(***************************************************************************)
(* Before initMachine                                                      *)
(***************************************************************************)

GetKVMFDFails ==
  /\ at = "main" /\ "getKVMFD" \in Faults
  /\ Exit /\ UNCHANGED <<limits, machine, serial>>

\* kvmCapCheck: the soft limit has a default, the hard limit stays as it is.
CheckedLimits(reported) == << IF reported[1] = 0 THEN 4 ELSE reported[1], reported[2] >>

ConstructKVM ==
  /\ at = "main"
  /\ \/ /\ limits' = CheckedLimits(limits)
        /\ at' = "kvmCreateVM" /\ UNCHANGED <<n, tty>>
     \/ /\ "new" \in Faults
        /\ Abort /\ UNCHANGED limits
  /\ UNCHANGED <<machine, serial>>

TooManyVcpus == vcpu_num > limits[2]

kvmCreateVM ==
  /\ at = "kvmCreateVM"
  /\ \/ (TooManyVcpus \/ "kvmCreateVM" \in Faults) /\ Exit
     \/ ~TooManyVcpus /\ at' = "VM" /\ UNCHANGED <<n, tty>>
  /\ UNCHANGED <<limits, machine, serial>>

\* VM::VM throws without a kernel or an initramfs, or with an ELF kernel.
ConstructVM ==
  /\ at = "VM"
  /\ \/ at' = "addIODev" /\ UNCHANGED <<n, tty>>
     \/ "new" \in Faults /\ Abort
  /\ UNCHANGED <<limits, machine, serial>>

\* Plausible bug: the terminal is changed first and the handler never registered.
RawMode_NoHandler == terminal' = "raw" /\ UNCHANGED restore

\* COM1::COM1 on a terminal whose attributes could be saved.
RawMode == restore' = TRUE /\ terminal' = "raw"

\* The devices are made before anything else; COM1 takes the terminal over.
AddIODevs ==
  /\ at = "addIODev"
  /\ \/ terminal = "cooked" /\ RawMode
     \/ (terminal = "none" \/ "tcgetattr" \in Faults) /\ UNCHANGED tty
  /\ at' = "reader_thread"
  /\ UNCHANGED <<n, limits, machine, serial>>

\* The end of COM1::COM1: the thread starts, with IER still 0.
StartReader ==
  /\ at = "reader_thread"
  /\ \/ at' = "table" /\ reader' = "read" /\ UNCHANGED <<n, tty>>
     \/ "new" \in Faults /\ Abort /\ UNCHANGED reader
  /\ UNCHANGED <<limits, machine, DATA_AVL>>

-----------------------------------------------------------------------------
(***************************************************************************)
(* The table.  A function in it returns 0, -errno, or 1.                   *)
(***************************************************************************)

\* Plausible bug: only an error other than -1 ends the loop.
EndsInit_BelowMinusOne(r) == r < -1

\* initMachine gives up on a negative result, and on nothing else.
EndsInit(r) == r < 0

\* The function initMachine is in returns r.
Returns(r) ==
  IF EndsInit(r) THEN Exit
  ELSE /\ IF n = Len(initmachine_func)
          THEN at' = "initRAM" /\ UNCHANGED n
          ELSE n' = n + 1 /\ UNCHANGED at
       /\ UNCHANGED tty

In(f) == at = "table" /\ initmachine_func[n] = f

CallOnce(f) ==
  /\ In(f)
  /\ \/ Returns(0) /\ done' = done \cup {f}
     \/ f \in Faults \ {"initPIOHandler"} /\ Returns(-1) /\ UNCHANGED done
  /\ UNCHANGED <<limits, i, created, regs, sregs, serial>>

\* Plausible bug: the loop goes one vCPU too far.
LastVcpu_OneBeyond == i = vcpu_num

LastVcpu == i + 1 = vcpu_num

\* The end of an iteration over the vCPUs that has succeeded.
NextVcpu ==
  /\ i' = IF LastVcpu THEN 0 ELSE i + 1
  /\ IF LastVcpu THEN Returns(0) ELSE UNCHANGED <<at, n, tty>>

\* What Vcpu::Vcpu, InitRegs and InitSregs do when they succeed.
Vcpu      == created' = created \cup {i}
InitRegs  == regs' = regs \cup {i}
InitSregs == sregs' = sregs \cup {i}

\* The ioctl may fail, the constructor may throw; the vCPUs before i stay.
createVcpu ==
  /\ In("createVcpu")
  /\ \/ Vcpu /\ NextVcpu
     \/ "createVcpu" \in Faults /\ Returns(-1) /\ UNCHANGED <<created, i>>
     \/ "new" \in Faults /\ Abort /\ UNCHANGED <<created, i>>
  /\ UNCHANGED <<limits, done, regs, sregs, serial>>

\* A failure leaves the loop, and returns 1.
initVcpuRegs ==
  /\ In("initVcpuRegs")
  /\ \/ InitRegs /\ NextVcpu
     \/ "initVcpuRegs" \in Faults /\ Returns(1) /\ i' = 0 /\ UNCHANGED regs
  /\ UNCHANGED <<limits, done, created, sregs, serial>>

initVcpuSregs ==
  /\ In("initVcpuSregs")
  /\ \/ InitSregs /\ NextVcpu
     \/ "initVcpuSregs" \in Faults /\ Returns(1) /\ i' = 0 /\ UNCHANGED sregs
  /\ UNCHANGED <<limits, done, created, regs, serial>>

-----------------------------------------------------------------------------
(***************************************************************************)
(* After initMachine                                                       *)
(***************************************************************************)

initRAM ==
  /\ at = "initRAM"
  /\ \/ at' = "running" /\ done' = done \cup {"initRAM"} /\ UNCHANGED <<n, tty>>
     \/ "initRAM" \in Faults /\ Exit /\ UNCHANGED done
  /\ UNCHANGED <<limits, i, created, regs, sregs, serial>>

\* VM::Boot returns when every vCPU has stopped (module VcpuRun), and main with it.
BootReturns ==
  /\ at = "running"
  /\ Exit /\ UNCHANGED <<limits, machine, serial>>

\* A vCPU thread cannot be made: an exception as well, with the guest running.
BootThrows ==
  /\ at = "running" /\ "new" \in Faults
  /\ Abort /\ UNCHANGED <<limits, machine, serial>>

-----------------------------------------------------------------------------
(***************************************************************************)
(* The reader thread and the guest, beside main                            *)
(***************************************************************************)

ProcessLives == at \notin {"exited", "aborted"}

\* Plausible bug: the reader notifies without asking whether anybody wants it.
KeyTyped_AlwaysFlaps ==
  /\ ProcessLives /\ reader = "read"
  /\ reader' = "flap"
  /\ UNCHANGED <<mainVars, DATA_AVL>>

\* A key is typed and queued: flapIRQLine only if the guest has enabled DATA_AVL.
KeyTyped ==
  /\ ProcessLives /\ reader = "read"
  /\ reader' = IF DATA_AVL THEN "flap" ELSE "read"
  /\ UNCHANGED <<mainVars, DATA_AVL>>

FlapReturns ==
  /\ ProcessLives /\ reader = "flap"
  /\ reader' = "read"
  /\ UNCHANGED <<mainVars, DATA_AVL>>

\* The guest writes IER.
WriteIER ==
  /\ at = "running"
  /\ DATA_AVL' \in BOOLEAN
  /\ UNCHANGED <<mainVars, reader>>

Next ==
  \/ KeyTyped \/ FlapReturns \/ WriteIER
  \/ GetKVMFDFails \/ ConstructKVM \/ kvmCreateVM \/ ConstructVM \/ AddIODevs \/ StartReader
  \/ \E f \in OneCall : CallOnce(f)
  \/ createVcpu \/ initVcpuRegs \/ initVcpuSregs
  \/ initRAM \/ BootReturns \/ BootThrows

Spec == Init /\ [][Next]_vars

-----------------------------------------------------------------------------
(***************************************************************************)
(* Properties                                                              *)
(***************************************************************************)

\* Types; initMachine is never beyond its table, nor a loop beyond the vCPUs.
TypeOK ==
  /\ at \in {"main", "kvmCreateVM", "VM", "addIODev", "reader_thread", "table", "initRAM",
             "running", "exited", "aborted"}
  /\ n \in DOMAIN initmachine_func
  /\ limits \in Nat \X Nat
  /\ done \subseteq OneCall \cup {"initRAM"}
  /\ i \in VCPUs
  /\ created \subseteq VCPUs /\ regs \subseteq VCPUs /\ sregs \subseteq VCPUs
  /\ terminal \in {"none", "cooked", "raw"}
  /\ restore \in BOOLEAN
  /\ reader \in {"none", "read", "flap"}
  /\ DATA_AVL \in BOOLEAN

\* What KVM asks of the order of the calls (Documentation/virt/kvm/api.rst):
\* a vCPU created before the interrupt controller has no local APIC, the TSS
\* and the identity map page must be placed before a vCPU exists, the PIT is
\* wired to the interrupt controller, memory is mapped before it is given to
\* the guest, and only an existing vCPU has registers.
KVMOrder ==
  /\ created # {} => {"setTSSAddr", "setIdentityMapAddr", "createIRQChip"} \subseteq done
  /\ "createPIT2" \in done => "createIRQChip" \in done
  /\ "setUserMemRegion" \in done => "allocGuestRAM" \in done
  /\ regs \cup sregs \subseteq created

\* The guest runs only with every part of the machine but the vCPUs' registers in
\* place, and every vCPU object complete: an error that a function of the table
\* reports as -errno ends initMachine.  initVcpuRegs and initVcpuSregs report
\* theirs as 1 and are let through, which is RegistersSet.
RunsComplete ==
  at = "running" => done = OneCall \cup {"initRAM"} /\ created = VCPUs

\* COM1's constructor starts the reader thread before initMachine has created
\* the interrupt controller: a key typed during the bring-up must not reach
\* KVM_IRQ_LINE before there is one, nor before the machine is complete.
LineNeedsMachine == reader = "flap" => done = OneCall \cup {"initRAM"}

\* src/main.cpp:41-42 takes a failure of initMachine for fatal, and its message
\* at src/vm.cpp:277 is "success": the guest runs on vCPUs with registers only.
RegistersSet == at = "running" => regs = VCPUs /\ sregs = VCPUs

\* A process that returns from main leaves the terminal as it found it,
\* wherever it failed.
TerminalRestored == at = "exited" => terminal # "raw"

\* The message of src/kvm.cpp:81-85: "Assume KVM.hard_vcpus_limit =
\* KVM.soft_vcpus_limit", when the host reports no hard limit.
HardLimitAssumed == at = "kvmCreateVM" => limits[2] >= limits[1]

=============================================================================
