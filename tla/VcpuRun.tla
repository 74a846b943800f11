------------------------------ MODULE VcpuRun ------------------------------
(***************************************************************************)
(* VM::Boot and the run loop of each vCPU thread (src/vcpu.cpp): Run is    *)
(* the KVM_RUN ioctl, RunOnce acts on the exit reason it finds in the run  *)
(* page, RunLoop goes round until RunOnce returns something else than 0.   *)
(*                                                                         *)
(* KVM and the guest are external: KVM_RUN may exit for any of the         *)
(* reasons the code tells apart.  When the ioctl fails the run page keeps  *)
(* the exit reason of an earlier exit, except for EINTR, for which KVM     *)
(* stores KVM_EXIT_INTR; and EAGAIN comes back only from a vCPU that still *)
(* waits for its startup interrupt.  What RunOnce reads in no later step   *)
(* (run->io, a member of a union, after an exit for something else; the    *)
(* index of a finished loop) is put back to its initial value.             *)
(***************************************************************************)
EXTENDS PioTable

CONSTANTS
  VCPUs,
  BootVcpu,      \* the one the guest starts on; the others wait to be started
  Ports,         \* the ports the guest uses
  Sizes,         \* its operand sizes
  MaxCount,      \* bound: iterations of a string instruction in one exit
  KvmErrors,     \* how KVM_RUN may fail: of {"EINTR", "EAGAIN", "fatal"}
  GuestDebug,    \* built with -DGUEST_DEBUG
  RcMax          \* rc_max of the debug build: single steps before giving up

ASSUME VcpuRunAssumption ==
  /\ BootVcpu \in VCPUs
  /\ Ports \subseteq 0 .. PIO_PORT_NUM - 1
  /\ MaxCount \in Nat \ {0} /\ RcMax \in Nat
  /\ KvmErrors \subseteq {"EINTR", "EAGAIN", "fatal"}
  /\ GuestDebug \in BOOLEAN

VARIABLES
  pc,        \* where each vCPU thread is
  reason,    \* run->exit_reason
  io,        \* run->io, while the exit reason is I/O
  iter,      \* the loop index i of RunOnce
  rc,        \* debug build: single steps so far
  started,   \* whether the guest has started the vCPU
  main,      \* where VM::Boot is
  threads,   \* the threads it has made, in order, by the vCPU each runs
  joined,    \* how many of them it has joined
  calls,     \* history: handler calls made for the last I/O instruction
  failed     \* history: KVM_RUN has failed for good

vars == <<pc, reason, io, iter, rc, started, main, threads, joined, calls, failed>>

Reasons == {"UNKNOWN", "INTR", "DEBUG", "HLT", "IO", "MMIO", "other"}
IO == [port : Ports, dir : {"in", "out"}, size : Sizes, count : 1 .. MaxCount]
noIO == [port |-> 0, dir |-> "in", size |-> 1, count |-> 0]

Init ==
  /\ pc      = [v \in VCPUs |-> "created"]
  /\ reason  = [v \in VCPUs |-> "UNKNOWN"]        \* the run page is zeroed
  /\ io      = [v \in VCPUs |-> noIO]
  /\ iter    = [v \in VCPUs |-> 0]
  /\ rc      = [v \in VCPUs |-> 0]
  /\ started = [v \in VCPUs |-> v = BootVcpu]
  /\ main    = "spawning"
  /\ threads = << >> /\ joined = 0
  /\ calls   = [v \in VCPUs |-> 0]
  /\ failed  = [v \in VCPUs |-> FALSE]

-----------------------------------------------------------------------------
(***************************************************************************)
(* VM::Boot                                                                *)
(***************************************************************************)

\* The boot vCPU is the first; the others, which are alike, come in any order.
Spawn(v) ==
  /\ main = "spawning" /\ pc[v] = "created"
  /\ threads = << >> => v = BootVcpu
  /\ threads' = Append(threads, v)
  /\ pc' = [pc EXCEPT ![v] = "run"]
  /\ main' = IF \E w \in VCPUs \ {v} : pc[w] = "created" THEN "spawning" ELSE "joining"
  /\ UNCHANGED <<reason, io, iter, rc, started, joined, calls, failed>>

\* No thread can be made: std::thread throws, nobody catches it, and the process
\* ends with all the threads it has.
SpawnFails ==
  /\ main = "spawning"
  /\ main' = "terminated"
  /\ UNCHANGED <<pc, reason, io, iter, rc, started, threads, joined, calls, failed>>

Alive == main # "terminated"

\* One iteration of the second loop: join blocks until that thread has ended.
JoinThread ==
  /\ main = "joining" /\ joined < Len(threads)
  /\ pc[threads[joined + 1]] = "stopped"
  /\ joined' = joined + 1
  /\ UNCHANGED <<pc, reason, io, iter, rc, started, main, threads, calls, failed>>

\* Plausible bug: the loop leaves the last thread out.
AllJoined_ButOne == joined + 1 = Len(threads)

AllJoined == joined = Len(threads)

BootReturns ==
  /\ main = "joining" /\ AllJoined
  /\ main' = "returned"
  /\ UNCHANGED <<pc, reason, io, iter, rc, started, threads, joined, calls, failed>>

Boot == SpawnFails \/ JoinThread \/ BootReturns

-----------------------------------------------------------------------------
(***************************************************************************)
(* Vcpu::Run: its result is not looked at, so every outcome goes on to the *)
(* switch of RunOnce.                                                      *)
(***************************************************************************)

RunReturns(v) ==
  /\ pc[v] = "run"
  /\ pc' = [pc EXCEPT ![v] = "switch"]
  /\ UNCHANGED <<rc, main, threads, joined>>

\* There is no I/O instruction to handle any more.
NoIO(v) ==
  /\ io' = [io EXCEPT ![v] = noIO]
  /\ calls' = [calls EXCEPT ![v] = 0]

\* The guest exits for another reason than I/O.
Exits(v) == \E x \in Reasons \ {"UNKNOWN", "IO"} :
  /\ started[v]
  /\ RunReturns(v)
  /\ reason' = [reason EXCEPT ![v] = x]
  /\ NoIO(v)
  /\ UNCHANGED <<iter, started, failed>>

\* The guest executes an IN or OUT.
ExitsForIO(v) == \E x \in IO :
  /\ started[v]
  /\ RunReturns(v)
  /\ reason' = [reason EXCEPT ![v] = "IO"]
  /\ io' = [io EXCEPT ![v] = x]
  /\ calls' = [calls EXCEPT ![v] = 0]
  /\ UNCHANGED <<iter, started, failed>>

Interrupted(v) ==
  /\ "EINTR" \in KvmErrors
  /\ RunReturns(v)
  /\ reason' = [reason EXCEPT ![v] = "INTR"]
  /\ NoIO(v)
  /\ UNCHANGED <<iter, started, failed>>

\* The guest starts a waiting vCPU, whose KVM_RUN then returns EAGAIN once.
NotYetStarted(v) ==
  /\ "EAGAIN" \in KvmErrors
  /\ ~started[v]
  /\ RunReturns(v)
  /\ started' = [started EXCEPT ![v] = TRUE]
  /\ UNCHANGED <<reason, io, iter, calls, failed>>

\* Any other errno: "cannot recover", and -errno is returned.
RunFails(v) ==
  /\ "fatal" \in KvmErrors
  /\ RunReturns(v)
  /\ failed' = [failed EXCEPT ![v] = TRUE]
  /\ UNCHANGED <<reason, io, iter, started, calls>>

-----------------------------------------------------------------------------
(***************************************************************************)
(* RunOnce and RunLoop                                                     *)
(***************************************************************************)

\* Plausible bug: the zero of a fresh run page is treated as an unexpected exit.
Keeps_UnknownStops(v) == reason[v] = "INTR"

\* RunOnce returns 0 without doing anything.
Keeps(v) == reason[v] \in {"UNKNOWN", "INTR"}

Continue(v) ==
  /\ pc[v] = "switch" /\ Keeps(v)
  /\ pc' = [pc EXCEPT ![v] = "run"]
  /\ UNCHANGED <<reason, io, iter, rc, started, main, threads, joined, calls, failed>>

StartIO(v) ==
  /\ pc[v] = "switch" /\ reason[v] = "IO"
  /\ pc' = [pc EXCEPT ![v] = "io"]
  /\ UNCHANGED <<reason, io, iter, rc, started, main, threads, joined, calls, failed>>

\* Plausible bug: one iteration too many.
MoreIterations_OffByOne(v) == iter[v] <= io[v].count

MoreIterations(v) == iter[v] < io[v].count

\* Plausible bug: the loop repeats its first iteration.
NextIteration_Same(v) == iter[v]

NextIteration(v) == iter[v] + 1

\* The handler is called, every time with the same data pointer.  The history
\* counts up to one call too many.
CallHandler(v) == \E r \in Results(io[v].port, io[v].dir, io[v].size) :
  /\ pc[v] = "io" /\ MoreIterations(v)
  /\ calls' = [calls EXCEPT ![v] = IF @ > MaxCount THEN @ ELSE @ + 1]
  /\ iter' = [iter EXCEPT ![v] = IF r = 0 THEN NextIteration(v) ELSE 0]
  /\ pc' = [pc EXCEPT ![v] = IF r = 0 THEN "io" ELSE "stopped"]
  /\ UNCHANGED <<reason, io, rc, started, main, threads, joined, failed>>

EndIO(v) ==
  /\ pc[v] = "io" /\ ~MoreIterations(v)
  /\ pc' = [pc EXCEPT ![v] = "run"]
  /\ iter' = [iter EXCEPT ![v] = 0]
  /\ UNCHANGED <<reason, io, rc, started, main, threads, joined, calls, failed>>

\* Plausible bug: one single step more than rc_max.
StepsLeft_OffByOne(v) == rc[v] <= RcMax

StepsLeft(v) == rc[v] < RcMax

\* A debug exit of the debug build: traced, and the vCPU goes on.
SingleStep(v) ==
  /\ pc[v] = "switch" /\ reason[v] = "DEBUG"
  /\ GuestDebug /\ StepsLeft(v)
  /\ rc' = [rc EXCEPT ![v] = @ + 1]
  /\ pc' = [pc EXCEPT ![v] = "run"]
  /\ UNCHANGED <<reason, io, iter, started, main, threads, joined, calls, failed>>

\* The registers are dumped and the thread ends; whether the dump fails or not
\* makes no difference to anybody.
Stop(v) ==
  /\ pc[v] = "switch"
  /\ reason[v] # "IO" /\ ~Keeps(v)
  /\ ~(reason[v] = "DEBUG" /\ GuestDebug /\ StepsLeft(v))
  /\ pc' = [pc EXCEPT ![v] = "stopped"]
  /\ UNCHANGED <<reason, io, iter, rc, started, main, threads, joined, calls, failed>>

\* What the thread does outside the guest.
HostStep(v) ==
  /\ Alive
  /\ \/ Continue(v) \/ StartIO(v) \/ CallHandler(v) \/ EndIO(v)
     \/ SingleStep(v) \/ Stop(v)

KvmRun(v) ==
  /\ Alive
  /\ \/ Exits(v) \/ ExitsForIO(v) \/ Interrupted(v) \/ NotYetStarted(v) \/ RunFails(v)

Next ==
  \/ Boot
  \/ \E v \in VCPUs : Spawn(v) \/ KvmRun(v) \/ HostStep(v)

\* The threads keep running; the guest may compute for ever.
Fairness ==
  /\ WF_vars(JoinThread) /\ WF_vars(BootReturns)
  /\ \A v \in VCPUs : WF_vars(Spawn(v)) /\ WF_vars(HostStep(v))

Spec == Init /\ [][Next]_vars /\ Fairness

-----------------------------------------------------------------------------
(***************************************************************************)
(* Properties                                                              *)
(***************************************************************************)

BootTypeOK ==
  /\ main \in {"spawning", "joining", "returned", "terminated"}
  /\ threads \in Seq(VCPUs) /\ joined \in 0 .. Len(threads)

\* Types; the debug build takes at most RcMax single steps.
TypeOK ==
  /\ pc \in [VCPUs -> {"created", "run", "switch", "io", "stopped"}]
  /\ reason \in [VCPUs -> Reasons]
  /\ io \in [VCPUs -> IO \cup {noIO}]
  /\ iter \in [VCPUs -> 0 .. MaxCount]
  /\ rc \in [VCPUs -> 0 .. RcMax]
  /\ started \in [VCPUs -> BOOLEAN]
  /\ BootTypeOK
  /\ calls \in [VCPUs -> 0 .. MaxCount + 1]
  /\ failed \in [VCPUs -> BOOLEAN]

\* RunOnce calls the handler once for each iteration of an I/O instruction,
\* no more, and never goes back to the guest with one left out; not after a
\* failure that Run could not recover from (CannotRecover).
HandledOnce ==
  \A v \in VCPUs : reason[v] = "IO" /\ ~failed[v] =>
    /\ calls[v] <= io[v].count
    /\ pc[v] = "run" => calls[v] = io[v].count

\* A vCPU is given up only for something the guest did: not while it waits to
\* be started, when KVM_RUN returns without an exit reason, nor for a signal.
WaitingSurvives == \A v \in VCPUs : pc[v] = "stopped" => reason[v] \notin {"UNKNOWN", "INTR"}

\* Whatever the order and the bounds of the registrations, no range hides a
\* device's port, and a write to the reset generator reaches it.
DevicesReached ==
  \A v \in VCPUs : pc[v] = "io" =>
    LET p == io[v].port
        h == Handler(p, io[v].dir)
    IN  /\ p \in \h3F8 .. \h3FF => h = "COM1"
        /\ p \in \h70 .. \h71 => h = "CMOS"
        /\ p = \hCF9 /\ io[v].dir = "out" => h = "reset"

\* VM::Boot joins its threads one after the other, in the order they were made,
\* while they stop in any order: when it returns, and the process ends with it,
\* every vCPU of the machine has had its thread and none is still running.
BootWaitsForAll == main = "returned" => \A v \in VCPUs : pc[v] = "stopped"

\* Every I/O exit is answered: the vCPU re-enters the guest or stops, unless the
\* process ends.
IOAnswered == \A v \in VCPUs : pc[v] = "io" ~> pc[v] \in {"run", "stopped"} \/ ~Alive

\* The message of src/vcpu.cpp:421, "cannot recover": a vCPU whose KVM_RUN has
\* failed with an errno other than EAGAIN and EINTR serves the guest no more.
CannotRecover == \A v \in VCPUs : failed[v] => pc[v] \in {"switch", "stopped"}

=============================================================================
