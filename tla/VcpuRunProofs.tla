--------------------------- MODULE VcpuRunProofs ---------------------------
(***************************************************************************)
(* For any number of vCPUs, any ports and string instructions of any       *)
(* length: what is proved of the run loop and of VM::Boot.                 *)
(***************************************************************************)
EXTENDS VcpuRun, TLAPS

-----------------------------------------------------------------------------
(***************************************************************************)
(* Type correctness                                                        *)
(***************************************************************************)

LEMMA TypeInit == Init => TypeOK
<1> SUFFICES ASSUME Init PROVE TypeOK
  OBVIOUS
<1>1. 0 \in 0 .. MaxCount /\ 0 \in 0 .. RcMax /\ 0 \in 0 .. MaxCount + 1
  BY VcpuRunAssumption
<1>2. QED BY <1>1 DEF Init, TypeOK, BootTypeOK, Reasons

LEMMA BootTypeKept == BootTypeOK /\ UNCHANGED <<main, threads, joined>> => BootTypeOK'
  BY DEF BootTypeOK

LEMMA TypeKvmRun == ASSUME NEW v \in VCPUs, TypeOK, KvmRun(v) PROVE TypeOK'
<1> USE DEF TypeOK
<1>1. 0 \in 0 .. MaxCount + 1
  BY VcpuRunAssumption
<1>2. CASE Exits(v) \/ Interrupted(v)
  BY <1>1, <1>2, BootTypeKept DEF Exits, Interrupted, RunReturns, NoIO, Reasons
<1>3. CASE ExitsForIO(v)
  BY <1>1, <1>3, BootTypeKept DEF ExitsForIO, RunReturns, Reasons
<1>4. CASE NotYetStarted(v) \/ RunFails(v)
  BY <1>4, BootTypeKept DEF NotYetStarted, RunFails, RunReturns
<1>5. QED BY <1>2, <1>3, <1>4 DEF KvmRun

LEMMA TypeCallHandler == ASSUME NEW v \in VCPUs, TypeOK, CallHandler(v) PROVE TypeOK'
<1> USE DEF TypeOK
<1>1. PICK r \in Results(io[v].port, io[v].dir, io[v].size) :
        /\ pc[v] = "io" /\ MoreIterations(v)
        /\ calls' = [calls EXCEPT ![v] = IF @ > MaxCount THEN @ ELSE @ + 1]
        /\ iter' = [iter EXCEPT ![v] = IF r = 0 THEN NextIteration(v) ELSE 0]
        /\ pc' = [pc EXCEPT ![v] = IF r = 0 THEN "io" ELSE "stopped"]
        /\ UNCHANGED <<reason, io, rc, started, main, threads, joined, failed>>
  BY DEF CallHandler
<1>2. io[v].count \in 0 .. MaxCount
  BY VcpuRunAssumption DEF IO, noIO
<1>3. NextIteration(v) \in 0 .. MaxCount /\ 0 \in 0 .. MaxCount
  BY <1>1, <1>2, VcpuRunAssumption DEF MoreIterations, NextIteration
<1>4. iter' \in [VCPUs -> 0 .. MaxCount]
  BY <1>1, <1>3
<1>5. calls' \in [VCPUs -> 0 .. MaxCount + 1]
  BY <1>1, VcpuRunAssumption
<1>6. QED BY <1>1, <1>4, <1>5, BootTypeKept

LEMMA TypeHostStep == ASSUME NEW v \in VCPUs, TypeOK, HostStep(v) PROVE TypeOK'
<1> USE DEF TypeOK
<1>1. CASE Continue(v) \/ StartIO(v) \/ Stop(v)
  BY <1>1, BootTypeKept DEF Continue, StartIO, Stop
<1>2. CASE EndIO(v)
  BY <1>2, BootTypeKept, VcpuRunAssumption DEF EndIO
<1>3. CASE SingleStep(v)
  BY <1>3, BootTypeKept, VcpuRunAssumption DEF SingleStep, StepsLeft
<1>4. QED BY <1>1, <1>2, <1>3, TypeCallHandler DEF HostStep

LEMMA TypeNext == TypeOK /\ [Next]_vars => TypeOK'
<1> SUFFICES ASSUME TypeOK, [Next]_vars PROVE TypeOK'
  OBVIOUS
<1>1. CASE Boot
  BY <1>1 DEF Boot, SpawnFails, JoinThread, BootReturns, TypeOK, BootTypeOK
<1>2. ASSUME NEW v \in VCPUs, Spawn(v) PROVE TypeOK'
  <2>1. threads' \in Seq(VCPUs) /\ Len(threads') = Len(threads) + 1
    BY <1>2 DEF Spawn, TypeOK, BootTypeOK
  <2>2. joined' \in 0 .. Len(threads')
    BY <1>2, <2>1 DEF Spawn, TypeOK, BootTypeOK
  <2>3. BootTypeOK'
    BY <1>2, <2>1, <2>2 DEF Spawn, BootTypeOK
  <2>4. QED BY <1>2, <2>3 DEF Spawn, TypeOK
<1>3. CASE UNCHANGED vars
  BY <1>3, BootTypeKept DEF vars, TypeOK
<1>4. QED BY <1>1, <1>2, <1>3, TypeKvmRun, TypeHostStep DEF Next

\* The loop index stays within the string instruction and the single steps
\* within rc_max.
THEOREM TypeCorrect == Spec => []TypeOK
  BY TypeInit, TypeNext, PTL DEF Spec

-----------------------------------------------------------------------------
(***************************************************************************)
(* The run loop                                                            *)
(***************************************************************************)

\* How many calls an I/O instruction has had, at each place of the loop.
CallsMade(v) ==
  /\ pc[v] = "switch"  => calls[v] = 0
  /\ pc[v] = "io"      => calls[v] = iter[v] /\ iter[v] <= io[v].count
  /\ pc[v] = "run"     => calls[v] = io[v].count
  /\ pc[v] = "stopped" => calls[v] <= io[v].count

\* A vCPU is in the I/O loop for an I/O exit only, has made none before it is
\* spawned or started, and stops for none of the reasons that keep it going.
LoopInv(v) ==
  /\ pc[v] = "io" => reason[v] = "IO"
  /\ pc[v] # "io" => iter[v] = 0
  /\ pc[v] = "created" => reason[v] = "UNKNOWN"
  /\ ~started[v] => reason[v] \in {"UNKNOWN", "INTR"}
  /\ pc[v] = "stopped" => reason[v] \notin {"UNKNOWN", "INTR"}
  /\ reason[v] = "IO" => io[v] \in IO
  /\ reason[v] = "IO" /\ ~failed[v] => CallsMade(v)

RunInv == TypeOK /\ \A v \in VCPUs : LoopInv(v)

LEMMA LoopInit == Init => \A v \in VCPUs : LoopInv(v)
  BY DEF Init, LoopInv

\* A step of one vCPU leaves the others alone.
LEMMA OthersKeep ==
  ASSUME NEW v \in VCPUs, NEW w \in VCPUs, v # w, TypeOK,
         Spawn(v) \/ KvmRun(v) \/ HostStep(v), LoopInv(w)
  PROVE  LoopInv(w)'
<1> SUFFICES /\ pc'[w] = pc[w] /\ reason'[w] = reason[w] /\ io'[w] = io[w]
             /\ iter'[w] = iter[w] /\ started'[w] = started[w]
             /\ calls'[w] = calls[w] /\ failed'[w] = failed[w]
  BY DEF LoopInv, CallsMade
<1> USE DEF TypeOK
<1>1. CASE Spawn(v)
  BY <1>1 DEF Spawn
<1>2. CASE KvmRun(v)
  BY <1>2 DEF KvmRun, Exits, ExitsForIO, Interrupted, NotYetStarted, RunFails, RunReturns,
              NoIO
<1>3. CASE HostStep(v)
  BY <1>3 DEF HostStep, Continue, StartIO, CallHandler, EndIO, SingleStep, Stop
<1>4. QED BY <1>1, <1>2, <1>3

LEMMA LoopKvmRun ==
  ASSUME NEW v \in VCPUs, TypeOK, LoopInv(v), KvmRun(v)
  PROVE  LoopInv(v)'
<1> USE DEF TypeOK, LoopInv
<1>1. CASE Exits(v) \/ Interrupted(v)
  BY <1>1 DEF Exits, Interrupted, RunReturns, NoIO, Reasons
<1>2. CASE ExitsForIO(v)
  BY <1>2 DEF ExitsForIO, RunReturns, CallsMade
<1>3. CASE NotYetStarted(v)
  BY <1>3 DEF NotYetStarted, RunReturns
<1>4. CASE RunFails(v)
  BY <1>4 DEF RunFails, RunReturns
<1>5. QED BY <1>1, <1>2, <1>3, <1>4 DEF KvmRun

LEMMA LoopCallHandler ==
  ASSUME NEW v \in VCPUs, TypeOK, LoopInv(v), CallHandler(v)
  PROVE  LoopInv(v)'
<1> USE DEF TypeOK, LoopInv
<1>1. /\ pc[v] = "io" /\ reason[v] = "IO" /\ iter[v] < io[v].count
      /\ io'[v] = io[v] /\ reason'[v] = reason[v] /\ started'[v] = started[v]
      /\ failed'[v] = failed[v]
      /\ calls'[v] = IF calls[v] > MaxCount THEN calls[v] ELSE calls[v] + 1
      /\ \/ pc'[v] = "io" /\ iter'[v] = iter[v] + 1
         \/ pc'[v] = "stopped" /\ iter'[v] = 0
  BY DEF CallHandler, MoreIterations, NextIteration
<1>2. io[v].count \in Nat /\ io[v].count <= MaxCount /\ io[v] \in IO
  BY <1>1, VcpuRunAssumption DEF IO
<1>3. iter[v] \in Nat /\ calls[v] \in Nat /\ MaxCount \in Nat
  BY VcpuRunAssumption
<1>4. ~failed[v] => CallsMade(v)'
  BY <1>1, <1>2, <1>3 DEF CallsMade
<1>5. QED BY <1>1, <1>2, <1>4

LEMMA LoopHostStep ==
  ASSUME NEW v \in VCPUs, TypeOK, LoopInv(v), HostStep(v)
  PROVE  LoopInv(v)'
<1> USE DEF TypeOK, LoopInv
<1>1. CASE Continue(v)
  BY <1>1 DEF Continue, Keeps
<1>2. CASE StartIO(v)
  BY <1>2, VcpuRunAssumption DEF StartIO, CallsMade, IO
<1>3. CASE EndIO(v)
  <2>1. reason[v] = "IO" /\ io[v].count \in Nat /\ iter[v] \in Nat
    BY <1>3, VcpuRunAssumption DEF EndIO, IO
  <2>2. QED BY <1>3, <2>1 DEF EndIO, MoreIterations, CallsMade
<1>4. CASE SingleStep(v)
  BY <1>4 DEF SingleStep
<1>5. CASE Stop(v)
  BY <1>5 DEF Stop, Keeps
<1>6. QED BY <1>1, <1>2, <1>3, <1>4, <1>5, LoopCallHandler DEF HostStep

LEMMA RunNext == RunInv /\ [Next]_vars => RunInv'
<1> SUFFICES ASSUME RunInv, [Next]_vars, NEW w \in VCPUs PROVE LoopInv(w)'
  BY TypeNext DEF RunInv
<1> USE DEF RunInv
<1>1. CASE Boot \/ UNCHANGED vars
  BY <1>1 DEF Boot, SpawnFails, JoinThread, BootReturns, vars, LoopInv, CallsMade
<1>2. ASSUME NEW v \in VCPUs, Spawn(v) \/ KvmRun(v) \/ HostStep(v) PROVE LoopInv(w)'
  <2>1. CASE v # w
    BY <1>2, <2>1, OthersKeep
  <2>2. CASE v = w /\ Spawn(v)
    BY <2>2 DEF Spawn, LoopInv, TypeOK
  <2>3. QED BY <1>2, <2>1, <2>2, LoopKvmRun, LoopHostStep
<1>3. QED BY <1>1, <1>2 DEF Next

LEMMA AlwaysRunInv == Spec => []RunInv
<1>1. Init => RunInv
  BY TypeInit, LoopInit DEF RunInv
<1>2. QED BY <1>1, RunNext, PTL DEF Spec

\* One call of the handler for each iteration, for strings of any length.
THEOREM AlwaysHandledOnce == Spec => []HandledOnce
<1>1. RunInv => HandledOnce
  <2> SUFFICES ASSUME RunInv, NEW v \in VCPUs, reason[v] = "IO", ~failed[v]
               PROVE  /\ calls[v] <= io[v].count
                      /\ pc[v] = "run" => calls[v] = io[v].count
    BY DEF HandledOnce
  <2>1. io[v].count \in Nat /\ iter[v] \in Nat
    BY VcpuRunAssumption DEF RunInv, LoopInv, IO, TypeOK
  <2>2. pc[v] \in {"created", "run", "switch", "io", "stopped"} /\ LoopInv(v)
    BY DEF RunInv, TypeOK
  <2>3. pc[v] # "created" /\ CallsMade(v)
    BY <2>2 DEF LoopInv
  <2>4. QED BY <2>1, <2>2, <2>3 DEF CallsMade
<1>2. QED BY <1>1, AlwaysRunInv, PTL

\* A signal or the wait for a startup interrupt never ends a vCPU thread.
THEOREM WaitingAlwaysSurvives == Spec => []WaitingSurvives
<1>1. RunInv => WaitingSurvives
  BY DEF RunInv, LoopInv, WaitingSurvives
<1>2. QED BY <1>1, AlwaysRunInv, PTL

-----------------------------------------------------------------------------
(***************************************************************************)
(* VM::Boot                                                                *)
(***************************************************************************)

\* Why joining the threads in order is enough: every vCPU that has left its
\* initial state is the one of some thread, a thread that has been joined has
\* ended and stays so, and the join loop begins when no vCPU is left to be given
\* a thread.
BootInv ==
  /\ \A v \in VCPUs : pc[v] # "created" => \E i \in 1 .. Len(threads) : threads[i] = v
  /\ \A i \in 1 .. joined : pc[threads[i]] = "stopped"
  /\ main \in {"joining", "returned"} => \A v \in VCPUs : pc[v] # "created"
  /\ main = "returned" => joined = Len(threads)

\* A step of a vCPU thread neither makes a thread, nor revives one, nor joins one.
LEMMA ThreadSteps ==
  ASSUME TypeOK, NEW v \in VCPUs, KvmRun(v) \/ HostStep(v)
  PROVE  /\ threads' = threads /\ joined' = joined /\ main' = main
         /\ \A w \in VCPUs : /\ pc[w] = "stopped" => pc'[w] = "stopped"
                             /\ pc'[w] = "created" <=> pc[w] = "created"
<1> USE DEF TypeOK
<1>1. CASE KvmRun(v)
  BY <1>1 DEF KvmRun, Exits, ExitsForIO, Interrupted, NotYetStarted, RunFails, RunReturns
<1>2. CASE HostStep(v)
  BY <1>2 DEF HostStep, Continue, StartIO, CallHandler, EndIO, SingleStep, Stop
<1>3. QED BY <1>1, <1>2

LEMMA BootSpawn == ASSUME TypeOK, BootInv, NEW v \in VCPUs, Spawn(v) PROVE BootInv'
<1> USE DEF BootInv
<1>1. /\ Len(threads') = Len(threads) + 1 /\ threads'[Len(threads) + 1] = v
      /\ \A i \in 1 .. Len(threads) : threads'[i] = threads[i]
      /\ joined' = joined /\ joined \in 0 .. Len(threads) /\ Len(threads) \in Nat
  BY DEF Spawn, TypeOK, BootTypeOK
<1>2. /\ pc[v] = "created" /\ pc'[v] = "run"
      /\ \A w \in VCPUs \ {v} : pc'[w] = pc[w]
  BY DEF Spawn, TypeOK
<1>3. ASSUME NEW w \in VCPUs, pc'[w] # "created"
      PROVE  \E i \in 1 .. Len(threads') : threads'[i] = w
  <2>1. CASE w = v
    BY <1>1, <2>1
  <2>2. CASE w # v
    <3>1. PICK i \in 1 .. Len(threads) : threads[i] = w
      BY <1>2, <1>3, <2>2
    <3>2. QED BY <1>1, <3>1
  <2>3. QED BY <2>1, <2>2
<1>4. ASSUME NEW i \in 1 .. joined PROVE pc'[threads'[i]] = "stopped"
  <2>1. i \in 1 .. Len(threads) /\ threads[i] \in VCPUs /\ threads'[i] = threads[i]
    BY <1>1 DEF TypeOK, BootTypeOK
  <2>2. pc[threads[i]] = "stopped"
    OBVIOUS
  <2>3. QED BY <1>2, <2>1, <2>2
<1>5. main' = "joining" => \A w \in VCPUs : pc'[w] # "created"
  BY <1>2 DEF Spawn
<1>6. main' \in {"spawning", "joining"}
  BY DEF Spawn
<1>7. QED BY <1>1, <1>3, <1>4, <1>5, <1>6

LEMMA BootNext == TypeOK /\ BootInv /\ [Next]_vars => BootInv'
<1> SUFFICES ASSUME TypeOK, BootInv, [Next]_vars PROVE BootInv'
  OBVIOUS
<1>1. CASE SpawnFails \/ BootReturns \/ UNCHANGED vars
  BY <1>1 DEF SpawnFails, BootReturns, AllJoined, vars, BootInv
<1>2. CASE JoinThread
  <2>1. joined \in Nat /\ joined' = joined + 1 /\ pc[threads[joined + 1]] = "stopped"
    BY <1>2 DEF JoinThread, TypeOK, BootTypeOK
  <2>2. \A i \in 1 .. joined' : i \in 1 .. joined \/ i = joined + 1
    BY <2>1
  <2>3. QED BY <1>2, <2>1, <2>2 DEF JoinThread, BootInv
<1>3. ASSUME NEW v \in VCPUs, KvmRun(v) \/ HostStep(v) PROVE BootInv'
  <2>1. \A i \in 1 .. joined : threads[i] \in VCPUs
    BY DEF TypeOK, BootTypeOK
  <2>2. QED BY <1>3, <2>1, ThreadSteps DEF BootInv
<1>4. QED BY <1>1, <1>2, <1>3, BootSpawn DEF Next, Boot

\* The process ends after the last of its vCPU threads, however many and in
\* whatever order they stop.
THEOREM BootAlwaysWaits == Spec => []BootWaitsForAll
<1>1. Init => BootInv
  BY DEF Init, BootInv
<1>2. TypeOK /\ BootInv => BootWaitsForAll
  <2> SUFFICES ASSUME TypeOK, BootInv, main = "returned", NEW v \in VCPUs
               PROVE  pc[v] = "stopped"
    BY DEF BootWaitsForAll
  <2>1. PICK i \in 1 .. Len(threads) : threads[i] = v
    BY DEF BootInv
  <2>2. QED BY <2>1 DEF BootInv
<1>3. QED BY <1>1, <1>2, BootNext, TypeCorrect, PTL DEF Spec

-----------------------------------------------------------------------------
(***************************************************************************)
(* The port table                                                          *)
(***************************************************************************)

\* The rows a device's port could be hidden by: the last ones.
LEMMA Rows ==
  /\ Len(Registrations) = 17
  /\ Registrations[9]  = Range(3321, 3322, "default", "reset")
  /\ Registrations[10] = Ignored(3320, 3321)
  /\ Registrations[11] = Ignored(3326, 3327)
  /\ Registrations[12] = Ignored(3324, 3325)
  /\ Registrations[13] = Ignored(49152, 53248)
  /\ Registrations[14] = Ignored(96, 112)
  /\ Registrations[15] = Range(128, 288, "Post", "Post")
  /\ Registrations[16] = Range(112, 114, "CMOS", "CMOS")
  /\ Registrations[17] = Range(1016, 1024, "COM1", "COM1")
<1>1. Len(IODevs) = 3 /\ DeviceRange(IODevs[1]) = Range(128, 288, "Post", "Post")
      /\ DeviceRange(IODevs[2]) = Range(112, 114, "CMOS", "CMOS")
      /\ DeviceRange(IODevs[3]) = Range(1016, 1024, "COM1", "COM1")
  BY SMT DEF IODevs, DeviceRange, Range
<1>2. QED BY <1>1, SMT DEF Registrations, PIO_PORT_NUM

\* The last row that covers a port is the one that decides.
LEMMA LastRow ==
  ASSUME NEW port \in Nat, NEW dir, NEW k \in 1 .. 17, Covers(Registrations[k], port),
         \A j \in 1 .. 17 : Covers(Registrations[j], port) => j <= k
  PROVE  Handler(port, dir) = Registrations[k][dir]
<1> DEFINE covering == {j \in 1 .. Len(Registrations) : Covers(Registrations[j], port)}
           last == CHOOSE j \in covering : \A m \in covering : m <= j
<1>1. k \in covering /\ \A m \in covering : m <= k
  BY Rows
<1>2. last \in covering /\ \A m \in covering : m <= last
  BY <1>1
<1>3. covering \subseteq 1 .. 17
  BY Rows
<1>4. last = k
  <2> HIDE DEF last, covering
  <2>1. last \in 1 .. 17 /\ last <= k /\ k <= last
    BY <1>1, <1>2, <1>3
  <2>2. QED BY <2>1
<1>5. QED BY <1>4 DEF Handler


\* Every port of a device reaches it, and the reset generator is reached by an OUT.
LEMMA DevicePorts ==
  ASSUME NEW port \in Nat, NEW dir \in {"in", "out"}
  PROVE  /\ port \in 1016 .. 1023 => Handler(port, dir) = "COM1"
         /\ port \in 112 .. 113 => Handler(port, dir) = "CMOS"
         /\ port = 3321 /\ dir = "out" => Handler(port, dir) = "reset"
<1>1. CASE port \in 1016 .. 1023
  <2>1. Covers(Registrations[17], port)
    BY <1>1, Rows, SMT DEF Covers, Range
  <2>2. Handler(port, dir) = Registrations[17][dir]
    BY <2>1, LastRow
  <2>3. QED BY <1>1, <2>2, Rows, SMT DEF Range
<1>2. CASE port \in 112 .. 113
  <2>1. Covers(Registrations[16], port) /\ ~Covers(Registrations[17], port)
    BY <1>2, Rows, SMT DEF Covers, Range
  <2>2. \A j \in 1 .. 17 : Covers(Registrations[j], port) => j <= 16
    BY <2>1
  <2>3. Handler(port, dir) = Registrations[16][dir]
    BY <2>1, <2>2, LastRow
  <2>4. QED BY <1>2, <2>3, Rows, SMT DEF Range
<1>3. CASE port = 3321 /\ dir = "out"
  <2>1. Covers(Registrations[9], port)
    BY <1>3, Rows, SMT DEF Covers, Range
  <2>2. /\ ~Covers(Registrations[10], port) /\ ~Covers(Registrations[11], port)
        /\ ~Covers(Registrations[12], port) /\ ~Covers(Registrations[13], port)
        /\ ~Covers(Registrations[14], port) /\ ~Covers(Registrations[15], port)
        /\ ~Covers(Registrations[16], port) /\ ~Covers(Registrations[17], port)
    BY <1>3, Rows, SMT DEF Covers, Range, Ignored
  <2>3. \A j \in 1 .. 17 : Covers(Registrations[j], port) => j <= 9
    BY <2>2
  <2>4. Handler(port, dir) = Registrations[9][dir]
    BY <2>1, <2>3, LastRow
  <2>5. QED BY <1>3, <2>4, Rows, SMT DEF Range
<1>4. QED BY <1>1, <1>2, <1>3

\* No registration hides a device, whatever ports the guest uses.
THEOREM DevicesAlwaysReached == Spec => []DevicesReached
<1>1. RunInv => DevicesReached
  <2> SUFFICES ASSUME RunInv, NEW v \in VCPUs, pc[v] = "io"
               PROVE  /\ io[v].port \in \h3F8 .. \h3FF => Handler(io[v].port, io[v].dir) = "COM1"
                      /\ io[v].port \in \h70 .. \h71 => Handler(io[v].port, io[v].dir) = "CMOS"
                      /\ io[v].port = \hCF9 /\ io[v].dir = "out" =>
                           Handler(io[v].port, io[v].dir) = "reset"
    BY DEF DevicesReached
  <2>1. io[v] \in IO
    BY DEF RunInv, LoopInv
  <2>2. io[v].port \in Ports /\ io[v].dir \in {"in", "out"}
    BY <2>1 DEF IO
  <2>3. io[v].port \in Nat
    <3>1. PIO_PORT_NUM \in Nat
      BY SMT DEF PIO_PORT_NUM
    <3>2. \A p \in 0 .. PIO_PORT_NUM - 1 : p \in Nat
      BY <3>1, SMT
    <3>3. Ports \subseteq 0 .. PIO_PORT_NUM - 1
      BY VcpuRunAssumption
    <3>4. QED BY <2>2, <3>2, <3>3
  <2>4. QED BY <2>2, <2>3, DevicePorts, SMT
<1>2. QED BY <1>1, AlwaysRunInv, PTL


=============================================================================
