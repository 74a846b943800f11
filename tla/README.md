# TLA+ models of lvmm

lvmm is a virtual machine monitor on Linux KVM: it boots a Linux kernel on
virtual CPUs, gives it a 16550 serial port wired to the host's terminal, a CMOS
clock and a table of ignored I/O ports. This directory holds TLA+ modules of
the parts of it that keep state, the TLC configurations that check them on
small instances, and proofs checked by TLAPS for every instance.

Paths such as `src/com1.cpp:204` are relative to the repository's root.

## 1. The system

### Components

| component | state | operations | who calls it |
|---|---|---|---|
| interrupt line: `VM::irqLine`, `VM::flapIRQLine` (`src/vm.cpp:517-544`) | the level of IRQ 4 and the request latched in KVM's 8259 | pulse: one ioctl for low, one for high | the serial port's reader thread and every vCPU thread, without a lock |
| serial port: `COM1` (`src/com1.cpp`) | registers IER, FCR, LCR, MCR, SR, DLL, DLH, the queue `rx_buf` under `rx_mutex`, the terminal's saved attributes | `Read`, `Write` (the guest's port accesses), `readerLoop` (a thread that reads stdin) | vCPU threads by the port table |
| vCPU: `Vcpu::Run`, `RunOnce`, `RunLoop`, `VM::Boot` | KVM's run page (exit reason, I/O description), the debug build's step counter | enter the guest, act on the exit, stop | one thread per vCPU; `Boot` joins them |
| port table: `VM::pio_handler` (`initPIOHandler`), `Post`, ignored ports | a handler per port and direction | registration; dispatch | written before the vCPUs run, read by `RunOnce` |
| bring-up: `main`, `KVM`, `VM`, `Vcpu` constructors, `initMachine` | KVM's limits, which parts of the machine exist, whether the terminal is raw | the ten functions of `initmachine_func`, in order, each of which can fail | `main` |
| guest memory: `VM::initRAM`, `src/boot.cpp` | what is copied where, the e820 map, the MP tables | one sequence of copies with error returns and two assertions | `main` |
| CMOS (`src/cmos.cpp`) | the index (never initialised), 128 bytes | `Read`, `Write` of the index and data ports | vCPU threads, without a lock |
| boot page table: `VM::createPageTable` | six pages: the identity map of 4 GiB | one function, for a 64-bit boot, which only a build without assertions gets through | `initRAM` |
| PCI, register dumps, CPU feature constants | none that the program uses | | |

### How they interact

`RunOnce` finds an exit for I/O in the run page and calls the handler of the
port, on the vCPU's own thread, with a pointer to the data in the run page; KVM
gives the guest what is there at the next `KVM_RUN`. `COM1::Write` may call
`flapIRQLine`; so does the reader thread, which `COM1`'s constructor starts while
`main` is still building the machine. The only lock in the program is `rx_mutex`, which protects
`rx_buf`. IER and the other registers are plain bytes that two kinds of threads
read and write. `CMOS` has no lock and two accesses that belong together.

### What is hard

* Two ioctls make one interrupt pulse, and nothing keeps another thread's two
  from falling between them.
* The reader tests IER after it has released `rx_mutex`; a write to IER looks at
  `rx_buf` after it has stored the register. If either looked first, a keystroke
  could be left without an interrupt.
* The transmitter always reports itself empty, so the guest gets on only if each
  byte and each enabling of the interrupt makes an edge.
* `KVM_RUN` returns without an exit, and fails, in ways that leave an old exit
  reason in the run page.
* Every function of the start-up can fail, some by a negative result and some by
  1, with the terminal in raw mode from the middle on.
* A key leaves `rx_buf` in one exit and reaches the guest at the next `KVM_RUN`;
  the run page in between is used for every exit, and nobody clears it here.
* `initRAM` copies to fixed addresses without looking at sizes.

Section 8 of this file and `hazards` in `PROJECT.json` list them by line.

## 2. The modules

| module | models | role |
|---|---|---|
| `IrqLine` | `irqLine`, `flapIRQLine`, the 8259 pin | state and actions, no specification of its own; used by the next two |
| `IrqFlap` | any set of threads in `flapIRQLine` | specification |
| `EdgeRequest` | what a flap promises | abstract specification, implemented by `IrqFlap` |
| `IrqFlapProofs` | | theorems about `IrqFlap` |
| `COM1` (with `MCCOM1`) | `COM1::Read`, `Write`, `readerLoop` over `IrqLine`, for a guest that does anything | specification |
| `COM1Proofs` | | theorems about `COM1` |
| `Console` | what the serial console promises | abstract specification, implemented by `SerialConsole` |
| `SerialConsole` | `COM1` with a guest driver | composition, liveness, refinement |
| `SerialConsoleProofs` | | theorems about `SerialConsole`, over those about `COM1` |
| `PioTable` | `initPIOHandler`, the results of the handlers | operators |
| `VcpuRun` (with `MCVcpuRun`) | `Boot`, `RunLoop`, `RunOnce`, `Run` over `PioTable` | specification |
| `RunPage` | the data of `RunOnce`'s exits, with the queue of `COM1`, over `VcpuRun` | composition |
| `VcpuRunProofs` | | theorems about `VcpuRun` |
| `RunPageProofs` | | theorems about `RunPage`, over those about `VcpuRun` |
| `VmBoot` (with `MCVmBoot`) | `main` up to `Boot`, with failures, and the reader thread | specification |
| `VmBootProofs` | | theorems about `VmBoot` |
| `PageTable` | `createPageTable`, the processor's walk | operators |
| `EntryState` | `InitRegs`, `InitSregs`, what the processor makes of them, over `PageTable` | operators |
| `GuestMemory` (with `MCGuestMemory`) | `initVcpuRegs`, `initVcpuSregs`, `initRAM`, `gen_ebda`, over `EntryState` | specification |
| `GuestMemoryProofs` | | theorems about `PageTable` and `GuestMemory` |
| `Cmos` (with `MCCmos`) | the CMOS under several guest CPUs | specification |
| `CmosProofs` | | theorems about `Cmos` |

Definitions carry the names of the code where they can. `map` in `PROJECT.json`
gives the lines each of them stands for. A definition whose name ends in a
suffix such as `_Never` or `_OffByOne` is a plausible bug: the definition after
it is the code's, and `mutants` says which property notices the exchange.

### IrqLine, IrqFlap, EdgeRequest

`line` is the level, `irr` the latched request, `flap[t]` where thread t is in
`flapIRQLine`. `LowerLine` and `RaiseLine` are one ioctl each; `IrqLineFails` is
either of them failing, upon which the function returns at once. The 8259 is
external: `SetLevel` latches on a rising edge only, which is what KVM does for
an edge-triggered pin.

`IrqFlap` adds the history variable `served`: the threads whose current call has
contained a rising edge, by whomever. `EdgeRequest` is the promise: a call that
returns successfully has had a request latched between its start and its end.
The mapping `CallOf` reads the state of a call off the program counter; the
waiting ones are those in a call and not in `served`.

### COM1

A register is the set of its bits that are 1, a byte is its source and its
number. A handler is one action where nothing can get in between, and is split
at each section under `rx_mutex`, each system call, and between a store to IER
and a later load. (A compiler that loads IER once where the source loads it
twice makes fewer interleavings than the model has.) So a write to IER is
`WriteIER` (the store), `SampleRx` (the section), `KickTransmitter` and
`KickReceiver` (the two loads of `should_raise`), then the flap, and
`WriteReturns`. Reads of registers that only report are operators (`LSR`, `MSR`);
`ReadRBR` and the two stages of IIR are actions.

The guest is any sequence of accesses on any of its CPUs. `owed` is a history
variable: causes of an interrupt (a keystroke queued, a byte sent, a source
enabled) that have arisen since the last rising edge. `taken` counts keystrokes
the guest has read. `irqFailed` says that an ioctl has failed since the last
rising edge. The code neither retries nor reports a failure (the reader thread
ignores it, a vCPU stops), so what it left unannounced waits for the next edge,
whoever makes it; from that edge on the device owes nothing again.

Loads and stores of one byte are taken to be atomic and in program order between
the locks; this is what x86 and the mutex calls in between give, not what the
C++ standard promises for a data race.

### SerialConsole

The device of `COM1` with a driver for it: it enables the receive interrupt at
some time, takes an interrupt when idle, reads IIR, then LSR, drains RBR while
Data Ready is set, sends one FIFO load if the transmit interrupt is on, and
turns it off when its buffer is empty. After a pass its interrupt routine starts
over or returns, as it likes. Programs write at any time. The driver is not in
the repository; it is the client that the comments of `src/com1.cpp` describe.

`Console` has no registers, interrupts or threads: keys are typed and received,
bytes written and shown, each once and in order. Under the mapping of
`SerialConsole` the reader's `read` is `Type`, the driver's read of RBR is
`Deliver`, the `write` of `COM1::Write` to stdout is `Show`, and every other step
of the device and the driver stutters. The console is implemented whatever ioctls fail.
It says what may happen and has no fairness: what must happen is said by
`KeystrokesDelivered` and `OutputDrained`, which hold if failures pass (`FailuresPass`): nobody repeats an ioctl, so a key whose pulse was the last to
fail may wait for ever, and a vCPU that stopped in a failed handler reads nothing more.
Behaviours without failures are among those in which they pass.

### PioTable and VcpuRun

`Registrations` is the sequence of `registerPIOHandler` calls, in order, each
with its bounds from the headers; `Handler` is the last one that covers a port.
`Results` are the values the handler may return, 0 or not.

`VcpuRun` has one program counter per thread, and `main` for `VM::Boot`, which appends
the threads it makes to `threads` (`Spawn`), or ends the process when `std::thread` throws
(`SpawnFails`), and then joins them one after the other in that order (`JoinThread`;
`joined` is how many), while they stop in any order. `KvmRun` and `HostStep` are over with the process
(`Alive`). `KvmRun` is the ioctl's outcome:
an exit for any of the reasons the `switch` tells apart, or a failure, for which
KVM leaves the exit reason alone except that EINTR stores `KVM_EXIT_INTR`.
`HandledOnce` leaves out a vCPU whose `KVM_RUN` has failed for good (finding 2). A
vCPU other than the boot one waits to be started, and its first `KVM_RUN`
then returns EAGAIN. `RunOnce` and `RunLoop` are `Continue`, `StartIO`,
`CallHandler` (one call of one iteration), `EndIO`, `SingleStep` (debug build)
and `Stop`. Dumps are left out: whether they fail, the thread ends.

### RunPage

The bytes that go with the control of `VcpuRun`: `page[v]` is what lies at
`data_offset` in the run page, `rx_buf` the queue of the serial port, `got[v]`
the arrays with a key in them that code on vCPU v has read from RBR. `Enter` is `KVM_RUN`: it first completes
the IN of the last exit (the guest gets the array), then leaves for the next one
(an OUT's data are put there). `Handle` is `CallHandler` with what the handler
does to the data: `ReadRBR` takes a key and stores one byte, other registers and
the CMOS store an answer, handlers of ignored ports store nothing, and all get
`DataPtr`, the start of the array, in every iteration. A handler that fails stops its vCPU;
that of COM1 may have taken the byte before, since `COM1::Write` writes it to stdout, or stores
IER, and only then pulses the line (`HandleOut` lets it do either). Whether KVM clears the array
before an IN depends on the kernel: `clears` is either. A byte is
identified by where it comes from, so the properties can follow it. Operands have
1, 2 or 4 bytes, as those of IN and OUT.

### VmBoot

`at` is where `main` is, `n` the entry of `initmachine_func`. A function that is
one system call is `CallOnce`; those over all vCPUs go vCPU by vCPU. A failure
is negative or 1 as in the code, and `EndsInit` is what `initMachine` makes of
it. `Exit` is a return from `main` with the atexit handler, `Abort` an exception,
which nobody catches; `BootThrows` is the one of `VM::Boot` when no thread can be made. The machine is complete when every function has had its
effect. `StartReader` is `COM1`'s constructor, in the middle of it; from then on
`KeyTyped`, `FlapReturns` and the guest's `WriteIER` interleave with `main`.

### PageTable, EntryState and GuestMemory

`EntryAt` gives the entries that `createPageTable` stores, the loops in closed
form, in units of 4 KiB pages; `Walk` is what a processor makes of them and is
external.

`EntryState` has the fields of the registers that decide where the first instruction
and its data are; `InitSregs` starts from what KVM left, a real-mode vCPU at the reset
vector. `CR0_PG` is `1 << 31` as an int and sets the upper half of CR0 too, which no
processor enters with: recent KVMs refuse the registers, older ones take them and
then fail to enter. `GuestMemory` makes both, and has the ioctls of either function fail for reasons of their own:
the function returns 1, `initMachine` goes on (finding 3), and the vCPU keeps what it has. `set` is
a history variable: which of the two register sets KVM has taken. The assertion of `initVcpuSregs` comes
before everything in `initRAM`, whose own (`src/vm.cpp:445`) is so never the one to fail.

`copies` are the address ranges written, `e820` the map, `ebda` the MP
structures. Sizes come from outside: RAM, the two files, the command line,
`setup_sects`, and whether the boot is a 64-bit one and assertions are compiled in. The
checksums are computed from the sums of the structures' bytes, field by field; the sum
over the processor entries has a closed form (`EntriesSum`), which `MCGuestMemory`
compares with the sum taken entry by entry.

### Cmos

Each access of a port is one action. The clock is external, a sequence of `Moments`
(the fields of a `struct tm` as `localtime_r` fills it), and moves between any
two. The guest's CPUs hold a lock over each pair of accesses, as Linux's
`rtc_lock` does, and read the time between two equal readings of the seconds,
since the device never reports an update in progress. The programs that use the memory select
a register and then store a byte or read one, whoever has stored it; after an access they may
go on to store without selecting again (`StrayRam`), for which the device's reset of
the index to register D must hold. `mem` is a history variable: what was last stored in each
register by a program that meant it. What the device does without that lock, or before
the first selection, nothing in the repository says, and no property is about it.

## 3. The runs

| run | instance | properties | distinct states | shows |
|---|---|---|---|---|
| `irq_flap` | 3 threads, failing ioctls | TypeOK, FlapServed, ImplementsEdgeRequest | 2 354 | merged flaps lose no request |
| `com1` | 2 vCPUs, every register, 2 keystrokes, 1 byte sent, failing ioctls and stdout, EOF | TypeOK, NoLostRx, NoLostTx, KeystrokesInOrder | 3.5 million | no lost notification for any guest |
| `serial_console` | 3 keystrokes, 3 bytes, FIFO loads of 2, failing ioctls | RestMeansDone, ImplementsConsoleSafely, KeystrokesDelivered, OutputDrained | 55 109 | end to end, with liveness and recovery |
| `vcpu_run` | 2 vCPUs, a port of each handler that can stop a vCPU, strings of up to 2, EINTR, EAGAIN and fatal errors, debug build | TypeOK, HandledOnce, WaitingSurvives, BootWaitsForAll, DevicesReached, IOAnswered | 178 877 | the run loop, `Boot`'s joins and the table |
| `vcpu_fatal` | 1 vCPU, KVM_RUN fails for good | CannotRecover | violated | finding 2 |
| `run_page` | 2 vCPUs, RBR, CMOS data and an ignored port, 1 and 2 bytes wide, 2 keys, 2 OUTs, of one vCPU or of both; 3 bytes in all | KeysReachGuest, KeysOnceInOrder, DevicesTakeWhatIsSent, NoForeignData | 1.9 million | the data of the exits |
| `run_page_ins` | a string IN of two elements | KeysReachGuest | violated | finding 1 |
| `vm_boot` | 3 vCPUs, every fault, 4 pairs of limits, keys typed all along | TypeOK, KVMOrder, TerminalRestored, RunsComplete, LineNeedsMachine | 2 409 | start-up |
| `vm_boot_regs` | the same | RegistersSet | violated | finding 3 |
| `vm_boot_limits` | hosts without a hard limit | HardLimitAssumed | violated | finding 4 |
| `cmos` | a reader of the time, 2 users of memory, 4 seconds around the end of 1999 | TypeOK, TimeIsATime, RamKept | 15 618 | the memory and the clock |
| `guest_memory` | sizes just within and one byte beyond each limit; 1, 2, 32 vCPUs; 32- and 64-bit boots, with and without assertions | TypeOK, Intact, FitsIsExact, MapSound, CopiesMapped, ProcessorsFound, LinearIsPhysical, KernelEntered | 387 000 | the memory and the way into it |

### Bounds

* Keystrokes and bytes sent (`MaxTyped`, `MaxSent`): 2 keystrokes make the second
  arrive while the first is being handled, the case the interrupt properties are
  about. `com1` sends one byte, which two vCPUs, every register and every fault at
  once leave room for; a second one would meet the same registers, since the
  device has no transmit queue, and the proofs of NoLostRx and NoLostTx need no
  bound. `serial_console` sends 3 with FIFO loads of 2 and so goes past the first
  load, the case of the comment at `src/com1.cpp:134`.
* Threads: 3 in `irq_flap` are a flap, one that overtakes it and one that merges
  with both; for `COM1`, 2 vCPUs and the reader are a store to IER, another one
  and a keystroke at once, and the vCPUs are symmetric (`VcpuSymmetry`): they run the same
  code, and no property names one. The proofs are for any set.
* `MaxCount` of 2: a first and a last iteration. `RcMax` of 1: a step allowed and
  one refused. `rc_max` is 10 in the code.
* vCPUs in `VmBoot`: 3 are a first, one between and a last.
* `MCClock`: two seconds on either side of the turn of every field.
* `run_page`: an element that is wider than the byte a handler stores (2), a key for
  each of two vCPUs, two OUTs, one of each vCPU or both of one, so that their order matters; but
no more than three of the four together (`MaxMoved`), since no property relates the order of two
keys to that of two OUTs. Strings are the subject of `run_page_ins`. A
  failure of `KVM_RUN` for good is excluded here: finding 2 says what it does.
* Ports of `vcpu_run`: CMOS data, the first port of COM1, the reset generator. Each lies at the
  edge of its range with another range next to it; the reset generator, whose
  port is given to three registrations if a bound is off by one, is what the
  mutant of `Covers` hides.

### Deadlock

TLC looks for deadlock in `irq_flap`, where somebody can always move. The other
systems stop or come to rest: every vCPU stopped by a failure (`com1`), every
keystroke typed and byte sent (`serial_console`), every vCPU stopped (`vcpu_run`,
`vcpu_fatal`, `run_page*`), the process ended (`vm_boot*`), the memory
loaded (`guest_memory`), the clock at its end (`cmos`). Their configurations say
`CHECK_DEADLOCK FALSE`; what must still happen in them is said by the liveness
properties.

### Fairness

`SerialConsole` assumes weak fairness of the driver, of taking a latched
interrupt, of the handlers on the vCPU's thread, of the reader thread once it
has a byte and of each flap. These are threads the host schedules, ioctls and
`write` calls that return, a mutex held for a few instructions, and a guest with
interrupts on when its driver is idle. Nobody has to type, and no program to
write: `ReaderReads` and `AppWrites` are not fair.

`VcpuRun` assumes weak fairness of what each thread does outside the guest, of
its creation, of each join whose thread has ended and of the return of `Boot`; that
`std::thread` throws is never due. `KvmRun` is not fair: a guest may run
for ever. Strong fairness is used nowhere.

## 4. What is proved

TLAPS checks the proofs for all values of the constants that satisfy the named
assumptions (`IrqFaultsAssumption`; `ThreadsAssumption` and `ValuesAssumption`
of `COM1`; `DriverAssumption`; `VcpuRunAssumption`; `RunPageAssumption`;
`VmBootAssumption`; `GuestMemoryAssumption`; `CmosAssumption`). Hypotheses beyond
these are named in the theorem that has them.

* `IrqFlapProofs`
  * `TypeCorrect`: `Spec => []TypeOK`.
  * `FlapAlwaysServed`: `Spec => []FlapServed`, for any set of threads. The
    property is not inductive: a thread that is about to raise a line that is
    already high gets no edge of its own. `HighMeansServed` is the missing
    part: whoever sees that has been overtaken by an edge since its call, because
    its own lowering came before that edge. `IInv` is the conjunction.
  * `Refinement`: `Spec => ImplementsEdgeRequest`. A raise maps to `Succeed`:
    with a latch if the line rises, and without one if it is high already, for
    which `IInv` must say that the caller has been served. Lowering the line is a
    stutter.
* `COM1Proofs`
  * `TypeCorrect`: `Spec => []TypeOK`.
  * `NoKeystrokeStranded`: `Spec => []NoLostRx` and `NoTransmitterStranded`:
    `Spec => []NoLostTx`, for any number of vCPUs, any register values, with or
    without the host's failures, after which the next edge puts things right. The argument is that someone is always on the
    way: `RxAnswered` says that, as long as a keystroke waits with its interrupt
    enabled and owed, either the reader has not tested IER yet, or a vCPU has
    yet to sample `rx_buf` or has sampled it non-empty and has yet to test IER,
    or some thread is in a flap from which an edge will come. `TxAnswered` says
    the same of the transmitter. `FlapSync` ties each thread's place in its
    handler to its place in `flapIRQLine`. An edge makes nothing owed, by
    whomever it is made, and a raise onto a line that is already high means
    that another flap has made the edge in between.
  * `KeystrokesKeepOrder`: `Spec => []KeystrokesInOrder`, with loopback bytes anywhere
    in the queue. `KInv` adds that the reader's byte has been counted and that no
    more is taken than was queued; `OldestFirst` is the lemma a read of RBR needs.
* `SerialConsoleProofs`, for any amount of typing and writing, any FIFO load and failing ioctls
  * `DeviceUnderDriver`: `ConsoleSpec => Spec` of `COM1`. A step of the driver is a step
    of a guest, so all that `COM1Proofs` has for any guest holds here, without a second proof.
  * `NoWaitingInVain`: `ConsoleSpec => []RestMeansDone`. When the driver is idle, no
    interrupt is latched, no handler and no pulse is under way and the last
    pulse has not failed, everything typed has been received and everything written has
    been shown. This is the safety half of `KeystrokesDelivered` and `OutputDrained`: the
    console cannot come to rest too early, and that it comes to rest is fairness.
    NoLostRx and NoLostTx say that nothing owed is left at rest; what is missing is that
    something waiting is owed, and `WatchInv` says it: as long as the receive interrupt is on
    and keys are queued, they are owed, latched, or the driver is on its way
    to them (`RxSeen`), the same for bytes to be sent (`TxSeen`), and the driver
    has the interrupts on that it needs (`Enabled`).
  * `Refinement`: `ConsoleSpec => ImplementsConsoleSafely`, what the
    console may do. `KeysInv` says that received keys, queue and the reader's hand are
    one interval, `OutputInv` that what is shown is the first of what was written, and
    `DriverInv` what the driver knows when it reads RBR or writes THR: since it alone
    empties the queue, Data Ready is still true at the read. There is a lemma for
    each step that the abstract console sees; the others are `Silent`.
* `VcpuRunProofs`, for any number of vCPUs, any ports and strings of any length
  * `TypeCorrect`; `AlwaysHandledOnce`: `Spec => []HandledOnce`;
    `WaitingAlwaysSurvives`: `Spec => []WaitingSurvives`. `CallsMade` says how many
    calls an I/O exit has had at each place of the loop: as many as the loop index
    inside it, `count` when the vCPU is about to re-enter the guest. It holds for
    an I/O exit that no failure of `KVM_RUN` has followed, which is the hypothesis
    of `HandledOnce`. `LoopInv` adds that the index is 0 outside the loop, that a
    vCPU not started yet has an exit reason that keeps it going, and which reasons
    stop one; `RunInv` is `LoopInv` for every vCPU with `TypeOK`.
  * `BootAlwaysWaits`: `Spec => []BootWaitsForAll`. `BootInv` says that the list of threads has
    one for every vCPU that is no longer as created, that those `Boot` has gone past
    have ended, which they stay (`ThreadSteps`), and that the joins begin when no vCPU is without
    its thread; the end of the loop then is the end of all.
  * `DevicesAlwaysReached`: `Spec => []DevicesReached`, for all 65535 ports of the
    table: `LastRow` says that the handler of a port is that of the last
    registration covering it, and `DevicePorts` which one that is.
* `VmBootProofs`, for any number of vCPUs, limits of the host and set of faults
  * `TypeCorrect`; `TerminalAlwaysRestored`: `Spec => []TerminalRestored`, since raw
    mode is never entered without the atexit handler.
  * `KVMOrderKept`: `Spec => []KVMOrder`, `RunsOnlyComplete`: `Spec => []RunsComplete`
    and `LineOnlyWithMachine`: `Spec => []LineNeedsMachine`. `Built` says what exists
    at each place: nothing before `initMachine` (`NothingYet`), in it what the entries
    before the current one make (`DoneBelow`), the vCPUs before the loop index
    (`CreatedBelow`), and everything after it (`AfterTable`). The last theorem has
    an argument of its own: only a guest enables the interrupt the reader tests, and
    a guest runs only in a complete machine.
* `RunPageProofs`, for any number of vCPUs, any ports and amounts of typing and output
  * `DevicesTakeOnce`: `PageSpec => []DevicesTakeWhatIsSent`. `SentInv` says that the byte
    of the OUT a vCPU is at lies at the start of its page and, as long as no handler
    has been called (`calls[v] = 0`, for which the invariant of `VcpuRunProofs` is needed),
    has not been taken. A handler that fails after the byte has gone is one more call: its
    vCPU stops and sends nothing more.
  * `NothingForeign`: `PageSpec => []NoForeignData`. `InInv` is about every moment of an
    IN, not only its end: foreign bytes are in the array only where KVM does not
    clear it, the first byte only until a device has answered.
  * `KeysNeverRepeat`: `PageSpec => []KeysOnceInOrder`, for strings of any length: of the
    keys that arrive none does so twice, and on each vCPU they are in the order in which they left
    the queue. `KeyInv` says of the keys that have left the queue (`taken`) where they may be:
    in the page of one vCPU that has not re-entered the guest (`InFlight`) or with the
    guest code of one vCPU, and on every vCPU the key in flight is younger than
    those received. A handler starts a flight (`KeyTaken`), `KVM_RUN` ends it
    (`KeyDelivered`), and nothing else touches one (`KeyFrame`). A string IN may start a
    flight where another was: the earlier key is gone, which this theorem permits.
  * `KeysArrive`: `PageSpec /\ []Bytewise => []KeysReachGuest`. `Bytewise` says that no exit for
    RBR is a string, as in Linux's driver for the 8250; strings of any length from and to other
    ports are allowed. `Accounted` adds that no key is missing. Without the hypothesis
    the property is false: `run_page_ins` shows it, and finding 1 is the reason.
* `CmosProofs`, for any number of guest CPUs, any registers they use and any initial index
  * `TypeCorrect`: `Spec => []TypeOK`. Its invariant has more parts: `Locked` says which
    accesses a CPU makes inside the guest's lock, `Progress` how far it is in a reading, and
    `Aimed` where the index is when an access comes: on the register its CPU has selected, or on
    register D if it has selected none.
  * `MemoryKeeps`: `Spec => []RamKept`, without a hypothesis. `Stored` says that the bytes of the memory are
    those that were last stored in them: a store meant for a register reaches it, one without a
    selection reaches register D, which is none of them, and a shutdown status of 0 is dropped.
  * `AcceptedTimesAreTimes`: `Spec /\ []BriefReadings => []TimeIsATime`, for a clock that
    runs for any time. `BriefReadings` says of a behaviour that the seconds do not come round
    while a CPU is at a reading, that is, no reading takes a minute. The guest
    compares the seconds only; a longer one may be accepted wrongly, here
    as on a real machine. `Sampled` says that each value read is that field of
    a moment not before the previous one; equal seconds at both ends then leave
    one moment for all.
* `GuestMemoryProofs`, for any memory, files and number of vCPUs up to the 32 of the table
  * `IdentityMapped` and `NothingBeyond`, about the walk wherever the table lies: it takes
    every page below 4 GiB to itself and faults on all pages from there to 512 GiB.
    Both follow from the level of each page's three indexes (`Indices`) and
    the entry each of them meets.
  * `TypeCorrect`, `NothingDestroyed` (`Intact`), `FitIsExact` (`FitsIsExact`), `MapIsSound`
    (`MapSound`), `EverythingMapped` (`CopiesMapped`). The invariant describes each part
    by the place `initRAM` has reached: the copies are the first of `Made`, a fixed sequence
    in the inputs, the map is empty or complete, and so on. Where the six ranges lie
    relative to each other is then arithmetic.
  * `AllProcessorsFound`: `Spec => []ProcessorsFound`, the checksums and the entries for each
    number of vCPUs.
  * `KernelIsEntered`: `Spec => []KernelEntered` if memory ends at 4 GiB (`RamBelow4GiB`), and
    `PagingKeepsAddresses`: `Spec => []LinearIsPhysical` if no file reaches beyond
    (`FilesBelow4GiB`), which uses `IdentityMapped`. `src/main.cpp:23` configures 1 GiB, and
    `src/vm.cpp:147` says that `ram_size` has a limit because memory is one bank.
    `CpuInv` gives the registers at each place, by which of the two sets KVM has taken (`AfterRegs`).

What only TLC checks: the liveness properties (`KeystrokesDelivered`, `OutputDrained`,
`IOAnswered`), since liveness under fairness is
out of the prover's reach. Every invariant of a passing run is proved, some of them
under a hypothesis named above: `KeysReachGuest` (`Bytewise`), `TimeIsATime` (`BriefReadings`),
`KernelEntered` and `LinearIsPhysical` (the size of memory and files).

## 5. Findings

1. `src/vcpu.cpp:445` Every iteration of a string instruction gets the start of
   the data, where KVM has an array: the second key of a REP INSB overwrites the
   first, which has left `rx_buf` and reaches nobody (`run_page_ins`).
2. `src/vcpu.cpp:430` `RunOnce` drops the error of `Run`. After "cannot recover"
   the vCPU acts on the exit reason of an earlier exit: it loops, or repeats the
   last I/O (`vcpu_fatal`).
3. `src/vm.cpp:273` `initMachine` looks for negative results, and the functions
   that set registers report a failure by 1: the guest runs without them
   (`vm_boot_regs`).
4. `src/kvm.cpp:81` The message says the hard limit is taken to be the soft one;
   it stays 0, and no machine can be made (`vm_boot_limits`).

Two remarks that are not listed as findings. A byte written in loopback mode
(`src/com1.cpp:123`) returns before the notification of which the comment at
`src/com1.cpp:134` speaks "as long as the TX-empty interrupt is enabled"; the comment
is about bytes that are sent, and these are not. And `test/boot.hpp:102`, which no build includes, expects 0xb6 for the checksum of
the configuration table with two vCPUs; `gen_ebda` computes 0x78, with which the
bytes of the table sum to 0 (`ProcessorsFound`). The file's own note says that
its value has not been verified, so this is not listed as a finding.

## 6. What is not modelled

* PCI: the class is never called. Its ports are in `PioTable`, ignored. (Its
  `config_addr_in` would copy the guest's data to itself; nothing reaches it.)
* Register dumps, messages, CPUID tables, and the registers that `EntryState` leaves
  out (`SetGuestDebug`, the selectors and types of the segments).
* The contents of files and of the boot header.
* The flags of page table entries other than present and large, and caching.
* A string OUT as an array: KVM gives the elements one at a time, so `RunPage`
  has strings for IN only.
* Sizes of RAM that reach the TSS and identity map pages below 4 GiB, or that are
  below 1 MiB (`GuestMemoryAssumption`).
* `COM1`'s destructor: no code deletes the machine, so `shutting_down` is never
  set while anything runs.
* A read of stdin that keeps failing: `readerLoop` goes round for ever, which in
  the model is a stutter.
* More than 32 vCPUs (`src/boot.cpp:64` would write beyond the table) and port
  0xFFFF (beyond `pio_handler`): assumptions `GuestMemoryAssumption` and
  `VcpuRunAssumption` name them. `src/main.cpp` configures one vCPU.
* Byte 0xFFFFF belongs to no entry of the e820 map (`MBBIOS_SIZE` is 0xFFFF).

## 7. Plan

Done, in this order: the interrupt line and its promise; the serial port; the
console with liveness; the run loop with the port table; bring-up; memory; CMOS;
the proofs of the first two; the abstract console and the refinement; the data of
the run page; the boot page table with its proofs; recovery after a failed
ioctl; the reader thread during bring-up; the registers at entry; the proofs about the run
loop and bring-up; those about the run page, the CMOS, guest memory and the order of
keystrokes; the safety part of the console's refinement, and that the console does not come
to rest too early; keys read by strings; times read on a clock that runs for hours.

What could come next: a proof that the queue of `RunPage` is that of `COM1`, a step of one a
step of the other.

## 8. Hazards and the properties aimed at them

| hazard | where | property |
|---|---|---|
| interleaved flaps | `src/vm.cpp:535` | FlapServed, ImplementsEdgeRequest |
| IER tested outside the lock | `src/com1.cpp:204`, `:148` | NoLostRx, NoLostTx, RestMeansDone |
| bytes typed before the interrupt is enabled | `src/com1.cpp:155` | KeystrokesDelivered, NoLostRx, RestMeansDone |
| Data Ready and RBR in two accesses | `src/com1.cpp:82` | ImplementsConsoleSafely |
| an ioctl that fails and is not retried | `src/com1.cpp:205` | NoLostRx, RestMeansDone, ImplementsConsoleSafely |
| loopback bytes among keystrokes | `src/com1.cpp:124` | KeystrokesInOrder |
| more bytes than one FIFO load | `src/com1.cpp:137` | OutputDrained, NoLostTx, RestMeansDone |
| KVM_RUN without an exit, or failing | `src/vcpu.cpp:430`, `:433` | WaitingSurvives, CannotRecover |
| string instructions | `src/vcpu.cpp:442`, `:445` | HandledOnce, IOAnswered, KeysReachGuest, KeysOnceInOrder |
| a key between two exits | `src/vcpu.cpp:430` | KeysReachGuest, KeysOnceInOrder |
| data of earlier exits | `src/pio.cpp:19`, `src/com1.cpp:35` | NoForeignData, DevicesTakeWhatIsSent |
| overlapping port ranges | `src/vm.cpp:184` | DevicesReached |
| one vCPU stops, others run | `src/vm.cpp:508` | BootWaitsForAll |
| a thread that cannot be made | `src/vm.cpp:505` | none: `SpawnFails` and `BootThrows` end the process |
| a handler that fails before or after its byte is out | `src/com1.cpp:129`, `:137` | NoLostRx, NoLostTx, DevicesTakeWhatIsSent |
| order and failures of the start-up | `include/vm.hpp:88`, `src/vm.cpp:273` | KVMOrder, RunsComplete, RegistersSet |
| the reader thread before the machine is complete | `src/com1.cpp:239` | LineNeedsMachine |
| raw mode and failures | `src/com1.cpp:236` | TerminalRestored |
| hosts without limits | `src/kvm.cpp:81` | HardLimitAssumed |
| registers and memory set in different places | `src/vcpu.cpp:124` | KernelEntered |
| sizes, map, checksums | `src/vm.cpp:379`, `:417`, `src/boot.cpp:38`, `:87` | Intact, FitsIsExact, MapSound, CopiesMapped, ProcessorsFound |
| an access without a selection of its own; a shutdown status of 0 | `src/cmos.cpp:127`, `:121` | RamKept |
| the index uninitialised, or shared without a lock | `include/cmos.hpp:67`, `src/cmos.cpp:101` | none: guests select first and hold a lock |
| a time read in pieces | `src/cmos.cpp:23` | TimeIsATime |

## 9. Running

    tlc -workers 2 -config MCCOM1.cfg MCCOM1
    tlapm COM1Proofs.tla

`PROJECT.json` names the module and the configuration of every run.
