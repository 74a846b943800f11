------------------------------ MODULE PioTable ------------------------------
(***************************************************************************)
(* The table of port I/O handlers, VM::pio_handler, as initPIOHandler      *)
(* leaves it: a sequence of registrations, each overwriting the slots of   *)
(* its ports, so that the last one to cover a port decides.                *)
(***************************************************************************)
EXTENDS Integers, Sequences

\* PIO_PORT_NUM is UINT16_MAX: the slots are 0 .. 65534, port 0xFFFF has none.
PIO_PORT_NUM == \hFFFF

Range(lo, hi, in, out) == [lo |-> lo, hi |-> hi, in |-> in, out |-> out]
Ignored(lo, hi) == Range(lo, hi, "do_nothing", "do_nothing")

\* The devices, in the order initMachine adds them.
IODevs == << [name |-> "Post", port |-> \h80,  size |-> \hA0],
             [name |-> "CMOS", port |-> \h70,  size |-> 2],
             [name |-> "COM1", port |-> \h3F8, size |-> 8] >>

DeviceRange(d) == Range(d.port, d.port + d.size, d.name, d.name)

Registrations ==
  << Range(0, PIO_PORT_NUM, "default", "default"),
     Ignored(\hED, \hEE),                        \* alternate delay port
     Ignored(\h2E8, \h2F0),                      \* COM4
     Ignored(\h2F8, \h300),                      \* COM2
     Ignored(\h3B0, \h3BC),                      \* VGA
     Ignored(\h3C0, \h3E0),
     Ignored(\h3E8, \h3F0),                      \* COM3
     Ignored(\hCFA, \hCFC),
     Range(\hCF9, \hCFA, "default", "reset"),    \* reset generator
     Ignored(\hCF8, \hCF9),                      \* PCI mechanism 1, address
     Ignored(\hCFE, \hCFF),
     Ignored(\hCFC, \hCFD),                      \* PCI mechanism 1, data
     Ignored(\hC000, \hD000),                    \* PCI mechanism 2
     Ignored(\h60, \h70) >>                      \* PS/2 controller
  \o [i \in 1 .. Len(IODevs) |-> DeviceRange(IODevs[i])]

\* Plausible bug: the end of the range taken as its last port.
Covers_Inclusive(r, port) == r.lo <= port /\ port <= r.hi

\* registerPIOHandler fills the slots port_start <= i < port_end.
Covers(r, port) == r.lo <= port /\ port < r.hi

\* The handler in slot [port][dir] of the finished table.
Handler(port, dir) ==
  LET covering == {i \in 1 .. Len(Registrations) : Covers(Registrations[i], port)}
      last == CHOOSE i \in covering : \A j \in covering : j <= i
  IN  Registrations[last][dir]

\* The results a handler may return (0: the vCPU goes on).  COM1's writes fail
\* when the host's terminal or the interrupt controller does.
Results(port, dir, size) ==
  LET h == Handler(port, dir) IN
    CASE h \in {"do_nothing", "Post"} -> {0}
      [] h \in {"default", "reset"} -> {1}
      [] h = "CMOS" -> IF size = 1 THEN {0} ELSE {1}
      [] h = "COM1" -> IF dir = "in" THEN {0} ELSE {0, 1}

=============================================================================
