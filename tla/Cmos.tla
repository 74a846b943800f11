-------------------------------- MODULE Cmos --------------------------------
(***************************************************************************)
(* The CMOS of src/cmos.cpp: an index port, a data port, registers that    *)
(* follow the host's clock and 128 bytes of memory.  No lock protects it:  *)
(* each access is one exit of one vCPU, and selecting a register and       *)
(* reading it are two.                                                     *)
(*                                                                         *)
(* The guest is external.  As the kernels this monitor boots do, it holds  *)
(* a lock of its own over every selection and what it does with it, and    *)
(* reads the time between two equal readings of the seconds, since the     *)
(* CMOS never says that an update is in progress.  The host's clock,       *)
(* external too, goes through the consecutive seconds of Clock.            *)
(***************************************************************************)
EXTENDS Integers, Sequences

CONSTANTS
  Clock,        \* what localtime_r answers, second after second
  TimeReaders,  \* guest CPUs that read the time
  RamUsers,     \* guest CPUs that write and read a byte of memory
  RamRegs,      \* the registers the RamUsers use,
  RamValues,    \* and what they write
  InitialIndex  \* what the uninitialised index may hold

CPUs == TimeReaders \cup RamUsers

\* The registers, by their numbers.
SEC        == 0
MIN        == 2
HOUR       == 4
WEEKD      == 6
MDAY       == 7
MONTH      == 8
YEAR       == 9
CENTURY    == \h32
STAT_A     == 10
STAT_B     == 11
STAT_C     == 12
STAT_D     == 13
DIAGNOSTIC == 14
SHUTDOWN   == 15

CMOS_MEM_SIZE == 128

\* tm_year of the year 9999, the last one of two and two digits.
LAST_YEAR == 8099

\* What localtime_r answers until then.
Moments == [sec : 0 .. 60, min : 0 .. 59, hour : 0 .. 23, wday : 0 .. 6, mday : 1 .. 31,
            mon : 0 .. 11, year : 0 .. LAST_YEAR]

ASSUME CmosAssumption ==
  /\ Clock \in Seq(Moments) /\ Clock # << >>
  /\ "free" \notin CPUs
  /\ RamRegs \subseteq {DIAGNOSTIC, SHUTDOWN} \cup CENTURY + 1 .. CMOS_MEM_SIZE - 1
  /\ RamValues \subseteq 0 .. 255 /\ InitialIndex \subseteq 0 .. 255
  /\ TimeReaders \cap RamUsers = {}

VARIABLES
  now,     \* which second of Clock it is
  index,   \* CMOS::index
  data,    \* CMOS::data
  mem,     \* history: the value last stored in each of RamRegs
  lock,    \* the guest CPU in its critical section, or "free"
  at,      \* what each guest CPU does next
  since,   \* when it began its reading of the time
  got      \* what it has read: one value for each register read

vars == <<now, index, data, mem, lock, at, since, got>>

-----------------------------------------------------------------------------
(***************************************************************************)
(* The device                                                              *)
(***************************************************************************)

\* Plausible bug: the tens are not moved to the upper digit.
bin_to_bcd_Binary(bin) == IF bin > 99 THEN 1 ELSE bin

bin_to_bcd(bin) == IF bin > 99 THEN 1 ELSE 16 * (bin \div 10) + (bin % 10)

\* The registers that do not come from data; the month is tm_mon, from 0.
Computed(tm) ==
  [r \in {SEC, MIN, HOUR, WEEKD, MDAY, MONTH, YEAR, CENTURY} |->
     bin_to_bcd(CASE r = SEC  -> tm.sec   [] r = MIN   -> tm.min
                  [] r = HOUR -> tm.hour  [] r = WEEKD -> tm.wday
                  [] r = MDAY -> tm.mday  [] r = MONTH -> tm.mon
                  [] r = YEAR -> tm.year % 100
                  [] r = CENTURY -> (tm.year + 1900) \div 100)]

Status == [r \in {STAT_A, STAT_B, STAT_C, STAT_D} |->
             CASE r = STAT_A -> 38 [] r = STAT_B -> 2 [] r = STAT_C -> 0 [] r = STAT_D -> 128]

\* What an IN from the data port answers.
DataPort ==
  LET time == Computed(Clock[now]) IN
    CASE index \in DOMAIN time   -> time[index]
      [] index \in DOMAIN Status -> Status[index]
      [] OTHER -> data[index]

\* Plausible bug: the NMI bit is left in the index.
WriteIndex_Unmasked(x) == index' = x

\* OUT to the index port; bit 7, the NMI mask, is ignored.
WriteIndex(x) == index' = x % 128

\* Plausible bug: the index stays on the register that was accessed.
DataAccessed_IndexKept == UNCHANGED index

\* Every access of the data port ends with the index on register D.
DataAccessed == index' = STAT_D

\* Plausible bug: a write goes to the register the index falls back to.
Store_AfterReset(x) == data' = [data EXCEPT ![STAT_D] = x]

Store(x) == data' = [data EXCEPT ![index] = x]

\* Plausible bug: a shutdown status of 0 is stored like any other.
WriteData_Zero(x) == Store(x) /\ DataAccessed

\* OUT to the data port: a shutdown status of 0 is not stored.
WriteData(x) ==
  /\ IF index = SHUTDOWN /\ x = 0 THEN UNCHANGED data ELSE Store(x)
  /\ DataAccessed

-----------------------------------------------------------------------------
(***************************************************************************)
(* The clock and the guest                                                 *)
(***************************************************************************)

Tick ==
  /\ now < Len(Clock)
  /\ now' = now + 1
  /\ UNCHANGED <<index, data, mem, lock, at, since, got>>

\* The registers a reading of the time goes through: the seconds twice.
TimeRegs == << SEC, MIN, HOUR, MDAY, MONTH, YEAR, CENTURY, SEC >>

Init ==
  /\ now = 1
  /\ index \in InitialIndex
  /\ data = [r \in 0 .. CMOS_MEM_SIZE - 1 |-> 0]
  /\ mem = [r \in RamRegs |-> 0]
  /\ lock = "free"
  /\ at = [c \in CPUs |-> [do |-> "idle"]]
  /\ since = [c \in TimeReaders |-> 1]
  /\ got = [c \in TimeReaders |-> << >>]

Lock(c) == lock = "free" /\ lock' = c

\* A reading starts, or starts over, and takes the lock.
StartTime(c) ==
  /\ at[c].do \in {"idle", "again"}
  /\ Lock(c)
  /\ since' = [since EXCEPT ![c] = now]
  /\ got' = [got EXCEPT ![c] = << >>]
  /\ at' = [at EXCEPT ![c] = [do |-> "select", reg |-> SEC]]
  /\ UNCHANGED <<now, index, data, mem>>

SelectTime(c) ==
  /\ at[c].do = "select"
  /\ WriteIndex(at[c].reg)
  /\ at' = [at EXCEPT ![c].do = "in"]
  /\ UNCHANGED <<now, data, mem, lock, since, got>>

\* After the last register: accepted if the seconds have not moved meanwhile.
FetchTime(c) ==
  LET read == Append(got[c], DataPort) IN
    /\ at[c].do = "in"
    /\ DataAccessed
    /\ got' = [got EXCEPT ![c] = read]
    /\ IF Len(read) < Len(TimeRegs)
       THEN /\ at' = [at EXCEPT ![c] = [do |-> "select", reg |-> TimeRegs[Len(read) + 1]]]
            /\ UNCHANGED lock
       ELSE /\ at' = [at EXCEPT ![c] =
                        [do |-> IF read[1] = read[Len(read)] THEN "read" ELSE "again"]]
            /\ lock' = "free"
    /\ UNCHANGED <<now, data, mem, since>>

\* After an access a program lets go of the lock, or accesses the data port once
\* more without having selected a register.
AfterAccess(c) ==
  \/ lock' = "free" /\ at' = [at EXCEPT ![c] = [do |-> "idle"]]
  \/ UNCHANGED lock /\ at' = [at EXCEPT ![c] = [do |-> "stray"]]

\* A register is selected, with or without the NMI bit, for a byte to be stored.
StartRam(c) == \E r \in RamRegs, x \in RamValues, nmi \in {0, 128} :
  /\ at[c].do = "idle"
  /\ Lock(c)
  /\ WriteIndex(r + nmi)
  /\ at' = [at EXCEPT ![c] = [do |-> "out", reg |-> r, value |-> x]]
  /\ UNCHANGED <<now, data, mem, since, got>>

StoreRam(c) ==
  LET r == at[c].reg
      x == at[c].value
  IN  /\ at[c].do = "out"
      /\ WriteData(x)
      /\ mem' = IF r = SHUTDOWN /\ x = 0 THEN mem ELSE [mem EXCEPT ![r] = x]
      /\ AfterAccess(c)
      /\ UNCHANGED <<now, since, got>>

\* Or to be read, whoever has stored it.
SelectRam(c) == \E r \in RamRegs, nmi \in {0, 128} :
  /\ at[c].do = "idle"
  /\ Lock(c)
  /\ WriteIndex(r + nmi)
  /\ at' = [at EXCEPT ![c] = [do |-> "in", reg |-> r]]
  /\ UNCHANGED <<now, data, mem, since, got>>

\* What the program gets is DataPort.
FetchRam(c) ==
  /\ at[c].do = "in"
  /\ DataAccessed
  /\ AfterAccess(c)
  /\ UNCHANGED <<now, data, mem, since, got>>

\* An OUT to the data port that no selection has come before.
StrayRam(c) == \E x \in RamValues :
  /\ at[c].do = "stray"
  /\ WriteData(x)
  /\ AfterAccess(c)
  /\ UNCHANGED <<now, mem, since, got>>

TimeStep(c) == StartTime(c) \/ SelectTime(c) \/ FetchTime(c)

RamStep(c) == StartRam(c) \/ StoreRam(c) \/ SelectRam(c) \/ FetchRam(c) \/ StrayRam(c)

Next ==
  \/ Tick
  \/ \E c \in TimeReaders : TimeStep(c)
  \/ \E c \in RamUsers : RamStep(c)

Spec == Init /\ [][Next]_vars

-----------------------------------------------------------------------------
(***************************************************************************)
(* Properties                                                              *)
(***************************************************************************)

\* Types; the registers are bytes and the index, once written, is below 128.
TypeOK ==
  /\ now \in DOMAIN Clock
  /\ index \in InitialIndex \cup 0 .. CMOS_MEM_SIZE - 1
  /\ data \in [0 .. CMOS_MEM_SIZE - 1 -> 0 .. 255]
  /\ mem \in [RamRegs -> 0 .. 255]
  /\ lock \in CPUs \cup {"free"}
  /\ \A c \in CPUs : at[c].do \in {"idle", "again", "select", "in", "out", "stray", "read"}
  /\ since \in [TimeReaders -> DOMAIN Clock]
  /\ got \in [TimeReaders -> Seq(0 .. 255)]
  /\ \A c \in TimeReaders : Len(got[c]) <= Len(TimeRegs)

bcd2bin(b) == 10 * (b \div 16) + (b % 16)

\* The time a guest accepts is a time the host's clock has shown during the
\* reading: the fields never come from two different seconds, although each of
\* them asks the clock anew.
TimeIsATime ==
  \A c \in TimeReaders : at[c].do = "read" =>
    \E k \in since[c] .. now :
      LET tm == Clock[k] IN
        [j \in 1 .. 7 |-> bcd2bin(got[c][j])]
          = << tm.sec, tm.min, tm.hour, tm.mday, tm.mon, tm.year % 100,
               (tm.year + 1900) \div 100 >>

\* A program that reads a byte of the memory gets what was last stored there, by
\* whichever program: no selection or reading of another CPU comes in between, a
\* shutdown status of 0 leaves the one before it, and an access without a selection
\* of its own never reaches the register selected before.
RamKept == \A c \in RamUsers : at[c].do = "in" => DataPort = mem[at[c].reg]

=============================================================================
