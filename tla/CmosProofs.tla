----------------------------- MODULE CmosProofs -----------------------------
(***************************************************************************)
(* For any clock, any number of guest CPUs and any registers they use: the *)
(* guest's own lock is all the CMOS needs.  Memory keeps what is stored,   *)
(* and a reading of the time that is accepted is a time.                   *)
(***************************************************************************)
EXTENDS Cmos, TLAPS

Values == 0 .. 255

Regs == 0 .. CMOS_MEM_SIZE - 1

\* What a CPU that reads the time, and one that uses the memory, may do next.
TimeSteps ==
  [do : {"idle", "again", "read"}] \cup [do : {"select", "in"}, reg : Regs]

RamSteps ==
  [do : {"idle", "stray"}] \cup [do : {"in"}, reg : RamRegs]
    \cup [do : {"out"}, reg : RamRegs, value : RamValues]

Shape ==
  /\ at \in [CPUs -> TimeSteps \cup RamSteps]
  /\ \A c \in TimeReaders : at[c] \in TimeSteps
  /\ \A c \in RamUsers : at[c] \in RamSteps

\* The lock is held by the CPU that is between its first and last access.
Locked ==
  /\ \A c \in TimeReaders : lock = c <=> at[c].do \in {"select", "in"}
  /\ \A c \in RamUsers : lock = c <=> at[c].do \in {"in", "out", "stray"}

\* A reading of the time has gone through as many registers as it has values.
Progress ==
  \A c \in TimeReaders :
    /\ at[c].do \in {"select", "in"} =>
         /\ Len(got[c]) < Len(TimeRegs)
         /\ at[c].reg = TimeRegs[Len(got[c]) + 1]
    /\ at[c].do = "read" => Len(got[c]) = Len(TimeRegs)

\* An access goes to the register its CPU has selected, and to register D if it
\* has selected none.
Aimed ==
  \A c \in CPUs :
    /\ at[c].do \in {"in", "out"} => index = at[c].reg
    /\ at[c].do = "stray" => index = STAT_D

IInv == TypeOK /\ Shape /\ Locked /\ Progress /\ Aimed

-----------------------------------------------------------------------------
(***************************************************************************)
(* The operators of the device                                             *)
(***************************************************************************)

\* The moments of the clock have the fields of struct tm.
LEMMA ClockMoments ==
  /\ DOMAIN Clock = 1 .. Len(Clock) /\ Len(Clock) \in Nat \ {0}
  /\ \A k \in DOMAIN Clock : Clock[k] \in Moments
  BY CmosAssumption

\* The two-digit conversion yields a byte and loses nothing below 100.
LEMMA BcdByte == \A x \in Nat : bin_to_bcd(x) \in Values
  BY DEF bin_to_bcd, Values

LEMMA BcdBack == \A x \in 0 .. 99 : bcd2bin(bin_to_bcd(x)) = x
  BY DEF bin_to_bcd, bcd2bin

LEMMA BcdInjective == \A x, y \in 0 .. 99 : bin_to_bcd(x) = bin_to_bcd(y) => x = y
  BY BcdBack

\* The device takes a year apart into its last two digits and the rest.
LEMMA YearDigits ==
  ASSUME NEW y \in 0 .. LAST_YEAR
  PROVE  y % 100 \in 0 .. 99 /\ (y + 1900) \div 100 \in 0 .. 99
<1>1. LAST_YEAR \in Nat
  BY DEF LAST_YEAR
<1>2. y \in Nat /\ y <= LAST_YEAR
  BY <1>1
<1>3. y <= 8099
  BY <1>2 DEF LAST_YEAR
<1>4. y % 100 \in 0 .. 99
  BY <1>2
<1>5. /\ (y + 1900) \div 100 \in Int
      /\ 0 <= (y + 1900) \div 100 /\ (y + 1900) \div 100 <= 99
  BY <1>2, <1>3
<1>6. QED BY <1>4, <1>5

\* The fields of a moment in the order of TimeRegs.
Fields(tm) ==
  << tm.sec, tm.min, tm.hour, tm.mday, tm.mon, tm.year % 100,
     (tm.year + 1900) \div 100, tm.sec >>

\* A moment's fields, and what the device makes of the year.
LEMMA MomentFields ==
  ASSUME NEW tm \in Moments
  PROVE  /\ tm.sec \in 0 .. 99 /\ tm.min \in 0 .. 99 /\ tm.hour \in 0 .. 99
         /\ tm.wday \in 0 .. 99 /\ tm.mday \in 0 .. 99 /\ tm.mon \in 0 .. 99
         /\ tm.year % 100 \in 0 .. 99 /\ (tm.year + 1900) \div 100 \in 0 .. 99
<1>1. tm.sec \in 0 .. 99
  BY DEF Moments
<1>2. tm.min \in 0 .. 99
  BY DEF Moments
<1>3. tm.hour \in 0 .. 99
  BY DEF Moments
<1>4. tm.wday \in 0 .. 99
  BY DEF Moments
<1>5. tm.mday \in 0 .. 99
  BY DEF Moments
<1>6. tm.mon \in 0 .. 99
  BY DEF Moments
<1>7. tm.year \in 0 .. LAST_YEAR
  BY DEF Moments
<1>8. tm.year % 100 \in 0 .. 99 /\ (tm.year + 1900) \div 100 \in 0 .. 99
  BY <1>7, YearDigits
<1>9. QED BY <1>1, <1>2, <1>3, <1>4, <1>5, <1>6, <1>8

\* Every field a time is read from has two digits.
LEMMA FieldsAt ==
  ASSUME NEW tm
  PROVE  /\ Fields(tm)[1] = tm.sec  /\ Fields(tm)[2] = tm.min /\ Fields(tm)[3] = tm.hour
         /\ Fields(tm)[4] = tm.mday /\ Fields(tm)[5] = tm.mon
         /\ Fields(tm)[6] = tm.year % 100
         /\ Fields(tm)[7] = (tm.year + 1900) \div 100 /\ Fields(tm)[8] = tm.sec
  BY DEF Fields

LEMMA FieldsFit ==
  ASSUME NEW tm \in Moments, NEW j \in 1 .. 8
  PROVE  Fields(tm)[j] \in 0 .. 99
<1>1. j \in {1, 2, 3, 4, 5, 6, 7, 8}
  OBVIOUS
<1>2. QED BY <1>1, MomentFields, FieldsAt

\* The registers that follow the clock, one by one, and the constant ones.
LEMMA ComputedAt ==
  ASSUME NEW tm
  PROVE  /\ Computed(tm)[SEC]     = bin_to_bcd(tm.sec)
         /\ Computed(tm)[MIN]     = bin_to_bcd(tm.min)
         /\ Computed(tm)[HOUR]    = bin_to_bcd(tm.hour)
         /\ Computed(tm)[WEEKD]   = bin_to_bcd(tm.wday)
         /\ Computed(tm)[MDAY]    = bin_to_bcd(tm.mday)
         /\ Computed(tm)[MONTH]   = bin_to_bcd(tm.mon)
         /\ Computed(tm)[YEAR]    = bin_to_bcd(tm.year % 100)
         /\ Computed(tm)[CENTURY] = bin_to_bcd((tm.year + 1900) \div 100)
  BY DEF Computed, SEC, MIN, HOUR, WEEKD, MDAY, MONTH, YEAR, CENTURY

LEMMA RegisterKinds ==
  /\ \A tm : DOMAIN Computed(tm) = {SEC, MIN, HOUR, WEEKD, MDAY, MONTH, YEAR, CENTURY}
  /\ DOMAIN Status = {STAT_A, STAT_B, STAT_C, STAT_D}
  /\ {SEC, MIN, HOUR, WEEKD, MDAY, MONTH, YEAR, CENTURY}
       \cap {STAT_A, STAT_B, STAT_C, STAT_D} = {}
<1>1. /\ \A tm : DOMAIN Computed(tm) = {SEC, MIN, HOUR, WEEKD, MDAY, MONTH, YEAR, CENTURY}
      /\ DOMAIN Status = {STAT_A, STAT_B, STAT_C, STAT_D}
  BY DEF Computed, Status
<1>2. {SEC, MIN, HOUR, WEEKD, MDAY, MONTH, YEAR, CENTURY}
        \cap {STAT_A, STAT_B, STAT_C, STAT_D} = {}
  BY DEF SEC, MIN, HOUR, WEEKD, MDAY, MONTH, YEAR, CENTURY, STAT_A, STAT_B, STAT_C, STAT_D
<1>3. QED BY <1>1, <1>2

\* The data port answers for the register the index is on.
LEMMA DataPortCases ==
  /\ index \in DOMAIN Computed(Clock[now]) => DataPort = Computed(Clock[now])[index]
  /\ index \in DOMAIN Status => DataPort = Status[index]
  /\ index \notin DOMAIN Computed(Clock[now]) /\ index \notin DOMAIN Status
       => DataPort = data[index]
<1>1. ~(index \in DOMAIN Computed(Clock[now]) /\ index \in DOMAIN Status)
  BY RegisterKinds
<1>2. QED BY <1>1 DEF DataPort

LEMMA ComputedValues ==
  ASSUME NEW tm \in Moments, NEW r \in DOMAIN Computed(tm)
  PROVE  Computed(tm)[r] \in Values
<1>1. \A x \in 0 .. 99 : bin_to_bcd(x) \in Values
  BY BcdByte
<1>2. r \in {SEC, MIN, HOUR, WEEKD, MDAY, MONTH, YEAR, CENTURY}
  BY RegisterKinds
<1>3. /\ tm.sec \in 0 .. 99 /\ tm.min \in 0 .. 99 /\ tm.hour \in 0 .. 99
      /\ tm.wday \in 0 .. 99 /\ tm.mday \in 0 .. 99 /\ tm.mon \in 0 .. 99
      /\ tm.year % 100 \in 0 .. 99 /\ (tm.year + 1900) \div 100 \in 0 .. 99
  BY MomentFields
<1>4. CASE r = SEC
  <2>1. bin_to_bcd(tm.sec) \in Values
    BY <1>1, <1>3
  <2>2. QED BY <2>1, <1>4, ComputedAt
<1>5. CASE r = MIN
  <2>1. bin_to_bcd(tm.min) \in Values
    BY <1>1, <1>3
  <2>2. QED BY <2>1, <1>5, ComputedAt
<1>6. CASE r = HOUR
  <2>1. bin_to_bcd(tm.hour) \in Values
    BY <1>1, <1>3
  <2>2. QED BY <2>1, <1>6, ComputedAt
<1>7. CASE r = WEEKD
  <2>1. bin_to_bcd(tm.wday) \in Values
    BY <1>1, <1>3
  <2>2. QED BY <2>1, <1>7, ComputedAt
<1>8. CASE r = MDAY
  <2>1. bin_to_bcd(tm.mday) \in Values
    BY <1>1, <1>3
  <2>2. QED BY <2>1, <1>8, ComputedAt
<1>9. CASE r = MONTH
  <2>1. bin_to_bcd(tm.mon) \in Values
    BY <1>1, <1>3
  <2>2. QED BY <2>1, <1>9, ComputedAt
<1>10. CASE r = YEAR
  <2>1. bin_to_bcd(tm.year % 100) \in Values
    BY <1>1, <1>3
  <2>2. QED BY <2>1, <1>10, ComputedAt
<1>11. CASE r = CENTURY
  <2>1. bin_to_bcd((tm.year + 1900) \div 100) \in Values
    BY <1>1, <1>3
  <2>2. QED BY <2>1, <1>11, ComputedAt
<1>12. QED BY <1>2, <1>4, <1>5, <1>6, <1>7, <1>8, <1>9, <1>10, <1>11

LEMMA ComputedFields ==
  ASSUME NEW tm, NEW j \in 1 .. 8
  PROVE  /\ TimeRegs[j] \in DOMAIN Computed(tm)
         /\ Computed(tm)[TimeRegs[j]] = bin_to_bcd(Fields(tm)[j])
<1>1. j \in {1, 2, 3, 4, 5, 6, 7, 8}
  OBVIOUS
<1>2. /\ TimeRegs[1] = SEC  /\ TimeRegs[2] = MIN   /\ TimeRegs[3] = HOUR
      /\ TimeRegs[4] = MDAY /\ TimeRegs[5] = MONTH /\ TimeRegs[6] = YEAR
      /\ TimeRegs[7] = CENTURY /\ TimeRegs[8] = SEC
  BY DEF TimeRegs
<1>3. TimeRegs[j] \in DOMAIN Computed(tm)
  BY <1>1, <1>2, RegisterKinds
<1>4. /\ Computed(tm)[SEC]  = bin_to_bcd(Fields(tm)[1])
      /\ Computed(tm)[MIN]  = bin_to_bcd(Fields(tm)[2])
      /\ Computed(tm)[HOUR] = bin_to_bcd(Fields(tm)[3])
      /\ Computed(tm)[MDAY] = bin_to_bcd(Fields(tm)[4])
      /\ Computed(tm)[MONTH] = bin_to_bcd(Fields(tm)[5])
      /\ Computed(tm)[YEAR] = bin_to_bcd(Fields(tm)[6])
      /\ Computed(tm)[CENTURY] = bin_to_bcd(Fields(tm)[7])
      /\ Computed(tm)[SEC]  = bin_to_bcd(Fields(tm)[8])
  BY FieldsAt, ComputedAt, SMT
<1>5. Computed(tm)[TimeRegs[j]] = bin_to_bcd(Fields(tm)[j])
  BY <1>1, <1>2, <1>4
<1>6. QED BY <1>3, <1>5

\* The data port answers with a byte.
LEMMA DataPortByte ==
  ASSUME now \in DOMAIN Clock, index \in Regs, data \in [Regs -> Values]
  PROVE  DataPort \in Values
<1>1. CASE index \in DOMAIN Computed(Clock[now])
  <2>1. Clock[now] \in Moments
    BY ClockMoments
  <2>2. QED BY <1>1, <2>1, ComputedValues, DataPortCases
<1>2. CASE index \in DOMAIN Status
  <2>1. Status[index] \in {38, 2, 0, 128}
    BY <1>2 DEF Status, STAT_A, STAT_B, STAT_C, STAT_D
  <2>2. QED BY <1>2, <2>1, DataPortCases DEF Values
<1>3. CASE index \notin DOMAIN Computed(Clock[now]) /\ index \notin DOMAIN Status
  BY <1>3, DataPortCases
<1>4. QED BY <1>1, <1>2, <1>3

\* A register of memory answers with what is stored in it.
LEMMA DataPortRam ==
  ASSUME index \in RamRegs
  PROVE  DataPort = data[index]
<1>1. index \in {DIAGNOSTIC, SHUTDOWN} \cup CENTURY + 1 .. CMOS_MEM_SIZE - 1
  BY CmosAssumption
<1>2. /\ index \notin {SEC, MIN, HOUR, WEEKD, MDAY, MONTH, YEAR, CENTURY}
      /\ index \notin {STAT_A, STAT_B, STAT_C, STAT_D}
  BY <1>1 DEF SEC, MIN, HOUR, WEEKD, MDAY, MONTH, YEAR, CENTURY, STAT_A, STAT_B, STAT_C,
              STAT_D, DIAGNOSTIC, SHUTDOWN, CMOS_MEM_SIZE
<1>3. QED BY <1>2, RegisterKinds, DataPortCases

\* A register of the time answers with its field of this moment.
LEMMA DataPortTime ==
  ASSUME NEW j \in 1 .. 8, index = TimeRegs[j]
  PROVE  DataPort = bin_to_bcd(Fields(Clock[now])[j])
  BY ComputedFields, DataPortCases

\* The registers in use are below 128, and the NMI bit does not move them.
LEMMA RamRegsFit ==
  \A r \in RamRegs : r \in Regs /\ r % 128 = r /\ (r + 128) % 128 = r
<1>1. \A r \in RamRegs : r \in Regs
  BY CmosAssumption DEF Regs, DIAGNOSTIC, SHUTDOWN, CENTURY, CMOS_MEM_SIZE
<1>2. QED BY <1>1 DEF Regs, CMOS_MEM_SIZE

LEMMA TimeRegsFit ==
  /\ Len(TimeRegs) = 8
  /\ \A j \in 1 .. 8 : TimeRegs[j] \in Regs
  BY DEF TimeRegs, Regs, CMOS_MEM_SIZE, SEC, MIN, HOUR, MDAY, MONTH, YEAR, CENTURY

-----------------------------------------------------------------------------
(***************************************************************************)
(* Types, the lock and the index                                           *)
(***************************************************************************)

LEMMA InitInv == Init => IInv
<1> SUFFICES ASSUME Init PROVE IInv
  OBVIOUS
<1>1. \A c \in CPUs : at[c] = [do |-> "idle"] /\ at[c].do = "idle"
  BY DEF Init
<1>2. TypeOK
  <2>1. now \in DOMAIN Clock /\ since \in [TimeReaders -> DOMAIN Clock]
    BY ClockMoments DEF Init
  <2>2. data \in [0 .. CMOS_MEM_SIZE - 1 -> 0 .. 255]
    BY DEF Init, CMOS_MEM_SIZE
  <2>3. /\ got \in [TimeReaders -> Seq(0 .. 255)]
        /\ \A c \in TimeReaders : Len(got[c]) <= Len(TimeRegs)
    BY TimeRegsFit DEF Init
  <2>4. mem \in [RamRegs -> 0 .. 255]
    BY DEF Init
  <2>5. QED BY <1>1, <2>1, <2>2, <2>3, <2>4 DEF TypeOK, Init
<1>3. Shape
  <2>1. [do |-> "idle"] \in TimeSteps /\ [do |-> "idle"] \in RamSteps
    BY DEF TimeSteps, RamSteps
  <2>2. QED BY <2>1 DEF Shape, Init, CPUs
<1>4. Locked /\ Progress /\ Aimed
  BY <1>1, CmosAssumption DEF Locked, Progress, Aimed, Init, CPUs
<1>5. QED BY <1>2, <1>3, <1>4 DEF IInv

LEMMA TickInv == IInv /\ Tick => IInv'
<1> SUFFICES ASSUME IInv, Tick PROVE IInv'
  OBVIOUS
<1>1. now' \in DOMAIN Clock
  BY ClockMoments DEF IInv, TypeOK, Tick
<1>2. UNCHANGED <<index, data, mem, lock, at, since, got>>
  BY DEF Tick
<1>3. TypeOK'
  BY <1>1, <1>2 DEF IInv, TypeOK
<1>4. (Shape /\ Locked /\ Progress /\ Aimed)'
  BY <1>2 DEF IInv, Shape, Locked, Progress, Aimed
<1>5. QED BY <1>3, <1>4 DEF IInv

\* A CPU that takes a step is in CPUs, of one kind only; what a step of it must
\* show so that the invariant holds again, since the others stay where they are.
LEMMA StepInv ==
  ASSUME IInv, NEW c \in CPUs,
         \A d \in CPUs \ {c} : at'[d] = at[d],
         TypeOK', at' \in [CPUs -> TimeSteps \cup RamSteps],
         c \in TimeReaders => at'[c] \in TimeSteps,
         c \in RamUsers => at'[c] \in RamSteps,
         lock = "free" \/ lock = c,
         lock' = "free" \/ lock' = c,
         c \in TimeReaders => (lock' = c <=> at'[c].do \in {"select", "in"}),
         c \in RamUsers => (lock' = c <=> at'[c].do \in {"in", "out", "stray"}),
         \A d \in TimeReaders \ {c} : got'[d] = got[d],
         c \in TimeReaders =>
           /\ at'[c].do \in {"select", "in"} =>
                /\ Len(got'[c]) < Len(TimeRegs)
                /\ at'[c].reg = TimeRegs[Len(got'[c]) + 1]
           /\ at'[c].do = "read" => Len(got'[c]) = Len(TimeRegs),
         at'[c].do \in {"in", "out"} => index' = at'[c].reg,
         at'[c].do = "stray" => index' = STAT_D
  PROVE  IInv'
<1>1. TimeReaders \subseteq CPUs /\ RamUsers \subseteq CPUs
      /\ TimeReaders \cap RamUsers = {} /\ "free" \notin CPUs
  BY CmosAssumption DEF CPUs
<1>2. Shape'
  BY <1>1 DEF IInv, Shape
<1>3. Locked'
  <2>1. \A d \in CPUs \ {c} : lock # d /\ lock' # d
    BY <1>1
  <2>2. QED BY <1>1, <2>1 DEF IInv, Locked
<1>4. Progress'
  BY <1>1 DEF IInv, Progress
<1>5. Aimed'
  <2>1. ASSUME NEW d \in CPUs \ {c} PROVE at'[d].do \notin {"in", "out", "stray"}
    <3>1. lock # d /\ at'[d] = at[d]
      BY <1>1
    <3>2. CASE d \in RamUsers
      BY <3>1, <3>2 DEF IInv, Locked
    <3>3. CASE d \in TimeReaders
      <4>1. at[d] \in TimeSteps /\ at[d].do # "in"
        BY <3>1, <3>3 DEF IInv, Shape, Locked
      <4>2. QED BY <3>1, <4>1 DEF TimeSteps
    <3>4. QED BY <3>2, <3>3 DEF CPUs
  <2>2. QED BY <2>1 DEF Aimed
<1>6. QED BY <1>2, <1>3, <1>4, <1>5 DEF IInv

LEMMA StartTimeInv == ASSUME IInv, NEW c \in TimeReaders, StartTime(c) PROVE IInv'
<1>1. c \in CPUs /\ c \notin RamUsers
  BY CmosAssumption DEF CPUs
<1>2. /\ at' = [at EXCEPT ![c] = [do |-> "select", reg |-> SEC]]
      /\ lock = "free" /\ lock' = c
      /\ since' = [since EXCEPT ![c] = now] /\ got' = [got EXCEPT ![c] = << >>]
      /\ UNCHANGED <<now, index, data, mem>>
  BY DEF StartTime, Lock
<1>3. at \in [CPUs -> TimeSteps \cup RamSteps] /\ lock' # "free"
  BY <1>1, <1>2, CmosAssumption DEF IInv, Shape
<1>4. /\ at'[c] = [do |-> "select", reg |-> SEC]
      /\ at'[c].do = "select" /\ at'[c].reg = SEC
      /\ \A d \in CPUs \ {c} : at'[d] = at[d]
  BY <1>1, <1>2, <1>3
<1>5. SEC \in Regs /\ at'[c] \in TimeSteps
  BY <1>4 DEF TimeSteps, Regs, SEC, CMOS_MEM_SIZE
<1>6. at' \in [CPUs -> TimeSteps \cup RamSteps]
  BY <1>2, <1>3, <1>4, <1>5
<1>7. TimeRegs[1] = SEC
  BY DEF TimeRegs
<1>8. /\ \A d \in TimeReaders \ {c} : got'[d] = got[d]
      /\ got'[c] = << >> /\ since' \in [TimeReaders -> DOMAIN Clock]
  BY <1>2 DEF IInv, TypeOK
<1>9. TypeOK'
  BY <1>1, <1>2, <1>4, <1>8, TimeRegsFit DEF IInv, TypeOK
<1>10. Len(got'[c]) < Len(TimeRegs) /\ at'[c].reg = TimeRegs[Len(got'[c]) + 1]
  BY <1>4, <1>7, <1>8, TimeRegsFit
<1>11. QED
  BY <1>1, <1>2, <1>3, <1>4, <1>5, <1>6, <1>8, <1>9, <1>10, StepInv

LEMMA SelectTimeInv == ASSUME IInv, NEW c \in TimeReaders, SelectTime(c) PROVE IInv'
<1>1. c \in CPUs /\ c \notin RamUsers
  BY CmosAssumption DEF CPUs
<1>2. /\ at[c].do = "select" /\ index' = at[c].reg % 128
      /\ at' = [at EXCEPT ![c].do = "in"]
      /\ UNCHANGED <<now, data, mem, lock, since, got>>
  BY DEF SelectTime, WriteIndex
<1>3. /\ at \in [CPUs -> TimeSteps \cup RamSteps]
      /\ at[c] \in [do : {"select", "in"}, reg : Regs]
  BY <1>1, <1>2 DEF IInv, Shape, TimeSteps
<1>4. /\ at'[c].do = "in" /\ at'[c].reg = at[c].reg
      /\ at'[c] \in [do : {"select", "in"}, reg : Regs]
      /\ \A d \in CPUs \ {c} : at'[d] = at[d]
  BY <1>1, <1>2, <1>3
<1>5. at'[c] \in TimeSteps
  BY <1>4 DEF TimeSteps
<1>6. at' \in [CPUs -> TimeSteps \cup RamSteps]
  BY <1>2, <1>3, <1>4, <1>5
<1>7. at[c].reg \in Regs /\ index' = at[c].reg
  BY <1>2, <1>3 DEF Regs, CMOS_MEM_SIZE
<1>8. TypeOK'
  BY <1>1, <1>2, <1>4, <1>7 DEF IInv, TypeOK, Regs
<1>9. /\ lock = c /\ Len(got[c]) < Len(TimeRegs)
      /\ at[c].reg = TimeRegs[Len(got[c]) + 1]
  BY <1>2 DEF IInv, Locked, Progress
<1>10. lock' # "free"
  BY <1>1, <1>2, <1>9, CmosAssumption
<1>11. QED
  BY <1>1, <1>2, <1>4, <1>5, <1>6, <1>7, <1>8, <1>9, <1>10, StepInv

LEMMA FetchTimeInv == ASSUME IInv, NEW c \in TimeReaders, FetchTime(c) PROVE IInv'
<1> DEFINE read == Append(got[c], DataPort)
<1>1. c \in CPUs /\ c \notin RamUsers
  BY CmosAssumption DEF CPUs
<1>2. /\ at[c].do = "in" /\ index' = STAT_D /\ got' = [got EXCEPT ![c] = read]
      /\ UNCHANGED <<now, data, mem, since>>
  BY DEF FetchTime, DataAccessed
<1>3. /\ at \in [CPUs -> TimeSteps \cup RamSteps]
      /\ at[c] \in [do : {"select", "in"}, reg : Regs]
  BY <1>1, <1>2 DEF IInv, Shape, TimeSteps
<1>4. /\ lock = c /\ lock # "free" /\ index = at[c].reg /\ index \in Regs
      /\ Len(got[c]) < 8 /\ got[c] \in Seq(Values)
  BY <1>1, <1>2, <1>3, TimeRegsFit, CmosAssumption
     DEF IInv, Locked, Progress, Aimed, TypeOK, Values
<1>5. DataPort \in Values
  BY <1>4, DataPortByte DEF IInv, TypeOK, Regs, Values
<1>6. read \in Seq(Values) /\ Len(read) = Len(got[c]) + 1 /\ Len(read) \in 1 .. 8
  BY <1>4, <1>5
<1>7. got'[c] = read /\ \A d \in TimeReaders \ {c} : got'[d] = got[d]
  BY <1>2 DEF IInv, TypeOK
<1>8. index' \in 0 .. CMOS_MEM_SIZE - 1
  BY <1>2 DEF STAT_D, CMOS_MEM_SIZE
<1>9. CASE Len(read) < Len(TimeRegs)
  <2> DEFINE next == TimeRegs[Len(read) + 1]
  <2>1. /\ at' = [at EXCEPT ![c] = [do |-> "select", reg |-> next]]
        /\ lock' = lock
    BY <1>9 DEF FetchTime
  <2>2. next \in Regs
    BY <1>6, <1>9, TimeRegsFit
  <2> HIDE DEF next
  <2>3. /\ at'[c] = [do |-> "select", reg |-> next]
        /\ at'[c].do = "select" /\ at'[c].reg = next
        /\ \A d \in CPUs \ {c} : at'[d] = at[d]
    BY <1>1, <1>3, <2>1
  <2>4. at'[c] \in TimeSteps
    BY <2>2, <2>3 DEF TimeSteps
  <2>5. at' \in [CPUs -> TimeSteps \cup RamSteps]
    BY <1>3, <2>1, <2>3, <2>4
  <2>6. TypeOK'
    <3>1. /\ got' \in [TimeReaders -> Seq(0 .. 255)]
          /\ \A d \in TimeReaders : Len(got'[d]) <= Len(TimeRegs)
      BY <1>2, <1>6, <1>7, TimeRegsFit DEF IInv, TypeOK, Values
    <3>2. \A d \in CPUs :
            at'[d].do \in {"idle", "again", "select", "in", "out", "stray", "read"}
      BY <2>3 DEF IInv, TypeOK
    <3>3. QED BY <1>2, <1>8, <2>1, <3>1, <3>2 DEF IInv, TypeOK
  <2>7. at'[c].reg = TimeRegs[Len(got'[c]) + 1] /\ Len(got'[c]) < Len(TimeRegs)
    BY <1>7, <1>9, <2>3 DEF next
  <2>8. QED
    BY <1>1, <1>2, <1>4, <1>7, <2>1, <2>3, <2>4, <2>5, <2>6, <2>7, StepInv
<1>10. CASE ~(Len(read) < Len(TimeRegs))
  <2> DEFINE verdict == IF read[1] = read[Len(read)] THEN "read" ELSE "again"
  <2>1. at' = [at EXCEPT ![c] = [do |-> verdict]] /\ lock' = "free"
    BY <1>10 DEF FetchTime
  <2>2. verdict \in {"read", "again"}
    OBVIOUS
  <2> HIDE DEF verdict
  <2>3. /\ at'[c] = [do |-> verdict] /\ at'[c].do = verdict
        /\ \A d \in CPUs \ {c} : at'[d] = at[d]
    BY <1>1, <1>3, <2>1
  <2>4. at'[c] \in TimeSteps
    BY <2>2, <2>3 DEF TimeSteps
  <2>5. at' \in [CPUs -> TimeSteps \cup RamSteps]
    BY <1>3, <2>1, <2>3, <2>4
  <2>6. TypeOK'
    BY <1>1, <1>2, <1>6, <1>7, <1>8, <2>1, <2>2, <2>3, TimeRegsFit
       DEF IInv, TypeOK, Values
  <2>7. Len(got'[c]) = Len(TimeRegs)
    BY <1>6, <1>7, <1>10, TimeRegsFit
  <2>8. lock' # c
    BY <1>1, <2>1, CmosAssumption
  <2>9. QED
    BY <1>1, <1>2, <1>4, <1>7, <2>1, <2>2, <2>3, <2>4, <2>5, <2>6, <2>7, <2>8, StepInv
<1>11. QED BY <1>9, <1>10

GoesTo(c, to) == at' = [at EXCEPT ![c] = to]

\* What the steps of a CPU that uses the memory have in common.
LEMMA RamStepInv ==
  ASSUME IInv, NEW c \in RamUsers, NEW to \in RamSteps, GoesTo(c, to),
         UNCHANGED <<now, since, got>>, index' \in Regs,
         data' \in [Regs -> Values], mem' \in [RamRegs -> Values],
         lock \in {"free", c}, lock' \in {"free", c},
         lock' = c <=> to.do \in {"in", "out", "stray"},
         to.do \in {"in", "out"} => index' = to.reg,
         to.do = "stray" => index' = STAT_D
  PROVE  IInv'
<1>1. c \in CPUs /\ c \notin TimeReaders
  BY CmosAssumption DEF CPUs
<1>2. at \in [CPUs -> TimeSteps \cup RamSteps]
  BY DEF IInv, Shape
<1>3. at'[c] = to /\ \A d \in CPUs \ {c} : at'[d] = at[d]
  BY <1>1, <1>2 DEF GoesTo
<1>4. at' \in [CPUs -> TimeSteps \cup RamSteps]
  BY <1>2 DEF GoesTo
<1>5. to.do \in {"idle", "out", "in", "stray"}
  BY DEF RamSteps
<1>6. TypeOK'
  <2>1. \A d \in CPUs :
          at'[d].do \in {"idle", "again", "select", "in", "out", "stray", "read"}
    BY <1>3, <1>5 DEF IInv, TypeOK
  <2>2. lock' \in CPUs \cup {"free"}
    BY <1>1
  <2>3. QED BY <2>1, <2>2 DEF IInv, TypeOK, Regs, Values
<1>7. QED BY <1>1, <1>3, <1>4, <1>6, StepInv

\* Both selections reach the register meant, whatever the NMI bit.
LEMMA IndexMasked ==
  ASSUME NEW r \in RamRegs, NEW nmi \in {0, 128}, WriteIndex(r + nmi)
  PROVE  index' = r
<1>1. r \in Nat /\ r + 0 = r
  BY RamRegsFit DEF Regs, CMOS_MEM_SIZE
<1>2. nmi = 0 \/ nmi = 128
  OBVIOUS
<1>3. QED BY <1>1, <1>2, RamRegsFit DEF WriteIndex

\* The two selections.
LEMMA SelectionInv ==
  ASSUME IInv, NEW c \in RamUsers, NEW to \in RamSteps, GoesTo(c, to),
         to.do \in {"in", "out"}, to.reg \in RamRegs, index' = to.reg, Lock(c),
         UNCHANGED <<now, data, mem, since, got>>
  PROVE  IInv'
<1>1. index' \in Regs
  BY RamRegsFit DEF Regs, CMOS_MEM_SIZE
<1>2. lock = "free" /\ lock' = c /\ c # "free"
  BY CmosAssumption DEF Lock, CPUs
<1>3. data \in [Regs -> Values] /\ mem \in [RamRegs -> Values]
  BY DEF IInv, TypeOK, Regs, Values
<1>4. data' \in [Regs -> Values] /\ mem' \in [RamRegs -> Values]
  BY <1>3
<1>5. to.do \in {"in", "out", "stray"} /\ to.do # "stray"
  OBVIOUS
<1>6. lock \in {"free", c} /\ lock' \in {"free", c} /\ (lock' = c <=> to.do \in {"in", "out", "stray"})
  BY <1>2, <1>5
<1>7. (to.do \in {"in", "out"} => index' = to.reg) /\ (to.do = "stray" => index' = STAT_D)
  BY <1>1, <1>5
<1>8. UNCHANGED <<now, since, got>>
  OBVIOUS
<1>9. QED BY <1>1, <1>4, <1>6, <1>7, <1>8, RamStepInv

LEMMA StartRamInv == ASSUME IInv, NEW c \in RamUsers, StartRam(c) PROVE IInv'
<1>1. PICK r \in RamRegs, x \in RamValues, nmi \in {0, 128} :
        /\ Lock(c) /\ WriteIndex(r + nmi)
        /\ at' = [at EXCEPT ![c] = [do |-> "out", reg |-> r, value |-> x]]
        /\ UNCHANGED <<now, data, mem, since, got>>
  BY DEF StartRam
<1> DEFINE to == [do |-> "out", reg |-> r, value |-> x]
<1>2. to \in RamSteps /\ to.do = "out" /\ to.reg = r /\ index' = r
  BY <1>1, IndexMasked DEF RamSteps
<1> HIDE DEF to
<1>3. to.do \in {"in", "out"} /\ GoesTo(c, to)
  BY <1>1, <1>2 DEF to, GoesTo
<1>4. QED BY <1>1, <1>2, <1>3, SelectionInv

LEMMA SelectRamInv == ASSUME IInv, NEW c \in RamUsers, SelectRam(c) PROVE IInv'
<1>1. PICK r \in RamRegs, nmi \in {0, 128} :
        /\ Lock(c) /\ WriteIndex(r + nmi)
        /\ at' = [at EXCEPT ![c] = [do |-> "in", reg |-> r]]
        /\ UNCHANGED <<now, data, mem, since, got>>
  BY DEF SelectRam
<1> DEFINE to == [do |-> "in", reg |-> r]
<1>2. to \in RamSteps /\ to.do = "in" /\ to.reg = r /\ index' = r
  BY <1>1, IndexMasked DEF RamSteps
<1> HIDE DEF to
<1>3. to.do \in {"in", "out"} /\ GoesTo(c, to)
  BY <1>1, <1>2 DEF to, GoesTo
<1>4. QED BY <1>1, <1>2, <1>3, SelectionInv

\* The accesses: each ends with the index on register D.
LEMMA AccessInv ==
  ASSUME IInv, NEW c \in RamUsers, at[c].do \in {"in", "out", "stray"},
         AfterAccess(c), index' = STAT_D,
         data' \in [Regs -> Values], mem' \in [RamRegs -> Values],
         UNCHANGED <<now, since, got>>
  PROVE  IInv'
<1>1. lock = c /\ c # "free"
  BY CmosAssumption DEF IInv, Locked, CPUs
<1>2. index' \in Regs
  BY DEF STAT_D, Regs, CMOS_MEM_SIZE
<1>3. CASE lock' = "free" /\ at' = [at EXCEPT ![c] = [do |-> "idle"]]
  <2>1. [do |-> "idle"] \in RamSteps /\ GoesTo(c, [do |-> "idle"])
    BY <1>3 DEF RamSteps, GoesTo
  <2>2. QED BY <1>1, <1>2, <1>3, <2>1, RamStepInv
<1>4. CASE lock' = lock /\ at' = [at EXCEPT ![c] = [do |-> "stray"]]
  <2>1. [do |-> "stray"] \in RamSteps /\ GoesTo(c, [do |-> "stray"])
    BY <1>4 DEF RamSteps, GoesTo
  <2>2. QED BY <1>1, <1>2, <1>4, <2>1, RamStepInv
<1>5. QED BY <1>3, <1>4 DEF AfterAccess

LEMMA StoreRamInv ==
  ASSUME IInv, NEW c \in RamUsers, StoreRam(c)
  PROVE  /\ IInv'
         /\ at[c].reg \in RamRegs
         /\ \/ UNCHANGED <<data, mem>>
            \/ /\ data' = [data EXCEPT ![at[c].reg] = at[c].value]
               /\ mem' = [mem EXCEPT ![at[c].reg] = at[c].value]
<1>1. /\ at[c].do = "out" /\ WriteData(at[c].value) /\ AfterAccess(c)
      /\ mem' = IF at[c].reg = SHUTDOWN /\ at[c].value = 0
                THEN mem ELSE [mem EXCEPT ![at[c].reg] = at[c].value]
      /\ UNCHANGED <<now, since, got>>
  BY DEF StoreRam
<1>2. at[c].reg \in RamRegs /\ at[c].value \in RamValues
  BY <1>1 DEF IInv, Shape, RamSteps
<1>3. index = at[c].reg
  BY <1>1 DEF IInv, Aimed, CPUs
<1>4. /\ index' = STAT_D
      /\ data' = IF at[c].reg = SHUTDOWN /\ at[c].value = 0
                 THEN data ELSE [data EXCEPT ![at[c].reg] = at[c].value]
  BY <1>1, <1>3 DEF WriteData, Store, DataAccessed
<1>5. at[c].value \in Values
  BY <1>2, CmosAssumption DEF Values
<1>6. data' \in [Regs -> Values] /\ mem' \in [RamRegs -> Values]
  BY <1>1, <1>4, <1>5 DEF IInv, TypeOK, Regs, Values
<1>7. IInv'
  BY <1>1, <1>4, <1>6, AccessInv
<1>8. QED BY <1>1, <1>2, <1>4, <1>7

LEMMA FetchRamInv == ASSUME IInv, NEW c \in RamUsers, FetchRam(c) PROVE IInv'
<1>1. data' \in [Regs -> Values] /\ mem' \in [RamRegs -> Values]
  BY DEF FetchRam, IInv, TypeOK, Regs, Values
<1>2. QED BY <1>1, AccessInv DEF FetchRam, DataAccessed

LEMMA StrayRamInv ==
  ASSUME IInv, NEW c \in RamUsers, StrayRam(c)
  PROVE  /\ IInv' /\ mem' = mem
         /\ \A r \in RamRegs : data'[r] = data[r]
<1>1. PICK x \in RamValues : WriteData(x)
  BY DEF StrayRam
<1>2. at[c].do = "stray" /\ AfterAccess(c) /\ UNCHANGED <<now, mem, since, got>>
  BY DEF StrayRam
<1>3. index = STAT_D
  BY <1>2 DEF IInv, Aimed, CPUs
<1>4. index' = STAT_D /\ data' = [data EXCEPT ![STAT_D] = x]
  BY <1>1, <1>3 DEF WriteData, Store, DataAccessed, STAT_D, SHUTDOWN
<1>5. x \in Values
  BY CmosAssumption DEF Values
<1>6. data \in [Regs -> Values] /\ mem \in [RamRegs -> Values]
  BY DEF IInv, TypeOK, Regs, Values
<1>7. data' \in [Regs -> Values]
  BY <1>4, <1>5, <1>6
<1>8. \A r \in RamRegs : r \in Regs /\ r # STAT_D
  BY RamRegsFit, CmosAssumption DEF STAT_D, DIAGNOSTIC, SHUTDOWN, CENTURY
<1>9. QED BY <1>2, <1>4, <1>6, <1>7, <1>8, AccessInv

LEMMA NextInv == IInv /\ [Next]_vars => IInv'
<1> SUFFICES ASSUME IInv, [Next]_vars PROVE IInv'
  OBVIOUS
<1>1. ASSUME NEW c \in TimeReaders, TimeStep(c) PROVE IInv'
  BY <1>1, StartTimeInv, SelectTimeInv, FetchTimeInv DEF TimeStep
<1>2. ASSUME NEW c \in RamUsers, RamStep(c) PROVE IInv'
  BY <1>2, StartRamInv, StoreRamInv, SelectRamInv, FetchRamInv, StrayRamInv DEF RamStep
<1>3. CASE UNCHANGED vars
  <2> USE <1>3 DEF vars, IInv
  <2>1. TypeOK'
    BY SMT DEF TypeOK
  <2>2. Shape' /\ Locked' /\ Progress'
    BY <1>3 DEF vars, IInv, Shape, Locked, Progress
  <2>3. Aimed'
    BY <1>3 DEF vars, IInv, Aimed
  <2>4. QED BY <2>1, <2>2, <2>3 DEF IInv
<1>4. QED BY <1>1, <1>2, <1>3, TickInv DEF Next

\* The index stays inside data once it has been written, data holds bytes, and
\* each guest CPU is at one of the points of its critical sections.
THEOREM TypeCorrect == Spec => []TypeOK
<1>1. IInv => TypeOK
  BY DEF IInv
<1>2. QED BY InitInv, NextInv, <1>1, PTL DEF Spec

-----------------------------------------------------------------------------
(***************************************************************************)
(* A byte of memory                                                        *)
(***************************************************************************)

\* The device holds what was last stored.
Stored == \A r \in RamRegs : data[r] = mem[r]

RamInv == IInv /\ Stored

LEMMA RamNext == RamInv /\ [Next]_vars => RamInv'
<1> SUFFICES ASSUME RamInv, [Next]_vars PROVE Stored'
  BY NextInv DEF RamInv
<1> USE DEF RamInv
<1>1. CASE UNCHANGED <<data, mem>>
  BY <1>1 DEF Stored
<1>2. CASE Tick \/ UNCHANGED vars
  BY <1>1, <1>2 DEF Tick, vars
<1>3. ASSUME NEW c \in TimeReaders, TimeStep(c) PROVE Stored'
  BY <1>1, <1>3 DEF TimeStep, StartTime, SelectTime, FetchTime
<1>4. ASSUME NEW c \in RamUsers, RamStep(c) PROVE Stored'
  <2>1. CASE StartRam(c) \/ SelectRam(c) \/ FetchRam(c)
    BY <1>1, <2>1 DEF StartRam, SelectRam, FetchRam
  <2>2. CASE StoreRam(c)
    <3>1. /\ data \in [Regs -> Values] /\ mem \in [RamRegs -> Values]
          /\ \A r \in RamRegs : r \in Regs
      BY RamRegsFit DEF IInv, TypeOK, Regs, Values
    <3>2. QED BY <2>2, <3>1, StoreRamInv DEF Stored
  <2>3. CASE StrayRam(c)
    BY <2>3, StrayRamInv DEF Stored
  <2>4. QED BY <1>4, <2>1, <2>2, <2>3 DEF RamStep
<1>5. QED BY <1>2, <1>3, <1>4 DEF Next

\* Whatever the programs store, read and access without selecting, and in whatever
\* order, a byte that is read is the one last stored.
THEOREM MemoryKeeps == Spec => []RamKept
<1>1. Init => RamInv
  <2>1. \A r \in RamRegs : r \in Regs
    BY RamRegsFit
  <2>2. QED BY <2>1, InitInv DEF RamInv, Stored, Init, Regs
<1>2. RamInv => RamKept
  <2> SUFFICES ASSUME RamInv, NEW c \in RamUsers, at[c].do = "in"
               PROVE  DataPort = mem[at[c].reg]
    BY DEF RamKept
  <2>1. at[c].reg \in RamRegs
    BY DEF RamInv, IInv, Shape, RamSteps
  <2>2. index = at[c].reg
    BY DEF RamInv, IInv, Aimed, CPUs
  <2>3. QED BY <2>1, <2>2, DataPortRam DEF RamInv, Stored
<1>3. QED BY <1>1, <1>2, RamNext, PTL DEF Spec

-----------------------------------------------------------------------------
(***************************************************************************)
(* A reading of the time                                                   *)
(***************************************************************************)

\* CPU c has been at its reading for less than a minute: the seconds, which are
\* all the guest compares, have not come round since it began.
Brief(c) ==
  \A i, j \in since[c] .. now : Clock[i].sec = Clock[j].sec => i = j

\* No access to a time register comes a minute after the first of its reading.
BriefReadings == \A c \in TimeReaders : at[c].do = "in" => Brief(c)

\* Value b is field j of a moment between the k-th second and now.
ReadSince(b, j, k) == \E m \in k .. now : b = bin_to_bcd(Fields(Clock[m])[j])

\* The first value of a reading is the seconds of some moment k1 since it
\* began, and every value is of a moment between k1 and now.
Reading(c) ==
  got[c] # << >> =>
    \E k1 \in since[c] .. now :
      /\ got[c][1] = bin_to_bcd(Fields(Clock[k1])[1])
      /\ \A j \in 1 .. Len(got[c]) : ReadSince(got[c][j], j, k1)

Sampled == \A c \in TimeReaders : since[c] <= now /\ Reading(c)

\* The time c has read is the time of some moment since it began.
Time(tm) ==
  << tm.sec, tm.min, tm.hour, tm.mday, tm.mon, tm.year % 100, (tm.year + 1900) \div 100 >>

ATime(c) ==
  \E k \in since[c] .. now : [j \in 1 .. 7 |-> bcd2bin(got[c][j])] = Time(Clock[k])

TimeInv == IInv /\ Sampled /\ TimeIsATime

LEMMA AcceptedIsATime ==
  TimeIsATime <=> \A c \in TimeReaders : at[c].do = "read" => ATime(c)
  BY Zenon DEF TimeIsATime, ATime, Time

LEMMA TimeInit == Init => TimeInv
<1> SUFFICES ASSUME Init PROVE TimeInv
  OBVIOUS
<1>1. IInv
  BY InitInv
<1>2. \A c \in TimeReaders : since[c] = 1 /\ now = 1 /\ got[c] = << >> /\ at[c].do = "idle"
  BY DEF Init, CPUs
<1>3. Sampled
  BY <1>2 DEF Sampled, Reading
<1>4. TimeIsATime
  BY <1>2, AcceptedIsATime
<1>5. QED BY <1>1, <1>3, <1>4 DEF TimeInv

\* Readings that are left alone stay as they are while the clock goes on.
LEMMA TimeFrame ==
  ASSUME TimeInv, NEW c \in TimeReaders, now' \in DOMAIN Clock, now <= now',
         since'[c] = since[c], got'[c] = got[c]
  PROVE  since'[c] <= now' /\ Reading(c)' /\ (ATime(c) => ATime(c)')
<1>1. now \in Nat /\ now' \in Nat /\ since[c] \in Nat /\ since[c] <= now
  BY ClockMoments DEF TimeInv, IInv, TypeOK, Sampled
<1>2. ASSUME got'[c] # << >>
      PROVE  \E k1 \in since'[c] .. now' :
               /\ got'[c][1] = bin_to_bcd(Fields(Clock[k1])[1])
               /\ \A j \in 1 .. Len(got'[c]) : ReadSince(got[c][j], j, k1)'
  <2>1. PICK k1 \in since[c] .. now :
          /\ got[c][1] = bin_to_bcd(Fields(Clock[k1])[1])
          /\ \A j \in 1 .. Len(got[c]) : ReadSince(got[c][j], j, k1)
    BY <1>2 DEF TimeInv, Sampled, Reading
  <2>2. k1 \in since'[c] .. now'
    BY <1>1, <2>1
  <2>3. ASSUME NEW j \in 1 .. Len(got'[c]) PROVE ReadSince(got[c][j], j, k1)'
    <3>1. PICK m \in k1 .. now : got[c][j] = bin_to_bcd(Fields(Clock[m])[j])
      BY <2>1, <2>3 DEF ReadSince
    <3>2. m \in k1 .. now'
      BY <1>1, <2>1, <3>1
    <3>3. QED BY <3>1, <3>2 DEF ReadSince
  <2>4. QED BY <2>1, <2>2, <2>3
<1>3. Reading(c)'
  BY <1>2 DEF Reading
<1>4. since[c] .. now \subseteq since'[c] .. now'
  BY <1>1
<1>5. ATime(c) => ATime(c)'
  BY <1>4 DEF ATime
<1>6. since'[c] <= now'
  BY <1>1
<1>7. QED BY <1>3, <1>5, <1>6

\* A reading begins with nothing read.
LEMMA TimeStarts ==
  ASSUME TimeInv, NEW c \in TimeReaders, StartTime(c)
  PROVE  since'[c] <= now' /\ Reading(c)' /\ at'[c].do # "read"
<1>1. at \in [CPUs -> TimeSteps \cup RamSteps] /\ c \in CPUs /\ now \in Nat
  BY ClockMoments DEF TimeInv, IInv, Shape, CPUs, TypeOK
<1>2. at'[c].do = "select" /\ since'[c] = now /\ got'[c] = << >> /\ now' = now
  BY <1>1 DEF StartTime, TimeInv, IInv, TypeOK
<1>3. QED BY <1>1, <1>2 DEF Reading

\* The value a step reads is a field of this very second.
LEMMA TimeFetched ==
  ASSUME TimeInv, NEW c \in TimeReaders, FetchTime(c)
  PROVE  /\ got[c] \in Seq(Values) /\ Len(got[c]) + 1 \in 1 .. 8
         /\ got'[c] = Append(got[c],
                             bin_to_bcd(Fields(Clock[now])[Len(got[c]) + 1]))
         /\ now' = now /\ since' = since
         /\ at'[c].do = "read" =>
              Len(got'[c]) = 8 /\ got'[c][1] = got'[c][8]
<1> DEFINE n == Len(got[c]) + 1
           read == Append(got[c], DataPort)
<1>1. c \in CPUs /\ at \in [CPUs -> TimeSteps \cup RamSteps]
  BY DEF TimeInv, IInv, Shape, CPUs
<1>2. /\ at[c].do = "in" /\ now' = now /\ since' = since
      /\ got' = [got EXCEPT ![c] = read]
  BY DEF FetchTime
<1>3. /\ index = TimeRegs[n] /\ n \in 1 .. 8 /\ got[c] \in Seq(Values)
      /\ Len(got[c]) \in Nat
  <2>1. got[c] \in Seq(Values) /\ Len(got[c]) \in Nat
    BY DEF TimeInv, IInv, TypeOK, Values
  <2>2. index = TimeRegs[n] /\ Len(got[c]) < Len(TimeRegs)
    BY <1>1, <1>2 DEF TimeInv, IInv, Progress, Aimed
  <2>3. QED BY <2>1, <2>2, TimeRegsFit
<1>4. DataPort = bin_to_bcd(Fields(Clock[now])[n])
  BY <1>3, DataPortTime
<1>5. got'[c] = read
  BY <1>2 DEF TimeInv, IInv, TypeOK
<1>6. ASSUME at'[c].do = "read"
      PROVE  Len(got'[c]) = 8 /\ got'[c][1] = got'[c][8]
  <2>1. Len(read) = n
    BY <1>3
  <2>2. CASE Len(read) < Len(TimeRegs)
    BY <1>1, <1>6, <2>2 DEF FetchTime
  <2>3. CASE ~(Len(read) < Len(TimeRegs))
    <3>1. Len(read) = 8
      BY <1>3, <2>1, <2>3, TimeRegsFit
    <3>2. at'[c].do = IF read[1] = read[Len(read)] THEN "read" ELSE "again"
      BY <1>1, <2>3 DEF FetchTime
    <3>3. QED BY <1>5, <1>6, <3>1, <3>2
  <2>4. QED BY <2>2, <2>3
<1>7. QED BY <1>2, <1>3, <1>4, <1>5, <1>6

\* What has been read so far is still of moments since the first.
LEMMA TimeReads ==
  ASSUME TimeInv, NEW c \in TimeReaders, FetchTime(c)
  PROVE  since'[c] <= now' /\ Reading(c)'
<1> DEFINE n == Len(got[c]) + 1
           b == bin_to_bcd(Fields(Clock[now])[n])
<1>1. /\ got[c] \in Seq(Values) /\ n \in 1 .. 8 /\ Len(got[c]) \in Nat
      /\ got'[c] = Append(got[c], b) /\ now' = now /\ since' = since
  BY TimeFetched
<1>2. now \in Nat /\ since[c] \in Nat /\ since[c] <= now
  BY ClockMoments DEF TimeInv, IInv, TypeOK, Sampled
<1> HIDE DEF b
<1>3. /\ Len(got'[c]) = n /\ got'[c][n] = b
      /\ \A j \in 1 .. Len(got[c]) : got'[c][j] = got[c][j]
  BY <1>1
<1>4. PICK k1 \in since[c] .. now :
        /\ got'[c][1] = bin_to_bcd(Fields(Clock[k1])[1])
        /\ \A j \in 1 .. Len(got[c]) : ReadSince(got[c][j], j, k1)
  <2>1. CASE got[c] = << >>
    <3>1. n = 1 /\ now \in since[c] .. now
      BY <1>2, <2>1
    <3>2. got'[c][1] = bin_to_bcd(Fields(Clock[now])[1])
      BY <1>3, <3>1 DEF b
    <3>3. Len(got[c]) = 0
      BY <2>1
    <3>4. QED BY <3>1, <3>2, <3>3
  <2>2. CASE got[c] # << >>
    <3>1. 1 \in 1 .. Len(got[c])
      BY <1>1, <2>2
    <3>2. QED BY <1>3, <2>2, <3>1 DEF TimeInv, Sampled, Reading
  <2>3. QED BY <2>1, <2>2
<1>5. ASSUME NEW j \in 1 .. Len(got'[c]) PROVE ReadSince(got[c][j], j, k1)'
  <2>1. CASE j = n
    <3>1. now \in k1 .. now'
      BY <1>1, <1>2, <1>4
    <3>2. got'[c][j] = bin_to_bcd(Fields(Clock[now])[j])
      BY <1>3, <2>1 DEF b
    <3>3. QED BY <3>1, <3>2 DEF ReadSince
  <2>2. CASE j # n
    <3>1. j \in 1 .. Len(got[c])
      BY <1>1, <1>3, <1>5, <2>2
    <3>2. QED BY <1>1, <1>3, <1>4, <3>1 DEF ReadSince
  <2>3. QED BY <2>1, <2>2
<1>6. QED BY <1>1, <1>2, <1>4, <1>5 DEF Reading

LEMMA SecondsTell ==
  ASSUME TimeInv, NEW c \in TimeReaders, Brief(c),
         NEW i \in since[c] .. now, NEW j \in since[c] .. now,
         bin_to_bcd(Fields(Clock[i])[1]) = bin_to_bcd(Fields(Clock[j])[8])
  PROVE  i = j
<1>1. Clock[i] \in Moments /\ Clock[j] \in Moments
  <2>1. now \in DOMAIN Clock /\ since[c] \in DOMAIN Clock
    BY DEF TimeInv, IInv, TypeOK
  <2>2. i \in DOMAIN Clock /\ j \in DOMAIN Clock
    BY <2>1, ClockMoments
  <2>3. QED BY <2>2, ClockMoments
<1>2. /\ Fields(Clock[i])[1] = Clock[i].sec /\ Fields(Clock[j])[8] = Clock[j].sec
      /\ Fields(Clock[i])[1] \in 0 .. 99 /\ Fields(Clock[j])[8] \in 0 .. 99
  BY <1>1, FieldsAt, FieldsFit
<1>3. Clock[i].sec = Clock[j].sec
  BY <1>2, BcdInjective
<1>4. QED BY <1>3 DEF Brief

\* The values of a moment's registers are its time.
LEMMA DigitsBack ==
  ASSUME NEW tm \in Moments, NEW values,
         \A j \in 1 .. 7 : values[j] = bin_to_bcd(Fields(tm)[j])
  PROVE  [j \in 1 .. 7 |-> bcd2bin(values[j])] = Time(tm)
<1>1. \A j \in 1 .. 7 : bcd2bin(values[j]) = Fields(tm)[j]
  BY FieldsFit, BcdBack
<1> DEFINE got7 == [j \in 1 .. 7 |-> bcd2bin(values[j])]
<1>2. /\ got7[1] = Fields(tm)[1] /\ got7[2] = Fields(tm)[2] /\ got7[3] = Fields(tm)[3]
      /\ got7[4] = Fields(tm)[4] /\ got7[5] = Fields(tm)[5] /\ got7[6] = Fields(tm)[6]
      /\ got7[7] = Fields(tm)[7]
  BY <1>1
<1> DEFINE y == tm.year % 100
           century == (tm.year + 1900) \div 100
<1>3. /\ Fields(tm)[1] = tm.sec  /\ Fields(tm)[2] = tm.min /\ Fields(tm)[3] = tm.hour
      /\ Fields(tm)[4] = tm.mday /\ Fields(tm)[5] = tm.mon
      /\ Fields(tm)[6] = y /\ Fields(tm)[7] = century
  BY FieldsAt
<1>4. got7 = [j \in 1 .. 7 |-> got7[j]]
  OBVIOUS
<1> HIDE DEF y, century, got7
<1>5. got7 = << tm.sec, tm.min, tm.hour, tm.mday, tm.mon, y, century >>
  BY <1>2, <1>3, <1>4
<1>6. QED BY <1>5 DEF y, century, got7, Time

\* A reading that ends on the seconds it began with is of that very second.
LEMMA TimeAcceptedNow ==
  ASSUME TimeInv, BriefReadings, NEW c \in TimeReaders, FetchTime(c),
         at'[c].do = "read"
  PROVE  ATime(c)'
<1>1. /\ since'[c] <= now' /\ Len(got'[c]) = 8 /\ got'[c][1] = got'[c][8]
      /\ now' = now /\ since' = since
  BY TimeReads, TimeFetched
<1>2. now \in Nat /\ since[c] \in Nat /\ now \in DOMAIN Clock /\ since[c] >= 1
  BY ClockMoments DEF TimeInv, IInv, TypeOK
<1>3. PICK k1 \in since'[c] .. now' :
        /\ got'[c][1] = bin_to_bcd(Fields(Clock[k1])[1])
        /\ \A j \in 1 .. Len(got'[c]) : ReadSince(got[c][j], j, k1)'
  <2>1. got'[c] # << >>
    BY <1>1
  <2>2. QED BY <2>1, TimeReads DEF Reading
<1>4. /\ k1 \in DOMAIN Clock /\ k1 \in Nat /\ k1 <= now
      /\ \A m \in k1 .. now : m \in DOMAIN Clock
  BY <1>1, <1>2, <1>3, ClockMoments
<1>5. got'[c][8] = bin_to_bcd(Fields(Clock[now])[8])
  BY TimeFetched, <1>1
<1>6. k1 = now
  <2>1. Brief(c)
    BY DEF BriefReadings, FetchTime
  <2>2. k1 \in since[c] .. now /\ now \in since[c] .. now
    BY <1>1, <1>2, <1>3
  <2>3. bin_to_bcd(Fields(Clock[k1])[1]) = bin_to_bcd(Fields(Clock[now])[8])
    BY <1>1, <1>3, <1>5
  <2>4. QED BY <2>1, <2>2, <2>3, SecondsTell
<1>7. \A j \in 1 .. 7 : got'[c][j] = bin_to_bcd(Fields(Clock[now])[j])
  <2>1. ASSUME NEW j \in 1 .. 7 PROVE got'[c][j] = bin_to_bcd(Fields(Clock[now])[j])
    <3>1. PICK m \in k1 .. now' : got'[c][j] = bin_to_bcd(Fields(Clock[m])[j])
      BY <1>1, <1>3 DEF ReadSince
    <3>2. m = now
      BY <1>1, <1>2, <1>6, <3>1
    <3>3. QED BY <3>1, <3>2
  <2>2. QED BY <2>1
<1>8. Clock[now] \in Moments /\ now \in since'[c] .. now'
  BY <1>1, <1>2, ClockMoments
<1>9. [j \in 1 .. 7 |-> bcd2bin(got'[c][j])] = Time(Clock[now])
  <2>1. PICK values : values = got'[c]
    OBVIOUS
  <2>2. PICK tm : tm = Clock[now]
    OBVIOUS
  <2>3. /\ tm \in Moments
        /\ \A j \in 1 .. 7 : values[j] = bin_to_bcd(Fields(tm)[j])
    BY <1>7, <1>8, <2>1, <2>2
  <2>4. [j \in 1 .. 7 |-> bcd2bin(values[j])] = Time(tm)
    BY <2>3, DigitsBack
  <2>5. QED BY <2>1, <2>2, <2>4
<1>10. QED BY <1>8, <1>9 DEF ATime

LEMMA TimeNext == TimeInv /\ BriefReadings /\ [Next]_vars => TimeInv'
<1> SUFFICES ASSUME TimeInv, BriefReadings, [Next]_vars PROVE TimeInv'
  OBVIOUS
<1>1. IInv' /\ now' \in DOMAIN Clock
  BY NextInv DEF TimeInv, IInv, TypeOK
<1>2. now \in Nat /\ now <= now'
  <2>1. now \in Nat
    BY ClockMoments DEF TimeInv, IInv, TypeOK
  <2>2. now' = now \/ now' = now + 1
    BY DEF Next, Tick, TimeStep, StartTime, SelectTime, FetchTime, RamStep, StartRam,
           StoreRam, SelectRam, FetchRam, StrayRam, AfterAccess, vars
  <2>3. QED BY <2>1, <2>2
<1> DEFINE Good(d) == /\ since'[d] <= now' /\ Reading(d)'
                      /\ at'[d].do = "read" => ATime(d)'
<1>3. ASSUME NEW d \in TimeReaders, since'[d] = since[d], got'[d] = got[d],
             at'[d].do = "read" => at[d].do = "read"
      PROVE  Good(d)
  BY <1>1, <1>2, <1>3, TimeFrame, AcceptedIsATime DEF TimeInv
<1>4. \A d \in TimeReaders : Good(d)
  <2>1. /\ at \in [CPUs -> TimeSteps \cup RamSteps]
        /\ since \in [TimeReaders -> DOMAIN Clock]
        /\ got \in [TimeReaders -> Seq(0 .. 255)]
        /\ TimeReaders \subseteq CPUs /\ TimeReaders \cap RamUsers = {}
    BY CmosAssumption DEF TimeInv, IInv, Shape, TypeOK, CPUs
  <2>2. ASSUME UNCHANGED <<since, got>>, \A d \in TimeReaders : at'[d] = at[d]
        PROVE  \A d \in TimeReaders : Good(d)
    BY <1>3, <2>2
  <2>3. CASE Tick \/ UNCHANGED vars
    BY <2>2, <2>3 DEF Tick, vars
  <2>4. ASSUME NEW c \in RamUsers, RamStep(c)
        PROVE  UNCHANGED <<since, got>> /\ \A d \in TimeReaders : at'[d] = at[d]
    BY <2>1, <2>4 DEF RamStep, StartRam, StoreRam, SelectRam, FetchRam, StrayRam,
        AfterAccess
  <2>5. ASSUME NEW c \in TimeReaders, TimeStep(c), NEW d \in TimeReaders, d # c
        PROVE  since'[d] = since[d] /\ got'[d] = got[d] /\ at'[d] = at[d]
    BY <2>1, <2>5 DEF TimeStep, StartTime, SelectTime, FetchTime
  <2>6. ASSUME NEW c \in TimeReaders, TimeStep(c)
        PROVE  Good(c)
    <3>1. CASE StartTime(c)
      BY <3>1, TimeStarts
    <3>2. CASE SelectTime(c)
      <4>1. at'[c].do = "in" /\ since' = since /\ got' = got
        BY <2>1, <3>2 DEF SelectTime
      <4>2. QED BY <1>3, <4>1
    <3>3. CASE FetchTime(c)
      BY <3>3, TimeReads, TimeAcceptedNow
    <3>4. QED BY <2>6, <3>1, <3>2, <3>3 DEF TimeStep
  <2>7. ASSUME NEW c \in TimeReaders, TimeStep(c), NEW d \in TimeReaders
        PROVE  Good(d)
    BY <1>3, <2>5, <2>6, <2>7
  <2>8. QED BY <2>2, <2>3, <2>4, <2>7 DEF Next
<1>5. Sampled'
  BY <1>4 DEF Sampled
<1>6. TimeIsATime'
  <2>1. (TimeIsATime <=> \A c \in TimeReaders : at[c].do = "read" => ATime(c))'
    BY AcceptedIsATime, PTL
  <2>2. QED BY <1>4, <2>1
<1>7. QED BY <1>1, <1>5, <1>6 DEF TimeInv

\* The time a guest accepts is a time the clock has shown during the reading,
\* whatever the other CPUs do and however long the machine runs, as long as no
\* reading takes a minute or more. Without that the seconds may have come round.
THEOREM AcceptedTimesAreTimes == Spec /\ []BriefReadings => []TimeIsATime
<1>1. TimeInv => TimeIsATime
  BY DEF TimeInv
<1>2. QED BY TimeInit, TimeNext, <1>1, PTL DEF Spec

=============================================================================
