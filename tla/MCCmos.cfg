SPECIFICATION Spec
CONSTANTS
  Clock <- MCClock
  TimeReaders = {t}
  RamUsers = {r1, r2}
  t = t
  r1 = r1
  r2 = r2
  RamRegs = {14, 15}
  RamValues = {0, 10}
  InitialIndex = {0, 15, 200}
INVARIANTS TypeOK TimeIsATime RamKept
CHECK_DEADLOCK FALSE
