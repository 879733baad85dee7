\* Two cores, one kernel thread started by boot, one started later, one
\* process; a disk-like semaphore on core 1.
SPECIFICATION Spec
CONSTANTS
  m0 = m0
  m1 = m1
  a = a
  b = b
  p = p
  s0 = s0
  s1 = s1
  None = None
  NumCores = 2
  Threads = {m0, m1, a, b, p}
  Main <- Main2
  Processes = {p}
  Boot <- Boot2
  Joiners = {a}
  Faulty = {p}
  Semas = {s0, s1}
  SemaCore <- SemaCore2
  IsrSemas = {s1}
  InitCnt <- InitCnt2
  MaxCnt = 2
INVARIANTS
  TypeOK
  OnePlace
  NeverLost
  QueuesAccounted
  NoLostWakeup
CHECK_DEADLOCK FALSE
