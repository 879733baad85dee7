\* Three threads started by boot share a core: its init thread, a kernel thread
\* that joins and a process.
SPECIFICATION LiveSpec
CONSTANTS
  m0 = m0
  m1 = m1
  a = a
  b = b
  p = p
  s0 = s0
  s1 = s1
  None = None
  NumCores = 1
  Threads = {m0, a, p}
  Main <- Main1
  Processes = {p}
  Boot <- Boot3
  Joiners = {a}
  Faulty = {}
  Semas = {s0}
  SemaCore <- SemaCore1
  IsrSemas = {s0}
  InitCnt <- InitCnt1
  MaxCnt = 1
PROPERTIES
  NoStarvation
  JoinReturns
