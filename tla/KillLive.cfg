SPECIFICATION KillLiveSpec
CONSTANTS
  m0 = m0
  m1 = m1
  a = a
  p = p
  s1 = s1
  None = None
  NumCores = 2
  Threads = {m0, m1, a, p}
  Main <- Main2
  Processes = {p}
  Boot <- Boot2
  Joiners = {a}
  Faulty = {}
  Semas = {}
  SemaCore <- NoFun
  IsrSemas = {}
  InitCnt <- NoFun
  MaxCnt = 1
PROPERTIES
  EndedStaysOff
  KilledInUserDies
