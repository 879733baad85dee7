CONSTANTS
  NumCores = 3
  Sleepers = {1, 4}
  CpuOf <- Modulo
  Ticks = {0, 1}
  MaxTick = 2
  Users = {u1, u2}
  Lbas = {l1, l2}
  Datas = {d1, d2}
  NoData = NoData
  None = None
  MaxRequests = 3
SPECIFICATION Spec
INVARIANTS OwnContext SectorTransferred
PROPERTIES  RequestsEnd
CHECK_DEADLOCK FALSE
