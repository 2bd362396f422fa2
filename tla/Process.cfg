SPECIFICATION MCSpec
CONSTANTS
  Thread = {t1, t2}
  Index = {i1, i2}
  Window = 2
  MaxDraw = 3
  MaxReset = 2
  Pd = {p1, p2}
  UserPd = {x1, x2}
  Td = {td1, td2}
  UserTd = {y1}
  None = None
  Ctx = {c1, c2, c3}
  Device <- MCDevice
  Version <- MCVersion
  dpcp_version <- MCdpcp_version
INVARIANTS CounterAccounted StaleIdsDetected ProviderConsistent
PROPERTIES LoopEnds DomainsAccounted
CHECK_DEADLOCK FALSE
