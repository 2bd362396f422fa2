SPECIFICATION AdapterSpec
CONSTANTS
  Pd = {p1, p2}
  UserPd = {x1, x2}
  Td = {t1, t2}
  UserTd = {y1}
  None = None
INVARIANT OkMeansPd
CHECK_DEADLOCK FALSE
