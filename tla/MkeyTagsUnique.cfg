SPECIFICATION Spec
CONSTANTS
  Thread = {t1, t2}
  Index = {i1, i2}
  Window = 3
  MaxDraw = 3
  MaxReset = 0
INVARIANTS UniqueValue
CHECK_DEADLOCK FALSE
