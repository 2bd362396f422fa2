SPECIFICATION Spec
CONSTANTS
  Table = {root, t1, t2}
  Root = root
  Group = {g1}
  Rule = {r1}
  Action = {a1}
  MaxLevel = 2
  Null = Null
SYMMETRY Symmetry
INVARIANTS NoPremature NothingLeft NoCrash MissClimbs ExpiredOnlyIfHeld
CHECK_DEADLOCK FALSE
