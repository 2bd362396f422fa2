SPECIFICATION Spec
CONSTANTS
  Rule = {r1, r2}
  Tir = {t1}
  Value = {v1}
  FlowId = {1048575, 1048576}
  Flow = {f1, f2}
  MaxTirs = 2
  Null = Null
SYMMETRY Symmetry
INVARIANTS GetMeansInstalled OwnFlow OrphanOnlyByReapply
