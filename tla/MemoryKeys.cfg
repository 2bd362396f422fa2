SPECIFICATION Spec
CONSTANTS
  Key = {k1, k2, k3}
  Id = {i1, i2}
  Space = 8
  Word = 4
  Half = 2
  Regions <- MCRegions
  Unchecked <- MCUnchecked
  Block <- MCBlock
  MaxBlocks = 2
  NoId = NoId
  ReservedId = Reserved
  None = None
SYMMETRY MCSymmetry
INVARIANTS OwnersAgree RefsBacked PatternsAgree
CHECK_DEADLOCK FALSE
