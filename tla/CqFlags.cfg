SPECIFICATION Spec
CONSTANTS
  W = 20
  StrideField = 16
  NumField = 32
  MAX_CQ_SZ = 4096
  Page = 64
  NumArg <- MCNum
  SzArg <- MCSz
  StrideNumArg <- MCStrideNum
  StrideSzArg <- MCStrideSz
  LogArg <- MCLog
  Hangs = Hangs
  CqAttrs <- MCCqAttrs
  RqAttrs <- MCRqAttrs
  IbqAttrs <- MCIbqAttrs
  SqAttrs <- MCSqAttrs
  States <- MCStates
  Match <- MCMatch
  Enabled <- MCEnabled
  Legacy <- MCLegacy
  Packets <- MCPackets
  Rules <- MCRules
  Garbage <- MCGarbage
INVARIANT CqFlagsAsMarked
