SPECIFICATION MCSpec
CONSTANTS
  DeviceCaps <- MCDeviceCaps
  FailureSets <- MCFailureSets
  NodeAttrs <- MCNodeAttrs
  TableAttrs <- MCTableAttrs
  MaxFailed = 2
  MaxIds = 6
  Nothing = Nothing
  None = None
  PacingEntry = {e1, e2, e3}
  Handle = {h1, h2}
  TirAttrs <- MCTirAttrs
  TisAttrs <- MCTisAttrs
  DekAttrs <- MCDekAttrs
  TableAttrsOfTags <- MCTableAttrsOfTags
INVARIANTS NothingOverstated RefusedOnlyBeyondCaps QueryTells ObjectsAccounted KeyAsAsked SyncedUnlessLost PacingSound
PROPERTY StaleForGood
SYMMETRY Symmetry
CHECK_DEADLOCK FALSE
