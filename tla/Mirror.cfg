SPECIFICATION FairSpec
CONSTANTS
  Repo = {1, 2}
  Margin = 1
  ListTimeout = 1
  MaxTime = 2
  MaxCommits = 1
INVARIANTS
  MirrorInv
  TargetCovered
  InventoryComplete
PROPERTIES
  LossNeedsNewcomer
  EventuallyCurrent
