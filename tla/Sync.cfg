SPECIFICATION FairSpec
CONSTANTS
  w1 = w1
  w2 = w2
  t1 = t1
  t2 = t2
  Worker = {w1, w2}
  Daemon = w1
  Task = {t1, t2}
  MaxPull = 2
  PageSize = 1
  Nobody = Nobody
INVARIANTS
  SyncInv
PROPERTIES
  CompletedIsLeftAlone
  NothingIsPassedOver
  EveryMergeCompletes
