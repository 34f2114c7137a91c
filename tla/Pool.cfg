SPECIFICATION FairSpec
\* The system may stop: two holders of the last two connections wait for a third.
CHECK_DEADLOCK FALSE
CONSTANTS
  r1 = r1
  r2 = r2
  r3 = r3
  k1 = k1
  k2 = k2
  Request = {r1, r2, r3}
  Repo = {k1, k2}
  PoolSize = 2
  GitSlots = 2
  TransferSlots = 1
  MaxSteps = 1
  Nobody = Nobody
INVARIANTS
  PoolInv
  PoolDrains
  SlotsDrain
PROPERTIES
  EveryRequestEnds
