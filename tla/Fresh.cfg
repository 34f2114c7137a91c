SPECIFICATION FairSpec
CONSTANTS
  v1 = v1
  v2 = v2
  a1 = a1
  a2 = a2
  main = main
  next = next
  Visitor = {v1, v2}
  Admin = {a1, a2}
  Branch = {main, next}
  MaxPush = 2
  NoBranch = NoBranch
  Nobody = Nobody
INVARIANTS
  PatchInv
PROPERTIES
  OthersDefaultIsKept
  HeadFollowsDefault
  EventuallyFresh
