SPECIFICATION Spec
CONSTANTS
  author = author
  reviewer = reviewer
  h1 = h1
  h2 = h2
  User = {author, reviewer}
  Handler = {h1, h2}
  Branch = {main, feature}
  main = main
  feature = feature
  MaxPull = 2
  MaxOid = 4
  MaxReviews = 0
  RoleOf <- MCFixedRoleOf
  Faults = {"torn_marker", "torn_refs"}
  NoHandler = NoHandler
SYMMETRY Symmetry
INVARIANTS
  MergeRecoverable
  MergedIsProved
  MarkerIsTrustworthy
  ReadsAreSettled
  AnswerIsTruth
  IInv
PROPERTIES
  MergeIsAtomic
  MergeTakesCurrentTips
  MergedIsFinal
