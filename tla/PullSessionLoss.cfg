SPECIFICATION Spec
CONSTANTS
  author = author
  reviewer = reviewer
  h1 = h1
  h2 = h2
  User = {author, reviewer}
  Handler = {h1, h2}
  Branch = {main, feature}
  main = main
  feature = feature
  MaxPull = 1
  MaxOid = 3
  MaxReviews = 0
  RoleOf <- MCFixedRoleOf
  Faults = {"session_loss"}
  NoHandler = NoHandler
SYMMETRY Symmetry
INVARIANTS
  MergeRecoverable
