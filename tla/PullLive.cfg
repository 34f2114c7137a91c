SPECIFICATION MCLiveSpec
CONSTANTS
  author = author
  reviewer = reviewer
  h1 = h1
  h2 = h2
  User = {author, reviewer}
  Handler = {h1, h2}
  Branch = {main, feature}
  main = main
  feature = feature
  MaxPull = 1
  MaxOid = 4
  MaxReviews = 0
  RoleOf <- MCFixedRoleOf
  Faults = {"session_loss", "torn_refs"}
  NoHandler = NoHandler
PROPERTIES
  MergeEventuallyRecorded
  GitLosesNothing
