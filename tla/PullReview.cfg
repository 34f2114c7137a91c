SPECIFICATION Spec
CONSTANTS
  author = author
  reviewer = reviewer
  h1 = h1
  h2 = h2
  User = {author, reviewer}
  Handler = {h1, h2}
  Branch = {main, feature}
  main = main
  feature = feature
  MaxPull = 1
  MaxOid = 3
  MaxReviews = 2
  RoleOf <- MCRoleOf
  Faults = {}
  NoHandler = NoHandler
SYMMETRY Symmetry
PROPERTIES
  ReviewGate
