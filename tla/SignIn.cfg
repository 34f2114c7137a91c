SPECIFICATION FairSpec
CONSTANTS
  None = None
  h1 = h1
  h2 = h2
  h3 = h3
  h4 = h4
  a1 = a1
  a2 = a2
  n1 = n1
  Host = {h1, h2, h3, h4}
  Attempt = {a1, a2}
  Name = {n1}
  Limit = 2
  Window = 1
  TableSize = 2
INVARIANTS
  SignInInv
  FailuresBounded
  TableBounded
  AccountIsWhole
PROPERTIES
  LockoutEnds
