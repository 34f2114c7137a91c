SPECIFICATION Spec
CONSTANTS
  p1 = p1
  p2 = p2
  main = main
  feature = feature
  Push = {p1, p2}
  Branch = {main, feature}
  MaxOid = 3
SYMMETRY Symmetry
INVARIANTS
  PushInv
PROPERTIES
  DefaultProtected
