SPECIFICATION Spec
CONSTANTS
  Flow <- ShortFlow
  Listed <- SeededList
  Orders = {1, 2}
  NoOrder = NoOrder
  Jobs = {j1, j2}
  MaxMishaps = 1
SYMMETRY Symmetry
INVARIANTS
  TypeOK
  SingleOrder
  InOrder
  
CHECK_DEADLOCK FALSE
