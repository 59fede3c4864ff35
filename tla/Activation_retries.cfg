SPECIFICATION Spec
CONSTANTS
  Orders = {o1, o2}
  NoOrder = NoOrder
  Workers = {w1, w2}
  MaxSubs = 3
  MaxStops = 1
  MaxOverlaps = 1
  MaxCancels = 1
SYMMETRY Symmetry
INVARIANTS
  TypeOK
  EntitlementsFollow
  DoneOnce
  RewardIsSound
CHECK_DEADLOCK FALSE
