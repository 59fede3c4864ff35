SPECIFICATION Spec
CONSTANTS
  Orders = {o1}
  NoOrder = NoOrder
  Workers = {w1, w2}
  NumSteps = 2
  DelaySteps = {0}
  NumRetries = 1
  MaxAborts = 1
  MaxReruns = 1
  MaxCrashes = 1
  MaxFaults = 1
  MaxEvents = 2
SYMMETRY Symmetry
INVARIANTS
  Exclusive
  
  StepsAreExact
PROPERTIES
  DecisionsStand
CHECK_DEADLOCK FALSE
