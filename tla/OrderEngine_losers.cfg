SPECIFICATION Spec
CONSTANTS
  Orders = {o1}
  NoOrder = NoOrder
  Workers = {w1, w2}
  NumSteps = 2
  DelaySteps = {0}
  NumRetries = 1
  MaxAborts = 0
  MaxReruns = 0
  MaxCrashes = 0
  MaxFaults = 0
  MaxEvents = 0
PROPERTIES
  LosersChangeNothing
CHECK_DEADLOCK FALSE
