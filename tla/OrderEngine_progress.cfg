SPECIFICATION FairSpec
CONSTANTS
  Orders = {o1}
  NoOrder = NoOrder
  Workers = {w1, w2}
  NumSteps = 3
  DelaySteps = {1}
  NumRetries = 1
  MaxAborts = 1
  MaxReruns = 0
  MaxCrashes = 0
  MaxFaults = 0
  MaxEvents = 1
INVARIANTS
  TypeOK
  ProgressIsSound
PROPERTIES
  LifecycleSpec
  
CHECK_DEADLOCK FALSE
