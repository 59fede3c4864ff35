SPECIFICATION FairSpec
CONSTANTS
  LastPeriod = 1
  MaxOrders = 2
  BillingOffset <- BillAhead
  TelcoOffset = 0
  Activated = TRUE
  Offers = {standard, premium}
  InitialOffer = standard
  NoOffer = NoOffer
  MaxOps = 1
  MaxFailures = 0
  MaxCrashes = 1
INVARIANTS
  PendingIsServed
PROPERTIES
  PendingSettles
  CancelledEnds
CHECK_DEADLOCK FALSE
