SPECIFICATION Spec
CONSTANTS
  LastPeriod = 1
  MaxOrders = 2
  BillingOffset <- BillAhead
  TelcoOffset = 0
  Activated = FALSE
  Offers = {standard, premium}
  InitialOffer = standard
  NoOffer = NoOffer
  MaxOps = 1
  MaxFailures = 1
  MaxCrashes = 0
INVARIANTS
  TypeOK
  
  

  
CHECK_DEADLOCK FALSE
