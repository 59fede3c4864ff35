SPECIFICATION Spec
CONSTANTS
  Orders = {o1, o2}
  NoOrder = NoOrder
  Workers = {w1, w2}
  Cost = 3
  InitialCredit = 4
  MaxCredits = 3
  MaxInvoices = 3
  MaxStops = 1
  MaxOverlaps = 1
  MaxRefunds = 2
SYMMETRY Symmetry
INVARIANTS
  TypeOK
  CreditsNotOverdrawn
  StatusIsTrue
  MoneyIsExact
CHECK_DEADLOCK FALSE
