SPECIFICATION Spec
CONSTANTS
  o1 = o1
  o2 = o2
  p1 = p1
  p2 = p2
  Order = {o1}
  Product = {p1}
  Lines <- FaultLines
  InitialStock <- FaultStock
  Payer = {1}
  Canceller = {1}
  MaxCopies = 2
  BatchSize = 1
  MaxRetries = 1
  MaxCrashes = 1
  LowStock = 0
  RestockAt = 0
  Restock = 1
  StockCap = 0
INVARIANTS
  TypeOK
  EventsMatchStatus
  ChargeMatchesStatus
  InboxMatchesStatus
  NoEventLost
  MailAfterOutcome
PROPERTIES
  LifecycleSpec
  RelaySpec
CHECK_DEADLOCK FALSE
