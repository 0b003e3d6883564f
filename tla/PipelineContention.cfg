SPECIFICATION Spec
CONSTANTS
  o1 = o1
  o2 = o2
  p1 = p1
  p2 = p2
  Order = {o1, o2}
  Product = {p1, p2}
  Lines <- ContendedLines
  InitialStock <- ContendedStock
  Payer = {}
  Canceller = {1, 2}
  MaxCopies = 1
  BatchSize = 2
  MaxRetries = 0
  MaxCrashes = 0
  LowStock = 0
  RestockAt = 0
  Restock = 1
  StockCap = 1
INVARIANTS
  StockMatchesStatus
  UnitsAccounted
PROPERTIES
  LedgerSpec
CHECK_DEADLOCK FALSE
