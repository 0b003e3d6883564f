SPECIFICATION FairSpec
CONSTANTS
  Reservation = {t1, t2}
  Row = {p1, p2}
  NoRow = NoRow
  MaxNeed = 1
  MaxStock = 2
  MaxAttempts = 2
  FlushAt = 2
  MaxBuffered = 5
  Samples = 3
  LastTime = 3
  Widths = {0, 2, 3}
  MaxPoints = 2
  Delivery = {d1, d2}
  StaleAfter = 6
  BaseDelay = 1
  MaxRetries = 3
  MaxFaults = 1
  Order = {o1}
  Absent = Absent
  Reader = {r1}
  MaxCacheFaults = 1
  App = {i1, i2}
  MaxRows = 2
  BatchSize = 1
  MaxRelayFaults = 2
INVARIANTS
  TypeOK
  WaitsEnd
  SampleAwaited
  ShutdownAwaitsFlush
  HistoryNewest
  LiveClaimChargedOnce
PROPERTIES
  LedgerSpec
  PromiseSpec
  EventuallySettled
  ClaimEventuallyDecided
  EventuallyListed
  EventuallyPublished
CHECK_DEADLOCK FALSE
