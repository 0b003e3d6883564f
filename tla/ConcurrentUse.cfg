SPECIFICATION Spec
CONSTANTS
  CartId = {c1, c2}
  NoCart = NoCart
  Product = {sold, retired}
  Retired = {retired}
  Quantity = {1}
  Session = {s1, s2}
  Token = {k1, k2, k3}
  Family = {f1, f2}
  NoFamily = NoFamily
  NoToken = NoToken
  Client = {t1, t2}
  Load = {l1, l2}
  Channel = {h1, h2}
  NoChannel = NoChannel
  Queues = 2
  Order = {o1, o2}
  Absent = Absent
  Reader = {r1}
  MaxCacheFaults = 1
  App = {i1, i2}
  MaxRows = 3
  BatchSize = 2
  MaxRelayFaults = 1
INVARIANTS
  TypeOK
  OneOpenCart
  OrderedOnce
  OrderMatchesCart
  RetiredLinesGone
  OneLivePerFamily
  SessionEndExplained
  GaugesExplained
  CacheTruthful
  ListMissesExplained
  SentOncePerFault
  NudgeNotLost
PROPERTIES
  RelayPromiseSpec
SYMMETRY Swaps
CHECK_DEADLOCK FALSE
