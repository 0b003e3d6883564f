SPECIFICATION OrderCacheSpec
CONSTANTS
  Order = {o1, o2}
  Absent = Absent
  Reader = {r1}
  MaxCacheFaults = 0
INVARIANTS
  CachedListCurrent
CHECK_DEADLOCK FALSE
