CONSTANTS
  CacheKeys = {k1, k2, k3, k4}
  NoKey = NoKey
  Callers = {h1, h2}
  MaxEntries = 3
  TTL = 1
  MaxClock = 2
  MaxFlips = 1
SYMMETRY Symmetry
SPECIFICATION CacheSpec
CHECK_DEADLOCK FALSE
INVARIANTS CacheInv
PROPERTIES IsLruCache
