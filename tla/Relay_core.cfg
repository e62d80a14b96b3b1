CONSTANTS
  s1 = s1
  c1 = c1
  c2 = c2
  h1 = h1
  Streamed = {s1}
  Clients = {c1}
  Shards = {h1}
  ShardOf <- OneShard
  MaxPush = 1
  MaxStatus = 1
  BufferLimit = 2
  MaxConns = 1
  SendCap = 1
  QueueCap = 1
  BatchSize = 1
  HistoryLimit = 2
  Expiring = {s1}
  Sweeping = {}
  MaxBreaks = 1
SPECIFICATION RelaySpec
CHECK_DEADLOCK FALSE
INVARIANTS
  RelayInv
  NoDuplicates
