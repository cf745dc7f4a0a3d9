SPECIFICATION PacksSpec
CONSTANTS
  d1 = d1
  packA = packA
  packB = packB
  packC = packC
  c1 = c1
  b1 = b1
  None = None
  Disc = {d1}
  Pack = {packA, packB}
  Key = {a1, b1}
  Bytes <- MCBytes
  DiscOf <- MCDiscOf
  PackOf <- MCPackOf
  Upload = {u1}
  KvBytesGuard = 3
  KvWritesGuard = 1
  KvDeletesGuard = 1
  PurgeBatch = 1
  MaxPackBytes = 2
  MaxReserved = 3
  MaxCrashes = 0
CHECK_DEADLOCK FALSE
INVARIANTS
  CurrentStored
