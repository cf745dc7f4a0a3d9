SPECIFICATION PacksFairSpec
CONSTANTS
  d1 = d1
  packA = packA
  packB = packB
  packC = packC
  c1 = c1
  b1 = b1
  None = None
  Disc = {d1}
  Pack = {packA, packB, packC}
  Key = {a1, a2, b1, c1}
  Bytes <- MCBytes
  DiscOf <- MCDiscOf
  PackOf <- MCPackOf
  Upload = {u1}
  KvBytesGuard = 2
  KvWritesGuard = 1
  KvDeletesGuard = 1
  PurgeBatch = 1
  MaxPackBytes = 2
  MaxReserved = 2
  MaxCrashes = 1
CHECK_DEADLOCK FALSE
INVARIANTS
  PacksTypeOK
  CurrentComplete
  UploadedStored
  GuardHolds
  DeletesWithinGuard
  QuotaKept
PROPERTIES
  Drains
