SPECIFICATION BrowserSpec
CONSTANTS
  Tab = {t1, t2}
  NoTab = NoTab
  MaxCalls = 1
  MaxTries = 2
  Device = {d1, d2}
  Disc = {1, 2}
  MaxWork = 2
  MaxFails = 1
  MaxDiscards = 1
  Parts = 1
INVARIANTS
  BrowserTypeOK
  LockHeld
  OneEngine
  PartsKept
PROPERTIES
  BootEnds
  CommitsSettle
  DevicesShow
CHECK_DEADLOCK FALSE
