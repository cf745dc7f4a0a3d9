SPECIFICATION AccountsSpec
CONSTANTS
  None = None
  Email = {e1, e2}
  Browser = {b1}
  MaxUsers = 2
  MaxSessions = 2
  MaxDevices = 2
  MaxIds = 7
  MaxOps = 1
  MaxBusy = 3
  Caps = {2}
INVARIANT DataNeverMixes
CHECK_DEADLOCK FALSE
