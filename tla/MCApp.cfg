SPECIFICATION AppSpec
CONSTANTS
  Email = {e1, e2}
  Browser = {b1, b2}
  None = None
  MaxUsers = 2
  MaxSessions = 2
  MaxDevices = 1
  MaxIds = 6
  MaxOps = 1
  MaxBusy = 3
  Caps = {1}
  Disc = {1, 2}
  MaxModels = 2
  MaxRuns = 2
  MaxLoops = 2
  MaxEdits = 1
  MaxBatch = 2
  IconTab = {w1, w2}
  IconName = {n1, n2}
  KeyIds = {1, 2}
  MaxKeyUses = 1
  Folder = {f1, f2}
  NoFolder = NoFolder
  MaxNo = 1
  MaxPages = 2
  MaxOpens = 4
  Letter = {a, b}
  Upper = {a}
  MaxFolders = 3
  MaxEntries = 4
  PartSize = 3
  MaxMoves = 3
  MaxTasks = 2
  MaxActs = 3
SYMMETRY AppSymmetry
INVARIANTS
  AppTypeOK
  VaultAgrees
  SignupBounded
  DevicesOwned
  OpenProvisioned
  ItemsOfLastRun
  CallsSpared
  TreeKept
  ScanSaved
  Upgraded
  ScreensFresh
CHECK_DEADLOCK FALSE
