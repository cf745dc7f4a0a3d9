SPECIFICATION SyncSpec
CONSTANTS
  phone = phone
  laptop = laptop
  disc = disc
  item = item
  None = None
  Row = {disc}
  TableOf <- MCTableOf
  Parent <- MCParent
  Field = {"notes"}
  Device = {phone, laptop}
  EntryId = {1, 2, 3}
  MaxDiscs = 1
  MaxMetaWrites = 1
  PruneLimit = 500
  PageSize = 1
  BatchSize = 1
  MaxEdits = 3
  MaxAborts = 1
  MaxDiscards = 0
SYMMETRY Devices
INVARIANT
  LastWriteShown
CHECK_DEADLOCK FALSE
