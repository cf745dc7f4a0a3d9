SPECIFICATION SyncSpec
CONSTANTS
  phone = phone
  laptop = laptop
  disc = disc
  item = item
  None = None
  Row = {disc, item}
  TableOf <- MCTableOf
  Parent <- MCParent
  Field = {"notes"}
  Device = {phone, laptop}
  EntryId = {1, 2, 3, 4}
  MaxDiscs = 1
  MaxMetaWrites = 9
  PruneLimit = 500
  PageSize = 1
  BatchSize = 2
  MaxEdits = 4
  MaxAborts = 0
  MaxDiscards = 0
SYMMETRY Devices
INVARIANT
  ParentsLive
CHECK_DEADLOCK FALSE
