SPECIFICATION SyncFairSpec
CONSTANTS
  phone = phone
  laptop = laptop
  disc = disc
  item = item
  None = None
  Row = {disc, item}
  TableOf <- MCTableOf
  Parent <- MCParent
  Field = {"notes"}
  Device = {phone, laptop}
  EntryId = {1, 2}
  MaxDiscs = 1
  MaxMetaWrites = 1
  PruneLimit = 500
  PageSize = 1
  BatchSize = 2
  MaxEdits = 2
  MaxAborts = 1
  MaxDiscards = 1
PROPERTY
  Converges
CHECK_DEADLOCK FALSE
