SPECIFICATION SyncSpec
CONSTANTS
  phone = phone
  laptop = laptop
  disc = disc
  item = item
  None = None
  Row = {disc, item}
  TableOf <- MCTableOf
  Parent <- MCParent
  Field = {"notes"}
  Device = {phone, laptop}
  EntryId = {1, 2, 3}
  MaxDiscs = 1
  MaxMetaWrites = 2
  PruneLimit = 500
  PageSize = 1
  BatchSize = 2
  MaxEdits = 3
  MaxAborts = 1
  MaxDiscards = 0
SYMMETRY Devices
INVARIANTS
  SyncTypeOK
  PulledIsCurrent
  Agreement
  NoEditLost
  OrderKept
  PendingVisible
PROPERTY
  NeverBack
  EditsDelivered
CHECK_DEADLOCK FALSE
