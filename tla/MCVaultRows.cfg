SPECIFICATION MCSpec
CONSTANTS
  d1 = d1
  d2 = d2
  i1 = i1
  i2 = i2
  None = None
  phone = phone
  Row = {d1, d2, i1, i2}
  TableOf <- MCTableOf
  Parent <- MCParent
  Field = {"notes", "title"}
  Device = {phone}
  EntryId = {1, 2, 3, 4, 5, 6}
  MaxDiscs = 1
  MaxMetaWrites = 2
  PruneLimit = 1
  PageSize = 1
  MaxHead = 5
INVARIANTS
  TypeOK
  RowsReplayLog
  AppliedOnce
  CascadeComplete
  FeedComplete
  WritesBounded
CHECK_DEADLOCK FALSE
