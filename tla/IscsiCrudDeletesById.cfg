SPECIFICATION PartsSpec
CONSTANTS
  c1 = c1  c2 = c2  d1 = d1  d2 = d2  d3 = d3  n1 = n1  n2 = n2
  Command = {c1}
  Dataset <- Datasets
  Id <- Ids
  None = None
  Ops <- ShareOps
  Name <- SnapshotNames
  Below <- Children
  SnapshotOps <- AllSnapshotOps
  SnapshotsActive = 2
  Object <- Things
  Under <- Trees
  Alike <- Prefixes
  PoolOf <- Pools
  ListArgs <- AllArgs
  MaxArgs = 3
  Key <- Keys
  Identifier <- Identifiers
  Required <- RequiredOnes
  Stock <- Stocks
  Link <- Links
  Crud <- CrudOps
  MaxActive = 1
PROPERTY DeletesById
CHECK_DEADLOCK FALSE
