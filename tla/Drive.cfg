CONSTANTS
  f1 = f1
  f2 = f2
  f3 = f3
  f4 = f4
  x1 = x1
  x2 = x2
  na = na
  nb = nb
  nc = nc
  r1 = r1
  r2 = r2
  Folders = {f1, f2, f3, f4}
  Files = {x1, x2}
  Root = Root
  Unborn = Unborn
  Gone = Gone
  Names = {na, nb, nc}
  Requests = {r1, r2}
  Operations <- AllOps
  Movers <- OneMover
  StartStates <- Starts
  WalkLimit = 5
  CountDepth = 3
  BatchSize = 1
  TreeEntries = 2
  Databases <- SmallDatabases
  Logs <- ShortLogs
SPECIFICATION DriveFairSpec
CHECK_DEADLOCK FALSE
INVARIANTS
  TrashedOnlyIfMovedOut
  DeletedIsSwept
  ZipComplete
  SyncingCountsAgree
  DeletedTreeHonest
PROPERTIES
  ForestSpec
  DataGoesByRequestOnly
  RequestsEnd
