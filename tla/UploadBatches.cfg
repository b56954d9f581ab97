CONSTANTS
  u1 = u1
  u2 = u2
  u3 = u3
  Uploads = {u1, u2, u3}
  Job <- NestedOrder
  DirOf <- Nested
  PreExisting <- TopExists
  Fillable <- Inner
  Concurrency = 2
  MaxFaults = 1
SPECIFICATION BatchFairSpec
CHECK_DEADLOCK FALSE
INVARIANTS
  LeavesTogether
PROPERTIES
  OnlyOwnFoldersGo
  CancelledFilesGo
  CancelledFoldersGo
  UploadsEnd
