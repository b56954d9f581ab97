CONSTANTS
  r1 = r1
  r2 = r2
  FileUnits = 5
  PartUnits = 2
  ConfigChunkUnits = 5
  Requests = {r1, r2}
  Faults = {"cut", "answer", "abandon", "crash", "server"}
  MaxFaults = 2
SPECIFICATION FairSpec
CHECK_DEADLOCK FALSE
INVARIANTS
  NothingSkipped
  EnqueuedIntact
  SentIntact
PROPERTIES
  UploadCompletes
