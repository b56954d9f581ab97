CONSTANTS
  f1 = f1
  j1 = j1
  j2 = j2
  q1 = q1
  r1 = r1
  r2 = r2
  Files = {f1}
  NumChunks = 2
  Jobs = {j1, j2}
  Checkers = {}
  Retriers = {r1}
  MaxAttempts = 2
  Concurrency = 1
  Durable = TRUE
  MaxMessages = 5
  FaultBudget <- TwoTelegram
SPECIFICATION FairSpec
CHECK_DEADLOCK FALSE
PROPERTIES
  UploadsSettle
  DeletionsComplete
