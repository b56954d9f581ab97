CONSTANTS
  f1 = f1
  j1 = j1
  j2 = j2
  q1 = q1
  r1 = r1
  r2 = r2
  Files = {f1}
  NumChunks = 2
  Jobs = {j1, j2}
  Checkers = {q1}
  Retriers = {r1}
  MaxAttempts = 1
  Concurrency = 2
  Durable = FALSE
  MaxMessages = 3
  FaultBudget <- TelegramAndHand
SPECIFICATION Spec
SYMMETRY Alike
CHECK_DEADLOCK FALSE
INVARIANTS
  ReadyIsStored
  LiveMessagesKept
  LostIsEarned
  BytesSurvive
PROPERTIES
  LifecycleSpec
