CONSTANTS
  f1 = f1
  j1 = j1
  j2 = j2
  q1 = q1
  r1 = r1
  r2 = r2
  Files = {f1}
  NumChunks = 1
  Jobs = {j1, j2}
  Checkers = {}
  Retriers = {r1}
  MaxAttempts = 1
  Concurrency = 2
  Durable = TRUE
  MaxMessages = 3
  FaultBudget <- OwnFaults
SPECIFICATION Spec
SYMMETRY Alike
CHECK_DEADLOCK FALSE
INVARIANTS
  EngineInv
