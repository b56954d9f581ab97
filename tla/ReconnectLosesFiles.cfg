CONSTANTS
  f1 = f1
  f2 = f2
  Files = {f1}
  MaxStarts = 2
  MaxSessions = 2
  Faults = {"revoke"}
  MaxFaults = 1
SPECIFICATION Spec
CHECK_DEADLOCK FALSE
INVARIANTS FilesSurviveReconnect
