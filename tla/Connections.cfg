CONSTANTS
  f1 = f1
  f2 = f2
  Files = {f1}
  MaxStarts = 3
  MaxSessions = 2
  Faults = {"revoke", "health", "interrupt"}
  MaxFaults = 2
SPECIFICATION Spec
CHECK_DEADLOCK FALSE
INVARIANTS
  ConnectedIsUsable
  SecretsReadable
  StoredWhereConnected
