CONSTANTS
  Accounts = {k1, k2}
  Clients = {c1, c2, c3}
  Calls = {o1, o2}
  NoClient = NoClient
SPECIFICATION PoolFairSpec
CHECK_DEADLOCK FALSE
INVARIANTS
  InUseStaysOpen
  NothingLeaks
PROPERTIES
  RetiredCloses
