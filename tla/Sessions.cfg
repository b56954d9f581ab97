CONSTANTS
  b1 = b1
  b2 = b2
  t1 = t1
  t2 = t2
  c1 = c1
  c2 = c2
  Browsers = {b1, b2}
  Tabs = {t1, t2}
  Calls = {c1, c2}
  BrowserOf <- TwoBrowsers
  TabOf <- CallEach
  Does <- SplitKinds
  SignedIn <- First
  MaxTokens = 3
  MaxChanges = 1
  MaxLost = 1
SPECIFICATION SessionFairSpec
CHECK_DEADLOCK FALSE
INVARIANTS
  NoFalseAlarm
  RotationKeepsOne
  OldSessionsEnd
  SignedInUntilEnded
PROPERTIES
  CallsSettle
