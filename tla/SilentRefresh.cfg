CONSTANTS
  b1 = b1
  b2 = b2
  t1 = t1
  t2 = t2
  c1 = c1
  c2 = c2
  Browsers = {b1}
  Tabs = {t1}
  Calls = {c1, c2}
  BrowserOf <- OneTab
  TabOf <- BothInOne
  Does <- Everyday
  SignedIn <- First
  MaxTokens = 4
  MaxChanges = 0
  MaxLost = 0
SPECIFICATION SessionSpec
CHECK_DEADLOCK FALSE
INVARIANTS
  NoFalseAlarm
