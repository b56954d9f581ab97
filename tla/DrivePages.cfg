CONSTANTS
  x1 = x1
  y1 = y1
  d1 = d1
  d2 = d2
  t1 = t1
  Items = {x1, y1}
  FolderItems = {y1}
  Pressable = {y1}
  Deletions = {d1, d2}
  Tasks = {t1}
  MaxGestures = 2
  MaxFaults = 1
SPECIFICATION PageFairSpec
CHECK_DEADLOCK FALSE
PROPERTIES
  DeletedRowsGoFirst
  PageSettles
  OwnQuestionsOnly
  HoldTogglesOnce
