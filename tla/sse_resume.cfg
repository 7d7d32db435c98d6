SPECIFICATION Spec
CONSTANTS
  HistorySize = 2
  MaxChanges = 3
  MaxIds = 5
  MaxConnects = 3
  MaxBreaks = 1
  MaxBoots = 1
INVARIANT ResumeComplete
CHECK_DEADLOCK FALSE
