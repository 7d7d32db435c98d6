SPECIFICATION FairSpec
CONSTANTS
  Toasts = {FALSE}
  MaxPrompts = 1
  MaxMessages = 1
  MaxSends = 3
  MaxEdits = 0
  MaxBreaks = 0
PROPERTY AutoDrain
CHECK_DEADLOCK FALSE
