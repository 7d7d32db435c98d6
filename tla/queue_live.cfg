SPECIFICATION FairSpec
CONSTANTS
  Toasts = {TRUE, FALSE}
  MaxPrompts = 1
  MaxMessages = 1
  MaxSends = 3
  MaxEdits = 0
  MaxBreaks = 1
PROPERTY LockReleased
PROPERTY AutoDrainWithToasts
CHECK_DEADLOCK FALSE
