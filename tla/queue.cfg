SPECIFICATION Spec
CONSTANTS
  Toasts = {TRUE}
  MaxPrompts = 2
  MaxMessages = 0
  MaxSends = 3
  MaxEdits = 1
  MaxBreaks = 1
INVARIANT LockExact
INVARIANT SentOnce
INVARIANT PromptKept
INVARIANT ActiveShowsRunning
CHECK_DEADLOCK FALSE
