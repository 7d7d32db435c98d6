SPECIFICATION Spec
CONSTANTS
  Workspaces = {w1, w2}
  MaxTerminals = 2
  MaxCalls = 2
  MaxFrames = 1
  MaxBreaks = 1
  None = None
  MaxRequests = 2
  MaxSteps = 1
  MaxEditors = 2
  MaxFaults = 1
  MaxPanes = 2
  MaxUploads = 1
  Chunks = 2
  MaxUploadFaults = 2
  MaxActions = 3
  MaxFlows = 2
  MaxIssues = 1
  Spellings = 2
  MaxUpgrades = 2
  Pieces = 1
  MaxUpgradeFaults = 2
  MaxUpdates = 2
  MaxKills = 1
  Keep = 1
  MaxCommands = 2
  MaxTroubles = 1
INVARIANT TypeOK
INVARIANT RecordsAgree
INVARIANT GitIsFresh
INVARIANT EditorsAgree
INVARIANT UploadsAreWhole
INVARIANT CodexReady
INVARIANT ReleasesAgree
CHECK_DEADLOCK FALSE
