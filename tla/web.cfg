SPECIFICATION Spec
CONSTANTS
  HistorySize = 1
  MaxChanges = 2
  MaxIds = 4
  MaxStreams = 3
  MaxConnects = 1
  MaxBreaks = 1
  MaxBoots = 2
  MaxSent = 2
  MaxSubmits = 2
  MaxTurns = 1
  Local = Local
  None = None
  PageSize = 1
  MaxPages = 2
  MaxEvents = 4
  MaxWork = 6
  MaxSelects = 2
  MaxFails = 1
  OutputPage = 2
  MaxTexts = 3
  MaxLeaves = 1
  MaxReloads = 1
  MaxPieces = 1
  Session = {s1, s2}
  NoSession = NoSession
  ListPage = 1
  MaxListChanges = 4
  MaxCalls = 1
  MaxSnapshots = 2
  Machine = {m1, m2}
  Home = m1
  CacheSize = 1
  MaxListings = 2
  MaxLinks = 1
  MaxSwitches = 1
  Model = {a, b}
  Effort = {e}
  MaxChoices = 3
INVARIANT TypeOK
INVARIANT StreamIsWhole
INVARIANT DraftsAgree
INVARIANT HistoryIsWhole
INVARIANT ListsAgree
INVARIANT ChoicesAgree
CHECK_DEADLOCK FALSE
