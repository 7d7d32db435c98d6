SPECIFICATION Spec
CONSTANTS
  Builds = {"direct", "wrapped", "wrappedTwice", "wrappedFirst", "directFirst"}
  MaxTurns = 2
  MaxPieces = 2
  MaxCancels = 1
  Sessions = {s1}
  MaxCommands = 2
  MaxOptions = 1
  MaxConnections = 2
  MaxIds = 2
  HostLimit = 2
  RunnerLimit = 1
  MaxSetups = 1
  MaxTroubles = 1
INVARIANT TypeOK
INVARIANT TurnIsWhole
INVARIANT OutputKept
INVARIANT SessionsAgree
INVARIANT EndsAgree
PROPERTY TurnEnds
PROPERTY GoesOn
CHECK_DEADLOCK FALSE
