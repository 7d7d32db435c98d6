SPECIFICATION Spec
CONSTANTS
  Conn = {c1, c2}
  NoConn = NoConn
  BatchSize = 2
  MaxBoots = 2
  MaxEvents = 2
  MaxDrops = 0
  Outputs = {1}
  LogSizes = {"small", "large", "tooLarge"}
  Faults = {}
SYMMETRY ConnSymmetry
INVARIANT TypeOK
INVARIANT NoLossWhileUp
INVARIANT SpoolSurvives
INVARIANT UniqueSeq
PROPERTY StreamSpec
CHECK_DEADLOCK FALSE
