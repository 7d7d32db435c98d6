SPECIFICATION FairSpec
CONSTANTS
  Conn = {c1, c2}
  NoConn = NoConn
  BatchSize = 2
  MaxBoots = 2
  MaxEvents = 1
  MaxDrops = 1
  Outputs = {1}
  LogSizes = {"small"}
  Faults = {}
PROPERTY EventuallyRecorded
PROPERTY EventuallyDrained
CHECK_DEADLOCK FALSE
