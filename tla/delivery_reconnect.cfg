SPECIFICATION Spec
CONSTANTS
  Conn = {c1, c2}
  NoConn = NoConn
  BatchSize = 2
  MaxBoots = 1
  MaxEvents = 3
  MaxDrops = 1
  Outputs = {1, 2}
  LogSizes = {"small"}
  Faults = {"midAppend"}
SYMMETRY ConnSymmetry
INVARIANT BootFIFO
INVARIANT DeliveryInv
CHECK_DEADLOCK FALSE
