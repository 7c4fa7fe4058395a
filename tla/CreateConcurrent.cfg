SPECIFICATION ConcurrentSpec
CONSTANTS
  Invocation = {i1, i2, i3}
  Investigation = {v1}
  None = None
SYMMETRY Symmetry
INVARIANTS ConflictStopsNothing HandoverIsComplete FailureLeavesNothing
PROPERTIES HandoverSparesSessions CallsRunOut
CHECK_DEADLOCK FALSE
