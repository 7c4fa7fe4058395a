SPECIFICATION SerialSpec
CONSTANTS
  Invocation = {i1, i2}
  Investigation = {v1}
  None = None
CONSTRAINT NothingFails
INVARIANTS ContainersNeverOverlap
CHECK_DEADLOCK FALSE
