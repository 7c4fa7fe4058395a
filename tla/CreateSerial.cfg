SPECIFICATION FairSerialSpec
CONSTANTS
  Invocation = {i1, i2}
  Investigation = {v1}
  None = None
INVARIANTS WorkspaceSurvives
PROPERTIES OneTaskAtATime EveryRequestAnswered
CHECK_DEADLOCK FALSE
