CONSTANTS
  p1 = p1
  p2 = p2
  i1 = i1
  i2 = i2
  Process = {p1, p2}
  Issuer = {i1, i2}
  Command <- SharedLines
  Torn = Torn
  None = None

SPECIFICATION MCSpec

INVARIANTS
  TokenIsForIssuer
  OneLoginPerRole
  RetryUsesNewToken
  CodeForOwnLogin
  SilentSecondRole

PROPERTY EveryCommandEnds

CONSTRAINT OneStartTask

CHECK_DEADLOCK FALSE
