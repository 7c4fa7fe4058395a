CONSTANTS
  p1 = p1
  p2 = p2
  t1 = t1
  t2 = t2
  Process = {p1, p2}
  Task = {t1, t2}
  Line <- AllLines
  None = None

SPECIFICATION Spec

CONSTRAINTS Apart FewCalls SameTask

SYMMETRY Symmetry

INVARIANTS
  TypeOK
  CreatedTaskIsNamed
  RetryReplacesLost
  SessionNeedsAgent
  RequestUnderNoEcho
  UploadsOwnLogin
  ReportIsTrue

PROPERTIES ClearTakesCandidates CredentialsDelivered

CHECK_DEADLOCK FALSE
