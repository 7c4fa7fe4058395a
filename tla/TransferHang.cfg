CONSTANTS
  p1 = p1
  p2 = p2
  t1 = t1
  t2 = t2
  Process = {p1}
  Task = {t1}
  Line <- TransferLines
  None = None

SPECIFICATION FairSpec

PROPERTY TransferEnds

CHECK_DEADLOCK FALSE
