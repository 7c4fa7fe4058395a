SPECIFICATION FairSpec
CONSTANTS
  Run = {r1, r2}
  Task = {t1}
  Container = {sre, proxy}
  BatchSize = 1
  MaxClock = 1
  FaultBudget = 1
  NoDeadline = NoDeadline
  None = None
PROPERTIES StopIsJustified ExpiredTaskStops
