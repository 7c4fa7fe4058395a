SPECIFICATION FairSpec
CONSTANTS
  Investigation = {v1}
  AccessPoint = {a1, a2}
  Task = {t1}
  MaxClock = 2
  Grace = 1
  FaultBudget = 1
  None = None
INVARIANTS EveryFileIsKept DirectoryStaysReachable
PROPERTIES ReapSparesTasks StaleInvestigationReclaimed GraceHonoured
