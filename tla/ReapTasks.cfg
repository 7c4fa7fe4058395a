SPECIFICATION SettledSpec
CONSTANTS
  Run = {r1}
  Task = {t1, t2, t3}
  Container = {sre}
  BatchSize = 2
  MaxClock = 1
  FaultBudget = 1
  NoDeadline = NoDeadline
  None = None
SYMMETRY Symmetry
INVARIANTS EveryTaskAccountedFor CleanReportIsTrue
