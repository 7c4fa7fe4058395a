SPECIFICATION Spec
CONSTANTS
  File = {f1, f2, f3}
  Workload = {f1}
  MaxSignal = 2
INVARIANT AuditOnExit
PROPERTY SignalEnds
CHECK_DEADLOCK FALSE
