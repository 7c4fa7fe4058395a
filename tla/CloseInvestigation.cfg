SPECIFICATION Spec
CONSTANTS
  Investigation = {v1, v2}
  AccessPoint = {a1, a2}
  Task = {t1, t2}
  MaxClock = 0
  None = None
  Operator = {o1}
  InvestigationId = {"inv"}
  IdOf <- SameId
  Covers <- NameInName
SYMMETRY Symmetry
PROPERTIES CloseSparesTasks CloseStaysInside
