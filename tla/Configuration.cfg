CONSTANTS
  d1 = d1
  d2 = d2
  Process = {p1, p2}
  Deployment = {d1, d2}
  Value = {"a", "b"}
  Settings <- MCSettings
  Default <- MCDefault
  Line <- MCLine
  None = None

SPECIFICATION Spec

INVARIANTS
  PreferenceHonoured
  OneDeployment
  DiscoveryIsIndependent

PROPERTY EnterKeepsSettings
