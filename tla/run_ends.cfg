CONSTANTS
  A = A  B = B  C = C  a = a  b = b
  Initial = Initial
  None = None
  Foreign = Foreign
  Targets <- MCTargets
  Apps <- MCApps
  AppsOf <- MCAppsOf
  VersionOf <- MCVersionOf
  Factory = A
  Offers = {{A, B}, {A, B, C}}
  Pins = {0}
  ComposeApps = {TRUE, FALSE}
  FaultKinds = {"crash", "db", "event", "compose", "foreign"}
  MaxFaults = 2
  MaxUpdates = 2
SPECIFICATION FairSpec
CHECK_DEADLOCK FALSE
PROPERTY RunAdvances
PROPERTY RunEnds
