CONSTANTS
  A = A  B = B  C = C  a = a  b = b
  Initial = Initial
  None = None
  Foreign = Foreign
  Targets <- MCTargets
  Apps <- MCApps
  AppsOf <- MCAppsOf
  VersionOf <- MCVersionOf
  Factory = A
  Offers = {{A, B}, {A, B, C}}
  Pins = {0, 1}
  ComposeApps = {TRUE, FALSE}
  FaultKinds = {"crash", "db", "event", "compose", "app", "foreign"}
  MaxFaults = 2
  MaxUpdates = 3
SPECIFICATION Spec
CHECK_DEADLOCK FALSE
INVARIANT TypeOK
INVARIANT OneCurrentTarget
INVARIANT SuccessIsFinal
PROPERTY StartedBeforeCurrent
PROPERTY OneUpdateAtATime
