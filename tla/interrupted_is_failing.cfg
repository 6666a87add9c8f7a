CONSTANTS
  A = A  B = B  C = C  a = a  b = b
  Initial = Initial
  None = None
  Foreign = Foreign
  Targets <- MCTargets
  Apps <- MCApps
  AppsOf <- MCAppsOf
  VersionOf <- MCVersionOf
  Factory = A
  Offers = {{A, C}}
  Pins = {0}
  ComposeApps = {FALSE}
  FaultKinds = {"crash"}
  MaxFaults = 1
  MaxUpdates = 3
SPECIFICATION Spec
CHECK_DEADLOCK FALSE
INVARIANT FailingHasFailed
