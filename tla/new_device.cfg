CONSTANTS
  A = A  B = B  C = C  a = a  b = b
  Initial = Initial
  None = None
  Foreign = Foreign
  Targets <- MCTargets
  Apps <- MCApps
  AppsOf <- MCAppsOf
  VersionOf <- MCVersionOf
  Factory = None
  Offers = {{A, C}}
  Pins = {0}
  ComposeApps = {FALSE}
  FaultKinds = {"crash", "event", "compose", "app"}
  MaxFaults = 3
  MaxUpdates = 8
SPECIFICATION PeriodicSpec
CHECK_DEADLOCK FALSE
PROPERTY Converges
