CONSTANTS
  A = A  B = B  C = C  a = a  b = b
  Initial = Initial
  None = None
  Foreign = Foreign
  Targets <- MCTargets
  Apps <- MCApps
  AppsOf <- MCAppsOf
  VersionOf <- MCVersionOf
  Factory = A
  Offers = {{A, C}}
  Pins = {0}
  ComposeApps = {FALSE}
  FaultKinds = {"crash", "db", "event", "compose", "app", "foreign"}
  MaxFaults = 3
  MaxUpdates = 8
SPECIFICATION PeriodicSpec
CHECK_DEADLOCK FALSE
PROPERTY Converges
PROPERTY EventsReported
