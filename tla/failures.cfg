CONSTANTS
  A = A  B = B  C = C  a = a  b = b
  Initial = Initial
  None = None
  Foreign = Foreign
  Targets <- MCTargets
  Apps <- MCApps
  AppsOf <- MCAppsOf
  VersionOf <- MCVersionOf
  Factory = A
  Offers = {{A, B}, {A, B, C}}
  Pins = {0}
  ComposeApps = {FALSE}
  FaultKinds = {"crash", "compose", "app"}
  MaxFaults = 3
  MaxUpdates = 4
SPECIFICATION Spec
CHECK_DEADLOCK FALSE
INVARIANT NotBegunAgain
PROPERTY CurrentAppsKept
