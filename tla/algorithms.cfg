CONSTANTS
  MaxRoot = 3
  LastProvided = 2
  Names = {t1, t2, t3, t4}
  Versions <- MCVersions
  Pins <- MCPins
  NotAVersion = NotAVersion
  NoCustom = NoCustom
  Unset = Unset
  NoTarget = NoTarget
  Apps = {a, b, c}
SPECIFICATION Spec
SYMMETRY AnyApp
CHECK_DEADLOCK FALSE
INVARIANT ChainFollowed
PROPERTY RootsOnlyAdvance
INVARIANT SelectsTarget
PROPERTY ListsActAsSets
