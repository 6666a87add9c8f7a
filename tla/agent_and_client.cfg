CONSTANTS
  Agent = Agent  Client = Client  Post1 = Post1  Post2 = Post2  Get1 = Get1
  Online = Online  NoUpdater = NoUpdater
  Clients = {Client}
  Posts = {Post1}
  Gets = {}
  Bundles <- MCOldBundles
  InitialRoot = 1
  u1 = u1  u2 = u2  u3 = u3  u4 = u4
  Updaters = {u1, u2, u3, u4}
  FaultKinds = {"crash", "io", "fetch", "race"}
  MaxFaults = 2
  MaxRoot = 1
  MaxVersion = 2
SPECIFICATION Spec
SYMMETRY AnyUpdater
CHECK_DEADLOCK FALSE
INVARIANT OwnTargets
