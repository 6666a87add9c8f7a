CONSTANTS
  Agent = Agent  Client = Client  Post1 = Post1  Post2 = Post2  Get1 = Get1
  Online = Online  NoUpdater = NoUpdater
  Clients = {}
  Posts = {Post1}
  Gets = {Get1}
  Bundles <- MCBundles
  InitialRoot = 1
  u1 = u1  u2 = u2  u3 = u3  u4 = u4
  Updaters = {u1, u2, u3}
  FaultKinds = {"crash", "io", "fetch", "race"}
  MaxFaults = 1
  MaxRoot = 2
  MaxVersion = 2
SPECIFICATION FairSpec
CHECK_DEADLOCK FALSE
INVARIANT TypeOK
PROPERTY NoRollback
PROPERTY ServesAgain
