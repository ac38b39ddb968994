SPECIFICATION FairSpec
CONSTANTS
  v1 = v1
  root = root
  n1 = n1
  c1 = c1
  c2 = c2
  None = None
  Vols = {v1}
  BlockVols = {v1}
  Fixed = {root}
  Nodes = {n1}
  Hosts = {n1}
  HostOf <- MCHostOf
  Calls = {c1, c2}
  UseDeclarativeHotplug = FALSE
  ListMayFail = TRUE
  FailingNodes = {n1}
  StoppingNodes = {n1}
  MayAbandon = TRUE
PROPERTY OnlyOwnChanges
PROPERTY DetachCompletes
