SPECIFICATION FairSpec
CONSTANTS
  v1 = v1
  root = root
  n1 = n1
  n2 = n2
  c1 = c1
  c2 = c2
  None = None
  Vols = {v1}
  BlockVols = {v1}
  Fixed = {root}
  Nodes = {n1, n2}
  Hosts = {n1, n2}
  HostOf <- MCHostOf
  Calls = {c1, c2}
  UseDeclarativeHotplug = TRUE
  ListMayFail = FALSE
  FailingNodes = {n1}
  StoppingNodes = {}
  MayAbandon = FALSE
INVARIANT NoOrphanVolume
PROPERTY DetachCompletes
PROPERTY AttachCompletes
