SPECIFICATION Spec
CONSTANTS
  v1 = v1
  v2 = v2
  root = root
  n1 = n1
  c1 = c1
  c2 = c2
  None = None
  Vols = {v1, v2}
  BlockVols = {v1, v2}
  Fixed = {root}
  Nodes = {n1}
  Hosts = {n1}
  HostOf <- MCHostOf
  Calls = {c1, c2}
  UseDeclarativeHotplug = TRUE
  ListMayFail = TRUE
  FailingNodes = {n1}
  StoppingNodes = {}
  MayAbandon = FALSE
SYMMETRY Symmetry
INVARIANT TypeOK
PROPERTY OnlyOwnChanges
