SPECIFICATION Spec
CONSTANTS
  v1 = v1
  root = root
  n1 = n1
  c1 = c1
  None = None
  Vols = {v1}
  BlockVols = {v1}
  Fixed = {root}
  Nodes = {n1}
  Hosts = {n1}
  HostOf <- MCHostOf
  Calls = {c1}
  UseDeclarativeHotplug = TRUE
  ListMayFail = FALSE
  FailingNodes = {n1}
  StoppingNodes = {}
  MayAbandon = FALSE
SYMMETRY Symmetry
INVARIANT DetachedMeansGone
