SPECIFICATION Spec
CONSTANTS
  n1 = n1
  n2 = n2
  Nodes = {n1, n2}
  StorageClassReadable = TRUE
  InformersRun = TRUE
CHECK_DEADLOCK FALSE
PROPERTY NotDisabledInUse
