SPECIFICATION FairSpec
CONSTANTS
  n1 = n1
  Nodes = {n1}
  StorageClassReadable = TRUE
  InformersRun = TRUE
CHECK_DEADLOCK FALSE
PROPERTY UnpublishWithoutShare
