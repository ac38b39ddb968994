SPECIFICATION FairSpec
CONSTANTS
  n1 = n1
  n2 = n2
  Nodes = {n1, n2}
  StorageClassReadable = TRUE
  InformersRun = TRUE
CHECK_DEADLOCK FALSE
INVARIANT TypeOK
INVARIANT ProvisionedIsBacked
INVARIANT DeletedLeavesNothing
PROPERTY ImplementsContract
PROPERTY DeleteCompletes
PROPERTY RestoreCompletes
PROPERTY PublishCompletes
PROPERTY UnpublishCompletes
