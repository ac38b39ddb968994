SPECIFICATION FairSpec
CONSTANTS
  StorageClassReadable = TRUE
  MaxLayers = 3
  SizeAlignment = 3
  Sizes = {1, 3}
  LargerSizes = {2, 4}
  UsedKinds = {"block", "share"}
CHECK_DEADLOCK FALSE
INVARIANT TypeOK
INVARIANT ReadySnapshotExists
INVARIANT DeletedSnapshotGone
INVARIANT UnmountedBeforeDetach
INVARIANT FilesystemGrown
PROPERTY SnapshotCompletes
PROPERTY SnapshotDeleteCompletes
PROPERTY MountCompletes
PROPERTY UnmountCompletes
PROPERTY ExpandCompletes
