SPECIFICATION Spec
CONSTANTS
  MountPoint <- MCMountPoint
  File = {"f", "g"}
  Buf = {b1, b2, b3, b4, b5, b6}
  Job = {j1, j2, j3, j4}
  InitContent <- MCInit
  InitDisk <- MCDisk
  MaxEdits = 2
  MaxActs = 2
  Null = Null
  Absent = Absent
  Broken = Broken
INVARIANTS TypeOK Owned WatchersLive CleanMatchesDisk IndexExact
PROPERTY BuildsEnd
CHECK_DEADLOCK FALSE
