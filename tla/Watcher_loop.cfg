SPECIFICATION FairSpec
CONSTANTS
  e1 = e1
  e2 = e2
  q1 = q1
  s1 = s1
  Item <- MCItem
  Quiet <- MCQuiet
  Server <- MCServer
  Daemon = Daemon
  Nobody = Nobody
  Batch = 1
  MaxOdd = 2
INVARIANTS
  WatcherInv
PROPERTIES
  SnapshotCatchesUp
  BacklogDrains
  DaemonOwns
CHECK_DEADLOCK FALSE
