SPECIFICATION Spec
CONSTANTS
  a = a
  b = b
  n = n
  u = u
  links = links
  cursors = cursors
  amendments = amendments
  Thread <- MCThread
  Native <- MCNative
  Unindexed <- MCUnindexed
  Unfiled <- MCUnfiled
  Tree = Tree
  Overlay <- MCOverlay
  Refs <- MCRefs
  NoFile = NoFile
  MaxAttempts = 3
  MaxKills = 2
INVARIANTS
  MigrateInv
  NothingDestroyed
  FirstSwapIsWhole
CHECK_DEADLOCK FALSE
