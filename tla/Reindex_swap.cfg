CONSTANTS
  e1 = e1
  e2 = e2
  daemon = daemon
  command = command
  r1 = r1
  Nobody = Nobody
  Event <- MCEvent
  Proc <- MCProc
  Rebuilder <- MCRebuilder
  MaxInode = 2
  MaxKills = 1
  MaxRot = 1
SPECIFICATION FairSpec
INVARIANTS
  SwapInv
  PassesUseTheIndex
  IndexHoldsCommitted
  CursorsMatch
PROPERTIES
  SwapsAtomically
  RebuildEnds
