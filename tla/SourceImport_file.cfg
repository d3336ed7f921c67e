SPECIFICATION FairSpec
CONSTANTS
  a = a
  x = x
  Line <- MCLine
  Meta <- MCMeta
  Drifted <- MCDrifted
  Malformed = Malformed
  Daemon = Daemon
  Repair = Repair
  SkipLedgered = TRUE
  MaxLen = 2
  MaxWrites = 3
  MaxFaults = 1
  OneAtATime = TRUE
INVARIANTS
  TypeOK
  CursorSkipsNothing
  SeenIsImported
  NoGhostThread
PROPERTIES
  SkipsAreLedgered
  ClosedIsRecovered
  EventuallyImported
CHECK_DEADLOCK FALSE
