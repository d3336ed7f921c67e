SPECIFICATION Spec
CONSTANTS
  a = a
  x = x
  Line <- MCLine
  Meta <- MCMeta
  Drifted <- MCDrifted
  Malformed = Malformed
  Daemon = Daemon
  Repair = Repair
  SkipLedgered = TRUE
  MaxLen = 2
  MaxWrites = 3
  MaxFaults = 1
  OneAtATime = FALSE
PROPERTIES
  ClosedIsRecovered
CHECK_DEADLOCK FALSE
