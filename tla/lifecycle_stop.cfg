SPECIFICATION LifeSpec
CONSTANTS
  Starters = {p1}
  Readers = {q}
  N = 2
  None = None
  Stale = Stale
  SharedDir = FALSE
  MaxFaults = 3

PROPERTY GracefulStopIsFine
CHECK_DEADLOCK FALSE
