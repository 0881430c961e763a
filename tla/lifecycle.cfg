SPECIFICATION LifeLiveSpec
CONSTANTS
  Starters = {p1, p2}
  Readers = {q}
  N = 3
  None = None
  Stale = Stale
  SharedDir = FALSE
  MaxFaults = 4
INVARIANTS VersionTellsColumns UpMeansMigrated UpMeansReadable StopLeavesReadable UmaskOnlyUntilChmod
PROPERTIES AllComeUp
CHECK_DEADLOCK FALSE
