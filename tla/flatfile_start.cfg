SPECIFICATION FlatFileFairSpec
CONSTANTS
  EarlySaves = TRUE
  MaxSaves = 3
  MaxFaults = 0
  MaxEvents = 2
PROPERTIES HotReloads
CHECK_DEADLOCK FALSE
