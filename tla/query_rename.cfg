SPECIFICATION QuerySpec
CONSTANTS
  Lookups = {q1}
  Certs = {good}
  None = None
  MaxRenames = 1
  MaxFaults = 0

PROPERTY FollowsRename
