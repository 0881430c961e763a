SPECIFICATION FrontendSpec
CONSTANTS
  Addresses = {office, home}
  Never = Never
  None = None
  Expiries = {Never, 1}
  InitialIds = 2
  MaxClicks = 2
  MaxFaults = 1
  MaxNow = 1
INVARIANTS BadgeIsHonest
CHECK_DEADLOCK FALSE
