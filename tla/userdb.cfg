SPECIFICATION BuildUserDbSpec
CONSTANTS
  EarlySaves = FALSE
  MaxSaves = 3
  MaxFaults = 2
  MaxEvents = 2
  primary = primary
  alias = alias
  other = other
  first = first
  second = second
  Addresses = {primary, alias, other}
  Entries = {first, second}
  EntryOf <- MCEntryOf
  AttrOf <- MCAttrOf
  Names = {"mail", "Mail", "alias", "Alias"}
  Fold <- MCFold
  Budget = 2
INVARIANTS WithinBudget
PROPERTIES FollowsFile HotReloads AnswersAsDirectory CallEnds
CHECK_DEADLOCK FALSE
