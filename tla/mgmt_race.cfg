SPECIFICATION ASpec
CONSTANTS
  alice = alice
  Never = Never
  None = None
  Uids = {alice, bob, carol}
  Expiries = {Never}
  Slots = {home}
  ServedSlots = {home}
  Certs = {good}
  CertInfo <- MCCertInfo
  InitialOwns <- MCOwns
  Requests = {r1, r2}
  MaxId = 2
  MaxTime = 0
  MaxFaults = 1
INVARIANT IdNamesOneRow
PROPERTIES AppearsAuthorised DisappearsAuthorised SharedConflictIsRecent
SYMMETRY MCSymmetry
