SPECIFICATION ASpec
CONSTANTS
  alice = alice
  Never = Never
  None = None
  Uids = {alice, bob}
  Expiries = {Never}
  Slots = {home}
  ServedSlots = {home}
  Certs = {good}
  CertInfo <- MCCertInfo
  InitialOwns <- MCOwns
  Requests = {r1, r2}
  MaxId = 2
  MaxTime = 0
  MaxFaults = 0
PROPERTY SharedConflictMeansHolderOwns
