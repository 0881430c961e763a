SPECIFICATION Spec
CONSTANTS
  alice = alice
  bob = bob
  carol = carol
  home = home
  foreign = foreign
  good = good
  dated = dated
  revokedCert = revokedCert
  wrong = wrong
  Never = Never
  None = None
  Uids = {alice, bob}
  Expiries = {1, Never}
  Slots = {home, foreign}
  ServedSlots = {home}
  Certs = {good, dated, revokedCert, wrong}
  CertInfo <- MCCertInfo
  InitialOwns <- MCOwns
  Requests = {r1}
  MaxId = 2
  MaxTime = 2
  MaxFaults = 1
INVARIANTS TypeOK ServedIsGood OneRowPerSlot
PROPERTY IsDirectory
