SPECIFICATION LiveSpec
CONSTANTS
  alice = alice
  bob = bob
  carol = carol
  home = home
  foreign = foreign
  good = good
  dated = dated
  revokedCert = revokedCert
  wrong = wrong
  Never = Never
  None = None
  Uids = {alice, bob}
  Expiries = {Never}
  Slots = {home}
  ServedSlots = {home}
  Certs = {good}
  CertInfo <- MCCertInfo
  InitialOwns <- MCOwns
  Requests = {r1, r2}
  MaxId = 3
  MaxTime = 0
  MaxFaults = 1
PROPERTY NewOwnerPublishes
