SPECIFICATION StorageSpec
CONSTANTS
  Never = Never
  None = None
  Uids = {alice, bob, carol}
  Slots = {home}
  Certs = {good}
  Expiries = {Never}
  Writers = {w1, w2}
  Uploads <- MCUploads
  MaxId = 3
INVARIANTS UniqueNeverFires
PROPERTIES StoresAtomically CommitsAsCalled TakeoverLeavesNoGap
