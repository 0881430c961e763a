SPECIFICATION OpenPgpSpec
CONSTANTS
  work = work
  workOld = workOld
  private = private
  office = office
  home = home
  Never = Never
  None = None
  UserIds = {work, workOld, private}
  Addresses = {office, home}
  EmailOf <- MCEmailOf
  Subkeys = {sub}
  Certifiers = {friend}
  Expiries = {1}
  MaxNow = 1
  MaxEdits = 4
INVARIANTS PublishesTargetOnly ServedNotRevoked RevocationAccepted ServedRevalidates
CHECK_DEADLOCK FALSE
