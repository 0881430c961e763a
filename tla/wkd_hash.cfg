SPECIFICATION WkdHashSpec
CONSTANTS
  Bytes = {0, 1, 90, 165, 255}
  Word = 4096
  MaxBytes = 5
  Small = {"a"}
  Capital = {"A"}
  Other = {"0"}
  LowerOf <- MCLowerOf
  allowed_domains <- MCAllowedDomains
  NotServed = NotServed
  MaxLen = 5
INVARIANTS EncodesTheBits AcceptsExactlyOneAt OwnedIsPublished LookupFindsSlot
CHECK_DEADLOCK FALSE
