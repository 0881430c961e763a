SPECIFICATION QuerySpec
CONSTANTS
  Lookups = {q1, q2}
  Certs = {good}
  None = None
  MaxRenames = 1
  MaxFaults = 2
INVARIANT HandleWhileSelecting
PROPERTIES AnswersAreTheFiles Recovers
