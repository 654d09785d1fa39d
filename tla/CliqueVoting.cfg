\* Any header that verifies, from any account.
SPECIFICATION Spec
CONSTANTS
  Accounts = {1, 2, 3, 4}
  Initial = {1, 2, 3}
  Rogue = {1, 2, 3, 4}
  Epoch = 5
  Uint64 = 65536
  MaxBlock = 8
INVARIANTS
  TypeOK
  TallyCounts
  VotesSound
  SomeoneMaySeal
PROPERTIES
  MajorityRules
  SpamProtection
CHECK_DEADLOCK FALSE
