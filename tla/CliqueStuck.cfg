\* Four signers, one of them rogue.
SPECIFICATION Spec
CONSTANTS
  Accounts = {1, 2, 3, 4}
  Initial = {1, 2, 3, 4}
  Rogue = {1}
  Epoch = 5
  Uint64 = 65536
  MaxBlock = 6
INVARIANT SnapshotExists
CHECK_DEADLOCK FALSE
