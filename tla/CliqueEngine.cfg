\* Two keys in turn, proposals at any time.
SPECIFICATION EngineSpec
CONSTANTS
  Accounts = {1, 2, 3}
  Initial = {1, 2}
  Rogue = {}
  Epoch = 3
  Uint64 = 65536
  Keys = {1, 2}
  MaxBlock = 4
INVARIANTS
  SnapshotExists
  SealedVerifies
CHECK_DEADLOCK FALSE
