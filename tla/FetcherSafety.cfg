\* Chain instance: x on top of a.
SPECIFICATION Spec
CONSTANTS
  a = a
  x = x
  r = r
  full = full
  empty = empty
  Peers = {p1, p2}
  Liars = {p1}
  Legacy = {}
  Hashes = {a, x}
  Root = r
  Num <- ChainNum
  ParentOf <- ChainParent
  BodyOf <- ChainBody
  EmptyBody = empty
  Invalid = {x}
  HashLimit = 2
  BlockLimit = 1
  MaxUncleDist = 1
  MaxQueueDist = 1
  MaxPending = 2
  MaxCopies = 2
  MaxDeficit = 1
  NoAnnounce = none
INVARIANTS
  TypeOK
  QueuedOnce
  QueueCounters
  OnlyLiarsDropped
  NoSecondFetch
CHECK_DEADLOCK FALSE
