\* One lying peer, fair scheduling.
SPECIFICATION FairSpec
CONSTANTS
  a = a
  x = x
  r = r
  full = full
  empty = empty
  Peers = {p1}
  Liars = {p1}
  Legacy = {}
  Hashes = {a, x}
  Root = r
  Num <- ChainNum
  ParentOf <- ChainParent
  BodyOf <- ChainBody
  EmptyBody = empty
  Invalid = {x}
  HashLimit = 2
  BlockLimit = 1
  MaxUncleDist = 1
  MaxQueueDist = 1
  MaxPending = 1
  MaxCopies = 1
  MaxDeficit = 1
  NoAnnounce = none
PROPERTY ImportsReaped
CHECK_DEADLOCK FALSE
