\* A master and a second peer.
SPECIFICATION Spec
CONSTANTS
  Height = 3
  Peers = {1, 2}
  Master = 1
  Modes = {"full", "fast"}
  NoBody = {}
  NoReceipts = {1, 3}
  CacheSize = 2
  Limits = {1}
  MaxHeaderFetch = 2
  MaxResults = 1
  Counts = {2}
  Stall = 1
  MaxSkeleton = 1
  MaxChunk = 2
  MaxQueued = 2
  MaxAsked = 2
  MaxFaults <- MCMaxFaults
  MaxSyncs <- MCMaxSyncs
INVARIANTS
  PartsConserved
  HonestPeersReturn
  SuccessComplete
PROPERTIES
  DeliversInOrder
  NoSpuriousFailure
CHECK_DEADLOCK FALSE
