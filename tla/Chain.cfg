\* A mining node with pruned states, a node that is rewound, a fast sync.
SPECIFICATION Spec
CONSTANTS
  g = g  a1 = a1  a2 = a2  a3 = a3  a4 = a4
  b1 = b1  b2 = b2  b3 = b3  c3 = c3  h1 = h1  h2 = h2
  t1 = t1  t2 = t2  t3 = t3
  Blocks = {g, a1, a2, a3, a4, b1, b2, b3, c3, h1, h2}
  Genesis = g
  Parent <- MCParent
  Num <- MCNum
  Diff <- MCDiff
  Txs <- MCTxs
  Tries = 2
  None = none
  Uses <- MCUses
  Late = {}
  MaxCrashes = 0
INVARIANTS
  CanonicalLinked
  HeadUsable
  HeaviestWins
  LookupCanonical
  HeadersLinked
  FastHeadKnown
PROPERTY OnlyPanic
CHECK_DEADLOCK FALSE
