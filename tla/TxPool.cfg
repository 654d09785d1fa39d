\* A local and a remote account, two slots and a queue of two.
SPECIFICATION Spec
CONSTANTS
  a = a
  b = b
  g = g
  h1 = h1
  h2 = h2
  h3 = h3
  Accounts = {a, b}
  Wallet = {a}
  Txs <- MCTxs
  Batches <- MCBatches
  Heads = {g, h1, h2, h3}
  Genesis = g
  Parent <- MCParent
  BlockTxs <- MCBlockTxs
  Payable <- MCPayable
  Stateless = {h3}
  MaxReorg = 1
  PriceBump = 10
  Prices = {20, 22}
  PriceLimit = 20
  AccountSlots = 1
  GlobalSlots = 2
  AccountQueue = 2
  GlobalQueue = 2
  MaxJournal = 2
INVARIANTS
  AllIndexed
  PendingExecutable
  HeapCovers
  FairSlots
  RestartKeepsLocals
PROPERTY LocalsStay
CHECK_DEADLOCK FALSE
