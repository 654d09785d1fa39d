\* Blocks over two state roots, kept for one block.
SPECIFICATION Spec
CONSTANTS
  c = c
  p = p
  q = q
  r1 = r1
  r2 = r2
  Nil = Nil
  Hashes = {c, p, q, r1, r2}
  Embedded <- MCEmbedded
  External <- MCExternal
  Order <- MCOrder
  Roots = {r1, r2}
  Retain = 1
  Width = 16
  MaxFlush = 5
  MaxBlocks = 4
INVARIANTS
  TriesComplete
  DiskClosed
  NothingDangles
CHECK_DEADLOCK FALSE
