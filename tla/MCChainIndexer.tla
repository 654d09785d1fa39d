--------------------------- MODULE MCChainIndexer ---------------------------
(* Sections of two blocks after one more block, sections of the child of   *)
(* two blocks as soon as the parent has them.                              *)
EXTENDS ChainIndexer

MCSize == <<2, 2>>
MCConfirms == <<1, 0>>
=============================================================================
