---------------------------- MODULE ChainDelivery ----------------------------
(***************************************************************************)
(* What the content download of eth/downloader promises to the chain: the  *)
(* blocks of a known header chain are handed over in order, each once, and *)
(* none before all of its parts have been verified against its header.     *)
(* Nothing is said about peers, requests, caches or timeouts.              *)
(***************************************************************************)
EXTENDS Naturals

CONSTANT Height      \* the number of the last block

VARIABLES
  known,     \* headers known so far: 1 .. known
  verified,  \* the blocks all parts of which are verified
  handed     \* blocks handed over so far: 1 .. handed

avars == <<known, verified, handed>>

AInit ==
  /\ known = 0
  /\ verified = {}
  /\ handed = 0

\* More headers become known.
Extend ==
  /\ known' \in known + 1 .. Height
  /\ UNCHANGED <<verified, handed>>

\* Some known blocks become complete.
Verify ==
  /\ verified \subseteq verified'
  /\ verified' \subseteq 1 .. known
  /\ UNCHANGED <<known, handed>>

\* The next blocks are handed over, all of them complete.
HandOver ==
  /\ handed' \in handed + 1 .. known
  /\ handed + 1 .. handed' \subseteq verified
  /\ UNCHANGED <<known, verified>>

\* A new attempt starts after the blocks the chain has kept.
Restart ==
  /\ handed' \in 0 .. handed
  /\ known' = handed'
  /\ verified' = 1 .. handed'

ANext == Extend \/ Verify \/ HandOver \/ Restart

ASpec == AInit /\ [][ANext]_avars
=============================================================================
