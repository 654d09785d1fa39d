------------------------------ MODULE MCFetcher ------------------------------
(***************************************************************************)
(* A small instance of the fetcher.  Block a sits on the root; block x     *)
(* sits on a, has an empty body and a header that does not verify.         *)
(***************************************************************************)
EXTENDS Fetcher, TLC

CONSTANTS a, x, r, full, empty

ChainNum    == (a :> 1) @@ (x :> 2)
ChainParent == (a :> r) @@ (x :> a)
ChainBody   == (a :> full) @@ (x :> empty)
==============================================================================
