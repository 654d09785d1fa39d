------------------------------- MODULE Clique -------------------------------
(***************************************************************************)
(* The engine of consensus/clique/clique.go in one mining node, on top of  *)
(* the snapshots of its chain: proposals and the signing key change at any *)
(* time, Prepare makes a header, Seal waits for its slot and signs it.     *)
(* Headers of the other accounts arrive meanwhile; a new head makes the    *)
(* miner abandon the work at hand.  The miner does not verify its own      *)
(* blocks.                                                                 *)
(***************************************************************************)
EXTENDS CliqueSnapshot

CONSTANT Keys    \* accounts in the wallet of this node

ASSUME KeysAssumption == Keys \subseteq Accounts /\ Keys # {}

VARIABLES
  key,         \* the engine's signer
  proposals,   \* "auth", "drop" or "none" for each account
  work,        \* the header in preparation
  phase,       \* of the work: "none", "prepared", "waiting" or "signing"
  asked,       \* history: the key that the work was prepared for
  sealed,      \* history: what others say of the last sealed block
  mode         \* "up" or "panic"

engineVars == <<key, proposals, work, phase, asked, sealed, mode>>
allVars == <<vars, engineVars>>

EngineInit ==
  /\ Init
  /\ key \in Keys /\ proposals = [a \in Address |-> "none"]
  /\ work = NoHeader /\ phase = "none" /\ asked = key /\ sealed = "none" /\ mode = "up"

\* StartMining, called again for another etherbase, hands its key to the engine.
Authorize(k) ==
  /\ mode = "up" /\ key # k
  /\ key' = k
  /\ UNCHANGED <<vars, proposals, work, phase, asked, sealed, mode>>

Propose(a, p) ==
  /\ mode = "up" /\ proposals[a] # p
  /\ proposals' = [proposals EXCEPT ![a] = p]
  /\ UNCHANGED <<vars, key, work, phase, asked, sealed, mode>>

Discard(a) ==
  /\ mode = "up" /\ proposals[a] # "none"
  /\ proposals' = [proposals EXCEPT ![a] = "none"]
  /\ UNCHANGED <<vars, key, work, phase, asked, sealed, mode>>

Sensible == {a \in Address : /\ proposals[a] # "none"
                             /\ validVote(snap, a, proposals[a] = "auth")}
NoVote == [coinbase |-> Zero, authorize |-> FALSE]

\* Mutation: checkpoint blocks vote too.
BallotsAlways ==
  IF Sensible = {} THEN {NoVote}
  ELSE {[coinbase |-> a, authorize |-> proposals[a] = "auth"] : a \in Sensible}

\* The vote of a block: none on a checkpoint, otherwise a random proposal.
Ballots ==
  IF Checkpoint(snap.number + 1) \/ Sensible = {} THEN {NoVote}
  ELSE {[coinbase |-> a, authorize |-> proposals[a] = "auth"] : a \in Sensible}

\* The difficulty follows from the key of now; without signers its computation
\* divides by zero.
Prepare ==
  /\ mode = "up" /\ phase = "none" /\ ~stuck /\ snap.number < MaxBlock
  /\ IF snap.signers = {}
       THEN mode' = "panic" /\ UNCHANGED <<work, phase, asked>>
       ELSE /\ \E v \in Ballots :
                 work' = [signer |-> Zero, coinbase |-> v.coinbase, authorize |-> v.authorize,
                          inturn |-> inturn(snap, snap.number + 1, key),
                          list |-> IF Checkpoint(snap.number + 1) THEN snap.signers ELSE {}]
            /\ phase' = "prepared" /\ asked' = key /\ UNCHANGED mode
  /\ UNCHANGED <<vars, key, proposals, sealed>>

\* Mutation: recent signers do not wait.
SealAtOnce ==
  /\ mode = "up" /\ phase = "prepared"
  /\ IF key \in snap.signers
       THEN work' = [work EXCEPT !.signer = key] /\ phase' = "signing"
       ELSE work' = NoHeader /\ phase' = "none"
  /\ UNCHANGED <<vars, key, proposals, asked, sealed, mode>>

\* Seal looks at the key of now, once.
Seal ==
  /\ mode = "up" /\ phase = "prepared"
  /\ IF key \notin snap.signers
       THEN work' = NoHeader /\ phase' = "none"
       ELSE /\ work' = [work EXCEPT !.signer = key]
            /\ phase' = IF MaySeal(snap, key) THEN "signing" ELSE "waiting"
  /\ UNCHANGED <<vars, key, proposals, asked, sealed, mode>>

\* The slot has come; the block becomes the head.
Sign ==
  /\ mode = "up" /\ phase = "signing"
  /\ Extend(work)
  /\ sealed' = CASE verifyHeader(snap, work) -> "valid"
                 [] work.signer # asked -> "rekeyed"
                 [] OTHER -> "invalid"
  /\ work' = NoHeader /\ phase' = "none"
  /\ UNCHANGED <<key, proposals, asked, mode>>

\* A block of another account becomes the head.
NewHead(h) ==
  /\ mode = "up" /\ h.signer \notin Keys
  /\ AddHeader(h)
  /\ work' = NoHeader /\ phase' = "none"
  /\ UNCHANGED <<key, proposals, asked, sealed, mode>>

EngineNext ==
  \/ \E k \in Keys : Authorize(k)
  \/ \E a \in Address : (\E p \in {"auth", "drop"} : Propose(a, p)) \/ Discard(a)
  \/ Prepare \/ Seal \/ Sign
  \/ \E h \in Headers : NewHead(h)

EngineSpec == EngineInit /\ [][EngineNext]_allVars

-----------------------------------------------------------------------------
(* Properties.                                                             *)

\* Whatever is proposed, whichever keys are used and whichever heads arrive while
\* the engine works, the others verify a block that it seals with the key it was
\* prepared for.  (Prepare and Seal read the key separately: a block sealed with
\* another key than it was prepared for may have the wrong difficulty.)
SealedVerifies == sealed # "invalid"
=============================================================================
