------------------------- MODULE CliqueEngineProofs -------------------------
(***************************************************************************)
(* Proofs about the engine of Clique: the snapshots of its chain keep the  *)
(* invariant of CliqueProofs, although nobody verifies the blocks that the *)
(* node seals itself, and the others verify those blocks.                  *)
(***************************************************************************)
EXTENDS Clique, CliqueProofs

\* What Prepare and Seal have put into the header at hand still fits the
\* snapshot at the head; only its difficulty depends on the key it was made for.
Prepared ==
  /\ work \in [signer : Address, coinbase : Address, authorize : BOOLEAN,
               inturn : BOOLEAN, list : SUBSET Address]
  /\ work.inturn = inturn(snap, snap.number + 1, asked)
  /\ Checkpoint(snap.number + 1) =>
       work.coinbase = Zero /\ ~work.authorize /\ work.list = snap.signers
  /\ ~Checkpoint(snap.number + 1) => work.list = {}

WorkInv ==
  /\ key \in Keys
  /\ phase # "none" => Prepared
  /\ phase = "signing" => work.signer \in Accounts /\ MaySeal(snap, work.signer)

EngineInv == IInv /\ WorkInv

LEMMA EngineInitInv == EngineInit => EngineInv
BY InitInv DEF EngineInit, EngineInv, WorkInv

\* inturn is a truth value.
LEMMA InturnBoolean == \A s, n, a : inturn(s, n, a) \in BOOLEAN
BY DEF inturn

\* Steps that leave the chain alone.
LEMMA SameChain ==
  ASSUME IInv, UNCHANGED vars
  PROVE  IInv'
BY StepInv

LEMMA PrepareInv ==
  ASSUME EngineInv, Prepare
  PROVE  EngineInv'
<1>1. IInv'
  BY SameChain DEF EngineInv, Prepare
<1>2. CASE snap.signers = {}
  BY <1>1, <1>2 DEF EngineInv, WorkInv, Prepared, Prepare, vars
<1>3. CASE snap.signers # {}
  <2>1. PICK v \in Ballots :
          work' = [signer |-> Zero, coinbase |-> v.coinbase, authorize |-> v.authorize,
                   inturn |-> inturn(snap, snap.number + 1, key),
                   list |-> IF Checkpoint(snap.number + 1) THEN snap.signers ELSE {}]
    BY <1>3 DEF Prepare
  <2>2. phase' = "prepared" /\ asked' = key /\ UNCHANGED <<snap, key>>
    BY <1>3 DEF Prepare, vars
  <2>3. /\ v.coinbase \in Address /\ v.authorize \in BOOLEAN
        /\ Checkpoint(snap.number + 1) => v.coinbase = Zero /\ ~v.authorize
    <3>1. CASE v = NoVote
      BY <3>1 DEF NoVote, Address
    <3>2. CASE v # NoVote
      <4>1. PICK a \in Sensible :
               v = [coinbase |-> a, authorize |-> proposals[a] = "auth"]
        BY <3>2 DEF Ballots
      <4>2. ~Checkpoint(snap.number + 1) /\ a \in Address
        BY <3>2 DEF Ballots, Sensible
      <4>3. QED
        BY <4>1, <4>2
    <3>3. QED
      BY <3>1, <3>2
  <2>4. snap.signers \in SUBSET Address /\ Zero \in Address
    BY TypeParts DEF EngineInv, IInv, SnapType, Address
  <2>5. Prepared'
    BY <2>1, <2>2, <2>3, <2>4, InturnBoolean DEF Prepared
  <2>6. QED
    BY <1>1, <2>2, <2>5 DEF EngineInv, WorkInv
<1>4. QED
  BY <1>2, <1>3

LEMMA SealInv ==
  ASSUME EngineInv, Seal
  PROVE  EngineInv'
<1>1. IInv' /\ UNCHANGED <<snap, key, asked>>
  BY SameChain DEF EngineInv, Seal, vars
<1>2. CASE key \notin snap.signers
  BY <1>1, <1>2 DEF EngineInv, WorkInv, Seal
<1>3. CASE key \in snap.signers
  <2>1. /\ work' = [work EXCEPT !.signer = key]
        /\ phase' = IF MaySeal(snap, key) THEN "signing" ELSE "waiting"
    BY <1>3 DEF Seal
  <2>2. Prepared /\ key \in Accounts
    BY KeysAssumption DEF EngineInv, WorkInv, Seal
  <2>3. /\ work' \in [signer : Address, coinbase : Address, authorize : BOOLEAN,
                      inturn : BOOLEAN, list : SUBSET Address]
        /\ work'.signer = key /\ work'.coinbase = work.coinbase
        /\ work'.authorize = work.authorize /\ work'.inturn = work.inturn
        /\ work'.list = work.list
    BY <2>1, <2>2 DEF Prepared, Address
  <2>4. Prepared'
    BY <1>1, <2>2, <2>3 DEF Prepared
  <2>5. QED
    BY <1>1, <2>1, <2>2, <2>3, <2>4 DEF EngineInv, WorkInv
<1>4. QED
  BY <1>2, <1>3

\* What is signed is a header.
LEMMA SignedHeader ==
  ASSUME EngineInv, phase = "signing"
  PROVE  work \in Header /\ MaySeal(snap, work.signer)
BY DEF EngineInv, WorkInv, Prepared, Header

LEMMA EngineStepInv ==
  ASSUME EngineInv, [EngineNext]_allVars
  PROVE  EngineInv'
<1>1. CASE \E k \in Keys : Authorize(k)
  BY <1>1, SameChain DEF Authorize, EngineInv, WorkInv, Prepared, vars
<1>2. CASE \E a \in Address : (\E p \in {"auth", "drop"} : Propose(a, p)) \/ Discard(a)
  BY <1>2, SameChain DEF Propose, Discard, EngineInv, WorkInv, Prepared, vars
<1>3. CASE Prepare
  BY <1>3, PrepareInv
<1>4. CASE Seal
  BY <1>4, SealInv
<1>5. CASE Sign
  BY <1>5, SignedHeader, ExtendInv DEF Sign, EngineInv, WorkInv
<1>6. CASE \E h \in Headers : NewHead(h)
  <2>1. PICK h \in Headers : NewHead(h)
    BY <1>6
  <2>2. Next
    BY <2>1 DEF NewHead, Next
  <2>3. QED
    BY <2>1, <2>2, StepInv DEF NewHead, EngineInv, WorkInv
<1>7. CASE UNCHANGED allVars
  BY <1>7, SameChain DEF allVars, engineVars, EngineInv, WorkInv, Prepared, vars
<1>8. QED
  BY <1>1, <1>2, <1>3, <1>4, <1>5, <1>6, <1>7 DEF EngineNext

-----------------------------------------------------------------------------
(* The theorems.                                                           *)

\* The votes, the tally and the recent signers stay consistent in a node that
\* mines, and the header at hand fits the head.
THEOREM EngineInvariant == EngineSpec => []EngineInv
<1>1. QED
  BY EngineInitInv, EngineStepInv, PTL DEF EngineSpec

\* A block that Prepare and Seal made for one key is valid for the others,
\* whatever happened between the two, if numbers do not wrap.
THEOREM OwnBlocksVerify ==
  ASSUME MaxBlock < Uint64
  PROVE  EngineSpec => []SealedVerifies
<1>1. EngineInit => SealedVerifies
  BY DEF EngineInit, SealedVerifies
<1>2. ASSUME EngineInv, SealedVerifies, [EngineNext]_allVars
      PROVE  SealedVerifies'
  <2>1. CASE Sign
    <3>1. /\ Prepared /\ MaySeal(snap, work.signer) /\ snap.number < MaxBlock
      BY <1>2, <2>1 DEF EngineInv, WorkInv, Sign, Extend
    <3>2. CASE work.signer = asked
      <4> DEFINE n == snap.number + 1
                 l == Limit(snap.signers)
      <4>1. /\ snap.number \in Nat /\ n \in Nat /\ l \in Nat
            /\ Uint64 \in Nat \ {0} /\ MaxBlock \in Nat
        BY <1>2, TypeParts, FiniteSigners, CliqueAssumption
           DEF EngineInv, IInv, SnapType
      <4>2. ASSUME NEW r \in snap.recents, r.signer = work.signer
            PROVE  r.block <= (n - l) % Uint64
        <5>1. n >= l /\ r.block <= n - l
          BY <3>1, <4>2 DEF MaySeal
        <5>0. n <= MaxBlock
          BY <3>1, <4>1
        <5> HIDE DEF n, l
        <5>2. n - l \in 0 .. Uint64 - 1
          BY <4>1, <5>0, <5>1
        <5>3. (n - l) % Uint64 = n - l
          BY <4>1, <5>2
        <5>4. QED
          BY <5>1, <5>3
      <4>3. verifySeal(snap, work)
        BY <3>1, <3>2, <4>2 DEF verifySeal, Prepared, MaySeal
      <4>4. verifyHeader(snap, work)
        BY <3>1, <4>3 DEF verifyHeader, Prepared
      <4>5. QED
        BY <2>1, <4>4 DEF Sign, SealedVerifies
    <3>3. CASE work.signer # asked
      BY <2>1, <3>3 DEF Sign, SealedVerifies
    <3>4. QED
      BY <3>2, <3>3
  <2>2. CASE UNCHANGED sealed
    BY <1>2, <2>2 DEF SealedVerifies
  <2>3. QED
    BY <1>2, <2>1, <2>2
       DEF EngineNext, Authorize, Propose, Discard, Prepare, Seal, NewHead, allVars, engineVars
<1>3. QED
  BY EngineInvariant, <1>1, <1>2, PTL DEF EngineSpec

\* Neither the blocks of honest accounts nor those of this node, verified by
\* nobody, give the chain a head whose snapshot cannot be built.
THEOREM EngineNeverStuck ==
  ASSUME Rogue = {}
  PROVE  EngineSpec => []SnapshotExists
<1>1. EngineInit => SnapshotExists
  BY DEF EngineInit, Init, SnapshotExists
<1>2. ASSUME EngineInv, SnapshotExists, [EngineNext]_allVars
      PROVE  SnapshotExists'
  <2>0. snap \in SnapType /\ RecentInv(snap)
    BY <1>2, TypeParts DEF EngineInv, IInv
  <2>1. CASE Sign
    BY <1>2, <2>0, <2>1, SignedHeader, MaySealApplies DEF Sign, Extend, SnapshotExists
  <2>2. CASE \E h \in Headers : NewHead(h)
    <3>1. PICK h \in Headers : AddHeader(h)
      BY <2>2 DEF NewHead
    <3>2. MaySeal(snap, h.signer)
      BY <3>1 DEF AddHeader, Proper
    <3>3. QED
      BY <2>0, <3>1, <3>2, MaySealApplies DEF AddHeader, Extend, SnapshotExists
  <2>3. CASE UNCHANGED vars
    BY <1>2, <2>3 DEF vars, SnapshotExists
  <2>4. QED
    BY <1>2, <2>1, <2>2, <2>3
       DEF EngineNext, Authorize, Propose, Discard, Prepare, Seal, allVars
<1>3. QED
  BY EngineInvariant, <1>1, <1>2, PTL DEF EngineSpec
=============================================================================
