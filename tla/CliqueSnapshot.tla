--------------------------- MODULE CliqueSnapshot ---------------------------
(***************************************************************************)
(* The proof-of-authority voting of consensus/clique: the snapshot of      *)
(* snapshot.go at the head of a chain that grows by one header at a time,  *)
(* and the header checks of clique.go.                                     *)
(*                                                                         *)
(* An address is a number, so that addresses have an order; 0 is the zero  *)
(* address, the beneficiary of a block that votes on nobody.  The list of  *)
(* votes is a set: apply keeps one vote per signer and account, and what a *)
(* vote's block number and place say is only displayed.  An absent tally   *)
(* has no votes.                                                           *)
(***************************************************************************)
EXTENDS Integers, FiniteSets

CONSTANTS
  Accounts,   \* addresses that can sign
  Initial,    \* signers in the extra-data of the genesis block
  Rogue,      \* accounts whose headers are not made by Prepare and Seal
  Epoch,      \* config.Epoch
  Uint64,     \* 2^64; a run may take any modulus above MaxBlock
  MaxBlock    \* bound of the model: length of the chain

ASSUME CliqueAssumption ==
  /\ IsFiniteSet(Accounts) /\ Accounts \subseteq Nat \ {0}
  /\ Initial \subseteq Accounts /\ Rogue \subseteq Accounts
  /\ Epoch \in Nat \ {0} /\ Uint64 \in Nat \ {0} /\ MaxBlock \in Nat

Zero    == 0
Address == Accounts \cup {Zero}

VARIABLES
  snap,         \* the snapshot at the head
  last,         \* the header of the head
  lastSigned,   \* number of the last block of each account, 0 if none
  stuck         \* the head was verified, but its snapshot cannot be built

vars == <<snap, last, lastSigned, stuck>>

Vote  == [signer : Accounts, address : Address, authorize : BOOLEAN]
Tally == [authorize : BOOLEAN, votes : Nat]
Header == [signer : Accounts, coinbase : Address, authorize : BOOLEAN,
           inturn : BOOLEAN, list : SUBSET Address]

NoTally  == [authorize |-> FALSE, votes |-> 0]
NoHeader == [signer |-> Zero, coinbase |-> Zero, authorize |-> FALSE, inturn |-> FALSE, list |-> {}]

newSnapshot == [number |-> 0, signers |-> Initial, recents |-> {}, votes |-> {},
                tally |-> [a \in Address |-> NoTally]]

Init ==
  /\ snap = newSnapshot
  /\ last = NoHeader
  /\ lastSigned = [a \in Accounts |-> 0]
  /\ stuck = FALSE

-----------------------------------------------------------------------------
(* The snapshot.                                                           *)

Limit(signers) == Cardinality(signers) \div 2 + 1

validVote(s, address, authorize) == (address \in s.signers) # authorize

cast(tally, address, authorize) ==
  IF tally[address].votes > 0
    THEN [tally EXCEPT ![address].votes = @ + 1]
    ELSE [tally EXCEPT ![address] = [authorize |-> authorize, votes |-> 1]]

\* The tally without the votes of a set of votes; a vote that the tally does
\* not count is dropped.
uncast(tally, gone) ==
  [a \in Address |->
     LET n == Cardinality({v \in gone : v.address = a /\ v.authorize = tally[a].authorize})
     IN IF tally[a].votes > n THEN [tally[a] EXCEPT !.votes = @ - n]
        ELSE IF n > 0 THEN NoTally ELSE tally[a]]

\* The stages of apply for one header h with number n.  Checkpoints clear the
\* votes, ...
Cleared(s, n) ==
  IF n % Epoch = 0 THEN [s EXCEPT !.votes = {}, !.tally = [a \in Address |-> NoTally]] ELSE s

\* Mutation: one block too early.
ShiftedEarly(s, n) ==
  [s EXCEPT !.recents = {r \in @ : n >= Limit(s.signers) => r.block > n - Limit(s.signers) + 1}]

\* ... the oldest recent signer may sign again, ...
Shifted(s, n) ==
  [s EXCEPT !.recents = {r \in @ : n >= Limit(s.signers) => r.block # n - Limit(s.signers)}]

\* Mutation: recorded under the number of the parent.
SignedAtParent(s, n, h) == [s EXCEPT !.recents = @ \cup {[block |-> n - 1, signer |-> h.signer]}]

\* ... the signer is checked and recorded, ...
Authorized(s, signer) == signer \in s.signers /\ \A r \in s.recents : r.signer # signer
Signed(s, n, h) == [s EXCEPT !.recents = @ \cup {[block |-> n, signer |-> h.signer]}]

\* ... its previous vote on the account is discarded, ...
Discarded(s, h) ==
  LET old == {v \in s.votes : v.signer = h.signer /\ v.address = h.coinbase}
      first == {CHOOSE v \in old : TRUE}
  IN IF old = {} THEN s ELSE [s EXCEPT !.votes = @ \ first, !.tally = uncast(@, first)]

\* ... the new one is tallied if it makes sense, ...
Voted(s, h) ==
  IF validVote(s, h.coinbase, h.authorize)
    THEN [s EXCEPT !.tally = cast(@, h.coinbase, h.authorize),
                   !.votes = @ \cup {[signer |-> h.signer, address |-> h.coinbase,
                                      authorize |-> h.authorize]}]
    ELSE s

\* Mutation: half of the signers are enough.
PassedByHalf(s, a) == s.tally[a].votes > 0 /\ 2 * s.tally[a].votes >= Cardinality(s.signers)
Passed(s, a) == s.tally[a].votes > Cardinality(s.signers) \div 2

\* Mutation: the votes of the signer are discarded, but stay in the tally.
DroppedVotesOnly(s, n, a) ==
  LET rest == s.signers \ {a} IN
  [s EXCEPT !.signers = rest,
            !.recents = {r \in @ : n >= Limit(rest) => r.block # n - Limit(rest)},
            !.votes = {v \in @ : v.signer # a}]

\* Mutation: the votes of the signer survive.
DroppedKeepsVotes(s, n, a) ==
  LET rest == s.signers \ {a} IN
  [s EXCEPT !.signers = rest,
            !.recents = {r \in @ : n >= Limit(rest) => r.block # n - Limit(rest)}]

\* ... and a vote that passed changes the signers.  The votes of a signer that
\* was removed are discarded, and so are those on the account that changed.
Dropped(s, n, a) ==
  LET rest == s.signers \ {a}
      gone == {v \in s.votes : v.signer = a}
  IN [s EXCEPT !.signers = rest,
               !.recents = {r \in @ : n >= Limit(rest) => r.block # n - Limit(rest)},
               !.votes = @ \ gone,
               !.tally = uncast(@, gone)]

Settled(s, a) ==
  [s EXCEPT !.votes = {v \in @ : v.address # a}, !.tally = [@ EXCEPT ![a] = NoTally]]

Changed(s, n, a) ==
  IF ~Passed(s, a) THEN s
  ELSE IF s.tally[a].authorize THEN Settled([s EXCEPT !.signers = @ \cup {a}], a)
  ELSE Settled(Dropped(s, n, a), a)

\* apply for one header that is authorized.
apply(s, h) ==
  LET n == s.number + 1
      t == Signed(Shifted(Cleared(s, n), n), n, h)
  IN [Changed(Voted(Discarded(t, h), h), n, h.coinbase) EXCEPT !.number = n]

\* Whether apply accepts a header.
Applicable(s, signer) == Authorized(Shifted(s, s.number + 1), signer)

-----------------------------------------------------------------------------
(* The rules of clique.go.                                                 *)

\* The place of a signer in the ascending list, and whether it is its turn.
Offset(s, signer) == Cardinality({a \in s.signers : a < signer})
inturn(s, number, signer) ==
  signer \in s.signers /\ number % Cardinality(s.signers) = Offset(s, signer)

Checkpoint(n) == n % Epoch = 0

\* verifySeal; the subtraction is one of unsigned 64 bit numbers.
verifySeal(s, h) ==
  LET n == s.number + 1 IN
  /\ h.signer \in s.signers
  /\ \A r \in s.recents : r.signer = h.signer => r.block <= (n - Limit(s.signers)) % Uint64
  /\ h.inturn = inturn(s, n, h.signer)

\* verifyHeader and verifyCascadingFields.
verifyHeader(s, h) ==
  /\ Checkpoint(s.number + 1) => h.coinbase = Zero /\ ~h.authorize /\ h.list = s.signers
  /\ ~Checkpoint(s.number + 1) => h.list = {}
  /\ verifySeal(s, h)

\* Mutation: a recent signer waits one block longer.
MaySealLate(s, signer) ==
  LET n == s.number + 1 IN
  /\ signer \in s.signers
  /\ \A r \in s.recents :
       r.signer = signer => n >= Limit(s.signers) /\ r.block < n - Limit(s.signers)

\* Seal makes a signer wait that has signed recently.
MaySeal(s, signer) ==
  LET n == s.number + 1 IN
  /\ signer \in s.signers
  /\ \A r \in s.recents :
       r.signer = signer => n >= Limit(s.signers) /\ r.block <= n - Limit(s.signers)

\* Prepare votes on a proposal that makes sense, or on nobody.
Proper(s, h) ==
  /\ MaySeal(s, h.signer)
  /\ \/ h.coinbase = Zero /\ ~h.authorize
     \/ validVote(s, h.coinbase, h.authorize)

-----------------------------------------------------------------------------
\* A header is appended to the chain, whatever becomes of its snapshot.
Extend(h) ==
  /\ ~stuck /\ snap.number < MaxBlock
  /\ IF Applicable(snap, h.signer)
       THEN snap' = apply(snap, h) /\ stuck' = FALSE
       ELSE stuck' = TRUE /\ UNCHANGED snap
  /\ last' = h
  /\ lastSigned' = [lastSigned EXCEPT ![h.signer] = snap.number + 1]

\* A header of account h.signer arrives and verifies.
AddHeader(h) ==
  /\ h.signer \in Rogue \/ Proper(snap, h)
  /\ verifyHeader(snap, h)
  /\ Extend(h)

Headers == [signer : Accounts, coinbase : Address, authorize : BOOLEAN, inturn : BOOLEAN,
            list : {{}, snap.signers}]

Next == \E h \in Headers : AddHeader(h)

Spec == Init /\ [][Next]_vars

-----------------------------------------------------------------------------
(* Properties.                                                             *)

\* The snapshot holds addresses; recents holds one block per number.
TypeOK ==
  /\ snap \in [number : Nat, signers : SUBSET Address,
               recents : SUBSET [block : Nat \ {0}, signer : Accounts],
               votes : SUBSET Vote, tally : [Address -> Tally]]
  /\ last \in Header \cup {NoHeader}
  /\ lastSigned \in [Accounts -> Nat]
  /\ stuck \in BOOLEAN

\* The cached tally of an account is the number of its votes in the list.
TallyCounts ==
  \A a \in Address : snap.tally[a].votes = Cardinality({v \in snap.votes : v.address = a})

\* "Votes from deauthorized signers are discarded immediately", "counted once
\* per signer per target", and "pending votes don't survive authorization status
\* changes": a pending vote is that of a signer, its only one on that account, a
\* vote that makes sense, and one the tally counts.
VotesSound ==
  /\ \A v \in snap.votes : /\ v.signer \in snap.signers
                          /\ validVote(snap, v.address, v.authorize)
                          /\ v.authorize = snap.tally[v.address].authorize
  /\ \A v, w \in snap.votes : v.signer = w.signer /\ v.address = w.address => v = w

\* Signers that are for a change of the account that header h votes on.
Backers(h) ==
  LET want == h.coinbase \notin snap.signers
      pending == Cleared(snap, snap.number + 1).votes
  IN {v.signer : v \in {u \in pending : /\ u.address = h.coinbase /\ u.authorize = want
                                        /\ u.signer # h.signer}}
     \cup (IF h.authorize = want THEN {h.signer} ELSE {})

\* The signers only change by the account of the header, and only when more than
\* half of them are for it, since the last checkpoint.
MajorityStep ==
  snap'.signers # snap.signers =>
    LET a == last'.coinbase IN
    /\ snap'.signers \cup {a} = snap.signers \cup {a}
    /\ Backers(last') \subseteq snap.signers
    /\ 2 * Cardinality(Backers(last')) > Cardinality(snap.signers)
MajorityRules == [][MajorityStep]_vars

\* However the signers change, an account signs at most one block in any
\* len(Signers)/2 + 1 consecutive ones.
SpamStep ==
  snap'.number # snap.number =>
    LET a == last'.signer IN
    lastSigned[a] = 0 \/ snap'.number - lastSigned[a] >= Limit(snap.signers)
SpamProtection == [][SpamStep]_vars

\* However the signers changed, the recent signers never include all of them: as
\* long as there are signers, Seal lets one of them seal the next block.
SomeoneMaySeal == snap.signers # {} => \E a \in snap.signers : MaySeal(snap, a)

\* A header that verifySeal accepts has a snapshot, so that its children can be
\* verified: "only fail if the current block doesn't shift it out".
SnapshotExists == ~stuck
=============================================================================
