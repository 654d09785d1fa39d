---------------------------- MODULE CliqueProofs ----------------------------
(***************************************************************************)
(* Proofs about the votes and the recent signers of a clique snapshot, for *)
(* every set of accounts, every epoch and every chain.                     *)
(***************************************************************************)
EXTENDS CliqueSnapshot, FiniteSetTheorems, TLAPS

Recent == [block : Nat \ {0}, signer : Accounts]
SnapType == [number : Nat, signers : SUBSET Address, recents : SUBSET Recent,
             votes : SUBSET Vote, tally : [Address -> Tally]]

-----------------------------------------------------------------------------
(* The inductive invariant, as predicates on a snapshot so that they can   *)
(* be followed through the stages of apply.                                *)

On(V, a) == {v \in V : v.address = a}

\* The tally counts a list of votes.
Counts(tally, V) ==
  /\ \A a \in Address : tally[a].votes = Cardinality(On(V, a))
  /\ \A v \in V : v.authorize = tally[v.address].authorize

\* There is one vote per signer and account.
Single(V) == \A v, w \in V : v.signer = w.signer /\ v.address = w.address => v = w

Sensical(s) == \A v \in s.votes : v.signer \in s.signers /\ validVote(s, v.address, v.authorize)

VoteInv(s) == IsFiniteSet(s.votes) /\ Counts(s.tally, s.votes) /\ Single(s.votes) /\ Sensical(s)

\* The recent blocks are of the last Limit numbers, with one signer each.
RecentInv(s) ==
  /\ \A r \in s.recents : r.block <= s.number /\ r.block > s.number - Limit(s.signers)
  /\ \A r, q \in s.recents : r.block = q.block \/ r.signer = q.signer => r = q

\* An account whose last block is close to the head s is a recent signer of s.
SignedInv(s, signed) ==
  \A a \in Accounts : signed[a] # 0 /\ signed[a] > (s.number + 1) - Limit(s.signers) =>
    [block |-> signed[a], signer |-> a] \in s.recents

IInv ==
  /\ TypeOK
  /\ VoteInv(snap)
  /\ RecentInv(snap)
  /\ ~stuck => SignedInv(snap, lastSigned)

-----------------------------------------------------------------------------
(* Helpers.                                                                *)

\* There are finitely many addresses, hence signers, and Limit is a number.
LEMMA FiniteSigners ==
  ASSUME NEW S \in SUBSET Address
  PROVE  /\ IsFiniteSet(S) /\ Cardinality(S) \in Nat
         /\ Limit(S) \in Nat \ {0} /\ 2 * Limit(S) <= Cardinality(S) + 2
         /\ 2 * Limit(S) > Cardinality(S)
<1>1. IsFiniteSet(Address)
  BY FS_AddElement, CliqueAssumption DEF Address
<1>2. IsFiniteSet(S) /\ Cardinality(S) \in Nat
  BY <1>1, FS_Subset, FS_CardinalityType
<1>3. QED
  BY <1>2 DEF Limit

\* One more signer raises the limit by at most one, one less lowers it by at
\* most one.
LEMMA LimitMoves ==
  ASSUME NEW S \in SUBSET Address, NEW a \in Address
  PROVE  /\ Limit(S \cup {a}) = Limit(S) \/ Limit(S \cup {a}) = Limit(S) + 1
         /\ Limit(S \ {a}) = Limit(S) \/ Limit(S \ {a}) = Limit(S) - 1
<1>1. Cardinality(S) \in Nat
  BY FiniteSigners
<1>2. \/ Cardinality(S \cup {a}) = Cardinality(S)
      \/ Cardinality(S \cup {a}) = Cardinality(S) + 1
  BY FiniteSigners, FS_AddElement
<1>3. \/ Cardinality(S \ {a}) = Cardinality(S)
      \/ Cardinality(S \ {a}) = Cardinality(S) - 1 /\ Cardinality(S) > 0
  <2>1. Cardinality(S \ {a}) \in Nat
    BY FiniteSigners
  <2>2. QED
    BY <1>1, <2>1, FiniteSigners, FS_RemoveElement
<1>4. QED
  BY <1>1, <1>2, <1>3 DEF Limit

\* The record of an account's tally.
LEMMA TallyRecord ==
  ASSUME NEW b \in BOOLEAN, NEW k \in Nat
  PROVE  /\ [authorize |-> b, votes |-> k] \in Tally
         /\ [authorize |-> b, votes |-> k].votes = k
         /\ [authorize |-> b, votes |-> k].authorize = b
<1>1. [authorize |-> b, votes |-> k] \in Tally
  BY Zenon DEF Tally
<1>2. [authorize |-> b, votes |-> k].votes = k
  BY Zenon
<1>3. [authorize |-> b, votes |-> k].authorize = b
  BY Zenon
<1>4. QED
  BY <1>1, <1>2, <1>3

\* Taking votes of the list out of a tally that counts the list leaves one that
\* counts the rest.
LEMMA UncastCounts ==
  ASSUME NEW V \in SUBSET Vote, IsFiniteSet(V), NEW gone \in SUBSET V,
         NEW tally \in [Address -> Tally], Counts(tally, V)
  PROVE  uncast(tally, gone) \in [Address -> Tally] /\ Counts(uncast(tally, gone), V \ gone)
<1> DEFINE n(a) == Cardinality({v \in gone : v.address = a /\ v.authorize = tally[a].authorize})
           t == uncast(tally, gone)
<1>1. ASSUME NEW a \in Address
      PROVE  /\ n(a) \in Nat
             /\ Cardinality(On(V, a)) \in Nat
             /\ Cardinality(On(V \ gone, a)) = Cardinality(On(V, a)) - n(a)
             /\ Cardinality(On(V \ gone, a)) \in Nat
             /\ \A v \in V \ gone : v.address = a => Cardinality(On(V, a)) > n(a)
  <2>1. {v \in gone : v.address = a /\ v.authorize = tally[a].authorize} = On(V, a) \cap gone
    BY DEF Counts, On
  <2>2. On(V \ gone, a) = On(V, a) \ gone
    BY DEF On
  <2>3. IsFiniteSet(On(V, a)) /\ IsFiniteSet(On(V \ gone, a)) /\ IsFiniteSet(On(V, a) \cap gone)
    BY <2>2, FS_Subset DEF On
  <2>4. /\ n(a) \in Nat
        /\ Cardinality(On(V, a)) \in Nat
        /\ Cardinality(On(V \ gone, a)) = Cardinality(On(V, a)) - n(a)
        /\ Cardinality(On(V \ gone, a)) \in Nat
    BY <2>1, <2>2, <2>3, FS_Difference, FS_CardinalityType
  <2>5. ASSUME NEW v \in V \ gone, v.address = a
        PROVE  Cardinality(On(V, a)) > n(a)
    <3>1. On(V \ gone, a) # {}
      BY <2>5 DEF On
    <3>2. Cardinality(On(V \ gone, a)) # 0
      BY <3>1, <2>3, FS_EmptySet
    <3> HIDE DEF n
    <3>3. QED
      BY <3>2, <2>4
  <2>6. QED
    BY <2>4, <2>5
<1>2. \A a \in Address :
        t[a] = IF tally[a].votes > n(a) THEN [tally[a] EXCEPT !.votes = @ - n(a)]
               ELSE IF n(a) > 0 THEN NoTally ELSE tally[a]
  BY DEF uncast
<1>3. t = [a \in Address |-> t[a]]
  BY DEF uncast
<1> HIDE DEF n, t
<1>4. ASSUME NEW a \in Address
      PROVE  /\ t[a] \in Tally
             /\ t[a].votes = Cardinality(On(V \ gone, a))
             /\ \A v \in V \ gone : v.address = a => t[a].authorize = tally[a].authorize
  <2> DEFINE m == n(a)
             c == Cardinality(On(V, a))
             d == Cardinality(On(V \ gone, a))
             b == tally[a].authorize
  <2>1. /\ m \in Nat /\ c \in Nat /\ d \in Nat /\ d = c - m
        /\ \A v \in V \ gone : v.address = a => c > m
    BY <1>1
  <2>2. tally[a] = [authorize |-> b, votes |-> c] /\ b \in BOOLEAN
    <3>1. tally[a].votes = c
      BY DEF Counts
    <3>2. QED
      BY <3>1 DEF Tally
  <2>3. t[a] = IF c > m THEN [authorize |-> b, votes |-> d]
               ELSE IF m > 0 THEN NoTally ELSE tally[a]
    <3>1. tally[a].votes = c
      BY DEF Counts
    <3>2. [tally[a] EXCEPT !.votes = @ - m] = [authorize |-> b, votes |-> c - m]
      BY <2>2
    <3>3. QED
      BY <1>2, <2>1, <3>1, <3>2
  <2> HIDE DEF m, c, d, b
  <2>4. /\ t[a] \in Tally /\ t[a].votes = d
        /\ c > m => t[a].authorize = b
    <3>1. CASE c > m
      <4>1. t[a] = [authorize |-> b, votes |-> d]
        BY <2>3, <3>1
      <4>2. QED
        BY <4>1, <2>1, <2>2, TallyRecord
    <3>2. CASE ~(c > m) /\ m > 0
      <4>1. t[a] = NoTally /\ d = 0
        BY <2>1, <2>3, <3>2
      <4>2. QED
        BY <4>1, <3>2, TallyRecord DEF NoTally
    <3>3. CASE ~(c > m) /\ ~(m > 0)
      <4>1. t[a] = [authorize |-> b, votes |-> c] /\ d = c
        BY <2>1, <2>2, <2>3, <3>3
      <4>2. QED
        BY <4>1, <2>1, <2>2, <3>3, TallyRecord
    <3>4. QED
      BY <3>1, <3>2, <3>3
  <2>5. QED
    BY <2>1, <2>4 DEF d, b
<1>5. t \in [Address -> Tally]
  BY <1>3, <1>4
<1>6. Counts(t, V \ gone)
  BY <1>4 DEF Counts, Vote
<1>7. QED
  BY <1>5, <1>6 DEF t

-----------------------------------------------------------------------------
(* The stages of apply.                                                    *)

\* Two snapshots that differ in their votes only.
SameRest(s, t) == t.number = s.number /\ t.signers = s.signers /\ t.recents = s.recents

\* No votes are counted by the empty tally.
LEMMA NothingCounts ==
  /\ [a \in Address |-> NoTally] \in [Address -> Tally]
  /\ IsFiniteSet({}) /\ Counts([a \in Address |-> NoTally], {}) /\ Single({})
<1>1. NoTally \in Tally /\ NoTally.votes = 0
  BY TallyRecord DEF NoTally
<1>2. \A a \in Address : On({}, a) = {}
  BY DEF On
<1>3. QED
  BY <1>1, <1>2, FS_EmptySet DEF Counts, Single

\* A checkpoint starts with sound votes.
LEMMA ClearedStage ==
  ASSUME NEW s \in SnapType, VoteInv(s), NEW n
  PROVE  Cleared(s, n) \in SnapType /\ SameRest(s, Cleared(s, n)) /\ VoteInv(Cleared(s, n))
<1>1. CASE n % Epoch = 0
  <2> DEFINE T == [a \in Address |-> NoTally]
             t == [s EXCEPT !.votes = {}, !.tally = T]
  <2>1. T \in [Address -> Tally] /\ Counts(T, {})
    BY NothingCounts
  <2>2. Cleared(s, n) = t
    BY <1>1 DEF Cleared
  <2> HIDE DEF T
  <2>3. t \in SnapType /\ SameRest(s, t) /\ t.votes = {} /\ t.tally = T
    BY <2>1 DEF SnapType, SameRest
  <2> HIDE DEF t
  <2>4. VoteInv(t)
    BY <2>1, <2>3, NothingCounts DEF VoteInv, Sensical
  <2>5. QED
    BY <2>2, <2>3, <2>4
<1>2. CASE n % Epoch # 0
  BY <1>2 DEF Cleared, SameRest
<1>3. QED
  BY <1>1, <1>2

\* Fewer votes, counted, are sound as well.
LEMMA FewerVotes ==
  ASSUME NEW s \in SnapType, VoteInv(s), NEW gone \in SUBSET s.votes,
         NEW t, t = [s EXCEPT !.votes = s.votes \ gone, !.tally = uncast(s.tally, gone)]
  PROVE  /\ t \in SnapType /\ SameRest(s, t) /\ t.votes = s.votes \ gone /\ VoteInv(t)
<1>1. s.votes \in SUBSET Vote /\ s.tally \in [Address -> Tally]
  BY DEF SnapType
<1>2. uncast(s.tally, gone) \in [Address -> Tally] /\ Counts(uncast(s.tally, gone), s.votes \ gone)
  BY <1>1, UncastCounts DEF VoteInv
<1>3. t \in SnapType /\ SameRest(s, t) /\ t.votes = s.votes \ gone /\ t.tally = uncast(s.tally, gone)
  BY <1>1, <1>2 DEF SnapType, SameRest
<1>4. IsFiniteSet(t.votes)
  BY <1>3, FS_Subset DEF VoteInv
<1>5. Counts(t.tally, t.votes)
  BY <1>2, <1>3
<1>6. Single(t.votes)
  BY <1>3 DEF VoteInv, Single
<1>7. Sensical(t)
  BY <1>3 DEF VoteInv, Sensical, SameRest, validVote
<1>8. QED
  BY <1>3, <1>4, <1>5, <1>6, <1>7 DEF VoteInv

\* The signer's vote on the account is gone, and only that one.
LEMMA DiscardedStage ==
  ASSUME NEW s \in SnapType, VoteInv(s), NEW h \in Header
  PROVE  LET t == Discarded(s, h) IN
         /\ t \in SnapType /\ SameRest(s, t) /\ VoteInv(t)
         /\ t.votes = {v \in s.votes : ~(v.signer = h.signer /\ v.address = h.coinbase)}
<1> DEFINE old == {v \in s.votes : v.signer = h.signer /\ v.address = h.coinbase}
           first == {CHOOSE v \in old : TRUE}
           t == Discarded(s, h)
<1>1. CASE old = {}
  <2>1. t = s
    BY <1>1 DEF Discarded
  <2>2. QED
    BY <1>1, <2>1 DEF SameRest
<1>2. CASE old # {}
  <2>1. first = old
    BY <1>2 DEF VoteInv, Single
  <2>2. t = [s EXCEPT !.votes = s.votes \ first, !.tally = uncast(s.tally, first)]
    BY <1>2 DEF Discarded, SnapType
  <2> HIDE DEF first, t
  <2>3. t \in SnapType /\ SameRest(s, t) /\ t.votes = s.votes \ old /\ VoteInv(t)
    BY <2>1, <2>2, FewerVotes
  <2>4. s.votes \ old = {v \in s.votes : ~(v.signer = h.signer /\ v.address = h.coinbase)}
    OBVIOUS
  <2>5. QED
    BY <2>3, <2>4 DEF t
<1>3. QED
  BY <1>1, <1>2

\* A tally counts one more vote after cast, if the vote is new and agrees with
\* those on the same account.
LEMMA CastCounts ==
  ASSUME NEW V \in SUBSET Vote, IsFiniteSet(V), NEW tally \in [Address -> Tally],
         Counts(tally, V), NEW x \in Vote, x \notin V,
         \A v \in V : v.address = x.address => v.authorize = x.authorize
  PROVE  LET t == cast(tally, x.address, x.authorize)
         IN t \in [Address -> Tally] /\ Counts(t, V \cup {x})
<1> DEFINE c == x.address
           t == cast(tally, c, x.authorize)
<1>0. c \in Address /\ x.authorize \in BOOLEAN
  BY DEF Vote
<1>1. /\ IsFiniteSet(On(V, c)) /\ Cardinality(On(V, c)) \in Nat
      /\ Cardinality(On(V \cup {x}, c)) = Cardinality(On(V, c)) + 1
  <2>1. On(V \cup {x}, c) = On(V, c) \cup {x} /\ x \notin On(V, c)
    BY DEF On
  <2>2. IsFiniteSet(On(V, c))
    BY FS_Subset DEF On
  <2>3. QED
    BY <2>1, <2>2, FS_AddElement, FS_CardinalityType
<1>2. \A a \in Address : a # c => On(V \cup {x}, a) = On(V, a)
  BY DEF On
<1>3. tally[c].votes = Cardinality(On(V, c)) /\ tally[c] \in Tally
  BY <1>0 DEF Counts
<1>4. \E b \in BOOLEAN :
        /\ t = [tally EXCEPT ![c] = [authorize |-> b, votes |-> Cardinality(On(V, c)) + 1]]
        /\ \A v \in V \cup {x} : v.address = c => v.authorize = b
  <2>1. CASE tally[c].votes > 0
    <3>1. On(V, c) # {}
      BY <1>1, <1>3, <2>1, FS_EmptySet
    <3>2. x.authorize = tally[c].authorize
      BY <3>1 DEF On, Counts
    <3>3. [tally[c] EXCEPT !.votes = @ + 1] =
            [authorize |-> x.authorize, votes |-> Cardinality(On(V, c)) + 1]
      BY <1>3, <3>2 DEF Tally
    <3>4. t = [tally EXCEPT ![c] = [tally[c] EXCEPT !.votes = @ + 1]]
      BY <2>1 DEF cast
    <3>5. QED
      BY <3>3, <3>4, <1>0
  <2>2. CASE ~(tally[c].votes > 0)
    <3>1. Cardinality(On(V, c)) = 0
      BY <1>1, <1>3, <2>2
    <3>2. t = [tally EXCEPT ![c] = [authorize |-> x.authorize, votes |-> 1]]
      BY <2>2 DEF cast
    <3>3. 1 = Cardinality(On(V, c)) + 1
      BY <3>1
    <3>4. t = [tally EXCEPT ![c] = [authorize |-> x.authorize, votes |-> Cardinality(On(V, c)) + 1]]
      BY <3>2, <3>3, Zenon
    <3>5. \A v \in V \cup {x} : v.address = c => v.authorize = x.authorize
      OBVIOUS
    <3> HIDE DEF t
    <3>6. QED
      BY <3>4, <3>5, <1>0
  <2>3. QED
    BY <2>1, <2>2
<1>5. PICK b \in BOOLEAN :
        /\ t = [tally EXCEPT ![c] = [authorize |-> b, votes |-> Cardinality(On(V, c)) + 1]]
        /\ \A v \in V \cup {x} : v.address = c => v.authorize = b
  BY <1>4
<1> DEFINE k == Cardinality(On(V, c)) + 1
           r == [authorize |-> b, votes |-> k]
<1>6. k \in Nat
  BY <1>1
<1> HIDE DEF k
<1>7. r \in Tally /\ r.votes = k /\ r.authorize = b
  BY <1>6, TallyRecord
<1>8. t = [tally EXCEPT ![c] = r]
  BY <1>5 DEF k
<1> HIDE DEF t, r, c
<1>9. t \in [Address -> Tally] /\ t[c] = r /\ \A a \in Address : a # c => t[a] = tally[a]
  BY <1>0, <1>7, <1>8
<1>10. \A a \in Address : t[a].votes = Cardinality(On(V \cup {x}, a))
  BY <1>1, <1>2, <1>7, <1>9 DEF Counts, k
<1>11. \A v \in V \cup {x} : v.authorize = t[v.address].authorize
  <2>1. ASSUME NEW v \in V \cup {x}
        PROVE  v.authorize = t[v.address].authorize
    <3>1. v.address \in Address /\ (v.address # c => v \in V)
      BY DEF Vote, c
    <3>2. CASE v.address = c
      BY <3>2, <1>5, <1>7, <1>9
    <3>3. CASE v.address # c
      BY <3>1, <3>3, <1>9 DEF Counts
    <3>4. QED
      BY <3>2, <3>3
  <2>2. QED
    BY <2>1
<1>12. QED
  BY <1>9, <1>10, <1>11 DEF Counts, t, c

\* A vote that makes sense is added to the list and to the tally.
LEMMA VotedStage ==
  ASSUME NEW s \in SnapType, VoteInv(s), NEW h \in Header, h.signer \in s.signers,
         \A v \in s.votes : ~(v.signer = h.signer /\ v.address = h.coinbase)
  PROVE  LET t == Voted(s, h)
             x == [signer |-> h.signer, address |-> h.coinbase, authorize |-> h.authorize]
         IN /\ t \in SnapType /\ SameRest(s, t) /\ VoteInv(t)
            /\ t.votes = IF validVote(s, h.coinbase, h.authorize) THEN s.votes \cup {x} ELSE s.votes
<1> DEFINE x == [signer |-> h.signer, address |-> h.coinbase, authorize |-> h.authorize]
           t == Voted(s, h)
           T == cast(s.tally, h.coinbase, h.authorize)
<1>1. x \in Vote /\ x.signer = h.signer /\ x.address = h.coinbase /\ x.authorize = h.authorize
  BY DEF Vote, Header
<1>2. CASE ~validVote(s, h.coinbase, h.authorize)
  BY <1>2 DEF Voted, SameRest
<1>3. CASE validVote(s, h.coinbase, h.authorize)
  <2>1. s.votes \in SUBSET Vote /\ s.tally \in [Address -> Tally]
    BY DEF SnapType
  <2>2. t = [s EXCEPT !.tally = T, !.votes = s.votes \cup {x}]
    BY <1>3 DEF Voted, SnapType
  <2>3. x \notin s.votes
    BY <1>1
  <2>4. \A v \in s.votes : v.address = x.address => v.authorize = x.authorize
    <3>1. ASSUME NEW v \in s.votes, v.address = x.address
          PROVE  v.authorize = x.authorize
      <4>1. (x.address \in s.signers) # v.authorize
        BY <3>1 DEF VoteInv, Sensical, validVote
      <4>2. (x.address \in s.signers) # x.authorize
        BY <1>1, <1>3 DEF validVote
      <4>3. v.authorize \in BOOLEAN /\ x.authorize \in BOOLEAN
        BY <1>1, <2>1 DEF Vote
      <4> HIDE DEF x
      <4>4. QED
        BY <4>1, <4>2, <4>3
    <3>2. QED
      BY <3>1
  <2> HIDE DEF x
  <2>5. T \in [Address -> Tally] /\ Counts(T, s.votes \cup {x})
    <3>1. T = cast(s.tally, x.address, x.authorize)
      BY <1>1
    <3>2. QED
      BY <1>1, <2>1, <2>3, <2>4, <3>1, CastCounts DEF VoteInv
  <2> HIDE DEF T
  <2>6. t \in SnapType /\ SameRest(s, t) /\ t.votes = s.votes \cup {x} /\ t.tally = T
    BY <1>1, <2>1, <2>2, <2>5 DEF SnapType, SameRest
  <2> HIDE DEF t
  <2>7. IsFiniteSet(t.votes)
    BY <2>6, FS_AddElement DEF VoteInv
  <2>8. Single(t.votes)
    BY <1>1, <2>6 DEF VoteInv, Single
  <2>9. Sensical(t)
    BY <1>1, <1>3, <2>6 DEF VoteInv, Sensical, SameRest, validVote
  <2>10. VoteInv(t)
    BY <2>5, <2>6, <2>7, <2>8, <2>9 DEF VoteInv
  <2>11. QED
    BY <1>3, <2>6, <2>10 DEF t, x
<1>4. QED
  BY <1>2, <1>3

\* The votes on an account are settled: those on the others are still counted.
LEMMA SettledStage ==
  ASSUME NEW s \in SnapType, IsFiniteSet(s.votes), Counts(s.tally, s.votes), Single(s.votes),
         NEW a \in Address,
         \A v \in s.votes : v.address # a =>
           v.signer \in s.signers /\ validVote(s, v.address, v.authorize)
  PROVE  LET t == Settled(s, a) IN t \in SnapType /\ SameRest(s, t) /\ VoteInv(t)
<1> DEFINE t == Settled(s, a)
           V == {v \in s.votes : v.address # a}
           T == [s.tally EXCEPT ![a] = NoTally]
<1>0. s.votes \in SUBSET Vote /\ s.tally \in [Address -> Tally]
  BY DEF SnapType
<1>1. t = [s EXCEPT !.votes = V, !.tally = T]
  BY DEF Settled, SnapType
<1>2. NoTally \in Tally /\ NoTally.votes = 0
  BY TallyRecord DEF NoTally
<1>3. T \in [Address -> Tally] /\ T[a] = NoTally /\ \A b \in Address : b # a => T[b] = s.tally[b]
  BY <1>0, <1>2
<1>4. On(V, a) = {} /\ \A b \in Address : b # a => On(V, b) = On(s.votes, b)
  BY DEF On
<1>5. V \in SUBSET Vote
  BY <1>0
<1>6. Counts(T, V)
  <2>1. \A b \in Address : T[b].votes = Cardinality(On(V, b))
    BY <1>2, <1>3, <1>4, FS_EmptySet DEF Counts
  <2>2. ASSUME NEW v \in V
        PROVE  v.authorize = T[v.address].authorize
    <3>1. v.address \in Address \ {a}
      BY <1>0 DEF Vote
    <3>2. T[v.address] = s.tally[v.address]
      BY <1>3, <3>1
    <3>3. QED
      BY <3>2 DEF Counts
  <2>3. QED
    BY <2>1, <2>2 DEF Counts
<1> HIDE DEF T
<1>7. t \in SnapType /\ SameRest(s, t) /\ t.votes = V /\ t.tally = T
  BY <1>1, <1>3, <1>5 DEF SnapType, SameRest
<1> HIDE DEF t
<1>8. IsFiniteSet(t.votes)
  BY <1>7, FS_Subset
<1>9. Single(t.votes)
  BY <1>7 DEF Single
<1>10. Sensical(t)
  BY <1>7 DEF Sensical, SameRest, validVote
<1>11. VoteInv(t)
  BY <1>6, <1>7, <1>8, <1>9, <1>10 DEF VoteInv
<1>12. QED
  BY <1>7, <1>11 DEF t

\* What a vote that passed removes from the recent signers.
Trimmed(recents, n, signers) ==
  {r \in recents : n >= Limit(signers) => r.block # n - Limit(signers)}

\* The signers change if a vote passed, and only by the account it is about.
LEMMA ChangedStage ==
  ASSUME NEW s \in SnapType, VoteInv(s), NEW n, NEW a \in Address
  PROVE  LET t == Changed(s, n, a) IN
         /\ t \in SnapType /\ VoteInv(t) /\ t.number = s.number
         /\ \/ t.signers = s.signers /\ t.recents = s.recents
            \/ Passed(s, a) /\ t.signers = s.signers \cup {a} /\ t.recents = s.recents
            \/ /\ Passed(s, a) /\ t.signers = s.signers \ {a}
               /\ t.recents = Trimmed(s.recents, n, t.signers)
<1> DEFINE t == Changed(s, n, a)
<1>0. /\ s.votes \in SUBSET Vote /\ s.tally \in [Address -> Tally]
      /\ s.signers \in SUBSET Address /\ s.recents \in SUBSET Recent
  BY DEF SnapType
<1>1. CASE ~Passed(s, a)
  BY <1>1 DEF Changed
<1>2. CASE Passed(s, a) /\ s.tally[a].authorize
  <2> DEFINE u == [s EXCEPT !.signers = s.signers \cup {a}]
  <2>1. t = Settled(u, a)
    BY <1>2 DEF Changed, SnapType
  <2>2. /\ u \in SnapType /\ u.signers = s.signers \cup {a} /\ u.number = s.number
        /\ u.recents = s.recents /\ u.votes = s.votes /\ u.tally = s.tally
    BY <1>0 DEF SnapType
  <2> HIDE DEF u, t
  <2>3. \A v \in u.votes : v.address # a =>
          v.signer \in u.signers /\ validVote(u, v.address, v.authorize)
    BY <2>2 DEF VoteInv, Sensical, validVote
  <2>4. t \in SnapType /\ SameRest(u, t) /\ VoteInv(t)
    BY <2>1, <2>2, <2>3, SettledStage DEF VoteInv
  <2>5. QED
    BY <1>2, <2>2, <2>4 DEF SameRest, t
<1>3. CASE Passed(s, a) /\ ~s.tally[a].authorize
  <2> DEFINE rest == s.signers \ {a}
             gone == {v \in s.votes : v.signer = a}
             w == [s EXCEPT !.votes = s.votes \ gone, !.tally = uncast(s.tally, gone)]
             u == Dropped(s, n, a)
  <2>1. t = Settled(u, a)
    BY <1>3 DEF Changed
  <2>2. w \in SnapType /\ SameRest(s, w) /\ w.votes = s.votes \ gone /\ VoteInv(w)
    BY FewerVotes
  <2>3. u = [w EXCEPT !.signers = rest, !.recents = Trimmed(s.recents, n, rest)]
    BY DEF Dropped, SnapType, Trimmed
  <2>4. Trimmed(s.recents, n, rest) \in SUBSET Recent /\ rest \in SUBSET Address
    BY <1>0 DEF Trimmed
  <2> HIDE DEF w, rest
  <2>5. /\ u \in SnapType /\ u.signers = rest /\ u.number = w.number
        /\ u.recents = Trimmed(s.recents, n, rest) /\ u.votes = w.votes /\ u.tally = w.tally
    BY <2>2, <2>3, <2>4 DEF SnapType
  <2> HIDE DEF u, t
  <2>6. \A v \in u.votes : v.address # a =>
          v.signer \in u.signers /\ validVote(u, v.address, v.authorize)
    BY <2>2, <2>5 DEF VoteInv, Sensical, validVote, SameRest, rest
  <2>7. t \in SnapType /\ SameRest(u, t) /\ VoteInv(t)
    BY <2>1, <2>2, <2>5, <2>6, SettledStage DEF VoteInv
  <2>8. QED
    BY <1>3, <2>2, <2>5, <2>7 DEF SameRest, t, rest
<1>4. QED
  BY <1>1, <1>2, <1>3

\* The snapshot on which the vote of a header is decided.
Ballot(s, h) ==
  LET n == s.number + 1
  IN Voted(Discarded(Signed(Shifted(Cleared(s, n), n), n, h), h), h)

NextRecents(s, h) ==
  Trimmed(s.recents, s.number + 1, s.signers) \cup {[block |-> s.number + 1, signer |-> h.signer]}

\* What apply checks.
LEMMA ApplicableMeans ==
  ASSUME NEW s \in SnapType, NEW a
  PROVE  Applicable(s, a) <=>
           a \in s.signers /\ \A r \in Trimmed(s.recents, s.number + 1, s.signers) : r.signer # a
BY DEF Applicable, Authorized, Shifted, Trimmed, SnapType

\* The ballot is sound.  Its votes on the account are the signer's own and the
\* pending ones of the others.
LEMMA BallotStage ==
  ASSUME NEW s \in SnapType, VoteInv(s), NEW h \in Header, Applicable(s, h.signer)
  PROVE  LET v == Ballot(s, h) IN
         /\ v \in SnapType /\ VoteInv(v)
         /\ v.number = s.number /\ v.signers = s.signers /\ v.recents = NextRecents(s, h)
         /\ \A u \in v.votes : u.address = h.coinbase =>
              \/ u.signer = h.signer /\ u.authorize = h.authorize
              \/ u.signer # h.signer /\ u \in Cleared(s, s.number + 1).votes
<1> DEFINE n == s.number + 1
           c == Cleared(s, n)
           t == Signed(Shifted(c, n), n, h)
           d == Discarded(t, h)
           v == Ballot(s, h)
<1>0. n \in Nat \ {0} /\ s.recents \in SUBSET Recent /\ h.signer \in Accounts /\ h.coinbase \in Address
  BY DEF SnapType, Header
<1>1. c \in SnapType /\ SameRest(s, c) /\ VoteInv(c)
  BY ClearedStage
<1>2. t = [c EXCEPT !.recents = NextRecents(s, h)]
  BY <1>1 DEF Signed, Shifted, NextRecents, Trimmed, SameRest, SnapType
<1>3. NextRecents(s, h) \in SUBSET Recent
  BY <1>0 DEF NextRecents, Trimmed, Recent
<1> HIDE DEF c
<1>4. /\ t \in SnapType /\ t.recents = NextRecents(s, h) /\ t.number = s.number
      /\ t.signers = s.signers /\ t.votes = c.votes /\ t.tally = c.tally
  BY <1>1, <1>2, <1>3 DEF SnapType, SameRest
<1> HIDE DEF t
<1>5. VoteInv(t)
  BY <1>1, <1>4 DEF VoteInv, Sensical, validVote, SameRest
<1>6. /\ d \in SnapType /\ SameRest(t, d) /\ VoteInv(d)
      /\ d.votes = {w \in t.votes : ~(w.signer = h.signer /\ w.address = h.coinbase)}
  BY <1>4, <1>5, DiscardedStage
<1> HIDE DEF d
<1>7. h.signer \in d.signers
  BY <1>4, <1>6, ApplicableMeans DEF SameRest
<1>8. v = Voted(d, h)
  BY DEF Ballot, d, t, c
<1> DEFINE x == [signer |-> h.signer, address |-> h.coinbase, authorize |-> h.authorize]
<1> HIDE DEF v
<1>9. v \in SnapType /\ SameRest(d, v) /\ VoteInv(v) /\ v.votes \subseteq d.votes \cup {x}
  BY <1>6, <1>7, <1>8, VotedStage
<1>10. \A u \in v.votes : u.address = h.coinbase =>
              \/ u.signer = h.signer /\ u.authorize = h.authorize
              \/ u.signer # h.signer /\ u \in c.votes
  BY <1>4, <1>6, <1>9
<1>11. QED
  BY <1>4, <1>6, <1>9, <1>10 DEF SameRest, v, c

\* How apply changes the signers and the recent ones.
SignersMove(s, t, h) ==
  \/ t.signers = s.signers /\ t.recents = NextRecents(s, h)
  \/ /\ Passed(Ballot(s, h), h.coinbase)
     /\ \/ t.signers = s.signers \cup {h.coinbase} /\ t.recents = NextRecents(s, h)
        \/ /\ t.signers = s.signers \ {h.coinbase}
           /\ t.recents = Trimmed(NextRecents(s, h), s.number + 1, t.signers)

\* The snapshot of the next block has sound votes.
LEMMA ApplyStage ==
  ASSUME NEW s \in SnapType, VoteInv(s), NEW h \in Header, Applicable(s, h.signer)
  PROVE  LET t == apply(s, h) IN
         t \in SnapType /\ VoteInv(t) /\ t.number = s.number + 1 /\ SignersMove(s, t, h)
<1> DEFINE n == s.number + 1
           v == Ballot(s, h)
           w == Changed(v, n, h.coinbase)
           t == apply(s, h)
<1>0. n \in Nat /\ h.coinbase \in Address
  BY DEF SnapType, Header
<1>1. /\ v \in SnapType /\ VoteInv(v)
      /\ v.number = s.number /\ v.signers = s.signers /\ v.recents = NextRecents(s, h)
  BY BallotStage
<1>2. t = [w EXCEPT !.number = n]
  BY DEF apply, Ballot
<1>3. /\ w \in SnapType /\ VoteInv(w) /\ w.number = v.number
      /\ \/ w.signers = v.signers /\ w.recents = v.recents
         \/ Passed(v, h.coinbase) /\ w.signers = v.signers \cup {h.coinbase} /\ w.recents = v.recents
         \/ /\ Passed(v, h.coinbase) /\ w.signers = v.signers \ {h.coinbase}
            /\ w.recents = Trimmed(v.recents, n, w.signers)
  <2> HIDE DEF v
  <2>1. QED
    BY <1>0, <1>1, ChangedStage
<1> HIDE DEF w, n
<1>4. /\ t \in SnapType /\ t.number = n /\ t.signers = w.signers /\ t.recents = w.recents
      /\ t.votes = w.votes /\ t.tally = w.tally
  BY <1>0, <1>2, <1>3 DEF SnapType
<1> HIDE DEF t
<1>5. VoteInv(t)
  BY <1>3, <1>4 DEF VoteInv, Sensical, validVote
<1>6. SignersMove(s, t, h)
  BY <1>1, <1>3, <1>4 DEF SignersMove, n
<1>7. QED
  BY <1>4, <1>5, <1>6 DEF t, n

\* The recent signers stay within the window, however the signers change.
LEMMA RecentStep ==
  ASSUME NEW s \in SnapType, RecentInv(s), NEW h \in Header, Applicable(s, h.signer),
         NEW t \in SnapType, t.number = s.number + 1, SignersMove(s, t, h)
  PROVE  RecentInv(t)
<1> DEFINE n == s.number + 1
           l == Limit(s.signers)
           m == Limit(t.signers)
           R == NextRecents(s, h)
<1>0. /\ s.number \in Nat /\ n \in Nat /\ h.coinbase \in Address
      /\ s.signers \in SUBSET Address /\ t.signers \in SUBSET Address
      /\ s.recents \in SUBSET Recent /\ t.recents \in SUBSET Recent
  BY DEF SnapType, Header
<1>1. l \in Nat \ {0} /\ m \in Nat \ {0}
  BY <1>0, FiniteSigners
<1>2. \A r \in s.recents : r.block \in Nat /\ r.block <= s.number /\ r.block > s.number - l
  BY <1>0 DEF RecentInv, Recent
<1>3. \A r \in R : r.block \in Nat /\ r.block <= n /\ r.block > n - l
  <2>1. ASSUME NEW r \in Trimmed(s.recents, n, s.signers)
        PROVE  r.block \in Nat /\ r.block <= n /\ r.block > n - l
    <3>1. r \in s.recents /\ (n >= l => r.block # n - l)
      BY <2>1 DEF Trimmed
    <3>2. QED
      BY <3>1, <1>0, <1>1, <1>2
  <2>2. QED
    BY <2>1, <1>0, <1>1 DEF NextRecents
<1>4. \A r, q \in R : r.block = q.block \/ r.signer = q.signer => r = q
  <2>1. \A r \in Trimmed(s.recents, n, s.signers) :
          r \in s.recents /\ r.block # n /\ r.signer # h.signer
    BY <1>0, <1>2, ApplicableMeans DEF Trimmed
  <2>2. QED
    BY <2>1 DEF NextRecents, RecentInv
<1>5. \/ t.recents = R /\ (m = l \/ m = l + 1)
      \/ t.recents = Trimmed(R, n, t.signers) /\ (m = l \/ m = l - 1)
  BY <1>0, LimitMoves DEF SignersMove
<1>6. t.recents \subseteq R
  BY <1>5 DEF Trimmed
<1> HIDE DEF R, l, m
<1>7. \A r \in t.recents : r.block > n - m
  <2>1. CASE t.recents = R /\ (m = l \/ m = l + 1)
    BY <2>1, <1>0, <1>1, <1>3
  <2>2. CASE t.recents = Trimmed(R, n, t.signers) /\ (m = l \/ m = l - 1)
    <3>1. ASSUME NEW r \in t.recents
          PROVE  r.block > n - m
      <4>1. r \in R /\ (n >= m => r.block # n - m)
        BY <2>2, <3>1 DEF Trimmed, m
      <4>2. QED
        BY <4>1, <2>2, <1>0, <1>1, <1>3
    <3>2. QED
      BY <3>1
  <2>3. QED
    BY <1>5, <2>1, <2>2
<1>8. QED
  BY <1>3, <1>4, <1>6, <1>7 DEF RecentInv, m

\* An account close to the head stays among the recent signers.
LEMMA SignedStep ==
  ASSUME NEW s \in SnapType, NEW h \in Header, NEW signed \in [Accounts -> Nat],
         SignedInv(s, signed),
         NEW t \in SnapType, t.number = s.number + 1, SignersMove(s, t, h)
  PROVE  SignedInv(t, [signed EXCEPT ![h.signer] = s.number + 1])
<1> DEFINE n == s.number + 1
           l == Limit(s.signers)
           m == Limit(t.signers)
           R == NextRecents(s, h)
           S == [signed EXCEPT ![h.signer] = n]
<1>0. /\ s.number \in Nat /\ n \in Nat /\ h.coinbase \in Address /\ h.signer \in Accounts
      /\ s.signers \in SUBSET Address /\ t.signers \in SUBSET Address
  BY DEF SnapType, Header
<1>1. l \in Nat \ {0} /\ m \in Nat \ {0}
  BY <1>0, FiniteSigners
<1>2. \/ t.recents = R /\ (m = l \/ m = l + 1)
      \/ t.recents = Trimmed(R, n, t.signers) /\ (m = l \/ m = l - 1)
  BY <1>0, LimitMoves DEF SignersMove
<1>3. SUFFICES ASSUME NEW a \in Accounts, S[a] # 0, S[a] > (n + 1) - m
               PROVE  [block |-> S[a], signer |-> a] \in t.recents
  BY DEF SignedInv
<1>4. S[a] \in Nat /\ S[a] > n - l
  BY <1>0, <1>1, <1>2, <1>3
<1>5. [block |-> S[a], signer |-> a] \in R
  <2>1. CASE a = h.signer
    BY <2>1, <1>0 DEF NextRecents
  <2>2. CASE a # h.signer
    <3>1. S[a] = signed[a]
      BY <2>2
    <3>2. [block |-> signed[a], signer |-> a] \in s.recents
      BY <1>0, <1>1, <1>3, <1>4, <3>1 DEF SignedInv
    <3>3. [block |-> signed[a], signer |-> a] \in Trimmed(s.recents, n, s.signers)
      BY <1>0, <1>1, <1>4, <3>1, <3>2 DEF Trimmed
    <3>4. QED
      BY <3>1, <3>3 DEF NextRecents
  <2>3. QED
    BY <2>1, <2>2
<1> HIDE DEF S, R
<1>6. [block |-> S[a], signer |-> a].block # n - m
  BY <1>0, <1>1, <1>3, <1>4
<1>7. QED
  BY <1>2, <1>5, <1>6 DEF Trimmed

-----------------------------------------------------------------------------
(* The invariant.                                                          *)

LEMMA TypeParts ==
  TypeOK <=> /\ snap \in SnapType /\ last \in Header \cup {NoHeader}
             /\ lastSigned \in [Accounts -> Nat] /\ stuck \in BOOLEAN
BY DEF TypeOK, SnapType, Recent

LEMMA InitInv == Init => IInv
<1> SUFFICES ASSUME Init PROVE IInv
  OBVIOUS
<1> DEFINE T == [a \in Address |-> NoTally]
<1>1. T \in [Address -> Tally] /\ IsFiniteSet({}) /\ Counts(T, {}) /\ Single({})
  BY NothingCounts
<1>2. snap = [number |-> 0, signers |-> Initial, recents |-> {}, votes |-> {}, tally |-> T]
  BY DEF Init, newSnapshot
<1> HIDE DEF T
<1>3. /\ snap \in SnapType /\ snap.votes = {} /\ snap.tally = T /\ snap.recents = {}
  BY <1>1, <1>2, CliqueAssumption DEF SnapType, Address
<1>4. VoteInv(snap)
  BY <1>1, <1>3 DEF VoteInv, Sensical
<1>5. RecentInv(snap)
  BY <1>3 DEF RecentInv
<1>6. SignedInv(snap, lastSigned)
  BY DEF SignedInv, Init
<1>7. TypeOK
  BY <1>3, TypeParts DEF Init
<1>8. QED
  BY <1>4, <1>5, <1>6, <1>7 DEF IInv

\* A step appends one header, whose snapshot is built if apply accepts it.
LEMMA StepMeans ==
  ASSUME TypeOK, Next
  PROVE  \E h \in Header :
           /\ AddHeader(h) /\ last' = h /\ ~stuck
           /\ lastSigned' = [lastSigned EXCEPT ![h.signer] = snap.number + 1]
           /\ \/ Applicable(snap, h.signer) /\ snap' = apply(snap, h) /\ stuck' = FALSE
              \/ ~Applicable(snap, h.signer) /\ snap' = snap /\ stuck' = TRUE
<1>1. PICK h \in Headers : AddHeader(h)
  BY DEF Next
<1>2. h \in Header
  BY TypeParts DEF Headers, Header, SnapType
<1>3. QED
  BY <1>1, <1>2 DEF AddHeader, Extend

\* A header of any account extends a chain that keeps the invariant.
LEMMA ExtendInv ==
  ASSUME IInv, NEW h \in Header, Extend(h)
  PROVE  IInv'
<1>0. TypeOK /\ VoteInv(snap) /\ RecentInv(snap) /\ (~stuck => SignedInv(snap, lastSigned))
  BY DEF IInv
<1>1. /\ last' = h /\ ~stuck
      /\ lastSigned' = [lastSigned EXCEPT ![h.signer] = snap.number + 1]
      /\ \/ Applicable(snap, h.signer) /\ snap' = apply(snap, h) /\ stuck' = FALSE
         \/ ~Applicable(snap, h.signer) /\ snap' = snap /\ stuck' = TRUE
  BY DEF Extend
<1>2. snap \in SnapType /\ lastSigned \in [Accounts -> Nat]
  BY <1>0, TypeParts
<1>3. lastSigned' \in [Accounts -> Nat]
  <2>1. snap.number + 1 \in Nat
    BY <1>2 DEF SnapType
  <2>2. QED
    BY <1>1, <1>2, <2>1
<1>4. CASE Applicable(snap, h.signer) /\ snap' = apply(snap, h) /\ stuck' = FALSE
  <2>1. /\ snap' \in SnapType /\ VoteInv(snap') /\ snap'.number = snap.number + 1
        /\ SignersMove(snap, snap', h)
    BY <1>0, <1>2, <1>4, ApplyStage
  <2>2. RecentInv(snap')
    BY <1>0, <1>2, <1>4, <2>1, RecentStep
  <2>3. SignedInv(snap', lastSigned')
    BY <1>0, <1>1, <1>2, <2>1, SignedStep
  <2>4. TypeOK'
    BY <1>1, <1>3, <1>4, <2>1 DEF TypeOK, SnapType, Recent
  <2>5. QED
    BY <2>1, <2>2, <2>3, <2>4 DEF IInv
<1>5. CASE ~Applicable(snap, h.signer) /\ snap' = snap /\ stuck' = TRUE
  <2>1. TypeOK'
    BY <1>1, <1>2, <1>3, <1>5 DEF TypeOK, SnapType, Recent
  <2>2. QED
    BY <1>0, <1>5, <2>1 DEF IInv
<1>6. QED
  BY <1>1, <1>4, <1>5

LEMMA StepInv == IInv /\ [Next]_vars => IInv'
<1> SUFFICES ASSUME IInv, [Next]_vars PROVE IInv'
  OBVIOUS
<1>1. CASE Next
  <2>1. TypeOK
    BY DEF IInv
  <2>2. PICK h \in Header : AddHeader(h)
    BY <1>1, <2>1, StepMeans
  <2>3. QED
    BY <2>2, ExtendInv DEF AddHeader
<1>2. CASE UNCHANGED vars
  BY <1>2 DEF vars, IInv, TypeOK
<1>3. QED
  BY <1>1, <1>2

\* The inductive invariant holds on every chain.
THEOREM Invariant == Spec => []IInv
<1>1. QED
  BY InitInv, StepInv, PTL DEF Spec

\* Snapshots are well formed.
THEOREM TypeCorrect == Spec => []TypeOK
<1>1. IInv => TypeOK
  BY DEF IInv
<1>2. QED
  BY Invariant, <1>1, PTL

\* The tally that decides a vote is the number of votes in the list: uncast and
\* cast never drift from it, whichever signers come and go.
THEOREM TallyCorrect == Spec => []TallyCounts
<1>1. IInv => TallyCounts
  BY DEF IInv, VoteInv, Counts, On, TallyCounts
<1>2. QED
  BY Invariant, <1>1, PTL

\* Pending votes are those of signers, one for each account, and make sense.
THEOREM VotesCorrect == Spec => []VotesSound
<1>1. IInv => VotesSound
  BY DEF IInv, VoteInv, Counts, Single, Sensical, VotesSound
<1>2. QED
  BY Invariant, <1>1, PTL

-----------------------------------------------------------------------------
(* Majorities.                                                             *)

\* The votes that pass are those of different signers who back the change.
LEMMA PassedByMajority ==
  ASSUME snap \in SnapType, VoteInv(snap), NEW h \in Header, Applicable(snap, h.signer),
         Passed(Ballot(snap, h), h.coinbase)
  PROVE  /\ Backers(h) \subseteq snap.signers
         /\ 2 * Cardinality(Backers(h)) > Cardinality(snap.signers)
<1> DEFINE v == Ballot(snap, h)
           a == h.coinbase
           W == On(v.votes, a)
           B == Backers(h)
           c == Cleared(snap, snap.number + 1)
           want == a \notin snap.signers
<1>0. a \in Address /\ snap.signers \in SUBSET Address
  BY DEF Header, SnapType
<1>1. /\ v \in SnapType /\ VoteInv(v) /\ v.signers = snap.signers
      /\ \A u \in v.votes : u.address = a =>
           \/ u.signer = h.signer /\ u.authorize = h.authorize
           \/ u.signer # h.signer /\ u \in c.votes
  BY BallotStage
<1>2. c \in SnapType /\ SameRest(snap, c) /\ VoteInv(c)
  BY ClearedStage
<1>3. B = {u.signer : u \in {w \in c.votes : /\ w.address = a /\ w.authorize = want
                                             /\ w.signer # h.signer}}
          \cup (IF h.authorize = want THEN {h.signer} ELSE {})
  BY DEF Backers
<1> HIDE DEF v, c, B
<1>4. B \subseteq snap.signers
  <2>1. h.signer \in snap.signers
    BY ApplicableMeans
  <2>2. \A u \in c.votes : u.signer \in snap.signers
    BY <1>2 DEF VoteInv, Sensical, SameRest
  <2>3. QED
    BY <1>3, <2>1, <2>2
<1>5. \A u \in W : u.authorize = want /\ u.signer \in B
  <2>1. ASSUME NEW u \in W
        PROVE  u.authorize = want /\ u.signer \in B
    <3>1. u \in v.votes /\ u.address = a
      BY DEF On
    <3>2. u.authorize \in BOOLEAN
      BY <1>1, <3>1 DEF SnapType, Vote
    <3>3. (a \in snap.signers) # u.authorize
      BY <1>1, <3>1 DEF VoteInv, Sensical, validVote
    <3>4. u.authorize = want
      BY <3>2, <3>3
    <3>5. QED
      BY <1>1, <1>3, <3>1, <3>4
  <2>2. QED
    BY <2>1
<1>6. Cardinality(W) <= Cardinality(B)
  <2> DEFINE f == [u \in W |-> u.signer]
  <2>1. \A u, w \in W : u.signer = w.signer => u = w
    BY <1>1 DEF On, VoteInv, Single
  <2>2. f \in Injection(W, B)
    BY <1>5, <2>1 DEF Injection, IsInjective
  <2>3. IsFiniteSet(B)
    BY <1>0, <1>4, FiniteSigners
  <2>4. QED
    BY <2>2, <2>3, FS_Injection
<1>7. Cardinality(W) > Cardinality(snap.signers) \div 2
  <2>1. v.tally[a].votes = Cardinality(W)
    BY <1>0, <1>1 DEF VoteInv, Counts
  <2>2. v.tally[a].votes > Cardinality(v.signers) \div 2
    BY DEF Passed, v
  <2>3. QED
    BY <1>1, <2>1, <2>2
<1>8. 2 * Cardinality(B) > Cardinality(snap.signers)
  <2>1. Cardinality(snap.signers) \in Nat /\ Cardinality(B) \in Nat
    BY <1>0, <1>4, FiniteSigners
  <2>2. Cardinality(W) \in Nat
    BY <1>1, FS_Subset, FS_CardinalityType DEF On, VoteInv
  <2>3. QED
    BY <1>6, <1>7, <2>1, <2>2
<1>9. QED
  BY <1>4, <1>8 DEF B

\* Nobody becomes a signer, or ceases to be one, but by more than half of the
\* signers of the moment, each counted once and none of them removed meanwhile.
THEOREM SignersByMajority == Spec => MajorityRules
<1>1. IInv /\ [Next]_vars => [MajorityStep]_vars
  <2> SUFFICES ASSUME IInv, Next, snap'.signers # snap.signers
               PROVE  /\ snap'.signers \cup {last'.coinbase} = snap.signers \cup {last'.coinbase}
                      /\ Backers(last') \subseteq snap.signers
                      /\ 2 * Cardinality(Backers(last')) > Cardinality(snap.signers)
    BY DEF MajorityStep
  <2>0. snap \in SnapType /\ VoteInv(snap) /\ TypeOK
    BY TypeParts DEF IInv
  <2>1. PICK h \in Header :
          last' = h /\ Applicable(snap, h.signer) /\ snap' = apply(snap, h)
    BY <2>0, StepMeans
  <2>2. SignersMove(snap, snap', h)
    BY <2>0, <2>1, ApplyStage
  <2>3. Passed(Ballot(snap, h), h.coinbase)
    BY <2>2 DEF SignersMove
  <2>4. snap'.signers \cup {h.coinbase} = snap.signers \cup {h.coinbase}
    BY <2>2 DEF SignersMove
  <2>5. QED
    BY <2>0, <2>1, <2>3, <2>4, PassedByMajority
<1>2. QED
  BY Invariant, <1>1, PTL DEF Spec, MajorityRules

-----------------------------------------------------------------------------
(* Recent signers.                                                         *)

\* Whoever signs, and however the signers change, blocks of one account are at
\* least len(Signers)/2 + 1 apart.
THEOREM SpamBound == Spec => SpamProtection
<1>1. IInv /\ [Next]_vars => [SpamStep]_vars
  <2> SUFFICES ASSUME IInv, Next, snap'.number # snap.number, lastSigned[last'.signer] # 0
               PROVE  snap'.number - lastSigned[last'.signer] >= Limit(snap.signers)
    BY DEF SpamStep
  <2>0. snap \in SnapType /\ VoteInv(snap) /\ TypeOK /\ lastSigned \in [Accounts -> Nat]
    BY TypeParts DEF IInv
  <2>1. PICK h \in Header :
          last' = h /\ ~stuck /\ Applicable(snap, h.signer) /\ snap' = apply(snap, h)
    BY <2>0, StepMeans
  <2> DEFINE n == snap.number + 1
             l == Limit(snap.signers)
             k == lastSigned[h.signer]
  <2>2. n \in Nat /\ l \in Nat /\ k \in Nat
    BY <2>0, FiniteSigners DEF SnapType, Header
  <2>3. snap'.number = n
    BY <2>0, <2>1, ApplyStage
  <2>4. ~(k > n - l)
    <3> SUFFICES ASSUME k > n - l PROVE FALSE
      OBVIOUS
    <3>1. [block |-> k, signer |-> h.signer] \in snap.recents
      <4>1. SignedInv(snap, lastSigned)
        BY <2>1 DEF IInv
      <4>2. h.signer \in Accounts
        BY DEF Header
      <4>3. k # 0
        BY <2>1
      <4>4. k # 0 /\ k > n - l => [block |-> k, signer |-> h.signer] \in snap.recents
        BY <4>1, <4>2 DEF SignedInv
      <4>5. QED
        BY <4>3, <4>4
    <3>2. [block |-> k, signer |-> h.signer] \in Trimmed(snap.recents, n, snap.signers)
      BY <2>2, <3>1 DEF Trimmed
    <3>3. QED
      BY <2>0, <2>1, <3>2, ApplicableMeans
  <2> HIDE DEF n, l, k
  <2>5. n - k >= l
    BY <2>2, <2>4
  <2>6. QED
    BY <2>1, <2>3, <2>5 DEF l, k
<1>2. QED
  BY Invariant, <1>1, PTL DEF Spec, SpamProtection

\* The chain can always go on: some signer has not signed recently.
THEOREM SealerExists == Spec => []SomeoneMaySeal
<1>1. IInv => SomeoneMaySeal
  <2> SUFFICES ASSUME IInv, snap.signers # {}, \A a \in snap.signers : ~MaySeal(snap, a)
               PROVE  FALSE
    BY DEF SomeoneMaySeal
  <2> DEFINE n == snap.number + 1
             l == Limit(snap.signers)
             window == (n - l + 1) .. snap.number
  <2>0. /\ snap.number \in Nat /\ snap.signers \in SUBSET Address /\ snap.recents \in SUBSET Recent
        /\ RecentInv(snap)
    BY TypeParts DEF IInv, SnapType
  <2>1. /\ IsFiniteSet(snap.signers) /\ Cardinality(snap.signers) \in Nat
        /\ l \in Nat \ {0} /\ 2 * l <= Cardinality(snap.signers) + 2
    BY <2>0, FiniteSigners
  <2>2. Cardinality(snap.signers) > 0
    BY <2>1, FS_EmptySet
  <2>3. IsFiniteSet(window) /\ Cardinality(window) = l - 1
    <3>1. n - l + 1 \in Int /\ snap.number \in Int
      BY <2>0, <2>1
    <3>2. /\ IsFiniteSet(window)
          /\ Cardinality(window) =
               IF n - l + 1 > snap.number THEN 0 ELSE snap.number - (n - l + 1) + 1
      BY <3>1, FS_Interval, Zenon
    <3> HIDE DEF l, window
    <3>3. QED
      BY <2>0, <2>1, <3>2
  <2>4. Cardinality(window) < Cardinality(snap.signers)
    BY <2>1, <2>2, <2>3
  <2>5. \A a \in snap.signers : \E r \in snap.recents : r.signer = a /\ r.block \in window
    <3>1. ASSUME NEW a \in snap.signers
          PROVE  \E r \in snap.recents : r.signer = a /\ r.block \in window
      <4>1. PICK r \in snap.recents : r.signer = a /\ ~(n >= l /\ r.block <= n - l)
        BY DEF MaySeal
      <4>2. r.block \in Nat \ {0} /\ r.block <= snap.number
        BY <2>0 DEF Recent, RecentInv
      <4> HIDE DEF l
      <4>3. r.block \in window
        BY <2>0, <2>1, <4>1, <4>2
      <4>4. QED
        BY <4>1, <4>3
    <3>2. QED
      BY <3>1
  <2> HIDE DEF window
  <2> DEFINE f == [a \in snap.signers |->
                     (CHOOSE r \in snap.recents : r.signer = a /\ r.block \in window).block]
  <2>6. \A a \in snap.signers :
          f[a] \in window /\ \E r \in snap.recents : r.signer = a /\ r.block = f[a]
    BY <2>5
  <2>7. f \in [snap.signers -> window]
    BY <2>6
  <2> HIDE DEF f
  <2>8. PICK a, b \in snap.signers : a # b /\ f[a] = f[b]
    BY <2>1, <2>3, <2>4, <2>7, FS_PigeonHole
  <2>9. QED
    BY <2>0, <2>6, <2>8 DEF RecentInv
<1>2. QED
  BY Invariant, <1>1, PTL

\* What Seal waits for is what apply demands.
LEMMA MaySealApplies ==
  ASSUME NEW s \in SnapType, RecentInv(s), NEW a, MaySeal(s, a)
  PROVE  Applicable(s, a)
<1> DEFINE n == s.number + 1
           l == Limit(s.signers)
<1>0. s.number \in Nat /\ l \in Nat /\ s.recents \in SUBSET Recent
  BY FiniteSigners DEF SnapType
<1>1. ASSUME NEW r \in Trimmed(s.recents, n, s.signers), r.signer = a
      PROVE  FALSE
  <2>1. r \in s.recents /\ (n >= l => r.block # n - l)
    BY <1>1 DEF Trimmed
  <2>2. n >= l /\ r.block <= n - l
    BY <1>1, <2>1 DEF MaySeal
  <2>3. r.block \in Nat /\ r.block > s.number - l
    BY <1>0, <2>1 DEF RecentInv, Recent
  <2> HIDE DEF l
  <2>4. QED
    BY <1>0, <2>1, <2>2, <2>3
<1>2. a \in s.signers
  BY DEF MaySeal
<1>3. QED
  BY <1>1, <1>2, ApplicableMeans

\* Without rogue signers the chain never gets a head whose snapshot cannot be
\* built: what Seal waits for is what apply demands, even right after the number
\* of signers has changed.
THEOREM HonestNeverStuck ==
  ASSUME Rogue = {}
  PROVE  Spec => []SnapshotExists
<1>1. Init => SnapshotExists
  BY DEF Init, SnapshotExists
<1>2. IInv /\ SnapshotExists /\ [Next]_vars => SnapshotExists'
  <2> SUFFICES ASSUME IInv, SnapshotExists, [Next]_vars
               PROVE  ~stuck'
    BY DEF SnapshotExists
  <2>1. CASE UNCHANGED vars
    BY <2>1 DEF vars, SnapshotExists
  <2>2. CASE Next
    <3>0. snap \in SnapType /\ TypeOK /\ RecentInv(snap)
      BY TypeParts DEF IInv
    <3>1. PICK h \in Header :
             /\ AddHeader(h)
             /\ \/ stuck' = FALSE
                \/ ~Applicable(snap, h.signer)
      BY <2>2, <3>0, StepMeans
    <3>2. MaySeal(snap, h.signer)
      BY <3>1 DEF AddHeader, Proper
    <3>3. Applicable(snap, h.signer)
      BY <3>0, <3>2, MaySealApplies
    <3>4. QED
      BY <3>1, <3>3
  <2>3. QED
    BY <2>1, <2>2
<1>3. QED
  BY Invariant, <1>1, <1>2, PTL DEF Spec
=============================================================================
