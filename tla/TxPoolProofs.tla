---------------------------- MODULE TxPoolProofs ----------------------------
(***************************************************************************)
(* What core/tx_pool.go promises of its pool, proved for every set of      *)
(* accounts, transactions, heads and limits.                               *)
(*                                                                         *)
(* An operation is a composition of loops over a record p.  Each loop is a *)
(* fold and gets its loop invariant through an instance of FoldRule; each  *)
(* piece between loops gets a relation between the record before and the   *)
(* record after: Shrinks (transactions only leave), Advances (accounts are *)
(* promoted), Adds (transactions come in), Demoted (the chain has moved).  *)
(* The relations compose, and all of them keep PoolInv:                    *)
(*   Indexed   the lookup is the disjoint union of the two lists;          *)
(*   Good      pending lists run from the state's nonce to the pending     *)
(*             nonce, and queued transactions are allowed by the state;    *)
(*   Covers    the heap holds an entry of every pooled transaction and no  *)
(*             more entries than the pool's size and the stale count;      *)
(*   Fair      over the pool's slots no account but a local one exceeds    *)
(*             its own.                                                    *)
(***************************************************************************)
EXTENDS TxPool, FiniteSetTheorems, TLAPS

\* In a strict total order of a finite set the numbers of smaller elements are
\* 0, 1, ... without a gap, so each position of Sorted has its element.
LEMMA Ranks ==
  ASSUME NEW S, IsFiniteSet(S), NEW R,
         \A x \in S : <<x, x>> \notin R,
         \A x, y, z \in S : <<x, y>> \in R /\ <<y, z>> \in R => <<x, z>> \in R,
         \A x, y \in S : x # y => <<x, y>> \in R \/ <<y, x>> \in R
  PROVE  LET rank == [x \in S |-> Cardinality({y \in S : <<y, x>> \in R})] IN
           /\ Cardinality(S) \in Nat
           /\ \A x \in S : rank[x] \in 0 .. Cardinality(S) - 1
           /\ \A i \in 1 .. Cardinality(S) : \E x \in S : rank[x] = i - 1
           /\ \A x, y \in S : rank[x] < rank[y] <=> <<x, y>> \in R
           /\ \A x, y \in S : rank[x] = rank[y] => x = y
<1> DEFINE n == Cardinality(S)
           Below(x) == {y \in S : <<y, x>> \in R}
           rank == [x \in S |-> Cardinality(Below(x))]
<1>1. n \in Nat
  BY FS_CardinalityType
<1>2. \A x \in S : IsFiniteSet(Below(x)) /\ Cardinality(Below(x)) \in Nat
  BY FS_Subset, FS_CardinalityType, Zenon
<1>3. \A x, z \in S : <<x, z>> \in R => Cardinality(Below(x)) < Cardinality(Below(z))
  <2> TAKE x, z \in S
  <2> HAVE <<x, z>> \in R
  <2>1. Below(x) \in SUBSET Below(z) /\ Below(x) # Below(z)
    OBVIOUS
  <2>2. Cardinality(Below(x)) <= Cardinality(Below(z)) /\ Cardinality(Below(x)) # Cardinality(Below(z))
    BY <1>2, <2>1, FS_Subset, Zenon
  <2> QED BY <1>2, <2>2
<1>4. \A x \in S : Cardinality(Below(x)) \in 0 .. n - 1
  <2> TAKE x \in S
  <2>1. Below(x) \in SUBSET S /\ Below(x) # S
    OBVIOUS
  <2>2. Cardinality(Below(x)) <= n /\ Cardinality(Below(x)) # n
    BY <1>2, <2>1, FS_Subset, Zenon
  <2> QED BY <1>1, <1>2, <2>2
<1>5. \A x, y \in S : rank[x] = rank[y] => x = y
  <2> TAKE x, y \in S
  <2>1. ~(Cardinality(Below(x)) < Cardinality(Below(y))) \/ Cardinality(Below(x)) # Cardinality(Below(y))
    BY <1>2
  <2>2. ~(Cardinality(Below(y)) < Cardinality(Below(x))) \/ Cardinality(Below(x)) # Cardinality(Below(y))
    BY <1>2
  <2> QED BY <1>3, <2>1, <2>2, Zenon
<1>6. \A x, y \in S : rank[x] < rank[y] <=> <<x, y>> \in R
  <2> TAKE x, y \in S
  <2>1. ~(Cardinality(Below(x)) < Cardinality(Below(y))) \/ ~(Cardinality(Below(y)) < Cardinality(Below(x)))
    BY <1>2
  <2>2. ~(Cardinality(Below(x)) < Cardinality(Below(x)))
    BY <1>2
  <2> QED BY <1>3, <2>1, <2>2, Zenon
<1>7. rank \in Injection(S, 0 .. n - 1)
  <2>1. rank \in [S -> 0 .. n - 1] /\ DOMAIN rank = S
    BY <1>4, Zenon
  <2> QED BY <1>5, <2>1, Zenon DEF Injection, IsInjective
<1>8. IsFiniteSet(0 .. n - 1) /\ Cardinality(0 .. n - 1) = n
  <2>1. n - 1 \in Int /\ 0 \in Int
    BY <1>1
  <2>2. /\ IsFiniteSet(0 .. n - 1)
        /\ Cardinality(0 .. n - 1) = IF 0 > n - 1 THEN 0 ELSE n - 1 - 0 + 1
    BY <2>1, FS_Interval, Zenon
  <2> QED BY <1>1, <2>2
<1>9. rank \in Surjection(S, 0 .. n - 1)
  <2> HIDE DEF rank
  <2>1. Cardinality(S) = Cardinality(0 .. n - 1)
    BY <1>8
  <2> DEFINE T == 0 .. n - 1
  <2>2. rank \in Injection(S, T) /\ IsFiniteSet(T) /\ Cardinality(S) = Cardinality(T)
    BY <1>7, <1>8, <2>1
  <2> HIDE DEF T
  <2>3. Cardinality(S) = Cardinality(T) <=> rank \in Surjection(S, T)
    BY <2>2, FS_Injection, Zenon
  <2>4. rank \in Surjection(S, T)
    BY <2>2, <2>3, Zenon
  <2> QED BY <2>4, Zenon DEF T
<1>10. \A i \in 1 .. n : \E x \in S : rank[x] = i - 1
  <2>1. \A k \in 0 .. n - 1 : \E x \in S : rank[x] = k
    BY <1>9, Zenon DEF Surjection
  <2>2. \A i \in 1 .. n : i - 1 \in 0 .. n - 1
    BY <1>1
  <2> QED BY <2>1, <2>2, Zenon
<1> HIDE DEF rank
<1>11. /\ n \in Nat
       /\ \A x \in S : rank[x] \in 0 .. n - 1
       /\ \A i \in 1 .. n : \E x \in S : rank[x] = i - 1
       /\ \A x, y \in S : rank[x] < rank[y] <=> <<x, y>> \in R
       /\ \A x, y \in S : rank[x] = rank[y] => x = y
  BY <1>1, <1>4, <1>5, <1>6, <1>10 DEF rank
<1> QED BY <1>11 DEF rank

-----------------------------------------------------------------------------
(* Sequences that list a set. *)

Lists(seq, S) ==
  /\ Cardinality(S) \in Nat
  /\ DOMAIN seq = 1 .. Cardinality(S)
  /\ \A i \in 1 .. Cardinality(S) : seq[i] \in S
  /\ \A x \in S : \E i \in 1 .. Cardinality(S) : seq[i] = x

\* An account has at most one transaction per nonce in S.
Distinct(S) == \A s, t \in S : s.from = t.from /\ s.nonce = t.nonce => s = t


\* What takes the element of each rank lists the set in its order.
LEMMA RankedLists ==
  ASSUME NEW S, IsFiniteSet(S), NEW R,
         \A x \in S : <<x, x>> \notin R,
         \A x, y, z \in S : <<x, y>> \in R /\ <<y, z>> \in R => <<x, z>> \in R,
         \A x, y \in S : x # y => <<x, y>> \in R \/ <<y, x>> \in R,
         NEW seq, DOMAIN seq = 1 .. Cardinality(S),
         \A i \in 1 .. Cardinality(S) :
           (\E x \in S : Cardinality({y \in S : <<y, x>> \in R}) = i - 1)
           => seq[i] \in S /\ Cardinality({y \in S : <<y, seq[i]>> \in R}) = i - 1
  PROVE  /\ Lists(seq, S)
         /\ \A i, j \in 1 .. Cardinality(S) : i < j => <<seq[i], seq[j]>> \in R
<1> DEFINE rank == [x \in S |-> Cardinality({y \in S : <<y, x>> \in R})]
           n == Cardinality(S)
<1>1. /\ n \in Nat
      /\ \A i \in 1 .. n : \E x \in S : rank[x] = i - 1
      /\ \A x \in S : rank[x] \in 0 .. n - 1
      /\ \A x, y \in S : rank[x] < rank[y] <=> <<x, y>> \in R
      /\ \A x, y \in S : rank[x] = rank[y] => x = y
  BY Ranks, ZenonT(60)
<1>2. \A x \in S : rank[x] = Cardinality({y \in S : <<y, x>> \in R})
  OBVIOUS
<1> HIDE DEF rank
<1>3. \A i \in 1 .. n : seq[i] \in S /\ rank[seq[i]] = i - 1
  BY <1>1, <1>2, ZenonT(60)
<1>4. \A x \in S : \E i \in 1 .. n : seq[i] = x
  <2> TAKE x \in S
  <2>1. rank[x] + 1 \in 1 .. n /\ rank[x] = (rank[x] + 1) - 1
    BY <1>1
  <2>2. seq[rank[x] + 1] \in S /\ rank[seq[rank[x] + 1]] = rank[x]
    BY <2>1, <1>3
  <2> QED BY <1>1, <2>1, <2>2, Zenon
<1>5. \A i, j \in 1 .. n : i < j => <<seq[i], seq[j]>> \in R
  <2> TAKE i, j \in 1 .. n
  <2> HAVE i < j
  <2>1. rank[seq[i]] < rank[seq[j]]
    BY <1>1, <1>3
  <2> QED BY <2>1, <1>1, <1>3, Zenon
<1> QED BY <1>1, <1>3, <1>4, <1>5, Zenon DEF Lists

\* The transactions of one account by rising and by falling nonce.
LEMMA RisingLists ==
  ASSUME NEW S, IsFiniteSet(S), \A t \in S : t.nonce \in Nat,
         \A s, t \in S : s.nonce = t.nonce => s = t
  PROVE  /\ Lists(Rising(S), S)
         /\ \A i, j \in 1 .. Cardinality(S) :
              i < j => Rising(S)[i].nonce < Rising(S)[j].nonce
<1> DEFINE R == {e \in S \X S : e[1].nonce < e[2].nonce}
           seq == Rising(S)
<1>1. \A x, y \in S : <<x, y>> \in R <=> x.nonce < y.nonce
  OBVIOUS
<1>2. \A x \in S : {y \in S : <<y, x>> \in R} = {y \in S : y.nonce < x.nonce}
  BY <1>1
<1>3. /\ \A x \in S : <<x, x>> \notin R
      /\ \A x, y, z \in S : <<x, y>> \in R /\ <<y, z>> \in R => <<x, z>> \in R
      /\ \A x, y \in S : x # y => <<x, y>> \in R \/ <<y, x>> \in R
  BY <1>1
<1> HIDE DEF R
<1>4. /\ DOMAIN seq = 1 .. Cardinality(S)
      /\ \A i \in 1 .. Cardinality(S) :
           seq[i] = CHOOSE x \in S : Cardinality({y \in S : y.nonce < x.nonce}) = i - 1
  BY Zenon DEF Rising, Sorted
<1> HIDE DEF seq
<1>5. \A i \in 1 .. Cardinality(S) :
        (\E x \in S : Cardinality({y \in S : y.nonce < x.nonce}) = i - 1)
        => seq[i] \in S /\ Cardinality({y \in S : y.nonce < seq[i].nonce}) = i - 1
  BY <1>4, Zenon
<1>6. \A i \in 1 .. Cardinality(S) :
        (\E x \in S : Cardinality({y \in S : <<y, x>> \in R}) = i - 1)
        => seq[i] \in S /\ Cardinality({y \in S : <<y, seq[i]>> \in R}) = i - 1
  BY <1>2, <1>5, Zenon
<1>7. /\ Lists(seq, S)
      /\ \A i, j \in 1 .. Cardinality(S) : i < j => <<seq[i], seq[j]>> \in R
  BY <1>3, <1>4, <1>6, RankedLists, Zenon
<1>8. \A i \in 1 .. Cardinality(S) : seq[i] \in S
  BY <1>7 DEF Lists
<1> QED BY <1>1, <1>7, <1>8, Zenon DEF seq

\* The same by falling nonce, the order txSortedMap.Cap drops in.
LEMMA FallingLists ==
  ASSUME NEW S, IsFiniteSet(S), \A t \in S : t.nonce \in Nat,
         \A s, t \in S : s.nonce = t.nonce => s = t
  PROVE  /\ Lists(Falling(S), S)
         /\ \A i, j \in 1 .. Cardinality(S) :
              i < j => Falling(S)[i].nonce > Falling(S)[j].nonce
<1> DEFINE R == {e \in S \X S : e[1].nonce > e[2].nonce}
           seq == Falling(S)
<1>1. \A x, y \in S : <<x, y>> \in R <=> x.nonce > y.nonce
  OBVIOUS
<1>2. \A x \in S : {y \in S : <<y, x>> \in R} = {y \in S : y.nonce > x.nonce}
  BY <1>1
<1>3. /\ \A x \in S : <<x, x>> \notin R
      /\ \A x, y, z \in S : <<x, y>> \in R /\ <<y, z>> \in R => <<x, z>> \in R
      /\ \A x, y \in S : x # y => <<x, y>> \in R \/ <<y, x>> \in R
  BY <1>1
<1> HIDE DEF R
<1>4. /\ DOMAIN seq = 1 .. Cardinality(S)
      /\ \A i \in 1 .. Cardinality(S) :
           seq[i] = CHOOSE x \in S : Cardinality({y \in S : y.nonce > x.nonce}) = i - 1
  BY Zenon DEF Falling, Sorted
<1> HIDE DEF seq
<1>5. \A i \in 1 .. Cardinality(S) :
        (\E x \in S : Cardinality({y \in S : y.nonce > x.nonce}) = i - 1)
        => seq[i] \in S /\ Cardinality({y \in S : y.nonce > seq[i].nonce}) = i - 1
  BY <1>4, Zenon
<1>6. \A i \in 1 .. Cardinality(S) :
        (\E x \in S : Cardinality({y \in S : <<y, x>> \in R}) = i - 1)
        => seq[i] \in S /\ Cardinality({y \in S : <<y, seq[i]>> \in R}) = i - 1
  BY <1>2, <1>5, Zenon
<1>7. /\ Lists(seq, S)
      /\ \A i, j \in 1 .. Cardinality(S) : i < j => <<seq[i], seq[j]>> \in R
  BY <1>3, <1>4, <1>6, RankedLists, Zenon
<1>8. \A i \in 1 .. Cardinality(S) : seq[i] \in S
  BY <1>7 DEF Lists
<1> QED BY <1>1, <1>7, <1>8, Zenon DEF seq


-----------------------------------------------------------------------------
(* The price heap. *)

Heap(B) == IsFiniteSet(B) /\ B \in SUBSET (Txs \X Nat)

\* The heap is finite.
LEMMA HeapSize == ASSUME NEW B, Heap(B) PROVE Cardinality(B) \in Nat
BY FS_CardinalityType DEF Heap

\* A push adds at most one entry.
LEMMA HeapAdd ==
  ASSUME NEW B, Heap(B), NEW t \in Txs, NEW k \in Nat
  PROVE  Heap(B \cup {<<t, k>>}) /\ Cardinality(B \cup {<<t, k>>}) <= Cardinality(B) + 1
<1>1. IsFiniteSet(B) /\ Cardinality(B) \in Nat
  BY HeapSize DEF Heap
<1>2. /\ IsFiniteSet(B \cup {<<t, k>>})
      /\ Cardinality(B \cup {<<t, k>>}) = IF <<t, k>> \in B THEN Cardinality(B) ELSE Cardinality(B) + 1
  BY <1>1, FS_AddElement
<1> QED BY <1>1, <1>2 DEF Heap

\* A pop takes one entry.
LEMMA HeapRemove ==
  ASSUME NEW B, Heap(B), NEW e \in B
  PROVE  Heap(B \ {e}) /\ Cardinality(B \ {e}) = Cardinality(B) - 1
<1>1. IsFiniteSet(B)
  BY DEF Heap
<1>2. IsFiniteSet(B \ {e}) /\ Cardinality(B \ {e}) = Cardinality(B) - 1
  BY <1>1, FS_RemoveElement
<1> QED BY <1>2 DEF Heap

\* A rebuilt heap has one entry for every transaction it is rebuilt from.
LEMMA HeapOfSet ==
  ASSUME NEW S \in SUBSET Txs, IsFiniteSet(S)
  PROVE  /\ Heap(S \X {1})
         /\ \A t \in S : EntriesOf(S \X {1}, t) # {}
         /\ Cardinality(S \X {1}) = Cardinality(S)
<1>4. IsFiniteSet(S \X {1}) /\ Cardinality(S \X {1}) = Cardinality(S) * Cardinality({1})
  BY FS_Product, FS_Singleton
<1>5. Cardinality({1}) = 1 /\ Cardinality(S) \in Nat
  BY FS_Singleton, FS_CardinalityType
<1>6. Cardinality(S \X {1}) = Cardinality(S)
  BY <1>4, <1>5
<1>7. \A t \in S : <<t, 1>> \in EntriesOf(S \X {1}, t)
  BY DEF EntriesOf
<1>8. S \X {1} \in SUBSET (Txs \X Nat)
  OBVIOUS
<1> QED BY <1>4, <1>6, <1>7, <1>8, Zenon DEF Heap

-----------------------------------------------------------------------------
(* The pool's fields, and what an operation may do to them. *)

Fields == {"all", "pending", "queue", "beats", "locals", "priced", "stales", "gasPrice",
           "base", "nonce", "journal", "writer", "due", "merged"}

\* The types of the fields; the lists, the lookup and the heap are finite.
Formed(p) ==
  /\ DOMAIN p = Fields
  /\ p.all \in SUBSET Txs /\ IsFiniteSet(p.all)
  /\ p.pending \in SUBSET Txs /\ IsFiniteSet(p.pending)
  /\ p.queue \in SUBSET Txs /\ IsFiniteSet(p.queue)
  /\ p.locals \in SUBSET Accounts /\ p.beats \in Seq(Accounts)
  /\ p.base \in Heads /\ p.nonce \in [Accounts -> Nat] /\ p.merged \in BOOLEAN /\ p.journal \in Seq(Txs)
  /\ Heap(p.priced) /\ p.stales \in Int

\* Enough stale entries are counted: the heap holds no more entries than the
\* pool holds transactions, but for the stale ones.
Covers(p) ==
  /\ \A t \in p.all : EntriesOf(p.priced, t) # {}
  /\ Cardinality(p.priced) <= p.stales + Cardinality(p.all)

\* q is p but for the lookup and the heap.
SameLists(p, q) ==
  /\ q.pending = p.pending /\ q.queue = p.queue /\ q.beats = p.beats
  /\ q.locals = p.locals /\ q.base = p.base /\ q.nonce = p.nonce
  /\ q.merged = p.merged /\ q.journal = p.journal

\* G has been dropped from p's lookup.
Dropped(p, q, G) ==
  /\ Formed(q) /\ SameLists(p, q)
  /\ q.all = p.all \ G
  /\ Covers(p) => Covers(q)

\* all.Remove with priced.Removed, whether the heap is rebuilt or not, keeps
\* the count of stale entries sufficient.
LEMMA DropDrops ==
  ASSUME NEW p, Formed(p), NEW tx
  PROVE  Dropped(p, Drop(p, tx), {tx})
<1> DEFINE r == [p EXCEPT !.all = @ \ {tx}]
           q == Drop(p, tx)
<1>1. /\ DOMAIN r = Fields /\ r.all = p.all \ {tx} /\ SameLists(p, r)
      /\ r.priced = p.priced /\ r.stales = p.stales
  BY DEF Formed, SameLists, Fields
<1>2. IsFiniteSet(r.all) /\ Cardinality(r.all) \in Nat
  <2>1. IsFiniteSet(p.all \ {tx})
    BY FS_RemoveElement DEF Formed
  <2> QED BY <1>1, <2>1, FS_CardinalityType, Zenon
<1>3. Cardinality(r.all) >= Cardinality(p.all) - 1 /\ Cardinality(p.all) \in Nat
  <2>1. Cardinality(p.all \ {tx}) = IF tx \in p.all THEN Cardinality(p.all) - 1 ELSE Cardinality(p.all)
    BY FS_RemoveElement DEF Formed
  <2>2. Cardinality(p.all) \in Nat
    BY FS_CardinalityType DEF Formed
  <2> QED BY <1>1, <2>1, <2>2
<1>4. Cardinality(p.priced) \in Nat
  BY HeapSize DEF Formed
<1> HIDE DEF r
<1>5. q = IF r.stales + 1 <= Cardinality(r.priced) \div 4
          THEN [r EXCEPT !.stales = @ + 1]
          ELSE [r EXCEPT !.stales = 0, !.priced = r.all \X {1}]
  BY DEF Drop, Removed, r
<1>6. CASE r.stales + 1 <= Cardinality(r.priced) \div 4
  <2>1. /\ DOMAIN q = Fields /\ q.all = r.all /\ SameLists(r, q)
        /\ q.priced = p.priced /\ q.stales = p.stales + 1
    BY <1>1, <1>5, <1>6 DEF SameLists, Fields
  <2>2. Formed(q)
    BY <1>1, <1>2, <2>1 DEF Formed, SameLists
  <2>3. Covers(p) => Covers(q)
    BY <1>1, <1>2, <1>3, <1>4, <2>1 DEF Covers, Formed
  <2> QED BY <1>1, <2>1, <2>2, <2>3 DEF Dropped, SameLists
<1>7. CASE ~(r.stales + 1 <= Cardinality(r.priced) \div 4)
  <2>1. /\ DOMAIN q = Fields /\ q.all = r.all /\ SameLists(r, q)
        /\ q.priced = r.all \X {1} /\ q.stales = 0
    BY <1>1, <1>5, <1>7 DEF SameLists, Fields
  <2>2. /\ Heap(q.priced) /\ \A t \in q.all : EntriesOf(q.priced, t) # {}
        /\ Cardinality(q.priced) = Cardinality(q.all)
    <3>1. r.all \in SUBSET Txs
      BY <1>1 DEF Formed
    <3> QED BY <1>2, <2>1, <3>1, HeapOfSet
  <2>3. Formed(q)
    BY <1>1, <1>2, <2>1, <2>2 DEF Formed, SameLists
  <2>4. Covers(q)
    <3>1. Cardinality(q.priced) <= q.stales + Cardinality(q.all)
      BY <1>2, <2>1, <2>2
    <3> QED BY <2>2, <3>1, Zenon DEF Covers
  <2> QED BY <1>1, <2>1, <2>3, <2>4 DEF Dropped, SameLists
<1> QED BY <1>6, <1>7

-----------------------------------------------------------------------------
(* Folds with one transaction after the other dropped. *)

DropOp(c, p, tx) == Drop(p, tx)
DropInv(c, seq, i, p) == Dropped(c, p, {seq[j] : j \in 1 .. i})
Dropping == INSTANCE FoldRule WITH Op <- DropOp, Inv <- DropInv

\* What SelectInSeq finds.
LEMMA PositionIs ==
  ASSUME NEW s, Len(s) \in Nat, NEW a
  PROVE  /\ Position(s, a) \in 0 .. Len(s)
         /\ (\E i \in 1 .. Len(s) : s[i] = a) => Position(s, a) # 0
         /\ Position(s, a) # 0 => s[Position(s, a)] = a
<1> DEFINE I == {i \in 1 .. Len(s) : s[i] = a}
<1>1. Position(s, a) = IF I # {} THEN Min(I) ELSE 0
  BY Zenon DEF Position, SelectInSeq
<1>2. CASE I = {}
  <2>1. Position(s, a) = 0
    BY <1>1, <1>2
  <2> QED BY <1>2, <2>1
<1>3. CASE I # {}
  <2>0. I \in SUBSET Nat
    OBVIOUS
  <2>1. \E x \in I : \A y \in I : x <= y
    BY <1>3, <2>0, Dropping!Least
  <2>2. Min(I) \in I
    BY <2>1, Zenon DEF Min
  <2>3. Position(s, a) \in I
    BY <1>1, <1>3, <2>2
  <2> QED BY <2>3
<1> QED BY <1>2, <1>3

\* An order names every account once.
LEMMA OrderLists ==
  ASSUME NEW order \in Orders
  PROVE  /\ Lists(order, Accounts) /\ order \in Seq(Accounts)
         /\ Len(order) = Cardinality(Accounts)
<1> DEFINE n == Cardinality(Accounts)
<1>0. IsFiniteSet(Accounts)
  BY PoolAssumption
<1>1. n \in Nat
  BY <1>0, FS_CardinalityType
<1>2. order \in [1 .. n -> Accounts] /\ \A i, j \in 1 .. n : i # j => order[i] # order[j]
  BY DEF Orders, SetToSeqs
<1>3. order \in Injection(1 .. n, Accounts)
  BY <1>2, Zenon DEF Injection, IsInjective
<1>4. Cardinality(1 .. n) = n
  <2>1. Cardinality(1 .. n) = IF 1 > n THEN 0 ELSE n - 1 + 1
    BY <1>1, FS_Interval
  <2> QED BY <1>1, <2>1
<1>5. order \in Surjection(1 .. n, Accounts)
  <2> DEFINE T == 1 .. n
  <2>1. order \in Injection(T, Accounts) /\ Cardinality(T) = Cardinality(Accounts)
    BY <1>3, <1>4
  <2> HIDE DEF T
  <2>2. order \in Surjection(T, Accounts)
    BY <1>0, <2>1, FS_Injection
  <2> QED BY <2>2 DEF T
<1>6. \A x \in Accounts : \E i \in 1 .. n : order[i] = x
  BY <1>5, Zenon DEF Surjection
<1>7. order \in Seq(Accounts) /\ Len(order) = n
  BY <1>1, <1>2
<1> QED BY <1>1, <1>2, <1>6, <1>7 DEF Lists

\* The position in order tells accounts apart.
LEMMA PositionsDiffer ==
  ASSUME NEW order \in Orders
  PROVE  /\ \A a \in Accounts : Position(order, a) \in Nat
         /\ \A a, b \in Accounts : Position(order, a) = Position(order, b) => a = b
<1>1. Lists(order, Accounts) /\ Len(order) = Cardinality(Accounts)
  BY OrderLists
<1>2. Len(order) \in Nat /\ \A a \in Accounts : \E i \in 1 .. Len(order) : order[i] = a
  BY <1>1 DEF Lists
<1>3. \A a \in Accounts : Position(order, a) \in 0 .. Len(order) /\ order[Position(order, a)] = a
  BY <1>2, PositionIs
<1> QED BY <1>2, <1>3

\* Accounts by a number, the largest first and ties by their position.
Ahead(key, order, y, x) ==
  \/ key[y] > key[x]
  \/ key[y] = key[x] /\ Position(order, y) < Position(order, x)

\* Sorting accounts that way lists them.
LEMMA AheadLists ==
  ASSUME NEW A \in SUBSET Accounts, NEW order \in Orders, NEW key \in [A -> Nat],
         NEW seq, DOMAIN seq = 1 .. Cardinality(A),
         \A i \in 1 .. Cardinality(A) :
           (\E x \in A : Cardinality({y \in A : Ahead(key, order, y, x)}) = i - 1)
           => seq[i] \in A /\ Cardinality({y \in A : Ahead(key, order, y, seq[i])}) = i - 1
  PROVE  /\ Lists(seq, A) /\ IsFiniteSet(A)
         /\ \A i, j \in 1 .. Cardinality(A) : i < j => Ahead(key, order, seq[i], seq[j])
<1> DEFINE R == {e \in A \X A : Ahead(key, order, e[1], e[2])}
<1>0. IsFiniteSet(A)
  BY PoolAssumption, FS_Subset, Zenon
<1>1. \A x, y \in A : <<x, y>> \in R <=> Ahead(key, order, x, y)
  OBVIOUS
<1>2. \A x \in A : {y \in A : <<y, x>> \in R} = {y \in A : Ahead(key, order, y, x)}
  BY <1>1
<1>3. /\ \A x \in A : <<x, x>> \notin R
      /\ \A x, y, z \in A : <<x, y>> \in R /\ <<y, z>> \in R => <<x, z>> \in R
      /\ \A x, y \in A : x # y => <<x, y>> \in R \/ <<y, x>> \in R
  <2> HIDE DEF R
  <2>1. \A x \in A : key[x] \in Nat /\ Position(order, x) \in Nat
    BY PositionsDiffer
  <2>2. \A x, y \in A : Position(order, x) = Position(order, y) => x = y
    BY PositionsDiffer
  <2> QED BY <1>1, <2>1, <2>2, SMTT(40) DEF Ahead
<1> HIDE DEF R
<1>4. \A i \in 1 .. Cardinality(A) :
        (\E x \in A : Cardinality({y \in A : <<y, x>> \in R}) = i - 1)
        => seq[i] \in A /\ Cardinality({y \in A : <<y, seq[i]>> \in R}) = i - 1
  BY <1>2, Zenon
<1>5. /\ Lists(seq, A)
      /\ \A i, j \in 1 .. Cardinality(A) : i < j => <<seq[i], seq[j]>> \in R
  BY <1>0, <1>3, <1>4, RankedLists, Zenon
<1>6. \A i \in 1 .. Cardinality(A) : seq[i] \in A
  BY <1>5 DEF Lists
<1> QED BY <1>0, <1>1, <1>5, <1>6, Zenon

\* A loop of drops.
LEMMA DropSeqDrops ==
  ASSUME NEW p, Formed(p), NEW seq, NEW n \in Nat, DOMAIN seq = 1 .. n
  PROVE  Dropped(p, DropSeq(p, seq), {seq[j] : j \in 1 .. n})
<1>1. DropSeq(p, seq) = Dropping!Fold(p, p, seq)
  BY Zenon DEF DropSeq, Dropping!Fold, DropOp,
       FoldLeft, MapThenFoldSet, Dropping!Unfolds, Dropping!Top, Max
<1>2. DropInv(p, seq, 0, p)
  BY DEF DropInv, Dropped, SameLists
<1>3. \A i \in 1 .. n : \A s : DropInv(p, seq, i - 1, s) => DropInv(p, seq, i, DropOp(p, s, seq[i]))
  <2> TAKE i \in 1 .. n
  <2> TAKE s
  <2> HAVE DropInv(p, seq, i - 1, s)
  <2>1. Dropped(p, s, {seq[j] : j \in 1 .. i - 1})
    BY DEF DropInv
  <2>2. Dropped(s, Drop(s, seq[i]), {seq[i]})
    BY <2>1, DropDrops DEF Dropped
  <2>3. 1 .. i = (1 .. i - 1) \cup {i}
    OBVIOUS
  <2>4. {seq[j] : j \in 1 .. i} = {seq[j] : j \in 1 .. i - 1} \cup {seq[i]}
    BY <2>3
  <2>5. Dropped(p, Drop(s, seq[i]), {seq[j] : j \in 1 .. i})
    BY <2>1, <2>2, <2>4 DEF Dropped, SameLists
  <2> QED BY <2>5 DEF DropInv, DropOp
<1>4. DropInv(p, seq, n, Dropping!Fold(p, p, seq))
  BY <1>2, <1>3, Dropping!FoldInduction, Zenon
<1> QED BY <1>1, <1>4 DEF DropInv

\* All of a listed set is dropped.
LEMMA DropListed ==
  ASSUME NEW p, Formed(p), NEW seq, NEW S, Lists(seq, S)
  PROVE  Dropped(p, DropSeq(p, seq), S)
<1>1. Dropped(p, DropSeq(p, seq), {seq[j] : j \in 1 .. Cardinality(S)})
  BY DropSeqDrops DEF Lists
<1>2. {seq[j] : j \in 1 .. Cardinality(S)} = S
  BY DEF Lists
<1> QED BY <1>1, <1>2

-----------------------------------------------------------------------------
(* The chain. *)

PathOp(c, s, i) == IF Last(s) = Genesis THEN s ELSE Append(s, Parent[Last(s)])
PathInv(c, seq, i, s) == s \in Seq(Heads) /\ s # <<>>
Climbing == INSTANCE FoldRule WITH Op <- PathOp, Inv <- PathInv

\* The ancestors of a head are heads.
LEMMA PathSeq == ASSUME NEW h \in Heads PROVE Path[h] \in Seq(Heads)
<1> DEFINE n == Cardinality(Heads)
           seq == [i \in 1 .. n |-> i]
<1>0. n \in Nat /\ DOMAIN seq = 1 .. n
  BY PoolAssumption, FS_CardinalityType
<1>1. Path[h] = Climbing!Fold(0, <<h>>, seq)
  <2>1. Path[h] = FoldLeft(LAMBDA s, i : IF Last(s) = Genesis THEN s ELSE Append(s, Parent[Last(s)]),
                           <<h>>, seq)
    BY Zenon DEF Path
  <2> HIDE DEF seq
  <2> QED BY <2>1, Zenon DEF Climbing!Fold, PathOp,
       FoldLeft, MapThenFoldSet, Climbing!Unfolds, Climbing!Top, Max
<1> HIDE DEF seq
<1>2. PathInv(0, seq, 0, <<h>>)
  BY DEF PathInv
<1>3. \A i \in 1 .. n : \A s : PathInv(0, seq, i - 1, s) => PathInv(0, seq, i, PathOp(0, s, seq[i]))
  BY PoolAssumption DEF PathInv, PathOp, Last
<1>4. PathInv(0, seq, n, Climbing!Fold(0, <<h>>, seq))
  BY <1>0, <1>2, <1>3, Climbing!FoldInduction, Zenon
<1> QED BY <1>1, <1>4 DEF PathInv

\* The nonce of an account: the transactions of each block are counted.
CountOp(c, n, b) == n + Cardinality({i \in DOMAIN BlockTxs[b] : BlockTxs[b][i].from = c})
CountInv(c, seq, i, n) == n \in Nat
Counting == INSTANCE FoldRule WITH Op <- CountOp, Inv <- CountInv

\* The state's nonce is a natural number.
LEMMA StateNonceNat ==
  ASSUME NEW h \in Heads, NEW a \in Accounts PROVE StateNonce[h][a] \in Nat
<1> DEFINE seq == Path[h]
<1>0. seq \in Seq(Heads)
  BY PathSeq
<1>1. StateNonce[h][a] = Counting!Fold(a, 0, seq)
  <2>1. StateNonce[h][a]
          = FoldLeft(LAMBDA n, b : n + Cardinality({i \in DOMAIN BlockTxs[b] : BlockTxs[b][i].from = a}),
                     0, seq)
    BY Zenon DEF StateNonce
  <2> HIDE DEF seq
  <2> QED BY <2>1, Zenon DEF Counting!Fold, CountOp,
       FoldLeft, MapThenFoldSet, Counting!Unfolds, Counting!Top, Max
<1> HIDE DEF seq
<1>2. CountInv(a, seq, 0, 0)
  BY DEF CountInv
<1>3. \A b \in Heads : Cardinality({i \in DOMAIN BlockTxs[b] : BlockTxs[b][i].from = a}) \in Nat
  <2> TAKE b \in Heads
  <2>1. BlockTxs[b] \in Seq(Txs)
    BY PoolAssumption
  <2>2. DOMAIN BlockTxs[b] = 1 .. Len(BlockTxs[b]) /\ Len(BlockTxs[b]) \in Nat
    BY <2>1
  <2>3. IsFiniteSet(DOMAIN BlockTxs[b])
    BY <2>2, FS_Interval
  <2>4. IsFiniteSet({i \in DOMAIN BlockTxs[b] : BlockTxs[b][i].from = a})
    BY <2>3, FS_Subset, Zenon
  <2> QED BY <2>4, FS_CardinalityType, Zenon
<1>4. \A i \in 1 .. Len(seq) : \A s : CountInv(a, seq, i - 1, s) => CountInv(a, seq, i, CountOp(a, s, seq[i]))
  <2>1. \A i \in 1 .. Len(seq) : seq[i] \in Heads
    BY <1>0
  <2>2. \A i \in 1 .. Len(seq) : \A s :
          s \in Nat => s + Cardinality({j \in DOMAIN BlockTxs[seq[i]] : BlockTxs[seq[i]][j].from = a}) \in Nat
    BY <1>3, <2>1
  <2> QED BY <2>2, Zenon DEF CountInv, CountOp
<1>5. Len(seq) \in Nat /\ DOMAIN seq = 1 .. Len(seq)
  BY <1>0
<1>6. CountInv(a, seq, Len(seq), Counting!Fold(a, 0, seq))
  BY <1>2, <1>4, <1>5, Counting!FoldInduction, Zenon
<1> QED BY <1>1, <1>6 DEF CountInv

\* The blocks that leave the chain are gathered.
LeftOp(c, s, b) == IF b \in ToSet(Path[c]) THEN s ELSE s \o BlockTxs[b]
LeftInv(c, seq, i, s) == s \in Seq(Txs)
Leaving == INSTANCE FoldRule WITH Op <- LeftOp, Inv <- LeftInv

\* What they hold are transactions.
LEMMA LeftSeq == ASSUME NEW h \in Heads, NEW g \in Heads PROVE Left(h, g) \in Seq(Txs)
<1> DEFINE seq == Path[h]
<1>0. seq \in Seq(Heads)
  BY PathSeq
<1>1. Left(h, g) = Leaving!Fold(g, <<>>, seq)
  BY Zenon DEF Left, Leaving!Fold, LeftOp,
       FoldLeft, MapThenFoldSet, Leaving!Unfolds, Leaving!Top, Max
<1> HIDE DEF seq
<1>2. LeftInv(g, seq, 0, <<>>)
  BY DEF LeftInv
<1>3. \A i \in 1 .. Len(seq) : \A s : LeftInv(g, seq, i - 1, s) => LeftInv(g, seq, i, LeftOp(g, s, seq[i]))
  BY <1>0, PoolAssumption DEF LeftInv, LeftOp
<1>4. Len(seq) \in Nat /\ DOMAIN seq = 1 .. Len(seq)
  BY <1>0
<1>5. LeftInv(g, seq, Len(seq), Leaving!Fold(g, <<>>, seq))
  BY <1>2, <1>3, <1>4, Leaving!FoldInduction, Zenon
<1> QED BY <1>1, <1>5 DEF LeftInv

\* types.TxDifference, element by element.
MinusOp(c, r, x) == IF x \in c THEN r ELSE Append(r, x)
MinusInv(c, seq, i, r) == r \in Seq({seq[j] : j \in DOMAIN seq})
Subtracting == INSTANCE FoldRule WITH Op <- MinusOp, Inv <- MinusInv

\* A difference has elements of the sequence only.
LEMMA MinusSeq == ASSUME NEW X, NEW s \in Seq(X), NEW S PROVE Minus(s, S) \in Seq(X)
<1> DEFINE R == {s[j] : j \in DOMAIN s}
<1>0. Len(s) \in Nat /\ DOMAIN s = 1 .. Len(s)
  OBVIOUS
<1>1. Minus(s, S) = Subtracting!Fold(S, <<>>, s)
  BY Zenon DEF Minus, Subtracting!Fold, MinusOp,
       FoldLeft, MapThenFoldSet, Subtracting!Unfolds, Subtracting!Top, Max
<1>2. MinusInv(S, s, 0, <<>>)
  BY DEF MinusInv
<1>3. \A i \in 1 .. Len(s) : \A r : MinusInv(S, s, i - 1, r) => MinusInv(S, s, i, MinusOp(S, r, s[i]))
  BY <1>0 DEF MinusInv, MinusOp
<1>4. MinusInv(S, s, Len(s), Subtracting!Fold(S, <<>>, s))
  BY <1>0, <1>2, <1>3, Subtracting!FoldInduction, Zenon
<1>5. Minus(s, S) \in Seq(R)
  BY <1>1, <1>4 DEF MinusInv
<1>6. R \in SUBSET X
  BY <1>0
<1> HIDE DEF R
<1> QED BY <1>5, <1>6

\* reset gives transactions back.
LEMMA ReinjectSeq ==
  ASSUME NEW old \in Heads, NEW new \in Heads PROVE Reinject(old, new) \in Seq(Txs)
<1>1. Minus(Left(old, new), ToSet(Left(new, old))) \in Seq(Txs)
  BY LeftSeq, MinusSeq
<1> QED BY <1>1 DEF Reinject

-----------------------------------------------------------------------------
(* Putting transactions into the lists. *)

LEMMA TxIs ==
  ASSUME NEW t \in Txs
  PROVE  t.from \in Accounts /\ t.nonce \in Nat /\ t.price \in Nat
BY PoolAssumption

\* Nothing is dropped for an empty set.
LEMMA DropNone == ASSUME NEW p PROVE DropSeq(p, Rising({})) = p
<1> DEFINE seq == Rising({})
<1>1. DOMAIN seq = 1 .. 0
  <2>1. DOMAIN seq = 1 .. Cardinality({})
    BY Zenon DEF Rising, Sorted
  <2> QED BY <2>1, FS_EmptySet
<1>2. DropSeq(p, seq) = Dropping!Fold(p, p, seq)
  BY Zenon DEF DropSeq, Dropping!Fold, DropOp,
       FoldLeft, MapThenFoldSet, Dropping!Unfolds, Dropping!Top, Max
<1> HIDE DEF seq
<1>3. 0 \in Nat
  OBVIOUS
<1>4. PICK h : Dropping!Traces(h, p, p, seq, 0)
  BY <1>1, <1>3, Dropping!FoldStates, Zenon
<1> QED BY <1>2, <1>4 DEF Dropping!Traces, seq

\* S has been added to p's lookup and heap.
Added(p, q, tx) ==
  /\ Formed(q) /\ SameLists(p, q)
  /\ q.all = p.all \cup {tx}
  /\ Covers(p) => Covers(q)

\* all.Add with priced.Put.
LEMMA PutAdds ==
  ASSUME NEW p, Formed(p), NEW tx \in Txs, tx \notin p.all
  PROVE  Added(p, Put(p, tx), tx)
<1> DEFINE q == Put(p, tx)
           k == 1 + Cardinality(EntriesOf(p.priced, tx))
<1>1. /\ DOMAIN q = Fields /\ q.all = p.all \cup {tx} /\ SameLists(p, q)
      /\ q.priced = p.priced \cup {<<tx, k>>} /\ q.stales = p.stales
  BY DEF Put, Formed, SameLists, Fields
<1>2. /\ IsFiniteSet(q.all) /\ Cardinality(q.all) = Cardinality(p.all) + 1
      /\ Cardinality(p.all) \in Nat
  <2>1. IsFiniteSet(p.all)
    BY DEF Formed
  <2>2. IsFiniteSet(p.all \cup {tx}) /\ Cardinality(p.all \cup {tx}) = Cardinality(p.all) + 1
    BY <2>1, FS_AddElement
  <2>3. Cardinality(p.all) \in Nat
    BY <2>1, FS_CardinalityType
  <2> QED BY <1>1, <2>2, <2>3
<1>3. k \in Nat
  <2>1. IsFiniteSet(p.priced) /\ EntriesOf(p.priced, tx) \in SUBSET p.priced
    BY DEF Formed, Heap, EntriesOf
  <2>2. IsFiniteSet(EntriesOf(p.priced, tx))
    BY <2>1, FS_Subset
  <2> QED BY <2>2, FS_CardinalityType
<1> HIDE DEF q, k
<1>7. Heap(q.priced) /\ Cardinality(q.priced) <= Cardinality(p.priced) + 1
  <2>1. Heap(p.priced)
    BY DEF Formed
  <2> QED BY <1>1, <1>3, <2>1, HeapAdd
<1>8. /\ \A t \in p.all : EntriesOf(p.priced, t) # {} => EntriesOf(q.priced, t) # {}
      /\ EntriesOf(q.priced, tx) # {}
  <2>1. \A t \in p.all : EntriesOf(p.priced, t) \subseteq EntriesOf(q.priced, t)
    BY <1>1 DEF EntriesOf
  <2>2. <<tx, k>> \in EntriesOf(q.priced, tx)
    BY <1>1 DEF EntriesOf
  <2> QED BY <2>1, <2>2
<1>9. Cardinality(q.priced) \in Nat
  BY <1>7, HeapSize
<1>4. Cardinality(p.priced) \in Nat
  BY HeapSize DEF Formed
<1>5. Formed(q)
  BY <1>1, <1>2, <1>7 DEF Formed, SameLists
<1>6. Covers(p) => Covers(q)
  <2> HAVE Covers(p)
  <2>1. Cardinality(q.priced) <= q.stales + Cardinality(q.all)
    BY <1>1, <1>2, <1>4, <1>7, <1>9 DEF Covers, Formed
  <2>2. \A t \in q.all : EntriesOf(q.priced, t) # {}
    BY <1>1, <1>8, Zenon DEF Covers
  <2> QED BY <2>1, <2>2, Zenon DEF Covers
<1> QED BY <1>1, <1>5, <1>6 DEF Added, q

\* S has been added to p's queue; its transactions were in the lookup.
Queued(p, q, S) ==
  /\ Formed(q) /\ q.all = p.all /\ q.queue = p.queue \cup S
  /\ q.pending = p.pending /\ q.beats = p.beats /\ q.locals = p.locals
  /\ q.base = p.base /\ q.nonce = p.nonce /\ q.merged = p.merged /\ q.journal = p.journal
  /\ q.priced = p.priced /\ q.stales = p.stales

\* enqueueTx of a transaction the lookup holds, when its nonce is free in the
\* queue: it is never refused, so nothing is lost on the way.
LEMMA EnqueueTxQueues ==
  ASSUME NEW p, Formed(p), NEW tx \in p.all,
         \A u \in p.queue : u.from = tx.from /\ u.nonce = tx.nonce => u = tx
  PROVE  Queued(p, EnqueueTx(p, tx), {tx})
<1>0. tx \in Txs /\ tx.price \in Nat
  BY TxIs DEF Formed
<1>1. CASE tx \in p.queue
  <2>1. ~ Accepts(p.queue, tx)
    BY <1>0, <1>1 DEF Accepts, At, Outbids
  <2>2. EnqueueTx(p, tx) = p
    BY <2>1, Zenon DEF EnqueueTx
  <2>3. p.queue = p.queue \cup {tx}
    BY <1>1
  <2> QED BY <2>2, <2>3 DEF Queued
<1>2. CASE tx \notin p.queue
  <2>1. At(p.queue, tx) = {} /\ Accepts(p.queue, tx)
    BY <1>2 DEF At, Accepts
  <2> DEFINE r == [p EXCEPT !.queue = (@ \ At(@, tx)) \cup {tx}]
  <2>2. DropSeq(r, Rising(At(p.queue, tx))) = r
    BY <2>1, DropNone
  <2>3. r.all = p.all /\ r.queue = p.queue \cup {tx} /\ DOMAIN r = Fields
    BY <2>1 DEF Formed, Fields
  <2>4. EnqueueTx(p, tx) = r
    BY <2>1, <2>2, <2>3 DEF EnqueueTx
  <2>5. /\ r.pending = p.pending /\ r.beats = p.beats /\ r.locals = p.locals
        /\ r.base = p.base /\ r.nonce = p.nonce /\ r.merged = p.merged /\ r.journal = p.journal
        /\ r.priced = p.priced /\ r.stales = p.stales
    BY DEF Formed, Fields
  <2> HIDE DEF r
  <2>6. IsFiniteSet(r.queue) /\ r.queue \in SUBSET Txs
    <3>1. IsFiniteSet(p.queue) /\ p.queue \in SUBSET Txs
      BY DEF Formed
    <3>2. IsFiniteSet(p.queue \cup {tx})
      BY <3>1, FS_AddElement
    <3> QED BY <1>0, <2>3, <3>1, <3>2
  <2>7. Formed(r)
    BY <2>3, <2>5, <2>6 DEF Formed
  <2> QED BY <2>3, <2>4, <2>5, <2>7 DEF Queued
<1> QED BY <1>1, <1>2

\* A loop of enqueueTx over distinct nonces.
EnqueueOp(c, p, tx) == EnqueueTx(p, tx)
EnqueueInv(c, seq, i, p) == Queued(c, p, {seq[j] : j \in 1 .. i})
Enqueueing == INSTANCE FoldRule WITH Op <- EnqueueOp, Inv <- EnqueueInv

\* All of a listed set is queued again.
LEMMA EnqueueSeqQueues ==
  ASSUME NEW p, Formed(p), NEW seq, NEW S \in SUBSET p.all, Lists(seq, S),
         Distinct(p.queue \cup S)
  PROVE  Queued(p, EnqueueSeq(p, seq), S)
<1> DEFINE n == Cardinality(S)
<1>0. n \in Nat /\ DOMAIN seq = 1 .. n /\ \A i \in 1 .. n : seq[i] \in S
  BY DEF Lists
<1>1. EnqueueSeq(p, seq) = Enqueueing!Fold(p, p, seq)
  BY Zenon DEF EnqueueSeq, Enqueueing!Fold, EnqueueOp,
       FoldLeft, MapThenFoldSet, Enqueueing!Unfolds, Enqueueing!Top, Max
<1>2. EnqueueInv(p, seq, 0, p)
  BY DEF EnqueueInv, Queued
<1>3. \A i \in 1 .. n : \A s : EnqueueInv(p, seq, i - 1, s) => EnqueueInv(p, seq, i, EnqueueOp(p, s, seq[i]))
  <2> TAKE i \in 1 .. n
  <2> TAKE s
  <2> HAVE EnqueueInv(p, seq, i - 1, s)
  <2>1. Queued(p, s, {seq[j] : j \in 1 .. i - 1})
    BY DEF EnqueueInv
  <2>2. s.queue \subseteq p.queue \cup S /\ seq[i] \in S /\ seq[i] \in s.all
    BY <1>0, <2>1 DEF Queued
  <2>3. \A u \in s.queue : u.from = seq[i].from /\ u.nonce = seq[i].nonce => u = seq[i]
    BY <2>2 DEF Distinct
  <2>4. Queued(s, EnqueueTx(s, seq[i]), {seq[i]})
    BY <2>1, <2>2, <2>3, EnqueueTxQueues DEF Queued
  <2>5. 1 .. i = (1 .. i - 1) \cup {i}
    BY <1>0
  <2>6. {seq[j] : j \in 1 .. i} = {seq[j] : j \in 1 .. i - 1} \cup {seq[i]}
    BY <2>5
  <2>7. Queued(p, EnqueueTx(s, seq[i]), {seq[j] : j \in 1 .. i})
    BY <2>1, <2>4, <2>6 DEF Queued
  <2> QED BY <2>7 DEF EnqueueInv, EnqueueOp
<1>4. EnqueueInv(p, seq, n, Enqueueing!Fold(p, p, seq))
  BY <1>0, <1>2, <1>3, Enqueueing!FoldInduction, Zenon
<1>5. {seq[j] : j \in 1 .. n} = S
  BY DEF Lists
<1> QED BY <1>1, <1>4, <1>5 DEF EnqueueInv

-----------------------------------------------------------------------------
(* What every operation keeps. *)

Indexed(p) ==
  /\ Formed(p)
  /\ p.all = p.pending \cup p.queue
  /\ p.pending \cap p.queue = {}
  /\ Distinct(p.all)

\* The state allows a transaction: payable, and its nonce is not used.
Valid(p, t) == t \in Payable[p.base] /\ ~ (t.nonce < StateNonce[p.base][t.from])

\* The pending transactions run from the state's nonce to the pending state's.
Runs(p) ==
  \A a \in Accounts :
    /\ StateNonce[p.base][a] <= p.nonce[a]
    /\ \A t \in p.pending : t.from = a => t.nonce < p.nonce[a]
    /\ \A n \in StateNonce[p.base][a] .. p.nonce[a] - 1 :
         \E t \in p.pending : t.from = a /\ t.nonce = n

\* PendingExecutable but for the queued transactions of the accounts in X,
\* which are still to be promoted.
Good(p, X) ==
  /\ \A t \in p.pending : Valid(p, t)
  /\ \A t \in p.queue : t.from \notin X => Valid(p, t)
  /\ ~ p.merged => /\ Runs(p)
                   /\ \A t \in p.queue : t.from \notin X => t.nonce # p.nonce[t.from]

\* From p to q transactions only leave, and only of other accounts than the
\* local ones unless the state does not allow them.
Moves(p, q) ==
  /\ Indexed(q) /\ q.all \subseteq p.all
  /\ q.locals = p.locals /\ q.base = p.base /\ q.merged = p.merged /\ q.journal = p.journal
  /\ \A t \in p.all \ q.all : t.from \in p.locals => ~ Valid(p, t)
  /\ \A X : Good(p, X) => Good(q, X)

\* Nothing moves.
LEMMA MovesRefl == ASSUME NEW p, Indexed(p) PROVE Moves(p, p)
BY DEF Moves

\* Moves compose.
LEMMA MovesTrans ==
  ASSUME NEW p, NEW q, NEW r, Moves(p, q), Moves(q, r) PROVE Moves(p, r)
<1>1. /\ Indexed(r) /\ r.all \subseteq p.all
      /\ r.locals = p.locals /\ r.base = p.base /\ r.merged = p.merged /\ r.journal = p.journal
      /\ \A X : Good(p, X) => Good(r, X)
  BY DEF Moves
<1>2. \A t : Valid(q, t) <=> Valid(p, t)
  BY DEF Moves, Valid
<1>3. \A t \in p.all \ r.all : t.from \in p.locals => ~ Valid(p, t)
  BY <1>2 DEF Moves
<1> QED BY <1>1, <1>3 DEF Moves

\* The two nonces of an account are natural numbers.
LEMMA NonceTypes ==
  ASSUME NEW p, Formed(p), NEW a \in Accounts
  PROVE  p.nonce[a] \in Nat /\ StateNonce[p.base][a] \in Nat
BY StateNonceNat DEF Formed

\* delete(pool.beats, addr) touches the heartbeats only.
LEMMA SettleIs ==
  ASSUME NEW p, Formed(p), NEW a
  PROVE  LET q == Settle(p, a) IN
           /\ Formed(q) /\ q.all = p.all /\ q.pending = p.pending /\ q.queue = p.queue
           /\ q.locals = p.locals /\ q.base = p.base /\ q.nonce = p.nonce /\ q.merged = p.merged
           /\ q.journal = p.journal
           /\ q.priced = p.priced /\ q.stales = p.stales
<1>1. Minus(p.beats, {a}) \in Seq(Accounts)
  BY MinusSeq DEF Formed
<1> QED BY <1>1 DEF Settle, Formed, Fields

\* The pending nonce is lowered to that of a removed transaction.
LEMMA LowerNonceIs ==
  ASSUME NEW p, Formed(p), NEW tx \in Txs
  PROVE  LET q == LowerNonce(p, tx) IN
           /\ Formed(q) /\ q.all = p.all /\ q.pending = p.pending /\ q.queue = p.queue
           /\ q.locals = p.locals /\ q.base = p.base /\ q.merged = p.merged /\ q.journal = p.journal
           /\ q.priced = p.priced /\ q.stales = p.stales
           /\ \A a \in Accounts : q.nonce[a] = IF a = tx.from /\ p.nonce[a] > tx.nonce
                                               THEN tx.nonce ELSE p.nonce[a]
<1>1. tx.from \in Accounts /\ tx.nonce \in Nat
  BY TxIs
<1> QED BY <1>1 DEF LowerNonce, Formed, Fields

\* A subset of a finite set is finite.
LEMMA SubsetFinite == ASSUME NEW S, IsFiniteSet(S), NEW T \in SUBSET S PROVE IsFiniteSet(T)
BY FS_Subset

\* Transactions of one account with different nonces.
LEMMA OneAccount ==
  ASSUME NEW S \in SUBSET Txs, IsFiniteSet(S), NEW a, \A t \in S : t.from = a, Distinct(S)
  PROVE  Lists(Rising(S), S) /\ Lists(Falling(S), S)
<1>1. \A t \in S : t.nonce \in Nat
  BY TxIs
<1>2. \A s, t \in S : s.nonce = t.nonce => s = t
  BY DEF Distinct
<1> QED BY <1>1, <1>2, RisingLists, FallingLists

-----------------------------------------------------------------------------
(* removeTx. *)

Removal(p, q, tx) ==
  /\ Formed(q) /\ q.all = p.all \ {tx}
  /\ q.locals = p.locals /\ q.base = p.base /\ q.merged = p.merged /\ q.journal = p.journal
  /\ tx \in p.pending =>
       /\ q.pending = p.pending \ ({tx} \cup Above(p.pending, tx))
       /\ q.queue = p.queue \cup Above(p.pending, tx)
       /\ \A a \in Accounts : q.nonce[a] = IF a = tx.from /\ p.nonce[a] > tx.nonce
                                           THEN tx.nonce ELSE p.nonce[a]
  /\ tx \notin p.pending =>
       q.pending = p.pending /\ q.queue = p.queue \ {tx} /\ q.nonce = p.nonce

\* removeTx takes out exactly tx: whatever stood behind it in the pending list
\* is queued again and none of it is refused.  Only with outofbound is the heap told.
LEMMA RemoveTxIs ==
  ASSUME NEW p, Indexed(p), NEW tx \in p.all, NEW outofbound \in BOOLEAN
  PROVE  LET q == RemoveTx(p, tx, outofbound) IN
           /\ Removal(p, q, tx)
           /\ outofbound /\ Covers(p) => Covers(q)
           /\ ~ outofbound => q.priced = p.priced /\ q.stales = p.stales
<1> DEFINE gone == IF outofbound THEN Drop(p, tx) ELSE [p EXCEPT !.all = @ \ {tx}]
           invalids == Above(p.pending, tx)
           cut == [gone EXCEPT !.pending = @ \ (At(@, tx) \cup invalids)]
           settled == Settle(cut, tx.from)
           demoted == EnqueueSeq(settled, Rising(invalids))
           q == RemoveTx(p, tx, outofbound)
<1>0. Formed(p) /\ tx \in Txs /\ Distinct(p.all) /\ p.all = p.pending \cup p.queue
  BY DEF Indexed, Formed
<1>1. /\ Formed(gone) /\ gone.all = p.all \ {tx} /\ SameLists(p, gone)
      /\ outofbound /\ Covers(p) => Covers(gone)
      /\ ~ outofbound => gone.priced = p.priced /\ gone.stales = p.stales
  <2>1. CASE outofbound
    BY <1>0, <2>1, DropDrops DEF Dropped
  <2>2. CASE ~ outofbound
    <3>1. /\ DOMAIN gone = Fields /\ gone.all = p.all \ {tx} /\ SameLists(p, gone)
          /\ gone.priced = p.priced /\ gone.stales = p.stales
      BY <1>0, <2>2 DEF Formed, Fields, SameLists
    <3>2. IsFiniteSet(gone.all)
      <4>1. p.all \ {tx} \in SUBSET p.all
        OBVIOUS
      <4> QED BY <1>0, <3>1, <4>1, SubsetFinite DEF Formed
    <3>3. Formed(gone)
      BY <1>0, <3>1, <3>2 DEF Formed, SameLists
    <3> QED BY <2>2, <3>1, <3>3
  <2> QED BY <2>1, <2>2
<1>2. /\ tx \in p.pending => At(p.pending, tx) = {tx}
      /\ tx \notin p.pending => At(p.pending, tx) = {} /\ At(p.queue, tx) = {tx}
  <2>1. /\ \A u \in At(p.pending, tx) : u = tx
        /\ \A u \in At(p.queue, tx) : u = tx
    BY <1>0 DEF At, Distinct
  <2>2. /\ tx \in p.pending => tx \in At(p.pending, tx)
        /\ tx \notin p.pending => tx \in At(p.queue, tx) /\ tx \notin At(p.pending, tx)
    BY <1>0 DEF At
  <2> QED BY <2>1, <2>2
<1>3. q = IF At(p.pending, tx) # {} THEN LowerNonce(demoted, tx)
          ELSE [gone EXCEPT !.queue = @ \ At(@, tx)]
  BY DEF RemoveTx
<1> HIDE DEF gone, q
<1>4. CASE tx \in p.pending
  <2>1. /\ DOMAIN cut = Fields /\ cut.pending = p.pending \ ({tx} \cup invalids)
        /\ cut.all = gone.all /\ cut.queue = p.queue /\ cut.beats = gone.beats
        /\ cut.locals = p.locals /\ cut.base = p.base /\ cut.nonce = p.nonce
        /\ cut.merged = p.merged /\ cut.journal = p.journal /\ cut.priced = gone.priced
        /\ cut.stales = gone.stales
    BY <1>1, <1>2, <1>4 DEF Formed, Fields, SameLists
  <2> HIDE DEF cut
  <2>2. IsFiniteSet(cut.pending) /\ cut.pending \in SUBSET Txs
    <3>1. cut.pending \in SUBSET p.pending /\ IsFiniteSet(p.pending) /\ p.pending \in SUBSET Txs
      BY <1>0, <2>1 DEF Formed
    <3> QED BY <3>1, SubsetFinite
  <2>3. Formed(cut)
    BY <1>1, <2>1, <2>2 DEF Formed, SameLists
  <2>4. /\ Formed(settled) /\ settled.all = cut.all /\ settled.pending = cut.pending
        /\ settled.queue = cut.queue /\ settled.locals = cut.locals /\ settled.base = cut.base
        /\ settled.nonce = cut.nonce /\ settled.merged = cut.merged /\ settled.journal = cut.journal
        /\ settled.priced = cut.priced /\ settled.stales = cut.stales
    BY <2>3, SettleIs
  <2> HIDE DEF settled
  <2>5. /\ invalids \in SUBSET p.pending /\ \A t \in invalids : t.from = tx.from
        /\ tx \notin invalids
    <3>1. tx.nonce \in Nat
      BY <1>0, TxIs
    <3> QED BY <3>1 DEF Above
  <2> HIDE DEF invalids
  <2>6. Lists(Rising(invalids), invalids)
    <3>1. invalids \in SUBSET Txs /\ IsFiniteSet(invalids) /\ Distinct(invalids)
      <4>1. IsFiniteSet(p.pending) /\ p.pending \in SUBSET Txs
        BY <1>0 DEF Formed
      <4> QED BY <1>0, <2>5, <4>1, SubsetFinite DEF Distinct
    <3> QED BY <2>5, <3>1, OneAccount
  <2>7. invalids \in SUBSET settled.all /\ Distinct(settled.queue \cup invalids)
    BY <1>0, <1>1, <2>1, <2>4, <2>5 DEF Distinct
  <2>8. Queued(settled, demoted, invalids)
    BY <2>4, <2>6, <2>7, EnqueueSeqQueues
  <2> HIDE DEF demoted
  <2>9. /\ Formed(q) /\ q.all = demoted.all /\ q.pending = demoted.pending /\ q.queue = demoted.queue
        /\ q.locals = demoted.locals /\ q.base = demoted.base /\ q.merged = demoted.merged
        /\ q.journal = demoted.journal
        /\ q.priced = demoted.priced /\ q.stales = demoted.stales
        /\ \A a \in Accounts : q.nonce[a] = IF a = tx.from /\ demoted.nonce[a] > tx.nonce
                                            THEN tx.nonce ELSE demoted.nonce[a]
    <3>1. q = LowerNonce(demoted, tx)
      BY <1>2, <1>3, <1>4
    <3> QED BY <1>0, <2>8, <3>1, LowerNonceIs DEF Queued
  <2>10. Removal(p, q, tx)
    BY <1>1, <1>4, <2>1, <2>4, <2>8, <2>9 DEF Removal, Queued, SameLists, invalids
  <2>11. q.priced = gone.priced /\ q.stales = gone.stales /\ q.all = gone.all
    BY <2>1, <2>4, <2>8, <2>9 DEF Queued
  <2>12. Covers(gone) => Covers(q)
    BY <2>11 DEF Covers
  <2> QED BY <1>1, <2>10, <2>11, <2>12 DEF q
<1>5. CASE tx \notin p.pending
  <2>1. q = [gone EXCEPT !.queue = @ \ At(@, tx)]
    BY <1>2, <1>3, <1>5
  <2>2. /\ DOMAIN q = Fields /\ q.pending = p.pending /\ q.queue = p.queue \ {tx}
        /\ q.all = gone.all /\ q.beats = gone.beats
        /\ q.locals = p.locals /\ q.base = p.base /\ q.nonce = p.nonce
        /\ q.merged = p.merged /\ q.journal = p.journal /\ q.priced = gone.priced /\ q.stales = gone.stales
    BY <1>1, <1>2, <1>5, <2>1 DEF Formed, Fields, SameLists
  <2>3. IsFiniteSet(q.queue) /\ q.queue \in SUBSET Txs
    <3>1. q.queue \in SUBSET p.queue /\ IsFiniteSet(p.queue) /\ p.queue \in SUBSET Txs
      BY <1>0, <2>2 DEF Formed
    <3> QED BY <3>1, SubsetFinite
  <2>4. Formed(q)
    BY <1>1, <2>2, <2>3 DEF Formed, SameLists
  <2>5. Removal(p, q, tx)
    BY <1>1, <1>5, <2>2, <2>4 DEF Removal
  <2>6. Covers(gone) => Covers(q)
    BY <2>2 DEF Covers
  <2> QED BY <1>1, <2>2, <2>5, <2>6 DEF q
<1> QED BY <1>4, <1>5

\* Removing a transaction of an account that is not local keeps the pending
\* lists without gaps, because the pending nonce is lowered with them.
LEMMA RemovalMoves ==
  ASSUME NEW p, Indexed(p), NEW q, NEW tx \in p.all, Removal(p, q, tx),
         tx.from \notin p.locals
  PROVE  Moves(p, q) /\ q.pending \subseteq p.pending
<1>0. /\ Formed(p) /\ p.all = p.pending \cup p.queue /\ p.pending \cap p.queue = {}
      /\ Distinct(p.all) /\ tx \in Txs /\ tx.nonce \in Nat /\ tx.from \in Accounts
      /\ p.all \in SUBSET Txs
  BY TxIs DEF Indexed, Formed
<1>1. \A t \in Above(p.pending, tx) : t \in p.pending /\ t # tx /\ t.from = tx.from /\ t.nonce > tx.nonce
  BY <1>0 DEF Above
<1>2. Indexed(q) /\ q.pending \subseteq p.pending
  <2>1. q.all = q.pending \cup q.queue /\ q.pending \cap q.queue = {} /\ q.pending \subseteq p.pending
    <3>1. CASE tx \in p.pending
      BY <1>0, <1>1, <3>1 DEF Removal
    <3>2. CASE tx \notin p.pending
      BY <1>0, <3>2 DEF Removal
    <3> QED BY <3>1, <3>2
  <2>2. Distinct(q.all)
    BY <1>0 DEF Removal, Distinct
  <2> QED BY <2>1, <2>2 DEF Indexed, Removal
<1>3. ASSUME NEW X, Good(p, X) PROVE Good(q, X)
  <2>1. \A t : Valid(p, t) <=> Valid(q, t)
    BY DEF Valid, Removal
  <2>2. \A t \in q.pending : Valid(q, t)
    BY <1>2, <1>3, <2>1 DEF Good
  <2>3. \A t \in q.queue : t \in p.queue \/ t \in p.pending
    BY <1>1 DEF Removal
  <2>4. \A t \in q.queue : t.from \notin X => Valid(q, t)
    BY <1>3, <2>1, <2>3 DEF Good
  <2>5. ASSUME ~ q.merged
        PROVE  Runs(q) /\ \A t \in q.queue : t.from \notin X => t.nonce # q.nonce[t.from]
    <3>0. /\ Runs(p) /\ \A t \in p.queue : t.from \notin X => t.nonce # p.nonce[t.from]
          /\ \A t \in p.pending : Valid(p, t)
      BY <1>3, <2>5 DEF Good, Removal
    <3>1. CASE tx \notin p.pending
      BY <3>0, <3>1 DEF Removal, Runs
    <3>2. CASE tx \in p.pending
      <4>0. \A a \in Accounts : p.nonce[a] \in Nat /\ StateNonce[p.base][a] \in Nat
        BY <1>0, NonceTypes
      <4>1. tx.nonce < p.nonce[tx.from] /\ StateNonce[p.base][tx.from] <= tx.nonce
        BY <1>0, <3>0, <3>2, <4>0 DEF Runs, Valid
      <4>2. \A a \in Accounts : q.nonce[a] = IF a = tx.from THEN tx.nonce ELSE p.nonce[a]
        BY <1>0, <3>2, <4>0, <4>1 DEF Removal
      <4>3. q.pending = p.pending \ ({tx} \cup Above(p.pending, tx)) /\ q.base = p.base
        BY <3>2 DEF Removal
      <4>4. \A t \in p.pending : t \in q.pending <=> (t.from # tx.from \/ t.nonce < tx.nonce)
        <5>1. \A t \in p.pending : t.nonce \in Nat /\ (t.from = tx.from /\ t.nonce = tx.nonce => t = tx)
          BY <1>0, TxIs DEF Distinct
        <5> QED BY <1>0, <4>3, <5>1 DEF Above
      <4>5. Runs(q)
        <5> SUFFICES ASSUME NEW a \in Accounts
                     PROVE  /\ StateNonce[p.base][a] <= q.nonce[a]
                            /\ \A t \in q.pending : t.from = a => t.nonce < q.nonce[a]
                            /\ \A n \in StateNonce[p.base][a] .. q.nonce[a] - 1 :
                                 \E t \in q.pending : t.from = a /\ t.nonce = n
          BY <4>3 DEF Runs
        <5>1. StateNonce[p.base][a] <= q.nonce[a]
          BY <3>0, <4>1, <4>2 DEF Runs
        <5>2. \A t \in q.pending : t.from = a => t.nonce < q.nonce[a]
          BY <1>2, <3>0, <4>2, <4>4 DEF Runs
        <5>3. ASSUME NEW n \in StateNonce[p.base][a] .. q.nonce[a] - 1
              PROVE  \E t \in q.pending : t.from = a /\ t.nonce = n
          <6>1. n \in StateNonce[p.base][a] .. p.nonce[a] - 1 /\ (a = tx.from => n < tx.nonce)
            BY <1>0, <4>0, <4>1, <4>2
          <6>2. PICK t \in p.pending : t.from = a /\ t.nonce = n
            BY <3>0, <6>1 DEF Runs
          <6> QED BY <4>4, <6>1, <6>2
        <5> QED BY <5>1, <5>2, <5>3
      <4>6. ASSUME NEW t \in q.queue, t.from \notin X PROVE t.nonce # q.nonce[t.from]
        <5>1. t \in p.all /\ t # tx /\ t.from \in Accounts
          BY <1>0, <2>3, TxIs, <1>1, <3>2 DEF Removal
        <5>2. CASE t.from = tx.from
          BY <1>0, <4>2, <5>1, <5>2 DEF Distinct
        <5>3. CASE t.from # tx.from
          <6>1. t \in p.queue
            BY <1>1, <3>2, <5>3 DEF Removal
          <6> QED BY <3>0, <4>2, <4>6, <5>1, <5>3, <6>1
        <5> QED BY <5>2, <5>3
      <4> QED BY <4>5, <4>6
    <3> QED BY <3>1, <3>2
  <2> QED BY <2>2, <2>4, <2>5 DEF Good
<1> QED BY <1>2, <1>3 DEF Moves, Removal

\* Operations that only take transactions out, with the heap kept in step.
Shrinks(p, q) ==
  /\ Moves(p, q) /\ q.pending \subseteq p.pending
  /\ Covers(p) => Covers(q)

\* Nothing is taken out.
LEMMA ShrinksRefl == ASSUME NEW p, Indexed(p) PROVE Shrinks(p, p)
BY MovesRefl DEF Shrinks

\* Shrinking composes.
LEMMA ShrinksTrans ==
  ASSUME NEW p, NEW q, NEW r, Shrinks(p, q), Shrinks(q, r) PROVE Shrinks(p, r)
BY MovesTrans DEF Shrinks

\* removeTx with outofbound.
LEMMA RemoveTxShrinks ==
  ASSUME NEW p, Indexed(p), NEW tx, tx.from \notin p.locals
  PROVE  Shrinks(p, RemoveTx(p, tx, TRUE))
<1>1. CASE tx \notin p.all
  <2>1. RemoveTx(p, tx, TRUE) = p
    BY <1>1, Zenon DEF RemoveTx
  <2> QED BY <2>1, ShrinksRefl
<1>2. CASE tx \in p.all
  BY <1>2, RemoveTxIs, RemovalMoves DEF Shrinks
<1> QED BY <1>1, <1>2

\* A loop of removeTx with outofbound.
RemoveOp(c, p, tx) == RemoveTx(p, tx, TRUE)
RemoveInv(c, seq, i, p) == Shrinks(c, p)
Removing == INSTANCE FoldRule WITH Op <- RemoveOp, Inv <- RemoveInv

\* LimitQueue's and the eviction's loops of removeTx.
LEMMA RemoveSeqShrinks ==
  ASSUME NEW p, Indexed(p), NEW seq, NEW n \in Nat, DOMAIN seq = 1 .. n,
         \A i \in 1 .. n : seq[i].from \notin p.locals
  PROVE  Shrinks(p, RemoveSeq(p, seq, TRUE))
<1>1. RemoveSeq(p, seq, TRUE) = Removing!Fold(p, p, seq)
  BY Zenon DEF RemoveSeq, Removing!Fold, RemoveOp,
       FoldLeft, MapThenFoldSet, Removing!Unfolds, Removing!Top, Max
<1>2. RemoveInv(p, seq, 0, p)
  BY ShrinksRefl DEF RemoveInv
<1>3. \A i \in 1 .. n : \A s : RemoveInv(p, seq, i - 1, s) => RemoveInv(p, seq, i, RemoveOp(p, s, seq[i]))
  <2> TAKE i \in 1 .. n
  <2> TAKE s
  <2> HAVE RemoveInv(p, seq, i - 1, s)
  <2>1. Shrinks(p, s) /\ Indexed(s) /\ seq[i].from \notin s.locals
    BY DEF RemoveInv, Shrinks, Moves
  <2>2. Shrinks(s, RemoveTx(s, seq[i], TRUE))
    BY <2>1, RemoveTxShrinks
  <2>3. Shrinks(p, RemoveTx(s, seq[i], TRUE))
    BY <2>1, <2>2, ShrinksTrans
  <2> QED BY <2>3 DEF RemoveInv, RemoveOp
<1>4. RemoveInv(p, seq, n, Removing!Fold(p, p, seq))
  BY <1>2, <1>3, Removing!FoldInduction, Zenon
<1> QED BY <1>1, <1>4 DEF RemoveInv

\* removeTx for transactions whose entries are out of the heap already.
Unpriced(p, q, G) ==
  /\ Moves(p, q) /\ q.pending \subseteq p.pending
  /\ q.all = p.all \ G
  /\ q.priced = p.priced /\ q.stales = p.stales

\* A loop of removeTx for transactions the heap has given up.
UnpriceOp(c, p, tx) == RemoveTx(p, tx, FALSE)
UnpriceInv(c, seq, i, p) == Unpriced(c, p, {seq[j] : j \in 1 .. i})
Unpricing == INSTANCE FoldRule WITH Op <- UnpriceOp, Inv <- UnpriceInv

\* add's and SetGasPrice's loops of removeTx.
LEMMA RemoveSeqUnprices ==
  ASSUME NEW p, Indexed(p), NEW seq, NEW n \in Nat, DOMAIN seq = 1 .. n,
         \A i \in 1 .. n : seq[i].from \notin p.locals
  PROVE  Unpriced(p, RemoveSeq(p, seq, FALSE), {seq[j] : j \in 1 .. n})
<1>1. RemoveSeq(p, seq, FALSE) = Unpricing!Fold(p, p, seq)
  BY Zenon DEF RemoveSeq, Unpricing!Fold, UnpriceOp,
       FoldLeft, MapThenFoldSet, Unpricing!Unfolds, Unpricing!Top, Max
<1>2. UnpriceInv(p, seq, 0, p)
  BY MovesRefl DEF UnpriceInv, Unpriced
<1>3. \A i \in 1 .. n : \A s : UnpriceInv(p, seq, i - 1, s) => UnpriceInv(p, seq, i, UnpriceOp(p, s, seq[i]))
  <2> TAKE i \in 1 .. n
  <2> TAKE s
  <2> HAVE UnpriceInv(p, seq, i - 1, s)
  <2> DEFINE q == RemoveTx(s, seq[i], FALSE)
  <2>1. /\ Unpriced(p, s, {seq[j] : j \in 1 .. i - 1}) /\ Indexed(s)
        /\ seq[i].from \notin s.locals
    BY DEF UnpriceInv, Unpriced, Moves
  <2>2. Unpriced(s, q, {seq[i]})
    <3>1. CASE seq[i] \notin s.all
      <4>1. q = s
        BY <3>1, Zenon DEF RemoveTx
      <4> HIDE DEF q
      <4>2. s.all = s.all \ {seq[i]}
        BY <3>1
      <4> QED BY <2>1, <4>1, <4>2, MovesRefl DEF Unpriced
    <3>2. CASE seq[i] \in s.all
      <4>1. Removal(s, q, seq[i]) /\ q.priced = s.priced /\ q.stales = s.stales
        BY <2>1, <3>2, RemoveTxIs
      <4> HIDE DEF q
      <4> QED BY <2>1, <3>2, <4>1, RemovalMoves DEF Unpriced, Removal
    <3> QED BY <3>1, <3>2
  <2> HIDE DEF q
  <2>3. 1 .. i = (1 .. i - 1) \cup {i}
    OBVIOUS
  <2>4. {seq[j] : j \in 1 .. i} = {seq[j] : j \in 1 .. i - 1} \cup {seq[i]}
    BY <2>3
  <2>5. Unpriced(p, q, {seq[j] : j \in 1 .. i})
    BY <2>1, <2>2, <2>4, MovesTrans DEF Unpriced
  <2> QED BY <2>5 DEF UnpriceInv, UnpriceOp, q
<1>4. UnpriceInv(p, seq, n, Unpricing!Fold(p, p, seq))
  BY <1>2, <1>3, Unpricing!FoldInduction, Zenon
<1> QED BY <1>1, <1>4 DEF UnpriceInv

-----------------------------------------------------------------------------
(* Cap and Discard. *)

LEMMA PoppedLists ==
  ASSUME NEW S, Heap(S), NEW order \in Orders
  PROVE  /\ Lists(Popped(S, order), S)
         /\ \A i, j \in 1 .. Cardinality(S) :
              i < j => Popped(S, order)[i] # Popped(S, order)[j]
<1> DEFINE Before(d, e) == Cheaper(d[1], e[1], order) \/ (d[1] = e[1] /\ d[2] > e[2])
           R == {e \in S \X S : Before(e[1], e[2])}
           seq == Popped(S, order)
<1>0. IsFiniteSet(S) /\ S \in SUBSET (Txs \X Nat)
  BY DEF Heap
<1>1. \A x, y \in S : <<x, y>> \in R <=> Before(x, y)
  OBVIOUS
<1>2. \A x \in S : {y \in S : <<y, x>> \in R} = {y \in S : Before(y, x)}
  BY <1>1
<1>3. /\ \A x \in S : <<x, x>> \notin R
      /\ \A x, y, z \in S : <<x, y>> \in R /\ <<y, z>> \in R => <<x, z>> \in R
      /\ \A x, y \in S : x # y => <<x, y>> \in R \/ <<y, x>> \in R
  <2>1. \A e \in S : e = <<e[1], e[2]>> /\ e[1] \in Txs /\ e[2] \in Nat
    BY <1>0
  <2>2. \A t \in Txs : t.nonce \in Nat /\ t.price \in Nat /\ Position(order, t.from) \in Nat
    BY TxIs, PositionsDiffer
  <2>3. ASSUME NEW s \in Txs, NEW t \in Txs, s.price = t.price, s.nonce = t.nonce,
               Position(order, s.from) = Position(order, t.from)
        PROVE  s = t
    <3>1. s.from = t.from
      BY <2>3, TxIs, PositionsDiffer
    <3>2. s \in [from : Accounts, nonce : Nat, price : Nat] /\ t \in [from : Accounts, nonce : Nat, price : Nat]
      BY PoolAssumption
    <3> QED BY <2>3, <3>1, <3>2
  <2> HIDE DEF R
  <2>4. \A x \in S : ~ Before(x, x)
    BY <2>1, <2>2 DEF Cheaper
  <2>5. \A x, y, z \in S : Before(x, y) /\ Before(y, z) => Before(x, z)
    BY <2>1, <2>2 DEF Cheaper
  <2>6. \A x, y \in S : x # y => Before(x, y) \/ Before(y, x)
    BY <2>1, <2>2, <2>3 DEF Cheaper
  <2> QED BY <1>1, <2>4, <2>5, <2>6, Zenon
<1> HIDE DEF R
<1>4. /\ DOMAIN seq = 1 .. Cardinality(S)
      /\ \A i \in 1 .. Cardinality(S) :
           seq[i] = CHOOSE x \in S : Cardinality({y \in S : Before(y, x)}) = i - 1
  BY Zenon DEF Popped, Sorted
<1> HIDE DEF seq
<1>5. \A i \in 1 .. Cardinality(S) :
        (\E x \in S : Cardinality({y \in S : Before(y, x)}) = i - 1)
        => seq[i] \in S /\ Cardinality({y \in S : Before(y, seq[i])}) = i - 1
  BY <1>4, Zenon
<1> HIDE DEF Before
<1>6. \A i \in 1 .. Cardinality(S) :
        (\E x \in S : Cardinality({y \in S : <<y, x>> \in R}) = i - 1)
        => seq[i] \in S /\ Cardinality({y \in S : <<y, seq[i]>> \in R}) = i - 1
  BY <1>2, <1>5, Zenon
<1>7. /\ Lists(seq, S)
      /\ \A i, j \in 1 .. Cardinality(S) : i < j => <<seq[i], seq[j]>> \in R
  BY <1>0, <1>3, <1>4, <1>6, RankedLists, Zenon
<1>8. \A i \in 1 .. Cardinality(S) : seq[i] \in S
  BY <1>7 DEF Lists
<1> QED BY <1>3, <1>7, <1>8, Zenon DEF seq

\* What has been culled from pool p, when the entries seq[i + 1], ... are still
\* to come: live transactions taken out for every entry that is gone, or the
\* entry was stale.
Culled(p, seq, i, s) ==
  /\ DOMAIN s = {"p", "drop", "stop"}
  /\ Formed(s.p) /\ SameLists(p, s.p) /\ s.p.all = p.all
  /\ s.drop \in Seq(Txs)
  /\ \A j \in 1 .. Len(s.drop) : s.drop[j] \in p.all /\ s.drop[j].from \notin p.locals
  /\ s.p.priced \subseteq p.priced
  /\ \A j \in i + 1 .. Cardinality(p.priced) : seq[j] \in s.p.priced
  /\ Cardinality(s.p.priced) + Len(s.drop) - s.p.stales <= Cardinality(p.priced) - p.stales
  /\ \A e \in p.priced \ s.p.priced :
       e[1] \in p.all => \E j \in 1 .. Len(s.drop) : s.drop[j] = e[1]

\* The pops of Cap and Discard.
CullOp(c, s, e) == CullStep(c, s, e)
CullInv(c, seq, i, s) ==
  /\ Culled(c.pool, seq, i, s)
  /\ c.pool.all \subseteq c.enough => s.drop = <<>>
Culling == INSTANCE FoldRule WITH Op <- CullOp, Inv <- CullInv

\* One pop: a stale entry lowers the count, a live one joins the drops, a local
\* one is put back.
LEMMA CullStepCulls ==
  ASSUME NEW c, Formed(c.pool), NEW seq, NEW n \in Nat, n = Cardinality(c.pool.priced),
         DOMAIN seq = 1 .. n, \A i \in 1 .. n : seq[i] \in c.pool.priced,
         \A i, j \in 1 .. n : i < j => seq[i] # seq[j],
         NEW i \in 1 .. n, NEW s, CullInv(c, seq, i - 1, s)
  PROVE  CullInv(c, seq, i, CullStep(c, s, seq[i]))
<1> DEFINE p == c.pool
           e == seq[i]
           t == e[1]
           r == CullStep(c, s, e)
<1> HIDE DEF p
<1>0. Culled(p, seq, i - 1, s) /\ (p.all \subseteq c.enough => s.drop = <<>>) /\ Formed(p)
  BY DEF CullInv, p
<1>1. e \in s.p.priced /\ i \in Nat /\ (\A j \in i + 1 .. n : seq[j] \in s.p.priced /\ seq[j] # e)
  BY <1>0 DEF Culled, p
<1>2. Heap(s.p.priced) /\ Heap(p.priced) /\ s.p.stales \in Int /\ p.stales \in Int /\ DOMAIN s.p = Fields
  BY <1>0 DEF Culled, Formed
<1>3. /\ Cardinality(s.p.priced) \in Nat /\ Cardinality(p.priced) \in Nat
      /\ Heap(s.p.priced \ {e}) /\ Cardinality(s.p.priced \ {e}) = Cardinality(s.p.priced) - 1
  BY <1>1, <1>2, HeapSize, HeapRemove
<1>4. t \in Txs
  BY <1>1, <1>2 DEF Heap
<1>5. i - 1 + 1 = i /\ Len(s.drop) \in Nat
  BY <1>0 DEF Culled
<1>10. Formed(s.p) /\ SameLists(p, s.p) /\ s.p.all = p.all
  BY <1>0 DEF Culled
<1>11. Cardinality(s.p.priced) + Len(s.drop) - s.p.stales <= Cardinality(p.priced) - p.stales
  BY <1>0 DEF Culled
<1> HIDE DEF e
<1>6. CASE s.stop \/ Len(s.drop) = c.count \/ t \in c.enough
  <2>1. r = [s EXCEPT !.stop = TRUE]
    BY <1>6 DEF CullStep
  <2> HIDE DEF r
  <2>2. DOMAIN r = {"p", "drop", "stop"} /\ r.p = s.p /\ r.drop = s.drop
    BY <1>0, <2>1 DEF Culled
  <2>3. Culled(p, seq, i, r)
    BY <1>0, <1>1, <2>2 DEF Culled, p
  <2> QED BY <1>0, <2>2, <2>3 DEF CullInv, p, r, e
<1>7. CASE ~(s.stop \/ Len(s.drop) = c.count \/ t \in c.enough) /\ t \notin p.all
  <2>1. r = [s EXCEPT !.p.priced = @ \ {e}, !.p.stales = @ - 1]
    BY <1>7 DEF CullStep, p
  <2> HIDE DEF r
  <2>2. /\ DOMAIN r = {"p", "drop", "stop"} /\ r.drop = s.drop
        /\ DOMAIN r.p = Fields /\ r.p.all = s.p.all /\ SameLists(s.p, r.p)
        /\ r.p.priced = s.p.priced \ {e} /\ r.p.stales = s.p.stales - 1
    BY <1>0, <1>2, <2>1 DEF Culled, Fields, SameLists
  <2>3. Formed(r.p)
    <3>1. Heap(r.p.priced) /\ r.p.stales \in Int
      BY <1>2, <1>3, <2>2
    <3> QED BY <1>10, <2>2, <3>1 DEF Formed, SameLists
  <2>4. /\ SameLists(p, r.p) /\ r.p.all = p.all /\ r.p.priced \subseteq p.priced
        /\ \A j \in i + 1 .. n : seq[j] \in r.p.priced
    BY <1>0, <1>1, <2>2 DEF Culled, SameLists
  <2>5. Cardinality(r.p.priced) + Len(r.drop) - r.p.stales <= Cardinality(p.priced) - p.stales
    <3> DEFINE x == Cardinality(s.p.priced)
               y == Len(s.drop)
               z == s.p.stales
               w == Cardinality(p.priced) - p.stales
    <3>1. x \in Nat /\ y \in Nat /\ z \in Int /\ w \in Int /\ x + y - z <= w
      BY <1>11, <1>2, <1>3, <1>5
    <3>2. Cardinality(r.p.priced) = x - 1 /\ Len(r.drop) = y /\ r.p.stales = z - 1
      BY <1>3, <2>2
    <3> HIDE DEF x, y, z, w
    <3>3. x - 1 + y - (z - 1) <= w
      BY <3>1
    <3> QED BY <3>2, <3>3 DEF w
  <2>6. \A d \in p.priced \ r.p.priced :
          d[1] \in p.all => \E j \in 1 .. Len(r.drop) : r.drop[j] = d[1]
    BY <1>0, <1>7, <2>2 DEF Culled
  <2>7. /\ r.drop \in Seq(Txs)
        /\ \A j \in 1 .. Len(r.drop) : r.drop[j] \in p.all /\ r.drop[j].from \notin p.locals
    BY <1>0, <2>2 DEF Culled
  <2>8. Culled(p, seq, i, r)
    BY <2>2, <2>3, <2>4, <2>5, <2>6, <2>7 DEF Culled, p
  <2> QED BY <1>0, <2>2, <2>8 DEF CullInv, p, r, e
<1>8. CASE /\ ~(s.stop \/ Len(s.drop) = c.count \/ t \in c.enough) /\ t \in p.all
           /\ t.from \in p.locals
  <2>1. r = s
    BY <1>8 DEF CullStep, p
  <2>2. Culled(p, seq, i, s)
    BY <1>0, <1>1 DEF Culled, p
  <2> QED BY <1>0, <2>1, <2>2 DEF CullInv, p, e
<1>9. CASE /\ ~(s.stop \/ Len(s.drop) = c.count \/ t \in c.enough) /\ t \in p.all
           /\ t.from \notin p.locals
  <2>1. r = [s EXCEPT !.p.priced = @ \ {e}, !.drop = Append(@, t)]
    BY <1>9 DEF CullStep, p
  <2> HIDE DEF r
  <2>2. /\ DOMAIN r = {"p", "drop", "stop"} /\ r.drop = Append(s.drop, t)
        /\ DOMAIN r.p = Fields /\ r.p.all = s.p.all /\ SameLists(s.p, r.p)
        /\ r.p.priced = s.p.priced \ {e} /\ r.p.stales = s.p.stales
    BY <1>0, <1>2, <2>1 DEF Culled, Fields, SameLists
  <2> HIDE DEF t
  <2>3. Formed(r.p)
    <3>1. Heap(r.p.priced) /\ r.p.stales \in Int
      BY <1>2, <1>3, <2>2
    <3> QED BY <1>10, <2>2, <3>1 DEF Formed, SameLists
  <2>4. /\ SameLists(p, r.p) /\ r.p.all = p.all /\ r.p.priced \subseteq p.priced
        /\ \A j \in i + 1 .. n : seq[j] \in r.p.priced
    BY <1>0, <1>1, <2>2 DEF Culled, SameLists
  <2>9. s.drop \in Seq(Txs)
    BY <1>0 DEF Culled
  <2>7. /\ r.drop \in Seq(Txs) /\ Len(r.drop) = Len(s.drop) + 1
        /\ \A j \in 1 .. Len(s.drop) : r.drop[j] = s.drop[j]
        /\ r.drop[Len(s.drop) + 1] = t
    BY <1>4, <2>2, <2>9
  <2>5. Cardinality(r.p.priced) + Len(r.drop) - r.p.stales <= Cardinality(p.priced) - p.stales
    <3> DEFINE x == Cardinality(s.p.priced)
               y == Len(s.drop)
               z == s.p.stales
               w == Cardinality(p.priced) - p.stales
    <3>1. x \in Nat /\ y \in Nat /\ z \in Int /\ w \in Int /\ x + y - z <= w
      BY <1>11, <1>2, <1>3, <1>5
    <3>2. Cardinality(r.p.priced) = x - 1 /\ Len(r.drop) = y + 1 /\ r.p.stales = z
      BY <1>3, <2>2, <2>7
    <3> HIDE DEF x, y, z, w
    <3>3. x - 1 + (y + 1) - z <= w
      BY <3>1
    <3> QED BY <3>2, <3>3 DEF w
  <2>6. ASSUME NEW d \in p.priced \ r.p.priced, d[1] \in p.all
        PROVE  \E j \in 1 .. Len(r.drop) : r.drop[j] = d[1]
    <3>1. CASE d \in s.p.priced
      <4>1. d[1] = t /\ Len(s.drop) + 1 \in 1 .. Len(r.drop)
        BY <1>5, <2>2, <2>6, <2>7, <3>1 DEF t
      <4> QED BY <2>7, <4>1
    <3>2. CASE d \notin s.p.priced
      <4>1. PICK j \in 1 .. Len(s.drop) : s.drop[j] = d[1]
        BY <1>0, <2>6, <3>2 DEF Culled
      <4>2. j \in 1 .. Len(r.drop)
        BY <1>5, <2>7
      <4> QED BY <2>7, <4>1, <4>2
    <3> QED BY <3>1, <3>2
  <2>10. \A j \in 1 .. Len(r.drop) : r.drop[j] \in p.all /\ r.drop[j].from \notin p.locals
    <3> TAKE j \in 1 .. Len(r.drop)
    <3>1. CASE j = Len(s.drop) + 1
      BY <1>9, <2>7, <3>1
    <3>2. CASE j # Len(s.drop) + 1
      <4>1. j \in 1 .. Len(s.drop)
        BY <1>5, <2>7, <3>2
      <4> QED BY <1>0, <2>7, <4>1 DEF Culled
    <3> QED BY <3>1, <3>2
  <2>8. Culled(p, seq, i, r)
    BY <2>2, <2>3, <2>4, <2>5, <2>6, <2>7, <2>10 DEF Culled, p
  <2>11. ~(p.all \subseteq c.enough)
    BY <1>9
  <2> QED BY <2>8, <2>11 DEF CullInv, p, r, e
<1> QED BY <1>6, <1>7, <1>8, <1>9

\* All pops; with every pooled transaction enough only stale entries go.
LEMMA CullCulls ==
  ASSUME NEW p, Formed(p), NEW order \in Orders, NEW count, NEW enough
  PROVE  LET r == Cull(p, order, count, enough) IN
           /\ Culled(p, Popped(p.priced, order), Cardinality(p.priced), r)
           /\ p.all \subseteq enough => r.drop = <<>>
<1> DEFINE c == [pool |-> p, count |-> count, enough |-> enough]
           base == [p |-> p, drop |-> <<>>, stop |-> FALSE]
           seq == Popped(p.priced, order)
           n == Cardinality(p.priced)
           r == Cull(p, order, count, enough)
<1>0. c.pool = p /\ c.enough = enough
  OBVIOUS
<1>1. r = Culling!Fold(c, base, seq)
  BY Zenon DEF Cull, Culling!Fold, CullOp,
       FoldLeft, MapThenFoldSet, Culling!Unfolds, Culling!Top, Max
<1>2. Heap(p.priced)
  BY DEF Formed
<1>3. /\ n \in Nat /\ DOMAIN seq = 1 .. n /\ \A i \in 1 .. n : seq[i] \in p.priced
      /\ \A i, j \in 1 .. n : i < j => seq[i] # seq[j]
  BY <1>2, PoppedLists DEF Lists
<1>4. CullInv(c, seq, 0, base)
  <2>1. base.p = p /\ base.drop = <<>> /\ DOMAIN base = {"p", "drop", "stop"}
    OBVIOUS
  <2> HIDE DEF base, seq
  <2>2. Culled(p, seq, 0, base)
    BY <1>3, <2>1 DEF Culled, SameLists, Formed
  <2> QED BY <1>0, <2>1, <2>2 DEF CullInv
<1> HIDE DEF c, base, seq, r
<1>5. \A i \in 1 .. n : \A s : CullInv(c, seq, i - 1, s) => CullInv(c, seq, i, CullOp(c, s, seq[i]))
  <2> TAKE i \in 1 .. n
  <2> TAKE s
  <2> HAVE CullInv(c, seq, i - 1, s)
  <2>1. CullInv(c, seq, i, CullStep(c, s, seq[i]))
    BY <1>0, <1>3, CullStepCulls
  <2> QED BY <2>1 DEF CullOp
<1>6. CullInv(c, seq, n, Culling!Fold(c, base, seq))
  BY <1>3, <1>4, <1>5, Culling!FoldInduction, Zenon
<1> QED BY <1>0, <1>1, <1>6 DEF CullInv, r, seq

\* The heap does not matter to the lists.
LEMMA SameListsMoves ==
  ASSUME NEW p, Indexed(p), NEW q, Formed(q), SameLists(p, q), q.all = p.all
  PROVE  Moves(p, q) /\ q.pending = p.pending
<1>1. Indexed(q) /\ q.pending = p.pending
  BY DEF Indexed, SameLists
<1>2. \A X : Good(p, X) => Good(q, X)
  BY DEF Good, Valid, Runs, SameLists
<1> QED BY <1>1, <1>2 DEF Moves, SameLists

\* Underpriced pops stale entries and nothing else.
LEMMA PopStaleShrinks ==
  ASSUME NEW p, Indexed(p), NEW order \in Orders
  PROVE  Shrinks(p, PopStale(p, order)) /\ PopStale(p, order).all = p.all
<1> DEFINE r == Cull(p, order, 1, p.all)
           q == PopStale(p, order)
<1>0. Formed(p)
  BY DEF Indexed
<1>1. /\ Culled(p, Popped(p.priced, order), Cardinality(p.priced), r)
      /\ r.drop = <<>>
  BY <1>0, CullCulls
<1>2. q = r.p
  BY DEF PopStale
<1> HIDE DEF r, q
<1>3. Formed(q) /\ SameLists(p, q) /\ q.all = p.all
  BY <1>1, <1>2 DEF Culled
<1>4. Moves(p, q) /\ q.pending = p.pending
  BY <1>3, SameListsMoves
<1>5. Covers(p) => Covers(q)
  <2> HAVE Covers(p)
  <2>1. \A t \in q.all : EntriesOf(q.priced, t) # {}
    <3> TAKE t \in q.all
    <3>1. PICK e \in p.priced : e[1] = t
      BY <1>3 DEF Covers, EntriesOf
    <3>2. Len(r.drop) = 0 /\ e \in r.p.priced
      BY <1>1, <1>3, <3>1 DEF Culled
    <3> QED BY <1>2, <3>1, <3>2 DEF EntriesOf
  <2>2. Cardinality(q.priced) + 0 - q.stales <= Cardinality(p.priced) - p.stales
    BY <1>1, <1>2 DEF Culled
  <2>3. /\ Cardinality(q.priced) \in Nat /\ Cardinality(p.priced) \in Nat /\ Cardinality(p.all) \in Nat
        /\ q.stales \in Int /\ p.stales \in Int
    BY <1>0, <1>3, HeapSize, FS_CardinalityType DEF Formed
  <2>4. Cardinality(q.priced) <= q.stales + Cardinality(q.all)
    BY <1>3, <2>2, <2>3 DEF Covers
  <2> QED BY <2>1, <2>4, Zenon DEF Covers
<1> QED BY <1>3, <1>4, <1>5 DEF Shrinks, q

\* What Cap or Discard takes out of the heap is removed from the pool.
LEMMA CullRemoves ==
  ASSUME NEW p, Indexed(p), NEW order \in Orders, NEW count, NEW enough,
         NEW x, Formed(x), LET r == Cull(p, order, count, enough).p IN
           SameLists(r, x) /\ x.all = r.all /\ x.priced = r.priced /\ x.stales = r.stales
  PROVE  Shrinks(p, RemoveSeq(x, Cull(p, order, count, enough).drop, FALSE))
<1> DEFINE r == Cull(p, order, count, enough)
           n == Len(r.drop)
           G == {r.drop[j] : j \in 1 .. n}
           q == RemoveSeq(x, r.drop, FALSE)
<1>0. Formed(p)
  BY DEF Indexed
<1>1. Culled(p, Popped(p.priced, order), Cardinality(p.priced), r)
  BY <1>0, CullCulls
<1> HIDE DEF r
<1>2. SameLists(p, x) /\ x.all = p.all /\ x.priced = r.p.priced /\ x.stales = r.p.stales
  BY <1>1 DEF Culled, SameLists, r
<1>3. Moves(p, x) /\ x.pending = p.pending
  BY <1>2, SameListsMoves
<1>4. n \in Nat /\ DOMAIN r.drop = 1 .. n /\ \A i \in 1 .. n : r.drop[i].from \notin x.locals
  BY <1>1, <1>2 DEF Culled, SameLists
<1>5. Unpriced(x, q, G)
  BY <1>3, <1>4, RemoveSeqUnprices, ZenonT(60) DEF Moves
<1>6. Moves(p, q) /\ q.pending \subseteq p.pending
  BY <1>3, <1>5, MovesTrans DEF Unpriced
<1> HIDE DEF q
<1>7. q.all = p.all \ G /\ q.priced = r.p.priced /\ q.stales = r.p.stales
  BY <1>2, <1>5 DEF Unpriced
<1>8. Covers(p) => Covers(q)
  <2> HAVE Covers(p)
  <2>1. \A t \in q.all : EntriesOf(q.priced, t) # {}
    <3> TAKE t \in q.all
    <3>1. PICK e \in p.priced : e[1] = t
      BY <1>7 DEF Covers, EntriesOf
    <3>2. t \notin G /\ t \in p.all
      BY <1>7
    <3>3. e \in r.p.priced
      BY <1>1, <3>1, <3>2 DEF Culled
    <3> QED BY <1>7, <3>1, <3>3 DEF EntriesOf
  <2>2. IsFiniteSet(G) /\ Cardinality(G) \in Nat /\ Cardinality(G) <= n
    <3>0. r.drop \in Seq(Txs)
      BY <1>1 DEF Culled
    <3>1. r.drop \in Surjection(1 .. n, G)
      BY <1>4, <3>0 DEF Surjection
    <3>2. IsFiniteSet(1 .. n) /\ Cardinality(1 .. n) = n
      <4>1. IsFiniteSet(1 .. n) /\ Cardinality(1 .. n) = IF 1 > n THEN 0 ELSE n - 1 + 1
        BY <1>4, FS_Interval, SMTT(40)
      <4> QED BY <1>4, <4>1
    <3> HIDE DEF n, G
    <3>3. IsFiniteSet(G) /\ Cardinality(G) <= Cardinality(1 .. n)
      BY <3>1, <3>2, FS_Surjection
    <3> QED BY <3>2, <3>3, FS_CardinalityType
  <2> HIDE DEF G, n
  <2>3. /\ Cardinality(p.all \cap G) \in Nat /\ Cardinality(p.all \cap G) <= Cardinality(G)
        /\ Cardinality(q.all) = Cardinality(p.all) - Cardinality(p.all \cap G)
    <3>1. IsFiniteSet(p.all) /\ IsFiniteSet(p.all \cap G) /\ Cardinality(p.all \cap G) <= Cardinality(G)
      BY <1>0, <2>2, FS_Intersection DEF Formed
    <3>2. Cardinality(p.all \ G) = Cardinality(p.all) - Cardinality(p.all \cap G)
      BY <3>1, FS_Difference
    <3> QED BY <1>7, <3>1, <3>2, FS_CardinalityType
  <2>4. /\ Cardinality(q.priced) \in Nat /\ Cardinality(p.priced) \in Nat /\ Cardinality(p.all) \in Nat
        /\ q.stales \in Int /\ p.stales \in Int
    BY <1>0, <1>6, HeapSize, FS_CardinalityType DEF Moves, Indexed, Formed
  <2>5. Cardinality(q.priced) + n - q.stales <= Cardinality(p.priced) - p.stales
    BY <1>1, <1>7 DEF Culled, n
  <2>6. Cardinality(p.priced) <= p.stales + Cardinality(p.all)
    BY DEF Covers
  <2>7. n \in Nat
    BY <1>4
  <2>8. Cardinality(q.priced) <= q.stales + Cardinality(q.all)
    BY <2>2, <2>3, <2>4, <2>5, <2>6, <2>7
  <2> QED BY <2>1, <2>8, Zenon DEF Covers
<1> QED BY <1>6, <1>8 DEF Shrinks, q, r

-----------------------------------------------------------------------------
(* promoteExecutables, account by account. *)

\* S leaves the queue and the pool.
OffQueue(p, q, S) ==
  /\ Formed(q) /\ q.all = p.all \ S /\ q.queue = p.queue \ S
  /\ q.pending = p.pending /\ q.beats = p.beats /\ q.nonce = p.nonce
  /\ q.locals = p.locals /\ q.base = p.base /\ q.merged = p.merged /\ q.journal = p.journal

\* Transactions leave the queue and the lookup together.
LEMMA DropFromQueue ==
  ASSUME NEW p, Indexed(p), NEW S \in SUBSET p.queue, NEW seq, Lists(seq, S),
         \A t \in S : t.from \in p.locals => ~ Valid(p, t)
  PROVE  LET q == DropSeq([p EXCEPT !.queue = @ \ S], seq) IN
           OffQueue(p, q, S) /\ Shrinks(p, q)
<1> DEFINE r == [p EXCEPT !.queue = @ \ S]
           q == DropSeq(r, seq)
<1>0. /\ Formed(p) /\ p.all = p.pending \cup p.queue /\ p.pending \cap p.queue = {}
      /\ Distinct(p.all)
  BY DEF Indexed
<1>1. /\ DOMAIN r = Fields /\ r.queue = p.queue \ S /\ r.all = p.all /\ r.pending = p.pending
      /\ r.beats = p.beats /\ r.nonce = p.nonce /\ r.locals = p.locals /\ r.base = p.base
      /\ r.merged = p.merged /\ r.journal = p.journal /\ r.priced = p.priced /\ r.stales = p.stales
  BY <1>0 DEF Formed, Fields
<1> HIDE DEF r
<1>2. IsFiniteSet(r.queue)
  <2>1. IsFiniteSet(p.queue) /\ r.queue \in SUBSET p.queue
    BY <1>0, <1>1 DEF Formed
  <2> QED BY <2>1, SubsetFinite
<1>3. Formed(r)
  BY <1>0, <1>1, <1>2 DEF Formed
<1>4. Dropped(r, q, S)
  BY <1>3, DropListed
<1> HIDE DEF q
<1>5. OffQueue(p, q, S)
  BY <1>1, <1>4 DEF Dropped, SameLists, OffQueue
<1>6. Indexed(q)
  BY <1>0, <1>5 DEF Indexed, OffQueue, Distinct
<1>7. Covers(p) => Covers(q)
  BY <1>1, <1>4 DEF Dropped, Covers
<1>8. \A X : Good(p, X) => Good(q, X)
  BY <1>5 DEF OffQueue, Good, Valid, Runs
<1>9. Moves(p, q)
  BY <1>5, <1>6, <1>8 DEF Moves, OffQueue
<1> QED BY <1>5, <1>7, <1>9 DEF Shrinks, OffQueue, q, r

\* The queued transactions of an account.
LEMMA QueuedOf ==
  ASSUME NEW p, Indexed(p), NEW a, NEW S \in SUBSET Of(p.queue, a)
  PROVE  /\ S \in SUBSET p.queue /\ \A t \in S : t.from = a
         /\ Lists(Rising(S), S) /\ Lists(Falling(S), S)
         /\ S \in SUBSET Txs /\ IsFiniteSet(S) /\ Distinct(S)
<1>1. S \in SUBSET p.queue /\ \A t \in S : t.from = a
  BY DEF Of
<1>2. IsFiniteSet(p.queue) /\ p.queue \in SUBSET Txs /\ p.queue \in SUBSET p.all /\ Distinct(p.all)
  BY DEF Indexed, Formed
<1>3. S \in SUBSET Txs /\ IsFiniteSet(S) /\ Distinct(S)
  BY <1>1, <1>2, SubsetFinite DEF Distinct
<1> QED BY <1>1, <1>3, OneAccount

\* list.Forward in promoteExecutables.
LEMMA ForwardQueuedIs ==
  ASSUME NEW p, Indexed(p), NEW a
  PROVE  LET q == ForwardQueued(p, a) IN
           OffQueue(p, q, Old(p, Of(p.queue, a))) /\ Shrinks(p, q)
<1> DEFINE S == Old(p, Of(p.queue, a))
<1>1. S \in SUBSET Of(p.queue, a) /\ \A t \in S : ~ Valid(p, t)
  BY DEF Old, Valid
<1> HIDE DEF S
<1>2. S \in SUBSET p.queue /\ Lists(Rising(S), S)
  BY <1>1, QueuedOf
<1>3. ForwardQueued(p, a) = DropSeq([p EXCEPT !.queue = @ \ S], Rising(S))
  BY DEF ForwardQueued, DropQueued, S
<1> QED BY <1>1, <1>2, <1>3, DropFromQueue DEF S

\* list.Filter in promoteExecutables.
LEMMA FilterQueuedIs ==
  ASSUME NEW p, Indexed(p), NEW a
  PROVE  LET q == FilterQueued(p, a) IN
           OffQueue(p, q, Unpayable(p, Of(p.queue, a))) /\ Shrinks(p, q)
<1> DEFINE S == Unpayable(p, Of(p.queue, a))
<1>1. S \in SUBSET Of(p.queue, a) /\ \A t \in S : ~ Valid(p, t)
  BY DEF Unpayable, Valid
<1> HIDE DEF S
<1>2. S \in SUBSET p.queue /\ Lists(Rising(S), S)
  BY <1>1, QueuedOf
<1>3. FilterQueued(p, a) = DropSeq([p EXCEPT !.queue = @ \ S], Rising(S))
  BY DEF FilterQueued, DropQueued, S
<1> QED BY <1>1, <1>2, <1>3, DropFromQueue DEF S

\* list.Cap in promoteExecutables, which spares local accounts.
LEMMA CapQueuedShrinks ==
  ASSUME NEW p, Indexed(p), NEW a
  PROVE  Shrinks(p, CapQueued(p, a)) /\ CapQueued(p, a).queue \subseteq p.queue
<1> DEFINE S == Exceeding(Of(p.queue, a), AccountQueue)
<1>1. CASE a \in p.locals
  <2>1. CapQueued(p, a) = p
    BY <1>1, Zenon DEF CapQueued
  <2> QED BY <2>1, ShrinksRefl
<1>2. CASE a \notin p.locals
  <2>1. S \in SUBSET Of(p.queue, a)
    BY DEF Exceeding
  <2>3. CapQueued(p, a) = DropSeq([p EXCEPT !.queue = @ \ S], Falling(S))
    BY <1>2, Zenon DEF CapQueued
  <2> HIDE DEF S
  <2>2. S \in SUBSET p.queue /\ Lists(Falling(S), S) /\ \A t \in S : t.from \notin p.locals
    BY <1>2, <2>1, QueuedOf, ZenonT(60)
  <2> DEFINE q == DropSeq([p EXCEPT !.queue = @ \ S], Falling(S))
  <2>4. OffQueue(p, q, S) /\ Shrinks(p, q)
    BY <2>2, DropFromQueue, Zenon
  <2> HIDE DEF q
  <2>5. q.queue \subseteq p.queue
    BY <2>4 DEF OffQueue
  <2> QED BY <2>3, <2>4, <2>5, Zenon DEF q
<1> QED BY <1>1, <1>2

\* q is p with S moved to the pending lists from outside the lists.
Pended(p, q, S) ==
  /\ Formed(q) /\ q.all = p.all /\ q.pending = p.pending \cup S /\ q.queue = p.queue
  /\ q.locals = p.locals /\ q.base = p.base /\ q.merged = p.merged /\ q.journal = p.journal
  /\ q.priced = p.priced /\ q.stales = p.stales

\* promoteTx with a nonce that is free in the pending list: it is not refused.
LEMMA PromoteTxPends ==
  ASSUME NEW p, Formed(p), NEW tx \in p.all, At(p.pending, tx) = {}
  PROVE  LET q == PromoteTx(p, tx) IN
           /\ Pended(p, q, {tx})
           /\ \A b \in Accounts : q.nonce[b] = IF b = tx.from THEN tx.nonce + 1 ELSE p.nonce[b]
<1> DEFINE r == [p EXCEPT !.pending = (@ \ At(@, tx)) \cup {tx}]
           q == PromoteTx(p, tx)
           beats == Append(Minus(p.beats, {tx.from}), tx.from)
<1>0. tx \in Txs /\ tx.from \in Accounts /\ tx.nonce \in Nat
  BY TxIs DEF Formed
<1>1. Accepts(p.pending, tx)
  BY DEF Accepts
<1>2. DropSeq(r, Rising(At(p.pending, tx))) = r
  BY DropNone
<1>3. /\ DOMAIN r = Fields /\ r.pending = p.pending \cup {tx} /\ r.all = p.all /\ r.queue = p.queue
      /\ r.beats = p.beats /\ r.nonce = p.nonce /\ r.locals = p.locals /\ r.base = p.base
      /\ r.merged = p.merged /\ r.journal = p.journal /\ r.priced = p.priced /\ r.stales = p.stales
  BY DEF Formed, Fields
<1> HIDE DEF r
<1>4. q = [r EXCEPT !.beats = Append(Minus(@, {tx.from}), tx.from), !.nonce[tx.from] = tx.nonce + 1]
  BY <1>1, <1>2, <1>3 DEF PromoteTx, r
<1> HIDE DEF q
<1>5. /\ DOMAIN q = Fields /\ q.pending = p.pending \cup {tx} /\ q.all = p.all /\ q.queue = p.queue
      /\ q.beats = beats /\ q.nonce = [p.nonce EXCEPT ![tx.from] = tx.nonce + 1]
      /\ q.locals = p.locals /\ q.base = p.base
      /\ q.merged = p.merged /\ q.journal = p.journal /\ q.priced = p.priced /\ q.stales = p.stales
  BY <1>3, <1>4 DEF Fields
<1>6. beats \in Seq(Accounts)
  <2>1. Minus(p.beats, {tx.from}) \in Seq(Accounts)
    BY MinusSeq DEF Formed
  <2> QED BY <1>0, <2>1
<1> HIDE DEF beats
<1>7. IsFiniteSet(q.pending) /\ q.pending \in SUBSET Txs
  <2>1. IsFiniteSet(p.pending) /\ p.pending \in SUBSET Txs
    BY DEF Formed
  <2>2. IsFiniteSet(p.pending \cup {tx})
    BY <2>1, FS_AddElement
  <2> QED BY <1>0, <1>5, <2>1, <2>2
<1>8. q.nonce \in [Accounts -> Nat]
  BY <1>0, <1>5 DEF Formed
<1>9. Formed(q)
  BY <1>5, <1>6, <1>7, <1>8 DEF Formed
<1>10. \A b \in Accounts : q.nonce[b] = IF b = tx.from THEN tx.nonce + 1 ELSE p.nonce[b]
  BY <1>5 DEF Formed
<1> QED BY <1>5, <1>9, <1>10 DEF Pended, q

\* The loop over what list.Ready returns; the pending nonce follows it.
PromoteOp(c, p, tx) == PromoteTx(p, tx)
PromoteInv(c, seq, i, p) ==
  /\ Pended(c, p, {seq[j] : j \in 1 .. i})
  /\ \A b \in Accounts : p.nonce[b] = IF i > 0 /\ b = seq[i].from THEN seq[i].nonce + 1 ELSE c.nonce[b]
Promoting == INSTANCE FoldRule WITH Op <- PromoteOp, Inv <- PromoteInv

\* The transactions S of one account are promoted one after the other.

PromoteAll(p, S) == FoldLeft(PromoteTx, p, Rising(S))

\* After the loop the pending nonce is one past the last promoted.
LEMMA PromoteAllPends ==
  ASSUME NEW p, Formed(p), NEW a, NEW S \in SUBSET p.all, IsFiniteSet(S),
         \A t \in S : t.from = a, Distinct(p.pending \cup S), p.pending \cap S = {}
  PROVE  LET q == PromoteAll(p, S) IN
           /\ Pended(p, q, S)
           /\ \A b \in Accounts : b # a \/ S = {} => q.nonce[b] = p.nonce[b]
           /\ S # {} => \E t \in S : /\ q.nonce[a] = t.nonce + 1
                                     /\ \A u \in S : u.nonce <= t.nonce
<1> DEFINE seq == Rising(S)
           n == Cardinality(S)
           q == FoldLeft(PromoteTx, p, seq)
<1>0. S \in SUBSET Txs /\ Distinct(S) /\ \A t \in S : t.nonce \in Nat /\ t.from \in Accounts
  BY TxIs DEF Formed, Distinct
<1>1. Lists(seq, S) /\ \A i, j \in 1 .. n : i < j => seq[i].nonce < seq[j].nonce
  <2>1. \A s, t \in S : s.nonce = t.nonce => s = t
    BY <1>0 DEF Distinct
  <2> QED BY <1>0, <2>1, RisingLists
<1>2. q = Promoting!Fold(p, p, seq)
  BY Zenon DEF Promoting!Fold, PromoteOp,
       FoldLeft, MapThenFoldSet, Promoting!Unfolds, Promoting!Top, Max
<1> HIDE DEF seq, q
<1>3. n \in Nat /\ DOMAIN seq = 1 .. n /\ \A i \in 1 .. n : seq[i] \in S
  BY <1>1 DEF Lists
<1>4. PromoteInv(p, seq, 0, p)
  BY DEF PromoteInv, Pended
<1>5. \A i \in 1 .. n : \A s : PromoteInv(p, seq, i - 1, s) => PromoteInv(p, seq, i, PromoteOp(p, s, seq[i]))
  <2> TAKE i \in 1 .. n
  <2> TAKE s
  <2> HAVE PromoteInv(p, seq, i - 1, s)
  <2> DEFINE r == PromoteTx(s, seq[i])
  <2>1. /\ Pended(p, s, {seq[j] : j \in 1 .. i - 1})
        /\ \A b \in Accounts :
             s.nonce[b] = IF i - 1 > 0 /\ b = seq[i - 1].from THEN seq[i - 1].nonce + 1 ELSE p.nonce[b]
    BY DEF PromoteInv
  <2>2. seq[i] \in S /\ seq[i] \in s.all /\ seq[i].nonce \in Nat /\ seq[i].from = a
    BY <1>0, <1>3, <2>1 DEF Pended
  <2>3. At(s.pending, seq[i]) = {}
    <3>1. \A u \in s.pending : u.from = seq[i].from /\ u.nonce = seq[i].nonce => FALSE
      <4> TAKE u \in s.pending
      <4>1. u \in p.pending \/ \E j \in 1 .. i - 1 : u = seq[j]
        BY <2>1 DEF Pended
      <4>2. CASE u \in p.pending
        BY <2>2, <4>2 DEF Distinct
      <4>3. CASE \E j \in 1 .. i - 1 : u = seq[j]
        <5>1. PICK j \in 1 .. i - 1 : u = seq[j]
          BY <4>3
        <5>2. j \in 1 .. n /\ j < i
          BY <1>3
        <5>3. u.nonce < seq[i].nonce /\ u.nonce \in Nat
          BY <1>0, <1>1, <1>3, <5>1, <5>2
        <5> QED BY <2>2, <5>3
      <4> QED BY <4>1, <4>2, <4>3
    <3> QED BY <3>1 DEF At
  <2>4. /\ Pended(s, r, {seq[i]})
        /\ \A b \in Accounts : r.nonce[b] = IF b = seq[i].from THEN seq[i].nonce + 1 ELSE s.nonce[b]
    BY <2>1, <2>2, <2>3, PromoteTxPends DEF Pended
  <2> HIDE DEF r
  <2>5. 1 .. i = (1 .. i - 1) \cup {i}
    BY <1>3
  <2>6. {seq[j] : j \in 1 .. i} = {seq[j] : j \in 1 .. i - 1} \cup {seq[i]}
    BY <2>5
  <2>7. Pended(p, r, {seq[j] : j \in 1 .. i})
    BY <2>1, <2>4, <2>6 DEF Pended
  <2>8. i - 1 > 0 => seq[i - 1].from = a
    <3> HAVE i - 1 > 0
    <3>1. i - 1 \in 1 .. n
      BY <1>3
    <3> QED BY <1>3, <3>1
  <2>9. \A b \in Accounts : r.nonce[b] = IF i > 0 /\ b = seq[i].from THEN seq[i].nonce + 1 ELSE p.nonce[b]
    BY <2>1, <2>2, <2>4, <2>8
  <2> QED BY <2>7, <2>9 DEF PromoteInv, PromoteOp, r
<1>6. PromoteInv(p, seq, n, q)
  BY <1>2, <1>3, <1>4, <1>5, Promoting!FoldInduction, Zenon
<1>7. Pended(p, q, S)
  <2>1. {seq[j] : j \in 1 .. n} = S
    BY <1>1 DEF Lists
  <2> QED BY <1>6, <2>1 DEF PromoteInv
<1>8. n = 0 <=> S = {}
  BY FS_EmptySet
<1>9. n # 0 => n \in 1 .. n /\ n > 0 /\ seq[n] \in S /\ seq[n].from = a
  BY <1>3
<1>10. \A b \in Accounts : b # a \/ S = {} => q.nonce[b] = p.nonce[b]
  BY <1>3, <1>6, <1>8, <1>9 DEF PromoteInv
<1>11. S # {} => \E t \in S : q.nonce[a] = t.nonce + 1 /\ \A u \in S : u.nonce <= t.nonce
  <2> HAVE S # {}
  <2>1. n \in 1 .. n /\ n > 0 /\ seq[n] \in S /\ seq[n].from = a /\ a \in Accounts
    BY <1>0, <1>8, <1>9
  <2>2. q.nonce[a] = seq[n].nonce + 1
    BY <1>6, <2>1 DEF PromoteInv
  <2>3. \A u \in S : u.nonce <= seq[n].nonce
    <3> TAKE u \in S
    <3>1. PICK i \in 1 .. n : seq[i] = u
      BY <1>1 DEF Lists
    <3>2. i = n \/ i < n
      BY <1>3
    <3> QED BY <1>0, <1>1, <2>1, <3>1, <3>2
  <2> QED BY <2>1, <2>2, <2>3
<1> QED BY <1>7, <1>10, <1>11 DEF q, seq, PromoteAll

\* The accounts in Y have been promoted between p and q.
Advances(p, q, Y) ==
  /\ Moves(p, q)
  /\ Covers(p) => Covers(q)
  /\ \A X : Good(p, X) => Good(q, X \ Y)

\* Taking transactions out promotes no account.
LEMMA ShrinksAdvances == ASSUME NEW p, NEW q, Shrinks(p, q) PROVE Advances(p, q, {})
<1>1. \A X : X \ {} = X
  OBVIOUS
<1> QED BY <1>1 DEF Shrinks, Moves, Advances

\* Advances compose, with the accounts of both.
LEMMA AdvancesTrans ==
  ASSUME NEW p, NEW q, NEW r, NEW Y, NEW Z, Advances(p, q, Y), Advances(q, r, Z)
  PROVE  Advances(p, r, Y \cup Z)
<1>1. \A X : (X \ Y) \ Z = X \ (Y \cup Z)
  OBVIOUS
<1>2. Moves(p, r)
  BY MovesTrans DEF Advances
<1> QED BY <1>1, <1>2 DEF Advances

\* What Ready takes is the run of the queue that starts at the pending nonce.
LEMMA ReadyRun ==
  ASSUME NEW L \in SUBSET Txs, NEW start \in Nat, \A u \in L : u.nonce >= start
  PROVE  LET ready == Ready(L, start) IN
           /\ ready \subseteq L
           /\ \A t \in L : t.nonce = start => t \in ready
           /\ \A t \in ready : \A n \in start .. t.nonce : \E v \in ready : v.nonce = n
           /\ \A t \in ready : \A x \in L : x.nonce = t.nonce + 1 => x \in ready
<1> DEFINE ready == Ready(L, start)
<1>0. \A u \in L : u.nonce \in Nat
  BY TxIs
<1>1. ready \subseteq L
  BY DEF Ready
<1>2. ASSUME NEW t \in L, t.nonce = start PROVE t \in ready
  <2>1. \A u \in L : \A n \in u.nonce .. t.nonce : n = t.nonce
    BY <1>0, <1>2
  <2>2. \E u \in L : u.nonce <= start
    BY <1>0, <1>2
  <2>3. \A u \in L : \A n \in u.nonce .. t.nonce : \E v \in L : v.nonce = n
    BY <2>1
  <2> QED BY <2>2, <2>3, Zenon DEF Ready
<1>3. ASSUME NEW t \in ready PROVE \E u \in L : u.nonce <= start
  BY <1>3 DEF Ready
<1>4. ASSUME NEW t \in ready, NEW n \in start .. t.nonce PROVE \E v \in L : v.nonce = n
  <2>1. PICK u \in L : u.nonce <= start
    BY <1>3
  <2>2. n \in u.nonce .. t.nonce
    BY <1>0, <1>1, <2>1
  <2> QED BY <2>1, <2>2 DEF Ready
<1>5. ASSUME NEW t \in ready, NEW x \in L, x.nonce <= t.nonce \/ x.nonce = t.nonce + 1
      PROVE  x \in ready
  <2>1. \A u \in L : \A n \in u.nonce .. x.nonce : \E v \in L : v.nonce = n
    <3> TAKE u \in L
    <3> TAKE n \in u.nonce .. x.nonce
    <3>1. n \in start .. t.nonce \/ n = x.nonce
      BY <1>0, <1>1, <1>5
    <3> QED BY <1>4, <3>1
  <2>2. \E u \in L : u.nonce <= start
    BY <1>3
  <2> QED BY <2>1, <2>2, Zenon DEF Ready
<1>6. ASSUME NEW t \in ready, NEW n \in start .. t.nonce PROVE \E v \in ready : v.nonce = n
  <2>1. PICK v \in L : v.nonce = n
    BY <1>4
  <2>2. v.nonce <= t.nonce
    BY <1>0, <1>1, <2>1
  <2> QED BY <1>5, <2>1, <2>2
<1> HIDE DEF ready
<1> QED BY <1>1, <1>2, <1>5, <1>6 DEF ready

\* Promoting what is ready extends the run of pending nonces, and leaves the
\* next nonce out of the queue.
LEMMA PromoteReadyAdvances ==
  ASSUME NEW p, Indexed(p), NEW a \in Accounts, \A t \in p.queue : t.from = a => Valid(p, t)
  PROVE  Advances(p, PromoteReady(p, a), {a})
<1> DEFINE L == Of(p.queue, a)
           S == Ready(L, p.nonce[a])
           r == [p EXCEPT !.queue = @ \ S]
           q == PromoteReady(p, a)
<1>0. /\ Formed(p) /\ p.all = p.pending \cup p.queue /\ p.pending \cap p.queue = {}
      /\ Distinct(p.all) /\ p.all \in SUBSET Txs
  BY DEF Indexed, Formed
<1>1. S \in SUBSET L
  BY DEF Ready
<1>2. q = FoldLeft(PromoteTx, r, Rising(S))
  BY Zenon DEF PromoteReady
<1> HIDE DEF S, q
<1>3. /\ S \in SUBSET p.queue /\ \A t \in S : t.from = a /\ t \in p.all
      /\ IsFiniteSet(S) /\ Distinct(S)
  BY <1>0, <1>1, QueuedOf
<1>4. /\ DOMAIN r = Fields /\ r.queue = p.queue \ S /\ r.all = p.all /\ r.pending = p.pending
      /\ r.beats = p.beats /\ r.nonce = p.nonce /\ r.locals = p.locals /\ r.base = p.base
      /\ r.merged = p.merged /\ r.journal = p.journal /\ r.priced = p.priced /\ r.stales = p.stales
  BY <1>0 DEF Formed, Fields
<1> HIDE DEF r
<1>5. Formed(r)
  <2>1. IsFiniteSet(p.queue) /\ r.queue \in SUBSET p.queue
    BY <1>0, <1>4 DEF Formed
  <2>2. IsFiniteSet(r.queue)
    BY <2>1, SubsetFinite
  <2> QED BY <1>0, <1>4, <2>2 DEF Formed
<1>6. S \in SUBSET r.all /\ Distinct(r.pending \cup S) /\ r.pending \cap S = {}
  BY <1>0, <1>3, <1>4 DEF Distinct
<1>7. /\ Pended(r, q, S)
      /\ \A b \in Accounts : b # a \/ S = {} => q.nonce[b] = r.nonce[b]
      /\ S # {} => \E t \in S : q.nonce[a] = t.nonce + 1 /\ \A u \in S : u.nonce <= t.nonce
  <2> DEFINE x == PromoteAll(r, S)
  <2>1. \A t \in S : t.from = a
    BY <1>3
  <2>2. /\ Pended(r, x, S)
        /\ \A b \in Accounts : b # a \/ S = {} => x.nonce[b] = r.nonce[b]
        /\ S # {} => \E t \in S : x.nonce[a] = t.nonce + 1 /\ \A u \in S : u.nonce <= t.nonce
    BY <1>3, <1>5, <1>6, <2>1, PromoteAllPends, SMTT(40) DEF x
  <2> HIDE DEF x
  <2>3. q = x
    BY <1>2 DEF x, PromoteAll
  <2> QED BY <2>2, <2>3, Zenon
<1>8. /\ q.all = p.all /\ q.pending = p.pending \cup S /\ q.queue = p.queue \ S
      /\ q.locals = p.locals /\ q.base = p.base /\ q.merged = p.merged /\ q.journal = p.journal
      /\ q.priced = p.priced /\ q.stales = p.stales /\ Formed(q)
  BY <1>4, <1>7 DEF Pended
<1>9. Indexed(q)
  BY <1>0, <1>3, <1>8 DEF Indexed
<1>10. \A t : Valid(q, t) <=> Valid(p, t)
  BY <1>8 DEF Valid
<1>11. ASSUME NEW X, Good(p, X) PROVE Good(q, X \ {a})
  <2>1. \A t \in q.pending : Valid(q, t)
    BY <1>3, <1>8, <1>10, <1>11 DEF Good
  <2>2. \A t \in q.queue : t.from \notin X \ {a} => Valid(q, t)
    BY <1>8, <1>10, <1>11 DEF Good
  <2>3. ASSUME ~ q.merged
        PROVE  Runs(q) /\ \A t \in q.queue : t.from \notin X \ {a} => t.nonce # q.nonce[t.from]
    <3>0. /\ Runs(p) /\ \A t \in p.queue : t.from \notin X => t.nonce # p.nonce[t.from]
      BY <1>8, <1>11, <2>3 DEF Good
    <3>1. \A b \in Accounts : p.nonce[b] \in Nat /\ StateNonce[p.base][b] \in Nat
      BY <1>0, NonceTypes
    <3>2. \A t \in p.all : t.nonce \in Nat /\ t.from \in Accounts
      BY <1>0, TxIs
    <3>3. ASSUME NEW u \in L PROVE u.nonce >= p.nonce[a]
      <4>1. u \in p.queue /\ u.from = a /\ ~(u.nonce < StateNonce[p.base][a])
        BY DEF Of, Valid
      <4>2. SUFFICES ASSUME u.nonce < p.nonce[a] PROVE FALSE
        BY <1>0, <3>1, <3>2, <4>1
      <4>3. u.nonce \in StateNonce[p.base][a] .. p.nonce[a] - 1
        BY <1>0, <3>1, <3>2, <4>1, <4>2
      <4>4. PICK t \in p.pending : t.from = a /\ t.nonce = u.nonce
        BY <3>0, <4>3 DEF Runs
      <4> QED BY <1>0, <4>1, <4>4 DEF Distinct
    <3>4. /\ \A t \in L : t.nonce = p.nonce[a] => t \in S
          /\ \A t \in S : \A n \in p.nonce[a] .. t.nonce : \E v \in S : v.nonce = n
          /\ \A t \in S : \A x \in L : x.nonce = t.nonce + 1 => x \in S
      <4>1. L \in SUBSET Txs /\ p.nonce[a] \in Nat
        BY <1>0, <3>1 DEF Of
      <4> HIDE DEF L
      <4> QED BY <3>3, <4>1, ReadyRun DEF S
    <3>5. CASE S = {}
      <4>1. q.pending = p.pending /\ \A b \in Accounts : q.nonce[b] = p.nonce[b]
        BY <1>4, <1>7, <1>8, <3>5
      <4>2. Runs(q)
        BY <1>8, <3>0, <4>1 DEF Runs
      <4>3. ASSUME NEW t \in q.queue, t.from \notin X \ {a} PROVE t.nonce # q.nonce[t.from]
        <5>1. t \in p.queue /\ t.from \in Accounts /\ (t.from = a => t \in L)
          BY <1>0, <1>8, <3>2 DEF Of
        <5> QED BY <3>0, <3>4, <3>5, <4>1, <4>3, <5>1
      <4> QED BY <4>2, <4>3
    <3>6. CASE S # {}
      <4>1. PICK t \in S : q.nonce[a] = t.nonce + 1 /\ \A u \in S : u.nonce <= t.nonce
        BY <1>7, <3>6
      <4>2. \A b \in Accounts : b # a => q.nonce[b] = p.nonce[b]
        BY <1>4, <1>7
      <4>3. t \in L /\ t.nonce \in Nat /\ t.nonce >= p.nonce[a]
        BY <1>1, <1>3, <3>2, <3>3
      <4>4. Runs(q)
        <5> SUFFICES ASSUME NEW b \in Accounts
                     PROVE  /\ StateNonce[p.base][b] <= q.nonce[b]
                            /\ \A u \in q.pending : u.from = b => u.nonce < q.nonce[b]
                            /\ \A n \in StateNonce[p.base][b] .. q.nonce[b] - 1 :
                                 \E u \in q.pending : u.from = b /\ u.nonce = n
          BY <1>8 DEF Runs
        <5>1. CASE b # a
          BY <1>3, <1>8, <3>0, <4>2, <5>1 DEF Runs
        <5>2. CASE b = a
          <6>1. StateNonce[p.base][a] <= t.nonce + 1
            BY <3>0, <3>1, <4>3 DEF Runs
          <6>2. ASSUME NEW u \in q.pending, u.from = a PROVE u.nonce < t.nonce + 1
            <7>1. CASE u \in S
              BY <1>3, <3>2, <4>1, <4>3, <7>1
            <7>2. CASE u \in p.pending
              <8>1. u.nonce < p.nonce[a] /\ u.nonce \in Nat
                BY <1>0, <3>0, <3>2, <6>2, <7>2 DEF Runs
              <8> QED BY <3>1, <4>3, <8>1
            <7> QED BY <1>8, <7>1, <7>2
          <6>3. ASSUME NEW n \in StateNonce[p.base][a] .. (t.nonce + 1) - 1
                PROVE  \E u \in q.pending : u.from = a /\ u.nonce = n
            <7>1. n \in StateNonce[p.base][a] .. p.nonce[a] - 1 \/ n \in p.nonce[a] .. t.nonce
              BY <3>1, <4>3
            <7>2. CASE n \in StateNonce[p.base][a] .. p.nonce[a] - 1
              BY <1>8, <3>0, <7>2 DEF Runs
            <7>3. CASE n \in p.nonce[a] .. t.nonce
              BY <1>3, <1>8, <3>4, <7>3
            <7> QED BY <7>1, <7>2, <7>3
          <6> QED BY <4>1, <5>2, <6>1, <6>2, <6>3
        <5> QED BY <5>1, <5>2
      <4>5. ASSUME NEW x \in q.queue, x.from \notin X \ {a} PROVE x.nonce # q.nonce[x.from]
        <5>1. x \in p.queue /\ x \notin S /\ x.from \in Accounts /\ (x.from = a => x \in L)
          BY <1>0, <1>8, <3>2 DEF Of
        <5>2. CASE x.from = a
          BY <3>4, <4>1, <5>1, <5>2
        <5>3. CASE x.from # a
          BY <3>0, <4>2, <4>5, <5>1, <5>3
        <5> QED BY <5>2, <5>3
      <4> QED BY <4>4, <4>5
    <3> QED BY <3>5, <3>6
  <2> QED BY <2>1, <2>2, <2>3 DEF Good
<1>12. \A X : Good(q, X \ {a}) => Good(q, X)
  BY DEF Good
<1>13. Moves(p, q)
  BY <1>8, <1>9, <1>11, <1>12 DEF Moves
<1>14. Covers(p) => Covers(q)
  BY <1>8 DEF Covers
<1> QED BY <1>11, <1>13, <1>14 DEF Advances, q

\* The loop body of promoteExecutables: what is left of the account's queue is
\* valid, and its next transaction is not among it.
LEMMA PromoteAccountAdvances ==
  ASSUME NEW p, Indexed(p), NEW a \in Accounts
  PROVE  Advances(p, PromoteAccount(p, a), {a})
<1> DEFINE f == ForwardQueued(p, a)
           g == FilterQueued(f, a)
           h == PromoteReady(g, a)
<1>1. OffQueue(p, f, Old(p, Of(p.queue, a))) /\ Shrinks(p, f)
  BY ForwardQueuedIs, Zenon
<1> HIDE DEF f
<1>2. Indexed(f)
  BY <1>1 DEF Shrinks, Moves
<1>3. OffQueue(f, g, Unpayable(f, Of(f.queue, a))) /\ Shrinks(f, g)
  BY <1>2, FilterQueuedIs, Zenon
<1> HIDE DEF g
<1>4. Indexed(g)
  BY <1>3 DEF Shrinks, Moves
<1>5. \A t \in g.queue : t.from = a => Valid(g, t)
  BY <1>1, <1>3 DEF OffQueue, Old, Unpayable, Of, Valid
<1>6. Advances(g, h, {a})
  BY <1>4, <1>5, PromoteReadyAdvances
<1> HIDE DEF h
<1>7. Indexed(h)
  BY <1>6 DEF Advances, Moves
<1>8. Shrinks(h, CapQueued(h, a))
  BY <1>7, CapQueuedShrinks
<1>9. Advances(p, f, {}) /\ Advances(f, g, {}) /\ Advances(h, CapQueued(h, a), {})
  BY <1>1, <1>3, <1>8, ShrinksAdvances
<1>10. Advances(p, CapQueued(h, a), (({} \cup {}) \cup {a}) \cup {})
  BY <1>6, <1>9, AdvancesTrans, Zenon
<1>11. (({} \cup {}) \cup {a}) \cup {} = {a}
  OBVIOUS
<1> QED BY <1>10, <1>11, Zenon DEF PromoteAccount, f, g, h

\* promoteExecutables' loop over the accounts it is given.
PromoteAccountsOp(c, q, a) == IF a \in c.accounts THEN PromoteAccount(q, a) ELSE q
PromoteAccountsInv(c, seq, i, q) == Advances(c.p, q, c.accounts \cap {seq[j] : j \in 1 .. i})
PromotingAll == INSTANCE FoldRule WITH Op <- PromoteAccountsOp, Inv <- PromoteAccountsInv

\* That loop, as PromoteExecutables runs it.
PromoteAccounts(p, accounts, order) ==
  FoldLeft(LAMBDA q, a : IF a \in accounts THEN PromoteAccount(q, a) ELSE q, p, order)

\* The loop promotes every one of the accounts.
LEMMA PromoteAccountsAdvances ==
  ASSUME NEW p, Indexed(p), NEW accounts \in SUBSET Accounts, NEW order \in Orders
  PROVE  Advances(p, PromoteAccounts(p, accounts, order), accounts)
<1> DEFINE c == [p |-> p, accounts |-> accounts]
           n == Cardinality(Accounts)
<1>1. /\ n \in Nat /\ DOMAIN order = 1 .. n /\ \A i \in 1 .. n : order[i] \in Accounts
      /\ {order[j] : j \in 1 .. n} = Accounts
  BY OrderLists DEF Lists
<1>2. PromoteAccounts(p, accounts, order) = PromotingAll!Fold(c, p, order)
  <2>1. c.accounts = accounts
    OBVIOUS
  <2> HIDE DEF c
  <2>2. PromoteAccounts(p, c.accounts, order) = PromotingAll!Fold(c, p, order)
    BY Zenon DEF PromoteAccounts, PromotingAll!Fold, PromoteAccountsOp,
         FoldLeft, MapThenFoldSet, PromotingAll!Unfolds, PromotingAll!Top, Max
  <2> QED BY <2>1, <2>2, Zenon
<1>3. c.p = p /\ c.accounts = accounts
  OBVIOUS
<1> HIDE DEF c
<1>4. PromoteAccountsInv(c, order, 0, p)
  <2>1. {order[j] : j \in 1 .. 0} = {}
    OBVIOUS
  <2>2. accounts \cap {} = {}
    OBVIOUS
  <2>3. Advances(p, p, {})
    BY ShrinksRefl, ShrinksAdvances
  <2> QED BY <1>3, <2>1, <2>2, <2>3 DEF PromoteAccountsInv
<1>5. ASSUME NEW i \in 1 .. n, NEW s, PromoteAccountsInv(c, order, i - 1, s)
      PROVE  PromoteAccountsInv(c, order, i, PromoteAccountsOp(c, s, order[i]))
  <2> DEFINE Y == accounts \cap {order[j] : j \in 1 .. i - 1}
             Z == accounts \cap {order[j] : j \in 1 .. i}
             a == order[i]
  <2>0. Advances(p, s, Y) /\ Indexed(s) /\ a \in Accounts
    BY <1>1, <1>3, <1>5 DEF PromoteAccountsInv, Advances, Moves
  <2>1. 1 .. i = (1 .. i - 1) \cup {i}
    BY <1>1
  <2>2. CASE a \in accounts
    <3>1. Z = Y \cup {a}
      BY <2>1, <2>2
    <3>2. Advances(s, PromoteAccount(s, a), {a})
      BY <2>0, PromoteAccountAdvances
    <3> HIDE DEF Y, Z, a
    <3>3. Advances(p, PromoteAccount(s, a), Z)
      BY <2>0, <3>1, <3>2, AdvancesTrans
    <3>4. PromoteAccountsOp(c, s, a) = PromoteAccount(s, a)
      BY <1>3, <2>2 DEF PromoteAccountsOp
    <3>5. Advances(c.p, PromoteAccountsOp(c, s, a), Z)
      BY <1>3, <3>3, <3>4, Zenon
    <3> QED BY <1>3, <3>5 DEF PromoteAccountsInv, a, Z
  <2>3. CASE a \notin accounts
    <3>1. Z = Y
      BY <2>1, <2>3
    <3> HIDE DEF Y
    <3>2. Advances(p, s, Z)
      BY <2>0, <3>1
    <3>4. PromoteAccountsOp(c, s, a) = s
      BY <1>3, <2>3 DEF PromoteAccountsOp
    <3>5. Advances(c.p, PromoteAccountsOp(c, s, a), Z)
      BY <1>3, <3>2, <3>4
    <3> QED BY <1>3, <3>5 DEF PromoteAccountsInv
  <2> QED BY <2>2, <2>3
<1>6. PromoteAccountsInv(c, order, n, PromotingAll!Fold(c, p, order))
  BY <1>1, <1>4, <1>5, PromotingAll!FoldInduction, Zenon
<1>7. accounts \cap {order[j] : j \in 1 .. n} = accounts
  BY <1>1
<1> QED BY <1>2, <1>3, <1>6, <1>7 DEF PromoteAccountsInv

-----------------------------------------------------------------------------
(* The limits. *)

TrimOp(c, q, t) == LowerNonce(Drop(q, t), t)
TrimInv(c, seq, i, q) == (i = 0 => q = c) /\ (i = 1 => q = TrimOp(c, c, seq[1]))
Trimming == INSTANCE FoldRule WITH Op <- TrimOp, Inv <- TrimInv

\* Cutting a list by one takes its highest nonce.
LEMMA TopOfList ==
  ASSUME NEW L \in SUBSET Txs, IsFiniteSet(L), NEW a, \A t \in L : t.from = a, Distinct(L)
  PROVE  LET top == Exceeding(L, Cardinality(L) - 1) IN
           /\ top \subseteq L
           /\ \A t \in top : \A u \in L : u.nonce <= t.nonce
           /\ \A t \in top : top = {t}
<1> DEFINE top == Exceeding(L, Cardinality(L) - 1)
           Upto(t) == {u \in L : u.nonce <= t.nonce}
<1>1. top \subseteq L
  BY DEF Exceeding
<1>2. ASSUME NEW t \in top, NEW u \in L PROVE u.nonce <= t.nonce
  <2>1. t \in L /\ Cardinality(Upto(t)) > Cardinality(L) - 1
    BY <1>2 DEF Exceeding
  <2>2. Upto(t) \in SUBSET L
    OBVIOUS
  <2> DEFINE V == Upto(t)
  <2>3. V \in SUBSET L
    BY <2>2
  <2> HIDE DEF V
  <2>4. /\ Cardinality(L) \in Nat /\ Cardinality(V) \in Nat
        /\ Cardinality(V) <= Cardinality(L) /\ (Cardinality(V) = Cardinality(L) => V = L)
    BY <2>3, FS_Subset, FS_CardinalityType
  <2>5. Cardinality(V) > Cardinality(L) - 1
    BY <2>1 DEF V
  <2>6. V = L
    BY <2>4, <2>5
  <2> QED BY <2>6 DEF V
<1>3. ASSUME NEW t \in top PROVE top = {t}
  <2>1. \A u \in top : u.nonce \in Nat /\ u.nonce <= t.nonce /\ t.nonce <= u.nonce
    BY <1>1, <1>2, <1>3, TxIs
  <2>2. \A u \in top : u.nonce = t.nonce /\ u.from = t.from /\ u \in L
    BY <1>1, <1>3, <2>1
  <2> QED BY <1>1, <1>3, <2>2 DEF Distinct
<1> HIDE DEF top
<1> QED BY <1>1, <1>2, <1>3 DEF top

\* The fold of Trim.
Trims(p, top) == FoldLeft(LAMBDA q, t : LowerNonce(Drop(q, t), t), p, Falling(top))

\* list.Cap(list.Len() - 1) drops one transaction,
LEMMA TrimsOne ==
  ASSUME NEW p, NEW t \in Txs
  PROVE  Trims(p, {t}) = LowerNonce(Drop(p, t), t)
<1> DEFINE seq == Falling({t})
<1>1. Trims(p, {t}) = Trimming!Fold(p, p, seq)
  BY Zenon DEF Trims, Trimming!Fold, TrimOp,
       FoldLeft, MapThenFoldSet, Trimming!Unfolds, Trimming!Top, Max
<1>2. IsFiniteSet({t}) /\ Cardinality({t}) = 1
  BY FS_Singleton
<1>3. Lists(seq, {t})
  BY <1>2, TxIs, FallingLists
<1> HIDE DEF seq
<1>4. DOMAIN seq = 1 .. 1 /\ seq[1] = t
  BY <1>2, <1>3 DEF Lists
<1>5. \A i \in 1 .. 1 : \A s : TrimInv(p, seq, i - 1, s) => TrimInv(p, seq, i, TrimOp(p, s, seq[i]))
  BY DEF TrimInv
<1>6. TrimInv(p, seq, 0, p)
  BY DEF TrimInv
<1>7. 1 \in Nat
  OBVIOUS
<1>8. TrimInv(p, seq, 1, Trimming!Fold(p, p, seq))
  BY <1>4, <1>5, <1>6, <1>7, Trimming!FoldInduction, Zenon
<1> QED BY <1>1, <1>4, <1>8 DEF TrimInv, TrimOp

\* or none of an empty list.
LEMMA TrimsNone == ASSUME NEW p PROVE Trims(p, {}) = p
<1> DEFINE seq == Falling({})
           O == {}
<1>1. Trims(p, {}) = Trimming!Fold(p, p, seq)
  BY Zenon DEF Trims, Trimming!Fold, TrimOp,
       FoldLeft, MapThenFoldSet, Trimming!Unfolds, Trimming!Top, Max
<1>2. IsFiniteSet({}) /\ Cardinality({}) = 0
  BY FS_EmptySet
<1>3. Lists(seq, {})
  BY <1>2, FallingLists
<1> HIDE DEF seq
<1>4. DOMAIN seq = 1 .. 0
  BY <1>2, <1>3 DEF Lists
<1>5. \A i \in 1 .. 0 : \A s : TrimInv(p, seq, i - 1, s) => TrimInv(p, seq, i, TrimOp(p, s, seq[i]))
  OBVIOUS
<1>6. TrimInv(p, seq, 0, p)
  BY DEF TrimInv
<1>7. 0 \in Nat
  OBVIOUS
<1>8. TrimInv(p, seq, 0, Trimming!Fold(p, p, seq))
  BY <1>4, <1>5, <1>6, <1>7, Trimming!FoldInduction, Zenon
<1> QED BY <1>1, <1>8 DEF TrimInv

\* Cutting an offender's list by its last transaction leaves no gap.
LEMMA TrimShrinks ==
  ASSUME NEW p, Indexed(p), NEW a \in Accounts, a \notin p.locals
  PROVE  Shrinks(p, Trim(p, a))
<1> DEFINE L == Of(p.pending, a)
           top == Exceeding(L, Cardinality(L) - 1)
           r == [p EXCEPT !.pending = @ \ top]
<1>0. Formed(p) /\ p.all = p.pending \cup p.queue /\ p.pending \cap p.queue = {}
      /\ Distinct(p.all) /\ p.all \in SUBSET Txs
  BY DEF Indexed, Formed
<1>1. L \in SUBSET Txs /\ IsFiniteSet(L) /\ (\A t \in L : t.from = a) /\ Distinct(L) /\ L \in SUBSET p.pending
  <2>1. L \in SUBSET p.pending /\ IsFiniteSet(p.pending) /\ \A t \in L : t.from = a
    BY <1>0 DEF Of, Formed
  <2>2. IsFiniteSet(L)
    BY <2>1, SubsetFinite
  <2> QED BY <1>0, <2>1, <2>2 DEF Distinct
<1>2. Trim(p, a) = Trims(r, top)
  BY Zenon DEF Trim, Trims, Size
<1>3. /\ top \subseteq L
      /\ \A t \in top : \A u \in L : u.nonce <= t.nonce
      /\ \A t \in top : top = {t}
  BY <1>1, TopOfList
<1> HIDE DEF top
<1>4. CASE top = {}
  <2>1. /\ DOMAIN r = Fields /\ r.pending = p.pending /\ r.all = p.all /\ r.queue = p.queue
        /\ r.beats = p.beats /\ r.nonce = p.nonce /\ r.locals = p.locals /\ r.base = p.base
        /\ r.merged = p.merged /\ r.journal = p.journal /\ r.priced = p.priced /\ r.stales = p.stales
    BY <1>0, <1>4 DEF Formed, Fields
  <2> HIDE DEF r
  <2>2. Formed(r) /\ SameLists(p, r) /\ (Covers(p) => Covers(r))
    BY <1>0, <2>1 DEF Formed, SameLists, Covers
  <2>3. Shrinks(p, r)
    BY <2>1, <2>2, SameListsMoves DEF Shrinks
  <2> QED BY <1>2, <1>4, <2>3, TrimsNone
<1>5. CASE top # {}
  <2>1. PICK t \in top : TRUE
    BY <1>5
  <2>2. top = {t} /\ t \in L /\ t \in p.pending /\ t.from = a /\ t \in Txs
    BY <1>1, <1>3, <2>1
  <2>3. /\ DOMAIN r = Fields /\ r.pending = p.pending \ {t} /\ r.all = p.all /\ r.queue = p.queue
        /\ r.beats = p.beats /\ r.nonce = p.nonce /\ r.locals = p.locals /\ r.base = p.base
        /\ r.merged = p.merged /\ r.journal = p.journal /\ r.priced = p.priced /\ r.stales = p.stales
    BY <1>0, <2>2 DEF Formed, Fields
  <2> HIDE DEF r
  <2>4. Formed(r)
    <3>1. IsFiniteSet(p.pending) /\ r.pending \in SUBSET p.pending
      BY <1>0, <2>3 DEF Formed
    <3>2. IsFiniteSet(r.pending)
      BY <3>1, SubsetFinite
    <3> QED BY <1>0, <2>3, <3>2 DEF Formed
  <2> DEFINE d == Drop(r, t)
             q == LowerNonce(d, t)
  <2>5. Dropped(r, d, {t})
    BY <2>4, DropDrops
  <2> HIDE DEF d
  <2>6. /\ Formed(q) /\ q.all = d.all /\ q.pending = d.pending /\ q.queue = d.queue
        /\ q.locals = d.locals /\ q.base = d.base /\ q.merged = d.merged /\ q.journal = d.journal
        /\ q.priced = d.priced /\ q.stales = d.stales
        /\ \A b \in Accounts : q.nonce[b] = IF b = t.from /\ d.nonce[b] > t.nonce
                                            THEN t.nonce ELSE d.nonce[b]
    BY <2>2, <2>5, LowerNonceIs, Zenon DEF Dropped
  <2> HIDE DEF q
  <2>7. Above(p.pending, t) = {}
    <3>1. \A u \in p.pending : u.from = t.from => u \in L
      BY <2>2 DEF Of
    <3>2. \A u \in L : u.nonce \in Nat /\ t.nonce \in Nat
      BY <1>1, <2>2, TxIs
    <3> QED BY <1>3, <2>1, <3>1, <3>2 DEF Above
  <2>8. Removal(p, q, t)
    BY <2>2, <2>3, <2>5, <2>6, <2>7 DEF Removal, Dropped, SameLists
  <2>9. Moves(p, q) /\ q.pending \subseteq p.pending
    BY <1>0, <2>2, <2>8, RemovalMoves
  <2>10. Covers(p) => Covers(q)
    BY <2>3, <2>5, <2>6 DEF Dropped, Covers
  <2>11. Trim(p, a) = q
    BY <1>2, <2>2, TrimsOne DEF q, d
  <2> QED BY <2>9, <2>10, <2>11 DEF Shrinks
<1> QED BY <1>4, <1>5

\* A round of cuts over the offenders.
TrimAllOp(c, p, a) == Trim(p, a)
TrimAllInv(c, seq, i, p) == Shrinks(c, p)
TrimmingAll == INSTANCE FoldRule WITH Op <- TrimAllOp, Inv <- TrimAllInv

\* That round, as EqualizeRound runs it.
TrimAll(p, seq) == FoldLeft(Trim, p, seq)

\* A round takes transactions out and leaves no gap.
LEMMA TrimAllShrinks ==
  ASSUME NEW p, Indexed(p), NEW seq, NEW n \in Nat, DOMAIN seq = 1 .. n,
         \A i \in 1 .. n : seq[i] \in Accounts \ p.locals
  PROVE  Shrinks(p, TrimAll(p, seq))
<1>1. TrimAll(p, seq) = TrimmingAll!Fold(p, p, seq)
  BY Zenon DEF TrimAll, TrimmingAll!Fold, TrimAllOp,
       FoldLeft, MapThenFoldSet, TrimmingAll!Unfolds, TrimmingAll!Top, Max
<1>2. TrimAllInv(p, seq, 0, p)
  BY ShrinksRefl DEF TrimAllInv
<1>3. \A i \in 1 .. n : \A s : TrimAllInv(p, seq, i - 1, s) => TrimAllInv(p, seq, i, TrimAllOp(p, s, seq[i]))
  <2> TAKE i \in 1 .. n
  <2> TAKE s
  <2> HAVE TrimAllInv(p, seq, i - 1, s)
  <2>1. Shrinks(p, s) /\ Indexed(s) /\ seq[i] \in Accounts /\ seq[i] \notin s.locals
    BY DEF TrimAllInv, Shrinks, Moves
  <2>2. Shrinks(s, Trim(s, seq[i]))
    BY <2>1, TrimShrinks
  <2>3. Shrinks(p, Trim(s, seq[i]))
    BY <2>1, <2>2, ShrinksTrans
  <2> QED BY <2>3 DEF TrimAllInv, TrimAllOp
<1>4. TrimAllInv(p, seq, n, TrimmingAll!Fold(p, p, seq))
  BY <1>2, <1>3, TrimmingAll!FoldInduction, Zenon
<1> QED BY <1>1, <1>4 DEF TrimAllInv

\* The spammers are the accounts over their slots, by falling size.
LEMMA SpammersList ==
  ASSUME NEW p, Formed(p), NEW order \in Orders
  PROVE  LET S == {a \in Accounts \ p.locals : Size(p.pending, a) > AccountSlots}
             spam == Spammers(p, order) IN
           /\ Lists(spam, S) /\ IsFiniteSet(S)
           /\ \A i, j \in 1 .. Cardinality(S) :
                i < j => Larger(p.pending, spam[i], spam[j], order)
<1> DEFINE S == {a \in Accounts \ p.locals : Size(p.pending, a) > AccountSlots}
           seq == Spammers(p, order)
           key == [a \in S |-> Size(p.pending, a)]
<1>1. \A a \in S : Size(p.pending, a) \in Nat
  <2> TAKE a \in S
  <2>1. IsFiniteSet(p.pending) /\ Of(p.pending, a) \in SUBSET p.pending
    BY DEF Formed, Of
  <2> QED BY <2>1, SubsetFinite, FS_CardinalityType DEF Size
<1>2. key \in [S -> Nat] /\ \A a \in S : key[a] = Size(p.pending, a)
  BY <1>1
<1>3. \A x, y \in S : Larger(p.pending, y, x, order) <=> Ahead(key, order, y, x)
  BY <1>2 DEF Larger, Ahead
<1>4. \A x \in S : {y \in S : Larger(p.pending, y, x, order)} = {y \in S : Ahead(key, order, y, x)}
  BY <1>3
<1>5. /\ DOMAIN seq = 1 .. Cardinality(S)
      /\ \A i \in 1 .. Cardinality(S) :
           seq[i] = CHOOSE x \in S : Cardinality({y \in S : Larger(p.pending, y, x, order)}) = i - 1
  BY Zenon DEF Spammers, Sorted
<1> HIDE DEF seq, key
<1>6. S \in SUBSET Accounts
  OBVIOUS
<1> HIDE DEF S
<1>7. \A i \in 1 .. Cardinality(S) :
        (\E x \in S : Cardinality({y \in S : Larger(p.pending, y, x, order)}) = i - 1)
        => seq[i] \in S /\ Cardinality({y \in S : Larger(p.pending, y, seq[i], order)}) = i - 1
  BY <1>5, Zenon
<1>8. \A i \in 1 .. Cardinality(S) :
        (\E x \in S : Cardinality({y \in S : Ahead(key, order, y, x)}) = i - 1)
        => seq[i] \in S /\ Cardinality({y \in S : Ahead(key, order, y, seq[i])}) = i - 1
  BY <1>4, <1>7, Zenon
<1>9. /\ Lists(seq, S) /\ IsFiniteSet(S)
      /\ \A i, j \in 1 .. Cardinality(S) : i < j => Ahead(key, order, seq[i], seq[j])
  BY <1>2, <1>5, <1>6, <1>8, AheadLists, Zenon
<1>10. \A i \in 1 .. Cardinality(S) : seq[i] \in S
  BY <1>9 DEF Lists
<1>11. \A i, j \in 1 .. Cardinality(S) : i < j => Larger(p.pending, seq[i], seq[j], order)
  BY <1>3, <1>9, <1>10, Zenon
<1> QED BY <1>9, <1>11, Zenon DEF S, seq

\* LimitQueue's addresses are the accounts with queued transactions, not local.
LEMMA AddressesList ==
  ASSUME NEW p, Formed(p), NEW order \in Orders
  PROVE  LET S == {a \in Accounts \ p.locals : Of(p.queue, a) # {}} IN
           Lists(Sorted(S, LAMBDA a, b : Fresher(p, a, b, order)), S)
<1> DEFINE S == {a \in Accounts \ p.locals : Of(p.queue, a) # {}}
           seq == Sorted(S, LAMBDA a, b : Fresher(p, a, b, order))
           key == [a \in S |-> Position(p.beats, a)]
<1>1. \A a \in S : Position(p.beats, a) \in Nat
  <2>1. Len(p.beats) \in Nat
    BY DEF Formed
  <2> QED BY <2>1, PositionIs
<1>2. key \in [S -> Nat] /\ \A a \in S : key[a] = Position(p.beats, a)
  BY <1>1
<1>3. \A x, y \in S : Fresher(p, y, x, order) <=> Ahead(key, order, y, x)
  BY <1>2 DEF Fresher, Ahead
<1>4. \A x \in S : {y \in S : Fresher(p, y, x, order)} = {y \in S : Ahead(key, order, y, x)}
  BY <1>3
<1>5. /\ DOMAIN seq = 1 .. Cardinality(S)
      /\ \A i \in 1 .. Cardinality(S) :
           seq[i] = CHOOSE x \in S : Cardinality({y \in S : Fresher(p, y, x, order)}) = i - 1
  BY Zenon DEF Sorted
<1>6. S \in SUBSET Accounts
  OBVIOUS
<1> HIDE DEF seq, key
<1>7. \A i \in 1 .. Cardinality(S) :
        (\E x \in S : Cardinality({y \in S : Fresher(p, y, x, order)}) = i - 1)
        => seq[i] \in S /\ Cardinality({y \in S : Fresher(p, y, seq[i], order)}) = i - 1
  <2> HIDE DEF S
  <2> QED BY <1>5, Zenon
<1>8. \A i \in 1 .. Cardinality(S) :
        (\E x \in S : Cardinality({y \in S : Ahead(key, order, y, x)}) = i - 1)
        => seq[i] \in S /\ Cardinality({y \in S : Ahead(key, order, y, seq[i])}) = i - 1
  <2> HIDE DEF S
  <2> QED BY <1>4, <1>7, Zenon
<1>9. Lists(seq, S)
  <2> HIDE DEF S
  <2> QED BY <1>2, <1>5, <1>6, <1>8, AheadLists, Zenon
<1> QED BY <1>9, Zenon DEF seq

\* The two loops over spammers and offenders.
EqualizeOp(c, s, round) == EqualizeRound(s, round)
EqualizeInv(c, seq, i, s) ==
  /\ DOMAIN s = {"p", "off", "spam"}
  /\ Shrinks(c, s.p)
  /\ s.off \in Seq(Accounts \ c.locals) /\ s.spam \in Seq(Accounts \ c.locals)
Equalizing == INSTANCE FoldRule WITH Op <- EqualizeOp, Inv <- EqualizeInv

\* One round, whichever of its cases applies.
LEMMA EqualizeRoundShrinks ==
  ASSUME NEW p, NEW seq, NEW i, NEW j, NEW round, NEW s, EqualizeInv(p, seq, i, s)
  PROVE  EqualizeInv(p, seq, j, EqualizeRound(s, round))
<1> DEFINE n == Len(s.off)
           r == EqualizeRound(s, round)
           x == TrimAll(s.p, SubSeq(s.off, 1, n - 1))
           y == TrimAll(s.p, s.off)
           A1 == [s EXCEPT !.p = x]
           A2 == [s EXCEPT !.off = Append(@, Head(s.spam)), !.spam = Tail(@)]
           A3 == [s EXCEPT !.p = y]
<1>0. /\ DOMAIN s = {"p", "off", "spam"} /\ Shrinks(p, s.p) /\ Indexed(s.p) /\ s.p.locals = p.locals
      /\ s.off \in Seq(Accounts \ p.locals) /\ s.spam \in Seq(Accounts \ p.locals) /\ n \in Nat
  BY DEF EqualizeInv, Shrinks, Moves
<1>1. \/ r = s
      \/ n > 1 /\ r = A1
      \/ s.spam # <<>> /\ r = A2
      \/ r = A3
  BY Zenon DEF EqualizeRound, TrimAll
<1> HIDE DEF r
<1>2. CASE r = s
  BY <1>0, <1>2 DEF EqualizeInv, r
<1>3. CASE n > 1 /\ r = A1
  <2> DEFINE t == SubSeq(s.off, 1, n - 1)
  <2>1. DOMAIN t = 1 .. n - 1 /\ n - 1 \in Nat /\ \A k \in 1 .. n - 1 : t[k] \in Accounts \ s.p.locals
    BY <1>0, <1>3
  <2> HIDE DEF t
  <2>2. Shrinks(s.p, TrimAll(s.p, t))
    BY <1>0, <2>1, TrimAllShrinks
  <2>3. Shrinks(p, x)
    BY <1>0, <2>2, ShrinksTrans DEF t
  <2> HIDE DEF x
  <2>4. DOMAIN r = {"p", "off", "spam"} /\ r.p = x /\ r.off = s.off /\ r.spam = s.spam
    BY <1>0, <1>3
  <2> QED BY <1>0, <2>3, <2>4 DEF EqualizeInv, r
<1>4. CASE s.spam # <<>> /\ r = A2
  <2>1. DOMAIN r = {"p", "off", "spam"} /\ r.p = s.p /\ r.off = Append(s.off, Head(s.spam)) /\ r.spam = Tail(s.spam)
    BY <1>0, <1>4
  <2>2. r.off \in Seq(Accounts \ p.locals) /\ r.spam \in Seq(Accounts \ p.locals)
    BY <1>0, <1>4, <2>1
  <2> QED BY <1>0, <2>1, <2>2 DEF EqualizeInv, r
<1>5. CASE r = A3
  <2>1. DOMAIN s.off = 1 .. n /\ \A k \in 1 .. n : s.off[k] \in Accounts \ s.p.locals
    BY <1>0
  <2>2. Shrinks(s.p, y)
    BY <1>0, <2>1, TrimAllShrinks
  <2>3. Shrinks(p, y)
    BY <1>0, <2>2, ShrinksTrans
  <2> HIDE DEF y
  <2>4. DOMAIN r = {"p", "off", "spam"} /\ r.p = y /\ r.off = s.off /\ r.spam = s.spam
    BY <1>0, <1>5
  <2> QED BY <1>0, <2>3, <2>4 DEF EqualizeInv, r
<1> QED BY <1>1, <1>2, <1>3, <1>4, <1>5

\* Before the first round there are spammers and no offenders.
LEMMA EqualizeStarts ==
  ASSUME NEW p, Indexed(p), NEW order \in Orders, NEW seq
  PROVE  EqualizeInv(p, seq, 0, [p |-> p, off |-> <<>>, spam |-> Spammers(p, order)])
<1> DEFINE S == {a \in Accounts \ p.locals : Size(p.pending, a) > AccountSlots}
<1>1. Lists(Spammers(p, order), S)
  BY SpammersList DEF Indexed
<1>2. S \in SUBSET (Accounts \ p.locals)
  OBVIOUS
<1> DEFINE At1(i) == CHOOSE x \in S : Cardinality({y \in S : Larger(p.pending, y, x, order)}) = i - 1
           f == [i \in 1 .. Cardinality(S) |-> At1(i)]
<1>5. Spammers(p, order) = f
  BY Zenon DEF Spammers, Sorted
<1> HIDE DEF S, At1
<1>6. Cardinality(S) \in Nat /\ \A i \in 1 .. Cardinality(S) : f[i] \in Accounts \ p.locals
  BY <1>1, <1>2, <1>5 DEF Lists
<1>3. Spammers(p, order) \in Seq(Accounts \ p.locals)
  BY <1>5, <1>6
<1>4. Shrinks(p, p)
  BY ShrinksRefl
<1> QED BY <1>3, <1>4 DEF EqualizeInv

\* The pending limit takes transactions of spammers out.
LEMMA EqualizeShrinks ==
  ASSUME NEW p, Indexed(p), NEW order \in Orders
  PROVE  Shrinks(p, Equalize(p, order))
<1> DEFINE base == [p |-> p, off |-> <<>>, spam |-> Spammers(p, order)]
           n == Cardinality(p.pending) + Len(order)
           seq == [i \in 1 .. n |-> i]
<1>1. Equalize(p, order) = Equalizing!Fold(p, base, seq).p
  BY Zenon DEF Equalize, Equalizing!Fold, EqualizeOp,
       FoldLeft, MapThenFoldSet, Equalizing!Unfolds, Equalizing!Top, Max
<1>2. n \in Nat /\ DOMAIN seq = 1 .. n
  <2>1. Len(order) \in Nat
    BY OrderLists
  <2>2. Cardinality(p.pending) \in Nat
    BY FS_CardinalityType DEF Indexed, Formed
  <2> QED BY <2>1, <2>2
<1>3. EqualizeInv(p, seq, 0, base)
  BY EqualizeStarts
<1> HIDE DEF base, seq, n
<1>4. \A i \in 1 .. n : \A s : EqualizeInv(p, seq, i - 1, s) => EqualizeInv(p, seq, i, EqualizeOp(p, s, seq[i]))
  BY EqualizeRoundShrinks DEF EqualizeOp
<1>5. EqualizeInv(p, seq, n, Equalizing!Fold(p, base, seq))
  BY <1>2, <1>3, <1>4, Equalizing!FoldInduction, Zenon
<1> QED BY <1>1, <1>5 DEF EqualizeInv

\* The loop over addresses.
LimitOp(c, s, a) == LimitStep(s, a)
LimitInv(c, seq, i, s) == Shrinks(c, s.p)
Limiting == INSTANCE FoldRule WITH Op <- LimitOp, Inv <- LimitInv

\* One address.
LEMMA LimitStepShrinks ==
  ASSUME NEW s, Indexed(s.p), NEW a \in Accounts, a \notin s.p.locals
  PROVE  Shrinks(s.p, LimitStep(s, a).p)
<1> DEFINE list == Of(s.p.queue, a)
           size == Cardinality(list)
           over == Exceeding(list, size - s.drop)
<1>1. Lists(Rising(list), list) /\ \A t \in list : t.from = a
  BY QueuedOf
<1>2. over \in SUBSET list
  BY DEF Exceeding
<1> HIDE DEF over
<1>3. Lists(Falling(over), over) /\ \A t \in over : t.from = a
  BY <1>1, <1>2, QueuedOf
<1>4. Shrinks(s.p, RemoveSeq(s.p, Rising(list), TRUE))
  <2> HIDE DEF list
  <2> QED BY <1>1, RemoveSeqShrinks DEF Lists
<1>5. Shrinks(s.p, RemoveSeq(s.p, Falling(over), TRUE))
  BY <1>3, RemoveSeqShrinks DEF Lists
<1>6. LimitStep(s, a).p = RemoveSeq(s.p, Rising(list), TRUE) \/ LimitStep(s, a).p = RemoveSeq(s.p, Falling(over), TRUE)
  BY DEF LimitStep, over
<1> QED BY <1>4, <1>5, <1>6

\* The queue limit takes transactions out, of accounts that are not local.
LEMMA LimitQueueShrinks ==
  ASSUME NEW p, Indexed(p), NEW order \in Orders
  PROVE  Shrinks(p, LimitQueue(p, order))
<1> DEFINE S == {a \in Accounts \ p.locals : Of(p.queue, a) # {}}
           seq == Sorted(S, LAMBDA a, b : Fresher(p, a, b, order))
           base == [p |-> p, drop |-> Cardinality(p.queue) - GlobalQueue]
           n == Cardinality(S)
<1>1. LimitQueue(p, order) = p \/ LimitQueue(p, order) = Limiting!Fold(p, base, seq).p
  BY Zenon DEF LimitQueue, Limiting!Fold, LimitOp,
       FoldLeft, MapThenFoldSet, Limiting!Unfolds, Limiting!Top, Max
<1>2. Lists(seq, S)
  BY AddressesList DEF Indexed
<1> HIDE DEF seq
<1>3. n \in Nat /\ DOMAIN seq = 1 .. n /\ \A i \in 1 .. n : seq[i] \in Accounts /\ seq[i] \notin p.locals
  BY <1>2 DEF Lists
<1>4. LimitInv(p, seq, 0, base)
  BY ShrinksRefl DEF LimitInv
<1>5. ASSUME NEW i \in 1 .. n, NEW s, LimitInv(p, seq, i - 1, s)
      PROVE  LimitInv(p, seq, i, LimitOp(p, s, seq[i]))
  <2>1. Shrinks(p, s.p) /\ Indexed(s.p) /\ s.p.locals = p.locals
    BY <1>5 DEF LimitInv, Shrinks, Moves
  <2>2. Shrinks(s.p, LimitStep(s, seq[i]).p)
    BY <1>3, <2>1, LimitStepShrinks
  <2>3. Shrinks(p, LimitStep(s, seq[i]).p)
    BY <2>1, <2>2, ShrinksTrans
  <2> QED BY <2>3 DEF LimitInv, LimitOp
<1> HIDE DEF n, base, S
<1>6. LimitInv(p, seq, n, Limiting!Fold(p, base, seq))
  BY <1>3, <1>4, <1>5, Limiting!FoldInduction, Zenon
<1> QED BY <1>1, <1>6, ShrinksRefl DEF LimitInv

-----------------------------------------------------------------------------
(* Fair slots. *)
\* The last transaction of a list (txs[len(txs)-1] in reset).
LEMMA MaxNonce ==
  ASSUME NEW S \in SUBSET Txs, IsFiniteSet(S), S # {}, \A s, t \in S : s.nonce = t.nonce => s = t
  PROVE  \E t \in S : Max({u.nonce : u \in S}) = t.nonce /\ \A u \in S : u.nonce <= t.nonce
<1> DEFINE n == Cardinality(S)
           seq == Rising(S)
           N == {u.nonce : u \in S}
<1>0. \A t \in S : t.nonce \in Nat
  BY TxIs
<1>1. Lists(seq, S) /\ \A i, j \in 1 .. n : i < j => seq[i].nonce < seq[j].nonce
  BY <1>0, RisingLists
<1> HIDE DEF seq
<1>2. n \in Nat /\ n # 0
  BY FS_EmptySet, FS_CardinalityType
<1>3. n \in 1 .. n /\ seq[n] \in S
  BY <1>1, <1>2 DEF Lists
<1>4. \A u \in S : u.nonce <= seq[n].nonce
  <2> TAKE u \in S
  <2>1. PICK i \in 1 .. n : seq[i] = u
    BY <1>1 DEF Lists
  <2>2. i = n \/ i < n
    BY <1>2
  <2> QED BY <1>0, <1>1, <1>3, <2>1, <2>2
<1>5. \E x \in N : \A y \in N : x >= y
  <2>1. seq[n].nonce \in N /\ \A y \in N : seq[n].nonce >= y
    BY <1>0, <1>3, <1>4
  <2> QED BY <2>1, Zenon
<1>6. Max(N) \in N /\ \A y \in N : Max(N) >= y
  BY <1>5, Zenon DEF Max
<1>7. PICK t \in S : Max(N) = t.nonce
  BY <1>6
<1>8. \A u \in S : u.nonce <= t.nonce
  BY <1>0, <1>6, <1>7
<1> QED BY <1>7, <1>8

\* The number of pending transactions of every account.
Sizes(p) == [a \in Accounts |-> Size(p.pending, a)]

\* They are natural numbers, and fewer transactions give no larger ones.
LEMMA SizesAre ==
  ASSUME NEW p, Formed(p)
  PROVE  /\ Sizes(p) \in [Accounts -> Nat]
         /\ \A a \in Accounts : Sizes(p)[a] = Size(p.pending, a)
         /\ \A q : q.pending \subseteq p.pending =>
              \A a \in Accounts : Size(q.pending, a) \in Nat /\ Size(q.pending, a) <= Size(p.pending, a)
<1>1. ASSUME NEW q, q.pending \subseteq p.pending, NEW a \in Accounts
      PROVE  Size(q.pending, a) \in Nat /\ Size(p.pending, a) \in Nat /\ Size(q.pending, a) <= Size(p.pending, a)
  <2>1. Of(q.pending, a) \in SUBSET Of(p.pending, a) /\ Of(p.pending, a) \in SUBSET p.pending /\ IsFiniteSet(p.pending)
    BY <1>1 DEF Of, Formed
  <2>2. IsFiniteSet(Of(p.pending, a)) /\ IsFiniteSet(Of(q.pending, a))
    BY <2>1, SubsetFinite
  <2> QED BY <2>1, <2>2, FS_Subset, FS_CardinalityType DEF Size
<1>2. \A a \in Accounts : Size(p.pending, a) \in Nat
  BY <1>1
<1> QED BY <1>1, <1>2 DEF Sizes

\* FairSlots of a pool.
Fair(p) ==
  Cardinality(p.pending) > GlobalSlots =>
    \A a \in Accounts \ p.locals : Size(p.pending, a) <= AccountSlots

\* Taking transactions out, or more local accounts, keep the slots fair.
LEMMA ShrinksFair ==
  ASSUME NEW p, Formed(p), Fair(p), NEW q, q.pending \subseteq p.pending, p.locals \subseteq q.locals
  PROVE  Fair(q)
<1>1. Cardinality(q.pending) <= Cardinality(p.pending) /\ Cardinality(p.pending) \in Nat
      /\ Cardinality(q.pending) \in Nat
  <2>1. IsFiniteSet(p.pending) /\ q.pending \in SUBSET p.pending
    BY DEF Formed
  <2> QED BY <2>1, FS_Subset, FS_CardinalityType
<1>2. \A a \in Accounts : /\ Size(q.pending, a) \in Nat /\ Size(p.pending, a) \in Nat
                          /\ Size(q.pending, a) <= Size(p.pending, a)
  BY SizesAre
<1> QED BY <1>1, <1>2, PoolAssumption DEF Fair

\* A cut takes one transaction of the account and none of another.
LEMMA TrimSizes ==
  ASSUME NEW p, Indexed(p), NEW a \in Accounts, a \notin p.locals, Size(p.pending, a) > 0
  PROVE  LET q == Trim(p, a) IN
           \A b \in Accounts : Size(q.pending, b) = IF b = a THEN Size(p.pending, a) - 1
                                                    ELSE Size(p.pending, b)
<1> DEFINE L == Of(p.pending, a)
           top == Exceeding(L, Cardinality(L) - 1)
           r == [p EXCEPT !.pending = @ \ top]
           q == Trim(p, a)
<1>0. Formed(p) /\ p.all = p.pending \cup p.queue /\ Distinct(p.all)
  BY DEF Indexed
<1>1. L \in SUBSET Txs /\ IsFiniteSet(L) /\ (\A t \in L : t.from = a) /\ Distinct(L) /\ L \in SUBSET p.pending
  <2>1. L \in SUBSET p.pending /\ IsFiniteSet(p.pending) /\ \A t \in L : t.from = a
    BY <1>0 DEF Of, Formed
  <2>2. IsFiniteSet(L)
    BY <2>1, SubsetFinite
  <2> QED BY <1>0, <2>1, <2>2 DEF Distinct, Formed
<1>2. q = Trims(r, top)
  BY Zenon DEF Trim, Trims, Size
<1>3. \A t \in top : top = {t}
  BY <1>1, TopOfList
<1>4. PICK t \in L : \A u \in L : u.nonce <= t.nonce
  <2>1. L # {}
    BY FS_EmptySet DEF Size
  <2>2. \A s, t \in L : s.nonce = t.nonce => s = t
    BY <1>1 DEF Distinct
  <2> QED BY <1>1, <2>1, <2>2, MaxNonce
<1>5. t \in top
  <2>1. {u \in L : u.nonce <= t.nonce} = L
    BY <1>4
  <2>2. Cardinality(L) \in Nat
    BY <1>1, FS_CardinalityType
  <2>3. Cardinality(L) > Cardinality(L) - 1
    BY <2>2
  <2>4. Cardinality({u \in L : u.nonce <= t.nonce}) > Cardinality(L) - 1
    BY <2>1, <2>3, Zenon
  <2> QED BY <2>4, Zenon DEF Exceeding
<1>6. top = {t} /\ t \in Txs /\ t.from = a /\ t \in p.pending
  BY <1>1, <1>3, <1>5
<1> HIDE DEF top
<1>7. Formed(r) /\ r.pending = p.pending \ {t}
  <2>1. /\ DOMAIN r = Fields /\ r.pending = p.pending \ {t} /\ r.all = p.all /\ r.queue = p.queue
        /\ r.beats = p.beats /\ r.nonce = p.nonce /\ r.locals = p.locals /\ r.base = p.base
        /\ r.merged = p.merged /\ r.journal = p.journal /\ r.priced = p.priced /\ r.stales = p.stales
    BY <1>0, <1>6 DEF Formed, Fields
  <2> HIDE DEF r
  <2>2. IsFiniteSet(p.pending) /\ r.pending \in SUBSET p.pending
    BY <1>0, <2>1 DEF Formed
  <2>3. IsFiniteSet(r.pending)
    BY <2>2, SubsetFinite
  <2> QED BY <1>0, <2>1, <2>3 DEF Formed
<1> HIDE DEF r
<1>8. q.pending = p.pending \ {t}
  <2>1. Dropped(r, Drop(r, t), {t})
    BY <1>7, DropDrops
  <2>2. LowerNonce(Drop(r, t), t).pending = Drop(r, t).pending
    BY <1>6, <2>1, LowerNonceIs DEF Dropped
  <2>3. q = LowerNonce(Drop(r, t), t)
    BY <1>2, <1>6, TrimsOne
  <2> QED BY <1>7, <2>1, <2>2, <2>3 DEF Dropped, SameLists
<1> HIDE DEF q
<1>9. ASSUME NEW b \in Accounts, b # a PROVE Size(q.pending, b) = Size(p.pending, b)
  <2>1. Of(q.pending, b) = Of(p.pending, b)
    BY <1>6, <1>8, <1>9 DEF Of
  <2> QED BY <2>1 DEF Size
<1>10. Size(q.pending, a) = Size(p.pending, a) - 1
  <2>1. Of(q.pending, a) = L \ {t}
    BY <1>8 DEF Of
  <2>2. Cardinality(L \ {t}) = Cardinality(L) - 1
    BY <1>1, FS_RemoveElement
  <2> HIDE DEF L
  <2>3. Size(q.pending, a) = Cardinality(L \ {t}) /\ Size(p.pending, a) = Cardinality(L)
    BY <2>1 DEF Size, L
  <2> QED BY <2>2, <2>3
<1> QED BY <1>9, <1>10 DEF q

\* A round of cuts over accounts that differ and have something to cut.
TrimSizesInv(c, seq, i, p) ==
  /\ Shrinks(c, p)
  /\ \A a \in Accounts : Size(p.pending, a) = IF \E j \in 1 .. i : seq[j] = a THEN Size(c.pending, a) - 1
                                              ELSE Size(c.pending, a)
CuttingAll == INSTANCE FoldRule WITH Op <- TrimAllOp, Inv <- TrimSizesInv

\* Every account of the round loses one transaction.
LEMMA TrimAllSizes ==
  ASSUME NEW p, Indexed(p), NEW seq, NEW n \in Nat, DOMAIN seq = 1 .. n,
         \A i \in 1 .. n : seq[i] \in Accounts \ p.locals /\ Size(p.pending, seq[i]) > 0,
         \A i, j \in 1 .. n : i # j => seq[i] # seq[j]
  PROVE  TrimSizesInv(p, seq, n, TrimAll(p, seq))
<1>1. TrimAll(p, seq) = CuttingAll!Fold(p, p, seq)
  BY Zenon DEF TrimAll, CuttingAll!Fold, TrimAllOp,
       FoldLeft, MapThenFoldSet, CuttingAll!Unfolds, CuttingAll!Top, Max
<1>2. TrimSizesInv(p, seq, 0, p)
  BY ShrinksRefl DEF TrimSizesInv
<1>3. \A i \in 1 .. n : \A s : TrimSizesInv(p, seq, i - 1, s) => TrimSizesInv(p, seq, i, TrimAllOp(p, s, seq[i]))
  <2> TAKE i \in 1 .. n
  <2> TAKE s
  <2> HAVE TrimSizesInv(p, seq, i - 1, s)
  <2> DEFINE q == Trim(s, seq[i])
  <2>1. Shrinks(p, s) /\ Indexed(s) /\ seq[i] \in Accounts /\ seq[i] \notin s.locals
    BY DEF TrimSizesInv, Shrinks, Moves
  <2>2. Shrinks(p, q)
    BY <2>1, TrimShrinks, ShrinksTrans
  <2>3. \A j \in 1 .. i - 1 : seq[j] # seq[i]
    OBVIOUS
  <2>4. Size(s.pending, seq[i]) = Size(p.pending, seq[i]) /\ Size(s.pending, seq[i]) > 0
    BY <2>1, <2>3 DEF TrimSizesInv
  <2>5. \A b \in Accounts : Size(q.pending, b) = IF b = seq[i] THEN Size(s.pending, seq[i]) - 1
                                                 ELSE Size(s.pending, b)
    BY <2>1, <2>4, TrimSizes
  <2> HIDE DEF q
  <2>6. \A a \in Accounts : (\E j \in 1 .. i : seq[j] = a) <=> (a = seq[i] \/ \E j \in 1 .. i - 1 : seq[j] = a)
    OBVIOUS
  <2>7. \A a \in Accounts : Size(q.pending, a) = IF \E j \in 1 .. i : seq[j] = a THEN Size(p.pending, a) - 1
                                                 ELSE Size(p.pending, a)
    <3> TAKE a \in Accounts
    <3>1. CASE a = seq[i]
      BY <2>4, <2>5, <2>6, <3>1
    <3>2. CASE a # seq[i]
      BY <2>5, <2>6, <3>2 DEF TrimSizesInv
    <3> QED BY <3>1, <3>2
  <2> QED BY <2>2, <2>7 DEF TrimSizesInv, TrimAllOp, q
<1>4. TrimSizesInv(p, seq, n, CuttingAll!Fold(p, p, seq))
  BY <1>2, <1>3, CuttingAll!FoldInduction, Zenon
<1> QED BY <1>1, <1>4

\* Offenders but the last have one size, not below the last one's, and spammers
\* still to come, the largest first, are not above it.
Leveled(sz, off, n, spam, m) ==
  /\ \A i \in 1 .. n : off[i] \in Accounts
  /\ \A i \in 1 .. m : spam[i] \in Accounts
  /\ \A i, j \in 1 .. n : i # j => off[i] # off[j]
  /\ \A i, j \in 1 .. m : i < j => spam[i] # spam[j] /\ sz[spam[i]] >= sz[spam[j]]
  /\ \A i \in 1 .. n, j \in 1 .. m : off[i] # spam[j] /\ sz[off[i]] >= sz[spam[j]]
  /\ \A i \in 1 .. n - 1 : sz[off[i]] = sz[off[n - 1]] /\ sz[off[i]] >= sz[off[n]]

\* The next spammer becomes an offender once the others are down to the last.
LEMMA TakeLevels ==
  ASSUME NEW sz \in [Accounts -> Nat], NEW n \in Nat, NEW m \in Nat, m > 0, NEW off, NEW spam,
         Leveled(sz, off, n, spam, m), n > 1 => ~ (sz[off[n - 1]] > sz[off[n]]),
         NEW o, NEW t, \A i \in 1 .. n : o[i] = off[i], o[n + 1] = spam[1],
         \A j \in 1 .. m - 1 : t[j] = spam[j + 1]
  PROVE  Leveled(sz, o, n + 1, t, m - 1)
<1>2. /\ \A i \in 1 .. n : off[i] \in Accounts /\ sz[off[i]] \in Nat
      /\ \A j \in 1 .. m : spam[j] \in Accounts /\ sz[spam[j]] \in Nat
  BY DEF Leveled
<1>3. 1 \in 1 .. m /\ \A j \in 1 .. m - 1 : j + 1 \in 1 .. m /\ 1 < j + 1
  OBVIOUS
<1>4. \A i \in 1 .. n : sz[off[i]] = sz[off[n]]
  <2> TAKE i \in 1 .. n
  <2>1. CASE i = n
    BY <2>1
  <2>2. CASE i # n
    <3>1. i \in 1 .. n - 1 /\ n > 1 /\ n - 1 \in 1 .. n /\ n \in 1 .. n
      BY <2>2
    <3>2. sz[off[i]] = sz[off[n - 1]] /\ sz[off[i]] >= sz[off[n]] /\ ~ (sz[off[n - 1]] > sz[off[n]])
      BY <3>1 DEF Leveled
    <3>3. sz[off[i]] \in Nat /\ sz[off[n]] \in Nat
      BY <1>2, <3>1
    <3> QED BY <3>2, <3>3
  <2> QED BY <2>1, <2>2
<1>5. \A i, j \in 1 .. n + 1 : i # j => o[i] # o[j]
  <2> TAKE i, j \in 1 .. n + 1
  <2> HAVE i # j
  <2>1. CASE i \in 1 .. n /\ j \in 1 .. n
    BY <2>1 DEF Leveled
  <2>2. CASE i = n + 1 /\ j \in 1 .. n
    BY <1>3, <2>2 DEF Leveled
  <2>3. CASE j = n + 1 /\ i \in 1 .. n
    BY <1>3, <2>3 DEF Leveled
  <2> QED BY <2>1, <2>2, <2>3
<1>6. \A i, j \in 1 .. m - 1 : i < j => t[i] # t[j] /\ sz[t[i]] >= sz[t[j]]
  <2> TAKE i, j \in 1 .. m - 1
  <2> HAVE i < j
  <2>1. i + 1 < j + 1 /\ i + 1 \in 1 .. m /\ j + 1 \in 1 .. m /\ t[i] = spam[i + 1] /\ t[j] = spam[j + 1]
    OBVIOUS
  <2>2. spam[i + 1] # spam[j + 1] /\ sz[spam[i + 1]] >= sz[spam[j + 1]]
    BY <2>1 DEF Leveled
  <2> QED BY <2>1, <2>2
<1>7. \A i \in 1 .. n + 1, j \in 1 .. m - 1 : o[i] # t[j] /\ sz[o[i]] >= sz[t[j]]
  <2> TAKE i \in 1 .. n + 1, j \in 1 .. m - 1
  <2>0. j + 1 \in 1 .. m /\ t[j] = spam[j + 1]
    BY <1>3
  <2>1. CASE i \in 1 .. n
    <3>1. o[i] = off[i] /\ off[i] # spam[j + 1] /\ sz[off[i]] >= sz[spam[j + 1]]
      BY <2>0, <2>1 DEF Leveled
    <3> QED BY <2>0, <3>1
  <2>2. CASE i = n + 1
    <3>1. spam[1] # spam[j + 1] /\ sz[spam[1]] >= sz[spam[j + 1]]
      BY <1>3 DEF Leveled
    <3> QED BY <2>0, <2>2, <3>1
  <2> QED BY <2>1, <2>2
<1>8. \A i \in 1 .. n : sz[o[i]] = sz[o[n]] /\ sz[o[i]] >= sz[o[n + 1]]
  <2> TAKE i \in 1 .. n
  <2>1. n \in 1 .. n /\ o[i] = off[i] /\ o[n] = off[n]
    OBVIOUS
  <2>2. sz[off[i]] >= sz[spam[1]]
    BY <1>3 DEF Leveled
  <2> QED BY <1>4, <2>1, <2>2
<1>9. /\ \A i \in 1 .. n + 1 : o[i] \in Accounts
      /\ \A i \in 1 .. m - 1 : t[i] \in Accounts
  <2>1. \A i \in 1 .. n + 1 : i \in 1 .. n \/ i = n + 1
    OBVIOUS
  <2> QED BY <1>2, <1>3, <2>1
<1>10. n + 1 - 1 = n
  OBVIOUS
<1> QED BY <1>5, <1>6, <1>7, <1>8, <1>9, <1>10 DEF Leveled

\* Cutting the offenders down towards the last, by one.
LEMMA CutLevels ==
  ASSUME NEW sz \in [Accounts -> Nat], NEW n \in Nat, NEW m \in Nat, NEW off, NEW spam,
         Leveled(sz, off, n, spam, m), n > 1, sz[off[n - 1]] > sz[off[n]],
         NEW new \in [Accounts -> Nat],
         \A a \in Accounts : new[a] = IF \E j \in 1 .. n - 1 : off[j] = a THEN sz[a] - 1 ELSE sz[a]
  PROVE  Leveled(new, off, n, spam, m)
<1>1. /\ n \in 1 .. n /\ n - 1 \in 1 .. n - 1 /\ \A i \in 1 .. n - 1 : i \in 1 .. n /\ i # n
      /\ \A i \in 1 .. n : off[i] \in Accounts /\ sz[off[i]] \in Nat
      /\ \A j \in 1 .. m : spam[j] \in Accounts /\ sz[spam[j]] \in Nat
  BY DEF Leveled
<1>2. \A i \in 1 .. n - 1 : new[off[i]] = sz[off[i]] - 1 /\ sz[off[i]] > sz[off[n]]
  <2> TAKE i \in 1 .. n - 1
  <2>1. sz[off[i]] = sz[off[n - 1]]
    BY DEF Leveled
  <2>2. new[off[i]] = sz[off[i]] - 1
    BY <1>1
  <2> QED BY <2>1, <2>2
<1>3. new[off[n]] = sz[off[n]]
  <2>1. \A j \in 1 .. n - 1 : off[j] # off[n]
    BY <1>1 DEF Leveled
  <2> QED BY <1>1, <2>1
<1>4. \A j \in 1 .. m : new[spam[j]] = sz[spam[j]]
  <2> TAKE j \in 1 .. m
  <2>1. \A i \in 1 .. n - 1 : off[i] # spam[j]
    BY <1>1 DEF Leveled
  <2> QED BY <1>1, <2>1
<1>5. \A i \in 1 .. n, j \in 1 .. m : off[i] # spam[j] /\ new[off[i]] >= new[spam[j]]
  <2> TAKE i \in 1 .. n, j \in 1 .. m
  <2>0. sz[off[n]] >= sz[spam[j]] /\ off[i] # spam[j]
    BY <1>1 DEF Leveled
  <2>1. CASE i = n
    BY <1>3, <1>4, <2>0, <2>1
  <2>2. CASE i # n
    <3>1. i \in 1 .. n - 1
      BY <2>2
    <3>2. /\ new[off[i]] = sz[off[i]] - 1 /\ sz[off[i]] > sz[off[n]] /\ new[spam[j]] = sz[spam[j]]
          /\ sz[off[i]] \in Nat /\ sz[off[n]] \in Nat /\ sz[spam[j]] \in Nat
      BY <1>1, <1>2, <1>4, <3>1
    <3> QED BY <2>0, <3>2
  <2> QED BY <2>1, <2>2
<1>6. \A i \in 1 .. n - 1 : new[off[i]] = new[off[n - 1]] /\ new[off[i]] >= new[off[n]]
  <2> TAKE i \in 1 .. n - 1
  <2>1. sz[off[i]] = sz[off[n - 1]]
    BY DEF Leveled
  <2>2. /\ new[off[i]] = sz[off[i]] - 1 /\ new[off[n - 1]] = sz[off[n - 1]] - 1 /\ sz[off[i]] > sz[off[n]]
        /\ sz[off[i]] \in Nat /\ sz[off[n]] \in Nat
    BY <1>1, <1>2
  <2> QED BY <1>3, <2>1, <2>2
<1>7. \A i, j \in 1 .. m : i < j => spam[i] # spam[j] /\ new[spam[i]] >= new[spam[j]]
  BY <1>4 DEF Leveled
<1> QED BY <1>5, <1>6, <1>7 DEF Leveled

\* Cutting all offenders by one when no spammer is left.
LEMMA CutAllLevels ==
  ASSUME NEW sz \in [Accounts -> Nat], NEW n \in Nat, NEW off, NEW spam,
         Leveled(sz, off, n, spam, 0), NEW new \in [Accounts -> Nat],
         \A a \in Accounts : new[a] = IF \E j \in 1 .. n : off[j] = a THEN sz[a] - 1 ELSE sz[a]
  PROVE  Leveled(new, off, n, spam, 0)
<1>1. \A i \in 1 .. n : off[i] \in Accounts /\ sz[off[i]] \in Nat
  BY DEF Leveled
<1>2. \A i \in 1 .. n : new[off[i]] = sz[off[i]] - 1
  BY <1>1
<1>4. \A i \in 1 .. n - 1 : i \in 1 .. n /\ n - 1 \in 1 .. n /\ n \in 1 .. n
  OBVIOUS
<1>5. \A i \in 1 .. n - 1 : new[off[i]] = new[off[n - 1]] /\ new[off[i]] >= new[off[n]]
  <2> TAKE i \in 1 .. n - 1
  <2>1. sz[off[i]] = sz[off[n - 1]] /\ sz[off[i]] >= sz[off[n]]
    BY DEF Leveled
  <2>2. /\ new[off[i]] = sz[off[i]] - 1 /\ new[off[n - 1]] = sz[off[n - 1]] - 1 /\ new[off[n]] = sz[off[n]] - 1
        /\ sz[off[i]] \in Nat /\ sz[off[n]] \in Nat
    BY <1>1, <1>2, <1>4
  <2> QED BY <2>1, <2>2
<1> QED BY <1>5 DEF Leveled

\* Fewer transactions of one account are fewer transactions.
LEMMA FewerPending ==
  ASSUME NEW p, Formed(p), NEW q, q.pending \subseteq p.pending, NEW a,
         Size(q.pending, a) # Size(p.pending, a)
  PROVE  /\ Cardinality(q.pending) \in Nat /\ Cardinality(p.pending) \in Nat
         /\ Cardinality(q.pending) + 1 <= Cardinality(p.pending)
<1>1. q.pending # p.pending
  BY DEF Size
<1>2. IsFiniteSet(p.pending) /\ q.pending \in SUBSET p.pending
  BY DEF Formed
<1>3. /\ Cardinality(q.pending) \in Nat /\ Cardinality(p.pending) \in Nat
      /\ Cardinality(q.pending) <= Cardinality(p.pending) /\ Cardinality(q.pending) # Cardinality(p.pending)
  BY <1>1, <1>2, FS_Subset, FS_CardinalityType
<1> QED BY <1>3

\* The two loops have nothing left to do.
Idle(s) ==
  LET n == Len(s.off) IN
    \/ Cardinality(s.p.pending) <= GlobalSlots
    \/ /\ s.spam = <<>>
       /\ n > 1 => ~ (Size(s.p.pending, s.off[n - 1]) > Size(s.p.pending, s.off[n]))
       /\ n > 0 => ~ (Size(s.p.pending, s.off[n]) > AccountSlots)

\* The loops on pool c after i rounds: every account over its slots is known, and
\* each round has taken a transaction or a spammer unless the loops have ended.
LevelInv(c, seq, i, s) ==
  /\ EqualizeInv(c, seq, i, s)
  /\ Leveled(Sizes(s.p), s.off, Len(s.off), s.spam, Len(s.spam))
  /\ \A a \in Accounts \ c.locals : Size(s.p.pending, a) > AccountSlots =>
       \/ \E j \in 1 .. Len(s.off) : s.off[j] = a
       \/ \E j \in 1 .. Len(s.spam) : s.spam[j] = a
  /\ \/ Idle(s)
     \/ Cardinality(s.p.pending) + Len(s.spam) + i <= Cardinality(c.pending) + Cardinality(Accounts)
Leveling == INSTANCE FoldRule WITH Op <- EqualizeOp, Inv <- LevelInv

\* Once the loops have ended no account is over its slots, or the pool is not.
LEMMA IdleFair ==
  ASSUME NEW c, NEW seq, NEW i, NEW s, LevelInv(c, seq, i, s), Idle(s)
  PROVE  Fair(s.p)
<1> DEFINE n == Len(s.off)
           sz == Sizes(s.p)
<1>0. /\ Formed(s.p) /\ s.p.locals = c.locals /\ n \in Nat
      /\ Leveled(sz, s.off, n, s.spam, Len(s.spam))
  BY DEF LevelInv, EqualizeInv, Shrinks, Moves, Indexed
<1>1. CASE Cardinality(s.p.pending) <= GlobalSlots
  BY <1>0, <1>1, FS_CardinalityType, PoolAssumption DEF Fair, Formed
<1>2. CASE ~ (Cardinality(s.p.pending) <= GlobalSlots)
  <2>1. /\ s.spam = <<>>
        /\ n > 1 => ~ (Size(s.p.pending, s.off[n - 1]) > Size(s.p.pending, s.off[n]))
        /\ n > 0 => ~ (Size(s.p.pending, s.off[n]) > AccountSlots)
    BY <1>2 DEF Idle
  <2>2. sz \in [Accounts -> Nat] /\ \A a \in Accounts : sz[a] = Size(s.p.pending, a)
    BY <1>0, SizesAre
  <2> HIDE DEF sz, n
  <2>3. \A j \in 1 .. n : s.off[j] \in Accounts
    BY <1>0 DEF Leveled
  <2>4. ASSUME NEW j \in 1 .. n PROVE Size(s.p.pending, s.off[j]) <= AccountSlots
    <3>1. n \in 1 .. n /\ n > 0 /\ AccountSlots \in Nat
      BY <1>0, PoolAssumption
    <3>2. sz[s.off[n]] \in Nat /\ sz[s.off[n]] <= AccountSlots
      BY <2>1, <2>2, <2>3, <3>1
    <3>3. CASE j = n
      BY <2>2, <2>3, <3>1, <3>2, <3>3
    <3>4. CASE j # n
      <4>1. j \in 1 .. n - 1 /\ n > 1 /\ n - 1 \in 1 .. n
        BY <1>0, <3>4
      <4>2. sz[s.off[j]] = sz[s.off[n - 1]]
        BY <1>0, <4>1 DEF Leveled
      <4>3. sz[s.off[n - 1]] \in Nat /\ ~ (sz[s.off[n - 1]] > sz[s.off[n]])
        BY <2>1, <2>2, <2>3, <3>1, <4>1
      <4>4. sz[s.off[j]] <= AccountSlots
        BY <3>1, <3>2, <4>2, <4>3
      <4> QED BY <2>2, <2>3, <4>4
    <3> QED BY <3>3, <3>4
  <2>5. ASSUME NEW a \in Accounts \ c.locals PROVE Size(s.p.pending, a) <= AccountSlots
    <3>1. Size(s.p.pending, a) \in Nat /\ AccountSlots \in Nat
      BY <2>2, PoolAssumption
    <3>2. CASE Size(s.p.pending, a) > AccountSlots
      <4>1. \/ \E j \in 1 .. n : s.off[j] = a
            \/ \E j \in 1 .. Len(s.spam) : s.spam[j] = a
        BY <3>2 DEF LevelInv, n
      <4>2. Len(s.spam) = 0
        BY <2>1
      <4>3. PICK j \in 1 .. n : s.off[j] = a
        BY <4>1, <4>2
      <4> QED BY <2>4, <4>3
    <3> QED BY <3>1, <3>2
  <2> QED BY <1>0, <2>5 DEF Fair
<1> QED BY <1>1, <1>2

\* The loops with the pool of x cut: what is known of the accounts is kept, and
\* a transaction has gone.
LEMMA CutKnows ==
  ASSUME NEW c, Formed(c), NEW seq, NEW i \in Nat, NEW s, LevelInv(c, seq, i, s), ~ Idle(s), NEW r,
         EqualizeInv(c, seq, i + 1, r), r.off = s.off, r.spam = s.spam,
         Shrinks(s.p, r.p), NEW a \in Accounts, Size(r.p.pending, a) # Size(s.p.pending, a),
         Leveled(Sizes(r.p), s.off, Len(s.off), s.spam, Len(s.spam))
  PROVE  LevelInv(c, seq, i + 1, r)
<1>0. Formed(s.p) /\ r.p.pending \subseteq s.p.pending
  BY DEF LevelInv, EqualizeInv, Shrinks, Moves, Indexed
<1>1. /\ Cardinality(r.p.pending) \in Nat /\ Cardinality(s.p.pending) \in Nat
      /\ Cardinality(r.p.pending) + 1 <= Cardinality(s.p.pending)
  BY <1>0, FewerPending
<1>2. \A b \in Accounts : /\ Size(r.p.pending, b) \in Nat /\ Size(s.p.pending, b) \in Nat
                          /\ Size(r.p.pending, b) <= Size(s.p.pending, b)
  BY <1>0, SizesAre
<1>3. \A b \in Accounts \ c.locals : Size(r.p.pending, b) > AccountSlots =>
        \/ \E j \in 1 .. Len(s.off) : s.off[j] = b
        \/ \E j \in 1 .. Len(s.spam) : s.spam[j] = b
  <2> TAKE b \in Accounts \ c.locals
  <2> HAVE Size(r.p.pending, b) > AccountSlots
  <2>1. Size(s.p.pending, b) > AccountSlots
    BY <1>2, PoolAssumption
  <2> QED BY <2>1 DEF LevelInv
<1>4. Cardinality(s.p.pending) + Len(s.spam) + i <= Cardinality(c.pending) + Cardinality(Accounts)
  BY DEF LevelInv
<1>5. Len(s.spam) \in Nat /\ Cardinality(c.pending) + Cardinality(Accounts) \in Int
  <2>1. Len(s.spam) \in Nat
    BY DEF LevelInv, EqualizeInv
  <2>2. Cardinality(Accounts) \in Nat /\ Cardinality(c.pending) \in Nat
    BY FS_CardinalityType, PoolAssumption DEF Formed
  <2> QED BY <2>1, <2>2
<1>6. Cardinality(r.p.pending) + Len(s.spam) + (i + 1) <= Cardinality(c.pending) + Cardinality(Accounts)
  BY <1>1, <1>4, <1>5
<1> QED BY <1>3, <1>6, Zenon DEF LevelInv

\* A round: the earlier offenders lose a transaction, the next spammer is taken,
\* all offenders lose a transaction, or the loops have ended.
LEMMA EqualizeRoundLevels ==
  ASSUME NEW c, Formed(c), NEW seq, NEW i \in Nat, NEW s, LevelInv(c, seq, i, s), NEW round
  PROVE  LevelInv(c, seq, i + 1, EqualizeRound(s, round))
<1> DEFINE n == Len(s.off)
           m == Len(s.spam)
           r == EqualizeRound(s, round)
           sz == Sizes(s.p)
           larger == n > 1 /\ Size(s.p.pending, s.off[n - 1]) > Size(s.p.pending, s.off[n])
           cut == SubSeq(s.off, 1, n - 1)
           x == TrimAll(s.p, cut)
           y == TrimAll(s.p, s.off)
           A1 == [s EXCEPT !.p = x]
           A2 == [s EXCEPT !.off = Append(@, Head(s.spam)), !.spam = Tail(@)]
           A3 == [s EXCEPT !.p = y]
<1>0. /\ DOMAIN s = {"p", "off", "spam"} /\ Shrinks(c, s.p) /\ Indexed(s.p) /\ Formed(s.p)
      /\ s.p.locals = c.locals
      /\ s.off \in Seq(Accounts \ c.locals) /\ s.spam \in Seq(Accounts \ c.locals)
      /\ n \in Nat /\ m \in Nat /\ Leveled(sz, s.off, n, s.spam, m)
  BY DEF LevelInv, EqualizeInv, Shrinks, Moves, Indexed
<1>1. EqualizeInv(c, seq, i, s) /\ EqualizeInv(c, seq, i + 1, r)
  BY EqualizeRoundShrinks DEF LevelInv
<1>2. \/ r = s /\ Idle(s)
      \/ ~ (Cardinality(s.p.pending) <= GlobalSlots) /\ larger /\ r = A1
      \/ ~ (Cardinality(s.p.pending) <= GlobalSlots) /\ ~ larger /\ s.spam # <<>> /\ r = A2
      \/ /\ ~ (Cardinality(s.p.pending) <= GlobalSlots) /\ ~ larger /\ s.spam = <<>>
         /\ n > 0 /\ Size(s.p.pending, s.off[n]) > AccountSlots /\ r = A3
  BY Zenon DEF EqualizeRound, TrimAll, Idle
<1>3. sz \in [Accounts -> Nat] /\ \A a \in Accounts : sz[a] = Size(s.p.pending, a)
  BY <1>0, SizesAre
<1> SUFFICES LevelInv(c, seq, i + 1, r)
  OBVIOUS
<1> HIDE DEF r, sz
<1>4. /\ DOMAIN s.off = 1 .. n
      /\ \A j \in 1 .. n : s.off[j] \in Accounts \ c.locals
      /\ \A j \in 1 .. m : s.spam[j] \in Accounts \ c.locals
  BY <1>0
<1>5. CASE r = s /\ Idle(s)
  BY <1>1, <1>5, Zenon DEF LevelInv
<1>6. CASE ~ (Cardinality(s.p.pending) <= GlobalSlots) /\ larger /\ r = A1
  <2>1. n > 1 /\ sz[s.off[n - 1]] > sz[s.off[n]] /\ n - 1 \in 1 .. n /\ n \in 1 .. n /\ n - 1 \in 1 .. n - 1
    BY <1>0, <1>3, <1>4, <1>6
  <2>2. ~ Idle(s)
    BY <1>6 DEF Idle
  <2>3. DOMAIN cut = 1 .. n - 1 /\ n - 1 \in Nat /\ \A j \in 1 .. n - 1 : cut[j] = s.off[j]
    BY <1>0, <2>1
  <2> HIDE DEF cut, n
  <2>4. \A j \in 1 .. n - 1 : j \in 1 .. n
    BY <1>0
  <2>5. \A j \in 1 .. n - 1 : s.off[j] \in Accounts \ s.p.locals /\ Size(s.p.pending, s.off[j]) > 0
    <3> TAKE j \in 1 .. n - 1
    <3>1. sz[s.off[j]] = sz[s.off[n - 1]]
      BY <1>0 DEF Leveled
    <3>2. sz[s.off[n]] \in Nat /\ sz[s.off[j]] \in Nat
      BY <1>3, <1>4, <2>1, <2>4
    <3>3. sz[s.off[j]] > 0
      BY <2>1, <3>1, <3>2
    <3> QED BY <1>0, <1>3, <1>4, <2>4, <3>3
  <2>6. \A j, k \in 1 .. n - 1 : j # k => cut[j] # cut[k]
    BY <1>0, <2>3, <2>4 DEF Leveled
  <2>7. TrimSizesInv(s.p, cut, n - 1, x)
    BY <1>0, <2>3, <2>5, <2>6, TrimAllSizes
  <2> HIDE DEF x
  <2>8. DOMAIN r = {"p", "off", "spam"} /\ r.p = x /\ r.off = s.off /\ r.spam = s.spam
    BY <1>0, <1>6
  <2>9. Shrinks(s.p, r.p) /\ Formed(r.p)
    BY <2>7, <2>8 DEF TrimSizesInv, Shrinks, Moves, Indexed
  <2>10. Sizes(r.p) \in [Accounts -> Nat] /\ \A a \in Accounts : Sizes(r.p)[a] = Size(r.p.pending, a)
    BY <2>9, SizesAre
  <2>11. \A a \in Accounts : (\E j \in 1 .. n - 1 : cut[j] = a) <=> (\E j \in 1 .. n - 1 : s.off[j] = a)
    BY <2>3
  <2>12. \A a \in Accounts : Sizes(r.p)[a] = IF \E j \in 1 .. n - 1 : s.off[j] = a THEN sz[a] - 1 ELSE sz[a]
    BY <1>3, <2>7, <2>8, <2>10, <2>11 DEF TrimSizesInv
  <2>13. Leveled(Sizes(r.p), s.off, n, s.spam, m)
    BY <1>0, <1>3, <2>1, <2>10, <2>12, CutLevels
  <2>14. /\ s.off[n - 1] \in Accounts
         /\ Size(r.p.pending, s.off[n - 1]) # Size(s.p.pending, s.off[n - 1])
    <3>1. s.off[n - 1] \in Accounts /\ sz[s.off[n - 1]] \in Nat
      BY <1>3, <1>4, <2>1
    <3>2. Sizes(r.p)[s.off[n - 1]] = sz[s.off[n - 1]] - 1
      BY <2>1, <2>12, <3>1
    <3> QED BY <1>3, <2>10, <3>1, <3>2
  <2> QED BY <1>1, <2>2, <2>8, <2>9, <2>13, <2>14, CutKnows DEF n
<1>7. CASE ~ (Cardinality(s.p.pending) <= GlobalSlots) /\ ~ larger /\ s.spam # <<>> /\ r = A2
  <2>1. /\ r.p = s.p /\ r.off = Append(s.off, Head(s.spam)) /\ r.spam = Tail(s.spam)
    BY <1>0, <1>7
  <2>2. /\ m > 0 /\ Len(r.off) = n + 1 /\ Len(r.spam) = m - 1
        /\ \A j \in 1 .. n : r.off[j] = s.off[j]
        /\ r.off[n + 1] = s.spam[1]
        /\ \A j \in 1 .. m - 1 : r.spam[j] = s.spam[j + 1]
    BY <1>0, <1>7, <2>1
  <2>3. n > 1 => ~ (sz[s.off[n - 1]] > sz[s.off[n]])
    <3>1. n > 1 => n \in 1 .. n /\ n - 1 \in 1 .. n
      BY <1>0
    <3> QED BY <1>3, <1>4, <1>7, <3>1
  <2> HIDE DEF n, m
  <2>4. Leveled(sz, r.off, n + 1, r.spam, m - 1)
    <3>1. n \in Nat /\ m \in Nat /\ Leveled(sz, s.off, n, s.spam, m) /\ sz \in [Accounts -> Nat]
      BY <1>0, <1>3
    <3>2. m > 0 /\ (\A j \in 1 .. n : r.off[j] = s.off[j]) /\ r.off[n + 1] = s.spam[1]
      BY <2>2
    <3>3. \A j \in 1 .. m - 1 : r.spam[j] = s.spam[j + 1]
      BY <2>2
    <3> DEFINE o == r.off
               t == r.spam
    <3>4. (\A j \in 1 .. n : o[j] = s.off[j]) /\ o[n + 1] = s.spam[1] /\ \A j \in 1 .. m - 1 : t[j] = s.spam[j + 1]
      BY <3>2, <3>3
    <3> HIDE DEF o, t
    <3>5. Leveled(sz, o, n + 1, t, m - 1)
      BY <2>3, <3>1, <3>2, <3>4, TakeLevels
    <3> QED BY <3>5 DEF o, t
  <2>5. \A a \in Accounts \ c.locals : Size(r.p.pending, a) > AccountSlots =>
          \/ \E j \in 1 .. n + 1 : r.off[j] = a
          \/ \E j \in 1 .. m - 1 : r.spam[j] = a
    <3> TAKE a \in Accounts \ c.locals
    <3> HAVE Size(r.p.pending, a) > AccountSlots
    <3>1. \/ \E j \in 1 .. n : s.off[j] = a
          \/ \E j \in 1 .. m : s.spam[j] = a
      BY <2>1 DEF LevelInv, n, m
    <3>2. CASE \E j \in 1 .. n : s.off[j] = a
      <4>1. \A j \in 1 .. n : j \in 1 .. n + 1
        BY <1>0
      <4> QED BY <2>2, <3>2, <4>1
    <3>3. CASE \E j \in 1 .. m : s.spam[j] = a
      <4>1. PICK j \in 1 .. m : s.spam[j] = a
        BY <3>3
      <4>2. CASE j = 1
        <5>1. n + 1 \in 1 .. n + 1
          BY <1>0
        <5> QED BY <2>2, <4>1, <4>2, <5>1
      <4>3. CASE j # 1
        <5>1. j - 1 \in 1 .. m - 1 /\ (j - 1) + 1 = j
          BY <1>0, <4>3
        <5>2. r.spam[j - 1] = a
          BY <2>2, <4>1, <5>1
        <5> QED BY <5>1, <5>2
      <4> QED BY <4>2, <4>3
    <3> QED BY <3>1, <3>2, <3>3
  <2>6. ~ Idle(s)
    BY <1>7 DEF Idle
  <2>7. Cardinality(s.p.pending) + m + i <= Cardinality(c.pending) + Cardinality(Accounts)
    BY <2>6 DEF LevelInv, m
  <2>8. Cardinality(s.p.pending) \in Nat /\ Cardinality(c.pending) \in Nat /\ Cardinality(Accounts) \in Nat
    BY <1>0, FS_CardinalityType, PoolAssumption DEF Formed
  <2>9. Cardinality(s.p.pending) + (m - 1) + (i + 1) <= Cardinality(c.pending) + Cardinality(Accounts)
    BY <1>0, <2>7, <2>8
  <2> QED BY <1>1, <2>1, <2>2, <2>4, <2>5, <2>9, Zenon DEF LevelInv, sz
<1>8. CASE /\ ~ (Cardinality(s.p.pending) <= GlobalSlots) /\ ~ larger /\ s.spam = <<>>
           /\ n > 0 /\ Size(s.p.pending, s.off[n]) > AccountSlots /\ r = A3
  <2>1. n \in 1 .. n /\ sz[s.off[n]] > AccountSlots /\ AccountSlots \in Nat
    BY <1>0, <1>3, <1>4, <1>8, PoolAssumption
  <2>2. ~ Idle(s)
    BY <1>8 DEF Idle
  <2>3. m = 0
    BY <1>8
  <2> HIDE DEF n, m
  <2>4. \A j \in 1 .. n : s.off[j] \in Accounts \ s.p.locals /\ Size(s.p.pending, s.off[j]) > 0
    <3> TAKE j \in 1 .. n
    <3>1. sz[s.off[j]] \in Nat /\ sz[s.off[n]] \in Nat
      BY <1>3, <1>4, <2>1
    <3>2. sz[s.off[j]] >= sz[s.off[n]]
      <4>1. CASE j = n
        BY <3>1, <4>1
      <4>2. CASE j # n
        <5>1. j \in 1 .. n - 1
          BY <1>0, <4>2
        <5> QED BY <1>0, <5>1 DEF Leveled
      <4> QED BY <4>1, <4>2
    <3>3. sz[s.off[j]] > 0
      BY <2>1, <3>1, <3>2
    <3> QED BY <1>0, <1>3, <1>4, <3>3
  <2>5. \A j, k \in 1 .. n : j # k => s.off[j] # s.off[k]
    BY <1>0 DEF Leveled
  <2>6. TrimSizesInv(s.p, s.off, n, y)
    BY <1>0, <1>4, <2>4, <2>5, TrimAllSizes
  <2> HIDE DEF y
  <2>7. r.p = y /\ r.off = s.off /\ r.spam = s.spam
    BY <1>0, <1>8
  <2>8. Shrinks(s.p, r.p) /\ Formed(r.p)
    BY <2>6, <2>7 DEF TrimSizesInv, Shrinks, Moves, Indexed
  <2>9. Sizes(r.p) \in [Accounts -> Nat] /\ \A a \in Accounts : Sizes(r.p)[a] = Size(r.p.pending, a)
    BY <2>8, SizesAre
  <2>10. \A a \in Accounts : Sizes(r.p)[a] = IF \E j \in 1 .. n : s.off[j] = a THEN sz[a] - 1 ELSE sz[a]
    BY <1>3, <2>6, <2>7, <2>9 DEF TrimSizesInv
  <2>11. Leveled(Sizes(r.p), s.off, n, s.spam, m)
    BY <1>0, <1>3, <2>3, <2>9, <2>10, CutAllLevels
  <2>12. s.off[n] \in Accounts /\ Size(r.p.pending, s.off[n]) # Size(s.p.pending, s.off[n])
    <3>1. s.off[n] \in Accounts /\ sz[s.off[n]] \in Nat
      BY <1>3, <1>4, <2>1
    <3>2. Sizes(r.p)[s.off[n]] = sz[s.off[n]] - 1
      BY <2>1, <2>10, <3>1
    <3> QED BY <1>3, <2>9, <3>1, <3>2
  <2> QED BY <1>1, <2>2, <2>7, <2>8, <2>11, <2>12, CutKnows DEF n, m
<1> QED BY <1>2, <1>5, <1>6, <1>7, <1>8

\* The pending limit: enough rounds are run, and the slots are fair after them.
LEMMA EqualizeFair ==
  ASSUME NEW p, Indexed(p), NEW order \in Orders
  PROVE  Fair(Equalize(p, order))
<1> DEFINE spam == Spammers(p, order)
           base == [p |-> p, off |-> <<>>, spam |-> spam]
           n == Cardinality(p.pending) + Len(order)
           seq == [i \in 1 .. n |-> i]
           S == {a \in Accounts \ p.locals : Size(p.pending, a) > AccountSlots}
<1>0. Formed(p)
  BY DEF Indexed
<1>1. Equalize(p, order) = Leveling!Fold(p, base, seq).p
  BY Zenon DEF Equalize, Leveling!Fold, EqualizeOp,
       FoldLeft, MapThenFoldSet, Leveling!Unfolds, Leveling!Top, Max
<1>2. /\ Cardinality(p.pending) \in Nat /\ Cardinality(Accounts) \in Nat
      /\ n = Cardinality(p.pending) + Cardinality(Accounts) /\ DOMAIN seq = 1 .. n
  <2>1. Len(order) = Cardinality(Accounts)
    BY OrderLists
  <2>2. Cardinality(p.pending) \in Nat /\ Cardinality(Accounts) \in Nat
    BY <1>0, FS_CardinalityType, PoolAssumption DEF Formed
  <2> QED BY <2>1, <2>2
<1>3. EqualizeInv(p, seq, 0, base)
  BY EqualizeStarts
<1>4. /\ Lists(spam, S) /\ IsFiniteSet(S)
      /\ \A i, j \in 1 .. Cardinality(S) : i < j => Larger(p.pending, spam[i], spam[j], order)
  BY <1>0, SpammersList
<1>5. spam \in Seq(Accounts)
  <2>1. base.spam = spam
    OBVIOUS
  <2>2. base.spam \in Seq(Accounts \ p.locals)
    BY <1>3 DEF EqualizeInv
  <2> HIDE DEF spam, base
  <2>3. spam \in Seq(Accounts \ p.locals)
    BY <2>1, <2>2
  <2> QED BY <2>3
<1>6. /\ Sizes(p) \in [Accounts -> Nat] /\ \A a \in Accounts : Sizes(p)[a] = Size(p.pending, a)
  BY <1>0, SizesAre
<1> HIDE DEF spam
<1>7. Len(spam) = Cardinality(S) /\ Cardinality(S) \in Nat /\ Cardinality(S) <= Cardinality(Accounts)
  <2>1. S \in SUBSET Accounts /\ IsFiniteSet(Accounts)
    BY PoolAssumption
  <2> HIDE DEF S
  <2>2. Cardinality(S) \in Nat /\ DOMAIN spam = 1 .. Cardinality(S)
    BY <1>4 DEF Lists
  <2>3. Len(spam) = Cardinality(S)
    BY <1>5, <2>2
  <2> QED BY <2>1, <2>2, <2>3, FS_Subset
<1>8. /\ \A i \in 1 .. Len(spam) : spam[i] \in Accounts
      /\ \A i, j \in 1 .. Len(spam) : i < j => spam[i] # spam[j] /\ Sizes(p)[spam[i]] >= Sizes(p)[spam[j]]
      /\ \A a \in S : \E i \in 1 .. Len(spam) : spam[i] = a
  <2>1. \A i \in 1 .. Len(spam) : spam[i] \in Accounts
    BY <1>5
  <2>2. ASSUME NEW i \in 1 .. Len(spam), NEW j \in 1 .. Len(spam), i < j
        PROVE  spam[i] # spam[j] /\ Sizes(p)[spam[i]] >= Sizes(p)[spam[j]]
    <3>1. Larger(p.pending, spam[i], spam[j], order) /\ spam[i] \in Accounts /\ spam[j] \in Accounts
      BY <1>4, <1>7, <2>1, <2>2
    <3>2. Size(p.pending, spam[i]) \in Nat /\ Size(p.pending, spam[j]) \in Nat
      BY <1>6, <3>1
    <3>3. Position(order, spam[i]) \in Nat /\ Position(order, spam[j]) \in Nat
      BY <3>1, PositionsDiffer
    <3> QED BY <1>6, <3>1, <3>2, <3>3 DEF Larger
  <2> HIDE DEF S
  <2>3. \A a \in S : \E i \in 1 .. Len(spam) : spam[i] = a
    BY <1>4, <1>7 DEF Lists
  <2> QED BY <2>1, <2>2, <2>3
<1>9. LevelInv(p, seq, 0, base)
  <2>1. base.p = p /\ base.off = <<>> /\ base.spam = spam /\ Len(base.off) = 0
    OBVIOUS
  <2> HIDE DEF base
  <2>2. Leveled(Sizes(p), base.off, 0, spam, Len(spam))
    BY <1>8 DEF Leveled
  <2>3. Cardinality(p.pending) + Len(spam) + 0 <= Cardinality(p.pending) + Cardinality(Accounts)
    BY <1>2, <1>7
  <2>4. \A a \in Accounts \ p.locals : Size(p.pending, a) > AccountSlots => \E j \in 1 .. Len(spam) : spam[j] = a
    BY <1>8
  <2> QED BY <1>3, <2>1, <2>2, <2>3, <2>4 DEF LevelInv
<1> HIDE DEF base, seq, S
<1>10. \A i \in 1 .. n : \A s : LevelInv(p, seq, i - 1, s) => LevelInv(p, seq, i, EqualizeOp(p, s, seq[i]))
  <2> TAKE i \in 1 .. n
  <2> TAKE s
  <2> HAVE LevelInv(p, seq, i - 1, s)
  <2>1. i - 1 \in Nat /\ (i - 1) + 1 = i
    BY <1>2
  <2>2. LevelInv(p, seq, (i - 1) + 1, EqualizeRound(s, seq[i]))
    BY <1>0, <2>1, EqualizeRoundLevels
  <2> QED BY <2>1, <2>2 DEF EqualizeOp
<1> DEFINE s == Leveling!Fold(p, base, seq)
<1>11. n \in Nat
  BY <1>2
<1>12. LevelInv(p, seq, n, s)
  BY <1>2, <1>9, <1>10, <1>11, Leveling!FoldInduction, Zenon
<1> HIDE DEF s, n
<1>13. Idle(s)
  <2>1. CASE Cardinality(s.p.pending) + Len(s.spam) + n <= Cardinality(p.pending) + Cardinality(Accounts)
    <3>1. Cardinality(s.p.pending) \in Nat /\ Len(s.spam) \in Nat
      BY <1>12, FS_CardinalityType DEF LevelInv, EqualizeInv, Shrinks, Moves, Indexed, Formed
    <3>2. Cardinality(s.p.pending) <= GlobalSlots
      BY <1>2, <2>1, <3>1, PoolAssumption
    <3> QED BY <3>2 DEF Idle
  <2> QED BY <1>12, <2>1 DEF LevelInv
<1>14. Fair(s.p)
  BY <1>12, <1>13, IdleFair
<1> QED BY <1>1, <1>14 DEF s

\* Replacing a pending transaction in place changes no size.
LEMMA SwapFair ==
  ASSUME NEW p, Formed(p), Fair(p), NEW o \in p.pending, NEW tx, tx \notin p.pending, tx.from = o.from,
         NEW q, q.pending = (p.pending \ {o}) \cup {tx}, q.locals = p.locals
  PROVE  Fair(q)
<1>1. ASSUME NEW S, IsFiniteSet(S), o \in S, tx \notin S
      PROVE  Cardinality((S \ {o}) \cup {tx}) = Cardinality(S)
  <2>1. IsFiniteSet(S \ {o}) /\ Cardinality(S \ {o}) = Cardinality(S) - 1
    BY <1>1, FS_RemoveElement
  <2>2. Cardinality((S \ {o}) \cup {tx}) = Cardinality(S \ {o}) + 1
    BY <1>1, <2>1, FS_AddElement
  <2>3. Cardinality(S) \in Nat
    BY <1>1, FS_CardinalityType
  <2> QED BY <2>1, <2>2, <2>3
<1>2. IsFiniteSet(p.pending)
  BY DEF Formed
<1>3. Cardinality(q.pending) = Cardinality(p.pending)
  BY <1>1, <1>2
<1>4. ASSUME NEW a \in Accounts PROVE Size(q.pending, a) = Size(p.pending, a)
  <2>1. CASE a = o.from
    <3> DEFINE L == Of(p.pending, a)
    <3>1. L \in SUBSET p.pending /\ o \in L /\ tx \notin L /\ Of(q.pending, a) = (L \ {o}) \cup {tx}
      BY <2>1 DEF Of
    <3>2. IsFiniteSet(L)
      BY <1>2, <3>1, SubsetFinite
    <3> HIDE DEF L
    <3>3. Cardinality((L \ {o}) \cup {tx}) = Cardinality(L)
      BY <1>1, <3>1, <3>2
    <3> QED BY <3>1, <3>3 DEF Size, L
  <2>2. CASE a # o.from
    <3>1. Of(q.pending, a) = Of(p.pending, a)
      BY <2>2 DEF Of
    <3> QED BY <3>1 DEF Size
  <2> QED BY <2>1, <2>2
<1> QED BY <1>3, <1>4 DEF Fair

\* promoteExecutables leaves the slots fair, whatever they were before.
LEMMA PromoteExecutablesFair ==
  ASSUME NEW p, Indexed(p), NEW accounts \in SUBSET Accounts, NEW order \in Orders
  PROVE  Fair(PromoteExecutables(p, accounts, order))
<1> DEFINE q == PromoteAccounts(p, accounts, order)
           r == Equalize(q, order)
           s == LimitQueue(r, order)
<1>1. Indexed(q)
  BY PromoteAccountsAdvances DEF Advances, Moves
<1> HIDE DEF q
<1>2. Shrinks(q, r) /\ Fair(r)
  BY <1>1, EqualizeShrinks, EqualizeFair
<1> HIDE DEF r
<1>3. Indexed(r) /\ Formed(r)
  BY <1>2 DEF Shrinks, Moves, Indexed
<1>4. s.pending \subseteq r.pending /\ s.locals = r.locals
  BY <1>3, LimitQueueShrinks DEF Shrinks, Moves
<1> HIDE DEF s
<1>5. Fair(s)
  BY <1>2, <1>3, <1>4, ShrinksFair
<1>6. PromoteExecutables(p, accounts, order) = s
  BY Zenon DEF PromoteExecutables, s, r, q, PromoteAccounts
<1> QED BY <1>5, <1>6, Zenon

\* promoteExecutables.
LEMMA PromoteExecutablesAdvances ==
  ASSUME NEW p, Indexed(p), NEW accounts \in SUBSET Accounts, NEW order \in Orders
  PROVE  Advances(p, PromoteExecutables(p, accounts, order), accounts)
<1> DEFINE q == PromoteAccounts(p, accounts, order)
           r == Equalize(q, order)
           s == LimitQueue(r, order)
<1>1. Advances(p, q, accounts)
  BY PromoteAccountsAdvances
<1> HIDE DEF q
<1>2. Indexed(q)
  BY <1>1 DEF Advances, Moves
<1>3. Shrinks(q, r)
  BY <1>2, EqualizeShrinks
<1> HIDE DEF r
<1>4. Indexed(r)
  BY <1>3 DEF Shrinks, Moves
<1>5. Shrinks(r, s)
  BY <1>4, LimitQueueShrinks
<1> HIDE DEF s
<1>6. Advances(q, r, {}) /\ Advances(r, s, {})
  BY <1>3, <1>5, ShrinksAdvances
<1>7. Advances(p, s, (accounts \cup {}) \cup {})
  BY <1>1, <1>6, AdvancesTrans, Zenon
<1>8. (accounts \cup {}) \cup {} = accounts
  OBVIOUS
<1>9. PromoteExecutables(p, accounts, order) = s
  BY Zenon DEF PromoteExecutables, s, r, q, PromoteAccounts
<1> QED BY <1>7, <1>8, <1>9, Zenon

-----------------------------------------------------------------------------
(* Adding transactions. *)

\* The state allows all that is pooled.
AllValid(p) == \A t \in p.all : Valid(p, t)

\* No transaction of a local account is lost between p and q.
Outlives(p, q) ==
  /\ p.locals \subseteq q.locals
  /\ \A t \in p.all : t.from \in p.locals => \E u \in At(q.all, t) : u = t \/ Outbids(u, t)

\* q comes from p by adding transactions; the accounts in Y are still to be
\* promoted.
Adds(p, q, Y) ==
  /\ Indexed(q) /\ (Covers(p) => Covers(q)) /\ (Fair(p) => Fair(q))
  /\ q.base = p.base /\ q.merged = p.merged
  /\ \A X : Good(p, X) => Good(q, X \cup Y)
  /\ AllValid(p) => AllValid(q) /\ Outlives(p, q)

\* Outbidding is transitive, so a chain of replacements is one.
LEMMA OutbidsTrans ==
  ASSUME NEW t \in Txs, NEW u \in Txs, NEW v \in Txs, Outbids(u, t), Outbids(v, u)
  PROVE  Outbids(v, t)
<1>1. t.price \in Nat /\ u.price \in Nat /\ v.price \in Nat /\ PriceBump \in Nat
  BY TxIs, PoolAssumption
<1> DEFINE m == (t.price * (100 + PriceBump)) \div 100
<1>2. m \in Int
  <2>1. t.price * (100 + PriceBump) \in Int
    BY <1>1
  <2> QED BY <2>1
<1>3. u.price > t.price /\ u.price >= m /\ v.price > u.price
  BY DEF Outbids
<1> HIDE DEF m
<1>4. v.price > t.price /\ v.price >= m
  BY <1>1, <1>2, <1>3
<1> QED BY <1>4 DEF Outbids, m

\* Outliving composes.
LEMMA OutlivesTrans ==
  ASSUME NEW p, NEW q, NEW r, p.all \in SUBSET Txs, q.all \in SUBSET Txs, r.all \in SUBSET Txs,
         Outlives(p, q), Outlives(q, r)
  PROVE  Outlives(p, r)
<1>1. ASSUME NEW t \in p.all, t.from \in p.locals
      PROVE  \E v \in At(r.all, t) : v = t \/ Outbids(v, t)
  <2>1. PICK u \in At(q.all, t) : u = t \/ Outbids(u, t)
    BY <1>1 DEF Outlives
  <2>2. u \in q.all /\ u.from = t.from /\ u.nonce = t.nonce /\ u.from \in q.locals
    BY <1>1, <2>1 DEF At, Outlives
  <2>3. PICK v \in At(r.all, u) : v = u \/ Outbids(v, u)
    BY <2>2 DEF Outlives
  <2>4. v \in At(r.all, t) /\ v \in Txs /\ u \in Txs /\ t \in Txs
    BY <2>2, <2>3 DEF At
  <2>5. v = t \/ Outbids(v, t)
    BY <2>1, <2>3, <2>4, OutbidsTrans
  <2> QED BY <2>4, <2>5
<1> QED BY <1>1 DEF Outlives

\* While the state allows all, what leaves the pool is not local.
LEMMA MovesOutlives ==
  ASSUME NEW p, NEW q, Moves(p, q), AllValid(p) PROVE AllValid(q) /\ Outlives(p, q)
<1>1. \A t : Valid(q, t) <=> Valid(p, t)
  BY DEF Moves, Valid
<1>2. \A t \in p.all : t.from \in p.locals => t \in q.all
  BY DEF Moves, AllValid
<1> QED BY <1>1, <1>2 DEF Moves, AllValid, Outlives, At

\* Fewer accounts are promised more.
LEMMA GoodMore == ASSUME NEW p, NEW X, NEW Y, X \subseteq Y, Good(p, X) PROVE Good(p, Y)
BY DEF Good

\* Taking transactions out is a case of Adds.
LEMMA ShrinksAdds ==
  ASSUME NEW p, Formed(p), NEW q, Shrinks(p, q), NEW Y PROVE Adds(p, q, Y)
<1>1. \A X : Good(p, X) => Good(q, X \cup Y)
  <2> TAKE X
  <2> HAVE Good(p, X)
  <2>1. Good(q, X)
    BY DEF Shrinks, Moves
  <2> QED BY <2>1, GoodMore
<1>2. AllValid(p) => AllValid(q) /\ Outlives(p, q)
  BY MovesOutlives DEF Shrinks
<1>3. Fair(p) => Fair(q)
  BY ShrinksFair DEF Shrinks, Moves
<1> QED BY <1>1, <1>2, <1>3 DEF Shrinks, Moves, Adds

\* Additions compose.
LEMMA AddsTrans ==
  ASSUME NEW p, Indexed(p), NEW q, NEW r, NEW Y, NEW Z, Adds(p, q, Y), Adds(q, r, Z), Y \subseteq Z
  PROVE  Adds(p, r, Z)
<1>1. ASSUME NEW X, Good(p, X) PROVE Good(r, X \cup Z)
  <2>1. (X \cup Y) \cup Z = X \cup Z
    OBVIOUS
  <2>2. Good(r, (X \cup Y) \cup Z)
    BY <1>1 DEF Adds
  <2> QED BY <2>1, <2>2, Zenon
<1>2. ASSUME AllValid(p) PROVE AllValid(r) /\ Outlives(p, r)
  <2>1. p.all \in SUBSET Txs /\ q.all \in SUBSET Txs /\ r.all \in SUBSET Txs
    BY DEF Adds, Indexed, Formed
  <2>2. Outlives(p, q) /\ Outlives(q, r) /\ AllValid(r)
    BY <1>2 DEF Adds
  <2> QED BY <2>1, <2>2, OutlivesTrans
<1> QED BY <1>1, <1>2 DEF Adds

\* add's room for a new transaction comes from the cheapest that are not local.
LEMMA MakeRoomShrinks ==
  ASSUME NEW p, Indexed(p), NEW tx, NEW order \in Orders
  PROVE  Shrinks(p, MakeRoom(p, tx, order))
<1> DEFINE excess == Cardinality(p.all) - (GlobalSlots + GlobalQueue - 1)
           c == Cull(p, order, excess, {})
<1>1. Formed(c.p)
  BY CullCulls DEF Culled, Indexed
<1>2. LET r == c.p IN SameLists(r, c.p) /\ c.p.all = r.all /\ c.p.priced = r.priced /\ c.p.stales = r.stales
  BY DEF SameLists
<1>3. Shrinks(p, RemoveSeq(c.p, c.drop, FALSE))
  BY <1>1, <1>2, CullRemoves
<1>4. MakeRoom(p, tx, order) = p \/ MakeRoom(p, tx, order) = RemoveSeq(c.p, c.drop, FALSE)
  BY Zenon DEF MakeRoom
<1> QED BY <1>3, <1>4, ShrinksRefl

\* Transactions `old' of one account make place for a new one.
LEMMA SwapIs ==
  ASSUME NEW r, Formed(r), NEW old \in SUBSET Txs, IsFiniteSet(old), NEW a,
         \A t \in old : t.from = a, Distinct(old), NEW tx \in Txs, tx \notin r.all
  PROVE  LET q == Put(DropSeq(r, Rising(old)), tx) IN
           /\ Formed(q) /\ SameLists(r, q) /\ q.all = (r.all \ old) \cup {tx}
           /\ Covers(r) => Covers(q)
<1> DEFINE d == DropSeq(r, Rising(old))
<1>1. Lists(Rising(old), old)
  BY OneAccount
<1>2. Dropped(r, d, old)
  BY <1>1, DropListed
<1> HIDE DEF d
<1>3. Formed(d) /\ tx \notin d.all
  BY <1>2 DEF Dropped
<1>4. Added(d, Put(d, tx), tx)
  BY <1>3, PutAdds
<1> DEFINE q == Put(d, tx)
<1> HIDE DEF q
<1>5. Formed(q) /\ SameLists(r, q) /\ q.all = (r.all \ old) \cup {tx} /\ (Covers(r) => Covers(q))
  BY <1>2, <1>4 DEF Added, Dropped, SameLists, q
<1> QED BY <1>5 DEF q, d

\* journalTx leaves the lists alone.
LEMMA JournalTxIs ==
  ASSUME NEW p, Formed(p), NEW tx \in Txs
  PROVE  LET q == JournalTx(p, tx) IN
           /\ Formed(q) /\ q.all = p.all /\ q.pending = p.pending /\ q.queue = p.queue
           /\ q.locals = p.locals /\ q.base = p.base /\ q.merged = p.merged /\ q.nonce = p.nonce
           /\ q.priced = p.priced /\ q.stales = p.stales
<1> DEFINE q == JournalTx(p, tx)
<1>1. CASE tx.from \notin p.locals \/ ~ p.writer
  BY <1>1 DEF JournalTx
<1>2. CASE ~ (tx.from \notin p.locals \/ ~ p.writer)
  <2>1. /\ DOMAIN q = Fields /\ q.all = p.all /\ q.pending = p.pending /\ q.queue = p.queue
        /\ q.locals = p.locals /\ q.base = p.base /\ q.merged = p.merged /\ q.nonce = p.nonce
        /\ q.priced = p.priced /\ q.stales = p.stales /\ q.beats = p.beats
        /\ q.journal \in {p.journal, Append(p.journal, tx)}
    <3>1. q = [p EXCEPT !.journal = Append(@, tx), !.due = @ \cup {tx}]
      BY <1>2 DEF JournalTx
    <3> HIDE DEF q
    <3>2. DOMAIN p = Fields
      BY DEF Formed
    <3> QED BY <3>1, <3>2 DEF Fields
  <2> HIDE DEF q
  <2>2. q.journal \in Seq(Txs)
    <3>1. p.journal \in Seq(Txs)
      BY DEF Formed
    <3>2. Append(p.journal, tx) \in Seq(Txs)
      BY <3>1
    <3> QED BY <2>1, <3>1, <3>2, Zenon
  <2>3. Formed(q)
    BY <2>1, <2>2 DEF Formed
  <2> QED BY <2>1, <2>3 DEF q
<1> QED BY <1>1, <1>2

\* add replaces a pending transaction in place.
LEMMA ReplaceAdds ==
  ASSUME NEW p, Indexed(p), NEW tx \in Txs, tx \notin p.all, Valid(p, tx),
         At(p.pending, tx) # {}, Accepts(p.pending, tx), NEW Y
  PROVE  LET r == DropSeq([p EXCEPT !.pending = (@ \ At(@, tx)) \cup {tx}],
                          Rising(At(p.pending, tx)))
         IN  Adds(p, JournalTx(Put(r, tx), tx), Y)
<1> DEFINE old == At(p.pending, tx)
           r == [p EXCEPT !.pending = (@ \ At(@, tx)) \cup {tx}]
           m == Put(DropSeq(r, Rising(old)), tx)
           q == JournalTx(m, tx)
<1>0. /\ Formed(p) /\ p.all = p.pending \cup p.queue /\ p.pending \cap p.queue = {}
      /\ Distinct(p.all) /\ p.all \in SUBSET Txs
  BY DEF Indexed, Formed
<1>1. /\ old \in SUBSET p.pending /\ old \in SUBSET Txs /\ Distinct(old)
      /\ \A t \in old : t.from = tx.from /\ t.nonce = tx.nonce
  BY <1>0 DEF At, Distinct
<1>2. IsFiniteSet(old)
  BY <1>0, <1>1, SubsetFinite DEF Formed
<1>3. /\ DOMAIN r = Fields /\ r.pending = (p.pending \ old) \cup {tx} /\ r.all = p.all /\ r.queue = p.queue
      /\ r.beats = p.beats /\ r.nonce = p.nonce /\ r.locals = p.locals /\ r.base = p.base
      /\ r.merged = p.merged /\ r.priced = p.priced /\ r.stales = p.stales /\ r.journal = p.journal
  BY <1>0 DEF Formed, Fields
<1>4. old = At(p.pending, tx)
  OBVIOUS
<1> HIDE DEF r, old
<1>5. Formed(r)
  <2>1. IsFiniteSet(p.pending) /\ p.pending \ old \in SUBSET p.pending
    BY <1>0 DEF Formed
  <2>2. IsFiniteSet(p.pending \ old)
    BY <2>1, SubsetFinite
  <2>3. IsFiniteSet(r.pending)
    BY <1>3, <2>2, FS_AddElement
  <2>4. r.pending \in SUBSET Txs
    BY <1>0, <1>3
  <2> QED BY <1>0, <1>3, <2>3, <2>4 DEF Formed
<1>6. /\ Formed(m) /\ SameLists(r, m) /\ m.all = (r.all \ old) \cup {tx}
      /\ Covers(r) => Covers(m)
  <2>1. \A t \in old : t.from = tx.from
    BY <1>1
  <2> QED BY <1>1, <1>2, <1>3, <1>5, <2>1, SwapIs, Zenon
<1> HIDE DEF m
<1>7. /\ Formed(q) /\ q.all = m.all /\ q.pending = m.pending /\ q.queue = m.queue
      /\ q.locals = m.locals /\ q.base = m.base /\ q.merged = m.merged /\ q.nonce = m.nonce
      /\ q.priced = m.priced /\ q.stales = m.stales
  BY <1>6, JournalTxIs, Zenon
<1> HIDE DEF q
<1>8. /\ q.all = (p.all \ old) \cup {tx} /\ q.pending = (p.pending \ old) \cup {tx} /\ q.queue = p.queue
      /\ q.locals = p.locals /\ q.base = p.base /\ q.merged = p.merged /\ q.nonce = p.nonce
  BY <1>3, <1>6, <1>7 DEF SameLists
<1>9. Covers(p) => Covers(q)
  BY <1>3, <1>6, <1>7 DEF Covers
<1>10. PICK o \in old : TRUE
  BY <1>4
<1>11. \A u \in p.all : u.from = tx.from /\ u.nonce = tx.nonce => u \in old
  BY <1>0, <1>1, <1>10 DEF Distinct
<1>12. Indexed(q)
  <2>1. q.all = q.pending \cup q.queue /\ q.pending \cap q.queue = {}
    BY <1>0, <1>1, <1>8
  <2>2. Distinct(q.all)
    BY <1>0, <1>8, <1>11 DEF Distinct
  <2> QED BY <1>7, <2>1, <2>2 DEF Indexed
<1>13. \A t : Valid(q, t) <=> Valid(p, t)
  BY <1>8 DEF Valid
<1>14. ASSUME NEW X, Good(p, X) PROVE Good(q, X)
  <2>1. \A t \in q.pending : Valid(q, t)
    BY <1>8, <1>13, <1>14 DEF Good
  <2>2. \A t \in q.queue : t.from \notin X => Valid(q, t)
    BY <1>8, <1>13, <1>14 DEF Good
  <2>3. Runs(p) => Runs(q)
    <3> HAVE Runs(p)
    <3>1. tx.from \in Accounts /\ o.from = tx.from /\ o.nonce = tx.nonce /\ o \in p.pending
      BY <1>1, TxIs
    <3> SUFFICES ASSUME NEW b \in Accounts
                 PROVE  /\ StateNonce[p.base][b] <= p.nonce[b]
                        /\ \A u \in q.pending : u.from = b => u.nonce < p.nonce[b]
                        /\ \A n \in StateNonce[p.base][b] .. p.nonce[b] - 1 :
                             \E u \in q.pending : u.from = b /\ u.nonce = n
      BY <1>8 DEF Runs
    <3>2. StateNonce[p.base][b] <= p.nonce[b]
      BY DEF Runs
    <3>3. \A u \in q.pending : u.from = b => u.nonce < p.nonce[b]
      BY <1>8, <3>1 DEF Runs
    <3>4. ASSUME NEW n \in StateNonce[p.base][b] .. p.nonce[b] - 1
          PROVE  \E u \in q.pending : u.from = b /\ u.nonce = n
      <4>1. PICK u \in p.pending : u.from = b /\ u.nonce = n
        BY DEF Runs
      <4>2. CASE u \in old
        BY <1>1, <1>8, <4>1, <4>2
      <4>3. CASE u \notin old
        BY <1>8, <4>1, <4>3
      <4> QED BY <4>2, <4>3
    <3> QED BY <3>2, <3>3, <3>4
  <2>4. ~ q.merged => Runs(q) /\ \A t \in q.queue : t.from \notin X => t.nonce # q.nonce[t.from]
    BY <1>8, <1>14, <2>3 DEF Good
  <2> QED BY <2>1, <2>2, <2>4 DEF Good
<1>15. ASSUME NEW X, Good(p, X) PROVE Good(q, X \cup Y)
  <2>1. Good(q, X) /\ X \subseteq X \cup Y
    BY <1>14, <1>15
  <2> QED BY <2>1, GoodMore
<1>16. ASSUME AllValid(p) PROVE AllValid(q) /\ Outlives(p, q)
  <2>1. AllValid(q)
    BY <1>8, <1>13, <1>16 DEF AllValid
  <2>2. ASSUME NEW t \in p.all, t.from \in p.locals
        PROVE  \E u \in At(q.all, t) : u = t \/ Outbids(u, t)
    <3>1. CASE t \in old
      <4>1. tx \in At(q.all, t)
        BY <1>1, <1>8, <3>1 DEF At
      <4>2. Outbids(tx, t)
        BY <1>4, <3>1 DEF Accepts
      <4> QED BY <4>1, <4>2
    <3>2. CASE t \notin old
      <4>1. t \in At(q.all, t)
        BY <1>8, <3>2 DEF At
      <4> QED BY <4>1
    <3> QED BY <3>1, <3>2
  <2> QED BY <1>8, <2>1, <2>2 DEF Outlives
<1>17. Fair(p) => Fair(q)
  <2>1. old = {o} /\ o \in p.pending /\ tx.from = o.from /\ tx \notin p.pending
    BY <1>0, <1>1, <1>10 DEF Distinct
  <2>2. q.pending = (p.pending \ {o}) \cup {tx} /\ q.locals = p.locals
    BY <1>8, <2>1
  <2> QED BY <1>0, <2>1, <2>2, SwapFair
<1>18. Adds(p, q, Y)
  BY <1>8, <1>9, <1>12, <1>15, <1>16, <1>17 DEF Adds
<1> QED BY <1>18, Zenon DEF q, m, r, old

\* add queues a transaction.
LEMMA QueueAdds ==
  ASSUME NEW p, Indexed(p), NEW tx \in Txs, tx \notin p.all, Valid(p, tx), NEW local,
         At(p.pending, tx) = {}, Accepts(p.queue, tx), NEW Y,
         At(p.queue, tx) = {} => tx.from \in Y
  PROVE  Adds(p, JournalTx([EnqueueTx(p, tx) EXCEPT
                              !.locals = IF local THEN @ \cup {tx.from} ELSE @], tx), Y)
<1> DEFINE old == At(p.queue, tx)
           r == [p EXCEPT !.queue = (@ \ At(@, tx)) \cup {tx}]
           m == Put(DropSeq(r, Rising(old)), tx)
           l == [m EXCEPT !.locals = IF local THEN @ \cup {tx.from} ELSE @]
           q == JournalTx(l, tx)
<1>0. /\ Formed(p) /\ p.all = p.pending \cup p.queue /\ p.pending \cap p.queue = {}
      /\ Distinct(p.all) /\ p.all \in SUBSET Txs
  BY DEF Indexed, Formed
<1>1. /\ old \in SUBSET p.queue /\ old \in SUBSET Txs /\ Distinct(old)
      /\ \A t \in old : t.from = tx.from /\ t.nonce = tx.nonce
  BY <1>0 DEF At, Distinct
<1>2. IsFiniteSet(old)
  BY <1>0, <1>1, SubsetFinite DEF Formed
<1>3. /\ DOMAIN r = Fields /\ r.queue = (p.queue \ old) \cup {tx} /\ r.all = p.all /\ r.pending = p.pending
      /\ r.beats = p.beats /\ r.nonce = p.nonce /\ r.locals = p.locals /\ r.base = p.base
      /\ r.merged = p.merged /\ r.priced = p.priced /\ r.stales = p.stales /\ r.journal = p.journal
  BY <1>0 DEF Formed, Fields
<1>4. old = At(p.queue, tx)
  OBVIOUS
<1>5. EnqueueTx(p, tx) = LET d == DropSeq(r, Rising(old)) IN IF tx \in d.all THEN d ELSE Put(d, tx)
  BY Zenon DEF EnqueueTx
<1> HIDE DEF r, old
<1>6. Formed(r)
  <2>1. IsFiniteSet(p.queue) /\ p.queue \ old \in SUBSET p.queue
    BY <1>0 DEF Formed
  <2>2. IsFiniteSet(p.queue \ old)
    BY <2>1, SubsetFinite
  <2>3. IsFiniteSet(r.queue)
    BY <1>3, <2>2, FS_AddElement
  <2>4. r.queue \in SUBSET Txs
    BY <1>0, <1>3
  <2> QED BY <1>0, <1>3, <2>3, <2>4 DEF Formed
<1>7. EnqueueTx(p, tx) = m
  <2>1. \A t \in old : t.from = tx.from
    BY <1>1
  <2>2. Lists(Rising(old), old)
    BY <1>1, <1>2, <2>1, OneAccount
  <2>3. Dropped(r, DropSeq(r, Rising(old)), old)
    BY <1>6, <2>2, DropListed
  <2>4. tx \notin DropSeq(r, Rising(old)).all
    BY <1>3, <2>3 DEF Dropped
  <2> QED BY <1>5, <2>4, Zenon
<1>8. /\ Formed(m) /\ SameLists(r, m) /\ m.all = (r.all \ old) \cup {tx}
      /\ Covers(r) => Covers(m)
  <2>1. \A t \in old : t.from = tx.from
    BY <1>1
  <2> QED BY <1>1, <1>2, <1>3, <1>6, <2>1, SwapIs, Zenon
<1> HIDE DEF m
<1>9. /\ DOMAIN l = Fields /\ l.all = m.all /\ l.pending = m.pending /\ l.queue = m.queue
      /\ m.locals \subseteq l.locals /\ l.locals \subseteq m.locals \cup {tx.from}
      /\ l.base = m.base /\ l.merged = m.merged /\ l.nonce = m.nonce /\ l.beats = m.beats
      /\ l.priced = m.priced /\ l.stales = m.stales /\ l.journal = m.journal
  <2> DEFINE k == IF local THEN m.locals \cup {tx.from} ELSE m.locals
  <2>1. l = [m EXCEPT !.locals = k]
    OBVIOUS
  <2>2. m.locals \subseteq k /\ k \subseteq m.locals \cup {tx.from}
    OBVIOUS
  <2> HIDE DEF k, l
  <2>3. DOMAIN m = Fields
    BY <1>8 DEF Formed
  <2> QED BY <2>1, <2>2, <2>3 DEF Fields
<1> HIDE DEF l
<1>10. Formed(l)
  <2>1. l.locals \in SUBSET Accounts
    BY <1>8, <1>9, TxIs DEF Formed
  <2> QED BY <1>8, <1>9, <2>1 DEF Formed
<1>11. /\ Formed(q) /\ q.all = l.all /\ q.pending = l.pending /\ q.queue = l.queue
       /\ q.locals = l.locals /\ q.base = l.base /\ q.merged = l.merged /\ q.nonce = l.nonce
       /\ q.priced = l.priced /\ q.stales = l.stales
  BY <1>10, JournalTxIs, Zenon
<1> HIDE DEF q
<1>12. /\ q.all = (p.all \ old) \cup {tx} /\ q.queue = (p.queue \ old) \cup {tx} /\ q.pending = p.pending
       /\ p.locals \subseteq q.locals /\ q.base = p.base /\ q.merged = p.merged /\ q.nonce = p.nonce
  BY <1>3, <1>8, <1>9, <1>11 DEF SameLists
<1>13. Covers(p) => Covers(q)
  BY <1>3, <1>8, <1>9, <1>11 DEF Covers
<1>14. \A u \in p.all : u.from = tx.from /\ u.nonce = tx.nonce => u \in old
  BY <1>0, <1>4 DEF At
<1>15. Indexed(q)
  <2>1. q.all = q.pending \cup q.queue /\ q.pending \cap q.queue = {}
    BY <1>0, <1>1, <1>12
  <2>2. Distinct(q.all)
    BY <1>0, <1>12, <1>14 DEF Distinct
  <2> QED BY <1>11, <2>1, <2>2 DEF Indexed
<1>16. \A t : Valid(q, t) <=> Valid(p, t)
  BY <1>12 DEF Valid
<1>17. ASSUME NEW X, Good(p, X) PROVE Good(q, X \cup Y)
  <2>1. \A t \in q.pending : Valid(q, t)
    BY <1>12, <1>16, <1>17 DEF Good
  <2>2. \A t \in q.queue : t.from \notin X \cup Y => Valid(q, t)
    BY <1>12, <1>16, <1>17 DEF Good
  <2>3. Runs(p) => Runs(q)
    BY <1>12 DEF Runs
  <2>4. ASSUME ~ p.merged, NEW t \in q.queue, t.from \notin X \cup Y PROVE t.nonce # q.nonce[t.from]
    <3>1. CASE t = tx
      <4>1. PICK o \in old : TRUE
        BY <1>4, <2>4, <3>1
      <4>2. o \in p.queue /\ o.from = tx.from /\ o.nonce = tx.nonce
        BY <1>1
      <4> QED BY <1>12, <1>17, <2>4, <3>1, <4>2 DEF Good
    <3>2. CASE t # tx
      BY <1>12, <1>17, <2>4, <3>2 DEF Good
    <3> QED BY <3>1, <3>2
  <2> QED BY <1>12, <1>17, <2>1, <2>2, <2>3, <2>4 DEF Good
<1>18. ASSUME AllValid(p) PROVE AllValid(q) /\ Outlives(p, q)
  <2>1. AllValid(q)
    BY <1>12, <1>16, <1>18 DEF AllValid
  <2>2. ASSUME NEW t \in p.all, t.from \in p.locals
        PROVE  \E u \in At(q.all, t) : u = t \/ Outbids(u, t)
    <3>1. CASE t \in old
      <4>1. tx \in At(q.all, t)
        BY <1>1, <1>12, <3>1 DEF At
      <4>2. Outbids(tx, t)
        BY <1>4, <3>1 DEF Accepts
      <4> QED BY <4>1, <4>2
    <3>2. CASE t \notin old
      <4>1. t \in At(q.all, t)
        BY <1>12, <3>2 DEF At
      <4> QED BY <4>1
    <3> QED BY <3>1, <3>2
  <2> QED BY <1>12, <2>1, <2>2 DEF Outlives
<1>20. Fair(p) => Fair(q)
  BY <1>0, <1>12, ShrinksFair
<1>19. Adds(p, q, Y)
  BY <1>12, <1>13, <1>15, <1>17, <1>18, <1>20 DEF Adds
<1> QED BY <1>7, <1>19, Zenon DEF q, l

\* The state of addTxsLocked's loop, after p.
Adding(p, s) ==
  /\ DOMAIN s = {"p", "dirty"} /\ s.dirty \in SUBSET Accounts
  /\ Adds(p, s.p, s.dirty)

\* add, with all its early returns.
LEMMA AddAdds ==
  ASSUME NEW p, Indexed(p), NEW s, Adding(p, s), NEW tx \in Txs, NEW local, NEW order \in Orders
  PROVE  Adding(p, Add(s, tx, local, order))
<1> DEFINE full == Cardinality(s.p.all) >= GlobalSlots + GlobalQueue
           priced == full /\ ~ local /\ tx.from \notin s.p.locals
           q == IF priced THEN PopStale(s.p, order) ELSE s.p
           m == MakeRoom(q, tx, order)
           z == [s EXCEPT !.p = m]
           r == Insert(z, tx, local)
<1>0. /\ DOMAIN s = {"p", "dirty"} /\ s.dirty \in SUBSET Accounts /\ Adds(p, s.p, s.dirty)
      /\ Indexed(s.p)
  BY DEF Adding, Adds
<1>1. Shrinks(s.p, q) /\ Indexed(q)
  <2>1. Shrinks(s.p, PopStale(s.p, order)) /\ Shrinks(s.p, s.p)
    BY <1>0, PopStaleShrinks, ShrinksRefl
  <2>2. Shrinks(s.p, q)
    BY <2>1
  <2> QED BY <2>2 DEF Shrinks, Moves
<1>2. \/ Add(s, tx, local, order) = s
      \/ Add(s, tx, local, order) = [s EXCEPT !.p = q]
      \/ /\ tx \notin s.p.all /\ ValidateTx(s.p, tx, local)
         /\ Add(s, tx, local, order) = r
  BY Zenon DEF Add
<1> HIDE DEF q
<1>3. Shrinks(q, m)
  BY <1>1, MakeRoomShrinks
<1>4. Shrinks(s.p, m) /\ Indexed(m)
  <2>1. Shrinks(s.p, m)
    BY <1>1, <1>3, ShrinksTrans
  <2> QED BY <2>1 DEF Shrinks, Moves
<1> HIDE DEF m
<1>5. Adds(p, q, s.dirty) /\ Adds(p, m, s.dirty)
  <2>1. Adds(s.p, q, s.dirty) /\ Adds(s.p, m, s.dirty)
    BY <1>0, <1>1, <1>4, ShrinksAdds DEF Indexed
  <2> QED BY <1>0, <2>1, AddsTrans
<1>6. ASSUME Add(s, tx, local, order) = [s EXCEPT !.p = q] PROVE Adding(p, Add(s, tx, local, order))
  <2> DEFINE x == [s EXCEPT !.p = q]
  <2>1. DOMAIN x = {"p", "dirty"} /\ x.p = q /\ x.dirty = s.dirty
    BY <1>0
  <2> HIDE DEF x
  <2>2. Adding(p, x)
    BY <1>0, <1>5, <2>1 DEF Adding
  <2> QED BY <1>6, <2>2 DEF x
<1>7. /\ DOMAIN z = {"p", "dirty"} /\ z.p = m /\ z.dirty = s.dirty
  BY <1>0
<1>8. ASSUME tx \notin s.p.all, ValidateTx(s.p, tx, local) PROVE Adding(p, r)
  <2>1. tx \notin m.all /\ Valid(m, tx)
    BY <1>4, <1>8 DEF Shrinks, Moves, ValidateTx, Valid
  <2> DEFINE a == DropSeq([m EXCEPT !.pending = (@ \ At(@, tx)) \cup {tx}],
                          Rising(At(m.pending, tx)))
             b == JournalTx(Put(a, tx), tx)
             c == JournalTx([EnqueueTx(m, tx) EXCEPT
                              !.locals = IF local THEN @ \cup {tx.from} ELSE @], tx)
             d == IF At(m.queue, tx) = {} THEN s.dirty \cup {tx.from} ELSE s.dirty
  <2> HIDE DEF z
  <2>2. \/ r = z
        \/ /\ At(m.pending, tx) # {} /\ Accepts(m.pending, tx)
           /\ r = [z EXCEPT !.p = b]
        \/ /\ At(m.pending, tx) = {} /\ Accepts(m.queue, tx)
           /\ r = [p |-> c, dirty |-> d]
    BY <1>7, Zenon DEF Insert
  <2> HIDE DEF r
  <2>3. CASE r = z
    BY <1>0, <1>5, <1>7, <2>3 DEF Adding
  <2>4. CASE At(m.pending, tx) # {} /\ Accepts(m.pending, tx) /\ r = [z EXCEPT !.p = b]
    <3>1. Adds(m, b, s.dirty)
      BY <1>4, <2>1, <2>4, ReplaceAdds, Zenon
    <3> HIDE DEF b
    <3>2. Adds(p, b, s.dirty)
      BY <1>5, <3>1, AddsTrans
    <3>3. DOMAIN r = {"p", "dirty"} /\ r.p = b /\ r.dirty = s.dirty
      BY <1>7, <2>4
    <3> QED BY <1>0, <3>2, <3>3 DEF Adding
  <2>5. CASE At(m.pending, tx) = {} /\ Accepts(m.queue, tx) /\ r = [p |-> c, dirty |-> d]
    <3>1. /\ At(m.queue, tx) = {} => tx.from \in d
          /\ s.dirty \subseteq d /\ d \in SUBSET Accounts
      BY <1>0, TxIs
    <3> HIDE DEF d
    <3>2. Adds(m, c, d)
      BY <1>4, <2>1, <2>5, <3>1, QueueAdds, Zenon
    <3> HIDE DEF c
    <3>3. Adds(p, c, d)
      BY <1>5, <3>1, <3>2, AddsTrans
    <3>4. DOMAIN r = {"p", "dirty"} /\ r.p = c /\ r.dirty = d
      BY <2>5
    <3> QED BY <3>1, <3>3, <3>4 DEF Adding
  <2> QED BY <2>2, <2>3, <2>4, <2>5
<1>9. ASSUME Add(s, tx, local, order) = s PROVE Adding(p, Add(s, tx, local, order))
  BY <1>9
<1> QED BY <1>2, <1>6, <1>8, <1>9, Zenon

\* addTxsLocked's loop over transactions.
AddOp(c, s, tx) == Add(s, tx, c.local, c.order)
AddInv(c, seq, i, s) == Adding(c.p, s)
AddingAll == INSTANCE FoldRule WITH Op <- AddOp, Inv <- AddInv

\* That loop, as AddTxs runs it.
AddAll(p, txs, local, order) ==
  FoldLeft(LAMBDA r, tx : Add(r, tx, local, order), [p |-> p, dirty |-> {}], txs)

\* After the loop only the dirty accounts are to be promoted.
LEMMA AddAllAdds ==
  ASSUME NEW p, Indexed(p), NEW txs \in Seq(Txs), NEW local, NEW order \in Orders
  PROVE  /\ Adding(p, AddAll(p, txs, local, order))
         /\ txs = <<>> => AddAll(p, txs, local, order) = [p |-> p, dirty |-> {}]
<1> DEFINE c == [p |-> p, local |-> local, order |-> order]
           base == [p |-> p, dirty |-> {}]
           n == Len(txs)
<1>1. c.p = p /\ c.local = local /\ c.order = order
  OBVIOUS
<1>2. n \in Nat /\ DOMAIN txs = 1 .. n /\ \A i \in 1 .. n : txs[i] \in Txs
  OBVIOUS
<1> HIDE DEF c
<1>3. AddAll(p, txs, local, order) = AddingAll!Fold(c, base, txs)
  <2>1. AddAll(p, txs, c.local, c.order) = AddingAll!Fold(c, base, txs)
    BY Zenon DEF AddAll, AddingAll!Fold, AddOp,
         FoldLeft, MapThenFoldSet, AddingAll!Unfolds, AddingAll!Top, Max
  <2> QED BY <1>1, <2>1, Zenon
<1>4. Adding(p, base)
  <2>1. Adds(p, p, {})
    BY ShrinksRefl, ShrinksAdds DEF Indexed
  <2> QED BY <2>1 DEF Adding
<1>4a. AddInv(c, txs, 0, base)
  BY <1>1, <1>4, Zenon DEF AddInv
<1> HIDE DEF base, n
<1>5. \A i \in 1 .. n : \A s : AddInv(c, txs, i - 1, s) => AddInv(c, txs, i, AddOp(c, s, txs[i]))
  <2> TAKE i \in 1 .. n
  <2> TAKE s
  <2> HAVE AddInv(c, txs, i - 1, s)
  <2>1. Adding(p, s) /\ txs[i] \in Txs
    BY <1>1, <1>2 DEF AddInv
  <2>2. Adding(p, Add(s, txs[i], local, order))
    BY <2>1, AddAdds
  <2> QED BY <1>1, <2>2, Zenon DEF AddInv, AddOp
<1>6. AddInv(c, txs, n, AddingAll!Fold(c, base, txs))
  BY <1>2, <1>4a, <1>5, AddingAll!FoldInduction, Zenon
<1>7. txs = <<>> => AddingAll!Fold(c, base, txs) = base
  <2> HAVE txs = <<>>
  <2>1. 0 \in Nat /\ DOMAIN txs = 1 .. 0
    BY <1>2 DEF n
  <2>2. PICK h : AddingAll!Traces(h, c, base, txs, 0)
    BY <2>1, AddingAll!FoldStates, Zenon
  <2> QED BY <2>2 DEF AddingAll!Traces
<1> QED BY <1>1, <1>3, <1>6, <1>7, Zenon DEF AddInv, base

\* addTx and addTxsLocked.
LEMMA AddTxsAdds ==
  ASSUME NEW p, Indexed(p), NEW txs \in Seq(Txs), NEW local, NEW order \in Orders
  PROVE  /\ Adds(p, AddTxs(p, txs, local, order), {})
         /\ txs = <<>> => AddTxs(p, txs, local, order) = p
<1> DEFINE s == AddAll(p, txs, local, order)
           q == AddTxs(p, txs, local, order)
<1>1. Adding(p, s) /\ (txs = <<>> => s = [p |-> p, dirty |-> {}])
  BY AddAllAdds
<1>2. q = IF s.dirty = {} THEN s.p ELSE PromoteExecutables(s.p, s.dirty, order)
  BY Zenon DEF AddTxs, AddAll, PromoteDirty
<1> HIDE DEF s, q
<1>3. txs = <<>> => q = p
  BY <1>1, <1>2
<1>4. CASE s.dirty = {}
  BY <1>1, <1>2, <1>3, <1>4 DEF Adding, q
<1>5. CASE s.dirty # {}
  <2>1. Adds(p, s.p, s.dirty) /\ s.dirty \in SUBSET Accounts /\ Indexed(s.p)
    BY <1>1 DEF Adding, Adds
  <2>2. Advances(s.p, q, s.dirty)
    BY <1>2, <1>5, <2>1, PromoteExecutablesAdvances
  <2>3. ASSUME NEW X, Good(p, X) PROVE Good(q, X \cup {})
    <3>1. Good(q, (X \cup s.dirty) \ s.dirty)
      BY <2>1, <2>2, <2>3 DEF Adds, Advances
    <3>2. (X \cup s.dirty) \ s.dirty \subseteq X \cup {}
      OBVIOUS
    <3> QED BY <3>1, <3>2, GoodMore
  <2>4. ASSUME AllValid(p) PROVE AllValid(q) /\ Outlives(p, q)
    <3>1. AllValid(s.p) /\ Outlives(p, s.p)
      BY <2>1, <2>4 DEF Adds
    <3>2. AllValid(q) /\ Outlives(s.p, q)
      BY <2>2, <3>1, MovesOutlives DEF Advances
    <3>3. p.all \in SUBSET Txs /\ s.p.all \in SUBSET Txs /\ q.all \in SUBSET Txs
      BY <2>1, <2>2 DEF Advances, Moves, Indexed, Formed
    <3> QED BY <3>1, <3>2, <3>3, OutlivesTrans
  <2>5. Fair(q)
    BY <1>2, <1>5, <2>1, PromoteExecutablesFair
  <2>6. Adds(p, q, {})
    BY <2>1, <2>2, <2>3, <2>4, <2>5 DEF Adds, Advances, Moves
  <2> QED BY <1>3, <2>6 DEF q
<1> QED BY <1>4, <1>5

-----------------------------------------------------------------------------
(* Following the chain. *)

\* q is p with S taken out of the pending lists; some of S is queued again.
Cut(p, q, S) ==
  /\ Indexed(q) /\ (Covers(p) => Covers(q))
  /\ q.base = p.base /\ q.merged = p.merged /\ q.nonce = p.nonce
  /\ q.locals = p.locals /\ q.all \subseteq p.all /\ q.pending = p.pending \ S
  /\ \A t \in p.all \ q.all : ~ Valid(p, t)

\* Old and unpayable transactions leave the pending list and the pool.
LEMMA DropPendingCuts ==
  ASSUME NEW p, Indexed(p), NEW a, NEW S \in SUBSET Of(p.pending, a), \A t \in S : ~ Valid(p, t)
  PROVE  Cut(p, DropPending(p, S), S)
<1> DEFINE r == [p EXCEPT !.pending = @ \ S]
           q == DropSeq(r, Rising(S))
<1>0. /\ Formed(p) /\ p.all = p.pending \cup p.queue /\ p.pending \cap p.queue = {}
      /\ Distinct(p.all) /\ p.all \in SUBSET Txs
  BY DEF Indexed, Formed
<1>1. /\ S \in SUBSET p.pending /\ S \in SUBSET Txs /\ Distinct(S) /\ \A t \in S : t.from = a
  BY <1>0 DEF Of, Distinct
<1>2. IsFiniteSet(S)
  BY <1>0, <1>1, SubsetFinite DEF Formed
<1>3. Lists(Rising(S), S)
  BY <1>1, <1>2, OneAccount
<1>4. /\ DOMAIN r = Fields /\ r.pending = p.pending \ S /\ r.all = p.all /\ r.queue = p.queue
      /\ r.beats = p.beats /\ r.nonce = p.nonce /\ r.locals = p.locals /\ r.base = p.base
      /\ r.merged = p.merged /\ r.priced = p.priced /\ r.stales = p.stales /\ r.journal = p.journal
  BY <1>0 DEF Formed, Fields
<1>5. DropPending(p, S) = q
  BY DEF DropPending
<1> HIDE DEF r
<1>6. Formed(r)
  <2>1. IsFiniteSet(p.pending) /\ r.pending \in SUBSET p.pending
    BY <1>0, <1>4 DEF Formed
  <2>2. IsFiniteSet(r.pending)
    BY <2>1, SubsetFinite
  <2> QED BY <1>0, <1>4, <2>2 DEF Formed
<1>7. Dropped(r, q, S)
  BY <1>3, <1>6, DropListed
<1> HIDE DEF q
<1>8. /\ Formed(q) /\ q.all = p.all \ S /\ q.pending = p.pending \ S /\ q.queue = p.queue
      /\ q.base = p.base /\ q.merged = p.merged /\ q.nonce = p.nonce /\ q.locals = p.locals
  BY <1>4, <1>7 DEF Dropped, SameLists
<1>9. Covers(p) => Covers(q)
  BY <1>4, <1>7 DEF Dropped, Covers
<1>10. Indexed(q)
  BY <1>0, <1>1, <1>8 DEF Indexed, Distinct
<1>11. Cut(p, q, S)
  BY <1>8, <1>9, <1>10 DEF Cut
<1> QED BY <1>5, <1>11

\* Transactions leave the pending list for the queue; none is refused.
LEMMA PostponeCuts ==
  ASSUME NEW p, Indexed(p), NEW a, NEW S \in SUBSET Of(p.pending, a),
         NEW seq \in {Rising(S), Falling(S)}
  PROVE  Cut(p, EnqueueSeq([p EXCEPT !.pending = @ \ S], seq), S)
<1> DEFINE r == [p EXCEPT !.pending = @ \ S]
           q == EnqueueSeq(r, seq)
<1>0. /\ Formed(p) /\ p.all = p.pending \cup p.queue /\ p.pending \cap p.queue = {}
      /\ Distinct(p.all) /\ p.all \in SUBSET Txs
  BY DEF Indexed, Formed
<1>1. /\ S \in SUBSET p.pending /\ S \in SUBSET Txs /\ Distinct(S) /\ \A t \in S : t.from = a
  BY <1>0 DEF Of, Distinct
<1>2. IsFiniteSet(S)
  BY <1>0, <1>1, SubsetFinite DEF Formed
<1>3. Lists(seq, S)
  BY <1>1, <1>2, OneAccount
<1>4. /\ DOMAIN r = Fields /\ r.pending = p.pending \ S /\ r.all = p.all /\ r.queue = p.queue
      /\ r.beats = p.beats /\ r.nonce = p.nonce /\ r.locals = p.locals /\ r.base = p.base
      /\ r.merged = p.merged /\ r.priced = p.priced /\ r.stales = p.stales /\ r.journal = p.journal
  BY <1>0 DEF Formed, Fields
<1> HIDE DEF r
<1>6. Formed(r)
  <2>1. IsFiniteSet(p.pending) /\ r.pending \in SUBSET p.pending
    BY <1>0, <1>4 DEF Formed
  <2>2. IsFiniteSet(r.pending)
    BY <2>1, SubsetFinite
  <2> QED BY <1>0, <1>4, <2>2 DEF Formed
<1>7. Queued(r, q, S)
  <2>1. S \in SUBSET r.all /\ Distinct(r.queue \cup S)
    BY <1>0, <1>1, <1>4 DEF Distinct
  <2> QED BY <1>3, <1>6, <2>1, EnqueueSeqQueues
<1> HIDE DEF q
<1>8. /\ Formed(q) /\ q.all = p.all /\ q.pending = p.pending \ S /\ q.queue = p.queue \cup S
      /\ q.base = p.base /\ q.merged = p.merged /\ q.nonce = p.nonce /\ q.locals = p.locals
      /\ q.priced = p.priced /\ q.stales = p.stales
  BY <1>4, <1>7 DEF Queued
<1>9. Covers(p) => Covers(q)
  BY <1>8 DEF Covers
<1>10. Indexed(q)
  BY <1>0, <1>1, <1>8 DEF Indexed
<1>11. Cut(p, q, S)
  BY <1>8, <1>9, <1>10 DEF Cut
<1> QED BY <1>11 DEF q, r

\* Cuts compose.
LEMMA CutTrans ==
  ASSUME NEW p, NEW q, NEW r, NEW S, NEW U, Cut(p, q, S), Cut(q, r, U) PROVE Cut(p, r, S \cup U)
<1>1. (p.pending \ S) \ U = p.pending \ (S \cup U)
  OBVIOUS
<1>2. \A t : Valid(q, t) <=> Valid(p, t)
  BY DEF Cut, Valid
<1> QED BY <1>1, <1>2 DEF Cut

\* An account's transactions without a gap between them.
Convex(S, a) ==
  \A s, t \in S : s.from = a /\ t.from = a =>
    \A n \in s.nonce .. t.nonce : \E u \in S : u.from = a /\ u.nonce = n

\* What demoteUnexecutables leaves of an account's pending list.
Demoted(p, q, a) ==
  /\ Indexed(q) /\ (Covers(p) => Covers(q))
  /\ q.base = p.base /\ q.merged = p.merged /\ q.nonce = p.nonce /\ q.locals = p.locals
  /\ q.all \subseteq p.all /\ \A t \in p.all \ q.all : ~ Valid(p, t)
  /\ q.pending \subseteq p.pending
  /\ \A t \in p.pending : t.from # a => t \in q.pending
  /\ \A t \in q.pending : t.from = a =>
       /\ Valid(q, t)
       /\ \E u \in q.pending : u.from = a /\ u.nonce = StateNonce[q.base][a]
  /\ Convex(p.pending, a) => Convex(q.pending, a)

\* demoteUnexecutables' loop body.  What is left starts at the state's nonce; that
\* it has no gap is only kept, not established: the code looks at the front alone.
LEMMA DemoteAccountDemotes ==
  ASSUME NEW p, Indexed(p), NEW a \in Accounts
  PROVE  Demoted(p, DemoteAccount(p, a), a)
<1> DEFINE S1 == Old(p, Of(p.pending, a))
           f == ForwardPending(p, a)
           S2 == Unpayable(f, Of(f.pending, a))
           d == DropPending(f, S2)
           S3 == (UNION {Above(f.pending, t) : t \in S2}) \ S2
           g == FilterPending(f, a)
           S4 == IF \E t \in Of(g.pending, a) : t.nonce = StateNonce[g.base][a]
                 THEN {} ELSE Of(g.pending, a)
           h == PostponeGapped(g, a)
           q == Settle(h, a)
<1>0. p.pending \in SUBSET Txs /\ \A t \in p.pending : t.nonce \in Nat /\ t.from \in Accounts
  BY TxIs DEF Indexed, Formed
<1>1. S1 \in SUBSET Of(p.pending, a) /\ \A t \in p.pending : t.from = a => (t \in S1 <=> t.nonce < StateNonce[p.base][a])
  BY DEF Old, Of
<1>2. f = DropPending(p, S1)
  BY DEF ForwardPending
<1> HIDE DEF S1, f
<1>3. Cut(p, f, S1)
  <2>1. \A t \in S1 : ~ Valid(p, t)
    BY <1>1 DEF Of, Valid
  <2> QED BY <1>1, <1>2, <2>1, DropPendingCuts
<1>4. Indexed(f)
  BY <1>3 DEF Cut
<1>5. /\ S2 \in SUBSET Of(f.pending, a)
      /\ \A t \in f.pending : t.from = a => (t \in S2 <=> t \notin Payable[f.base])
  BY DEF Unpayable, Of
<1>6. g = EnqueueSeq([d EXCEPT !.pending = @ \ S3], Rising(S3))
  BY Zenon DEF FilterPending
<1>6a. /\ S3 \subseteq f.pending /\ S3 \cap S2 = {}
       /\ \A u \in f.pending \ S2 : u \in S3 <=> \E t \in S2 : t.from = u.from /\ u.nonce > t.nonce
  <2> HIDE DEF S2
  <2>0. \A u : u \in UNION {Above(f.pending, t) : t \in S2} <=> \E t \in S2 : u \in Above(f.pending, t)
    OBVIOUS
  <2> DEFINE B == UNION {Above(f.pending, t) : t \in S2}
  <2>0a. S3 = B \ S2
    BY Zenon
  <2>0b. \A u : u \in B <=> \E t \in S2 : u \in Above(f.pending, t)
    BY <2>0, Zenon
  <2> HIDE DEF B, S3
  <2>1. \A u : u \in S3 <=> u \notin S2 /\ \E t \in S2 : u \in Above(f.pending, t)
    BY <2>0a, <2>0b
  <2>2. \A u, t : u \in Above(f.pending, t) <=> u \in f.pending /\ t.from = u.from /\ u.nonce > t.nonce
    BY DEF Above
  <2> HIDE DEF S3
  <2> QED BY <2>1, <2>2, Zenon
<1> HIDE DEF S2, S3, d, g
<1>7. Cut(f, d, S2)
  <2>1. \A t \in S2 : ~ Valid(f, t)
    BY <1>5 DEF Of, Valid
  <2> QED BY <1>4, <1>5, <2>1, DropPendingCuts DEF d
<1>8. Indexed(d)
  BY <1>7 DEF Cut
<1>9. S3 \in SUBSET Of(d.pending, a)
  <2>1. \A t \in S2 : t.from = a
    BY <1>5 DEF Of
  <2> QED BY <1>6a, <1>7, <2>1 DEF Of, Cut
<1>10. Cut(d, g, S3)
  BY <1>6, <1>8, <1>9, PostponeCuts
<1>11. Indexed(g)
  BY <1>10 DEF Cut
<1>12. Cut(g, h, S4)
  <2>1. CASE \E t \in Of(g.pending, a) : t.nonce = StateNonce[g.base][a]
    <3>1. h = g /\ S4 = {}
      BY <2>1, Zenon DEF PostponeGapped
    <3> HIDE DEF h, S4
    <3>2. g.pending \ {} = g.pending
      OBVIOUS
    <3> QED BY <1>11, <3>1, <3>2 DEF Cut
  <2>2. CASE ~ \E t \in Of(g.pending, a) : t.nonce = StateNonce[g.base][a]
    <3>1. /\ h = EnqueueSeq([g EXCEPT !.pending = @ \ S4], Falling(S4))
          /\ S4 = Of(g.pending, a)
      BY <2>2, Zenon DEF PostponeGapped
    <3> HIDE DEF h, S4
    <3> QED BY <1>11, <3>1, PostponeCuts
  <2> QED BY <2>1, <2>2
<1>13. /\ S4 \in SUBSET Of(g.pending, a)
       /\ \/ S4 = {} /\ \E t \in Of(g.pending, a) : t.nonce = StateNonce[g.base][a]
          \/ S4 = Of(g.pending, a)
  OBVIOUS
<1> HIDE DEF S4, h
<1>14. Cut(p, h, ((S1 \cup S2) \cup S3) \cup S4)
  BY <1>3, <1>7, <1>10, <1>12, CutTrans, Zenon
<1>15. /\ Formed(q) /\ q.all = h.all /\ q.pending = h.pending /\ q.queue = h.queue
       /\ q.locals = h.locals /\ q.base = h.base /\ q.nonce = h.nonce /\ q.merged = h.merged
       /\ q.priced = h.priced /\ q.stales = h.stales
  BY <1>14, SettleIs, ZenonT(60) DEF Cut, Indexed
<1> HIDE DEF q
<1>16. Indexed(q) /\ (Covers(h) => Covers(q))
  BY <1>14, <1>15 DEF Cut, Indexed, Covers
<1>17. /\ f.pending = p.pending \ S1 /\ d.pending = f.pending \ S2 /\ g.pending = d.pending \ S3
       /\ q.pending = g.pending \ S4
       /\ f.base = p.base /\ g.base = p.base /\ q.base = p.base
       /\ q.merged = p.merged /\ q.nonce = p.nonce /\ (Covers(p) => Covers(q))
       /\ q.locals = p.locals /\ q.all \subseteq p.all /\ \A t \in p.all \ q.all : ~ Valid(p, t)
  <2>1. /\ f.pending = p.pending \ S1 /\ d.pending = f.pending \ S2 /\ g.pending = d.pending \ S3
        /\ h.pending = g.pending \ S4 /\ f.base = p.base /\ g.base = p.base
    BY <1>3, <1>7, <1>10, <1>12 DEF Cut
  <2>2. /\ h.base = p.base /\ h.merged = p.merged /\ h.nonce = p.nonce /\ (Covers(p) => Covers(h))
        /\ h.locals = p.locals /\ h.all \subseteq p.all /\ \A t \in p.all \ h.all : ~ Valid(p, t)
    BY <1>14 DEF Cut
  <2> QED BY <1>15, <1>16, <2>1, <2>2
<1>18. q.pending \subseteq p.pending /\ \A t \in p.pending : t.from # a => t \in q.pending
  <2>1. \A t : t \in S1 \/ t \in S2 \/ t \in S3 \/ t \in S4 => t.from = a
    BY <1>1, <1>5, <1>9, <1>13 DEF Of
  <2> QED BY <1>17, <2>1
<1>19. ASSUME NEW t \in q.pending, t.from = a PROVE Valid(q, t)
  <2>1. t \in p.pending /\ t \notin S1 /\ t \in f.pending /\ t \notin S2
    BY <1>17
  <2>2. ~(t.nonce < StateNonce[p.base][a]) /\ t \in Payable[p.base]
    BY <1>1, <1>5, <1>17, <1>19, <2>1
  <2> QED BY <1>17, <1>19, <2>2 DEF Valid
<1>20. ASSUME NEW t \in q.pending, t.from = a
       PROVE  \E u \in q.pending : u.from = a /\ u.nonce = StateNonce[q.base][a]
  <2>1. S4 # Of(g.pending, a)
    BY <1>17, <1>20 DEF Of
  <2>2. S4 = {} /\ \E u \in Of(g.pending, a) : u.nonce = StateNonce[g.base][a]
    BY <1>13, <2>1
  <2> QED BY <1>17, <2>2 DEF Of
<1>21. ASSUME Convex(p.pending, a) PROVE Convex(q.pending, a)
  <2> SUFFICES ASSUME NEW s \in q.pending, NEW t \in q.pending, s.from = a, t.from = a,
                      NEW n \in s.nonce .. t.nonce
               PROVE  \E u \in q.pending : u.from = a /\ u.nonce = n
    BY DEF Convex
  <2>1. s \in p.pending /\ t \in p.pending /\ s.nonce \in Nat /\ t.nonce \in Nat
    BY <1>0, <1>17
  <2>2. PICK u \in p.pending : u.from = a /\ u.nonce = n
    BY <1>21, <2>1 DEF Convex
  <2>3. u.nonce \in Nat /\ s.nonce <= u.nonce /\ u.nonce <= t.nonce
    BY <1>0, <2>1, <2>2
  <2>4. u \notin S1
    <3>1. ~(s.nonce < StateNonce[p.base][a])
      BY <1>1, <1>17, <2>1
    <3>2. StateNonce[p.base][a] \in Nat
      BY NonceTypes DEF Indexed
    <3>3. ~(u.nonce < StateNonce[p.base][a])
      BY <2>1, <2>3, <3>1, <3>2
    <3> QED BY <1>1, <2>2, <3>3
  <2>5. u \in f.pending /\ t \in f.pending /\ t \notin S2 /\ t \notin S3
    BY <1>17, <2>2, <2>4
  <2>6. \A v \in S2 : v.from = a => ~(t.nonce > v.nonce)
    BY <1>6a, <2>5
  <2>7. u \notin S2
    <3>1. CASE u.nonce = t.nonce
      <4>1. u = t
        BY <2>1, <2>2, <3>1 DEF Indexed, Distinct
      <4> QED BY <2>5, <4>1
    <3>2. CASE u.nonce # t.nonce
      <4>1. t.nonce > u.nonce
        BY <2>1, <2>3, <3>2
      <4> QED BY <2>2, <2>6, <4>1
    <3> QED BY <3>1, <3>2
  <2>8. u \notin S3
    <3> SUFFICES ASSUME u \in S3 PROVE FALSE
      OBVIOUS
    <3>1. PICK v \in S2 : v.from = u.from /\ u.nonce > v.nonce
      BY <1>6a, <2>5, <2>7
    <3>2. v \in p.pending /\ v.nonce \in Nat
      BY <1>0, <1>5, <1>17, <3>1 DEF Of
    <3>3. t.nonce > v.nonce
      BY <2>1, <2>3, <3>1, <3>2
    <3> QED BY <2>2, <2>6, <3>1, <3>3
  <2>9. u \in g.pending
    BY <1>17, <2>5, <2>7, <2>8
  <2>10. S4 = {}
    BY <1>13, <1>17 DEF Of
  <2> QED BY <1>17, <2>2, <2>9, <2>10
<1>22. Demoted(p, q, a)
  BY <1>16, <1>17, <1>18, <1>19, <1>20, <1>21 DEF Demoted
<1> QED BY <1>22, Zenon DEF q, h, g, f, DemoteAccount

\* demoteUnexecutables' loop over accounts.
DemoteOp(c, p, a) == DemoteAccount(p, a)
DemoteInv(c, seq, i, q) ==
  /\ Indexed(q) /\ (Covers(c) => Covers(q))
  /\ q.base = c.base /\ q.merged = c.merged /\ q.nonce = c.nonce /\ q.pending \subseteq c.pending
  /\ q.locals = c.locals /\ q.all \subseteq c.all /\ \A t \in c.all \ q.all : ~ Valid(c, t)
  /\ \A j \in 1 .. i : \A t \in q.pending : t.from = seq[j] =>
       /\ Valid(q, t)
       /\ \E u \in q.pending : u.from = seq[j] /\ u.nonce = StateNonce[q.base][seq[j]]
  /\ \A a \in Accounts : Convex(c.pending, a) => Convex(q.pending, a)
Demoting == INSTANCE FoldRule WITH Op <- DemoteOp, Inv <- DemoteInv

\* The pending lists after demoteUnexecutables.
DemotedAll(p, q) ==
  /\ Indexed(q) /\ (Covers(p) => Covers(q))
  /\ q.base = p.base /\ q.merged = p.merged /\ q.nonce = p.nonce /\ q.pending \subseteq p.pending
  /\ q.locals = p.locals /\ q.all \subseteq p.all /\ \A t \in p.all \ q.all : ~ Valid(p, t)
  /\ \A t \in q.pending :
       /\ Valid(q, t)
       /\ \E u \in q.pending : u.from = t.from /\ u.nonce = StateNonce[q.base][t.from]
  /\ \A a \in Accounts : Convex(p.pending, a) => Convex(q.pending, a)

\* demoteUnexecutables.
LEMMA DemoteUnexecutablesDemotes ==
  ASSUME NEW p, Indexed(p), NEW order \in Orders
  PROVE  DemotedAll(p, DemoteUnexecutables(p, order))
<1> DEFINE n == Cardinality(Accounts)
           q == DemoteUnexecutables(p, order)
<1>1. /\ n \in Nat /\ DOMAIN order = 1 .. n /\ (\A i \in 1 .. n : order[i] \in Accounts)
      /\ \A a \in Accounts : \E i \in 1 .. n : order[i] = a
  BY OrderLists DEF Lists
<1>2. q = Demoting!Fold(p, p, order)
  BY Zenon DEF DemoteUnexecutables, Demoting!Fold, DemoteOp,
       FoldLeft, MapThenFoldSet, Demoting!Unfolds, Demoting!Top, Max
<1>3. DemoteInv(p, order, 0, p)
  BY DEF DemoteInv
<1>4. ASSUME NEW i \in 1 .. n, NEW s, DemoteInv(p, order, i - 1, s)
      PROVE  DemoteInv(p, order, i, DemoteOp(p, s, order[i]))
  <2> DEFINE a == order[i]
             r == DemoteAccount(s, a)
  <2>0. a \in Accounts /\ Indexed(s)
    BY <1>1, <1>4 DEF DemoteInv
  <2>1. Demoted(s, r, a)
    BY <2>0, DemoteAccountDemotes
  <2> HIDE DEF r
  <2>2. /\ Indexed(r) /\ (Covers(p) => Covers(r))
        /\ r.base = p.base /\ r.merged = p.merged /\ r.nonce = p.nonce /\ r.pending \subseteq p.pending
        /\ r.locals = p.locals /\ r.all \subseteq p.all
    BY <1>4, <2>1 DEF DemoteInv, Demoted
  <2>2a. \A t \in p.all \ r.all : ~ Valid(p, t)
    <3>1. \A t : Valid(s, t) <=> Valid(p, t)
      BY <1>4 DEF DemoteInv, Valid
    <3>2. (\A t \in p.all \ s.all : ~ Valid(p, t)) /\ \A t \in s.all \ r.all : ~ Valid(s, t)
      BY <1>4, <2>1 DEF DemoteInv, Demoted
    <3> QED BY <3>1, <3>2
  <2>3. \A t : Valid(r, t) <=> Valid(s, t)
    BY <2>1 DEF Demoted, Valid
  <2>4. ASSUME NEW j \in 1 .. i, NEW t \in r.pending, t.from = order[j]
        PROVE  /\ Valid(r, t)
               /\ \E u \in r.pending : u.from = order[j] /\ u.nonce = StateNonce[r.base][order[j]]
    <3>1. CASE order[j] = a
      BY <2>1, <2>4, <3>1 DEF Demoted
    <3>2. CASE order[j] # a
      <4>1. j \in 1 .. i - 1 /\ t \in s.pending /\ r.base = s.base
        BY <1>1, <2>1, <3>2 DEF Demoted
      <4>2. /\ Valid(s, t)
            /\ \E u \in s.pending : u.from = order[j] /\ u.nonce = StateNonce[s.base][order[j]]
        BY <1>4, <2>4, <4>1 DEF DemoteInv
      <4>3. \A u \in s.pending : u.from = order[j] => u \in r.pending
        BY <2>1, <3>2 DEF Demoted
      <4> QED BY <2>3, <4>1, <4>2, <4>3
    <3> QED BY <3>1, <3>2
  <2>5. ASSUME NEW b \in Accounts, Convex(p.pending, b) PROVE Convex(r.pending, b)
    <3>1. Convex(s.pending, b)
      BY <1>4, <2>5 DEF DemoteInv
    <3>2. CASE b = a
      BY <2>1, <3>1, <3>2 DEF Demoted
    <3>3. CASE b # a
      <4>1. r.pending \subseteq s.pending /\ \A t \in s.pending : t.from = b => t \in r.pending
        BY <2>1, <3>3 DEF Demoted
      <4> QED BY <3>1, <4>1 DEF Convex
    <3> QED BY <3>2, <3>3
  <2>6. DemoteInv(p, order, i, r)
    BY <2>2, <2>2a, <2>4, <2>5 DEF DemoteInv
  <2> QED BY <2>6 DEF DemoteOp, r
<1>5. DemoteInv(p, order, n, q)
  BY <1>1, <1>2, <1>3, <1>4, Demoting!FoldInduction, Zenon
<1> HIDE DEF q, n
<1>6. ASSUME NEW t \in q.pending
      PROVE  /\ Valid(q, t)
             /\ \E u \in q.pending : u.from = t.from /\ u.nonce = StateNonce[q.base][t.from]
  <2>1. t.from \in Accounts
    BY <1>5, TxIs DEF DemoteInv, Indexed, Formed
  <2>2. PICK i \in 1 .. n : order[i] = t.from
    BY <1>1, <2>1
  <2> QED BY <1>5, <2>2 DEF DemoteInv
<1>7. DemotedAll(p, q)
  BY <1>5, <1>6 DEF DemotedAll, DemoteInv
<1> QED BY <1>7 DEF q

\* reset's SetNonce loop: a list without a gap from the state's nonce then ends
\* where the pending nonce says.
LEMMA SetNoncesGood ==
  ASSUME NEW p, Indexed(p), \A t \in p.pending : Valid(p, t),
         ~ p.merged => \A a \in Accounts :
           /\ p.nonce[a] = StateNonce[p.base][a]
           /\ Convex(p.pending, a)
           /\ \A t \in p.pending : t.from = a =>
                \E u \in p.pending : u.from = a /\ u.nonce = StateNonce[p.base][a]
  PROVE  LET q == SetNonces(p) IN
           /\ Indexed(q) /\ (Covers(p) => Covers(q))
           /\ q.base = p.base /\ q.merged = p.merged /\ Good(q, Accounts)
           /\ q.pending = p.pending /\ q.all = p.all /\ q.locals = p.locals
<1> DEFINE q == SetNonces(p)
           N(a) == IF Of(p.pending, a) = {} THEN p.nonce[a]
                   ELSE 1 + Max({t.nonce : t \in Of(p.pending, a)})
           f == [a \in Accounts |-> N(a)]
<1>0. /\ Formed(p) /\ p.all = p.pending \cup p.queue /\ p.pending \cap p.queue = {}
      /\ Distinct(p.all) /\ p.all \in SUBSET Txs /\ \A t \in p.all : t.from \in Accounts /\ t.nonce \in Nat
  BY TxIs DEF Indexed, Formed
<1>1. q = [p EXCEPT !.nonce = f]
  BY Zenon DEF SetNonces
<1>2. \A a \in Accounts : p.nonce[a] \in Nat /\ StateNonce[p.base][a] \in Nat
  BY <1>0, NonceTypes
<1>3. ASSUME NEW a \in Accounts
      PROVE  /\ N(a) \in Nat
             /\ \/ Of(p.pending, a) = {} /\ N(a) = p.nonce[a]
                \/ \E t \in Of(p.pending, a) : /\ N(a) = 1 + t.nonce
                                               /\ \A u \in Of(p.pending, a) : u.nonce <= t.nonce
  <2>1. CASE Of(p.pending, a) = {}
    BY <1>2, <2>1
  <2>2. CASE Of(p.pending, a) # {}
    <3> DEFINE S == Of(p.pending, a)
    <3>1. S \in SUBSET Txs /\ S \in SUBSET p.pending /\ S # {} /\ \A s, t \in S : s.nonce = t.nonce => s = t
      BY <1>0, <2>2 DEF Of, Distinct
    <3>2. IsFiniteSet(S)
      BY <1>0, <3>1, SubsetFinite DEF Formed
    <3>3. N(a) = 1 + Max({t.nonce : t \in S})
      BY <2>2
    <3> HIDE DEF S, N
    <3>4. PICK t \in S : Max({u.nonce : u \in S}) = t.nonce /\ \A u \in S : u.nonce <= t.nonce
      BY <3>1, <3>2, MaxNonce
    <3>5. N(a) = 1 + t.nonce /\ t.nonce \in Nat
      BY <1>0, <3>1, <3>3, <3>4
    <3> QED BY <3>4, <3>5 DEF S
  <2> QED BY <2>1, <2>2
<1> HIDE DEF N
<1>4. f \in [Accounts -> Nat] /\ \A a \in Accounts : f[a] = N(a)
  BY <1>3
<1> HIDE DEF f, q
<1>5. /\ DOMAIN q = Fields /\ q.pending = p.pending /\ q.all = p.all /\ q.queue = p.queue
      /\ q.beats = p.beats /\ q.nonce = f /\ q.locals = p.locals /\ q.base = p.base
      /\ q.merged = p.merged /\ q.priced = p.priced /\ q.stales = p.stales /\ q.journal = p.journal
  BY <1>0, <1>1 DEF Formed, Fields
<1>6. Formed(q)
  BY <1>0, <1>4, <1>5 DEF Formed
<1>7. Indexed(q) /\ (Covers(p) => Covers(q))
  BY <1>0, <1>5, <1>6 DEF Indexed, Covers
<1>8. \A t : Valid(q, t) <=> Valid(p, t)
  BY <1>5 DEF Valid
<1>9. (\A t \in q.pending : Valid(q, t)) /\ \A t \in q.queue : t.from \in Accounts
  BY <1>0, <1>5, <1>8
<1>10. ASSUME ~ p.merged PROVE Runs(q)
  <2> SUFFICES ASSUME NEW a \in Accounts
               PROVE  /\ StateNonce[p.base][a] <= N(a)
                      /\ \A t \in p.pending : t.from = a => t.nonce < N(a)
                      /\ \A n \in StateNonce[p.base][a] .. N(a) - 1 :
                           \E t \in p.pending : t.from = a /\ t.nonce = n
    BY <1>4, <1>5 DEF Runs
  <2>1. CASE Of(p.pending, a) = {} /\ N(a) = p.nonce[a]
    <3>1. N(a) = StateNonce[p.base][a]
      BY <1>10, <2>1
    <3>2. \A t \in p.pending : t.from # a
      BY <2>1 DEF Of
    <3> QED BY <1>2, <3>1, <3>2
  <2>2. CASE \E t \in Of(p.pending, a) : N(a) = 1 + t.nonce /\ \A u \in Of(p.pending, a) : u.nonce <= t.nonce
    <3>1. PICK t \in Of(p.pending, a) : N(a) = 1 + t.nonce /\ \A u \in Of(p.pending, a) : u.nonce <= t.nonce
      BY <2>2
    <3>2. t \in p.pending /\ t.from = a /\ t.nonce \in Nat
      BY <1>0 DEF Of
    <3>3. PICK u \in p.pending : u.from = a /\ u.nonce = StateNonce[p.base][a]
      BY <1>10, <3>2
    <3>4. \A v \in p.pending : v.from = a => v \in Of(p.pending, a) /\ v.nonce \in Nat
      BY <1>0 DEF Of
    <3>5. \A n \in u.nonce .. t.nonce : \E v \in p.pending : v.from = a /\ v.nonce = n
      BY <1>10, <3>2, <3>3 DEF Convex
    <3>6. StateNonce[p.base][a] .. N(a) - 1 = u.nonce .. t.nonce
      BY <1>2, <3>1, <3>2, <3>3
    <3>7. u.nonce <= t.nonce /\ \A v \in p.pending : v.from = a => v.nonce < N(a)
      BY <3>1, <3>2, <3>3, <3>4
    <3> QED BY <1>2, <3>1, <3>2, <3>3, <3>5, <3>6, <3>7
  <2> QED BY <1>3, <2>1, <2>2
<1>11. Good(q, Accounts)
  BY <1>5, <1>9, <1>10 DEF Good
<1> QED BY <1>5, <1>7, <1>11 DEF q

\* reset, whatever becomes the head.
LEMMA ResetPoolGood ==
  ASSUME NEW p, Indexed(p), Good(p, {}), Covers(p), Fair(p), NEW reinject \in Seq(Txs), NEW new \in Heads,
         NEW order \in Orders
  PROVE  LET q == ResetPool(p, reinject, new, order) IN
           /\ Indexed(q) /\ Good(q, {}) /\ Covers(q) /\ Fair(q)
           /\ new \in Stateless => q = p
           /\ new \notin Stateless => q.base = new
           /\ new = p.base => Outlives(p, q)
<1> DEFINE b == Rebased(p, new, reinject)
           c == AddTxs(b, reinject, FALSE, order)
           d == DemoteUnexecutables(c, order)
           e == SetNonces(d)
           f == PromoteExecutables(e, Accounts, order)
<1>1. CASE new \in Stateless
  <2>1. Outlives(p, p)
    BY DEF Outlives, At
  <2> QED BY <1>1, <2>1 DEF ResetPool
<1>2. CASE new \notin Stateless
  <2>0. ResetPool(p, reinject, new, order) = f
    BY <1>2, Zenon DEF ResetPool
  <2>1. /\ DOMAIN b = Fields /\ b.pending = p.pending /\ b.all = p.all /\ b.queue = p.queue
        /\ b.beats = p.beats /\ b.nonce = StateNonce[new] /\ b.locals = p.locals /\ b.base = new
        /\ b.merged = (p.merged \/ reinject # <<>>) /\ b.priced = p.priced /\ b.stales = p.stales
        /\ b.journal = p.journal
    BY DEF Rebased, Indexed, Formed, Fields
  <2> HIDE DEF b
  <2>2. StateNonce[new] \in [Accounts -> Nat]
    <3>1. \A a \in Accounts : StateNonce[new][a] \in Nat
      BY StateNonceNat
    <3>2. \E g : StateNonce[new] = [a \in Accounts |-> g[a]]
      <4> DEFINE g == [a \in Accounts |->
                         FoldLeft(LAMBDA n, h : n + Cardinality({i \in DOMAIN BlockTxs[h] :
                                                       BlockTxs[h][i].from = a}),
                                  0, Path[new])]
      <4>1. StateNonce[new] = g
        BY Zenon DEF StateNonce
      <4>2. g = [a \in Accounts |-> g[a]]
        BY Zenon
      <4> HIDE DEF g
      <4> QED BY <4>1, <4>2, Zenon
    <3> QED BY <3>1, <3>2
  <2>3. Indexed(b) /\ Covers(b)
    BY <2>1, <2>2 DEF Indexed, Formed, Covers
  <2>4. Adds(b, c, {}) /\ (reinject = <<>> => c = b)
    BY <2>3, AddTxsAdds
  <2> HIDE DEF c
  <2>5. Indexed(c) /\ Covers(c) /\ c.base = new /\ c.merged = b.merged
    BY <2>1, <2>3, <2>4 DEF Adds
  <2>6. DemotedAll(c, d)
    BY <2>5, DemoteUnexecutablesDemotes
  <2> HIDE DEF d
  <2>7. /\ Indexed(d) /\ Covers(d) /\ d.base = new /\ d.merged = b.merged
        /\ \A t \in d.pending : Valid(d, t)
        /\ d.locals = c.locals /\ d.all \subseteq c.all /\ \A t \in c.all \ d.all : ~ Valid(c, t)
    BY <2>5, <2>6 DEF DemotedAll
  <2>8. ASSUME ~ d.merged, NEW a \in Accounts
        PROVE  /\ d.nonce[a] = StateNonce[d.base][a]
               /\ Convex(d.pending, a)
               /\ \A t \in d.pending : t.from = a =>
                    \E u \in d.pending : u.from = a /\ u.nonce = StateNonce[d.base][a]
    <3>1. reinject = <<>> /\ ~ p.merged
      BY <2>1, <2>7, <2>8
    <3>2. c.pending = p.pending /\ c.nonce = StateNonce[new]
      BY <2>1, <2>4, <3>1
    <3>3. Convex(p.pending, a)
      <4>0. Runs(p)
        BY <3>1 DEF Good
      <4>1. p.nonce[a] \in Nat /\ StateNonce[p.base][a] \in Nat
        BY NonceTypes DEF Indexed
      <4> SUFFICES ASSUME NEW s \in p.pending, NEW t \in p.pending, s.from = a, t.from = a,
                          NEW n \in s.nonce .. t.nonce
                   PROVE  \E u \in p.pending : u.from = a /\ u.nonce = n
        BY DEF Convex
      <4>2. s.nonce \in Nat /\ t.nonce \in Nat /\ t.nonce < p.nonce[a] /\ ~(s.nonce < StateNonce[p.base][a])
        BY <4>0, TxIs DEF Runs, Good, Valid, Indexed, Formed
      <4>3. n \in StateNonce[p.base][a] .. p.nonce[a] - 1
        BY <4>1, <4>2
      <4> QED BY <4>0, <4>3 DEF Runs
    <3>4. Convex(d.pending, a)
      BY <2>6, <3>2, <3>3 DEF DemotedAll
    <3> QED BY <2>6, <2>7, <3>2, <3>4 DEF DemotedAll
  <2>9. Indexed(e) /\ Covers(e) /\ Good(e, Accounts) /\ e.all = d.all /\ e.locals = d.locals /\ e.base = d.base
    BY <2>7, <2>8, SetNoncesGood
  <2> HIDE DEF e
  <2>10. Advances(e, f, Accounts) /\ Fair(f)
    BY <2>9, PromoteExecutablesAdvances, PromoteExecutablesFair
  <2> HIDE DEF f
  <2>11. Good(f, Accounts \ Accounts)
    BY <2>9, <2>10 DEF Advances
  <2>12. Accounts \ Accounts = {}
    OBVIOUS
  <2>13. Indexed(f) /\ Covers(f) /\ Good(f, {}) /\ Fair(f) /\ f.base = new
    BY <2>7, <2>9, <2>10, <2>11, <2>12 DEF Advances, Moves
  <2>14. ASSUME new = p.base PROVE Outlives(p, f)
    <3>1. AllValid(b)
      <4>1. AllValid(p)
        BY DEF AllValid, Good, Indexed
      <4> QED BY <2>1, <2>14, <4>1 DEF AllValid, Valid
    <3>2. AllValid(c) /\ Outlives(b, c)
      BY <2>4, <3>1 DEF Adds
    <3>3. Outlives(p, c)
      BY <2>1, <3>2 DEF Outlives
    <3>4. d.all = c.all
      BY <2>7, <3>2 DEF AllValid
    <3>5. AllValid(e) /\ Outlives(c, e)
      <4>1. e.all = c.all /\ e.locals = c.locals /\ e.base = c.base
        BY <2>5, <2>7, <2>9, <3>4
      <4> QED BY <3>2, <4>1 DEF AllValid, Valid, Outlives, At
    <3>6. Outlives(e, f)
      BY <2>10, <3>5, MovesOutlives DEF Advances
    <3>7. p.all \in SUBSET Txs /\ c.all \in SUBSET Txs /\ e.all \in SUBSET Txs /\ f.all \in SUBSET Txs
      BY <2>5, <2>9, <2>13 DEF Indexed, Formed
    <3>8. Outlives(p, e)
      BY <3>3, <3>5, <3>7, OutlivesTrans
    <3> QED BY <3>6, <3>7, <3>8, OutlivesTrans
  <2> QED BY <1>2, <2>0, <2>13, <2>14
<1> QED BY <1>1, <1>2

\* local()'s loop over the local accounts.
LocalOp(c, s, a) ==
  IF a \in c.locals THEN s \o Rising(Of(c.pending, a)) \o Rising(Of(c.queue, a)) ELSE s
LocalInv(c, seq, i, s) == s \in Seq(Txs)
Journaling == INSTANCE FoldRule WITH Op <- LocalOp, Inv <- LocalInv

\* A flattened list holds transactions.
LEMMA RisingSeq ==
  ASSUME NEW S \in SUBSET Txs, IsFiniteSet(S), \A s, t \in S : s.nonce = t.nonce => s = t
  PROVE  Rising(S) \in Seq(Txs)
<1> DEFINE E1(i) == CHOOSE x \in S : Cardinality({y \in S : y.nonce < x.nonce}) = i - 1
           f == [i \in 1 .. Cardinality(S) |-> E1(i)]
<1>1. Rising(S) = f
  BY Zenon DEF Rising, Sorted
<1>2. \A t \in S : t.nonce \in Nat
  BY TxIs
<1>3. Lists(Rising(S), S)
  BY <1>2, RisingLists
<1> HIDE DEF E1
<1>4. Cardinality(S) \in Nat /\ \A i \in 1 .. Cardinality(S) : f[i] \in Txs
  BY <1>1, <1>3 DEF Lists
<1> QED BY <1>1, <1>4

\* local().
LEMMA LocalTxsSeq ==
  ASSUME NEW p, Indexed(p), NEW order \in Orders PROVE LocalTxs(p, order) \in Seq(Txs)
<1> DEFINE n == Cardinality(Accounts)
<1>0. n \in Nat /\ DOMAIN order = 1 .. n
  BY OrderLists DEF Lists
<1>1. LocalTxs(p, order) = Journaling!Fold(p, <<>>, order)
  BY Zenon DEF LocalTxs, Journaling!Fold, LocalOp,
       FoldLeft, MapThenFoldSet, Journaling!Unfolds, Journaling!Top, Max
<1>2. ASSUME NEW a, NEW S \in {p.pending, p.queue} PROVE Rising(Of(S, a)) \in Seq(Txs)
  <2>1. /\ Of(S, a) \in SUBSET S /\ IsFiniteSet(S) /\ Of(S, a) \in SUBSET Txs
        /\ \A s, t \in Of(S, a) : s.nonce = t.nonce => s = t
    BY DEF Indexed, Formed, Distinct, Of
  <2>2. IsFiniteSet(Of(S, a))
    BY <2>1, SubsetFinite
  <2> QED BY <2>1, <2>2, RisingSeq
<1>3. \A i \in 1 .. n : \A s : LocalInv(p, order, i - 1, s) => LocalInv(p, order, i, LocalOp(p, s, order[i]))
  <2> TAKE i \in 1 .. n
  <2> TAKE s
  <2> HAVE LocalInv(p, order, i - 1, s)
  <2> DEFINE x == Rising(Of(p.pending, order[i]))
             y == Rising(Of(p.queue, order[i]))
  <2>1. s \in Seq(Txs) /\ x \in Seq(Txs) /\ y \in Seq(Txs)
    BY <1>2 DEF LocalInv
  <2> HIDE DEF x, y
  <2>2. s \o x \o y \in Seq(Txs)
    BY <2>1
  <2> QED BY <2>1, <2>2, Zenon DEF LocalInv, LocalOp, x, y
<1>4. LocalInv(p, order, 0, <<>>)
  BY DEF LocalInv
<1>5. LocalInv(p, order, n, Journaling!Fold(p, <<>>, order))
  BY <1>0, <1>3, <1>4, Journaling!FoldInduction, Zenon
<1> QED BY <1>1, <1>5 DEF LocalInv

\* journal.rotate.
LEMMA RotateJournalKeeps ==
  ASSUME NEW p, Indexed(p), NEW order \in Orders, NEW end
  PROVE  LET q == RotateJournal(p, order, end) IN
           /\ Indexed(q) /\ (Covers(p) => Covers(q)) /\ (Good(p, {}) => Good(q, {}))
           /\ Fair(p) => Fair(q)
           /\ q.all = p.all /\ q.locals = p.locals /\ q.pending = p.pending
<1> DEFINE q == RotateJournal(p, order, end)
           j == IF end = "old" THEN p.journal ELSE LocalTxs(p, order)
           w == end = "done"
           d == IF end = "old" THEN p.due ELSE {t \in p.all : t.from \in p.locals}
<1>1. q = [p EXCEPT !.journal = j, !.due = d, !.writer = w]
  BY DEF RotateJournal
<1>2. j \in Seq(Txs)
  <2>1. LocalTxs(p, order) \in Seq(Txs) /\ p.journal \in Seq(Txs)
    BY LocalTxsSeq DEF Indexed, Formed
  <2> QED BY <2>1
<1> HIDE DEF j, q, w, d
<1>3. /\ DOMAIN q = Fields /\ q.pending = p.pending /\ q.all = p.all /\ q.queue = p.queue
      /\ q.beats = p.beats /\ q.nonce = p.nonce /\ q.locals = p.locals /\ q.base = p.base
      /\ q.merged = p.merged /\ q.priced = p.priced /\ q.stales = p.stales /\ q.journal = j
  BY <1>1 DEF Indexed, Formed, Fields
<1>4. Indexed(q) /\ (Covers(p) => Covers(q))
  BY <1>2, <1>3 DEF Indexed, Formed, Covers
<1>5. Good(p, {}) => Good(q, {})
  BY <1>3 DEF Good, Valid, Runs
<1>6. Fair(p) => Fair(q)
  BY <1>3, ShrinksFair DEF Indexed
<1> QED BY <1>3, <1>4, <1>5, <1>6 DEF q

-----------------------------------------------------------------------------
(* The actions. *)

\* A new pool, which is empty.
LEMMA EmptyPool ==
  ASSUME NEW h \in Heads, NEW p, DOMAIN p = Fields, p.all = {}, p.pending = {}, p.queue = {},
         p.beats = <<>>, p.locals = {}, p.priced = {}, p.stales = 0, p.base = h,
         p.nonce = StateNonce[h], p.journal = <<>>, p.merged = FALSE
  PROVE  Indexed(p) /\ Good(p, {}) /\ Covers(p) /\ Fair(p)
<1>1. IsFiniteSet({}) /\ Cardinality({}) = 0
  BY FS_EmptySet
<1>2. \A a \in Accounts : StateNonce[h][a] \in Nat
  BY StateNonceNat
<1>3. StateNonce[h] \in [Accounts -> Nat]
  <2> DEFINE g == [a \in Accounts |->
                     FoldLeft(LAMBDA n, b : n + Cardinality({i \in DOMAIN BlockTxs[b] :
                                                   BlockTxs[b][i].from = a}),
                              0, Path[h])]
  <2>1. StateNonce[h] = g
    BY Zenon DEF StateNonce
  <2>2. g = [a \in Accounts |-> g[a]]
    BY Zenon
  <2> HIDE DEF g
  <2> QED BY <1>2, <2>1, <2>2
<1>4. Formed(p)
  <2>1. Heap(p.priced)
    BY <1>1 DEF Heap
  <2>2. p.journal \in Seq(Txs) /\ p.beats \in Seq(Accounts)
    OBVIOUS
  <2>3. p.nonce \in [Accounts -> Nat]
    BY <1>3
  <2>4. IsFiniteSet(p.all) /\ IsFiniteSet(p.pending) /\ IsFiniteSet(p.queue)
    BY <1>1
  <2>5. p.stales \in Int /\ p.base \in Heads
    OBVIOUS
  <2>7. p.merged \in BOOLEAN
    BY Zenon
  <2>6. p.all \in SUBSET Txs /\ p.pending \in SUBSET Txs /\ p.queue \in SUBSET Txs /\ p.locals \in SUBSET Accounts
    OBVIOUS
  <2> QED BY <2>1, <2>2, <2>3, <2>4, <2>5, <2>6, <2>7, Zenon DEF Formed
<1>5. Indexed(p)
  BY <1>4 DEF Indexed, Distinct
<1>6. Covers(p)
  BY <1>1 DEF Covers
<1>7. Runs(p)
  BY <1>2 DEF Runs
<1>8. Fair(p)
  BY <1>1, PoolAssumption DEF Fair
<1> QED BY <1>5, <1>6, <1>7, <1>8 DEF Good

\* NewTxPool's pool before reset.
LEMMA FreshIs ==
  ASSUME NEW h \in Heads
  PROVE  Indexed(Fresh(h)) /\ Good(Fresh(h), {}) /\ Covers(Fresh(h)) /\ Fair(Fresh(h))
<1> DEFINE p == Fresh(h)
<1>1. /\ DOMAIN p = Fields /\ p.all = {} /\ p.pending = {} /\ p.queue = {}
      /\ p.beats = <<>> /\ p.locals = {} /\ p.priced = {} /\ p.stales = 0 /\ p.base = h
      /\ p.nonce = StateNonce[h] /\ p.journal = <<>> /\ p.merged = FALSE
  BY DEF Fresh, Fields
<1> HIDE DEF p
<1>2. Indexed(p) /\ Good(p, {}) /\ Covers(p) /\ Fair(p)
  BY <1>1, EmptyPool
<1> QED BY <1>2 DEF p

\* A restart.
LEMMA NewTxPoolGood ==
  ASSUME NEW h \in Heads, NEW journal \in Seq(Txs), NEW order \in Orders, NEW end
  PROVE  LET q == NewTxPool(h, journal, order, end) IN Indexed(q) /\ Good(q, {}) /\ Covers(q) /\ Fair(q)
<1> DEFINE r == ResetPool(Fresh(h), <<>>, h, order)
           l == AddTxs(r, journal, TRUE, order)
           m == [l EXCEPT !.journal = journal, !.due = ToSet(journal)]
           q == RotateJournal(m, order, end)
<1>1. Indexed(r) /\ Good(r, {}) /\ Covers(r) /\ Fair(r)
  <2>1. <<>> \in Seq(Txs)
    OBVIOUS
  <2> QED BY <2>1, FreshIs, ResetPoolGood
<1> HIDE DEF r
<1>2. Adds(r, l, {})
  BY <1>1, AddTxsAdds
<1> HIDE DEF l
<1>3. Indexed(l) /\ Good(l, {}) /\ Covers(l) /\ Fair(l)
  <2>1. {} \cup {} = {}
    OBVIOUS
  <2> QED BY <1>1, <1>2, <2>1 DEF Adds
<1>4. /\ DOMAIN m = Fields /\ m.pending = l.pending /\ m.all = l.all /\ m.queue = l.queue
      /\ m.beats = l.beats /\ m.nonce = l.nonce /\ m.locals = l.locals /\ m.base = l.base
      /\ m.merged = l.merged /\ m.priced = l.priced /\ m.stales = l.stales /\ m.journal = journal
  BY <1>3 DEF Indexed, Formed, Fields
<1> HIDE DEF m
<1>5. Indexed(m) /\ Covers(m) /\ Fair(m)
  BY <1>3, <1>4 DEF Indexed, Formed, Covers, Fair
<1>6. Good(m, {})
  BY <1>3, <1>4 DEF Good, Valid, Runs
<1>7. Indexed(q) /\ Good(q, {}) /\ Covers(q) /\ Fair(q)
  BY <1>5, <1>6, RotateJournalKeeps
<1> QED BY <1>7, Zenon DEF q, m, l, r, NewTxPool

\* The eviction ticker's loop over idle accounts.
EvictOp(c, p, a) == IF a \in c.idle THEN EvictAccount(p, a) ELSE p
EvictInv(c, seq, i, p) == Shrinks(c.p, p)
Evicting == INSTANCE FoldRule WITH Op <- EvictOp, Inv <- EvictInv

\* That loop, as Evict runs it.
EvictAll(p, idle, order) ==
  FoldLeft(LAMBDA q, a : IF a \in idle THEN EvictAccount(q, a) ELSE q, p, order)

\* Eviction takes queued transactions out, of accounts that are not local.
LEMMA EvictAllShrinks ==
  ASSUME NEW p, Indexed(p), NEW idle, idle \cap p.locals = {}, NEW order \in Orders
  PROVE  Shrinks(p, EvictAll(p, idle, order))
<1> DEFINE c == [p |-> p, idle |-> idle]
           n == Cardinality(Accounts)
<1>0. n \in Nat /\ DOMAIN order = 1 .. n
  BY OrderLists DEF Lists
<1>1. c.p = p /\ c.idle = idle
  OBVIOUS
<1> HIDE DEF c
<1>2. EvictAll(p, idle, order) = Evicting!Fold(c, p, order)
  <2>1. EvictAll(p, c.idle, order) = Evicting!Fold(c, p, order)
    BY Zenon DEF EvictAll, Evicting!Fold, EvictOp,
         FoldLeft, MapThenFoldSet, Evicting!Unfolds, Evicting!Top, Max
  <2> QED BY <1>1, <2>1, Zenon
<1>3. EvictInv(c, order, 0, p)
  BY <1>1, ShrinksRefl DEF EvictInv
<1>4. ASSUME NEW i \in 1 .. n, NEW s, EvictInv(c, order, i - 1, s)
      PROVE  EvictInv(c, order, i, EvictOp(c, s, order[i]))
  <2> DEFINE a == order[i]
  <2>1. Shrinks(p, s) /\ Indexed(s) /\ s.locals = p.locals
    BY <1>1, <1>4 DEF EvictInv, Shrinks, Moves
  <2>2. CASE a \in idle
    <3> DEFINE list == Of(s.queue, a)
    <3>1. Lists(Rising(list), list) /\ \A t \in list : t.from = a
      <4> HIDE DEF a
      <4>1. list \in SUBSET Of(s.queue, a)
        OBVIOUS
      <4> HIDE DEF list
      <4> QED BY <2>1, <4>1, QueuedOf, ZenonT(60)
    <3> HIDE DEF list
    <3>2. a \notin s.locals
      BY <2>1, <2>2
    <3>3. Shrinks(s, RemoveSeq(s, Rising(list), TRUE))
      BY <2>1, <3>1, <3>2, RemoveSeqShrinks DEF Lists
    <3>4. EvictOp(c, s, a) = RemoveSeq(s, Rising(list), TRUE)
      BY <1>1, <2>2 DEF EvictOp, EvictAccount, list
    <3> QED BY <1>1, <2>1, <3>3, <3>4, ShrinksTrans DEF EvictInv
  <2>3. CASE a \notin idle
    <3>1. EvictOp(c, s, a) = s
      BY <1>1, <2>3 DEF EvictOp
    <3> QED BY <1>1, <2>1, <3>1 DEF EvictInv
  <2> QED BY <2>2, <2>3
<1>5. EvictInv(c, order, n, Evicting!Fold(c, p, order))
  BY <1>0, <1>3, <1>4, Evicting!FoldInduction, Zenon
<1> QED BY <1>1, <1>2, <1>5 DEF EvictInv

\* SetGasPrice takes out what has become too cheap, of accounts that are not local.
LEMMA SetGasPriceShrinks ==
  ASSUME NEW p, Indexed(p), NEW order \in Orders, NEW count, NEW enough, NEW price
  PROVE  LET culled == Cull(p, order, count, enough) IN
           Shrinks(p, RemoveSeq([culled.p EXCEPT !.gasPrice = price], culled.drop, FALSE))
<1> DEFINE c == Cull(p, order, count, enough)
           x == [c.p EXCEPT !.gasPrice = price]
<1>1. Formed(c.p)
  BY CullCulls DEF Culled, Indexed
<1> HIDE DEF c
<1>2. /\ DOMAIN x = Fields /\ x.pending = c.p.pending /\ x.all = c.p.all /\ x.queue = c.p.queue
      /\ x.beats = c.p.beats /\ x.nonce = c.p.nonce /\ x.locals = c.p.locals /\ x.base = c.p.base
      /\ x.merged = c.p.merged /\ x.priced = c.p.priced /\ x.stales = c.p.stales /\ x.journal = c.p.journal
  BY <1>1 DEF Formed, Fields
<1> HIDE DEF x
<1>3. Formed(x) /\ SameLists(c.p, x)
  BY <1>1, <1>2 DEF Formed, SameLists
<1>4. LET r == c.p IN SameLists(r, x) /\ x.all = r.all /\ x.priced = r.priced /\ x.stales = r.stales
  BY <1>2, <1>3
<1>5. Shrinks(p, RemoveSeq(x, c.drop, FALSE))
  BY <1>3, <1>4, CullRemoves DEF c
<1> QED BY <1>5 DEF x, c

-----------------------------------------------------------------------------
(* The invariant. *)

PoolInv ==
  /\ Indexed(pool) /\ Good(pool, {}) /\ Covers(pool) /\ Fair(pool)
  /\ head \in Heads

\* What an operation on the same state does to the pool.
Keeps(p, q) == Indexed(q) /\ Good(q, {}) /\ Covers(q) /\ Fair(q) /\ Outlives(p, q)

\* Operations that take out.
LEMMA ShrinksKeeps ==
  ASSUME NEW p, Indexed(p), Good(p, {}), Covers(p), Fair(p), NEW q, Shrinks(p, q) PROVE Keeps(p, q)
<1>1. AllValid(p)
  BY DEF AllValid, Good, Indexed
<1>2. Outlives(p, q)
  BY <1>1, MovesOutlives DEF Shrinks
<1>3. Fair(q)
  BY ShrinksFair DEF Shrinks, Moves, Indexed
<1> QED BY <1>2, <1>3 DEF Keeps, Shrinks, Moves

\* Operations that add and promote.
LEMMA AddsKeeps ==
  ASSUME NEW p, Indexed(p), Good(p, {}), Covers(p), Fair(p), NEW q, Adds(p, q, {}) PROVE Keeps(p, q)
<1>1. AllValid(p)
  BY DEF AllValid, Good, Indexed
<1>2. {} \cup {} = {}
  OBVIOUS
<1> QED BY <1>1, <1>2 DEF Keeps, Adds

\* Every action keeps the invariant, and local transactions unless the state
\* changes or the node restarts.
LEMMA StepKeeps ==
  ASSUME PoolInv, [Next]_vars
  PROVE  /\ PoolInv'
         /\ \/ head' # head \/ pool'.base # pool.base
            \/ Outlives(pool, pool')
            \/ \E h \in Heads, end \in Rotations : Restart(h, end)
<1>0. Indexed(pool) /\ Good(pool, {}) /\ Covers(pool) /\ Fair(pool) /\ head \in Heads /\ pool.journal \in Seq(Txs)
  BY DEF PoolInv, Indexed, Formed
<1> SUFFICES \/ Keeps(pool, pool') /\ head' \in Heads
             \/ /\ Indexed(pool') /\ Good(pool', {}) /\ Covers(pool') /\ Fair(pool') /\ head' \in Heads
                /\ \/ head' # head \/ pool'.base # pool.base
                   \/ Outlives(pool, pool')
                   \/ \E h \in Heads, end \in Rotations : Restart(h, end)
  BY DEF PoolInv, Keeps
<1>1. ASSUME NEW tx \in Txs, AddLocal(tx) PROVE Keeps(pool, pool') /\ head' \in Heads
  <2>1. PICK order \in Orders : pool' = AddTxs(pool, <<tx>>, TRUE, order)
    BY <1>1 DEF AddLocal
  <2>2. <<tx>> \in Seq(Txs)
    OBVIOUS
  <2>3. Adds(pool, pool', {})
    BY <1>0, <2>1, <2>2, AddTxsAdds
  <2> QED BY <1>0, <1>1, <2>3, AddsKeeps DEF AddLocal
<1>2. ASSUME NEW txs \in Batches, AddRemotes(txs) PROVE Keeps(pool, pool') /\ head' \in Heads
  <2>1. PICK order \in Orders : pool' = AddTxs(pool, txs, FALSE, order)
    BY <1>2 DEF AddRemotes
  <2>2. txs \in Seq(Txs)
    BY PoolAssumption
  <2>3. Adds(pool, pool', {})
    BY <1>0, <2>1, <2>2, AddTxsAdds
  <2> QED BY <1>0, <1>2, <2>3, AddsKeeps DEF AddRemotes
<1>3. ASSUME NEW new \in Heads \ {Genesis}, Reset(new)
      PROVE  /\ Indexed(pool') /\ Good(pool', {}) /\ Covers(pool') /\ Fair(pool') /\ head' \in Heads
             /\ head' # head \/ pool'.base # pool.base \/ Outlives(pool, pool')
  <2>1. PICK order \in Orders : pool' = ResetPool(pool, Reinject(head, new), new, order)
    BY <1>3 DEF Reset
  <2>2. Reinject(head, new) \in Seq(Txs)
    BY <1>0, ReinjectSeq
  <2>3. /\ Indexed(pool') /\ Good(pool', {}) /\ Covers(pool') /\ Fair(pool')
        /\ new \in Stateless => pool' = pool
        /\ new \notin Stateless => pool'.base = new
        /\ new = pool.base => Outlives(pool, pool')
    BY <1>0, <2>1, <2>2, ResetPoolGood
  <2>4. Outlives(pool, pool)
    BY DEF Outlives, At
  <2> QED BY <1>3, <2>3, <2>4 DEF Reset
<1>4. ASSUME Evict PROVE Keeps(pool, pool') /\ head' \in Heads
  <2>1. PICK order \in Orders, k \in 0 .. Len(pool.beats) :
          LET idle == Accounts \ (pool.locals
                        \cup ToSet(SubSeq(pool.beats, k + 1, Len(pool.beats))))
          IN  pool' = EvictAll(pool, idle, order)
    BY <1>4, Zenon DEF Evict, EvictAll
  <2> DEFINE idle == Accounts \ (pool.locals
                        \cup ToSet(SubSeq(pool.beats, k + 1, Len(pool.beats))))
  <2>2. idle \cap pool.locals = {} /\ pool' = EvictAll(pool, idle, order)
    BY <2>1
  <2> HIDE DEF idle
  <2>3. Shrinks(pool, pool')
    BY <1>0, <2>2, EvictAllShrinks
  <2> QED BY <1>0, <1>4, <2>3, ShrinksKeeps DEF Evict
<1>5. ASSUME NEW price \in Prices, SetGasPrice(price) PROVE Keeps(pool, pool') /\ head' \in Heads
  <2>1. PICK order \in Orders :
          LET culled == Cull(pool, order, Cardinality(pool.all) + 1,
                             {t \in pool.all : t.price >= price})
          IN  pool' = RemoveSeq([culled.p EXCEPT !.gasPrice = price], culled.drop, FALSE)
    BY <1>5, Zenon DEF SetGasPrice
  <2>2. Shrinks(pool, pool')
    BY <1>0, <2>1, SetGasPriceShrinks
  <2> QED BY <1>0, <1>5, <2>2, ShrinksKeeps DEF SetGasPrice
<1>6. ASSUME NEW end \in Rotations, Rotate(end) PROVE Keeps(pool, pool') /\ head' \in Heads
  <2>1. PICK order \in Orders : pool' = RotateJournal(pool, order, end)
    BY <1>6 DEF Rotate
  <2>2. /\ Indexed(pool') /\ Covers(pool') /\ Good(pool', {}) /\ Fair(pool')
        /\ pool'.all = pool.all /\ pool'.locals = pool.locals
    BY <1>0, <2>1, RotateJournalKeeps
  <2>3. Outlives(pool, pool')
    BY <2>2 DEF Outlives, At
  <2> QED BY <1>0, <1>6, <2>2, <2>3 DEF Keeps, Rotate
<1>7. ASSUME NEW h \in Heads, NEW end \in Rotations, Restart(h, end)
      PROVE  Indexed(pool') /\ Good(pool', {}) /\ Covers(pool') /\ Fair(pool') /\ head' \in Heads
  <2>1. PICK order \in Orders : pool' = NewTxPool(h, pool.journal, order, end)
    BY <1>7 DEF Restart
  <2>2. Indexed(pool') /\ Good(pool', {}) /\ Covers(pool') /\ Fair(pool')
    BY <1>0, <2>1, NewTxPoolGood
  <2> QED BY <1>7, <2>2 DEF Restart
<1>8. ASSUME UNCHANGED vars PROVE Keeps(pool, pool') /\ head' \in Heads
  <2>1. pool' = pool /\ head' = head
    BY <1>8 DEF vars
  <2>2. Shrinks(pool, pool)
    BY <1>0, ShrinksRefl
  <2> QED BY <1>0, <2>1, <2>2, ShrinksKeeps
<1> QED BY <1>1, <1>2, <1>3, <1>4, <1>5, <1>6, <1>7, <1>8, Zenon DEF Next

\* The first pool is empty.
LEMMA InitPool == Init => PoolInv
<1> SUFFICES ASSUME Init PROVE PoolInv
  OBVIOUS
<1> DEFINE p == [Fresh(Genesis) EXCEPT !.writer = TRUE]
<1>0. pool = p /\ head = Genesis /\ Genesis \in Heads
  BY PoolAssumption DEF Init
<1>1. /\ DOMAIN p = Fields /\ p.all = {} /\ p.pending = {} /\ p.queue = {}
      /\ p.beats = <<>> /\ p.locals = {} /\ p.priced = {} /\ p.stales = 0 /\ p.base = Genesis
      /\ p.nonce = StateNonce[Genesis] /\ p.journal = <<>> /\ p.merged = FALSE
  BY DEF Fresh, Fields
<1> HIDE DEF p
<1>2. Indexed(p) /\ Good(p, {}) /\ Covers(p) /\ Fair(p)
  BY <1>0, <1>1, EmptyPool
<1> QED BY <1>0, <1>2 DEF PoolInv

\* The inductive invariant of the pool: every operation of tx_pool.go, from any
\* state it can leave the pool in, keeps lookup, lists, pending nonces and heap in step.
THEOREM PoolInvariant == Spec => []PoolInv
<1>1. PoolInv /\ [Next]_vars => PoolInv'
  BY StepKeeps
<1> QED BY <1>1, InitPool, PTL DEF Spec

\* The lookup and the lists agree, with one transaction per nonce.
THEOREM LookupAgrees == Spec => []AllIndexed
<1>1. PoolInv => AllIndexed
  BY DEF PoolInv, Indexed, Distinct, AllIndexed
<1> QED BY <1>1, PoolInvariant, PTL

\* Pending transactions are payable and not used, and without a reorganisation that
\* gave transactions back they run without a gap from the state's nonce to the
\* pending state's, which promoteExecutables leaves out of the queue.
THEOREM PendingRuns == Spec => []PendingExecutable
<1>1. PoolInv => PendingExecutable
  <2> SUFFICES ASSUME PoolInv, NEW a \in Accounts
               PROVE  /\ Of(pool.pending, a) \subseteq Payable[pool.base]
                      /\ \A t \in Of(pool.pending, a) : t.nonce >= StateNonce[pool.base][a]
                      /\ ~ pool.merged =>
                           /\ {t.nonce : t \in Of(pool.pending, a)}
                                = StateNonce[pool.base][a] .. pool.nonce[a] - 1
                           /\ \A t \in Of(pool.queue, a) : t.nonce # pool.nonce[a]
    BY DEF PendingExecutable
  <2>0. Indexed(pool) /\ Good(pool, {}) /\ Formed(pool)
    BY DEF PoolInv, Indexed
  <2>1. \A t \in Of(pool.pending, a) :
          /\ t \in pool.pending /\ t.from = a /\ t.nonce \in Nat /\ t \in Payable[pool.base]
          /\ ~(t.nonce < StateNonce[pool.base][a])
    BY <2>0, TxIs DEF Formed, Good, Valid, Of
  <2>2. pool.nonce[a] \in Nat /\ StateNonce[pool.base][a] \in Nat
    BY <2>0, NonceTypes
  <2>3. Of(pool.pending, a) \subseteq Payable[pool.base]
        /\ \A t \in Of(pool.pending, a) : t.nonce >= StateNonce[pool.base][a]
    BY <2>1, <2>2
  <2>4. ASSUME ~ pool.merged
        PROVE  /\ {t.nonce : t \in Of(pool.pending, a)}
                    = StateNonce[pool.base][a] .. pool.nonce[a] - 1
               /\ \A t \in Of(pool.queue, a) : t.nonce # pool.nonce[a]
    <3>1. /\ \A t \in pool.pending : t.from = a => t.nonce < pool.nonce[a]
          /\ \A n \in StateNonce[pool.base][a] .. pool.nonce[a] - 1 :
               \E t \in pool.pending : t.from = a /\ t.nonce = n
          /\ \A t \in pool.queue : t.nonce # pool.nonce[t.from]
      BY <2>0, <2>4 DEF Good, Runs
    <3>2. \A t \in Of(pool.pending, a) : t.nonce \in StateNonce[pool.base][a] .. pool.nonce[a] - 1
      BY <2>1, <2>2, <3>1
    <3>3. \A n \in StateNonce[pool.base][a] .. pool.nonce[a] - 1 : \E t \in Of(pool.pending, a) : t.nonce = n
      BY <3>1 DEF Of
    <3>4. \A t \in Of(pool.queue, a) : t.nonce # pool.nonce[a]
      BY <3>1 DEF Of
    <3> QED BY <3>2, <3>3, <3>4
  <2> QED BY <2>3, <2>4
<1> QED BY <1>1, PoolInvariant, PTL

\* The price heap covers the pool, and its counter covers the stale entries,
\* whatever mixture of Removed, Put, Cap, Discard and Underpriced has run.
THEOREM StaleCounted == Spec => []HeapCovers
<1>1. PoolInv => HeapCovers
  <2> SUFFICES ASSUME PoolInv
               PROVE  Cardinality({e \in pool.priced : e[1] \notin pool.all}) <= pool.stales
    BY DEF HeapCovers, PoolInv, Covers
  <2> DEFINE live == {e \in pool.priced : e[1] \in pool.all}
             stale == {e \in pool.priced : e[1] \notin pool.all}
             f == [e \in live |-> e[1]]
  <2>1. /\ IsFiniteSet(pool.priced) /\ IsFiniteSet(pool.all) /\ pool.stales \in Int
        /\ (\A t \in pool.all : EntriesOf(pool.priced, t) # {})
        /\ Cardinality(pool.priced) <= pool.stales + Cardinality(pool.all)
    BY DEF PoolInv, Indexed, Formed, Heap, Covers
  <2>2. f \in Surjection(live, pool.all)
    <3>1. f \in [live -> pool.all]
      OBVIOUS
    <3>2. \A t \in pool.all : \E e \in live : f[e] = t
      BY <2>1 DEF EntriesOf
    <3> QED BY <3>1, <3>2, Zenon DEF Surjection
  <2>3. live \in SUBSET pool.priced /\ stale = pool.priced \ live /\ pool.priced \cap live = live
    OBVIOUS
  <2>4. IsFiniteSet(live)
    BY <2>1, <2>3, SubsetFinite
  <2> HIDE DEF f, live, stale
  <2>5. Cardinality(pool.all) <= Cardinality(live)
    BY <2>2, <2>4, FS_Surjection
  <2>6. IsFiniteSet(stale) /\ Cardinality(stale) = Cardinality(pool.priced) - Cardinality(live)
    BY <2>1, <2>3, FS_Difference
  <2>7. Cardinality(pool.all) \in Nat /\ Cardinality(live) \in Nat /\ Cardinality(pool.priced) \in Nat
    BY <2>1, <2>4, FS_CardinalityType
  <2>8. Cardinality(stale) <= pool.stales
    BY <2>1, <2>5, <2>6, <2>7
  <2> QED BY <2>8 DEF stale
<1> QED BY <1>1, PoolInvariant, PTL

\* In a pool over its slots no account that is not local is over its own: the
\* rounds of promoteExecutables suffice, and nothing after them undoes it.
THEOREM SlotsFair == Spec => []FairSlots
<1>1. PoolInv => FairSlots
  BY DEF PoolInv, Fair, FairSlots
<1> QED BY <1>1, PoolInvariant, PTL

\* No limit, price, timer or addition takes a local account's transaction out
\* of the pool unless a transaction that outbids it takes its place.
THEOREM LocalsAreKept == Spec => LocalsStay
<1> DEFINE Step == \/ head' # head \/ pool'.base # pool.base
                   \/ \A t \in pool.all : t.from \in pool.locals =>
                        \E u \in At(pool'.all, t) : u = t \/ Outbids(u, t)
                   \/ \E h \in Heads, end \in Rotations : Restart(h, end)
<1>1. PoolInv /\ [Next]_vars => Step
  BY StepKeeps DEF Outlives
<1>2. PoolInv /\ [Next]_vars => [Step]_vars
  BY <1>1
<1> QED BY <1>2, PoolInvariant, PTL DEF Spec, LocalsStay
=============================================================================
