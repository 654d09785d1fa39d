-------------------------- MODULE DownloaderProofs --------------------------
(***************************************************************************)
(* Proofs about Downloader, for every height, peer set, cache size and     *)
(* limit: no part of a block is lost or asked for twice at once, no task   *)
(* outside the result cache is ever popped, the download implements        *)
(* ChainDelivery, no peer is taken out of use by answering late, a         *)
(* synchronisation that reports success is complete, and a fetcher gives   *)
(* up only when every peer of the round was tried.                         *)
(***************************************************************************)
EXTENDS Downloader, FiniteSetTheorems, WellFoundedInduction, TLAPS

-----------------------------------------------------------------------------
(* The inductive invariant, as predicates on a queue x. *)

Asked(x, k) == UNION {ToSet(x.pend[k][p]) : p \in Peers}

WellFormed(x) ==
  /\ {"mode", "headed", "tasks", "pend", "done", "cache", "offset", "limit",
      "from", "size", "unfilled", "proced", "miss"} \subseteq DOMAIN x
  /\ x.mode \in {"full", "fast"}
  /\ x.headed \in Nat /\ x.offset \in Nat /\ x.offset <= x.headed + 1
  /\ x.limit \in 1 .. CacheSize
  /\ DOMAIN x.tasks = Kinds /\ DOMAIN x.pend = Kinds /\ DOMAIN x.done = Parts
  /\ \A k \in Kinds : DOMAIN x.pend[k] = Peers

\* Every missing part of kind k is queued or asked for, once.
KindConserved(x, k) ==
  /\ x.tasks[k] \cup Asked(x, k) = {n \in x.offset .. x.headed : n \notin x.done[k]}
  /\ \A p \in Peers : /\ x.tasks[k] \cap ToSet(x.pend[k][p]) = {}
                      /\ \A r \in Peers \ {p} : ToSet(x.pend[k][p]) \cap ToSet(x.pend[k][r]) = {}

MissingParts(x, n) == {l \in PartsOf(x.mode) : n \notin x.done[l]}

\* The cache is a front of the scheduled blocks that covers everything finished
\* or asked for, and a slot counts what it lacks.
Cached(x) ==
  /\ DOMAIN x.cache \subseteq x.offset .. x.headed
  /\ \A n \in DOMAIN x.cache : \A m \in x.offset .. n : m \in DOMAIN x.cache
  /\ \A k \in Parts : x.done[k] \subseteq DOMAIN x.cache
  /\ \A k \in Parts : \A p \in Peers : ToSet(x.pend[k][p]) \subseteq DOMAIN x.cache
  /\ \A n \in DOMAIN x.cache : x.cache[n] = Cardinality(MissingParts(x, n))

\* Parts that are not wanted in a full synchronisation.
Unwanted(x) ==
  \A k \in Parts \ PartsOf(x.mode) :
    x.tasks[k] = {} /\ \A p \in Peers : x.pend[k][p] = <<>>

QueueInv(x) ==
  /\ WellFormed(x) /\ Cached(x) /\ Unwanted(x)
  /\ \A k \in PartsOf(x.mode) : KindConserved(x, k)

\* Headers that were fetched and are not scheduled yet.
Held == proc.todo + (IF procCh = <<>> THEN 0 ELSE procCh[1])

HeaderTypes ==
  /\ DOMAIN header = {"at", "from", "rest", "skeleton"}
  /\ header.from \in Nat /\ header.rest \in Nat
  /\ DOMAIN proc = {"at", "todo"} /\ proc.todo \in Nat
  /\ proc.at # "busy" => proc.todo = 0
  /\ procCh \in Seq(Nat) /\ Len(procCh) <= 1
  /\ DOMAIN fetch = Kinds /\ \A k \in Kinds : "at" \in DOMAIN fetch[k]
  /\ fetch["header"].at # "off" => header.at = "fill"

\* The skeleton that is being filled.
Filling ==
  /\ q.from = header.from /\ q.size \in Nat /\ q.proced \in Nat
  /\ header.from + q.size <= Height + 1 /\ q.proced <= q.size
  /\ q.unfilled \subseteq Nat
  /\ \A s \in q.unfilled : q.from + q.proced <= s /\ s <= q.from + q.size

\* Headers come in order and none above the chain.
HeaderInv ==
  /\ HeaderTypes
  /\ q.headed + Held <= Height
  /\ header.at = "fill" => /\ Filling
                           /\ q.headed + Held + 1 <= header.from + q.proced
  /\ header.at \in {"skeleton", "tail", "push", "end"} =>
       /\ q.headed + Held + 1 <= header.from
       /\ header.from + header.rest <= Height + 1

IInv == QueueInv(q) /\ HeaderInv /\ chain \in Nat /\ chain < q.offset

-----------------------------------------------------------------------------
(* Numbers. *)

\* A set of natural numbers has a least element.
LEMMA Least ==
  ASSUME NEW T \in SUBSET Nat, T # {}
  PROVE  \E n \in T : \A m \in T : n <= m
<1>1. \E R : IsWellFoundedOn(R, Nat) /\ \A x, y \in Nat : <<y, x>> \in R <=> y < x
  <2> DEFINE Q == OpToRel(<, Nat)
  <2>1. IsWellFoundedOn(Q, Nat)
    BY NatLessThanWellFounded
  <2>2. \A x, y \in Nat : <<y, x>> \in Q <=> y < x
    BY DEF OpToRel
  <2> HIDE DEF Q
  <2> QED BY <2>1, <2>2, Zenon
<1>2. PICK R : IsWellFoundedOn(R, Nat) /\ \A x, y \in Nat : <<y, x>> \in R <=> y < x
  BY <1>1, Zenon
<1>3. PICK n \in T : \A y \in T : ~(<<y, n>> \in R)
  BY <1>2, WFMin, Zenon
<1>4. \A m \in T : ~(m < n)
  BY <1>2, <1>3, Zenon
<1> QED BY <1>4

\* Lowest is that element.
LEMMA LowestIs ==
  ASSUME NEW T \in SUBSET Nat, T # {}
  PROVE  Lowest(T) \in T /\ \A m \in T : Lowest(T) <= m
BY Least, Zenon DEF Lowest

\* A front of an interval is an interval as long as its size.
LEMMA FrontIsInterval ==
  ASSUME NEW a \in Nat, NEW b \in Nat, NEW S \in SUBSET (a .. b),
         \A n \in S : \A m \in a .. n : m \in S
  PROVE  /\ IsFiniteSet(S) /\ Cardinality(S) \in Nat
         /\ S = a .. a + Cardinality(S) - 1
<1>0. \A n \in S : n \in Nat /\ a <= n /\ n <= b
  BY Zenon, SMT
<1>1. IsFiniteSet(S) /\ Cardinality(S) \in Nat
  <2>1. S \subseteq Nat
    BY <1>0
  <2>2. \A n \in S : n <= b
    BY <1>0
  <2>3. IsFiniteSet(S)
    BY <2>1, <2>2, FS_BoundedSetOfNaturals
  <2> QED BY <2>3, FS_CardinalityType
<1>2. CASE S = {}
  BY <1>1, <1>2, FS_EmptySet
<1>3. CASE S # {}
  <2> DEFINE T == {b - n : n \in S}
  <2>1. T \in SUBSET Nat /\ T # {}
    <3>1. \A n \in S : b - n \in Nat
      BY <1>0
    <3>2. T \subseteq Nat
      BY <3>1, Zenon
    <3>3. T # {}
      BY <1>3, Zenon
    <3> QED BY <3>2, <3>3, Zenon
  <2> HIDE DEF T
  <2>2. PICK t \in T : \A m \in T : t <= m
    BY <2>1, Least
  <2>3. PICK n \in S : t = b - n
    BY <2>2 DEF T
  <2>4. \A m \in S : m <= n
    <3> TAKE m \in S
    <3>1. t <= b - m
      BY <2>2 DEF T
    <3> QED BY <3>1, <2>3, <1>0
  <2>5. S = a .. n
    <3>1. \A m \in S : m \in a .. n
      BY <2>3, <2>4, <1>0
    <3>2. \A m \in a .. n : m \in S
      BY <2>3
    <3> QED BY <3>1, <3>2, Zenon
  <2>6. Cardinality(S) = n - a + 1
    <3>1. n \in Int /\ ~(a > n)
      BY <2>3, <1>0
    <3> QED BY <3>1, <2>5, FS_Interval
  <2> QED BY <1>1, <2>5, <2>6
<1> QED BY <1>2, <1>3

-----------------------------------------------------------------------------
(* Requests that return to the task queue. *)

LEMMA PartsOfParts == \A mode : PartsOf(mode) \subseteq Parts
BY DEF PartsOf, Parts

LEMMA KindNames == /\ "header" \in Kinds /\ "body" \in Kinds /\ "receipt" \in Kinds
                   /\ "header" \notin Parts /\ Parts \subseteq Kinds
BY DEF Kinds, Parts

\* What y keeps of x when only task queues and requests change.
Keeps(x, y) ==
  /\ DOMAIN y = DOMAIN x
  /\ y.mode = x.mode /\ y.headed = x.headed /\ y.offset = x.offset
  /\ y.limit = x.limit /\ y.cache = x.cache /\ y.done = x.done

KeepsSkeleton(x, y) ==
  /\ y.from = x.from /\ y.size = x.size
  /\ y.unfilled = x.unfilled /\ y.proced = x.proced

LEMMA RequeueFields ==
  ASSUME NEW x, WellFormed(x), NEW k \in Kinds, NEW P \in SUBSET Peers,
         NEW y, y = Requeue(x, k, P)
  PROVE  /\ Keeps(x, y) /\ KeepsSkeleton(x, y)
         /\ DOMAIN y.tasks = Kinds /\ DOMAIN y.pend = Kinds
         /\ y.tasks[k] = x.tasks[k] \cup UNION {ToSet(x.pend[k][p]) : p \in P}
         /\ y.pend[k] = [p \in Peers |-> IF p \in P THEN <<>> ELSE x.pend[k][p]]
         /\ \A l \in Kinds \ {k} : y.tasks[l] = x.tasks[l] /\ y.pend[l] = x.pend[l]
BY DEF WellFormed, Requeue, Keeps, KeepsSkeleton

\* Well-formedness and the cache of a queue in which tasks and requests moved.
LEMMA KeptInv ==
  ASSUME NEW x, NEW y, WellFormed(x), Keeps(x, y),
         DOMAIN y.tasks = Kinds, DOMAIN y.pend = Kinds,
         \A k \in Kinds : DOMAIN y.pend[k] = Peers
  PROVE  /\ WellFormed(y)
         /\ \A n : MissingParts(y, n) = MissingParts(x, n)
         /\ (Cached(x) /\ \A k \in Parts : \A p \in Peers :
                             ToSet(y.pend[k][p]) \subseteq DOMAIN x.cache) => Cached(y)
<1>1. WellFormed(y)
  BY DEF WellFormed, Keeps
<1>2. \A n : MissingParts(y, n) = MissingParts(x, n)
  BY DEF MissingParts, Keeps
<1>3. ASSUME Cached(x), \A k \in Parts : \A p \in Peers : ToSet(y.pend[k][p]) \subseteq DOMAIN x.cache
      PROVE  Cached(y)
  BY <1>2, <1>3 DEF Cached, Keeps
<1> QED BY <1>1, <1>2, <1>3

LEMMA ToSetEmpty == ToSet(<<>>) = {}
BY DEF ToSet

LEMMA RequeueInv ==
  ASSUME NEW x, QueueInv(x), NEW k \in Kinds, NEW P \in SUBSET Peers
  PROVE  QueueInv(Requeue(x, k, P)) /\ Keeps(x, Requeue(x, k, P)) /\ KeepsSkeleton(x, Requeue(x, k, P))
<1> DEFINE y == Requeue(x, k, P)
<1> HIDE DEF y
<1>0. WellFormed(x) /\ Cached(x) /\ Unwanted(x) /\ \A l \in PartsOf(x.mode) : KindConserved(x, l)
  BY DEF QueueInv
<1>1. /\ Keeps(x, y) /\ KeepsSkeleton(x, y)
      /\ DOMAIN y.tasks = Kinds /\ DOMAIN y.pend = Kinds
      /\ y.tasks[k] = x.tasks[k] \cup UNION {ToSet(x.pend[k][p]) : p \in P}
      /\ y.pend[k] = [p \in Peers |-> IF p \in P THEN <<>> ELSE x.pend[k][p]]
      /\ \A l \in Kinds \ {k} : y.tasks[l] = x.tasks[l] /\ y.pend[l] = x.pend[l]
  BY <1>0, RequeueFields DEF y
<1>2. \A l \in Kinds : DOMAIN y.pend[l] = Peers
  BY <1>0, <1>1 DEF WellFormed
<1>3. \A p \in Peers : ToSet(y.pend[k][p]) = IF p \in P THEN {} ELSE ToSet(x.pend[k][p])
  BY <1>1, ToSetEmpty
<1>4. \A l \in Kinds : \A p \in Peers : ToSet(y.pend[l][p]) \subseteq ToSet(x.pend[l][p])
  BY <1>1, <1>3
<1>5. WellFormed(y) /\ Cached(y)
  <2>1. \A l \in Parts : \A p \in Peers : ToSet(y.pend[l][p]) \subseteq DOMAIN x.cache
    BY <1>0, <1>4, KindNames, Zenon DEF Cached
  <2> QED BY <1>0, <1>1, <1>2, <2>1, KeptInv
<1>6. Unwanted(y)
  <2> SUFFICES ASSUME NEW l \in Parts \ PartsOf(x.mode)
               PROVE  y.tasks[l] = {} /\ \A p \in Peers : y.pend[l][p] = <<>>
    BY <1>1 DEF Unwanted, Keeps
  <2>1. x.tasks[l] = {} /\ \A p \in Peers : x.pend[l][p] = <<>>
    BY <1>0 DEF Unwanted
  <2>2. CASE l = k
    BY <2>1, <2>2, <1>1, ToSetEmpty
  <2>3. CASE l # k
    BY <2>1, <2>3, <1>1, KindNames
  <2> QED BY <2>2, <2>3
<1>7. ASSUME NEW l \in PartsOf(y.mode) PROVE KindConserved(y, l)
  <2>1. KindConserved(x, l) /\ l \in Kinds
    BY <1>0, <1>1, <1>7, PartsOfParts, KindNames DEF Keeps
  <2>2. CASE l # k
    <3>1. y.tasks[l] = x.tasks[l] /\ y.pend[l] = x.pend[l]
      BY <1>1, <2>1, <2>2
    <3>2. y.done = x.done /\ y.offset = x.offset /\ y.headed = x.headed
      BY <1>1 DEF Keeps
    <3>3. Asked(y, l) = Asked(x, l)
      BY <3>1 DEF Asked
    <3> QED BY <3>1, <3>2, <3>3, <2>1, Zenon DEF KindConserved
  <2>3. CASE l = k
    <3>1. y.tasks[k] \cup Asked(y, k) = x.tasks[k] \cup Asked(x, k)
      <4>1. \A n : n \in Asked(x, k) <=> \E p \in Peers : n \in ToSet(x.pend[k][p])
        BY Zenon DEF Asked
      <4>2. \A n : n \in Asked(y, k) <=> \E p \in Peers : n \in ToSet(y.pend[k][p])
        BY Zenon DEF Asked
      <4>3. \A n : n \in y.tasks[k] <=> n \in x.tasks[k] \/ \E p \in P : n \in ToSet(x.pend[k][p])
        <5>1. y.tasks[k] = x.tasks[k] \cup UNION {ToSet(x.pend[k][p]) : p \in P}
          BY <1>1
        <5>2. \A n : n \in UNION {ToSet(x.pend[k][p]) : p \in P}
                       <=> \E p \in P : n \in ToSet(x.pend[k][p])
          BY Zenon
        <5> QED BY <5>1, <5>2
      <4> QED BY <4>1, <4>2, <4>3, <1>3
    <3>2. \A p \in Peers : y.tasks[k] \cap ToSet(y.pend[k][p]) = {}
      BY <1>1, <1>3, <2>1, <2>3 DEF KindConserved
    <3>3. \A p \in Peers : \A r \in Peers \ {p} : ToSet(y.pend[k][p]) \cap ToSet(y.pend[k][r]) = {}
      BY <1>3, <2>1, <2>3 DEF KindConserved
    <3> QED BY <3>1, <3>2, <3>3, <2>1, <2>3, <1>1 DEF KindConserved, Keeps
  <2> QED BY <2>2, <2>3
<1>8. QueueInv(y)
  BY <1>5, <1>6, <1>7 DEF QueueInv
<1> QED BY <1>1, <1>8 DEF y

LEMMA RevokeInv ==
  ASSUME NEW x, QueueInv(x), NEW P \in SUBSET Peers
  PROVE  QueueInv(Revoke(x, P)) /\ Keeps(x, Revoke(x, P)) /\ KeepsSkeleton(x, Revoke(x, P))
<1> DEFINE y == Requeue(x, "body", P)
<1>1. QueueInv(y) /\ Keeps(x, y) /\ KeepsSkeleton(x, y)
  BY RequeueInv, KindNames
<1> HIDE DEF y
<1>2. QueueInv(Requeue(y, "receipt", P)) /\ Keeps(y, Requeue(y, "receipt", P))
        /\ KeepsSkeleton(y, Requeue(y, "receipt", P))
  BY <1>1, RequeueInv, KindNames
<1>3. Revoke(x, P) = Requeue(y, "receipt", P)
  BY DEF Revoke, y
<1> QED BY <1>1, <1>2, <1>3 DEF Keeps, KeepsSkeleton

-----------------------------------------------------------------------------
(* Parts that arrive. *)

LEMMA MissingFinite == \A x, n : IsFiniteSet(MissingParts(x, n))
<1> SUFFICES ASSUME NEW x, NEW n PROVE IsFiniteSet(MissingParts(x, n))
  OBVIOUS
<1>1. IsFiniteSet({"body"})
  BY FS_Singleton
<1>2. IsFiniteSet({"body"} \cup {"receipt"})
  BY <1>1, FS_AddElement
<1>3. MissingParts(x, n) \subseteq {"body"} \cup {"receipt"}
  BY PartsOfParts DEF MissingParts, Parts
<1> QED BY <1>2, <1>3, FS_Subset

\* What y keeps of x when parts arrive.
Stays(x, y) ==
  /\ DOMAIN y = DOMAIN x
  /\ y.mode = x.mode /\ y.headed = x.headed /\ y.offset = x.offset
  /\ y.limit = x.limit

\* Part k of the blocks in good is done.
LEMMA MissingLess ==
  ASSUME NEW x, NEW y, Stays(x, y), NEW k \in PartsOf(x.mode), NEW good,
         y.done[k] = x.done[k] \cup good, good \cap x.done[k] = {},
         \A l \in Parts \ {k} : y.done[l] = x.done[l]
  PROVE  \A n : Cardinality(MissingParts(y, n)) =
           IF n \in good THEN Cardinality(MissingParts(x, n)) - 1
           ELSE Cardinality(MissingParts(x, n))
<1> TAKE n
<1>0. y.mode = x.mode
  BY DEF Stays
<1>1. CASE n \in good
  <2>1. MissingParts(y, n) = MissingParts(x, n) \ {k} /\ k \in MissingParts(x, n)
    BY <1>0, <1>1, PartsOfParts DEF MissingParts
  <2> QED BY <1>1, <2>1, MissingFinite, FS_RemoveElement
<1>2. CASE n \notin good
  <2>1. MissingParts(y, n) = MissingParts(x, n)
    BY <1>0, <1>2, PartsOfParts DEF MissingParts
  <2> QED BY <1>2, <2>1
<1> QED BY <1>1, <1>2

\* The queue after a delivery of which the blocks of good were accepted.
Accepted(x, k, p, good) ==
  [x EXCEPT !.pend[k][p] = <<>>,
            !.tasks[k] = @ \cup (ToSet(x.pend[k][p]) \ good),
            !.done[k] = @ \cup good,
            !.cache = [n \in DOMAIN @ |-> IF n \in good THEN @[n] - 1 ELSE @[n]]]

LEMMA DeliverAccepts ==
  ASSUME NEW x, NEW k, NEW p, NEW answer
  PROVE  \E good \in SUBSET ToSet(x.pend[k][p]) :
           DeliverParts(x, k, p, answer).q = Accepted(x, k, p, good)
<1> DEFINE request == x.pend[k][p]
           outside == {i \in DOMAIN request : request[i] \notin DOMAIN x.cache}
           matched == {i \in DOMAIN request : i <= Len(answer) /\ \A j \in 1 .. i :
                         answer[j] = request[j] /\ j \notin outside}
           good == {request[i] : i \in matched}
<1>1. good \in SUBSET ToSet(x.pend[k][p])
  BY Zenon DEF ToSet
<1>2. DeliverParts(x, k, p, answer).q = Accepted(x, k, p, good)
  BY DEF DeliverParts, Accepted
<1> QED BY <1>1, <1>2

LEMMA AcceptedFields ==
  ASSUME NEW x, WellFormed(x), NEW k \in Parts, NEW p \in Peers, NEW good,
         NEW y, y = Accepted(x, k, p, good)
  PROVE  /\ Stays(x, y) /\ KeepsSkeleton(x, y)
         /\ DOMAIN y.tasks = Kinds /\ DOMAIN y.pend = Kinds /\ DOMAIN y.done = Parts
         /\ y.tasks[k] = x.tasks[k] \cup (ToSet(x.pend[k][p]) \ good)
         /\ y.pend[k] = [x.pend[k] EXCEPT ![p] = <<>>]
         /\ \A l \in Kinds \ {k} : y.tasks[l] = x.tasks[l] /\ y.pend[l] = x.pend[l]
         /\ y.done[k] = x.done[k] \cup good
         /\ \A l \in Parts \ {k} : y.done[l] = x.done[l]
         /\ y.cache = [n \in DOMAIN x.cache |-> IF n \in good THEN x.cache[n] - 1 ELSE x.cache[n]]
BY KindNames DEF WellFormed, Accepted, Stays, KeepsSkeleton

LEMMA AcceptedInv ==
  ASSUME NEW x, QueueInv(x), NEW k \in Parts, NEW p \in Peers,
         NEW good \in SUBSET ToSet(x.pend[k][p]), NEW y, y = Accepted(x, k, p, good)
  PROVE  /\ QueueInv(y) /\ Stays(x, y) /\ KeepsSkeleton(x, y)
         /\ \A l \in Parts : x.done[l] \subseteq y.done[l]
<1>0. WellFormed(x) /\ Cached(x) /\ Unwanted(x) /\ \A l \in PartsOf(x.mode) : KindConserved(x, l)
  BY DEF QueueInv
<1>1. /\ Stays(x, y) /\ KeepsSkeleton(x, y)
      /\ DOMAIN y.tasks = Kinds /\ DOMAIN y.pend = Kinds /\ DOMAIN y.done = Parts
      /\ y.tasks[k] = x.tasks[k] \cup (ToSet(x.pend[k][p]) \ good)
      /\ y.pend[k] = [x.pend[k] EXCEPT ![p] = <<>>]
      /\ \A l \in Kinds \ {k} : y.tasks[l] = x.tasks[l] /\ y.pend[l] = x.pend[l]
      /\ y.done[k] = x.done[k] \cup good
      /\ \A l \in Parts \ {k} : y.done[l] = x.done[l]
      /\ y.cache = [n \in DOMAIN x.cache |-> IF n \in good THEN x.cache[n] - 1 ELSE x.cache[n]]
  BY <1>0, AcceptedFields
<1>2. WellFormed(y)
  BY <1>0, <1>1, KindNames DEF WellFormed, Stays
<1>3. k \in Kinds /\ DOMAIN x.pend[k] = Peers
  BY <1>0, KindNames DEF WellFormed
<1>4. \A r \in Peers : ToSet(y.pend[k][r]) = IF r = p THEN {} ELSE ToSet(x.pend[k][r])
  BY <1>1, <1>3, ToSetEmpty
<1>5. \A l \in Kinds : \A r \in Peers : ToSet(y.pend[l][r]) \subseteq ToSet(x.pend[l][r])
  BY <1>1, <1>4
<1>6. k \notin PartsOf(x.mode) => good = {}
  BY <1>0, ToSetEmpty DEF Unwanted
<1>7. good \subseteq DOMAIN x.cache
  BY <1>0, Zenon DEF Cached
<1>8. good \cap x.done[k] = {}
  <2>1. CASE k \in PartsOf(x.mode)
    <3>1. \A n \in good : n \in Asked(x, k)
      BY Zenon DEF Asked
    <3> QED BY <1>0, <2>1, <3>1 DEF KindConserved
  <2> QED BY <2>1, <1>6
<1>9. Cached(y)
  <2>1. DOMAIN y.cache = DOMAIN x.cache /\ y.offset = x.offset /\ y.headed = x.headed
    BY <1>1 DEF Stays
  <2>2. \A l \in Parts : y.done[l] \subseteq DOMAIN x.cache
    <3>1. \A l \in Parts : x.done[l] \subseteq DOMAIN x.cache
      BY <1>0 DEF Cached
    <3> QED BY <3>1, <1>1, <1>7
  <2>3. \A l \in Parts : \A r \in Peers : ToSet(y.pend[l][r]) \subseteq DOMAIN x.cache
    BY <1>0, <1>5, KindNames, Zenon DEF Cached
  <2>4. \A n : Cardinality(MissingParts(y, n)) =
           IF n \in good THEN Cardinality(MissingParts(x, n)) - 1
           ELSE Cardinality(MissingParts(x, n))
    <3>1. CASE k \in PartsOf(x.mode)
      BY <1>1, <1>8, <3>1, MissingLess
    <3>2. CASE k \notin PartsOf(x.mode)
      <4>1. good = {} /\ y.mode = x.mode
        BY <1>1, <1>6, <3>2 DEF Stays
      <4>2. \A n : MissingParts(y, n) = MissingParts(x, n)
        BY <1>1, <3>2, <4>1, PartsOfParts DEF MissingParts
      <4> QED BY <4>1, <4>2
    <3> QED BY <3>1, <3>2
  <2>5. \A n \in DOMAIN x.cache : y.cache[n] = Cardinality(MissingParts(y, n))
    <3>1. \A n \in DOMAIN x.cache : x.cache[n] = Cardinality(MissingParts(x, n))
      BY <1>0 DEF Cached
    <3>2. \A n \in DOMAIN x.cache : y.cache[n] = IF n \in good THEN x.cache[n] - 1 ELSE x.cache[n]
      BY <1>1
    <3> QED BY <3>1, <3>2, <2>4
  <2>6. /\ DOMAIN x.cache \subseteq x.offset .. x.headed
        /\ \A n \in DOMAIN x.cache : \A m \in x.offset .. n : m \in DOMAIN x.cache
    BY <1>0 DEF Cached
  <2> HIDE <1>0, <1>1
  <2> QED BY <2>1, <2>2, <2>3, <2>5, <2>6, Zenon DEF Cached
<1>10. Unwanted(y)
  <2> SUFFICES ASSUME NEW l \in Parts \ PartsOf(x.mode)
               PROVE  y.tasks[l] = {} /\ \A r \in Peers : y.pend[l][r] = <<>>
    BY <1>1 DEF Unwanted, Stays
  <2>1. x.tasks[l] = {} /\ \A r \in Peers : x.pend[l][r] = <<>>
    BY <1>0 DEF Unwanted
  <2>2. CASE l = k
    BY <2>1, <2>2, <1>1, <1>3, ToSetEmpty
  <2>3. CASE l # k
    BY <2>1, <2>3, <1>1, KindNames
  <2> QED BY <2>2, <2>3
<1>11. ASSUME NEW l \in PartsOf(y.mode) PROVE KindConserved(y, l)
  <2>0. y.mode = x.mode /\ y.offset = x.offset /\ y.headed = x.headed
    BY <1>1 DEF Stays
  <2>1. KindConserved(x, l) /\ l \in Kinds /\ l \in Parts
    BY <1>0, <2>0, <1>11, PartsOfParts, KindNames
  <2>2. CASE l # k
    <3>1. y.tasks[l] = x.tasks[l] /\ y.pend[l] = x.pend[l] /\ y.done[l] = x.done[l]
      BY <1>1, <2>1, <2>2
    <3>2. Asked(y, l) = Asked(x, l)
      BY <3>1 DEF Asked
    <3> QED BY <2>0, <3>1, <3>2, <2>1, Zenon DEF KindConserved
  <2>3. CASE l = k
    <3>1. \A n : n \in Asked(x, k) <=> \E r \in Peers : n \in ToSet(x.pend[k][r])
      BY Zenon DEF Asked
    <3>2. \A n : n \in Asked(y, k) <=> \E r \in Peers : n \in ToSet(y.pend[k][r])
      BY Zenon DEF Asked
    <3>3. x.tasks[k] \cup Asked(x, k) = {n \in x.offset .. x.headed : n \notin x.done[k]}
      BY <2>1, <2>3 DEF KindConserved
    <3>4. \A r \in Peers : /\ x.tasks[k] \cap ToSet(x.pend[k][r]) = {}
                           /\ \A s \in Peers \ {r} : ToSet(x.pend[k][r]) \cap ToSet(x.pend[k][s]) = {}
      BY <2>1, <2>3 DEF KindConserved
    <3>5. \A n : n \in Asked(y, k) <=> n \in Asked(x, k) /\ n \notin ToSet(x.pend[k][p])
      BY <1>4, <3>1, <3>2, <3>4
    <3>6. y.tasks[k] \cup Asked(y, k) = {n \in x.offset .. x.headed : n \notin y.done[k]}
      <4>1. \A n : n \in ToSet(x.pend[k][p]) => n \in Asked(x, k)
        BY <3>1
      <4>2. y.tasks[k] = x.tasks[k] \cup (ToSet(x.pend[k][p]) \ good)
        BY <1>1
      <4>3. \A n : n \in y.tasks[k] \cup Asked(y, k) <=> n \in x.tasks[k] \cup Asked(x, k) /\ n \notin good
        BY <4>1, <4>2, <3>4, <3>5
      <4>4. y.done[k] = x.done[k] \cup good
        BY <1>1
      <4> HIDE <1>1
      <4> QED BY <4>3, <4>4, <3>3
    <3>7. \A r \in Peers : y.tasks[k] \cap ToSet(y.pend[k][r]) = {}
      BY <1>1, <1>4, <3>4
    <3>8. \A r \in Peers : \A s \in Peers \ {r} : ToSet(y.pend[k][r]) \cap ToSet(y.pend[k][s]) = {}
      BY <1>4, <3>4
    <3> QED BY <2>0, <2>3, <3>6, <3>7, <3>8 DEF KindConserved
  <2> QED BY <2>2, <2>3
<1>12. \A l \in Parts : x.done[l] \subseteq y.done[l]
  BY <1>1
<1> QED BY <1>1, <1>2, <1>9, <1>10, <1>11, <1>12 DEF QueueInv

-----------------------------------------------------------------------------
(* The skeleton, new headers and finished blocks. *)

\* The header tasks and the skeleton have no part in the invariant.
LEMMA HeaderOnly ==
  ASSUME NEW x, NEW y, QueueInv(x), Keeps(x, y),
         DOMAIN y.tasks = Kinds, DOMAIN y.pend = Kinds, DOMAIN y.pend["header"] = Peers,
         \A l \in Parts : y.tasks[l] = x.tasks[l] /\ y.pend[l] = x.pend[l]
  PROVE  QueueInv(y)
<1>0. WellFormed(x) /\ Cached(x) /\ Unwanted(x) /\ \A l \in PartsOf(x.mode) : KindConserved(x, l)
  BY DEF QueueInv
<1>1. \A l \in Kinds : DOMAIN y.pend[l] = Peers
  BY <1>0 DEF WellFormed, Kinds
<1>2. WellFormed(y) /\ Cached(y)
  <2>1. \A l \in Parts : \A p \in Peers : ToSet(y.pend[l][p]) \subseteq DOMAIN x.cache
    BY <1>0, Zenon DEF Cached
  <2> QED BY <1>0, <1>1, <2>1, KeptInv
<1>3. Unwanted(y)
  BY <1>0 DEF Unwanted, Keeps
<1>4. ASSUME NEW l \in PartsOf(y.mode) PROVE KindConserved(y, l)
  <2>0. y.done = x.done /\ y.offset = x.offset /\ y.headed = x.headed /\ y.mode = x.mode
    BY DEF Keeps
  <2>1. KindConserved(x, l) /\ l \in Parts
    BY <1>0, <2>0, <1>4, PartsOfParts
  <2>2. y.tasks[l] = x.tasks[l] /\ y.pend[l] = x.pend[l]
    BY <2>1
  <2>3. Asked(y, l) = Asked(x, l)
    BY <2>2 DEF Asked
  <2> QED BY <2>0, <2>1, <2>2, <2>3, Zenon DEF KindConserved
<1> QED BY <1>2, <1>3, <1>4 DEF QueueInv

LEMMA SkeletonInv ==
  ASSUME NEW x, QueueInv(x), NEW from, NEW count
  PROVE  /\ QueueInv(ScheduleSkeleton(x, from, count))
         /\ Keeps(x, ScheduleSkeleton(x, from, count))
<1> DEFINE y == ScheduleSkeleton(x, from, count)
<1>1. /\ Keeps(x, y) /\ DOMAIN y.tasks = Kinds /\ DOMAIN y.pend = Kinds /\ DOMAIN y.pend["header"] = Peers
      /\ \A l \in Parts : y.tasks[l] = x.tasks[l] /\ y.pend[l] = x.pend[l]
  BY KindNames DEF QueueInv, WellFormed, ScheduleSkeleton, Keeps
<1> HIDE DEF y
<1>2. QueueInv(y)
  BY <1>1, HeaderOnly
<1> QED BY <1>1, <1>2 DEF y

LEMMA BatchInv ==
  ASSUME NEW x, QueueInv(x), NEW p \in Peers, NEW fits, NEW room
  PROVE  /\ QueueInv(DeliverBatch(x, p, fits, room).q)
         /\ Keeps(x, DeliverBatch(x, p, fits, room).q)
<1> DEFINE y == DeliverBatch(x, p, fits, room).q
<1>1. /\ Keeps(x, y) /\ DOMAIN y.tasks = Kinds /\ DOMAIN y.pend = Kinds /\ DOMAIN y.pend["header"] = Peers
      /\ \A l \in Parts : y.tasks[l] = x.tasks[l] /\ y.pend[l] = x.pend[l]
  BY KindNames DEF QueueInv, WellFormed, DeliverBatch, Keeps
<1> HIDE DEF y
<1>2. QueueInv(y)
  BY <1>1, HeaderOnly
<1> QED BY <1>1, <1>2 DEF y

LEMMA ReserveBatchInv ==
  ASSUME NEW x, QueueInv(x), NEW p \in Peers
  PROVE  /\ QueueInv(ReserveBatch(x, p).q) /\ Keeps(x, ReserveBatch(x, p).q)
         /\ KeepsSkeleton(x, ReserveBatch(x, p).q)
<1> DEFINE y == ReserveBatch(x, p).q
<1>1. /\ Keeps(x, y) /\ KeepsSkeleton(x, y)
      /\ DOMAIN y.tasks = Kinds /\ DOMAIN y.pend = Kinds /\ DOMAIN y.pend["header"] = Peers
      /\ \A l \in Parts : y.tasks[l] = x.tasks[l] /\ y.pend[l] = x.pend[l]
  BY KindNames DEF QueueInv, WellFormed, ReserveBatch, Keeps, KeepsSkeleton
<1> HIDE DEF y
<1>2. QueueInv(y)
  BY <1>1, HeaderOnly
<1> QED BY <1>1, <1>2 DEF y

\* New headers are above everything that is queued, asked for or finished.
LEMMA ScheduleInv ==
  ASSUME NEW x, QueueInv(x), NEW count \in Nat, NEW y, y = Schedule(x, count)
  PROVE  QueueInv(y)
<1>0. WellFormed(x) /\ Cached(x) /\ Unwanted(x) /\ \A l \in PartsOf(x.mode) : KindConserved(x, l)
  BY DEF QueueInv
<1> DEFINE new == x.headed + 1 .. x.headed + count
<1>1. /\ DOMAIN y = DOMAIN x
      /\ y.mode = x.mode /\ y.headed = x.headed + count /\ y.offset = x.offset
      /\ y.limit = x.limit /\ y.cache = x.cache /\ y.done = x.done /\ y.pend = x.pend
      /\ DOMAIN y.tasks = Kinds
      /\ \A k \in Kinds : /\ k \in PartsOf(x.mode) => y.tasks[k] = x.tasks[k] \cup new
                          /\ k \notin PartsOf(x.mode) => y.tasks[k] = x.tasks[k]
  <2> HIDE DEF new
  <2>1. new = x.headed + 1 .. x.headed + count
    BY DEF new
  <2> QED BY <1>0, <2>1 DEF WellFormed, Schedule
<1>2. x.headed \in Nat /\ x.offset \in Nat /\ x.offset <= x.headed + 1
  BY <1>0 DEF WellFormed
<1>3. /\ \A n \in x.offset .. x.headed : n \notin new
      /\ \A n : n \in x.offset .. y.headed <=> n \in x.offset .. x.headed \/ n \in new
  BY <1>1, <1>2
<1>4. WellFormed(y)
  BY <1>0, <1>1 DEF WellFormed
<1> HIDE DEF new
<1>5. DOMAIN x.cache \subseteq x.offset .. x.headed
  BY <1>0 DEF Cached
<1>6. Cached(y)
  <2>1. \A n : MissingParts(y, n) = MissingParts(x, n)
    BY <1>1 DEF MissingParts
  <2>2. DOMAIN y.cache \subseteq y.offset .. y.headed
    BY <1>1, <1>3, <1>5
  <2> QED BY <1>0, <1>1, <2>1, <2>2 DEF Cached
<1>7. Unwanted(y)
  <2>1. \A l \in Parts \ PartsOf(x.mode) : y.tasks[l] = x.tasks[l]
    BY <1>1, KindNames
  <2> QED BY <1>0, <1>1, <2>1 DEF Unwanted
<1>8. ASSUME NEW l \in PartsOf(y.mode) PROVE KindConserved(y, l)
  <2>1. KindConserved(x, l) /\ l \in Kinds /\ l \in Parts /\ l \in PartsOf(x.mode)
    BY <1>0, <1>1, <1>8, PartsOfParts, KindNames
  <2>2. Asked(y, l) = Asked(x, l) /\ y.tasks[l] = x.tasks[l] \cup new
        /\ y.done[l] = x.done[l] /\ y.pend[l] = x.pend[l]
    BY <1>1, <2>1 DEF Asked
  <2>3. x.done[l] \cap new = {}
    BY <1>0, <1>3, <1>5, <2>1 DEF Cached
  <2>4. \A p \in Peers : ToSet(x.pend[l][p]) \cap new = {}
    BY <1>0, <1>3, <1>5, <2>1 DEF Cached
  <2>5. y.tasks[l] \cup Asked(y, l) = {n \in y.offset .. y.headed : n \notin y.done[l]}
    BY <1>1, <1>3, <2>1, <2>2, <2>3 DEF KindConserved
  <2>6. \A p \in Peers : y.tasks[l] \cap ToSet(y.pend[l][p]) = {}
    BY <2>1, <2>2, <2>4 DEF KindConserved
  <2> QED BY <2>1, <2>2, <2>5, <2>6 DEF KindConserved
<1> QED BY <1>4, <1>6, <1>7, <1>8 DEF QueueInv

\* The finished blocks at the front of the cache.
FinishedFront(x) == {n \in DOMAIN x.cache :
               \A m \in x.offset .. n : m \in DOMAIN x.cache /\ x.cache[m] = 0}

\* They are an interval.
LEMMA ProcessableNat ==
  ASSUME NEW x, QueueInv(x)
  PROVE  /\ CountProcessable(x) = Cardinality(FinishedFront(x)) /\ CountProcessable(x) \in Nat
         /\ FinishedFront(x) = x.offset .. x.offset + CountProcessable(x) - 1
         /\ \A n \in FinishedFront(x) : n \in DOMAIN x.cache /\ x.cache[n] = 0
<1>0. WellFormed(x) /\ Cached(x)
  BY DEF QueueInv
<1>1. x.headed \in Nat /\ x.offset \in Nat
  BY <1>0 DEF WellFormed
<1>2. DOMAIN x.cache \subseteq x.offset .. x.headed
  BY <1>0 DEF Cached
<1>3. FinishedFront(x) \in SUBSET (x.offset .. x.headed)
  BY <1>2 DEF FinishedFront
<1>4. \A n \in FinishedFront(x) : \A m \in x.offset .. n : m \in FinishedFront(x)
  BY <1>1, <1>2 DEF FinishedFront
<1>5. CountProcessable(x) = Cardinality(FinishedFront(x))
  BY DEF CountProcessable, FinishedFront
<1>6. \A n \in FinishedFront(x) : n \in DOMAIN x.cache /\ x.cache[n] = 0
  <2> TAKE n \in FinishedFront(x)
  <2>1. n \in x.offset .. n
    BY <1>1, <1>2 DEF FinishedFront
  <2> QED BY <2>1 DEF FinishedFront
<1>7. /\ Cardinality(FinishedFront(x)) \in Nat
      /\ FinishedFront(x) = x.offset .. x.offset + Cardinality(FinishedFront(x)) - 1
  BY <1>1, <1>3, <1>4, FrontIsInterval
<1> QED BY <1>5, <1>6, <1>7

\* They have all parts.
LEMMA ProcessableDone ==
  ASSUME NEW x, QueueInv(x), NEW count \in Nat, count <= CountProcessable(x)
  PROVE  /\ CountProcessable(x) \in Nat
         /\ \A n \in x.offset .. x.offset + count - 1 :
              n \in DOMAIN x.cache /\ \A k \in PartsOf(x.mode) : n \in x.done[k]
<1>0. WellFormed(x) /\ Cached(x) /\ x.offset \in Nat
  BY DEF QueueInv, WellFormed
<1> DEFINE S == FinishedFront(x)
           c == CountProcessable(x)
<1>1. /\ c \in Nat /\ S = x.offset .. x.offset + c - 1
      /\ \A n \in S : n \in DOMAIN x.cache /\ x.cache[n] = 0
  BY ProcessableNat
<1> HIDE DEF S
<1>2. \A n \in x.offset .. x.offset + count - 1 : n \in S
  BY <1>0, <1>1
<1>3. \A n \in S : \A k \in PartsOf(x.mode) : n \in x.done[k]
  <2> SUFFICES ASSUME NEW n \in S PROVE MissingParts(x, n) = {}
    BY DEF MissingParts
  <2>1. Cardinality(MissingParts(x, n)) = 0
    BY <1>0, <1>1 DEF Cached
  <2> QED BY <2>1, MissingFinite, FS_EmptySet
<1> QED BY <1>1, <1>2, <1>3

LEMMA TakeInv ==
  ASSUME NEW x, QueueInv(x), NEW count \in Nat, count <= CountProcessable(x),
         NEW limit \in Limits, NEW y, y = TakeResults(x, count, limit)
  PROVE  QueueInv(y)
<1>0. WellFormed(x) /\ Cached(x) /\ Unwanted(x) /\ \A l \in PartsOf(x.mode) : KindConserved(x, l)
  BY DEF QueueInv
<1> DEFINE taken == x.offset .. x.offset + count - 1
<1>1. /\ DOMAIN y = DOMAIN x
      /\ y.mode = x.mode /\ y.headed = x.headed /\ y.offset = x.offset + count
      /\ y.limit = limit /\ y.tasks = x.tasks /\ y.pend = x.pend
      /\ y.cache = [n \in DOMAIN x.cache \ taken |-> x.cache[n]]
      /\ y.done = [k \in Parts |-> x.done[k] \ taken]
  <2> HIDE DEF taken
  <2>1. taken = x.offset .. x.offset + count - 1
    BY DEF taken
  <2> QED BY <1>0, <2>1 DEF WellFormed, TakeResults
<1>2. x.headed \in Nat /\ x.offset \in Nat /\ x.offset <= x.headed + 1
  BY <1>0 DEF WellFormed
<1>3. \A n \in taken : n \in DOMAIN x.cache /\ \A k \in PartsOf(x.mode) : n \in x.done[k]
  BY ProcessableDone
<1>4. DOMAIN x.cache \subseteq x.offset .. x.headed
  BY <1>0 DEF Cached
<1>5. y.offset \in Nat /\ y.offset <= y.headed + 1
  <2>1. CASE count = 0
    BY <1>1, <1>2, <2>1
  <2>2. CASE count # 0
    <3>1. x.offset + count - 1 \in taken
      BY <1>2, <2>2
    <3>2. x.offset + count - 1 <= x.headed
      BY <1>2, <1>3, <1>4, <3>1
    <3> QED BY <1>1, <1>2, <3>2
  <2> QED BY <2>1, <2>2
<1>6. \A n : n \in x.offset .. x.headed /\ n \notin taken <=> n \in y.offset .. y.headed
  BY <1>1, <1>2
<1>7. WellFormed(y)
  BY <1>0, <1>1, <1>5, QueueAssumption DEF WellFormed
<1> HIDE DEF taken
<1>8. \A k \in PartsOf(x.mode) : \A p \in Peers : ToSet(x.pend[k][p]) \cap taken = {}
  <2> SUFFICES ASSUME NEW k \in PartsOf(x.mode), NEW p \in Peers, NEW n \in ToSet(x.pend[k][p])
               PROVE  n \notin x.done[k]
    BY <1>3
  <2>1. n \in Asked(x, k)
    BY Zenon DEF Asked
  <2> QED BY <2>1, <1>0 DEF KindConserved
<1>9. Cached(y)
  <2>1. \A n : n \notin taken => MissingParts(y, n) = MissingParts(x, n)
    BY <1>1, PartsOfParts DEF MissingParts
  <2>2. DOMAIN y.cache = DOMAIN x.cache \ taken
    BY <1>1
  <2>3. DOMAIN y.cache \subseteq y.offset .. y.headed
    BY <1>4, <1>6, <2>2
  <2>4. \A n \in DOMAIN y.cache : \A m \in y.offset .. n : m \in DOMAIN y.cache
    <3> TAKE n \in DOMAIN y.cache
    <3> TAKE m \in y.offset .. n
    <3>1. n \in y.offset .. y.headed /\ n \in DOMAIN x.cache
      BY <2>2, <2>3
    <3>2. m \in y.offset .. y.headed /\ m \in x.offset .. n
      BY <3>1, <1>1, <1>2, <1>5
    <3>3. m \in DOMAIN x.cache /\ m \notin taken
      BY <3>1, <3>2, <1>0, <1>6 DEF Cached
    <3> QED BY <3>3, <2>2
  <2>5. \A k \in Parts : y.done[k] \subseteq DOMAIN y.cache
    <3>1. \A k \in Parts : x.done[k] \subseteq DOMAIN x.cache
      BY <1>0 DEF Cached
    <3> QED BY <1>1, <2>2, <3>1
  <2>6. \A k \in Parts : \A p \in Peers : ToSet(y.pend[k][p]) \subseteq DOMAIN y.cache
    <3> TAKE k \in Parts
    <3> TAKE p \in Peers
    <3>1. ToSet(x.pend[k][p]) \subseteq DOMAIN x.cache /\ y.pend[k][p] = x.pend[k][p]
      BY <1>0, <1>1 DEF Cached
    <3>2. CASE k \in PartsOf(x.mode)
      BY <3>1, <3>2, <1>8, <2>2
    <3>3. CASE k \notin PartsOf(x.mode)
      BY <3>1, <3>3, <1>0, ToSetEmpty DEF Unwanted
    <3> QED BY <3>2, <3>3
  <2>7. \A n \in DOMAIN y.cache : y.cache[n] = Cardinality(MissingParts(y, n))
    <3>1. \A n \in DOMAIN x.cache : x.cache[n] = Cardinality(MissingParts(x, n))
      BY <1>0 DEF Cached
    <3>2. \A n \in DOMAIN y.cache : y.cache[n] = x.cache[n] /\ n \in DOMAIN x.cache /\ n \notin taken
      BY <1>1
    <3> QED BY <2>1, <3>1, <3>2
  <2> HIDE <1>0, <1>1
  <2> QED BY <2>3, <2>4, <2>5, <2>6, <2>7 DEF Cached
<1>10. Unwanted(y)
  BY <1>0, <1>1 DEF Unwanted
<1>11. ASSUME NEW l \in PartsOf(y.mode) PROVE KindConserved(y, l)
  <2>1. KindConserved(x, l) /\ l \in Parts /\ l \in PartsOf(x.mode)
    BY <1>0, <1>1, <1>11, PartsOfParts
  <2>2. Asked(y, l) = Asked(x, l) /\ y.tasks[l] = x.tasks[l] /\ y.pend[l] = x.pend[l]
    BY <1>1 DEF Asked
  <2>3. y.done[l] = x.done[l] \ taken /\ taken \subseteq x.done[l]
    BY <1>1, <1>3, <2>1
  <2>4. \A n : n \in {m \in x.offset .. x.headed : m \notin x.done[l]}
                 <=> n \in {m \in y.offset .. y.headed : m \notin y.done[l]}
    BY <1>6, <2>3
  <2> QED BY <2>1, <2>2, <2>4 DEF KindConserved
<1> QED BY <1>7, <1>9, <1>10, <1>11 DEF QueueInv

\* The queue of a new synchronisation.
LEMMA FreshInv ==
  ASSUME NEW mode \in {"full", "fast"}, NEW offset \in Nat \ {0}, NEW limit \in 1 .. CacheSize,
         NEW y, y = FreshQueue(mode, offset, limit)
  PROVE  QueueInv(y)
<1>1. /\ WellFormed(y) /\ y.mode = mode /\ y.offset = offset /\ y.headed = offset - 1
      /\ DOMAIN y.cache = {} /\ \A k \in Parts : y.done[k] = {}
      /\ \A k \in Kinds : y.tasks[k] = {} /\ \A p \in Peers : y.pend[k][p] = <<>>
  BY DEF FreshQueue, WellFormed
<1>2. \A k \in Parts : \A p \in Peers : ToSet(y.pend[k][p]) = {}
  BY <1>1, ToSetEmpty, KindNames
<1>3. Cached(y)
  BY <1>1, <1>2 DEF Cached
<1>4. Unwanted(y)
  BY <1>1, KindNames DEF Unwanted
<1>5. \A l \in Parts : Asked(y, l) = {}
  BY <1>2 DEF Asked
<1>6. \A l \in PartsOf(y.mode) : KindConserved(y, l)
  <2> TAKE l \in PartsOf(y.mode)
  <2>1. l \in Parts /\ l \in Kinds
    BY PartsOfParts, KindNames
  <2>2. y.offset .. y.headed = {}
    BY <1>1
  <2> QED BY <1>1, <1>2, <1>5, <2>1, <2>2 DEF KindConserved
<1> QED BY <1>1, <1>3, <1>4, <1>6 DEF QueueInv

-----------------------------------------------------------------------------
(* The loop of reserveHeaders. *)

ResultFields == {"q", "send", "skip", "proc", "invalid", "space", "progress"}

\* The scalars, tasks, requests and parts of other kinds are those of x.
SameOthers(x, k, r) ==
  /\ ResultFields \subseteq DOMAIN r /\ r.invalid = FALSE
  /\ WellFormed(r.q) /\ Stays(x, r.q) /\ KeepsSkeleton(x, r.q) /\ r.q.pend = x.pend
  /\ \A l \in Kinds \ {k} : r.q.tasks[l] = x.tasks[l]
  /\ \A l \in Parts \ {k} : r.q.done[l] = x.done[l]

PoppedBy(x, k, r) == x.tasks[k] \ r.q.tasks[k]
FinishedBy(x, k, r) == r.q.done[k] \ x.done[k]

\* What was popped is below what is left; it is finished, skipped or sent for,
\* and the counters say how much it is.
Split(x, k, r) ==
  /\ r.q.tasks[k] \subseteq x.tasks[k]
  /\ \A a \in PoppedBy(x, k, r) : \A b \in r.q.tasks[k] : a < b
  /\ r.proc \in Int /\ r.space \in Int
  /\ r.proc + ResultSlots(x, k) - r.space = Cardinality(PoppedBy(x, k, r))
  /\ r.send \in Seq(Nat)
  /\ x.done[k] \subseteq r.q.done[k]
  /\ PoppedBy(x, k, r) = FinishedBy(x, k, r) \cup ToSet(r.send) \cup r.skip
  /\ ToSet(r.send) \cap r.skip = {}
  /\ FinishedBy(x, k, r) \cap (ToSet(r.send) \cup r.skip) = {}

\* All of it has a slot in the cache.
Opened(x, k, r) ==
  /\ DOMAIN r.q.cache = DOMAIN x.cache \cup PoppedBy(x, k, r)
  /\ \A n \in DOMAIN r.q.cache : \A m \in x.offset .. n : m \in DOMAIN r.q.cache
  /\ \A n \in DOMAIN r.q.cache : r.q.cache[n] = Cardinality(MissingParts(r.q, n))

LoopInv(x, k, r) == SameOthers(x, k, r) /\ Split(x, k, r) /\ Opened(x, k, r)

\* The facts about the queue before the loop that the proofs need.
LEMMA TaskFacts ==
  ASSUME NEW x, QueueInv(x), NEW k \in PartsOf(x.mode)
  PROVE  /\ k \in Parts /\ k \in Kinds
         /\ x.headed \in Nat /\ x.offset \in Nat /\ x.limit \in 1 .. CacheSize
         /\ \A n \in x.tasks[k] : n \in x.offset .. x.headed /\ n \notin x.done[k]
         /\ \A n \in x.offset .. x.headed : n \in x.tasks[k] \/ n \in x.done[k] \/ n \in Asked(x, k)
         /\ Asked(x, k) \subseteq DOMAIN x.cache
         /\ \A l \in Parts : x.done[l] \subseteq DOMAIN x.cache
         /\ DOMAIN x.cache \subseteq x.offset .. x.headed
<1>0. WellFormed(x) /\ Cached(x) /\ KindConserved(x, k)
  BY DEF QueueInv
<1>1. k \in Parts /\ k \in Kinds
  BY PartsOfParts, KindNames
<1>2. x.headed \in Nat /\ x.offset \in Nat /\ x.limit \in 1 .. CacheSize
  BY <1>0 DEF WellFormed
<1>3. x.tasks[k] \cup Asked(x, k) = {n \in x.offset .. x.headed : n \notin x.done[k]}
  BY <1>0 DEF KindConserved
<1>4. Asked(x, k) \subseteq DOMAIN x.cache
  <2>1. \A p \in Peers : ToSet(x.pend[k][p]) \subseteq DOMAIN x.cache
    BY <1>0, <1>1 DEF Cached
  <2> QED BY <2>1, Zenon DEF Asked
<1>5. (\A l \in Parts : x.done[l] \subseteq DOMAIN x.cache) /\ DOMAIN x.cache \subseteq x.offset .. x.headed
  BY <1>0 DEF Cached
<1> HIDE <1>0
<1> QED BY <1>1, <1>2, <1>3, <1>4, <1>5

\* A part of an interval is finite.
LEMMA FiniteWithin ==
  ASSUME NEW a \in Nat, NEW b \in Nat, NEW S, \A n \in S : n \in a .. b
  PROVE  IsFiniteSet(S) /\ Cardinality(S) \in Nat
<1>1. S \subseteq Nat /\ \A n \in S : n <= b
  OBVIOUS
<1>2. IsFiniteSet(S)
  BY <1>1, FS_BoundedSetOfNaturals
<1> QED BY <1>2, FS_CardinalityType

LEMMA UnionBound ==
  ASSUME NEW A, IsFiniteSet(A), NEW B, IsFiniteSet(B), NEW C, IsFiniteSet(C)
  PROVE  Cardinality((A \cup B) \cup C) <= Cardinality(A) + Cardinality(B) + Cardinality(C)
<1>1. IsFiniteSet(A \cup B) /\ Cardinality(A \cup B) <= Cardinality(A) + Cardinality(B)
      /\ Cardinality(A \cup B) \in Nat
  <2>1. IsFiniteSet(A \cap B) /\ IsFiniteSet(A \cup B)
        /\ Cardinality(A \cup B) = Cardinality(A) + Cardinality(B) - Cardinality(A \cap B)
    BY FS_Union, FS_Intersection
  <2>2. /\ Cardinality(A \cap B) \in Nat /\ Cardinality(A) \in Nat
        /\ Cardinality(B) \in Nat /\ Cardinality(A \cup B) \in Nat
    BY <2>1, FS_CardinalityType
  <2> QED BY <2>1, <2>2
<1> DEFINE D == A \cup B
<1> HIDE DEF D
<1>2. Cardinality(D \cup C) <= Cardinality(D) + Cardinality(C)
  <2>0. IsFiniteSet(D)
    BY <1>1 DEF D
  <2>1. IsFiniteSet(D \cap C) /\ IsFiniteSet(D \cup C)
        /\ Cardinality(D \cup C) = Cardinality(D) + Cardinality(C) - Cardinality(D \cap C)
    BY <2>0, FS_Union, FS_Intersection
  <2>2. /\ Cardinality(D \cap C) \in Nat /\ Cardinality(D) \in Nat
        /\ Cardinality(C) \in Nat
    BY <2>0, <2>1, FS_CardinalityType
  <2> QED BY <2>1, <2>2
<1>3. /\ Cardinality(A) \in Nat /\ Cardinality(B) \in Nat /\ Cardinality(C) \in Nat
      /\ IsFiniteSet(D \cup C)
  BY <1>1, FS_CardinalityType, FS_Union DEF D
<1>4. Cardinality(D \cup C) \in Nat /\ Cardinality(D) \in Nat
  BY <1>1, <1>3, FS_CardinalityType DEF D
<1> QED BY <1>1, <1>2, <1>3, <1>4 DEF D

\* While there is space the lowest task lies in the window of the memory limit:
\* each slot of a full window is finished, asked for or popped already.
LEMMA LowestInWindow ==
  ASSUME NEW x, QueueInv(x), NEW k \in PartsOf(x.mode), NEW r, LoopInv(x, k, r),
         r.proc < r.space, r.q.tasks[k] # {}, NEW n, n = Lowest(r.q.tasks[k])
  PROVE  /\ n \in r.q.tasks[k] /\ n \in x.tasks[k] /\ n \in x.offset .. x.headed
         /\ \A m \in r.q.tasks[k] : n <= m
         /\ n < x.offset + x.limit
<1>0. SameOthers(x, k, r) /\ Split(x, k, r)
  BY DEF LoopInv
<1> HIDE DEF LoopInv
<1>1. /\ k \in Parts /\ k \in Kinds
      /\ x.headed \in Nat /\ x.offset \in Nat /\ x.limit \in 1 .. CacheSize
      /\ \A m \in x.tasks[k] : m \in x.offset .. x.headed /\ m \notin x.done[k]
      /\ \A m \in x.offset .. x.headed : m \in x.tasks[k] \/ m \in x.done[k] \/ m \in Asked(x, k)
      /\ Asked(x, k) \subseteq DOMAIN x.cache
      /\ x.done[k] \subseteq DOMAIN x.cache
      /\ DOMAIN x.cache \subseteq x.offset .. x.headed
  BY TaskFacts
<1>2. r.q.tasks[k] \subseteq x.tasks[k]
  BY <1>0 DEF Split
<1>3. n \in r.q.tasks[k] /\ \A m \in r.q.tasks[k] : n <= m
  <2>1. r.q.tasks[k] \subseteq Nat
    BY <1>1, <1>2
  <2> QED BY <2>1, LowestIs
<1>4. n \in x.tasks[k] /\ n \in x.offset .. x.headed
  BY <1>1, <1>2, <1>3
<1>5. ASSUME ~(n < x.offset + x.limit) PROVE FALSE
  <2> DEFINE window == x.offset .. x.offset + x.limit - 1
             A == {m \in window : x.offset .. m \subseteq DOMAIN x.cache} \cap x.done[k]
             B == {m \in Asked(x, k) : m < x.offset + x.limit}
             C == PoppedBy(x, k, r)
  <2>1. ResultSlots(x, k) = x.limit - Cardinality(A) - Cardinality(B)
    BY DEF ResultSlots, Asked
  <2>2. x.limit \in Nat /\ \A m \in window : m \in x.offset .. x.headed /\ m < n
    BY <1>1, <1>4, <1>5, QueueAssumption
  <2>3. IsFiniteSet(window) /\ Cardinality(window) = x.limit
    <3> DEFINE last == x.offset + x.limit - 1
    <3>1. x.offset \in Int /\ last \in Int /\ ~(x.offset > last) /\ last - x.offset + 1 = x.limit
      BY <1>1, <2>2
    <3> HIDE DEF last
    <3>2. IsFiniteSet(x.offset .. last) /\ Cardinality(x.offset .. last) = last - x.offset + 1
      BY <3>1, FS_Interval
    <3> QED BY <3>1, <3>2 DEF last
  <2>4. \A m \in window : m < x.offset + x.limit
    BY <1>1, <2>2
  <2> HIDE DEF window
  <2>5. /\ IsFiniteSet(A) /\ Cardinality(A) \in Nat
        /\ IsFiniteSet(B) /\ Cardinality(B) \in Nat
        /\ IsFiniteSet(C) /\ Cardinality(C) \in Nat
    <3>1. \A m \in A : m \in x.offset .. x.headed
      BY <2>2
    <3>2. \A m \in B : m \in x.offset .. x.headed
      BY <1>1
    <3>3. \A m \in C : m \in x.offset .. x.headed
      BY <1>1 DEF PoppedBy
    <3> HIDE DEF A, B, C
    <3> QED BY <1>1, <3>1, <3>2, <3>3, FiniteWithin
  <2>6. window \subseteq (A \cup B) \cup C
    <3> SUFFICES ASSUME NEW m \in window PROVE m \in A \/ m \in B \/ m \in C
      OBVIOUS
    <3>1. m \notin r.q.tasks[k]
      BY <1>1, <1>2, <1>3, <1>4, <2>2
    <3>2. CASE m \in x.tasks[k]
      BY <3>1, <3>2 DEF PoppedBy
    <3>3. CASE m \in Asked(x, k)
      BY <3>3, <2>4
    <3>4. CASE m \in x.done[k]
      <4>1. m \in DOMAIN x.cache
        BY <1>1, <3>4
      <4>2. \A j \in x.offset .. m : j \in DOMAIN x.cache
        BY <4>1 DEF QueueInv, Cached
      <4> QED BY <3>4, <4>2
    <3> QED BY <1>1, <2>2, <3>2, <3>3, <3>4
  <2> HIDE DEF A, B, C
  <2>7. x.limit <= Cardinality((A \cup B) \cup C)
    <3>1. IsFiniteSet(A \cup B)
      BY <2>5, FS_Union
    <3>2. IsFiniteSet((A \cup B) \cup C)
      BY <2>5, <3>1, FS_Union
    <3> QED BY <3>2, <2>3, <2>6, FS_Subset
  <2>8. Cardinality((A \cup B) \cup C) <= Cardinality(A) + Cardinality(B) + Cardinality(C)
    BY <2>5, UnionBound
  <2>9. Cardinality((A \cup B) \cup C) \in Nat
    <3>1. IsFiniteSet(A \cup B)
      BY <2>5, FS_Union
    <3>2. IsFiniteSet((A \cup B) \cup C)
      BY <2>5, <3>1, FS_Union
    <3> QED BY <3>2, FS_CardinalityType
  <2>10. /\ r.proc \in Int /\ r.space \in Int
         /\ r.proc + ResultSlots(x, k) - r.space = Cardinality(C)
    BY <1>0 DEF Split, C
  <2> QED BY <2>1, <2>2, <2>5, <2>7, <2>8, <2>9, <2>10
<1> QED BY <1>1, <1>3, <1>4, <1>5

\* What a turn of the loop does with task n: it is finished (good = {n}), skipped
\* or sent for, and its slot counts v missing parts.
Turned(r, y, k, n, v, good) ==
  /\ ResultFields \subseteq DOMAIN y /\ y.invalid = FALSE
  /\ DOMAIN y.q = DOMAIN r.q
  /\ y.q.mode = r.q.mode /\ y.q.headed = r.q.headed /\ y.q.offset = r.q.offset
  /\ y.q.limit = r.q.limit /\ y.q.pend = r.q.pend
  /\ y.q.from = r.q.from /\ y.q.size = r.q.size
  /\ y.q.unfilled = r.q.unfilled /\ y.q.proced = r.q.proced
  /\ DOMAIN y.q.tasks = DOMAIN r.q.tasks /\ DOMAIN y.q.done = DOMAIN r.q.done
  /\ y.q.tasks[k] = r.q.tasks[k] \ {n} /\ \A l \in Kinds \ {k} : y.q.tasks[l] = r.q.tasks[l]
  /\ y.q.done[k] = r.q.done[k] \cup good /\ \A l \in Parts \ {k} : y.q.done[l] = r.q.done[l]
  /\ DOMAIN y.q.cache = DOMAIN r.q.cache \cup {n} /\ y.q.cache[n] = v
  /\ \A m \in DOMAIN r.q.cache \ {n} : y.q.cache[m] = r.q.cache[m]

SlotOf(x, n) == IF n \in DOMAIN x.cache THEN x.cache[n] ELSE Cardinality(PartsOf(x.mode))

Finishes(r, y, k, n) ==
  /\ Turned(r, y, k, n, SlotOf(r.q, n) - 1, {n})
  /\ y.send = r.send /\ y.skip = r.skip /\ y.proc = r.proc /\ y.space = r.space - 1
  /\ y.progress = TRUE

Skips(r, y, k, n) ==
  /\ Turned(r, y, k, n, SlotOf(r.q, n), {})
  /\ y.send = r.send /\ y.skip = r.skip \cup {n} /\ y.proc = r.proc + 1 /\ y.space = r.space
  /\ y.progress = r.progress

Sends(r, y, k, n) ==
  /\ Turned(r, y, k, n, SlotOf(r.q, n), {})
  /\ y.send = Append(r.send, n) /\ y.skip = r.skip /\ y.proc = r.proc + 1 /\ y.space = r.space
  /\ y.progress = r.progress

LEMMA StepCases ==
  ASSUME NEW r, NEW k \in Parts, WellFormed(r.q), ResultFields \subseteq DOMAIN r, r.invalid = FALSE,
         NEW n, n = Lowest(r.q.tasks[k]), n \in r.q.offset .. r.q.offset + CacheSize - 1,
         NEW lacking, NEW y, y = ReserveStep(r, k, lacking)
  PROVE  Finishes(r, y, k, n) \/ (n \in lacking /\ Skips(r, y, k, n)) \/ Sends(r, y, k, n)
<1> DEFINE popped == [r.q EXCEPT !.tasks[k] = @ \ {n}]
           slot == SlotOf(r.q, n)
           opened == [popped EXCEPT !.cache = [m \in DOMAIN @ \cup {n} |->
                                                 IF m = n THEN slot ELSE @[m]]]
           skipped == [opened EXCEPT !.cache[n] = slot - 1, !.done[k] = @ \cup {n}]
<1>0. /\ {"mode", "headed", "tasks", "pend", "done", "cache", "offset", "limit",
          "from", "size", "unfilled", "proced", "miss"} \subseteq DOMAIN r.q
      /\ DOMAIN r.q.tasks = Kinds /\ DOMAIN r.q.done = Parts /\ k \in Kinds
  BY KindNames DEF WellFormed
<1>1. y = IF n \in Noop(k)
            THEN [r EXCEPT !.q = skipped, !.space = @ - 1, !.progress = TRUE]
          ELSE IF n \in lacking
            THEN [r EXCEPT !.q = opened, !.skip = @ \cup {n}, !.proc = @ + 1]
          ELSE [r EXCEPT !.q = opened, !.send = Append(@, n), !.proc = @ + 1]
  <2> DEFINE out(m) ==
        LET slots == SlotOf(r.q, m)
            opens == [[r.q EXCEPT !.tasks[k] = @ \ {m}] EXCEPT !.cache =
                        [i \in DOMAIN @ \cup {m} |-> IF i = m THEN slots ELSE @[i]]]
        IN  IF m \in Noop(k)
              THEN [r EXCEPT !.q = [opens EXCEPT !.cache[m] = slots - 1, !.done[k] = @ \cup {m}],
                             !.space = @ - 1, !.progress = TRUE]
            ELSE IF m \in lacking
              THEN [r EXCEPT !.q = opens, !.skip = @ \cup {m}, !.proc = @ + 1]
            ELSE [r EXCEPT !.q = opens, !.send = Append(@, m), !.proc = @ + 1]
  <2> DEFINE low == Lowest(r.q.tasks[k])
             refused == [r EXCEPT !.q = [r.q EXCEPT !.tasks[k] = @ \ {low}], !.invalid = TRUE]
  <2>1. y = IF low \notin r.q.offset .. r.q.offset + CacheSize - 1 THEN refused ELSE out(low)
    BY Zenon DEF ReserveStep, SlotOf
  <2> HIDE DEF out, low, refused
  <2>2. low = n
    BY DEF low
  <2>3. y = out(n)
    BY <2>1, <2>2, Zenon
  <2> QED BY <2>3, Zenon DEF out
<1> HIDE DEF slot
<1>2. /\ DOMAIN opened = DOMAIN r.q
      /\ opened.mode = r.q.mode /\ opened.headed = r.q.headed /\ opened.offset = r.q.offset
      /\ opened.limit = r.q.limit /\ opened.pend = r.q.pend
      /\ opened.from = r.q.from /\ opened.size = r.q.size
      /\ opened.unfilled = r.q.unfilled /\ opened.proced = r.q.proced
      /\ DOMAIN opened.tasks = DOMAIN r.q.tasks /\ opened.done = r.q.done
      /\ opened.tasks[k] = r.q.tasks[k] \ {n} /\ \A l \in Kinds \ {k} : opened.tasks[l] = r.q.tasks[l]
      /\ DOMAIN opened.cache = DOMAIN r.q.cache \cup {n} /\ opened.cache[n] = slot
      /\ \A m \in DOMAIN r.q.cache \ {n} : opened.cache[m] = r.q.cache[m]
  BY <1>0
<1>3. \A z : z.q = opened /\ ResultFields \subseteq DOMAIN z /\ z.invalid = FALSE
             => Turned(r, z, k, n, slot, {})
  <2> HIDE DEF opened
  <2> QED BY <1>0, <1>2 DEF Turned
<1>4. \A z : z.q = skipped /\ ResultFields \subseteq DOMAIN z /\ z.invalid = FALSE
                => Turned(r, z, k, n, slot - 1, {n})
  <2> HIDE DEF opened
  <2>2. /\ DOMAIN skipped = DOMAIN opened
        /\ skipped.mode = opened.mode /\ skipped.headed = opened.headed
        /\ skipped.offset = opened.offset
        /\ skipped.limit = opened.limit /\ skipped.pend = opened.pend
        /\ skipped.from = opened.from /\ skipped.size = opened.size
        /\ skipped.unfilled = opened.unfilled /\ skipped.proced = opened.proced
        /\ skipped.tasks = opened.tasks
        /\ skipped.cache = [opened.cache EXCEPT ![n] = slot - 1]
        /\ skipped.done = [opened.done EXCEPT ![k] = @ \cup {n}]
    BY <1>0, <1>2
  <2> HIDE DEF skipped
  <2> QED BY <1>0, <1>2, <2>2 DEF Turned
<1> HIDE DEF opened, skipped
<1>5. CASE n \in Noop(k)
  <2>1. /\ y.q = skipped /\ ResultFields \subseteq DOMAIN y /\ y.invalid = FALSE
        /\ y.send = r.send /\ y.skip = r.skip /\ y.proc = r.proc /\ y.space = r.space - 1
        /\ y.progress = TRUE
    BY <1>1, <1>5 DEF ResultFields
  <2> QED BY <1>4, <2>1 DEF Finishes, slot
<1>6. CASE n \notin Noop(k) /\ n \in lacking
  <2>1. /\ y.q = opened /\ ResultFields \subseteq DOMAIN y /\ y.invalid = FALSE
        /\ y.send = r.send /\ y.skip = r.skip \cup {n} /\ y.proc = r.proc + 1 /\ y.space = r.space
        /\ y.progress = r.progress
    BY <1>1, <1>6 DEF ResultFields
  <2> QED BY <1>3, <1>6, <2>1 DEF Skips, slot
<1>7. CASE n \notin Noop(k) /\ n \notin lacking
  <2>1. /\ y.q = opened /\ ResultFields \subseteq DOMAIN y /\ y.invalid = FALSE
        /\ y.send = Append(r.send, n) /\ y.skip = r.skip /\ y.proc = r.proc + 1 /\ y.space = r.space
        /\ y.progress = r.progress
    BY <1>1, <1>7 DEF ResultFields
  <2> QED BY <1>3, <2>1 DEF Sends, slot
<1> QED BY <1>5, <1>6, <1>7

\* The parts of the loop's invariant that do not depend on what becomes of n.
LEMMA TurnedInv ==
  ASSUME NEW x, QueueInv(x), NEW k \in PartsOf(x.mode), NEW r, LoopInv(x, k, r),
         NEW n \in r.q.tasks[k], n \in x.tasks[k], n \in x.offset .. x.headed,
         \A m \in r.q.tasks[k] : n <= m,
         NEW y, NEW v, NEW good, Turned(r, y, k, n, v, good),
         \/ good = {n} /\ v = SlotOf(r.q, n) - 1
         \/ good = {} /\ v = SlotOf(r.q, n)
  PROVE  /\ SameOthers(x, k, y) /\ Opened(x, k, y)
         /\ y.q.tasks[k] \subseteq x.tasks[k] /\ x.done[k] \subseteq y.q.done[k]
         /\ PoppedBy(x, k, y) = PoppedBy(x, k, r) \cup {n} /\ n \notin PoppedBy(x, k, r)
         /\ FinishedBy(x, k, y) = FinishedBy(x, k, r) \cup good
         /\ \A a \in PoppedBy(x, k, y) : \A b \in y.q.tasks[k] : a < b
         /\ Cardinality(PoppedBy(x, k, y)) = Cardinality(PoppedBy(x, k, r)) + 1
         /\ Cardinality(PoppedBy(x, k, r)) \in Nat
<1>0. SameOthers(x, k, r) /\ Split(x, k, r) /\ Opened(x, k, r)
  BY DEF LoopInv
<1>1. /\ k \in Parts /\ k \in Kinds
      /\ x.headed \in Nat /\ x.offset \in Nat
      /\ \A m \in x.tasks[k] : m \in x.offset .. x.headed /\ m \notin x.done[k]
      /\ \A m \in x.offset .. x.headed : m \in x.tasks[k] \/ m \in x.done[k] \/ m \in Asked(x, k)
      /\ Asked(x, k) \subseteq DOMAIN x.cache
      /\ \A l \in Parts : x.done[l] \subseteq DOMAIN x.cache
  BY TaskFacts
<1>2. SameOthers(x, k, y)
  BY <1>0 DEF SameOthers, Turned, Stays, KeepsSkeleton, WellFormed
<1>3. y.q.tasks[k] = r.q.tasks[k] \ {n} /\ y.q.done[k] = r.q.done[k] \cup good
  BY DEF Turned
<1>4. r.q.tasks[k] \subseteq x.tasks[k] /\ x.done[k] \subseteq r.q.done[k]
  BY <1>0 DEF Split
<1>5. PoppedBy(x, k, y) = PoppedBy(x, k, r) \cup {n} /\ n \notin PoppedBy(x, k, r)
  BY <1>3, <1>4 DEF PoppedBy
<1>6. n \notin x.done[k]
  BY <1>1
<1>7. FinishedBy(x, k, y) = FinishedBy(x, k, r) \cup good
  BY <1>3, <1>4, <1>6 DEF FinishedBy
<1>8. \A a \in PoppedBy(x, k, y) : \A b \in y.q.tasks[k] : a < b
  <2> TAKE a \in PoppedBy(x, k, y)
  <2> TAKE b \in y.q.tasks[k]
  <2>1. b \in r.q.tasks[k] /\ b # n /\ b \in Nat /\ n \in Nat
    BY <1>1, <1>3, <1>4
  <2>2. CASE a = n
    BY <2>1, <2>2
  <2>3. CASE a # n
    BY <2>1, <2>3, <1>0, <1>5 DEF Split
  <2> QED BY <2>2, <2>3
<1>9. /\ IsFiniteSet(PoppedBy(x, k, r)) /\ Cardinality(PoppedBy(x, k, r)) \in Nat
  <2>1. \A m \in PoppedBy(x, k, r) : m \in x.offset .. x.headed
    BY <1>1 DEF PoppedBy
  <2> QED BY <1>1, <2>1, FiniteWithin
<1>10. Cardinality(PoppedBy(x, k, y)) = Cardinality(PoppedBy(x, k, r)) + 1
  BY <1>5, <1>9, FS_AddElement
<1>11. Opened(x, k, y)
  <2>1. DOMAIN r.q.cache = DOMAIN x.cache \cup PoppedBy(x, k, r)
    BY <1>0 DEF Opened
  <2>2. DOMAIN y.q.cache = DOMAIN r.q.cache \cup {n}
    BY DEF Turned
  <2>3. \A m \in x.offset .. n : m \in DOMAIN r.q.cache \/ m = n
    <3> TAKE m \in x.offset .. n
    <3>1. CASE m # n
      <4>1. m \in x.offset .. x.headed /\ m \notin r.q.tasks[k]
        BY <1>1, <3>1
      <4>2. CASE m \in x.tasks[k]
        BY <4>1, <4>2, <2>1 DEF PoppedBy
      <4>3. CASE m \in x.done[k] \/ m \in Asked(x, k)
        BY <4>3, <1>1, <2>1
      <4> QED BY <4>1, <4>2, <4>3, <1>1
    <3> QED BY <3>1
  <2>4. \A a \in DOMAIN y.q.cache : \A m \in x.offset .. a : m \in DOMAIN y.q.cache
    <3>1. \A a \in DOMAIN r.q.cache : \A m \in x.offset .. a : m \in DOMAIN r.q.cache
      BY <1>0 DEF Opened
    <3> QED BY <2>2, <2>3, <3>1
  <2>5. n \notin r.q.done[k]
    BY <1>0, <1>5, <1>6 DEF Split, FinishedBy
  <2>6. SlotOf(r.q, n) = Cardinality(MissingParts(r.q, n))
    <3>1. CASE n \in DOMAIN r.q.cache
      BY <3>1, <1>0 DEF SlotOf, Opened
    <3>2. CASE n \notin DOMAIN r.q.cache
      <4>1. \A l \in Parts : n \notin r.q.done[l]
        BY <3>2, <2>1, <2>5, <1>0, <1>1 DEF SameOthers
      <4>2. MissingParts(r.q, n) = PartsOf(r.q.mode)
        BY <4>1, PartsOfParts DEF MissingParts
      <4> QED BY <3>2, <4>2 DEF SlotOf
    <3> QED BY <3>1, <3>2
  <2>7. \A m : Cardinality(MissingParts(y.q, m)) =
           IF m \in good THEN Cardinality(MissingParts(r.q, m)) - 1
           ELSE Cardinality(MissingParts(r.q, m))
    <3>1. Stays(r.q, y.q) /\ \A l \in Parts \ {k} : y.q.done[l] = r.q.done[l]
      BY DEF Turned, Stays
    <3>2. k \in PartsOf(r.q.mode)
      BY <1>0 DEF SameOthers, Stays
    <3>3. good \cap r.q.done[k] = {}
      BY <2>5
    <3> QED BY <1>3, <3>1, <3>2, <3>3, MissingLess
  <2>8. \A m \in DOMAIN y.q.cache : y.q.cache[m] = Cardinality(MissingParts(y.q, m))
    <3> TAKE m \in DOMAIN y.q.cache
    <3>1. CASE m = n
      <4>1. y.q.cache[n] = v
        BY DEF Turned
      <4> QED BY <3>1, <4>1, <2>6, <2>7
    <3>2. CASE m # n
      <4>0. m \in DOMAIN r.q.cache /\ m \notin good
        BY <3>2, <2>2
      <4>1. y.q.cache[m] = r.q.cache[m] /\ m \in DOMAIN r.q.cache /\ m \notin good
        BY <3>2, <4>0 DEF Turned
      <4>2. r.q.cache[m] = Cardinality(MissingParts(r.q, m))
        BY <4>1, <1>0 DEF Opened
      <4> QED BY <4>1, <4>2, <2>7
    <3> QED BY <3>1, <3>2
  <2>9. DOMAIN y.q.cache = DOMAIN x.cache \cup PoppedBy(x, k, y)
    BY <2>1, <2>2, <1>5
  <2> QED BY <2>4, <2>8, <2>9 DEF Opened
<1>12. y.q.tasks[k] \subseteq x.tasks[k] /\ x.done[k] \subseteq y.q.done[k]
  BY <1>3, <1>4
<1> QED BY <1>2, <1>5, <1>7, <1>8, <1>9, <1>10, <1>11, <1>12

LEMMA SlotsInteger ==
  ASSUME NEW x, QueueInv(x), NEW k \in PartsOf(x.mode)
  PROVE  ResultSlots(x, k) \in Int
<1>0. x.headed \in Nat /\ x.offset \in Nat /\ x.limit \in 1 .. CacheSize
  BY TaskFacts
<1>1. x.limit \in Nat
  BY <1>0, QueueAssumption
<1> DEFINE A == {m \in x.offset .. x.offset + x.limit - 1 : x.offset .. m \subseteq DOMAIN x.cache} \cap x.done[k]
           B == {m \in Asked(x, k) : m < x.offset + x.limit}
<1>2. \A m \in A : m \in x.offset .. x.headed
  BY TaskFacts
<1>3. \A m \in B : m \in x.offset .. x.headed
  BY TaskFacts
<1>4. ResultSlots(x, k) = x.limit - Cardinality(A) - Cardinality(B)
  BY DEF ResultSlots, Asked
<1> HIDE DEF A, B
<1>5. Cardinality(A) \in Nat /\ Cardinality(B) \in Nat
  BY <1>0, <1>2, <1>3, FiniteWithin
<1> QED BY <1>1, <1>4, <1>5

LEMMA AppendSet ==
  ASSUME NEW s \in Seq(Nat), NEW n \in Nat
  PROVE  Append(s, n) \in Seq(Nat) /\ ToSet(Append(s, n)) = ToSet(s) \cup {n}
<1>1. /\ Append(s, n) \in Seq(Nat) /\ DOMAIN s = 1 .. Len(s) /\ Len(s) \in Nat
      /\ DOMAIN Append(s, n) = 1 .. Len(s) + 1
      /\ \A i \in 1 .. Len(s) : Append(s, n)[i] = s[i]
      /\ Append(s, n)[Len(s) + 1] = n
  OBVIOUS
<1> DEFINE t == Append(s, n)
<1> HIDE DEF t
<1>2. \A m : m \in ToSet(t) <=> m \in ToSet(s) \/ m = n
  <2>1. \A i : i \in DOMAIN t <=> i \in DOMAIN s \/ i = Len(s) + 1
    BY <1>1 DEF t
  <2>2. \A i \in DOMAIN s : t[i] = s[i]
    BY <1>1 DEF t
  <2>3. t[Len(s) + 1] = n
    BY <1>1 DEF t
  <2> QED BY <2>1, <2>2, <2>3, Zenon DEF ToSet
<1> QED BY <1>1, <1>2 DEF t

LEMMA TurnInv ==
  ASSUME NEW x, QueueInv(x), NEW k \in PartsOf(x.mode), NEW r, LoopInv(x, k, r),
         NEW count, NEW lacking, NEW y, y = ReserveTurn(r, k, count, lacking)
  PROVE  LoopInv(x, k, y)
<1>1. CASE ~(/\ r.proc < r.space /\ Len(r.send) < count
             /\ r.q.tasks[k] # {} /\ ~r.invalid)
  BY <1>1 DEF ReserveTurn
<1>2. CASE /\ r.proc < r.space /\ Len(r.send) < count
           /\ r.q.tasks[k] # {} /\ ~r.invalid
  <2> DEFINE n == Lowest(r.q.tasks[k])
  <2> HIDE DEF n
  <2>0. SameOthers(x, k, r) /\ Split(x, k, r)
    BY DEF LoopInv
  <2>1. /\ n \in r.q.tasks[k] /\ n \in x.tasks[k] /\ n \in x.offset .. x.headed
        /\ \A m \in r.q.tasks[k] : n <= m
        /\ n < x.offset + x.limit
    BY <1>2, LowestInWindow DEF n
  <2>2. x.headed \in Nat /\ x.offset \in Nat /\ x.limit \in 1 .. CacheSize /\ k \in Parts
    BY TaskFacts
  <2>3. n \in Nat /\ n \in x.offset .. x.offset + CacheSize - 1
    BY <2>1, <2>2, QueueAssumption
  <2>4. /\ WellFormed(r.q) /\ ResultFields \subseteq DOMAIN r /\ r.invalid = FALSE
        /\ r.q.offset = x.offset
    BY <2>0 DEF SameOthers, Stays
  <2>5. y = ReserveStep(r, k, lacking)
    BY <1>2 DEF ReserveTurn
  <2>6. Finishes(r, y, k, n) \/ Skips(r, y, k, n) \/ Sends(r, y, k, n)
    <3>1. n = Lowest(r.q.tasks[k]) /\ n \in r.q.offset .. r.q.offset + CacheSize - 1
      BY <2>3, <2>4 DEF n
    <3> QED BY <2>2, <2>4, <2>5, <3>1, StepCases
  <2> DEFINE Common(good) ==
         /\ SameOthers(x, k, y) /\ Opened(x, k, y)
         /\ y.q.tasks[k] \subseteq x.tasks[k] /\ x.done[k] \subseteq y.q.done[k]
         /\ PoppedBy(x, k, y) = PoppedBy(x, k, r) \cup {n} /\ n \notin PoppedBy(x, k, r)
         /\ FinishedBy(x, k, y) = FinishedBy(x, k, r) \cup good
         /\ \A a \in PoppedBy(x, k, y) : \A b \in y.q.tasks[k] : a < b
         /\ Cardinality(PoppedBy(x, k, y)) = Cardinality(PoppedBy(x, k, r)) + 1
         /\ Cardinality(PoppedBy(x, k, r)) \in Nat
  <2>7. /\ r.proc \in Int /\ r.space \in Int
        /\ r.proc + ResultSlots(x, k) - r.space = Cardinality(PoppedBy(x, k, r))
        /\ r.send \in Seq(Nat)
        /\ PoppedBy(x, k, r) = FinishedBy(x, k, r) \cup ToSet(r.send) \cup r.skip
        /\ ToSet(r.send) \cap r.skip = {}
        /\ FinishedBy(x, k, r) \cap (ToSet(r.send) \cup r.skip) = {}
    BY <2>0 DEF Split
  <2>8. ResultSlots(x, k) \in Int
    BY SlotsInteger
  <2>9. CASE Finishes(r, y, k, n)
    <3>1. Common({n})
      <4>1. Turned(r, y, k, n, SlotOf(r.q, n) - 1, {n})
        BY <2>9 DEF Finishes
      <4> QED BY <2>1, <4>1, TurnedInv
    <3> HIDE DEF Common
    <3>2. y.send = r.send /\ y.skip = r.skip /\ y.proc = r.proc /\ y.space = r.space - 1
      BY <2>9 DEF Finishes
    <3>3. y.proc + ResultSlots(x, k) - y.space = Cardinality(PoppedBy(x, k, y))
      BY <2>7, <2>8, <3>1, <3>2 DEF Common
    <3>4. Split(x, k, y)
      BY <2>7, <3>1, <3>2, <3>3 DEF Split, Common
    <3> QED BY <3>1, <3>4 DEF LoopInv, Common
  <2>10. CASE Skips(r, y, k, n)
    <3>1. Common({})
      <4>1. Turned(r, y, k, n, SlotOf(r.q, n), {})
        BY <2>10 DEF Skips
      <4> QED BY <2>1, <4>1, TurnedInv
    <3> HIDE DEF Common
    <3>2. y.send = r.send /\ y.skip = r.skip \cup {n} /\ y.proc = r.proc + 1 /\ y.space = r.space
      BY <2>10 DEF Skips
    <3>3. y.proc + ResultSlots(x, k) - y.space = Cardinality(PoppedBy(x, k, y))
      BY <2>7, <2>8, <3>1, <3>2 DEF Common
    <3>4. Split(x, k, y)
      BY <2>7, <3>1, <3>2, <3>3 DEF Split, Common
    <3> QED BY <3>1, <3>4 DEF LoopInv, Common
  <2>11. CASE Sends(r, y, k, n)
    <3>1. Common({})
      <4>1. Turned(r, y, k, n, SlotOf(r.q, n), {})
        BY <2>11 DEF Sends
      <4> QED BY <2>1, <4>1, TurnedInv
    <3> HIDE DEF Common
    <3>2. y.send = Append(r.send, n) /\ y.skip = r.skip /\ y.proc = r.proc + 1 /\ y.space = r.space
      BY <2>11 DEF Sends
    <3>3. y.proc + ResultSlots(x, k) - y.space = Cardinality(PoppedBy(x, k, y))
      BY <2>7, <2>8, <3>1, <3>2 DEF Common
    <3>4. y.send \in Seq(Nat) /\ ToSet(y.send) = ToSet(r.send) \cup {n}
      BY <2>3, <2>7, <3>2, AppendSet
    <3>5. Split(x, k, y)
      BY <2>7, <3>1, <3>2, <3>3, <3>4 DEF Split, Common
    <3> QED BY <3>1, <3>5 DEF LoopInv, Common
  <2> QED BY <2>6, <2>9, <2>10, <2>11
<1> QED BY <1>1, <1>2

\* After i turns: what was skipped the peer lacks, without progress no task was
\* finished, and the first turn popped a task if there was one and space for it.
Tries(x, k, count, lacking, i, r) ==
  /\ r.progress \in BOOLEAN /\ r.skip \subseteq lacking
  /\ r.progress = FALSE => r.q.done[k] = x.done[k]
  /\ i > 0 /\ ResultSlots(x, k) > 0 /\ count > 0 /\ x.tasks[k] # {} => PoppedBy(x, k, r) # {}

LEMMA TurnTries ==
  ASSUME NEW x, QueueInv(x), NEW k \in PartsOf(x.mode), NEW r, LoopInv(x, k, r),
         NEW count, NEW lacking, NEW i \in Nat, Tries(x, k, count, lacking, i, r),
         i = 0 => r = ReserveStart(x, k),
         NEW y, y = ReserveTurn(r, k, count, lacking)
  PROVE  Tries(x, k, count, lacking, i + 1, y)
<1>1. CASE ~(/\ r.proc < r.space /\ Len(r.send) < count
             /\ r.q.tasks[k] # {} /\ ~r.invalid)
  <2>1. y = r
    BY <1>1 DEF ReserveTurn
  <2>2. CASE i = 0
    <3>1. r.proc = 0 /\ r.space = ResultSlots(x, k) /\ r.send = <<>> /\ r.q = x /\ r.invalid = FALSE
      BY <2>2 DEF ReserveStart
    <3>2. Len(r.send) = 0
      BY <3>1
    <3>3. ~(0 < ResultSlots(x, k) /\ 0 < count /\ x.tasks[k] # {})
      BY <1>1, <3>1, <3>2, Zenon
    <3>4. ~(ResultSlots(x, k) > 0 /\ count > 0 /\ x.tasks[k] # {})
      BY <3>3
    <3> QED BY <2>1, <3>4, Zenon DEF Tries
  <2>3. CASE i # 0
    <3>1. i > 0
      BY <2>3
    <3> QED BY <2>1, <3>1, Zenon DEF Tries
  <2> QED BY <2>2, <2>3
<1>2. CASE /\ r.proc < r.space /\ Len(r.send) < count
           /\ r.q.tasks[k] # {} /\ ~r.invalid
  <2> DEFINE n == Lowest(r.q.tasks[k])
  <2> HIDE DEF n
  <2>1. n \in x.tasks[k] /\ n \in x.offset .. x.headed /\ n < x.offset + x.limit
    BY <1>2, LowestInWindow DEF n
  <2>2. x.headed \in Nat /\ x.offset \in Nat /\ x.limit \in 1 .. CacheSize /\ k \in Parts
    BY TaskFacts
  <2>3. /\ WellFormed(r.q) /\ ResultFields \subseteq DOMAIN r /\ r.invalid = FALSE
        /\ r.q.offset = x.offset
    BY DEF LoopInv, SameOthers, Stays
  <2>4. n = Lowest(r.q.tasks[k]) /\ n \in r.q.offset .. r.q.offset + CacheSize - 1
    BY <2>1, <2>2, <2>3, QueueAssumption DEF n
  <2>5. y = ReserveStep(r, k, lacking)
    BY <1>2 DEF ReserveTurn
  <2>6. Finishes(r, y, k, n) \/ (n \in lacking /\ Skips(r, y, k, n)) \/ Sends(r, y, k, n)
    BY <2>2, <2>3, <2>4, <2>5, StepCases
  <2>7. /\ y.progress = TRUE \/ (y.progress = r.progress /\ y.q.done[k] = r.q.done[k])
        /\ y.skip \subseteq r.skip \cup {n} /\ (y.skip = r.skip \/ n \in lacking)
        /\ y.q.tasks[k] = r.q.tasks[k] \ {n}
    BY <2>6 DEF Finishes, Skips, Sends, Turned
  <2>8. n \in PoppedBy(x, k, y)
    BY <2>1, <2>7 DEF PoppedBy
  <2> QED BY <2>7, <2>8 DEF Tries
<1> QED BY <1>1, <1>2

\* The recursive function of ReserveLoop exists.
Unrolls(f, n, start, k, count, lacking) ==
  f = [i \in 0 .. n |-> IF i = 0 THEN start ELSE ReserveTurn(f[i - 1], k, count, lacking)]

LEMMA LoopExists ==
  ASSUME NEW N \in Nat, NEW start, NEW k, NEW count, NEW lacking
  PROVE  \E f : Unrolls(f, N, start, k, count, lacking)
<1> USE DEF Unrolls
<1> DEFINE Fun(n, f) == Unrolls(f, n, start, k, count, lacking)
           T == {n \in Nat : ~ \E f : Fun(n, f)}
<1>1. SUFFICES ASSUME T # {} PROVE FALSE
  BY Zenon
<1>2. PICK n \in T : \A m \in T : n <= m
  BY <1>1, Least
<1>3. n \in Nat /\ ~ \E f : Fun(n, f)
  BY <1>2
<1>4. CASE n = 0
  <2> DEFINE f == [i \in 0 .. 0 |-> start]
  <2>1. Fun(0, f)
    OBVIOUS
  <2> QED BY <1>3, <1>4, <2>1, Zenon
<1>5. CASE n # 0
  <2>1. n - 1 \in Nat /\ n - 1 \notin T
    BY <1>2, <1>3, <1>5
  <2>2. PICK g : Fun(n - 1, g)
    BY <2>1
  <2> DEFINE f == [i \in 0 .. n |-> IF i < n THEN g[i]
                                    ELSE ReserveTurn(g[n - 1], k, count, lacking)]
  <2>3. \A i \in 0 .. n : i < n => f[i] = g[i]
    BY <1>3
  <2>4. f[n] = ReserveTurn(g[n - 1], k, count, lacking)
    BY <1>3
  <2>5. \A i \in 0 .. n - 1 : g[i] = IF i = 0 THEN start ELSE ReserveTurn(g[i - 1], k, count, lacking)
    BY <2>2
  <2>6. \A i \in 0 .. n : f[i] = IF i = 0 THEN start ELSE ReserveTurn(f[i - 1], k, count, lacking)
    <3> TAKE i \in 0 .. n
    <3>1. CASE i = n
      <4>1. f[n - 1] = g[n - 1]
        BY <1>3, <1>5, <2>3
      <4> HIDE DEF f
      <4> QED BY <1>5, <3>1, <4>1, <2>4
    <3>2. CASE i # n
      <4>1. i \in 0 .. n - 1 /\ f[i] = g[i]
        BY <1>3, <3>2, <2>3
      <4>2. i # 0 => i - 1 \in 0 .. n /\ i - 1 < n
        BY <1>3
      <4> HIDE DEF f
      <4> QED BY <4>1, <4>2, <2>3, <2>5
    <3> QED BY <3>1, <3>2
  <2>7. f = [i \in 0 .. n |-> f[i]]
    OBVIOUS
  <2> HIDE DEF f
  <2>8. Fun(n, f)
    BY <2>6, <2>7
  <2> QED BY <1>3, <2>8, Zenon
<1> QED BY <1>4, <1>5

\* At the end of the loop its invariant holds; no task was outside the cache.
LEMMA LoopResult ==
  ASSUME NEW x, QueueInv(x), NEW k \in PartsOf(x.mode), NEW count, NEW lacking
  PROVE  /\ LoopInv(x, k, ReserveLoop(x, k, count, lacking))
         /\ x.tasks[k] # {} => Tries(x, k, count, lacking, 1, ReserveLoop(x, k, count, lacking))
<1> DEFINE N == Cardinality(x.tasks[k])
           start == ReserveStart(x, k)
           h == CHOOSE f : f = [i \in 0 .. N |-> IF i = 0 THEN start
                                                 ELSE ReserveTurn(f[i - 1], k, count, lacking)]
<1>1. N \in Nat
  <2>1. /\ x.headed \in Nat /\ x.offset \in Nat
        /\ \A n \in x.tasks[k] : n \in x.offset .. x.headed
    BY TaskFacts
  <2> QED BY <2>1, FiniteWithin
<1>2. ReserveLoop(x, k, count, lacking) = h[N]
  BY Zenon DEF ReserveLoop
<1> HIDE DEF N, start
<1>3. h = [i \in 0 .. N |-> IF i = 0 THEN start ELSE ReserveTurn(h[i - 1], k, count, lacking)]
  <2>1. \E f : Unrolls(f, N, start, k, count, lacking)
    BY <1>1, LoopExists
  <2> QED BY <2>1, Zenon DEF Unrolls
<1> HIDE DEF h
<1>4. LoopInv(x, k, start)
  <2>0. k \in Parts /\ k \in Kinds /\ WellFormed(x) /\ Cached(x)
    BY TaskFacts DEF QueueInv
  <2>1. /\ start.q = x /\ start.send = <<>> /\ start.skip = {} /\ start.proc = 0
        /\ start.invalid = FALSE /\ start.space = ResultSlots(x, k)
        /\ ResultFields \subseteq DOMAIN start
    BY DEF start, ReserveStart, ResultFields
  <2>2. PoppedBy(x, k, start) = {} /\ FinishedBy(x, k, start) = {}
    BY <2>1 DEF PoppedBy, FinishedBy
  <2>3. SameOthers(x, k, start)
    BY <2>0, <2>1 DEF SameOthers, Stays, KeepsSkeleton
  <2>4. ResultSlots(x, k) \in Int
    BY SlotsInteger
  <2>5. Split(x, k, start)
    BY <2>1, <2>2, <2>4, ToSetEmpty, FS_EmptySet DEF Split
  <2>6. Opened(x, k, start)
    BY <2>0, <2>1, <2>2 DEF Opened, Cached
  <2> QED BY <2>3, <2>5, <2>6 DEF LoopInv
<1>5. Tries(x, k, count, lacking, 0, start)
  <2>1. start.q = x /\ start.skip = {} /\ start.progress = FALSE
    BY DEF start, ReserveStart
  <2>2. ~(0 > 0)
    OBVIOUS
  <2> QED BY <2>1, <2>2, Zenon DEF Tries
<1>6. \A i \in 0 .. N : LoopInv(x, k, h[i]) /\ Tries(x, k, count, lacking, i, h[i])
  <2> DEFINE Good(i) == LoopInv(x, k, h[i]) /\ Tries(x, k, count, lacking, i, h[i])
             T == {i \in 0 .. N : ~Good(i)}
  <2>1. SUFFICES ASSUME T # {} PROVE FALSE
    BY Zenon
  <2>2. T \in SUBSET Nat
    BY <1>1
  <2>3. PICK i \in T : \A j \in T : i <= j
    BY <2>1, <2>2, Least
  <2>4. i \in 0 .. N /\ ~Good(i)
    BY <2>3
  <2>5. CASE i = 0
    <3>1. h[0] = start
      BY <1>1, <1>3
    <3> QED BY <1>4, <1>5, <2>4, <2>5, <3>1
  <2>6. CASE i # 0
    <3>1. i - 1 \in 0 .. N /\ i - 1 < i
      BY <1>1, <2>4, <2>6
    <3>2. i - 1 \notin T
      BY <2>3, <2>4, <3>1
    <3>3. LoopInv(x, k, h[i - 1]) /\ Tries(x, k, count, lacking, i - 1, h[i - 1])
      BY <3>1, <3>2, Zenon
    <3>4. h[i] = ReserveTurn(h[i - 1], k, count, lacking)
      BY <1>1, <1>3, <2>4, <2>6
    <3>5. LoopInv(x, k, h[i])
      BY <3>3, <3>4, TurnInv
    <3>6. i - 1 \in Nat /\ (i - 1) + 1 = i /\ (i - 1 = 0 => h[i - 1] = ReserveStart(x, k))
      BY <1>1, <1>3, <2>4, <2>6, <3>1 DEF start
    <3>7. Tries(x, k, count, lacking, (i - 1) + 1, h[i])
      BY <3>3, <3>4, <3>6, TurnTries
    <3> QED BY <2>4, <3>5, <3>6, <3>7
  <2> QED BY <2>5, <2>6
<1>7. x.tasks[k] # {} => N > 0
  <2>1. /\ x.headed \in Nat /\ x.offset \in Nat
        /\ \A n \in x.tasks[k] : n \in x.offset .. x.headed
    BY TaskFacts
  <2>2. IsFiniteSet(x.tasks[k])
    BY <2>1, FiniteWithin
  <2>3. x.tasks[k] # {} => Cardinality(x.tasks[k]) # 0
    BY <2>2, FS_EmptySet
  <2> QED BY <1>1, <2>3 DEF N
<1>8. N > 0 /\ Tries(x, k, count, lacking, N, h[N]) => Tries(x, k, count, lacking, 1, h[N])
  BY DEF Tries
<1> QED BY <1>1, <1>2, <1>6, <1>7, <1>8

-----------------------------------------------------------------------------
(* Reservations. *)

LEMMA ReservePartsInv ==
  ASSUME NEW x, QueueInv(x), NEW k \in Parts, NEW p \in Peers, NEW count, NEW lacking,
         NEW z, z = ReserveParts(x, k, p, count, lacking)
  PROVE  /\ z.invalid = FALSE
         /\ QueueInv(z.q) /\ Stays(x, z.q) /\ KeepsSkeleton(x, z.q)
         /\ \A l \in Parts : x.done[l] \subseteq z.q.done[l]
<1>0. WellFormed(x) /\ Cached(x) /\ Unwanted(x) /\ \A l \in PartsOf(x.mode) : KindConserved(x, l)
  BY DEF QueueInv
<1>1. CASE x.tasks[k] = {} \/ x.pend[k][p] # <<>>
  <2>1. z.q = x /\ z.invalid = FALSE
    BY <1>1 DEF ReserveParts
  <2> QED BY <2>1 DEF Stays, KeepsSkeleton
<1>2. CASE x.tasks[k] # {} /\ x.pend[k][p] = <<>>
  <2> DEFINE r == ReserveLoop(x, k, count, lacking)
             y == [r.q EXCEPT !.tasks[k] = @ \cup r.skip, !.pend[k][p] = r.send]
  <2>1. k \in PartsOf(x.mode)
    BY <1>0, <1>2 DEF Unwanted
  <2>2. LoopInv(x, k, r)
    BY <2>1, LoopResult
  <2>3. z.q = (IF r.invalid THEN r.q ELSE y) /\ z.invalid = r.invalid
    BY <1>2 DEF ReserveParts
  <2> HIDE DEF r
  <2>4. SameOthers(x, k, r) /\ Split(x, k, r) /\ Opened(x, k, r)
    BY <2>2 DEF LoopInv
  <2>5. z.q = y /\ z.invalid = FALSE
    BY <2>3, <2>4 DEF SameOthers
  <2>6. /\ k \in Kinds
        /\ x.headed \in Nat /\ x.offset \in Nat
        /\ \A n \in x.tasks[k] : n \in x.offset .. x.headed /\ n \notin x.done[k]
        /\ \A l \in Parts : x.done[l] \subseteq DOMAIN x.cache
        /\ DOMAIN x.cache \subseteq x.offset .. x.headed
    BY <2>1, TaskFacts
  <2>7. WellFormed(r.q) /\ Stays(x, r.q) /\ r.q.pend = x.pend /\ DOMAIN r.q.pend[k] = Peers
    BY <2>4, <2>6 DEF SameOthers, WellFormed
  <2>8. /\ Stays(r.q, y) /\ KeepsSkeleton(r.q, y)
        /\ DOMAIN y.tasks = Kinds /\ DOMAIN y.pend = Kinds
        /\ y.done = r.q.done /\ y.cache = r.q.cache
        /\ y.tasks[k] = r.q.tasks[k] \cup r.skip
        /\ y.pend[k] = [x.pend[k] EXCEPT ![p] = r.send]
        /\ \A l \in Kinds \ {k} : y.tasks[l] = r.q.tasks[l] /\ y.pend[l] = x.pend[l]
    BY <2>6, <2>7 DEF WellFormed, Stays, KeepsSkeleton
  <2> HIDE DEF y
  <2>9. Stays(x, y) /\ KeepsSkeleton(x, y)
    BY <2>4, <2>7, <2>8 DEF SameOthers, Stays, KeepsSkeleton
  <2>10. /\ y.mode = x.mode /\ y.offset = x.offset /\ y.headed = x.headed
         /\ r.q.mode = x.mode
    BY <2>7, <2>9 DEF Stays
  <2>11. /\ \A l \in Kinds \ {k} : y.tasks[l] = x.tasks[l] /\ y.pend[l] = x.pend[l]
         /\ \A l \in Parts \ {k} : y.done[l] = x.done[l]
    BY <2>4, <2>8 DEF SameOthers
  <2>12. \A s \in Peers : ToSet(y.pend[k][s]) = IF s = p THEN ToSet(r.send) ELSE ToSet(x.pend[k][s])
    BY <2>7, <2>8
  <2> DEFINE P == PoppedBy(x, k, r)
             F == FinishedBy(x, k, r)
             S == ToSet(r.send)
  <2>13. /\ P = F \cup S \cup r.skip /\ S \cap r.skip = {} /\ F \cap (S \cup r.skip) = {}
         /\ P \subseteq x.tasks[k] /\ r.q.tasks[k] = x.tasks[k] \ P
         /\ y.done[k] = x.done[k] \cup F
    BY <2>4, <2>8 DEF Split, PoppedBy, FinishedBy
  <2>14. DOMAIN y.cache = DOMAIN x.cache \cup P
    BY <2>4, <2>8 DEF Opened
  <2> HIDE DEF P, F, S
  <2>15. WellFormed(y)
    <3>1. \A l \in Kinds : DOMAIN y.pend[l] = Peers
      BY <1>0, <2>8 DEF WellFormed
    <3>2. DOMAIN y.done = Parts
      BY <2>7, <2>8 DEF WellFormed
    <3> QED BY <1>0, <2>8, <2>9, <3>1, <3>2 DEF WellFormed, Stays
  <2>16. Cached(y)
    <3>1. DOMAIN y.cache \subseteq x.offset .. x.headed
      BY <2>6, <2>13, <2>14
    <3>2. \A n \in DOMAIN y.cache : \A m \in x.offset .. n : m \in DOMAIN y.cache
      BY <2>4, <2>8 DEF Opened
    <3>3. \A l \in Parts : y.done[l] \subseteq DOMAIN y.cache
      <4> TAKE l \in Parts
      <4>1. CASE l = k
        BY <4>1, <2>6, <2>13, <2>14
      <4>2. CASE l # k
        BY <4>2, <2>6, <2>11, <2>14
      <4> QED BY <4>1, <4>2
    <3>4. \A l \in Parts : \A s \in Peers : ToSet(y.pend[l][s]) \subseteq DOMAIN y.cache
      <4> TAKE l \in Parts
      <4> TAKE s \in Peers
      <4>0. ToSet(x.pend[l][s]) \subseteq DOMAIN y.cache
        BY <1>0, <2>14 DEF Cached
      <4>1. CASE l = k
        BY <4>0, <4>1, <2>12, <2>13, <2>14 DEF S
      <4>2. CASE l # k
        BY <4>0, <4>2, <2>11, KindNames
      <4> QED BY <4>1, <4>2
    <3>5. \A n \in DOMAIN y.cache : y.cache[n] = Cardinality(MissingParts(y, n))
      <4>1. \A n : MissingParts(y, n) = MissingParts(r.q, n)
        BY <2>8, <2>10 DEF MissingParts
      <4> QED BY <4>1, <2>4, <2>8 DEF Opened
    <3> QED BY <2>10, <3>1, <3>2, <3>3, <3>4, <3>5, Zenon DEF Cached
  <2>17. Unwanted(y)
    <3> SUFFICES ASSUME NEW l \in Parts \ PartsOf(x.mode)
                 PROVE  y.tasks[l] = {} /\ \A s \in Peers : y.pend[l][s] = <<>>
      BY <2>10 DEF Unwanted
    <3>1. x.tasks[l] = {} /\ \A s \in Peers : x.pend[l][s] = <<>>
      BY <1>0 DEF Unwanted
    <3> QED BY <3>1, <2>1, <2>11, KindNames
  <2>18. ASSUME NEW l \in PartsOf(y.mode) PROVE KindConserved(y, l)
    <3>1. KindConserved(x, l) /\ l \in Kinds /\ l \in Parts
      BY <1>0, <2>10, <2>18, PartsOfParts, KindNames
    <3>2. CASE l # k
      <4>1. y.tasks[l] = x.tasks[l] /\ y.pend[l] = x.pend[l] /\ y.done[l] = x.done[l]
        BY <2>11, <3>1, <3>2
      <4>2. Asked(y, l) = Asked(x, l)
        BY <4>1 DEF Asked
      <4> QED BY <2>10, <4>1, <4>2, <3>1, Zenon DEF KindConserved
    <3>3. CASE l = k
      <4>1. \A n : n \in Asked(x, k) <=> \E s \in Peers : n \in ToSet(x.pend[k][s])
        BY Zenon DEF Asked
      <4>2. \A n : n \in Asked(y, k) <=> \E s \in Peers : n \in ToSet(y.pend[k][s])
        BY Zenon DEF Asked
      <4>3. x.tasks[k] \cup Asked(x, k) = {n \in x.offset .. x.headed : n \notin x.done[k]}
        BY <3>1, <3>3 DEF KindConserved
      <4>4. \A s \in Peers : /\ x.tasks[k] \cap ToSet(x.pend[k][s]) = {}
                             /\ \A t \in Peers \ {s} : ToSet(x.pend[k][s]) \cap ToSet(x.pend[k][t]) = {}
        BY <3>1, <3>3 DEF KindConserved
      <4>5. ToSet(x.pend[k][p]) = {}
        BY <1>2, ToSetEmpty
      <4>6. \A n : n \in Asked(y, k) <=> n \in Asked(x, k) \/ n \in S
        BY <2>12, <4>1, <4>2, <4>5 DEF S
      <4>7. \A n : n \in y.tasks[k] <=> n \in x.tasks[k] /\ n \notin F /\ n \notin S
        BY <2>8, <2>13
      <4>8. \A n \in F : n \notin Asked(x, k)
        BY <2>13, <4>1, <4>4
      <4>9. y.tasks[k] \cup Asked(y, k) = {n \in x.offset .. x.headed : n \notin y.done[k]}
        <5>1. \A n : n \in y.tasks[k] \cup Asked(y, k) <=> n \in x.tasks[k] \cup Asked(x, k) /\ n \notin F
          BY <4>6, <4>7, <4>8, <2>13
        <5> QED BY <5>1, <4>3, <2>13
      <4>10. \A s \in Peers : y.tasks[k] \cap ToSet(y.pend[k][s]) = {}
        BY <2>12, <4>4, <4>7 DEF S
      <4>11. \A s \in Peers : \A t \in Peers \ {s} : ToSet(y.pend[k][s]) \cap ToSet(y.pend[k][t]) = {}
        <5>1. \A s \in Peers : S \cap ToSet(x.pend[k][s]) = {}
          BY <2>13, <4>4
        <5> QED BY <5>1, <2>12, <4>4 DEF S
      <4> QED BY <2>10, <3>3, <4>9, <4>10, <4>11 DEF KindConserved
    <3> QED BY <3>2, <3>3
  <2>19. QueueInv(y)
    BY <2>15, <2>16, <2>17, <2>18 DEF QueueInv
  <2>20. \A l \in Parts : x.done[l] \subseteq y.done[l]
    BY <2>11, <2>13
  <2> QED BY <2>5, <2>9, <2>19, <2>20
<1> QED BY <1>1, <1>2

LEMMA ReserveInv ==
  ASSUME NEW x, QueueInv(x), NEW k \in Kinds, NEW p \in Peers, NEW count, NEW lacking,
         NEW z, z = Reserve(x, k, p, count, lacking)
  PROVE  /\ z.invalid = FALSE
         /\ QueueInv(z.q) /\ Stays(x, z.q) /\ KeepsSkeleton(x, z.q)
         /\ \A l \in Parts : x.done[l] \subseteq z.q.done[l]
<1>1. CASE k = "header"
  <2>1. z = ReserveBatch(x, p)
    BY <1>1 DEF Reserve
  <2>2. QueueInv(z.q) /\ Keeps(x, z.q) /\ KeepsSkeleton(x, z.q)
    BY <2>1, ReserveBatchInv
  <2>3. z.invalid = FALSE
    BY <2>1 DEF ReserveBatch
  <2> QED BY <2>2, <2>3 DEF Keeps, Stays
<1>2. CASE k # "header"
  <2>1. z = ReserveParts(x, k, p, count, lacking) /\ k \in Parts
    BY <1>2 DEF Reserve, Kinds, Parts
  <2>2. z = ReserveParts(x, k, p, count, lacking)
    BY <2>1
  <2>3. k \in Parts
    BY <2>1
  <2>4. QueueInv(x) /\ p \in Peers
    OBVIOUS
  <2> QED BY ONLY <2>2, <2>3, <2>4, ReservePartsInv
<1> QED BY <1>1, <1>2

-----------------------------------------------------------------------------
(* The steps of fetchParts and of deliveries. *)

LEMMA HeldNat == HeaderTypes => Held \in Nat
<1> SUFFICES ASSUME HeaderTypes PROVE Held \in Nat
  OBVIOUS
<1>1. proc.todo \in Nat /\ procCh \in Seq(Nat)
  BY DEF HeaderTypes
<1>2. procCh # <<>> => procCh[1] \in Nat
  BY <1>1
<1> QED BY <1>1, <1>2 DEF Held

\* Steps that leave the headers alone, that end fetchHeaders, or that return
\* from the filling of the skeleton.
LEMMA HeadersKept ==
  ASSUME HeaderInv, q'.headed = q.headed, KeepsSkeleton(q, q'), UNCHANGED <<procCh, proc>>,
         DOMAIN fetch' = Kinds, \A k \in Kinds : "at" \in DOMAIN fetch'[k],
         \/ /\ header' = header
            /\ fetch'["header"].at # "off" => fetch["header"].at # "off"
         \/ header' = NoHeaders /\ fetch'["header"].at = "off"
         \/ /\ header.at = "fill" /\ fetch'["header"].at = "off"
            /\ header' = [header EXCEPT !.at = "push", !.from = @ + q.proced,
                                        !.rest = q.size - q.proced]
  PROVE  HeaderInv'
<1>0. Held' = Held /\ Held \in Nat
  BY HeldNat DEF Held, HeaderInv
<1>1. q'.from = q.from /\ q'.size = q.size /\ q'.unfilled = q.unfilled /\ q'.proced = q.proced
  BY DEF KeepsSkeleton
<1>2. HeaderTypes
  BY DEF HeaderInv
<1>3. CASE /\ header' = header
           /\ fetch'["header"].at # "off" => fetch["header"].at # "off"
  <2>1. HeaderTypes'
    BY <1>2, <1>3 DEF HeaderTypes
  <2>2. Filling => Filling'
    BY <1>1, <1>3 DEF Filling
  <2> QED BY <1>0, <1>1, <1>3, <2>1, <2>2 DEF HeaderInv
<1>4. CASE header' = NoHeaders /\ fetch'["header"].at = "off"
  <2>1. HeaderTypes' /\ header'.at = "off"
    BY <1>2, <1>4 DEF HeaderTypes, NoHeaders
  <2> QED BY <1>0, <2>1 DEF HeaderInv
<1>5. CASE /\ header.at = "fill" /\ fetch'["header"].at = "off"
           /\ header' = [header EXCEPT !.at = "push", !.from = @ + q.proced,
                                       !.rest = q.size - q.proced]
  <2>1. Filling /\ q.headed + Held + 1 <= header.from + q.proced /\ header.from \in Nat
    BY <1>2, <1>5 DEF HeaderInv, HeaderTypes
  <2>2. header'.at = "push" /\ header'.from = header.from + q.proced
        /\ header'.rest = q.size - q.proced /\ DOMAIN header' = {"at", "from", "rest", "skeleton"}
    BY <1>2, <1>5 DEF HeaderTypes
  <2>3. header'.from \in Nat /\ header'.rest \in Nat /\ header'.from + header'.rest <= Height + 1
    BY <2>1, <2>2, QueueAssumption DEF Filling
  <2>4. HeaderTypes'
    BY <1>2, <1>5, <2>2, <2>3 DEF HeaderTypes
  <2> QED BY <1>0, <2>1, <2>2, <2>3, <2>4 DEF HeaderInv
<1> QED BY <1>3, <1>4, <1>5

\* How fetchParts goes on or returns.
Goes(k) ==
  /\ DOMAIN fetch' = Kinds /\ \A l \in Kinds : "at" \in DOMAIN fetch'[l]
  /\ \/ /\ header' = header
        /\ fetch'["header"].at # "off" => fetch["header"].at # "off"
     \/ header' = NoHeaders /\ fetch'["header"].at = "off"
     \/ /\ header.at = "fill" /\ fetch'["header"].at = "off"
        /\ header' = [header EXCEPT !.at = "push", !.from = @ + q.proced,
                                    !.rest = q.size - q.proced]

LEMMA OffAt == Off.at = "off" /\ "at" \in DOMAIN Off /\ \A f : "at" \in DOMAIN AtSelect(f) /\ AtSelect(f).at = "select"
BY DEF Off, AtSelect

LEMMA ReturnGoes ==
  ASSUME HeaderInv, NEW k \in Kinds, fetch[k].at # "off", NEW err, Return(k, err)
  PROVE  Goes(k)
<1>0. DOMAIN fetch = Kinds /\ (\A l \in Kinds : "at" \in DOMAIN fetch[l])
      /\ (fetch["header"].at # "off" => header.at = "fill")
  BY DEF HeaderInv, HeaderTypes
<1>1. fetch' = [fetch EXCEPT ![k] = Off]
  BY DEF Return
<1>2. DOMAIN fetch' = Kinds /\ \A l \in Kinds : "at" \in DOMAIN fetch'[l]
  BY <1>0, <1>1, OffAt
<1>3. CASE k # "header"
  <2>1. header' = header /\ fetch'["header"] = fetch["header"]
    BY <1>0, <1>1, <1>3, KindNames DEF Return
  <2> QED BY <1>2, <2>1 DEF Goes
<1>4. CASE k = "header"
  <2>1. fetch'["header"].at = "off" /\ header.at = "fill"
    BY <1>0, <1>1, <1>4, OffAt
  <2>2. \/ header' = NoHeaders
        \/ header' = [header EXCEPT !.at = "push", !.from = @ + q.proced,
                                    !.rest = q.size - q.proced]
    BY <1>4 DEF Return
  <2> QED BY <1>2, <2>1, <2>2 DEF Goes
<1> QED BY <1>3, <1>4

LEMMA ContinueGoes ==
  ASSUME HeaderInv, NEW k \in Kinds, fetch[k].at # "off", NEW f, "at" \in DOMAIN f, Continue(k, f)
  PROVE  Goes(k)
<1>0. DOMAIN fetch = Kinds /\ \A l \in Kinds : "at" \in DOMAIN fetch[l]
  BY DEF HeaderInv, HeaderTypes
<1>1. CASE Return(k, "peersUnavailable")
  BY <1>1, ReturnGoes
<1>2. CASE ~Return(k, "peersUnavailable")
  <2>1. header' = header /\ fetch' = [fetch EXCEPT ![k] = IF f.idles = {} THEN AtSelect(f) ELSE f]
    BY <1>2 DEF Continue
  <2>2. DOMAIN fetch' = Kinds /\ \A l \in Kinds : "at" \in DOMAIN fetch'[l]
    BY <1>0, <2>1, OffAt
  <2>3. fetch'["header"].at # "off" => fetch["header"].at # "off"
    BY <1>0, <2>1, KindNames
  <2> QED BY <2>1, <2>2, <2>3 DEF Goes
<1> QED BY <1>1, <1>2

\* The steps of Goes keep the invariant when the queue keeps its headers.
LEMMA GoesInv ==
  ASSUME IInv, NEW k, Goes(k), QueueInv(q'), q'.headed = q.headed, q'.offset = q.offset,
         KeepsSkeleton(q, q'), UNCHANGED <<procCh, proc, chain>>
  PROVE  IInv'
<1>1. HeaderInv'
  BY HeadersKept DEF IInv, Goes
<1>2. (chain \in Nat /\ chain < q.offset)'
  BY DEF IInv
<1>3. QueueInv(q)'
  BY DEF QueueInv, WellFormed, Cached, Unwanted, KindConserved, MissingParts, Asked
<1> QED BY <1>1, <1>2, <1>3 DEF IInv

\* The queue of the abstract specification's point of view: parts are added.
Grows ==
  /\ q'.mode = q.mode /\ q'.headed = q.headed /\ q'.offset = q.offset
  /\ \A k \in Parts : q.done[k] \subseteq q'.done[k]

LEMMA KeepsGrows == (Keeps(q, q') => Grows) /\ (q' = q => Grows)
BY DEF Keeps, Grows

LEMMA SameQueue == KeepsSkeleton(q, q) /\ Keeps(q, q)
BY DEF KeepsSkeleton, Keeps

\* UnregisterPeer.
LEMMA UnregisterInv ==
  ASSUME NEW x, QueueInv(x), Keeps(q, x), KeepsSkeleton(q, x), NEW P \in SUBSET Peers, NEW k,
         Unregister(P, x, k)
  PROVE  /\ QueueInv(q') /\ KeepsSkeleton(q, q') /\ Grows
         /\ q'.headed = q.headed /\ q'.offset = q.offset
<1>1. q' = Revoke(x, P)
  BY DEF Unregister
<1>2. QueueInv(q') /\ Keeps(x, q') /\ KeepsSkeleton(x, q')
  BY <1>1, RevokeInv
<1>3. Keeps(q, q') /\ KeepsSkeleton(q, q')
  BY <1>2 DEF Keeps, KeepsSkeleton
<1> QED BY <1>2, <1>3, KeepsGrows DEF Keeps

\* fetch and header stay.
LEMMA StillGoes ==
  ASSUME HeaderInv, header' = header, fetch' = fetch
  PROVE  Goes("none")
BY DEF Goes, HeaderInv, HeaderTypes

LEMMA UnchangedInv ==
  ASSUME IInv, UNCHANGED <<q, fetch, header, procCh, proc, chain>>
  PROVE  IInv' /\ Grows
<1>1. Goes("none")
  BY StillGoes DEF IInv
<1>2. QueueInv(q') /\ KeepsSkeleton(q, q') /\ q'.headed = q.headed /\ q'.offset = q.offset
  BY SameQueue DEF IInv
<1> QED BY <1>1, <1>2, GoesInv, KeepsGrows

\* A step of fetchParts.
LEMMA FetchStepInv ==
  ASSUME IInv, NEW k \in Kinds, FetchStep(k)
  PROVE  IInv' /\ Grows
<1>0. /\ HeaderInv /\ QueueInv(q)
      /\ DOMAIN fetch = Kinds /\ \A l \in Kinds : "at" \in DOMAIN fetch[l]
  BY DEF IInv, HeaderInv, HeaderTypes
<1>1. CASE Wake(k)
  <2>1. /\ fetch' = [fetch EXCEPT ![k].wake = FALSE, ![k].finished = TRUE]
        /\ fetch[k].at = "select"
        /\ UNCHANGED <<q, header, procCh, proc, chain>>
    BY <1>1 DEF Wake, workers
  <2>2. /\ DOMAIN fetch' = Kinds /\ \A l \in Kinds : "at" \in DOMAIN fetch'[l]
        /\ fetch'["header"].at # "off" => fetch["header"].at # "off"
    BY <1>0, <2>1, KindNames
  <2>3. Goes(k)
    BY <2>1, <2>2 DEF Goes
  <2>4. QueueInv(q') /\ KeepsSkeleton(q, q') /\ q'.headed = q.headed /\ q'.offset = q.offset
    BY <1>0, <2>1, SameQueue
  <2> QED BY <2>1, <2>3, <2>4, GoesInv, KeepsGrows
<1>2. CASE NoPeers(k)
  <2>1. /\ Return(k, "noPeers") /\ fetch[k].at # "off" /\ UNCHANGED <<q, procCh, proc, chain>>
    BY <1>2 DEF NoPeers
  <2>2. Goes(k)
    BY <1>0, <2>1, ReturnGoes
  <2>3. QueueInv(q') /\ KeepsSkeleton(q, q') /\ q'.headed = q.headed /\ q'.offset = q.offset
    BY <1>0, <2>1, SameQueue
  <2> QED BY <2>1, <2>2, <2>3, GoesInv, KeepsGrows
<1>3. CASE Drained(k)
  <2>1. /\ fetch[k].at # "off" /\ UNCHANGED <<q, procCh, proc, chain>>
    BY <1>3 DEF Drained
  <2>2. CASE Return(k, "none")
    BY <1>0, <2>1, <2>2, ReturnGoes, GoesInv, SameQueue, KeepsGrows
  <2>3. CASE ~Return(k, "none")
    <3>1. fetch' = [fetch EXCEPT ![k].at = "select"] /\ header' = header
      BY <1>3, <2>3 DEF Drained
    <3>2. /\ DOMAIN fetch' = Kinds /\ \A l \in Kinds : "at" \in DOMAIN fetch'[l]
          /\ fetch'["header"].at # "off" => fetch["header"].at # "off"
      BY <1>0, <2>1, <3>1, KindNames
    <3>3. Goes(k)
      BY <3>1, <3>2 DEF Goes
    <3> QED BY <1>0, <2>1, <3>3, GoesInv, SameQueue, KeepsGrows
  <2> QED BY <2>2, <2>3
<1>4. ASSUME NEW E \in SUBSET Peers, Round(k, E) PROVE IInv' /\ Grows
  <2> DEFINE drop == Stalling(k, E)
             x == Requeue(q, k, E)
  <2>1. drop \in SUBSET Peers
    BY DEF Stalling
  <2>2. QueueInv(x) /\ Keeps(q, x) /\ KeepsSkeleton(q, x)
    BY <1>0, RequeueInv
  <2>3. Unregister(drop, x, k) /\ fetch[k].at = "select" /\ UNCHANGED <<procCh, proc, chain>>
    BY <1>4 DEF Round
  <2>4. \/ \E f : "at" \in DOMAIN f /\ Continue(k, f)
        \/ \E f : "at" \in DOMAIN f /\ fetch' = [fetch EXCEPT ![k] = f] /\ header' = header
    <3> DEFINE qq == Revoke(x, drop)
               free == (reg \ drop) \ (busy[k] \ E)
               empty == [fetch[k] EXCEPT !.at = IF fetch[k].finished THEN "drained" ELSE "select"]
               ready == [fetch[k] EXCEPT !.at = "assign", !.idles = free,
                                !.full = (free = reg \ drop), !.running = InFlight(qq, k),
                                !.present = reg \ drop]
    <3>1. "at" \in DOMAIN empty /\ "at" \in DOMAIN ready
      BY <1>0
    <3>2. IF qq.tasks[k] # {} THEN Continue(k, ready)
          ELSE fetch' = [fetch EXCEPT ![k] = empty] /\ header' = header
      BY <1>4 DEF Round
    <3> HIDE DEF qq, empty, ready
    <3> QED BY <3>1, <3>2
  <2> HIDE DEF drop, x
  <2>5. Goes(k)
    <3>1. CASE \E f : "at" \in DOMAIN f /\ Continue(k, f)
      BY <1>0, <2>3, <3>1, ContinueGoes
    <3>2. CASE \E f : "at" \in DOMAIN f /\ fetch' = [fetch EXCEPT ![k] = f] /\ header' = header
      <4>1. PICK f : "at" \in DOMAIN f /\ fetch' = [fetch EXCEPT ![k] = f] /\ header' = header
        BY <3>2
      <4>2. /\ DOMAIN fetch' = Kinds /\ \A l \in Kinds : "at" \in DOMAIN fetch'[l]
            /\ fetch'["header"].at # "off" => fetch["header"].at # "off"
        BY <1>0, <2>3, <4>1, KindNames
      <4> QED BY <4>1, <4>2 DEF Goes
    <3> QED BY <2>4, <3>1, <3>2
  <2>6. /\ QueueInv(q') /\ KeepsSkeleton(q, q') /\ Grows
        /\ q'.headed = q.headed /\ q'.offset = q.offset
    BY <2>1, <2>2, <2>3, UnregisterInv
  <2> QED BY <2>3, <2>5, <2>6, GoesInv
<1>5. ASSUME NEW p \in Peers, NEW count \in Counts, Assign(k, p, count) PROVE IInv' /\ Grows
  <2> DEFINE f == fetch[k]
             r == Reserve(q, k, p, count, lacks[p])
  <2>0. fetch[k].at = "assign" /\ UNCHANGED <<procCh, proc, chain>> /\ "at" \in DOMAIN f
    BY <1>0, <1>5 DEF Assign
  <2>1. /\ r.invalid = FALSE
        /\ QueueInv(r.q) /\ Stays(q, r.q) /\ KeepsSkeleton(q, r.q)
        /\ \A l \in Parts : q.done[l] \subseteq r.q.done[l]
    BY <1>0, ReserveInv
  <2>2. /\ q' = q \/ q' = r.q
        /\ \E g : "at" \in DOMAIN g /\ Continue(k, g)
    <3> DEFINE g1 == [f EXCEPT !.idles = {}, !.throttled = TRUE]
               g2 == [f EXCEPT !.idles = {}]
               g3 == [f EXCEPT !.idles = @ \ {p}, !.progressed = @ \/ r.progress,
                               !.running = @ \/ r.send # <<>>]
    <3>1. "at" \in DOMAIN g1 /\ "at" \in DOMAIN g2 /\ "at" \in DOMAIN g3
      BY <2>0
    <3>2. \/ q' = q /\ Continue(k, g1)
          \/ q' = q /\ Continue(k, g2)
          \/ r.invalid
          \/ q' = r.q /\ Continue(k, g3)
      BY <1>5, Zenon DEF Assign
    <3> HIDE DEF g1, g2, g3, r
    <3> QED BY <2>1, <3>1, <3>2
  <2> HIDE DEF r, f
  <2>3. Goes(k)
    BY <1>0, <2>0, <2>2, ContinueGoes
  <2>4. CASE q' = q
    BY <1>0, <2>0, <2>3, <2>4, GoesInv, SameQueue, KeepsGrows
  <2>5. CASE q' = r.q
    <3>1. Grows /\ q'.headed = q.headed /\ q'.offset = q.offset
      BY <2>1, <2>5 DEF Grows, Stays
    <3> QED BY <2>0, <2>1, <2>3, <2>5, <3>1, GoesInv
  <2> QED BY <2>2, <2>4, <2>5
<1> QED BY <1>1, <1>2, <1>3, <1>4, <1>5 DEF FetchStep

\* The header part of the invariant from its parts.
LEMMA FillsInv ==
  ASSUME HeaderTypes', header'.at = "fill", Filling', q'.headed \in Nat,
         (q.headed + Held + 1 <= header.from + q.proced)'
  PROVE  HeaderInv'
<1>1. Held' \in Nat
  <2>1. (proc.todo \in Nat /\ procCh \in Seq(Nat))'
    BY DEF HeaderTypes
  <2>2. (procCh # <<>> => procCh[1] \in Nat)'
    BY <2>1
  <2> QED BY <2>1, <2>2 DEF Held
<1>2. (header.from \in Nat)'
  BY DEF HeaderTypes
<1>3. (header.from + q.size <= Height + 1 /\ q.proced <= q.size /\ q.proced \in Nat /\ q.size \in Nat)'
  BY DEF Filling
<1>4. (q.headed + Held <= Height)'
  BY <1>1, <1>2, <1>3, QueueAssumption
<1> QED BY <1>4 DEF HeaderInv

\* A queue that satisfies QueueInv is well-formed.
LEMMA QueueNumbers ==
  ASSUME NEW x, QueueInv(x)
  PROVE  x.headed \in Nat /\ x.offset \in Nat /\ x.offset <= x.headed + 1
BY DEF QueueInv, WellFormed

\* How many headers are ready when a batch fits.
Ready(x, from) ==
  (IF x.unfilled \ {from} = {} THEN x.size ELSE Lowest(x.unfilled \ {from}) - x.from) - x.proced

LEMMA ReadyBounds ==
  ASSUME Filling, header.from \in Nat, NEW from
  PROVE  /\ Ready(q, from) \in Nat /\ q.proced + Ready(q, from) <= q.size
         /\ \A s \in q.unfilled \ {from} : s \in Nat /\ q.from + q.proced + Ready(q, from) <= s
                                           /\ q.from + q.proced <= s /\ s <= q.from + q.size
<1> DEFINE T == q.unfilled \ {from}
<1>1. /\ q.from \in Nat /\ q.size \in Nat /\ q.proced \in Nat /\ q.proced <= q.size
      /\ T \in SUBSET Nat
      /\ \A s \in T : q.from + q.proced <= s /\ s <= q.from + q.size
  BY DEF Filling
<1>2. CASE T = {}
  <2>1. Ready(q, from) = q.size - q.proced
    BY <1>2 DEF Ready
  <2> QED BY <1>1, <1>2, <2>1
<1>3. CASE T # {}
  <2>1. Lowest(T) \in T /\ \A m \in T : Lowest(T) <= m
    BY <1>1, <1>3, LowestIs
  <2>2. Ready(q, from) = Lowest(T) - q.from - q.proced
    BY <1>3 DEF Ready
  <2> HIDE DEF T
  <2>3. Lowest(T) \in Nat /\ q.from + q.proced <= Lowest(T) /\ Lowest(T) <= q.from + q.size
    BY <1>1, <2>1
  <2>4. Ready(q, from) \in Nat /\ q.proced + Ready(q, from) <= q.size
    BY <1>1, <2>2, <2>3
  <2>5. \A s \in T : s \in Nat /\ q.from + q.proced + Ready(q, from) <= s
    BY <1>1, <2>1, <2>2, <2>3
  <2> QED BY <1>1, <2>4, <2>5 DEF T
<1> QED BY <1>2, <1>3

\* A batch of headers arrives.
LEMMA DeliverHeadersInv ==
  ASSUME IInv, NEW p \in Peers, NEW fits \in BOOLEAN, DeliverHeaders(p, fits)
  PROVE  IInv' /\ Grows
<1> DEFINE room == procCh = <<>>
           d == DeliverBatch(q, p, fits, room)
           from == q.pend["header"][p][1]
           push == IF room THEN Ready(q, from) ELSE 0
<1>0. /\ HeaderInv /\ HeaderTypes /\ QueueInv(q)
      /\ DOMAIN fetch = Kinds /\ \A l \in Kinds : "at" \in DOMAIN fetch[l]
  BY DEF IInv, HeaderInv, HeaderTypes
<1>1. /\ q' = d.q /\ fetch["header"].at = "select"
      /\ procCh' = IF d.push > 0 THEN <<d.push>> ELSE procCh
      /\ fetch' = [fetch EXCEPT !["header"].wake = @ \/ (d.err = "none" /\ d.q.unfilled = {})]
      /\ UNCHANGED <<header, proc, chain>>
  BY DEF DeliverHeaders
<1>2. QueueInv(q') /\ Keeps(q, q')
  BY <1>0, <1>1, BatchInv
<1>3. /\ DOMAIN fetch' = Kinds /\ (\A l \in Kinds : "at" \in DOMAIN fetch'[l])
      /\ fetch'["header"].at = "select"
  <2> HIDE DEF d
  <2> QED BY <1>0, <1>1, KindNames
<1>4. Goes("header")
  BY <1>1, <1>3 DEF Goes
<1>5. \/ KeepsSkeleton(q, q') /\ d.push = 0
      \/ /\ q'.from = q.from /\ q'.size = q.size /\ q'.unfilled = q.unfilled \ {from}
         /\ q'.proced = q.proced + push /\ d.push = push
  <2>1. WellFormed(q)
    BY <1>0 DEF QueueInv
  <2> QED BY <1>1, <2>1 DEF DeliverBatch, KeepsSkeleton, Ready, WellFormed
<1> HIDE DEF d
<1>6. q'.headed = q.headed /\ q'.offset = q.offset /\ q.headed \in Nat
  BY <1>0, <1>2, QueueNumbers DEF Keeps
<1>7. CASE KeepsSkeleton(q, q') /\ d.push = 0
  BY <1>1, <1>2, <1>4, <1>6, <1>7, GoesInv, KeepsGrows
<1>8. CASE /\ q'.from = q.from /\ q'.size = q.size /\ q'.unfilled = q.unfilled \ {from}
           /\ q'.proced = q.proced + push /\ d.push = push
  <2>1. header.at = "fill" /\ header.from \in Nat
    BY <1>0, <1>1 DEF HeaderTypes
  <2>2. Filling /\ q.headed + Held + 1 <= header.from + q.proced
    BY <1>0, <2>1 DEF HeaderInv
  <2> HIDE DEF from
  <2>3. /\ push \in Nat /\ q.proced + push <= q.size
        /\ \A s \in q.unfilled \ {from} : s \in Nat /\ q.from + q.proced + push <= s /\ s <= q.from + q.size
    BY <2>1, <2>2, ReadyBounds DEF Filling
  <2>4. push > 0 => procCh = <<>>
    OBVIOUS
  <2> HIDE DEF push
  <2>5. Held' = Held + push
    <3>1. CASE push > 0
      BY <1>1, <1>8, <2>3, <2>4, <3>1, <1>0 DEF Held, HeaderTypes
    <3>2. CASE push = 0
      BY <1>0, <1>1, <1>8, <3>2, HeldNat DEF Held
    <3> QED BY <2>3, <3>1, <3>2
  <2>6. HeaderTypes'
    <3>1. procCh' \in Seq(Nat) /\ Len(procCh') <= 1
      BY <1>0, <1>1, <1>8, <2>3 DEF HeaderTypes
    <3> QED BY <1>0, <1>1, <1>3, <2>1, <3>1 DEF HeaderTypes
  <2>7. Filling'
    BY <1>1, <1>8, <2>1, <2>2, <2>3 DEF Filling
  <2>8. (q.headed + Held + 1 <= header.from + q.proced)'
    BY <1>0, <1>1, <1>6, <1>8, <2>1, <2>2, <2>3, <2>5, HeldNat DEF Filling
  <2>9. HeaderInv'
    BY <1>1, <1>6, <2>1, <2>6, <2>7, <2>8, FillsInv
  <2>10. (chain \in Nat /\ chain < q.offset)'
    BY <1>1, <1>6 DEF IInv
  <2> QED BY <1>2, <2>9, <2>10, KeepsGrows DEF IInv
<1> QED BY <1>5, <1>7, <1>8

\* Bodies or receipts arrive.
LEMMA DeliverPartInv ==
  ASSUME IInv, NEW k \in Parts, NEW p \in Peers, NEW answer, DeliverPart(k, p, answer)
  PROVE  IInv' /\ Grows
<1> DEFINE d == DeliverParts(q, k, p, answer)
<1>0. HeaderInv /\ QueueInv(q) /\ WellFormed(q) /\ k \in Kinds
  BY KindNames DEF IInv, QueueInv
<1>1. /\ q' = d.q /\ fetch[k].at = "select" /\ UNCHANGED <<procCh, proc, chain>>
      /\ \/ Return(k, "invalidChain")
         \/ fetch' = fetch /\ header' = header
  BY DEF DeliverPart
<1>2. PICK good \in SUBSET ToSet(q.pend[k][p]) : q' = Accepted(q, k, p, good)
  BY <1>1, DeliverAccepts
<1>3. /\ QueueInv(q') /\ Stays(q, q') /\ KeepsSkeleton(q, q')
      /\ \A l \in Parts : q.done[l] \subseteq q'.done[l]
  BY <1>0, <1>2, AcceptedInv
<1>5. Grows /\ q'.headed = q.headed /\ q'.offset = q.offset
  BY <1>3 DEF Stays, Grows
<1>6. CASE Return(k, "invalidChain")
  BY <1>0, <1>1, <1>3, <1>5, <1>6, ReturnGoes, GoesInv
<1>7. CASE fetch' = fetch /\ header' = header
  BY <1>0, <1>1, <1>3, <1>5, <1>7, StillGoes, GoesInv
<1> QED BY <1>1, <1>6, <1>7

LEMMA DeliveryInv ==
  ASSUME IInv, NEW k \in Kinds, NEW p \in Peers, Delivery(k, p)
  PROVE  IInv' /\ Grows
BY DeliverPartInv, DeliverHeadersInv DEF Delivery

-----------------------------------------------------------------------------
(* The steps that do not touch the queue, or only take a peer out of it. *)

\* Held headers do not become more, and fetchHeaders stays or is over.
LEMMA HeldLess ==
  ASSUME HeaderInv, HeaderTypes', q'.headed = q.headed, KeepsSkeleton(q, q'),
         q.headed \in Nat, Held' <= Held, header' = header \/ header'.at = "off"
  PROVE  HeaderInv'
<1>0. Held \in Nat /\ Held' \in Nat
  <2>1. (proc.todo \in Nat /\ procCh \in Seq(Nat))'
    BY DEF HeaderTypes
  <2>2. (procCh # <<>> => procCh[1] \in Nat)'
    BY <2>1
  <2> QED BY <2>1, <2>2, HeldNat DEF Held, HeaderInv
<1>1. (q.headed + Held <= Height)'
  BY <1>0, QueueAssumption DEF HeaderInv
<1>2. CASE header' = header
  <2>1. Filling => Filling'
    BY <1>2 DEF Filling, KeepsSkeleton
  <2>2. header.from \in Nat /\ (header.at = "fill" => q.proced \in Nat) /\ q'.proced = q.proced
    BY DEF HeaderInv, HeaderTypes, Filling, KeepsSkeleton
  <2>3. header'.at = "fill" => Filling' /\ (q.headed + Held + 1 <= header.from + q.proced)'
    BY <1>0, <1>2, <2>1, <2>2 DEF HeaderInv
  <2>4. header'.at \in {"skeleton", "tail", "push", "end"} =>
          (q.headed + Held + 1 <= header.from /\ header.from + header.rest <= Height + 1)'
    BY <1>0, <1>2, <2>2 DEF HeaderInv
  <2> QED BY <1>1, <2>3, <2>4 DEF HeaderInv
<1>3. CASE header'.at = "off"
  BY <1>1, <1>3 DEF HeaderInv
<1> QED BY <1>2, <1>3

LEMMA DropInv ==
  ASSUME IInv, NEW P \in SUBSET Peers, Unregister(P, q, "none"),
         UNCHANGED <<fetch, header, procCh, proc, chain>>
  PROVE  IInv' /\ Grows
<1>1. QueueInv(q) /\ Keeps(q, q) /\ KeepsSkeleton(q, q) /\ HeaderInv
  BY SameQueue DEF IInv
<1>2. /\ QueueInv(q') /\ KeepsSkeleton(q, q') /\ Grows
      /\ q'.headed = q.headed /\ q'.offset = q.offset
  BY <1>1, UnregisterInv
<1>3. Goes("none")
  BY <1>1, StillGoes
<1> QED BY <1>2, <1>3, GoesInv

\* Peers come and go, the synchronisation is cancelled or ends.
PeerStep ==
  \/ \E k \in Kinds, p \in Peers : Discard(k, p)
  \/ ImportFailed \/ EndContent \/ EndSync \/ Cancel \/ CancelMaster
  \/ \E p \in Peers : Disconnect(p) \/ Connect(p)

\* A new peer is no part of the rounds that are under way.
LEMMA ConnectKeeps ==
  ASSUME HeaderTypes, NEW p, Connect(p)
  PROVE  /\ DOMAIN fetch' = Kinds
         /\ \A k \in Kinds : DOMAIN fetch'[k] = DOMAIN fetch[k] /\ fetch'[k].at = fetch[k].at
<1>1. fetch' = [k \in Kinds |-> [fetch[k] EXCEPT !.present = @ \ {p}]]
  BY DEF Connect
<1>2. \A k \in Kinds : "at" \in DOMAIN fetch[k]
  BY DEF HeaderTypes
<1> QED BY <1>1, <1>2

LEMMA PeerStepInv ==
  ASSUME IInv, PeerStep
  PROVE  IInv' /\ Grows
<1>1. ASSUME NEW k \in Kinds, NEW p \in Peers, Discard(k, p) PROVE IInv' /\ Grows
  <2>1. UNCHANGED <<q, fetch, header, procCh, proc, chain>>
    BY <1>1 DEF Discard, workers
  <2> QED BY <2>1, UnchangedInv
<1>2. ASSUME ImportFailed \/ EndContent \/ Cancel \/ CancelMaster PROVE IInv' /\ Grows
  <2>1. UNCHANGED <<q, fetch, header, procCh, proc, chain>>
    BY <1>2 DEF ImportFailed, EndContent, Cancel, CancelMaster, workers
  <2> QED BY <2>1, UnchangedInv
<1>3. ASSUME NEW p \in Peers, Connect(p) PROVE IInv' /\ Grows
  <2>1. UNCHANGED <<q, header, procCh, proc, chain>>
    BY <1>3 DEF Connect, workers
  <2>2. Goes("none")
    <3>1. HeaderTypes
      BY DEF IInv, HeaderInv
    <3>2. DOMAIN fetch' = Kinds /\ \A k \in Kinds : DOMAIN fetch'[k] = DOMAIN fetch[k] /\ fetch'[k].at = fetch[k].at
      BY <1>3, <3>1, ConnectKeeps
    <3> QED BY <2>1, <3>1, <3>2, KindNames DEF Goes, HeaderTypes
  <2>3. QueueInv(q') /\ KeepsSkeleton(q, q') /\ q'.headed = q.headed /\ q'.offset = q.offset
    BY <2>1, SameQueue DEF IInv
  <2> QED BY <2>1, <2>2, <2>3, GoesInv, KeepsGrows
<1>4. ASSUME NEW p \in Peers, Disconnect(p) PROVE IInv' /\ Grows
  <2>1. Unregister({p}, q, "none") /\ UNCHANGED <<fetch, header, procCh, proc, chain>>
    BY <1>4 DEF Disconnect, workers
  <2> QED BY <2>1, DropInv
<1>5. ASSUME EndSync PROVE IInv' /\ Grows
  <2> DEFINE drop == IF sync.err \in Penalised /\ Master \in reg THEN {Master} ELSE {}
  <2>1. drop \in SUBSET Peers
    BY DownloaderAssumption
  <2>2. Unregister(drop, q, "none") /\ UNCHANGED <<fetch, header, procCh, proc, chain>>
    BY <1>5 DEF EndSync, workers
  <2> QED BY <2>1, <2>2, DropInv
<1> QED BY <1>1, <1>2, <1>3, <1>4, <1>5 DEF PeerStep

-----------------------------------------------------------------------------
(* The steps of fetchHeaders and of processHeaders. *)

\* The wake channels have no part in the invariant.
LEMMA WakeKeeps ==
  ASSUME HeaderTypes, WakeFetchers
  PROVE  /\ DOMAIN fetch' = Kinds /\ (\A k \in Kinds : "at" \in DOMAIN fetch'[k])
         /\ fetch'["header"] = fetch["header"]
BY KindNames DEF HeaderTypes, WakeFetchers

LEMMA NoHeadersIs == DOMAIN NoHeaders = {"at", "from", "rest", "skeleton"} /\ NoHeaders.at = "off"
                     /\ NoHeaders.from = 0 /\ NoHeaders.rest = 0
BY DEF NoHeaders

LEMMA HeaderTimeoutInv ==
  ASSUME IInv, HeaderTimeout
  PROVE  IInv' /\ Grows
<1>0. QueueInv(q) /\ Keeps(q, q) /\ KeepsSkeleton(q, q) /\ HeaderInv /\ HeaderTypes
  BY SameQueue DEF IInv, HeaderInv
<1>1. /\ header.at \in {"skeleton", "tail"} /\ Unregister({Master}, q, "none") /\ WakeFetchers
      /\ procCh' = (IF procCh = <<>> THEN <<0>> ELSE procCh)
      /\ header' = NoHeaders /\ UNCHANGED <<proc, chain>>
  BY DEF HeaderTimeout
<1>2. /\ QueueInv(q') /\ KeepsSkeleton(q, q') /\ Grows
      /\ q'.headed = q.headed /\ q'.offset = q.offset
  BY <1>0, <1>1, DownloaderAssumption, UnregisterInv
<1>3. /\ DOMAIN fetch' = Kinds /\ (\A k \in Kinds : "at" \in DOMAIN fetch'[k])
      /\ fetch'["header"].at = "off"
  BY <1>0, <1>1, WakeKeeps DEF HeaderTypes
<1>4. procCh' \in Seq(Nat) /\ Len(procCh') <= 1 /\ Held' <= Held
  BY <1>0, <1>1, HeldNat DEF HeaderTypes, Held
<1>5. HeaderTypes'
  BY <1>0, <1>1, <1>3, <1>4, NoHeadersIs DEF HeaderTypes
<1>6. HeaderInv'
  BY <1>0, <1>1, <1>2, <1>4, <1>5, HeldLess, NoHeadersIs, QueueNumbers
<1> QED BY <1>1, <1>2, <1>6 DEF IInv

\* count whole batches are not more than what is left.
LEMMA WholeBatches ==
  ASSUME NEW r \in Nat, NEW m \in Nat \ {0}, NEW count \in Nat, count <= r \div m
  PROVE  /\ count * m \in Nat /\ count * m <= r
         /\ \A i \in 0 .. count - 1 : i * m \in Nat /\ i * m <= count * m
<1> DEFINE d == r \div m
<1>1. d \in Nat /\ d * m <= r
  BY SMT
<1> HIDE DEF d
<1>2. count <= d
  BY DEF d
<1>3. \A a, b \in Nat : a <= b => a * m \in Nat /\ b * m \in Nat /\ a * m <= b * m
  <2> SUFFICES ASSUME NEW a \in Nat, NEW b \in Nat, a <= b
               PROVE  a * m \in Nat /\ b * m \in Nat /\ a * m <= b * m
    OBVIOUS
  <2>1. b = a + (b - a) /\ b - a \in Nat
    OBVIOUS
  <2>2. b * m = a * m + (b - a) * m /\ (b - a) * m \in Nat /\ a * m \in Nat /\ b * m \in Nat
    BY <2>1
  <2> QED BY <2>2
<1>4. count * m \in Nat /\ d * m \in Nat /\ count * m <= d * m
  BY <1>1, <1>2, <1>3
<1>5. \A i \in 0 .. count - 1 : i * m \in Nat /\ i * m <= count * m
  <2> TAKE i \in 0 .. count - 1
  <2>1. i \in Nat /\ i <= count
    OBVIOUS
  <2> QED BY <2>1, <1>3
<1>6. count * m <= r
  BY <1>1, <1>4
<1> QED BY <1>4, <1>5, <1>6

\* A skeleton arrives.
LEMMA SkeletonStep ==
  ASSUME IInv, NEW count \in 0 .. MaxSkeleton, Skeleton(count)
  PROVE  IInv' /\ Grows
<1>0. /\ QueueInv(q) /\ HeaderInv /\ HeaderTypes /\ WellFormed(q) /\ q.headed \in Nat
      /\ KeepsSkeleton(q, q) /\ Keeps(q, q)
  BY QueueNumbers, SameQueue DEF IInv, HeaderInv, QueueInv
<1>1. header.at = "skeleton" /\ UNCHANGED <<procCh, proc, chain>> /\ count \in Nat
  BY DEF Skeleton
<1>2. /\ header.from \in Nat /\ q.headed + Held + 1 <= header.from
      /\ header.from + header.rest <= Height + 1 /\ header.rest \in Nat
      /\ DOMAIN header = {"at", "from", "rest", "skeleton"}
      /\ fetch["header"].at = "off"
  BY <1>0, <1>1 DEF HeaderInv, HeaderTypes
<1>3. Held' = Held
  BY <1>1 DEF Held
<1>4. CASE count = 0
  <2>1. header' = [header EXCEPT !.at = "tail", !.skeleton = FALSE] /\ q' = q /\ fetch' = fetch
    BY <1>4 DEF Skeleton
  <2>2. header'.at = "tail" /\ header'.from = header.from /\ header'.rest = header.rest
        /\ DOMAIN header' = {"at", "from", "rest", "skeleton"}
    BY <1>2, <2>1
  <2>3. HeaderTypes'
    BY <1>0, <1>1, <1>2, <2>1, <2>2 DEF HeaderTypes
  <2>4. HeaderInv'
    BY <1>0, <1>2, <1>3, <2>1, <2>2, <2>3 DEF HeaderInv
  <2> QED BY <1>0, <1>1, <2>1, <2>4, KeepsGrows DEF IInv
<1>5. CASE count # 0
  <2> DEFINE r == Height + 1 - header.from
             size == count * MaxHeaderFetch
             starts == {header.from + i * MaxHeaderFetch : i \in 0 .. count - 1}
  <2>1. /\ header' = [header EXCEPT !.at = "fill"] /\ q' = ScheduleSkeleton(q, header.from, count)
        /\ fetch' = [fetch EXCEPT !["header"] = AtSelect(Off)]
        /\ count <= r \div MaxHeaderFetch
    BY <1>5 DEF Skeleton, Remaining
  <2>2. r \in Nat /\ MaxHeaderFetch \in Nat \ {0}
    BY <1>2, QueueAssumption
  <2>3. /\ size \in Nat /\ size <= r
        /\ \A i \in 0 .. count - 1 : i * MaxHeaderFetch \in Nat /\ i * MaxHeaderFetch <= size
    BY <1>1, <2>1, <2>2, WholeBatches
  <2>4. QueueInv(q') /\ Keeps(q, q')
    BY <1>0, <2>1, SkeletonInv
  <2>5. q'.from = header.from /\ q'.size = size /\ q'.unfilled = starts /\ q'.proced = 0
    <3> HIDE DEF size, starts
    <3>1. size = count * MaxHeaderFetch /\ starts = {header.from + i * MaxHeaderFetch : i \in 0 .. count - 1}
      BY DEF size, starts
    <3> QED BY <1>0, <2>1, <3>1 DEF ScheduleSkeleton, WellFormed
  <2> HIDE DEF size
  <2>6. \A s \in starts : s \in Nat /\ header.from <= s /\ s <= header.from + size
    BY <1>2, <2>3
  <2> HIDE DEF starts
  <2>7. header'.at = "fill" /\ header'.from = header.from /\ header'.rest = header.rest
        /\ DOMAIN header' = {"at", "from", "rest", "skeleton"}
    BY <1>2, <2>1
  <2>8. DOMAIN fetch' = Kinds /\ \A k \in Kinds : "at" \in DOMAIN fetch'[k]
    BY <1>0, <2>1, OffAt DEF HeaderTypes
  <2>9. HeaderTypes'
    BY <1>0, <1>1, <1>2, <2>7, <2>8 DEF HeaderTypes
  <2>10. Filling'
    <3>1. header.from + size <= Height + 1
      BY <1>2, <2>2, <2>3, QueueAssumption
    <3>2. starts \subseteq Nat /\ \A s \in starts : header.from + 0 <= s /\ s <= header.from + size
      BY <1>2, <2>6
    <3>3. (q.from = header.from /\ q.size \in Nat /\ q.proced \in Nat)'
      BY <2>3, <2>5, <2>7
    <3>4. (header.from + q.size <= Height + 1 /\ q.proced <= q.size)'
      BY <2>3, <2>5, <2>7, <3>1
    <3>5. (q.unfilled \subseteq Nat)'
      BY <2>5, <3>2
    <3>6. (\A s \in q.unfilled : q.from + q.proced <= s /\ s <= q.from + q.size)'
      BY <2>5, <3>2
    <3> QED BY <3>3, <3>4, <3>5, <3>6 DEF Filling
  <2>11. q'.headed = q.headed /\ q'.offset = q.offset
    BY <2>4 DEF Keeps
  <2>12. (q.headed + Held + 1 <= header.from + q.proced)'
    BY <1>2, <1>3, <2>5, <2>7, <2>11
  <2>13. HeaderInv'
    BY <1>0, <2>7, <2>9, <2>10, <2>11, <2>12, FillsInv
  <2> QED BY <1>1, <2>4, <2>11, <2>13, KeepsGrows DEF IInv
<1> QED BY <1>4, <1>5

\* Headers above the skeleton, and their way to processHeaders.
LEMMA HeaderStepInv ==
  ASSUME IInv, HeaderStep
  PROVE  IInv' /\ Grows
<1>0. /\ QueueInv(q) /\ HeaderInv /\ HeaderTypes /\ q.headed \in Nat
      /\ KeepsSkeleton(q, q) /\ Keeps(q, q) /\ Held \in Nat
  BY QueueNumbers, SameQueue, HeldNat DEF IInv, HeaderInv
<1>1. ASSUME header.at \in {"skeleton", "tail", "push", "end"}
      PROVE  /\ header.from \in Nat /\ q.headed + Held + 1 <= header.from
             /\ header.from + header.rest <= Height + 1 /\ header.rest \in Nat
             /\ DOMAIN header = {"at", "from", "rest", "skeleton"}
             /\ fetch["header"].at = "off"
  BY <1>0, <1>1 DEF HeaderInv, HeaderTypes
<1>2. ASSUME NEW count \in 0 .. MaxHeaderFetch, TailHeaders(count) PROVE IInv' /\ Grows
  <2>1. header.at = "tail" /\ UNCHANGED <<q, fetch, procCh, proc, chain>>
    BY <1>2 DEF TailHeaders
  <2>2. /\ DOMAIN header' = {"at", "from", "rest", "skeleton"} /\ header'.at \in {"end", "push"}
        /\ header'.from = header.from /\ header'.rest \in Nat
        /\ header'.from + header'.rest <= Height + 1
    BY <1>1, <1>2, <2>1, QueueAssumption DEF TailHeaders, Remaining
  <2>3. HeaderTypes' /\ Held' = Held
    BY <1>0, <1>1, <2>1, <2>2 DEF HeaderTypes, Held
  <2>4. HeaderInv'
    BY <1>0, <1>1, <2>1, <2>2, <2>3 DEF HeaderInv
  <2> QED BY <1>0, <2>1, <2>4, KeepsGrows DEF IInv
<1>3. CASE PushHeaders
  <2>1. /\ header.at = "push" /\ UNCHANGED <<q, fetch, proc, chain>>
        /\ header.rest > 0 => procCh = <<>>
        /\ procCh' = IF header.rest > 0 THEN <<header.rest>> ELSE procCh
    BY <1>3 DEF PushHeaders
  <2>2. /\ DOMAIN header' = {"at", "from", "rest", "skeleton"} /\ header'.at \in {"skeleton", "tail"}
        /\ header'.from = header.from + header.rest /\ header'.rest = 0
    BY <1>1, <1>3, <2>1 DEF PushHeaders
  <2>3. Held' = Held + header.rest
    BY <1>0, <1>1, <2>1 DEF Held, HeaderTypes
  <2>4. procCh' \in Seq(Nat) /\ Len(procCh') <= 1
    BY <1>0, <1>1, <2>1 DEF HeaderTypes
  <2>5. HeaderTypes'
    BY <1>0, <1>1, <2>1, <2>2, <2>4 DEF HeaderTypes
  <2>6. /\ (q.headed + Held + 1 <= header.from)' /\ (header.from + header.rest <= Height + 1)'
        /\ (q.headed + Held <= Height)'
    BY <1>0, <1>1, <2>1, <2>2, <2>3, QueueAssumption
  <2>7. HeaderInv'
    BY <2>2, <2>5, <2>6 DEF HeaderInv
  <2> QED BY <1>0, <2>1, <2>7, KeepsGrows DEF IInv
<1>4. CASE EndHeaders
  <2>1. /\ header.at = "end" /\ UNCHANGED <<q, fetch, proc, chain>> /\ procCh = <<>>
        /\ procCh' = <<0>> /\ header' = [header EXCEPT !.at = "off"]
    BY <1>4 DEF EndHeaders
  <2>2. procCh' \in Seq(Nat) /\ Len(procCh') <= 1 /\ Held' <= Held /\ header'.at = "off"
    BY <1>0, <1>1, <2>1 DEF HeaderTypes, Held
  <2>3. HeaderTypes'
    BY <1>0, <1>1, <2>1, <2>2 DEF HeaderTypes
  <2>4. HeaderInv'
    BY <1>0, <2>1, <2>2, <2>3, HeldLess
  <2> QED BY <1>0, <2>1, <2>4, KeepsGrows DEF IInv
<1> QED BY <1>2, <1>3, <1>4, SkeletonStep DEF HeaderStep

\* A chunk of headers is scheduled, in the view of the abstract specification.
Extends ==
  /\ q'.mode = q.mode /\ q'.offset = q.offset /\ q'.done = q.done
  /\ q'.headed \in q.headed .. Height

\* A sum that did not grow keeps its bound.
LEMMA BoundKept ==
  ASSUME NEW m \in Nat, NEW n \in Nat, NEW b \in Nat, m <= n, n + 1 <= b
  PROVE  m + 1 <= b
OBVIOUS

LEMMA ScheduledInv ==
  ASSUME IInv, NEW count \in Nat, count <= proc.todo, q' = Schedule(q, count),
         UNCHANGED <<fetch, header, procCh, chain>>,
         DOMAIN proc' = {"at", "todo"}, proc'.todo \in Nat, proc'.todo <= proc.todo - count,
         proc'.at # "busy" => proc'.todo = 0
  PROVE  IInv' /\ Extends
<1>0. /\ QueueInv(q) /\ WellFormed(q) /\ HeaderInv /\ HeaderTypes /\ q.headed \in Nat /\ Held \in Nat
      /\ proc.todo \in Nat /\ (procCh # <<>> => procCh[1] \in Nat)
  BY QueueNumbers, HeldNat DEF IInv, HeaderInv, QueueInv, HeaderTypes
<1>1. QueueInv(q')
  BY <1>0, ScheduleInv
<1>2. /\ KeepsSkeleton(q, q') /\ q'.mode = q.mode /\ q'.offset = q.offset /\ q'.done = q.done
      /\ q'.headed = q.headed + count
  BY <1>0 DEF WellFormed, Schedule, KeepsSkeleton
<1>3. Held' \in Nat /\ Held' <= Held - count
  BY <1>0 DEF Held
<1>4. HeaderTypes'
  BY <1>0 DEF HeaderTypes
<1>5. q'.headed + Held' <= q.headed + Held
  BY ONLY <1>0, <1>2, <1>3, count \in Nat
<1>6. HeaderInv'
  <2>0. /\ q'.headed + Held' \in Nat /\ q.headed + Held \in Nat
        /\ q'.headed + Held' <= q.headed + Held
    <3>1. q'.headed \in Nat /\ Held' \in Nat /\ q.headed \in Nat /\ Held \in Nat
      BY <1>0, <1>2, <1>3
    <3> QED BY ONLY <1>5, <3>1
  <2>1. Filling => Filling'
    BY <1>2 DEF Filling, KeepsSkeleton
  <2>2. q'.proced = q.proced /\ header.from \in Nat /\ (header.at = "fill" => q.proced \in Nat)
    BY <1>0, <1>2 DEF KeepsSkeleton, HeaderTypes, HeaderInv, Filling
  <2>3. q.headed + Held <= Height
    BY <1>0 DEF HeaderInv
  <2>4. (q.headed + Held <= Height)'
    BY ONLY <2>0, <2>3, QueueAssumption
  <2>5. header'.at = "fill" => Filling' /\ (q.headed + Held + 1 <= header.from + q.proced)'
    <3>1. ASSUME header.at = "fill"
          PROVE  Filling' /\ (q.headed + Held + 1 <= header.from + q.proced)'
      <4>1. Filling /\ q.headed + Held + 1 <= header.from + q.proced /\ q.proced \in Nat
        BY <1>0, <2>2, <3>1 DEF HeaderInv
      <4> DEFINE b == header.from + q.proced
      <4>2. q'.headed + Held' + 1 <= b
        <5>1. b \in Nat
          BY ONLY <2>2, <4>1
        <5> HIDE DEF b
        <5> QED BY ONLY <2>0, <4>1, <5>1, BoundKept DEF b
      <4>3. header'.from + q'.proced = header.from + q.proced
        BY <2>2
      <4> QED BY <2>1, <4>1, <4>2, <4>3
    <3>2. header'.at = header.at
      OBVIOUS
    <3> QED BY <3>1, <3>2
  <2>6. header'.at \in {"skeleton", "tail", "push", "end"} =>
          (q.headed + Held + 1 <= header.from /\ header.from + header.rest <= Height + 1)'
    <3> SUFFICES ASSUME header.at \in {"skeleton", "tail", "push", "end"}
                 PROVE  q'.headed + Held' + 1 <= header.from /\ header.from + header.rest <= Height + 1
      OBVIOUS
    <3>1. q.headed + Held + 1 <= header.from /\ header.from + header.rest <= Height + 1
      BY <1>0 DEF HeaderInv
    <3> QED BY ONLY <2>0, <2>2, <3>1
  <2> QED BY <1>4, <2>4, <2>5, <2>6 DEF HeaderInv
<1>7. Extends
  <2>1. q.headed + Held <= Height /\ count <= Held
    BY <1>0, <1>3 DEF HeaderInv
  <2> QED BY <1>0, <1>2, <2>1, QueueAssumption DEF Extends
<1> QED BY <1>1, <1>2, <1>6, <1>7 DEF IInv

LEMMA ChunkIs ==
  ASSUME proc.todo \in Nat
  PROVE  Chunk \in Nat /\ Chunk <= proc.todo
BY DownloaderAssumption DEF Chunk

\* A whole chunk is scheduled, or its front before the processor gives up.
ScheduleStep == ScheduleChunk \/ \E count \in 0 .. MaxChunk : StaleHeaders(count)

LEMMA ScheduleChunkInv ==
  ASSUME IInv, ScheduleStep
  PROVE  IInv' /\ Extends
<1>0. proc.todo \in Nat /\ DOMAIN proc = {"at", "todo"} /\ Chunk \in Nat /\ Chunk <= proc.todo
  BY ChunkIs DEF IInv, HeaderInv, HeaderTypes
<1>1. CASE ScheduleChunk
  <2>1. /\ q' = Schedule(q, Chunk) /\ UNCHANGED <<fetch, header, procCh, chain>>
        /\ proc' = [proc EXCEPT !.todo = @ - Chunk, !.at = IF proc.todo = Chunk THEN "wait" ELSE "busy"]
    BY <1>1 DEF ScheduleChunk
  <2>2. /\ DOMAIN proc' = {"at", "todo"} /\ proc'.todo = proc.todo - Chunk
        /\ proc'.at # "busy" => proc'.todo = 0
    BY <1>0, <2>1
  <2> QED BY <1>0, <2>1, <2>2, ScheduledInv
<1>2. ASSUME NEW count \in 0 .. MaxChunk, StaleHeaders(count) PROVE IInv' /\ Extends
  <2>1. /\ q' = Schedule(q, count) /\ UNCHANGED <<fetch, header, procCh, chain>> /\ count < Chunk
        /\ proc' = [at |-> "off", todo |-> 0]
    BY <1>2 DEF StaleHeaders
  <2>2. count \in Nat /\ count <= proc.todo
    BY <1>0, <2>1
  <2>3. /\ DOMAIN proc' = {"at", "todo"} /\ proc'.todo = 0 /\ proc'.todo <= proc.todo - count
    BY <1>0, <2>1, <2>2
  <2> QED BY <2>1, <2>2, <2>3, ScheduledInv
<1> QED BY <1>1, <1>2 DEF ScheduleStep

\* The other steps of processHeaders, and the return of what was cancelled.
HandStep ==
  \/ TakeHeaders \/ BadHeader
  \/ \E err \in {"none", "stalling"} : FinishHeaders(err)
  \/ \E err \in {"cancelled", "invalidChain"} : Quit(err)

LEMMA HandStepInv ==
  ASSUME IInv, HandStep
  PROVE  IInv' /\ Grows
<1>0. /\ QueueInv(q) /\ HeaderInv /\ HeaderTypes /\ q.headed \in Nat
      /\ KeepsSkeleton(q, q) /\ Keeps(q, q) /\ Held \in Nat
      /\ proc.todo \in Nat /\ DOMAIN proc = {"at", "todo"} /\ (proc.at # "busy" => proc.todo = 0)
      /\ procCh \in Seq(Nat) /\ Len(procCh) <= 1 /\ (procCh # <<>> => procCh[1] \in Nat)
  BY QueueNumbers, SameQueue, HeldNat DEF IInv, HeaderInv, HeaderTypes
<1>1. q' = q /\ chain' = chain
  BY DEF HandStep, TakeHeaders, BadHeader, FinishHeaders, Quit
<1>2. SUFFICES HeaderTypes' /\ Held' <= Held /\ (header' = header \/ header'.at = "off")
  BY <1>0, <1>1, HeldLess, KeepsGrows DEF IInv
<1>3. CASE TakeHeaders
  <2>1. /\ UNCHANGED <<fetch, header>> /\ proc.at = "wait" /\ procCh # <<>>
        /\ procCh' = <<>> /\ proc' = [proc EXCEPT !.at = "busy", !.todo = procCh[1]]
    BY <1>3 DEF TakeHeaders
  <2>2. proc'.todo = procCh[1] /\ DOMAIN proc' = {"at", "todo"} /\ proc'.at = "busy"
    BY <1>0, <2>1
  <2>3. Held' = Held
    BY <1>0, <2>1, <2>2 DEF Held
  <2>4. procCh' \in Seq(Nat) /\ Len(procCh') <= 1
    BY <2>1
  <2>5. HeaderTypes'
    BY <1>0, <2>1, <2>2, <2>4 DEF HeaderTypes
  <2> QED BY <1>0, <2>1, <2>3, <2>5
<1>4. CASE BadHeader
  <2>1. UNCHANGED <<fetch, header, procCh>> /\ proc' = [at |-> "off", todo |-> 0]
    BY <1>4 DEF BadHeader
  <2>2. HeaderTypes' /\ Held' <= Held
    BY <1>0, <2>1 DEF HeaderTypes, Held
  <2> QED BY <2>1, <2>2
<1>5. ASSUME NEW err, FinishHeaders(err)
      PROVE HeaderTypes' /\ Held' <= Held /\ (header' = header \/ header'.at = "off")
  <2>1. /\ header' = header /\ WakeFetchers /\ procCh = <<0>> /\ procCh' = <<>>
        /\ proc' = [proc EXCEPT !.at = "off"] /\ proc.at = "wait"
    BY <1>5 DEF FinishHeaders
  <2>2. proc'.todo = proc.todo /\ DOMAIN proc' = {"at", "todo"} /\ proc'.at = "off"
    BY <1>0, <2>1
  <2>3. Held' <= Held
    BY <1>0, <2>1, <2>2 DEF Held
  <2>4. procCh' \in Seq(Nat) /\ Len(procCh') <= 1
    BY <2>1
  <2>5. HeaderTypes'
    BY <1>0, <2>1, <2>2, <2>4, WakeKeeps DEF HeaderTypes
  <2> QED BY <2>1, <2>3, <2>5
<1>6. ASSUME NEW err, Quit(err)
      PROVE HeaderTypes' /\ Held' <= Held /\ (header' = header \/ header'.at = "off")
  <2> DEFINE C == Cancelling
  <2>1. /\ procCh' = procCh
        /\ fetch' = [k \in Kinds |-> IF k \in C \/ (k = "header" /\ "headers" \in C)
                                     THEN Off ELSE fetch[k]]
        /\ proc' = IF "process" \in C THEN [at |-> "off", todo |-> 0] ELSE proc
        /\ header' = IF "headers" \in C THEN NoHeaders ELSE header
    BY <1>6 DEF Quit
  <2>2. "header" \notin C
    BY DEF Cancelling, Parts
  <2> HIDE DEF C
  <2>3. DOMAIN fetch' = Kinds /\ \A k \in Kinds : "at" \in DOMAIN fetch'[k]
    BY <1>0, <2>1, OffAt DEF HeaderTypes
  <2>4. /\ "headers" \in C => fetch'["header"].at = "off"
        /\ "headers" \notin C => fetch'["header"] = fetch["header"]
    BY <2>1, <2>2, OffAt, KindNames
  <2>5. DOMAIN proc' = {"at", "todo"} /\ proc'.todo \in Nat /\ proc'.todo <= proc.todo
        /\ (proc'.at # "busy" => proc'.todo = 0)
    BY <1>0, <2>1
  <2>6. Held' <= Held
    BY <1>0, <2>1, <2>5 DEF Held
  <2>7. HeaderTypes'
    BY <1>0, <2>1, <2>3, <2>4, <2>5, NoHeadersIs DEF HeaderTypes
  <2> QED BY <2>1, <2>6, <2>7, NoHeadersIs
<1> QED BY <1>3, <1>4, <1>5, <1>6 DEF HandStep

-----------------------------------------------------------------------------
(* Blocks leave the queue; a new synchronisation. *)

\* Finished blocks leave, in the view of the abstract specification.
Leaves(count) ==
  /\ count \in Nat \ {0}
  /\ q'.mode = q.mode /\ q'.headed = q.headed /\ q'.offset = q.offset + count
  /\ \A n \in q.offset .. q.offset + count - 1 : \A k \in PartsOf(q.mode) : n \in q.done[k]
  /\ \A k \in Parts : q'.done[k] = q.done[k] \ (q.offset .. q.offset + count - 1)

LEMMA TakeContentInv ==
  ASSUME IInv, NEW limit \in Limits, NEW upto, TakeContent(limit, upto)
  PROVE  IInv' /\ \E count : Leaves(count)
<1> DEFINE ready == CountProcessable(q)
           count == IF ready < MaxResults THEN ready ELSE MaxResults
<1>0. /\ QueueInv(q) /\ WellFormed(q) /\ HeaderInv /\ HeaderTypes /\ q.headed \in Nat /\ q.offset \in Nat
      /\ chain \in Nat /\ chain < q.offset
  BY QueueNumbers DEF IInv, HeaderInv, QueueInv
<1>1. /\ ready > 0 /\ upto \in q.offset - 1 .. q.offset + count - 1
      /\ q' = TakeResults(q, count, limit) /\ chain' = upto
      /\ UNCHANGED <<fetch, header, procCh, proc>>
  BY DEF TakeContent
<1>2. ready \in Nat
  BY <1>0, ProcessableNat
<1>3. count \in Nat \ {0} /\ count <= CountProcessable(q)
  BY <1>1, <1>2, QueueAssumption
<1> HIDE DEF ready, count
<1>4. QueueInv(q')
  BY <1>0, <1>1, <1>3, TakeInv
<1>5. \A n \in q.offset .. q.offset + count - 1 : \A k \in PartsOf(q.mode) : n \in q.done[k]
  BY <1>0, <1>3, ProcessableDone
<1>6. /\ KeepsSkeleton(q, q') /\ q'.mode = q.mode /\ q'.offset = q.offset + count
      /\ q'.headed = q.headed
      /\ \A k \in Parts : q'.done[k] = q.done[k] \ (q.offset .. q.offset + count - 1)
  <2> DEFINE taken == q.offset .. q.offset + count - 1
  <2>1. taken = q.offset .. q.offset + count - 1
    OBVIOUS
  <2> HIDE DEF taken
  <2>2. /\ KeepsSkeleton(q, q') /\ q'.mode = q.mode /\ q'.offset = q.offset + count
        /\ q'.headed = q.headed /\ \A k \in Parts : q'.done[k] = q.done[k] \ taken
    BY <1>0, <1>1, <2>1 DEF WellFormed, TakeResults, KeepsSkeleton
  <2> QED BY <2>1, <2>2
<1>7. Leaves(count)
  BY <1>3, <1>5, <1>6 DEF Leaves
<1>8. HeaderTypes' /\ Held' <= Held /\ header' = header
  BY <1>0, <1>1, HeldNat DEF HeaderTypes, Held
<1>9. HeaderInv'
  BY <1>0, <1>6, <1>8, HeldLess
<1>10. (chain \in Nat /\ chain < q.offset)'
  BY <1>0, <1>1, <1>3, <1>6
<1> QED BY <1>4, <1>7, <1>9, <1>10 DEF IInv

\* An empty queue for the blocks above x, in the view of the abstract specification.
Restarts ==
  /\ q'.mode \in {"full", "fast"} /\ q'.headed = chain /\ q'.offset = chain + 1
  /\ \A k \in Parts : q'.done[k] = {}

LEMMA FreshFields ==
  ASSUME NEW mode, NEW offset, NEW limit, NEW y, y = FreshQueue(mode, offset, limit)
  PROVE  y.mode = mode /\ y.headed = offset - 1 /\ y.offset = offset /\ \A k \in Parts : y.done[k] = {}
BY DEF FreshQueue

LEMMA StartInv ==
  ASSUME IInv, NEW mode \in Modes, Start(mode)
  PROVE  IInv' /\ Restarts
<1>0. /\ chain \in Nat /\ q.limit \in 1 .. CacheSize /\ mode \in {"full", "fast"}
  BY DownloaderAssumption DEF IInv, QueueInv, WellFormed
<1>1. /\ chain < Height /\ q' = FreshQueue(mode, chain + 1, q.limit)
      /\ fetch' = [k \in Kinds |-> IF k \in Parts THEN AtSelect(Off) ELSE Off]
      /\ header' = [at |-> "skeleton", from |-> chain + 1, rest |-> 0, skeleton |-> TRUE]
      /\ procCh' = <<>> /\ proc' = [at |-> "wait", todo |-> 0] /\ chain' = chain
  BY DEF Start, Prepare
<1>2. QueueInv(q')
  BY <1>0, <1>1, FreshInv
<1>3. /\ q'.mode = mode /\ q'.headed = chain /\ q'.offset = chain + 1
      /\ \A k \in Parts : q'.done[k] = {}
  BY <1>0, <1>1, FreshFields
<1>4. DOMAIN fetch' = Kinds /\ (\A k \in Kinds : "at" \in DOMAIN fetch'[k]) /\ fetch'["header"].at = "off"
  BY <1>1, OffAt, KindNames
<1>5. HeaderTypes'
  BY <1>0, <1>1, <1>4 DEF HeaderTypes
<1>6. Held' = 0
  BY <1>1 DEF Held
<1>7. header'.at = "skeleton" /\ header'.from = chain + 1 /\ header'.rest = 0
  BY <1>1
<1>8. HeaderInv'
  BY <1>0, <1>1, <1>3, <1>5, <1>6, <1>7, QueueAssumption DEF HeaderInv
<1> QED BY <1>0, <1>1, <1>2, <1>3, <1>8 DEF IInv, Restarts

LEMMA InitInv == Init => IInv
<1> SUFFICES ASSUME Init PROVE IInv
  OBVIOUS
<1>1. PICK mode \in Modes : q = FreshQueue(mode, 1, CacheSize)
  BY DEF Init
<1>2. mode \in {"full", "fast"} /\ CacheSize \in 1 .. CacheSize /\ 1 \in Nat \ {0}
  BY DownloaderAssumption, QueueAssumption
<1>3. QueueInv(q)
  BY <1>1, <1>2, FreshInv
<1>4. q.headed = 0 /\ q.offset = 1
  BY <1>1, FreshFields
<1>5. /\ fetch = [k \in Kinds |-> Off] /\ header = NoHeaders /\ procCh = <<>>
      /\ proc = [at |-> "off", todo |-> 0] /\ chain = 0
  BY DEF Init
<1>6. HeaderTypes /\ Held = 0
  BY <1>5, OffAt, NoHeadersIs, KindNames DEF HeaderTypes, Held
<1>7. HeaderInv
  BY <1>4, <1>5, <1>6, NoHeadersIs, QueueAssumption DEF HeaderInv
<1> QED BY <1>3, <1>4, <1>5, <1>7 DEF IInv

-----------------------------------------------------------------------------
(* The theorems about the queue. *)

\* Every step keeps the invariant and is, for a reader who only sees the headers,
\* the finished parts and the offset, one of four.
LEMMA NextInv ==
  ASSUME IInv, Next
  PROVE  IInv' /\ (Grows \/ Extends \/ (\E count : Leaves(count)) \/ Restarts)
<1>1. ASSUME NEW k \in Kinds, FetchStep(k) PROVE IInv' /\ Grows
  BY <1>1, FetchStepInv
<1>2. ASSUME NEW k \in Kinds, NEW p \in Peers, Delivery(k, p) PROVE IInv' /\ Grows
  BY <1>2, DeliveryInv
<1>3. ASSUME PeerStep PROVE IInv' /\ Grows
  BY <1>3, PeerStepInv
<1>4. ASSUME HeaderStep \/ HeaderTimeout PROVE IInv' /\ Grows
  BY <1>4, HeaderStepInv, HeaderTimeoutInv
<1>5. ASSUME HandStep PROVE IInv' /\ Grows
  BY <1>5, HandStepInv
<1>6. ASSUME ScheduleStep PROVE IInv' /\ Extends
  BY <1>6, ScheduleChunkInv
<1>7. ASSUME NEW limit \in Limits, NEW upto, TakeContent(limit, upto)
      PROVE  IInv' /\ \E count : Leaves(count)
  BY <1>7, TakeContentInv
<1>8. ASSUME NEW mode \in Modes, Start(mode) PROVE IInv' /\ Restarts
  BY <1>8, StartInv
<1>9. \/ \E k \in Kinds : FetchStep(k)
      \/ \E k \in Kinds, p \in Peers : Delivery(k, p)
      \/ PeerStep \/ HeaderStep \/ HeaderTimeout \/ HandStep \/ ScheduleStep
      \/ \E limit \in Limits : \E upto : TakeContent(limit, upto)
      \/ \E mode \in Modes : Start(mode)
  BY Zenon DEF Next, PeerStep, HandStep, ScheduleStep, ProcessStep, ContentStep
<1> QED BY <1>1, <1>2, <1>3, <1>4, <1>5, <1>6, <1>7, <1>8, <1>9, Zenon

LEMMA StutterInv ==
  ASSUME IInv, UNCHANGED vars
  PROVE  IInv' /\ Grows
<1>1. UNCHANGED <<q, fetch, header, procCh, proc, chain>>
  BY DEF vars, workers
<1> QED BY <1>1, UnchangedInv

\* The result cache is always a front of the scheduled blocks that covers every
\* finished part and every open request, each missing part is in one place, and
\* no header above the chain is scheduled (reserveHeaders, deliver, expire,
\* Revoke, Schedule, Results, ScheduleSkeleton, DeliverHeaders).
THEOREM Invariant == Spec => []IInv
<1>1. Init => IInv
  BY InitInv
<1>2. IInv /\ [Next]_vars => IInv'
  BY NextInv, StutterInv
<1> QED BY <1>1, <1>2, PTL DEF Spec

\* No part of a block is lost or fetched twice at once, whatever the peers do,
\* for every chain, peer set, cache size and limit (reserveHeaders, deliver,
\* expire, Revoke).
THEOREM PartsKept == Spec => []PartsConserved
<1>1. IInv => PartsConserved
  <2> SUFFICES ASSUME IInv, NEW k \in PartsOf(q.mode)
               PROVE  /\ q.tasks[k] \cup UNION {ToSet(q.pend[k][p]) : p \in Peers} = Missing(k)
                      /\ \A p \in Peers :
                           /\ q.tasks[k] \cap ToSet(q.pend[k][p]) = {}
                           /\ \A r \in Peers \ {p} :
                                ToSet(q.pend[k][p]) \cap ToSet(q.pend[k][r]) = {}
                      /\ \A n \in DOMAIN q.cache :
                           q.cache[n] = Cardinality({l \in PartsOf(q.mode) : n \notin q.done[l]})
    BY DEF PartsConserved
  <2>1. KindConserved(q, k) /\ Cached(q)
    BY DEF IInv, QueueInv
  <2>2. q.tasks[k] \cup UNION {ToSet(q.pend[k][p]) : p \in Peers} = Missing(k)
    BY <2>1, Zenon DEF KindConserved, Asked, Missing
  <2>3. \A p \in Peers : /\ q.tasks[k] \cap ToSet(q.pend[k][p]) = {}
                         /\ \A r \in Peers \ {p} :
                              ToSet(q.pend[k][p]) \cap ToSet(q.pend[k][r]) = {}
    BY <2>1, Zenon DEF KindConserved
  <2>4. \A n \in DOMAIN q.cache :
          q.cache[n] = Cardinality({l \in PartsOf(q.mode) : n \notin q.done[l]})
    BY <2>1, Zenon DEF Cached, MissingParts
  <2> QED BY <2>2, <2>3, <2>4
<1> QED BY <1>1, Invariant, PTL

\* Whatever a peer is asked for or sends, its task has a slot in the result cache.
SlotsSuffice ==
  /\ \A k \in Kinds, p \in Peers, count \in Counts : ~Reserve(q, k, p, count, lacks[p]).invalid
  /\ \A k \in Parts, p \in Peers : \A answer : DeliverParts(q, k, p, answer).err # "invalidChain"

LEMMA DeliverInside ==
  ASSUME NEW x, QueueInv(x), NEW k \in Parts, NEW p \in Peers, NEW answer
  PROVE  DeliverParts(x, k, p, answer).err # "invalidChain"
<1> DEFINE request == x.pend[k][p]
           outside == {i \in DOMAIN request : request[i] \notin DOMAIN x.cache}
<1>1. ToSet(request) \subseteq DOMAIN x.cache
  BY Zenon DEF QueueInv, Cached
<1>2. outside = {}
  BY <1>1 DEF ToSet
<1>3. DeliverParts(x, k, p, answer).err = "invalidChain" => \E i : i \in outside
  BY DEF DeliverParts
<1> HIDE DEF outside
<1> QED BY <1>2, <1>3

\* The errors "index allocation went beyond available resultCache space" and the
\* missing result of a delivery are unreachable: resultSlots never promises a slot
\* outside the cache (reserveHeaders, deliver).
THEOREM NoSlotOutside == Spec => []SlotsSuffice
<1>1. IInv => SlotsSuffice
  <2> SUFFICES ASSUME IInv PROVE SlotsSuffice
    OBVIOUS
  <2>1. QueueInv(q)
    BY DEF IInv
  <2>2. ASSUME NEW k \in Kinds, NEW p \in Peers, NEW count \in Counts
        PROVE  ~Reserve(q, k, p, count, lacks[p]).invalid
    <3> DEFINE z == Reserve(q, k, p, count, lacks[p])
    <3>1. z.invalid = FALSE
      BY <2>1, ReserveInv
    <3> QED BY <3>1
  <2>3. \A k \in Parts, p \in Peers : \A answer : DeliverParts(q, k, p, answer).err # "invalidChain"
    BY <2>1, DeliverInside
  <2> QED BY <2>2, <2>3 DEF SlotsSuffice
<1> QED BY <1>1, Invariant, PTL

-----------------------------------------------------------------------------
(* The refinement. *)

\* The blocks the abstract specification calls verified.
Complete(x) ==
  {n \in 1 .. x.headed : n < x.offset \/ \A k \in PartsOf(x.mode) : n \in x.done[k]}

\* No block above the scheduled ones or below the offset has a finished part.
LEMMA DoneBounds ==
  ASSUME NEW x, QueueInv(x)
  PROVE  /\ x.headed \in Nat /\ x.offset \in Nat /\ x.offset <= x.headed + 1
         /\ "body" \in PartsOf(x.mode)
         /\ \A k \in PartsOf(x.mode) : \A n \in x.done[k] : n \in Nat /\ x.offset <= n /\ n <= x.headed
<1>1. WellFormed(x) /\ Cached(x)
  BY DEF QueueInv
<1>2. x.headed \in Nat /\ x.offset \in Nat /\ x.offset <= x.headed + 1
  BY <1>1 DEF WellFormed
<1>3. "body" \in PartsOf(x.mode)
  BY DEF PartsOf, Parts
<1>4. \A k \in PartsOf(x.mode) : x.done[k] \subseteq x.offset .. x.headed
  BY <1>1, PartsOfParts, Zenon DEF Cached
<1> QED BY <1>2, <1>3, <1>4

LEMMA GrowsMaps ==
  ASSUME IInv, IInv', Grows
  PROVE  Complete(q) \subseteq Complete(q') /\ Complete(q') \subseteq 1 .. q.headed
<1>1. q'.mode = q.mode /\ q'.headed = q.headed /\ q'.offset = q.offset
      /\ \A k \in PartsOf(q.mode) : q.done[k] \subseteq q'.done[k]
  BY PartsOfParts DEF Grows
<1> QED BY <1>1 DEF Complete

LEMMA ExtendsMaps ==
  ASSUME IInv, IInv', Extends
  PROVE  Complete(q') = Complete(q)
<1>0. /\ q.headed \in Nat /\ q.offset \in Nat /\ q.offset <= q.headed + 1
      /\ "body" \in PartsOf(q.mode)
      /\ \A n \in q.done["body"] : n \in Nat /\ n <= q.headed
  BY DoneBounds DEF IInv
<1>1. /\ q'.mode = q.mode /\ q'.offset = q.offset /\ q'.done = q.done
      /\ q'.headed \in Nat /\ q.headed <= q'.headed
  BY <1>0, QueueAssumption DEF Extends
<1>2. ASSUME NEW n \in Complete(q') PROVE n \in Complete(q)
  <2>1. n \in 1 .. q'.headed /\ (n < q.offset \/ \A k \in PartsOf(q.mode) : n \in q.done[k])
    BY <1>1, <1>2 DEF Complete
  <2>2. n \in 1 .. q.headed
    BY <1>0, <1>1, <2>1
  <2> QED BY <2>1, <2>2 DEF Complete
<1>3. ASSUME NEW n \in Complete(q) PROVE n \in Complete(q')
  <2>1. n \in 1 .. q.headed /\ (n < q.offset \/ \A k \in PartsOf(q.mode) : n \in q.done[k])
    BY <1>3 DEF Complete
  <2>2. n \in 1 .. q'.headed
    BY <1>0, <1>1, <2>1
  <2> QED BY <1>1, <2>1, <2>2 DEF Complete
<1> QED BY <1>2, <1>3

LEMMA LeavesMaps ==
  ASSUME IInv, IInv', NEW count, Leaves(count)
  PROVE  /\ Complete(q') = Complete(q)
         /\ q.offset .. q.offset + count - 1 \subseteq Complete(q)
<1>0. /\ q.headed \in Nat /\ q.offset \in Nat /\ q'.offset <= q'.headed + 1 /\ q.offset >= 1
  BY QueueNumbers DEF IInv
<1> DEFINE taken == q.offset .. q.offset + count - 1
<1>1. /\ count \in Nat \ {0} /\ q'.mode = q.mode /\ q'.headed = q.headed /\ q'.offset = q.offset + count
      /\ \A n \in taken : \A k \in PartsOf(q.mode) : n \in q.done[k]
      /\ \A k \in PartsOf(q.mode) : q'.done[k] = q.done[k] \ taken
  BY PartsOfParts DEF Leaves
<1>2. \A n \in 1 .. q.headed : n < q.offset + count <=> n < q.offset \/ n \in taken
  BY <1>0, <1>1
<1>3. taken \subseteq 1 .. q.headed
  BY <1>0, <1>1
<1> HIDE DEF taken
<1>4. taken \subseteq Complete(q)
  BY <1>1, <1>3 DEF Complete
<1>5. \A n \in 1 .. q.headed : n \in Complete(q') <=> n \in Complete(q)
  <2> TAKE n \in 1 .. q.headed
  <2>1. n \in Complete(q') <=> n < q.offset + count \/ \A k \in PartsOf(q.mode) : n \in q.done[k] \ taken
    BY <1>1 DEF Complete
  <2>2. n \in Complete(q) <=> n < q.offset \/ \A k \in PartsOf(q.mode) : n \in q.done[k]
    BY DEF Complete
  <2> QED BY <1>1, <1>2, <2>1, <2>2
<1>6. Complete(q') \subseteq 1 .. q.headed /\ Complete(q) \subseteq 1 .. q.headed
  BY <1>1 DEF Complete
<1> QED BY <1>4, <1>5, <1>6 DEF taken

LEMMA RestartsMaps ==
  ASSUME IInv, IInv', Restarts
  PROVE  Complete(q') = 1 .. chain
<1>1. q'.headed = chain /\ q'.offset = chain + 1 /\ chain \in Nat
  BY DEF Restarts, IInv
<1> QED BY <1>1 DEF Complete

\* The download hands the blocks of the header chain to the chain in order, each
\* once per attempt and none with an unverified part, for every chain, peer set,
\* cache size and limit (Schedule, deliver, Results, Prepare).
THEOREM Implements == Spec => DeliversInOrder
<1>1. Init => Delivered!AInit
  <2> SUFFICES ASSUME Init PROVE Delivered!AInit
    OBVIOUS
  <2>1. PICK mode \in Modes : q = FreshQueue(mode, 1, CacheSize)
    BY DEF Init
  <2>2. q.headed = 0 /\ q.offset = 1
    BY <2>1, FreshFields
  <2> QED BY <2>2 DEF Delivered!AInit
<1>2. IInv /\ [Next]_vars => [Delivered!ANext]_(Delivered!avars)
  <2> SUFFICES ASSUME IInv, [Next]_vars PROVE [Delivered!ANext]_(Delivered!avars)
    OBVIOUS
  <2>0. IInv' /\ (Grows \/ Extends \/ (\E count : Leaves(count)) \/ Restarts)
    BY NextInv, StutterInv
  <2>1. q.headed \in Nat /\ q.offset \in Nat /\ q.offset >= 1 /\ q'.offset <= q'.headed + 1
        /\ chain \in Nat /\ chain < q.offset
    BY <2>0, QueueNumbers DEF IInv
  <2>2. CASE Grows
    <3>1. Complete(q) \subseteq Complete(q') /\ Complete(q') \subseteq 1 .. q.headed
          /\ q'.headed = q.headed /\ q'.offset = q.offset
      BY <2>0, <2>2, GrowsMaps DEF Grows
    <3>2. Delivered!Verify
      BY <3>1 DEF Delivered!Verify, Complete
    <3> QED BY <3>2 DEF Delivered!ANext
  <2>3. CASE Extends
    <3>1. Complete(q') = Complete(q) /\ q'.offset = q.offset /\ q'.headed \in q.headed .. Height
      BY <2>0, <2>3, ExtendsMaps DEF Extends
    <3>2. CASE q'.headed = q.headed
      BY <3>1, <3>2 DEF Delivered!avars, Complete
    <3>3. CASE q'.headed # q.headed
      <4>1. q'.headed \in q.headed + 1 .. Height
        BY <2>1, <3>1, <3>3, QueueAssumption
      <4>2. Delivered!Extend
        BY <3>1, <4>1 DEF Delivered!Extend, Complete
      <4> QED BY <4>2 DEF Delivered!ANext
    <3> QED BY <3>2, <3>3
  <2>4. ASSUME NEW count, Leaves(count) PROVE Delivered!ANext
    <3>1. Complete(q') = Complete(q) /\ q.offset .. q.offset + count - 1 \subseteq Complete(q)
      BY <2>0, <2>4, LeavesMaps
    <3>2. count \in Nat \ {0} /\ q'.headed = q.headed /\ q'.offset = q.offset + count
      BY <2>4 DEF Leaves
    <3>3. q'.offset - 1 \in q.offset - 1 + 1 .. q.headed
      BY <2>1, <3>2
    <3>4. q.offset - 1 + 1 .. q'.offset - 1 \subseteq Complete(q)
      BY <2>1, <3>1, <3>2
    <3>5. Delivered!HandOver
      BY <3>1, <3>2, <3>3, <3>4 DEF Delivered!HandOver, Complete
    <3> QED BY <3>5 DEF Delivered!ANext
  <2>5. CASE Restarts
    <3>1. Complete(q') = 1 .. chain /\ q'.headed = chain /\ q'.offset = chain + 1
      BY <2>0, <2>5, RestartsMaps DEF Restarts
    <3>2. q'.offset - 1 = chain /\ chain \in 0 .. q.offset - 1
      BY <2>1, <3>1
    <3>3. Delivered!Restart
      BY <3>1, <3>2 DEF Delivered!Restart, Complete
    <3> QED BY <3>3 DEF Delivered!ANext
  <2> QED BY <2>0, <2>2, <2>3, <2>4, <2>5
<1> QED BY <1>1, <1>2, Invariant, PTL DEF Spec, DeliversInOrder, Delivered!ASpec

-----------------------------------------------------------------------------
(* Peers that are busy. *)

\* What a peer is asked for is never empty.
Questions == Seq(Nat) \ {<<>>}

PeerTypes ==
  /\ reg \in SUBSET Peers
  /\ DOMAIN asked = Kinds /\ DOMAIN busy = Kinds /\ DOMAIN strays = Kinds
  /\ \A k \in Kinds : DOMAIN asked[k] = Peers
  /\ \A k \in Kinds, p \in Peers : asked[k][p] \in Seq(Questions) /\ q.pend[k][p] \in Seq(Nat)
  /\ q.tasks["header"] \in SUBSET Nat

\* Only a registered peer owes answers; its pending request, if it was asked for
\* at all, is what it was asked last; and a busy one that never sent anything
\* else has a request or owes an answer, whether or not the loop still runs.
Returning(k, p) ==
  /\ p \notin reg => asked[k][p] = <<>>
  /\ q.pend[k][p] # <<>> /\ asked[k][p] # <<>> =>
       asked[k][p][Len(asked[k][p])] = q.pend[k][p]
  /\ sync.active /\ p \in reg /\ p \in busy[k] /\ p \notin strays[k] =>
       q.pend[k][p] # <<>> \/ asked[k][p] # <<>>

PeerInv == PeerTypes /\ \A k \in Kinds, p \in Peers : Returning(k, p)

\* Goroutines that have returned, and those of a synchronisation that is over.
Ended ==
  /\ {"active", "left"} \subseteq DOMAIN sync
  /\ \A k \in Parts : ~sync.active \/ k \in sync.left => fetch[k].at = "off"
  /\ ~sync.active \/ "headers" \in sync.left => header.at = "off"

\* Requests and peers stay.
LEMMA PeersSame ==
  ASSUME PeerInv, UNCHANGED peerVars, q'.pend = q.pend, q'.tasks["header"] \in SUBSET Nat,
         sync'.active => sync.active
  PROVE  PeerInv'
<1>1. PeerTypes'
  BY DEF PeerInv, PeerTypes, peerVars
<1>2. ASSUME NEW k \in Kinds, NEW p \in Peers PROVE Returning(k, p)'
  <2>1. Returning(k, p)
    BY DEF PeerInv
  <2> QED BY <2>1 DEF Returning, peerVars
<1> QED BY <1>1, <1>2 DEF PeerInv

\* The requests of kind k of the peers of E expire, and the peers of P leave.
Lose(k, E, P) ==
  /\ reg' = reg \ P
  /\ asked' = [l \in Kinds |-> [p \in Peers |-> IF p \in P THEN <<>> ELSE asked[l][p]]]
  /\ \A l \in Kinds, p \in Peers :
       \/ q'.pend[l][p] = q.pend[l][p]
       \/ q'.pend[l][p] = <<>> /\ (p \in P \/ (l = k /\ p \in E))
  /\ DOMAIN busy' = Kinds
  /\ \A l \in Kinds : busy'[l] = IF l = k THEN busy[l] \ E ELSE busy[l]

LEMMA PeersLess ==
  ASSUME PeerInv, NEW k \in Kinds, NEW E \in SUBSET Peers, NEW P \in SUBSET Peers,
         Lose(k, E, P), q'.tasks["header"] \in SUBSET Nat,
         strays' = strays, sync'.active => sync.active
  PROVE  PeerInv'
<1>0. PeerTypes
  BY DEF PeerInv
<1>1. ASSUME NEW l \in Kinds, NEW p \in Peers
      PROVE  /\ asked'[l][p] = IF p \in P THEN <<>> ELSE asked[l][p]
             /\ asked'[l][p] \in Seq(Questions) /\ q'.pend[l][p] \in Seq(Nat)
  <2>1. asked'[l][p] = IF p \in P THEN <<>> ELSE asked[l][p]
    BY DEF Lose
  <2>2. asked[l][p] \in Seq(Questions) /\ q.pend[l][p] \in Seq(Nat)
    BY <1>0 DEF PeerTypes
  <2>4. q'.pend[l][p] = q.pend[l][p] \/ q'.pend[l][p] = <<>>
    BY DEF Lose
  <2>3. <<>> \in Seq(Questions) /\ <<>> \in Seq(Nat)
    OBVIOUS
  <2> QED BY <2>1, <2>2, <2>3, <2>4
<1>2. PeerTypes'
  BY <1>0, <1>1 DEF PeerTypes, Lose
<1>3. ASSUME NEW l \in Kinds, NEW p \in Peers PROVE Returning(l, p)'
  <2>1. Returning(l, p)
    BY DEF PeerInv
  <2>2. asked'[l][p] = IF p \in P THEN <<>> ELSE asked[l][p]
    BY <1>1
  <2>3. busy'[l] = IF l = k THEN busy[l] \ E ELSE busy[l]
    BY DEF Lose
  <2>4. \/ q'.pend[l][p] = q.pend[l][p]
        \/ q'.pend[l][p] = <<>> /\ (p \in P \/ (l = k /\ p \in E))
    BY DEF Lose
  <2>5. reg' = reg \ P
    BY DEF Lose
  <2> QED BY <2>1, <2>2, <2>3, <2>4, <2>5 DEF Returning
<1> QED BY <1>2, <1>3 DEF PeerInv

LEMMA RequeuePend ==
  ASSUME NEW x, WellFormed(x), NEW k \in Kinds, NEW P \in SUBSET Peers,
         NEW y, y = Requeue(x, k, P), x.tasks["header"] \in SUBSET Nat,
         \A p \in Peers : x.pend["header"][p] \in Seq(Nat)
  PROVE  /\ y.tasks["header"] \in SUBSET Nat
         /\ \A l \in Kinds, p \in Peers :
              y.pend[l][p] = IF l = k /\ p \in P THEN <<>> ELSE x.pend[l][p]
<1>1. /\ y.tasks[k] = x.tasks[k] \cup UNION {ToSet(x.pend[k][p]) : p \in P}
      /\ y.pend[k] = [p \in Peers |-> IF p \in P THEN <<>> ELSE x.pend[k][p]]
      /\ \A l \in Kinds \ {k} : y.tasks[l] = x.tasks[l] /\ y.pend[l] = x.pend[l]
  BY RequeueFields
<1>2. \A l \in Kinds, p \in Peers : y.pend[l][p] = IF l = k /\ p \in P THEN <<>> ELSE x.pend[l][p]
  BY <1>1
<1>3. CASE k = "header"
  <2>1. \A p \in P : ToSet(x.pend[k][p]) \in SUBSET Nat
    BY <1>3 DEF ToSet
  <2> QED BY <1>1, <1>2, <1>3, <2>1
<1>4. CASE k # "header"
  BY <1>1, <1>2, <1>4, KindNames
<1> QED BY <1>3, <1>4

LEMMA RevokePend ==
  ASSUME NEW x, WellFormed(x), NEW P \in SUBSET Peers,
         NEW y, y = Revoke(x, P), x.tasks["header"] \in SUBSET Nat,
         \A p \in Peers : x.pend["header"][p] \in Seq(Nat)
  PROVE  /\ y.tasks["header"] \in SUBSET Nat
         /\ \A l \in Kinds, p \in Peers :
              y.pend[l][p] = IF l \in Parts /\ p \in P THEN <<>> ELSE x.pend[l][p]
<1> DEFINE z == Requeue(x, "body", P)
<1>1. /\ z.tasks["header"] \in SUBSET Nat
      /\ \A l \in Kinds, p \in Peers :
           z.pend[l][p] = IF l = "body" /\ p \in P THEN <<>> ELSE x.pend[l][p]
  BY RequeuePend, KindNames
<1>2. WellFormed(z)
  <2>1. /\ Keeps(x, z) /\ DOMAIN z.tasks = Kinds /\ DOMAIN z.pend = Kinds
        /\ z.pend["body"] = [p \in Peers |-> IF p \in P THEN <<>> ELSE x.pend["body"][p]]
        /\ \A l \in Kinds \ {"body"} : z.pend[l] = x.pend[l]
    BY RequeueFields, KindNames
  <2> HIDE DEF z
  <2>2. \A l \in Kinds : DOMAIN z.pend[l] = Peers
    BY <2>1 DEF WellFormed
  <2> QED BY <2>1, <2>2, KeptInv
<1>3. y = Requeue(z, "receipt", P)
  BY DEF Revoke
<1> HIDE DEF z
<1>4. \A p \in Peers : z.pend["header"][p] \in Seq(Nat)
  BY <1>1, KindNames
<1>5. /\ y.tasks["header"] \in SUBSET Nat
      /\ \A l \in Kinds, p \in Peers :
           y.pend[l][p] = IF l = "receipt" /\ p \in P THEN <<>> ELSE z.pend[l][p]
  BY <1>1, <1>2, <1>3, <1>4, RequeuePend, KindNames
<1> QED BY <1>1, <1>5 DEF Parts

\* Peers leave; E and k say which requests have expired just before.
LEMMA UnregisterPeers ==
  ASSUME IInv, PeerInv, NEW k \in Kinds, NEW E \in SUBSET Peers, NEW P \in SUBSET Peers, NEW l,
         NEW x, (x = q /\ E = {}) \/ x = Requeue(q, k, E), Unregister(P, x, l),
         DOMAIN busy' = Kinds,
         \A m \in Kinds : busy'[m] = IF m = k THEN busy[m] \ E ELSE busy[m],
         strays' = strays, sync'.active => sync.active
  PROVE  PeerInv'
<1>0. QueueInv(q) /\ WellFormed(q) /\ PeerTypes
  BY DEF IInv, QueueInv, PeerInv
<1>1. \A p \in Peers : q.pend["header"][p] \in Seq(Nat)
  BY <1>0, KindNames DEF PeerTypes
<1>2. /\ WellFormed(x) /\ x.tasks["header"] \in SUBSET Nat
      /\ \A m \in Kinds, p \in Peers :
           x.pend[m][p] = IF m = k /\ p \in E THEN <<>> ELSE q.pend[m][p]
  <2>1. CASE x = q /\ E = {}
    BY <1>0, <2>1 DEF PeerTypes
  <2>2. CASE x = Requeue(q, k, E)
    <3>1. WellFormed(x)
      BY <1>0, <2>2, RequeueInv DEF QueueInv
    <3>2. q.tasks["header"] \in SUBSET Nat
      BY <1>0 DEF PeerTypes
    <3>3. /\ x.tasks["header"] \in SUBSET Nat
          /\ \A m \in Kinds, p \in Peers :
               x.pend[m][p] = IF m = k /\ p \in E THEN <<>> ELSE q.pend[m][p]
      BY <1>0, <1>1, <2>2, <3>2, RequeuePend
    <3> QED BY <3>1, <3>3
  <2> QED BY <2>1, <2>2
<1>3. \A p \in Peers : x.pend["header"][p] \in Seq(Nat)
  <2>1. <<>> \in Seq(Nat)
    OBVIOUS
  <2> QED BY <1>1, <1>2, <2>1, KindNames
<1>4. q' = Revoke(x, P) /\ reg' = reg \ P
      /\ asked' = [m \in Kinds |-> [p \in Peers |-> IF p \in P THEN <<>> ELSE asked[m][p]]]
  BY DEF Unregister
<1>5. /\ q'.tasks["header"] \in SUBSET Nat
      /\ \A m \in Kinds, p \in Peers :
           q'.pend[m][p] = IF m \in Parts /\ p \in P THEN <<>> ELSE x.pend[m][p]
  BY <1>2, <1>3, <1>4, RevokePend
<1>6. \A m \in Kinds, p \in Peers :
        \/ q'.pend[m][p] = q.pend[m][p]
        \/ q'.pend[m][p] = <<>> /\ (p \in P \/ (m = k /\ p \in E))
  BY <1>2, <1>5
<1>7. q'.tasks["header"] \in SUBSET Nat
  BY <1>5
<1>8. Lose(k, E, P)
  BY <1>4, <1>6, Zenon DEF Lose
<1> QED BY <1>7, <1>8, PeersLess

\* A peer comes back.
LEMMA ConnectPeers ==
  ASSUME PeerInv, NEW p \in Peers, Connect(p)
  PROVE  PeerInv'
<1>0. PeerTypes /\ Returning("header", p)
  BY KindNames DEF PeerInv
<1>1. /\ p \notin reg /\ reg' = reg \cup {p}
      /\ busy' = [k \in Kinds |-> busy[k] \ {p}] /\ strays' = [k \in Kinds |-> strays[k] \ {p}]
      /\ UNCHANGED <<q, asked, sync>>
  BY DEF Connect
<1>2. PeerTypes'
  BY <1>0, <1>1 DEF PeerTypes
<1>3. ASSUME NEW k \in Kinds, NEW o \in Peers PROVE Returning(k, o)'
  <2>1. Returning(k, o)
    BY DEF PeerInv
  <2> QED BY <1>1, <2>1 DEF Returning
<1> QED BY <1>2, <1>3 DEF PeerInv

LEMMA TailOf ==
  ASSUME NEW S, NEW s \in Seq(S), s # <<>>
  PROVE  /\ Tail(s) \in Seq(S)
         /\ Len(s) \in Nat /\ Len(s) # 0 /\ Head(s) = s[1]
         /\ Tail(s) # <<>> => Tail(s)[Len(Tail(s))] = s[Len(s)]
         /\ Tail(s) = <<>> => Len(s) = 1
<1>1. Len(s) \in Nat /\ Len(s) # 0 /\ Head(s) = s[1]
  OBVIOUS
<1>2. Tail(s) \in Seq(S) /\ Len(Tail(s)) = Len(s) - 1
  BY <1>1
<1>3. \A i \in 1 .. Len(s) - 1 : Tail(s)[i] = s[i + 1]
  BY <1>1
<1>4. Tail(s) # <<>> => Len(s) - 1 # 0
  <2> DEFINE u == Tail(s)
  <2>1. u \in Seq(S) /\ (Len(u) = 0 => u = <<>>)
    <3>1. u \in Seq(S)
      BY <1>2
    <3> HIDE DEF u
    <3> QED BY <3>1
  <2> QED BY <1>2, <2>1
<1>5. Tail(s) = <<>> => Len(s) = 1
  <2>1. Len(<<>>) = 0
    OBVIOUS
  <2>2. ASSUME Tail(s) = <<>> PROVE Len(s) - 1 = 0
    BY <1>2, <2>1, <2>2, Zenon
  <2> QED BY <1>1, <2>2
<1>6. ASSUME Tail(s) # <<>> PROVE Tail(s)[Len(Tail(s))] = s[Len(s)]
  <2>1. Len(s) - 1 \in 1 .. Len(s) - 1 /\ Len(s) - 1 + 1 = Len(s)
    BY <1>1, <1>4, <1>6
  <2> QED BY <1>2, <1>3, <2>1
<1> QED BY <1>1, <1>2, <1>5, <1>6

\* An answer is taken: peer p is asked one question of kind k less.
Answered(k, p) ==
  /\ asked[k][p] # <<>>
  /\ asked' = [asked EXCEPT ![k][p] = Tail(@)]

LEMMA AnsweredIs ==
  ASSUME PeerTypes, NEW k \in Kinds, NEW p \in Peers, Answered(k, p)
  PROVE  /\ DOMAIN asked' = Kinds /\ \A l \in Kinds : DOMAIN asked'[l] = Peers
         /\ \A l \in Kinds, o \in Peers :
              /\ asked'[l][o] = IF l = k /\ o = p THEN Tail(asked[k][p]) ELSE asked[l][o]
              /\ asked'[l][o] \in Seq(Questions)
<1>1. asked' = [asked EXCEPT ![k][p] = Tail(@)] /\ DOMAIN asked = Kinds /\ \A l \in Kinds : DOMAIN asked[l] = Peers
  BY DEF PeerTypes, Answered
<1>2. \A l \in Kinds, o \in Peers :
              asked'[l][o] = IF l = k /\ o = p THEN Tail(asked[k][p]) ELSE asked[l][o]
  BY <1>1
<1>3. Tail(asked[k][p]) \in Seq(Questions)
  BY TailOf DEF PeerTypes, Answered
<1> QED BY <1>1, <1>2, <1>3 DEF PeerTypes

LEMMA DiscardPeers ==
  ASSUME PeerInv, NEW k \in Kinds, NEW p \in Peers, Discard(k, p)
  PROVE  PeerInv'
<1>0. PeerTypes /\ Answered(k, p) /\ ~sync.active /\ UNCHANGED <<q, reg, busy, strays, sync>>
  BY DEF PeerInv, Discard, Answered
<1>1. /\ DOMAIN asked' = Kinds /\ \A l \in Kinds : DOMAIN asked'[l] = Peers
      /\ \A l \in Kinds, o \in Peers :
           /\ asked'[l][o] = IF l = k /\ o = p THEN Tail(asked[k][p]) ELSE asked[l][o]
           /\ asked'[l][o] \in Seq(Questions)
  BY <1>0, AnsweredIs
<1>2. PeerTypes'
  BY <1>0, <1>1 DEF PeerTypes
<1>3. ASSUME NEW l \in Kinds, NEW o \in Peers PROVE Returning(l, o)'
  <2>1. Returning(l, o) /\ asked[l][o] \in Seq(Questions)
    BY <1>0 DEF PeerInv, PeerTypes
  <2>2. CASE l = k /\ o = p
    <3>1. asked[k][p] # <<>> /\ asked'[k][p] = Tail(asked[k][p])
      BY <1>0, <1>1, <2>2 DEF Answered
    <3>2. Tail(asked[k][p]) # <<>> =>
            Tail(asked[k][p])[Len(Tail(asked[k][p]))] = asked[k][p][Len(asked[k][p])]
      BY <2>1, <2>2, <3>1, TailOf
    <3> QED BY <1>0, <2>1, <2>2, <3>1, <3>2 DEF Returning
  <2>3. CASE ~(l = k /\ o = p)
    BY <1>0, <1>1, <2>1, <2>3 DEF Returning
  <2> QED BY <2>2, <2>3
<1> QED BY <1>2, <1>3 DEF PeerInv

\* A delivery that is stale did not begin with what was asked for: no item
\* matched, although both sides have one.
LEMMA StaleDiffers ==
  ASSUME NEW x, QueueInv(x), NEW k \in Parts, NEW p \in Peers, NEW answer \in Seq(Nat),
         x.pend[k][p] \in Seq(Nat),
         DeliverParts(x, k, p, answer).err = "stale"
  PROVE  x.pend[k][p] # <<>> /\ answer # <<>> /\ answer[1] # x.pend[k][p][1]
<1> DEFINE request == x.pend[k][p]
           outside == {i \in DOMAIN request : request[i] \notin DOMAIN x.cache}
           matched == {i \in DOMAIN request : i <= Len(answer) /\ \A j \in 1 .. i :
                         answer[j] = request[j] /\ j \notin outside}
           good == {request[i] : i \in matched}
           next == Cardinality(matched) + 1
           failed == next <= Len(request) /\ next <= Len(answer)
<1>1. ToSet(request) \subseteq DOMAIN x.cache
  BY Zenon DEF QueueInv, Cached
<1>2. outside = {}
  BY <1>1 DEF ToSet
<1>3. request # <<>> /\ failed /\ good = {}
  <2>1. DeliverParts(x, k, p, answer).err =
          IF request = <<>> THEN "noFetchesPending"
          ELSE IF ~failed THEN "none"
          ELSE IF next \in outside THEN "invalidChain"
          ELSE IF good # {} THEN "partial"
          ELSE "stale"
    BY Zenon DEF DeliverParts
  <2> HIDE DEF request, failed, next, outside, good
  <2> QED BY <2>1
<1> HIDE DEF next, outside
<1>4. matched = {}
  <2> HIDE DEF matched
  <2> QED BY <1>3, Zenon
<1>5. next = 1
  <2> HIDE DEF matched
  <2> QED BY <1>4, FS_EmptySet DEF next
<1>6. 1 \in DOMAIN request /\ 1 <= Len(answer)
  <2>1. 1 <= Len(request) /\ 1 <= Len(answer) /\ request \in Seq(Nat)
    BY <1>3, <1>5
  <2> HIDE DEF request
  <2> QED BY <2>1
<1>7. 1 \notin matched
  BY <1>4
<1>8. answer[1] # request[1]
  BY <1>2, <1>6, <1>7
<1> QED BY <1>3, <1>5, <1>8

LEMMA AnswersAre ==
  ASSUME NEW question \in Questions, NEW answer \in Answers(question)
  PROVE  answer \in Seq(Nat)
<1>1. question \in Seq(Nat) /\ question # <<>>
  BY DEF Questions
<1>2. ASSUME NEW n \in 0 .. Len(question) PROVE SubSeq(question, 1, n) \in Seq(Nat)
  BY <1>1
<1>3. ASSUME NEW n \in 0 .. Len(question) - 1 PROVE Append(SubSeq(question, 1, n), 0) \in Seq(Nat)
  <2>1. n \in 0 .. Len(question)
    BY <1>1
  <2> QED BY <1>2, <2>1
<1>4. Tail(question) \in Seq(Nat)
  BY <1>1
<1> QED BY <1>2, <1>3, <1>4 DEF Answers

LEMMA PrefixBegins ==
  ASSUME NEW s \in Seq(Nat), s # <<>>, NEW u \in Seq(Nat), IsPrefix(s, u)
  PROVE  s[1] = u[1]
<1>1. Len(s) \in Nat /\ Len(s) # 0
  OBVIOUS
<1>2. Len(s) <= Len(u) /\ SubSeq(s, 1, Len(s)) = SubSeq(u, 1, Len(s))
  BY DEF IsPrefix
<1>3. SubSeq(s, 1, Len(s))[1] = s[1]
  BY <1>1
<1>4. SubSeq(u, 1, Len(s))[1] = u[1]
  BY <1>1, <1>2
<1> QED BY <1>2, <1>3, <1>4

\* Bodies or receipts arrive: the peer is idle again, or the answer was that of
\* an earlier question and the one for the request is still to come.
LEMMA DeliverPartPeers ==
  ASSUME IInv, PeerInv, NEW k \in Parts, NEW p \in Peers, NEW answer, DeliverPart(k, p, answer)
  PROVE  PeerInv'
<1> DEFINE d == DeliverParts(q, k, p, answer)
           question == Head(asked[k][p])
           request == q.pend[k][p]
<1>0. PeerTypes /\ QueueInv(q) /\ WellFormed(q) /\ k \in Kinds /\ Returning(k, p)
  BY KindNames DEF IInv, QueueInv, PeerInv
<1>1. d.err # "invalidChain"
  BY <1>0, DeliverInside
<1>2. /\ Answered(k, p) /\ answer \in Answers(question) /\ p \in reg
      /\ strays' = [strays EXCEPT ![k] = IF IsPrefix(answer, question) THEN @ ELSE @ \cup {p}]
      /\ q' = d.q
      /\ busy' = [busy EXCEPT ![k] = IF d.err # "stale" THEN @ \ {p} ELSE @]
      /\ reg' = reg /\ sync' = sync
  <2> HIDE DEF d
  <2>1. DeliverPart(k, p, answer) /\ d = DeliverParts(q, k, p, answer)
    BY DEF d
  <2> QED BY <1>1, <2>1 DEF DeliverPart, Answered, Idles
<1>3. PICK good : q' = Accepted(q, k, p, good)
  BY <1>2, DeliverAccepts
<1>4. /\ q'.pend[k] = [q.pend[k] EXCEPT ![p] = <<>>]
      /\ \A l \in Kinds \ {k} : q'.tasks[l] = q.tasks[l] /\ q'.pend[l] = q.pend[l]
  <2>1. PICK y : y = Accepted(q, k, p, good)
    OBVIOUS
  <2>2. /\ y.pend = [q.pend EXCEPT ![k][p] = <<>>]
        /\ y.tasks = [q.tasks EXCEPT ![k] = @ \cup (ToSet(q.pend[k][p]) \ good)]
    BY <1>0, <2>1 DEF WellFormed, Accepted
  <2> QED BY <1>0, <1>3, <2>1, <2>2 DEF WellFormed
<1>5. \A l \in Kinds, o \in Peers : q'.pend[l][o] = IF l = k /\ o = p THEN <<>> ELSE q.pend[l][o]
  BY <1>0, <1>4 DEF WellFormed
<1>6. q'.tasks["header"] = q.tasks["header"]
  BY <1>4, KindNames
<1>7. /\ DOMAIN asked' = Kinds /\ \A l \in Kinds : DOMAIN asked'[l] = Peers
      /\ \A l \in Kinds, o \in Peers :
           /\ asked'[l][o] = IF l = k /\ o = p THEN Tail(asked[k][p]) ELSE asked[l][o]
           /\ asked'[l][o] \in Seq(Questions)
  BY <1>0, <1>2, AnsweredIs
<1>8. /\ DOMAIN busy' = Kinds /\ DOMAIN strays' = Kinds
      /\ \A l \in Kinds \ {k} : busy'[l] = busy[l] /\ strays'[l] = strays[l]
      /\ busy'[k] = (IF d.err # "stale" THEN busy[k] \ {p} ELSE busy[k])
      /\ strays'[k] = (IF IsPrefix(answer, question) THEN strays[k] ELSE strays[k] \cup {p})
  <2> HIDE DEF d, question
  <2> QED BY <1>0, <1>2 DEF PeerTypes
<1>9. ASSUME d.err = "stale", IsPrefix(answer, question) PROVE Tail(asked[k][p]) # <<>>
  <2>1. asked[k][p] \in Seq(Questions) /\ asked[k][p] # <<>> /\ request \in Seq(Nat)
    BY <1>0, <1>2 DEF PeerTypes, Answered
  <2>2. question = asked[k][p][1] /\ question \in Questions
    <3> DEFINE a == asked[k][p]
    <3>1. a \in Seq(Questions) /\ a # <<>>
      BY <2>1
    <3> HIDE DEF a
    <3>2. Head(a) = a[1] /\ Head(a) \in Questions
      BY <3>1
    <3> QED BY <3>2 DEF a
  <2> HIDE DEF question
  <2>3. answer \in Seq(Nat) /\ question \in Seq(Nat)
    BY <1>2, <2>2, AnswersAre DEF Questions
  <2>4. request # <<>> /\ answer # <<>> /\ answer[1] # request[1]
    BY <1>0, <1>9, <2>1, <2>3, StaleDiffers
  <2>5. answer[1] = question[1]
    BY <1>9, <2>3, <2>4, PrefixBegins
  <2>6. asked[k][p][Len(asked[k][p])] = request
    BY <1>0, <2>1, <2>4 DEF Returning
  <2>7. Len(asked[k][p]) # 1
    BY <2>2, <2>4, <2>5, <2>6
  <2> QED BY <2>1, <2>7, TailOf
<1> HIDE DEF d, question
<1>10. PeerTypes'
  <2>1. <<>> \in Seq(Nat)
    OBVIOUS
  <2>2. \A l \in Kinds, o \in Peers : q'.pend[l][o] \in Seq(Nat)
    BY <1>0, <1>5, <2>1 DEF PeerTypes
  <2> QED BY <1>0, <1>2, <1>6, <1>7, <1>8, <2>2 DEF PeerTypes
<1>11. ASSUME NEW l \in Kinds, NEW o \in Peers PROVE Returning(l, o)'
  <2>1. Returning(l, o)
    BY DEF PeerInv
  <2>2. CASE l = k /\ o = p
    <3>1. q'.pend[k][p] = <<>> /\ asked'[k][p] = Tail(asked[k][p]) /\ p \in reg' /\ sync' = sync
      BY <1>0, <1>2, <1>5, <1>7
    <3>2. p \in busy'[k] /\ p \notin strays'[k] => asked'[k][p] # <<>>
      BY <1>8, <1>9, <3>1
    <3> QED BY <2>2, <3>1, <3>2 DEF Returning
  <2>3. CASE ~(l = k /\ o = p)
    <3>1. q'.pend[l][o] = q.pend[l][o] /\ asked'[l][o] = asked[l][o] /\ reg' = reg /\ sync' = sync
      BY <1>2, <1>5, <1>7, <2>3
    <3>2. (o \in busy'[l] => o \in busy[l]) /\ (o \in strays[l] => o \in strays'[l])
      BY <1>0, <1>8, <2>3
    <3> QED BY <2>1, <3>1, <3>2 DEF Returning
  <2> QED BY <2>2, <2>3
<1> QED BY <1>10, <1>11 DEF PeerInv

\* A batch of headers arrives: the peer is idle again.
LEMMA DeliverHeadersPeers ==
  ASSUME IInv, PeerInv, NEW p \in Peers, NEW fits \in BOOLEAN, DeliverHeaders(p, fits)
  PROVE  PeerInv'
<1> DEFINE d == DeliverBatch(q, p, fits, procCh = <<>>)
<1>0. PeerTypes /\ QueueInv(q) /\ WellFormed(q) /\ "header" \in Kinds
  BY KindNames DEF IInv, QueueInv, PeerInv
<1>1. /\ Answered("header", p) /\ q' = d.q
      /\ busy' = [busy EXCEPT !["header"] = @ \ {p}]
      /\ UNCHANGED <<reg, strays, sync>> /\ p \in reg
  BY DEF DeliverHeaders, Answered
<1>2. /\ \A l \in Kinds, o \in Peers :
           q'.pend[l][o] = IF l = "header" /\ o = p THEN <<>> ELSE q.pend[l][o]
      /\ q'.tasks["header"] \in SUBSET Nat
  <2>1. q.pend["header"][p] \in Seq(Nat) /\ q.tasks["header"] \in SUBSET Nat
    BY <1>0 DEF PeerTypes
  <2>2. q.pend["header"][p] # <<>> => q.pend["header"][p][1] \in Nat
    <3> DEFINE r == q.pend["header"][p]
    <3>1. r \in Seq(Nat)
      BY <2>1
    <3> HIDE DEF r
    <3>2. r # <<>> => r[1] \in Nat
      BY <3>1
    <3> QED BY <3>2 DEF r
  <2>3. /\ DOMAIN q.pend = Kinds /\ \A l \in Kinds : DOMAIN q.pend[l] = Peers
        /\ {"tasks", "pend", "miss", "unfilled", "proced"} \subseteq DOMAIN q /\ DOMAIN q.tasks = Kinds
    BY <1>0 DEF WellFormed
  <2>4. q' = d.q
    BY <1>1
  <2>5. CASE q.pend["header"][p] = <<>>
    <3>1. q' = q
      BY <2>4, <2>5 DEF DeliverBatch
    <3> QED BY <2>1, <2>5, <3>1
  <2>6. CASE q.pend["header"][p] # <<>>
    <3>1. q'.pend = [q.pend EXCEPT !["header"][p] = <<>>]
      BY <2>3, <2>4, <2>6 DEF DeliverBatch
    <3>2. q'.tasks["header"] = q.tasks["header"]
            \/ q'.tasks["header"] = q.tasks["header"] \cup {q.pend["header"][p][1]}
      BY <1>0, <2>3, <2>4, <2>6 DEF DeliverBatch
    <3> QED BY <1>0, <2>1, <2>2, <2>3, <2>6, <3>1, <3>2
  <2> QED BY <2>5, <2>6
<1>3. /\ DOMAIN asked' = Kinds /\ \A l \in Kinds : DOMAIN asked'[l] = Peers
      /\ \A l \in Kinds, o \in Peers :
           /\ asked'[l][o] = IF l = "header" /\ o = p THEN Tail(asked["header"][p]) ELSE asked[l][o]
           /\ asked'[l][o] \in Seq(Questions)
  BY <1>0, <1>1, AnsweredIs
<1> HIDE DEF d
<1>4. PeerTypes'
  <2>1. <<>> \in Seq(Nat)
    OBVIOUS
  <2>2. \A l \in Kinds, o \in Peers : q'.pend[l][o] \in Seq(Nat)
    BY <1>0, <1>2, <2>1 DEF PeerTypes
  <2>3. DOMAIN busy' = Kinds /\ reg' \in SUBSET Peers /\ DOMAIN strays' = Kinds
    BY <1>0, <1>1 DEF PeerTypes
  <2> QED BY <1>2, <1>3, <2>2, <2>3 DEF PeerTypes
<1>5. ASSUME NEW l \in Kinds, NEW o \in Peers PROVE Returning(l, o)'
  <2>1. Returning(l, o)
    BY DEF PeerInv
  <2>2. CASE l = "header" /\ o = p
    <3>1. q'.pend[l][o] = <<>> /\ o \in reg' /\ o \notin busy'[l]
      BY <1>0, <1>1, <1>2, <2>2 DEF PeerTypes
    <3> QED BY <3>1 DEF Returning
  <2>3. CASE ~(l = "header" /\ o = p)
    <3>1. /\ q'.pend[l][o] = q.pend[l][o] /\ asked'[l][o] = asked[l][o]
          /\ reg' = reg /\ sync' = sync /\ strays' = strays
      BY <1>1, <1>2, <1>3, <2>3
    <3>2. o \in busy'[l] => o \in busy[l]
      BY <1>0, <1>1, <2>3 DEF PeerTypes
    <3> QED BY <2>1, <3>1, <3>2 DEF Returning
  <2> QED BY <2>2, <2>3
<1> QED BY <1>4, <1>5 DEF PeerInv

\* A reservation gives the peer what is sent to it, or changes no request.
LEMMA ReserveAsks ==
  ASSUME NEW x, QueueInv(x), x.tasks["header"] \in SUBSET Nat,
         NEW k \in Kinds, NEW p \in Peers, NEW count, NEW lacking,
         NEW z, z = Reserve(x, k, p, count, lacking)
  PROVE  /\ z.send \in Seq(Nat) /\ z.q.tasks["header"] \in SUBSET Nat
         /\ \A l \in Kinds, o \in Peers :
              z.q.pend[l][o] = IF l = k /\ o = p /\ z.send # <<>> THEN z.send ELSE x.pend[l][o]
<1>0. /\ WellFormed(x) /\ Unwanted(x) /\ DOMAIN x.pend = Kinds /\ DOMAIN x.tasks = Kinds
      /\ \A l \in Kinds : DOMAIN x.pend[l] = Peers
      /\ "pend" \in DOMAIN x /\ "tasks" \in DOMAIN x
  BY DEF QueueInv, WellFormed
<1>1. <<>> \in Seq(Nat)
  OBVIOUS
<1>2. CASE k = "header"
  <2> DEFINE open == x.tasks["header"] \ x.miss[p]
  <2>1. z = ReserveBatch(x, p)
    BY <1>2 DEF Reserve
  <2>2. CASE open = {} \/ x.pend["header"][p] # <<>>
    <3>1. z.send = <<>> /\ z.q = x
      BY <2>1, <2>2 DEF ReserveBatch
    <3> QED BY <1>1, <3>1
  <2>3. CASE ~(open = {} \/ x.pend["header"][p] # <<>>)
    <3>1. Lowest(open) \in Nat
      BY <2>3, LowestIs
    <3> DEFINE send == <<Lowest(open)>>
    <3>2. /\ z.send = send /\ send # <<>>
          /\ z.q = [x EXCEPT !.tasks["header"] = @ \ ToSet(send), !.pend["header"][p] = send]
      BY <2>1, <2>3 DEF ReserveBatch
    <3>3. send \in Seq(Nat)
      BY <3>1
    <3> HIDE DEF send, open
    <3>4. /\ z.q.tasks["header"] = x.tasks["header"] \ ToSet(send)
          /\ z.q.pend = [x.pend EXCEPT !["header"][p] = send]
      BY <1>0, <3>2, KindNames
    <3> QED BY <1>0, <1>2, <3>2, <3>3, <3>4
  <2> QED BY <2>2, <2>3
<1>3. CASE k # "header"
  <2>1. z = ReserveParts(x, k, p, count, lacking) /\ k \in Parts
    BY <1>3 DEF Reserve, Kinds, Parts
  <2>2. CASE x.tasks[k] = {} \/ x.pend[k][p] # <<>>
    <3>1. z.q = x /\ z.send = <<>>
      BY <2>1, <2>2 DEF ReserveParts
    <3> QED BY <1>1, <3>1
  <2>3. CASE x.tasks[k] # {} /\ x.pend[k][p] = <<>>
    <3> DEFINE r == ReserveLoop(x, k, count, lacking)
               y == [r.q EXCEPT !.tasks[k] = @ \cup r.skip, !.pend[k][p] = r.send]
    <3>1. k \in PartsOf(x.mode)
      BY <1>0, <2>1, <2>3 DEF Unwanted
    <3>2. LoopInv(x, k, r)
      BY <3>1, LoopResult
    <3>3. z.q = (IF r.invalid THEN r.q ELSE y) /\ z.send = r.send
      BY <2>1, <2>3 DEF ReserveParts
    <3> HIDE DEF r
    <3>4. /\ z.q = y /\ r.send \in Seq(Nat) /\ r.q.pend = x.pend
          /\ (\A l \in Kinds \ {k} : r.q.tasks[l] = x.tasks[l]) /\ WellFormed(r.q)
      BY <3>2, <3>3 DEF LoopInv, SameOthers, Split
    <3>5. /\ y.pend = [x.pend EXCEPT ![k][p] = r.send]
          /\ y.tasks["header"] = x.tasks["header"]
      BY <1>3, <3>4, KindNames DEF WellFormed
    <3> HIDE DEF y
    <3> QED BY <1>0, <2>3, <3>3, <3>4, <3>5
  <2> QED BY <2>1, <2>2, <2>3
<1> QED BY <1>2, <1>3

LEMMA AppendOf ==
  ASSUME NEW S, NEW s \in Seq(S), NEW e \in S
  PROVE  /\ Append(s, e) \in Seq(S) /\ Append(s, e) # <<>>
         /\ Append(s, e)[Len(Append(s, e))] = e
OBVIOUS

LEMMA AssignPeers ==
  ASSUME IInv, PeerInv, NEW k \in Kinds, NEW p \in Peers, NEW count, Assign(k, p, count),
         sync'.active = sync.active
  PROVE  PeerInv'
<1> DEFINE r == Reserve(q, k, p, count, lacks[p])
<1>0. PeerTypes /\ QueueInv(q) /\ q.tasks["header"] \in SUBSET Nat
  BY DEF IInv, PeerInv, PeerTypes
<1>1. r.invalid = FALSE
  <2>1. /\ r.invalid = FALSE
        /\ QueueInv(r.q) /\ Stays(q, r.q) /\ KeepsSkeleton(q, r.q)
        /\ \A l \in Parts : q.done[l] \subseteq r.q.done[l]
    BY <1>0, ReserveInv
  <2> QED BY <2>1
<1>2. /\ r.send \in Seq(Nat) /\ r.q.tasks["header"] \in SUBSET Nat
      /\ \A l \in Kinds, o \in Peers :
           r.q.pend[l][o] = IF l = k /\ o = p /\ r.send # <<>> THEN r.send ELSE q.pend[l][o]
  BY <1>0, ReserveAsks
<1>3. /\ UNCHANGED <<reg, strays>>
      /\ \/ UNCHANGED <<q, busy, asked>>
         \/ q' = r.q /\ r.send = <<>> /\ UNCHANGED <<busy, asked>>
         \/ q' = r.q /\ r.send # <<>> /\ Fetch(k, p, r.send)
  <2> HIDE DEF r
  <2>1. Assign(k, p, count) /\ r = Reserve(q, k, p, count, lacks[p])
    BY DEF r
  <2> QED BY <1>1, <2>1, Zenon DEF Assign
<1> HIDE DEF r
<1>4. CASE q'.tasks["header"] \in SUBSET Nat /\ UNCHANGED <<busy, asked>>
           /\ \A l \in Kinds, o \in Peers : q'.pend[l][o] = q.pend[l][o]
  <2>1. PeerTypes'
    BY <1>0, <1>3, <1>4 DEF PeerTypes
  <2>2. ASSUME NEW l \in Kinds, NEW o \in Peers PROVE Returning(l, o)'
    <3>1. Returning(l, o)
      BY DEF PeerInv
    <3> QED BY <1>3, <1>4, <3>1 DEF Returning
  <2> QED BY <2>1, <2>2 DEF PeerInv
<1>5. CASE q' = r.q /\ r.send # <<>> /\ Fetch(k, p, r.send)
  <2>0. r.send \in Questions
    BY <1>2, <1>5 DEF Questions
  <2>1. /\ busy' = [busy EXCEPT ![k] = @ \cup {p}]
        /\ asked' = [asked EXCEPT ![k][p] = IF p \in reg THEN Append(@, r.send) ELSE @]
    BY <1>5 DEF Fetch
  <2>2. \A l \in Kinds, o \in Peers :
          q'.pend[l][o] = IF l = k /\ o = p THEN r.send ELSE q.pend[l][o]
    BY <1>2, <1>5
  <2>3. /\ DOMAIN asked' = Kinds /\ DOMAIN busy' = Kinds
        /\ \A l \in Kinds : DOMAIN asked'[l] = Peers
        /\ \A l \in Kinds, o \in Peers :
             asked'[l][o] = IF l = k /\ o = p /\ p \in reg THEN Append(asked[k][p], r.send) ELSE asked[l][o]
        /\ \A l \in Kinds, o \in Peers : o \in busy'[l] => o \in busy[l] \/ (l = k /\ o = p)
    BY <1>0, <2>1 DEF PeerTypes
  <2>4. /\ Append(asked[k][p], r.send) \in Seq(Questions)
        /\ Append(asked[k][p], r.send)[Len(Append(asked[k][p], r.send))] = r.send
    BY <1>0, <2>0, AppendOf DEF PeerTypes
  <2>5. PeerTypes'
    <3>1. ASSUME NEW l \in Kinds, NEW o \in Peers
          PROVE  asked'[l][o] \in Seq(Questions) /\ q'.pend[l][o] \in Seq(Nat)
      <4>1. asked[l][o] \in Seq(Questions) /\ q.pend[l][o] \in Seq(Nat)
        BY <1>0 DEF PeerTypes
      <4>2. q'.pend[l][o] \in Seq(Nat)
        BY <1>2, <2>2, <4>1
      <4>3. asked'[l][o] \in Seq(Questions)
        BY <2>3, <2>4, <4>1
      <4> QED BY <4>2, <4>3
    <3> QED BY <1>0, <1>2, <1>3, <1>5, <2>3, <3>1 DEF PeerTypes
  <2>6. ASSUME NEW l \in Kinds, NEW o \in Peers PROVE Returning(l, o)'
    <3>1. Returning(l, o)
      BY DEF PeerInv
    <3>2. CASE l = k /\ o = p
      <4>1. /\ q'.pend[k][p] = r.send /\ reg' = reg
            /\ asked'[k][p] = IF p \in reg THEN Append(asked[k][p], r.send) ELSE asked[k][p]
        BY <1>3, <2>2, <2>3
      <4> QED BY <1>5, <2>4, <3>1, <3>2, <4>1 DEF Returning
    <3>3. CASE ~(l = k /\ o = p)
      <4>1. /\ q'.pend[l][o] = q.pend[l][o] /\ reg' = reg /\ strays' = strays
            /\ asked'[l][o] = asked[l][o] /\ (o \in busy'[l] => o \in busy[l])
        BY <1>3, <2>2, <2>3, <3>3
      <4> QED BY <3>1, <4>1 DEF Returning
    <3> QED BY <3>2, <3>3
  <2> QED BY <2>5, <2>6 DEF PeerInv
<1> QED BY <1>0, <1>2, <1>3, <1>4, <1>5

LEMMA StartPeers ==
  ASSUME PeerInv, NEW mode, Start(mode)
  PROVE  PeerInv'
<1>1. /\ q' = FreshQueue(mode, chain + 1, q.limit) /\ busy' = [k \in Kinds |-> {}]
      /\ strays' = [k \in Kinds |-> {}] /\ UNCHANGED <<reg, asked>>
  BY DEF Start, Prepare
<1>2. q'.tasks["header"] = {} /\ \A k \in Kinds, p \in Peers : q'.pend[k][p] = <<>>
  BY <1>1, KindNames DEF FreshQueue
<1>3. PeerTypes'
  <2>1. <<>> \in Seq(Nat) /\ {} \in SUBSET Nat
    OBVIOUS
  <2>2. DOMAIN busy' = Kinds /\ DOMAIN strays' = Kinds
    BY <1>1
  <2> QED BY <1>1, <1>2, <2>1, <2>2 DEF PeerInv, PeerTypes
<1>4. ASSUME NEW k \in Kinds, NEW p \in Peers PROVE Returning(k, p)'
  <2>1. Returning(k, p)
    BY DEF PeerInv
  <2> QED BY <1>1, <1>2, <2>1 DEF Returning
<1> QED BY <1>3, <1>4 DEF PeerInv

-----------------------------------------------------------------------------
(* A loop that runs belongs to a synchronisation that is not over. *)

\* Nothing is started, and what is reported as returned is off.
Stops ==
  /\ sync'.active = sync.active /\ {"active", "left"} \subseteq DOMAIN sync'
  /\ \A k \in Parts : /\ k \in sync'.left => k \in sync.left \/ fetch'[k].at = "off"
                      /\ fetch[k].at = "off" => fetch'[k].at = "off"
  /\ "headers" \in sync'.left => "headers" \in sync.left \/ header'.at = "off"
  /\ header.at = "off" => header'.at = "off"

LEMMA StopsEnded ==
  ASSUME Ended, Stops
  PROVE  Ended'
BY DEF Ended, Stops

LEMMA SameStops ==
  ASSUME Ended, UNCHANGED <<fetch, header>>,
         sync' = sync \/ (sync'.active = sync.active /\ sync'.left = sync.left
                            /\ DOMAIN sync' = DOMAIN sync)
  PROVE  Stops
BY DEF Ended, Stops

LEMMA ExitIs ==
  ASSUME Ended, NEW w, NEW err, Exit(w, err)
  PROVE  /\ sync'.active = sync.active /\ {"active", "left"} \subseteq DOMAIN sync'
         /\ sync'.left = sync.left \cup {w}
BY DEF Ended, Exit

LEMMA ReturnStops ==
  ASSUME HeaderTypes, Ended, NEW k \in Kinds, fetch[k].at # "off", NEW err, Return(k, err)
  PROVE  Stops
<1>0. DOMAIN fetch = Kinds /\ (fetch["header"].at # "off" => header.at = "fill")
      /\ DOMAIN header = {"at", "from", "rest", "skeleton"}
  BY DEF HeaderTypes
<1>1. /\ fetch'[k].at = "off" /\ \A l \in Kinds \ {k} : fetch'[l] = fetch[l]
  BY <1>0, OffAt DEF Return
<1>2. CASE k # "header"
  <2>1. Exit(k, err) /\ header' = header /\ k \in Parts /\ k # "headers"
    BY <1>2 DEF Return, Kinds, Parts
  <2>2. /\ sync'.active = sync.active /\ {"active", "left"} \subseteq DOMAIN sync'
        /\ sync'.left = sync.left \cup {k}
    BY <2>1, ExitIs
  <2> QED BY <1>1, <2>1, <2>2, KindNames DEF Stops
<1>3. CASE k = "header" /\ err # "none"
  <2>1. Exit("headers", "invalidChain") /\ header'.at = "off"
    BY <1>3, NoHeadersIs DEF Return
  <2>2. /\ sync'.active = sync.active /\ {"active", "left"} \subseteq DOMAIN sync'
        /\ sync'.left = sync.left \cup {"headers"}
    BY <2>1, ExitIs
  <2>3. \A l \in Parts : l # "headers" /\ l # k /\ l \in Kinds
    BY <1>3 DEF Parts, Kinds
  <2> QED BY <1>1, <2>1, <2>2, <2>3 DEF Stops
<1>4. CASE k = "header" /\ ~(err # "none")
  <2>1. sync' = sync /\ header.at = "fill"
    BY <1>0, <1>4 DEF Return
  <2>2. \A l \in Parts : l # k /\ l \in Kinds
    BY <1>4 DEF Parts, Kinds
  <2>3. {"active", "left"} \subseteq DOMAIN sync
    BY DEF Ended
  <2> QED BY <1>1, <2>1, <2>2, <2>3 DEF Stops
<1> QED BY <1>2, <1>3, <1>4

\* The loop of kind k goes on.
LEMMA GoesOn ==
  ASSUME HeaderTypes, Ended, NEW k \in Kinds, fetch[k].at # "off", NEW f,
         fetch' = [fetch EXCEPT ![k] = f], UNCHANGED <<header, sync>>
  PROVE  Stops
<1>0. DOMAIN fetch = Kinds
  BY DEF HeaderTypes
<1>1. \A l \in Kinds : fetch[l].at = "off" => fetch'[l].at = "off"
  BY <1>0
<1> QED BY <1>1, KindNames DEF Stops, Ended

LEMMA ContinueStops ==
  ASSUME HeaderTypes, Ended, NEW k \in Kinds, fetch[k].at # "off", NEW f, Continue(k, f)
  PROVE  Stops
<1>1. CASE Return(k, "peersUnavailable")
  BY <1>1, ReturnStops
<1>2. CASE ~Return(k, "peersUnavailable")
  <2>1. /\ UNCHANGED <<header, sync>>
        /\ \E g : fetch' = [fetch EXCEPT ![k] = g]
    BY <1>2 DEF Continue
  <2> QED BY <2>1, GoesOn
<1> QED BY <1>1, <1>2

LEMMA QuietPeers ==
  ASSUME PeerInv, Ended, UNCHANGED <<q, peerVars>>, Stops
  PROVE  PeerInv' /\ Ended'
<1>1. q'.pend = q.pend /\ q'.tasks["header"] \in SUBSET Nat /\ UNCHANGED peerVars
  BY DEF PeerInv, PeerTypes
<1>2. sync'.active => sync.active
  BY DEF Stops
<1> QED BY <1>1, <1>2, PeersSame, StopsEnded

-----------------------------------------------------------------------------
(* The steps. *)

LEMMA FetchStepPeers ==
  ASSUME IInv, PeerInv, Ended, NEW k \in Kinds, FetchStep(k)
  PROVE  PeerInv' /\ Ended'
<1>0. HeaderTypes
  BY DEF IInv, HeaderInv
<1>1. CASE Wake(k)
  <2>1. /\ fetch[k].at = "select" /\ UNCHANGED <<q, peerVars, header, sync>>
        /\ \E f : fetch' = [fetch EXCEPT ![k] = f]
    BY <1>1 DEF Wake, workers
  <2> QED BY <1>0, <2>1, GoesOn, QuietPeers
<1>2. CASE NoPeers(k)
  <2>1. fetch[k].at # "off" /\ Return(k, "noPeers") /\ UNCHANGED <<q, peerVars>>
    BY <1>2 DEF NoPeers
  <2> QED BY <1>0, <2>1, ReturnStops, QuietPeers
<1>3. CASE Drained(k)
  <2>1. fetch[k].at # "off" /\ UNCHANGED <<q, peerVars>>
    BY <1>3 DEF Drained
  <2>2. CASE Return(k, "none")
    BY <1>0, <2>1, <2>2, ReturnStops, QuietPeers
  <2>3. CASE ~Return(k, "none")
    <3>1. (\E f : fetch' = [fetch EXCEPT ![k] = f]) /\ UNCHANGED <<header, sync>>
      BY <1>3, <2>3 DEF Drained
    <3> QED BY <1>0, <2>1, <3>1, GoesOn, QuietPeers
  <2> QED BY <2>2, <2>3
<1>4. ASSUME NEW E \in SUBSET Peers, Round(k, E) PROVE PeerInv' /\ Ended'
  <2> DEFINE drop == Stalling(k, E)
             x == Requeue(q, k, E)
             qq == Revoke(x, drop)
             free == (reg \ drop) \ (busy[k] \ E)
             empty == [fetch[k] EXCEPT !.at = IF fetch[k].finished THEN "drained" ELSE "select"]
             ready == [fetch[k] EXCEPT !.at = "assign", !.idles = free,
                              !.full = (free = reg \ drop), !.running = InFlight(qq, k),
                              !.present = reg \ drop]
  <2>1. drop \in SUBSET Peers
    BY DEF Stalling
  <2>2. /\ Unregister(drop, x, k) /\ fetch[k].at = "select" /\ strays' = strays
        /\ busy' = [busy EXCEPT ![k] = @ \ E]
        /\ IF qq.tasks[k] # {} THEN Continue(k, ready)
           ELSE fetch' = [fetch EXCEPT ![k] = empty] /\ UNCHANGED <<header, sync>>
    BY <1>4 DEF Round
  <2> HIDE DEF drop, x, qq, free, empty, ready
  <2>3. Stops
    <3>1. CASE Continue(k, ready)
      BY <1>0, <2>2, <3>1, ContinueStops
    <3>2. CASE fetch' = [fetch EXCEPT ![k] = empty] /\ UNCHANGED <<header, sync>>
      BY <1>0, <2>2, <3>2, GoesOn
    <3> QED BY <2>2, <3>1, <3>2
  <2>4. /\ DOMAIN busy' = Kinds
        /\ \A m \in Kinds : busy'[m] = IF m = k THEN busy[m] \ E ELSE busy[m]
    BY <2>2 DEF PeerInv, PeerTypes
  <2>5. sync'.active => sync.active
    BY <2>3 DEF Stops
  <2>6. x = Requeue(q, k, E)
    BY DEF x
  <2>7. PeerInv'
    BY <2>1, <2>2, <2>4, <2>5, <2>6, UnregisterPeers
  <2> QED BY <2>3, <2>7, StopsEnded
<1>5. ASSUME NEW p \in Peers, NEW count \in Counts, Assign(k, p, count) PROVE PeerInv' /\ Ended'
  <2> DEFINE f == fetch[k]
             r == Reserve(q, k, p, count, lacks[p])
  <2>0. fetch[k].at = "assign"
    BY <1>5 DEF Assign
  <2>1. (\E g : Continue(k, g)) \/ Return(k, "invalidChain")
    <3> DEFINE g1 == [f EXCEPT !.idles = {}, !.throttled = TRUE]
               g2 == [f EXCEPT !.idles = {}]
               g3 == [f EXCEPT !.idles = @ \ {p}, !.progressed = @ \/ r.progress,
                               !.running = @ \/ r.send # <<>>]
    <3>1. Continue(k, g1) \/ Continue(k, g2) \/ Continue(k, g3) \/ Return(k, "invalidChain")
      BY <1>5, Zenon DEF Assign
    <3> HIDE DEF g1, g2, g3
    <3> QED BY <3>1
  <2>2. Stops
    BY <1>0, <2>0, <2>1, ContinueStops, ReturnStops
  <2>3. sync'.active = sync.active
    BY <2>2 DEF Stops
  <2> QED BY <1>5, <2>2, <2>3, AssignPeers, StopsEnded
<1> QED BY <1>1, <1>2, <1>3, <1>4, <1>5 DEF FetchStep

LEMMA DeliveryPeers ==
  ASSUME IInv, PeerInv, Ended, NEW k \in Kinds, NEW p \in Peers, Delivery(k, p)
  PROVE  PeerInv' /\ Ended'
<1>0. HeaderTypes
  BY DEF IInv, HeaderInv
<1>1. ASSUME k \in Parts, NEW answer, DeliverPart(k, p, answer) PROVE PeerInv' /\ Ended'
  <2>1. fetch[k].at # "off" /\ (Return(k, "invalidChain") \/ UNCHANGED <<fetch, header, sync>>)
    BY <1>1 DEF DeliverPart
  <2>2. Stops
    BY <1>0, <2>1, ReturnStops, SameStops
  <2> QED BY <1>1, <2>2, DeliverPartPeers, StopsEnded
<1>2. ASSUME k = "header", NEW fits \in BOOLEAN, DeliverHeaders(p, fits) PROVE PeerInv' /\ Ended'
  <2>1. /\ fetch["header"].at # "off" /\ UNCHANGED <<header, sync>>
        /\ \E f : fetch' = [fetch EXCEPT !["header"] = f]
    BY <1>2 DEF DeliverHeaders
  <2>2. Stops
    BY <1>0, <2>1, GoesOn, KindNames
  <2> QED BY <1>2, <2>2, DeliverHeadersPeers, StopsEnded
<1> QED BY <1>1, <1>2 DEF Delivery

\* A peer leaves, for whatever reason.
LEMMA DropPeers ==
  ASSUME IInv, PeerInv, NEW P \in SUBSET Peers, Unregister(P, q, "none"),
         UNCHANGED <<busy, strays>>, sync'.active => sync.active
  PROVE  PeerInv'
<1>1. /\ DOMAIN busy' = Kinds
      /\ \A m \in Kinds : busy'[m] = IF m = "header" THEN busy[m] \ {} ELSE busy[m]
  BY DEF PeerInv, PeerTypes
<1>2. PICK E \in SUBSET Peers : E = {}
  OBVIOUS
<1>3. \A m \in Kinds : busy'[m] = IF m = "header" THEN busy[m] \ E ELSE busy[m]
  BY <1>1, <1>2
<1>4. PICK x : x = q
  OBVIOUS
<1>5. Unregister(P, x, "none")
  BY <1>4
<1> QED BY <1>1, <1>2, <1>3, <1>4, <1>5, UnregisterPeers, KindNames

LEMMA PeerStepPeers ==
  ASSUME IInv, PeerInv, Ended, PeerStep
  PROVE  PeerInv' /\ Ended'
<1>0. HeaderTypes /\ {"active", "left"} \subseteq DOMAIN sync
  BY DEF IInv, HeaderInv, Ended
<1>1. ASSUME NEW k \in Kinds, NEW p \in Peers, Discard(k, p) PROVE PeerInv' /\ Ended'
  <2>1. UNCHANGED <<fetch, header, sync>>
    BY <1>1 DEF Discard, workers
  <2> QED BY <1>1, <2>1, DiscardPeers, SameStops, StopsEnded
<1>2. ASSUME ImportFailed \/ EndContent PROVE PeerInv' /\ Ended'
  <2>1. UNCHANGED <<q, peerVars, fetch, header>> /\ \E err : Exit("content", err)
    BY <1>2 DEF ImportFailed, EndContent
  <2>2. /\ sync'.active = sync.active /\ {"active", "left"} \subseteq DOMAIN sync'
        /\ sync'.left = sync.left \cup {"content"}
    BY <2>1, ExitIs
  <2>3. \A k \in Parts : k # "content"
    BY DEF Parts
  <2>4. Stops
    BY <2>1, <2>2, <2>3 DEF Stops
  <2> QED BY <2>1, <2>4, QuietPeers
<1>3. ASSUME Cancel \/ CancelMaster PROVE PeerInv' /\ Ended'
  <2>1. UNCHANGED <<q, peerVars, fetch, header>> /\ sync' = [sync EXCEPT !.cancelled = TRUE]
    BY <1>3 DEF Cancel, CancelMaster, workers
  <2>2. sync'.active = sync.active /\ sync'.left = sync.left /\ DOMAIN sync' = DOMAIN sync
    BY <1>0, <2>1
  <2> QED BY <2>1, <2>2, SameStops, QuietPeers
<1>4. ASSUME NEW p \in Peers, Connect(p) PROVE PeerInv' /\ Ended'
  <2>1. UNCHANGED <<header, sync>>
    BY <1>4 DEF Connect, workers
  <2>2. \A k \in Parts : fetch'[k].at = fetch[k].at
    BY <1>0, <1>4, ConnectKeeps, KindNames
  <2>3. Stops
    BY <1>0, <2>1, <2>2 DEF Stops
  <2> QED BY <1>4, <2>3, ConnectPeers, StopsEnded
<1>5. ASSUME NEW p \in Peers, Disconnect(p) PROVE PeerInv' /\ Ended'
  <2>1. Unregister({p}, q, "none") /\ UNCHANGED <<busy, strays, fetch, header, sync>>
    BY <1>5 DEF Disconnect, workers
  <2> QED BY <2>1, DropPeers, SameStops, StopsEnded
<1>6. ASSUME EndSync PROVE PeerInv' /\ Ended'
  <2> DEFINE drop == IF sync.err \in Penalised /\ Master \in reg THEN {Master} ELSE {}
  <2>1. drop \in SUBSET Peers
    BY DownloaderAssumption
  <2>2. /\ Unregister(drop, q, "none") /\ UNCHANGED <<busy, strays, fetch, header>>
        /\ sync.active /\ sync.left = Workers
        /\ sync' = [sync EXCEPT !.active = FALSE, !.cancelled = TRUE,
                                !.outcome = IF sync.err = "none" THEN "ok" ELSE "failed"]
    BY <1>6 DEF EndSync, workers
  <2>3. sync'.active = FALSE /\ {"active", "left"} \subseteq DOMAIN sync'
    BY <1>0, <2>2
  <2>4. PeerInv'
    BY <2>1, <2>2, <2>3, DropPeers
  <2>5. (\A k \in Parts : fetch'[k].at = "off") /\ header'.at = "off"
    BY <2>2 DEF Ended, Workers
  <2> QED BY <2>3, <2>4, <2>5 DEF Ended
<1> QED BY <1>1, <1>2, <1>3, <1>4, <1>5, <1>6 DEF PeerStep

LEMMA WakeStops ==
  ASSUME HeaderTypes, WakeFetchers
  PROVE  \A k \in Kinds : fetch'[k].at = fetch[k].at
BY DEF HeaderTypes, WakeFetchers

LEMMA HeaderStepPeers ==
  ASSUME IInv, PeerInv, Ended, HeaderStep \/ HeaderTimeout
  PROVE  PeerInv' /\ Ended'
<1>0. HeaderTypes /\ {"active", "left"} \subseteq DOMAIN sync /\ QueueInv(q) /\ WellFormed(q)
      /\ DOMAIN header = {"at", "from", "rest", "skeleton"} /\ header.from \in Nat
  BY DEF IInv, HeaderInv, Ended, QueueInv, HeaderTypes
<1>1. ASSUME NEW count \in 0 .. MaxSkeleton, Skeleton(count) PROVE PeerInv' /\ Ended'
  <2>1. /\ header.at = "skeleton" /\ UNCHANGED <<peerVars, sync>>
        /\ \/ UNCHANGED <<q, fetch>>
           \/ q' = ScheduleSkeleton(q, header.from, count) /\ fetch' = [fetch EXCEPT !["header"] = AtSelect(Off)]
    BY <1>1 DEF Skeleton
  <2>2. q'.pend = q.pend /\ q'.tasks["header"] \in SUBSET Nat
    <3>1. CASE UNCHANGED <<q, fetch>>
      BY <3>1 DEF PeerInv, PeerTypes
    <3>2. CASE q' = ScheduleSkeleton(q, header.from, count)
      <4> DEFINE starts == {header.from + i * MaxHeaderFetch : i \in 0 .. count - 1}
      <4>1. starts \in SUBSET Nat
        <5>1. count \in Nat
          BY DownloaderAssumption
        <5>2. \A i \in 0 .. count - 1 : header.from + i * MaxHeaderFetch \in Nat
          BY <1>0, <5>1, QueueAssumption
        <5> QED BY <5>2
      <4>2. q'.tasks["header"] = starts /\ q'.pend = q.pend
        BY <1>0, <3>2, KindNames DEF ScheduleSkeleton, WellFormed
      <4> QED BY <4>1, <4>2
    <3> QED BY <2>1, <3>1, <3>2
  <2>3. PeerInv'
    BY <2>1, <2>2, PeersSame
  <2>4. \A k \in Parts : fetch'[k] = fetch[k]
    BY <1>0, <2>1, KindNames DEF HeaderTypes
  <2>5. Stops
    BY <1>0, <2>1, <2>4 DEF Stops
  <2> QED BY <2>3, <2>5, StopsEnded
<1>2. ASSUME (\E count \in 0 .. MaxHeaderFetch : TailHeaders(count)) \/ PushHeaders
      PROVE  PeerInv' /\ Ended'
  <2>1. header.at # "off" /\ UNCHANGED <<q, peerVars, fetch, sync>>
    BY <1>2 DEF TailHeaders, PushHeaders
  <2>2. Stops
    BY <1>0, <2>1 DEF Stops
  <2> QED BY <2>1, <2>2, QuietPeers
<1>3. ASSUME EndHeaders PROVE PeerInv' /\ Ended'
  <2>1. header'.at = "off" /\ Exit("headers", "none") /\ UNCHANGED <<q, peerVars, fetch>>
    BY <1>0, <1>3 DEF EndHeaders
  <2>2. /\ sync'.active = sync.active /\ {"active", "left"} \subseteq DOMAIN sync'
        /\ sync'.left = sync.left \cup {"headers"}
    BY <2>1, ExitIs
  <2>3. \A k \in Parts : k # "headers"
    BY DEF Parts
  <2>4. Stops
    BY <2>1, <2>2, <2>3 DEF Stops
  <2> QED BY <2>1, <2>4, QuietPeers
<1>4. ASSUME HeaderTimeout PROVE PeerInv' /\ Ended'
  <2>1. /\ header'.at = "off" /\ Exit("headers", "badPeer") /\ WakeFetchers
        /\ Unregister({Master}, q, "none") /\ UNCHANGED <<busy, strays>>
    BY <1>4, NoHeadersIs DEF HeaderTimeout
  <2>2. /\ sync'.active = sync.active /\ {"active", "left"} \subseteq DOMAIN sync'
        /\ sync'.left = sync.left \cup {"headers"}
    BY <2>1, ExitIs
  <2>3. \A k \in Parts : k # "headers" /\ fetch'[k].at = fetch[k].at
    <3>1. \A k \in Kinds : fetch'[k].at = fetch[k].at
      BY <1>0, <2>1, WakeStops
    <3> QED BY <3>1 DEF Parts, Kinds
  <2>4. Stops
    BY <2>1, <2>2, <2>3 DEF Stops
  <2>5. PeerInv'
    BY <2>1, <2>2, DownloaderAssumption, DropPeers
  <2> QED BY <2>4, <2>5, StopsEnded
<1> QED BY <1>1, <1>2, <1>3, <1>4 DEF HeaderStep

LEMMA HandStepPeers ==
  ASSUME IInv, PeerInv, Ended, HandStep
  PROVE  PeerInv' /\ Ended'
<1>0. HeaderTypes /\ {"active", "left"} \subseteq DOMAIN sync /\ DOMAIN fetch = Kinds
  BY DEF IInv, HeaderInv, Ended, HeaderTypes
<1>1. ASSUME TakeHeaders PROVE PeerInv' /\ Ended'
  <2>1. UNCHANGED <<q, peerVars, fetch, header, sync>>
    BY <1>1 DEF TakeHeaders
  <2> QED BY <2>1, SameStops, QuietPeers
<1>2. ASSUME BadHeader \/ \E err \in {"none", "stalling"} : FinishHeaders(err)
      PROVE  PeerInv' /\ Ended'
  <2>1. /\ UNCHANGED <<q, peerVars, header>> /\ \E err : Exit("process", err)
        /\ WakeFetchers \/ fetch' = fetch
    BY <1>2 DEF BadHeader, FinishHeaders
  <2>2. /\ sync'.active = sync.active /\ {"active", "left"} \subseteq DOMAIN sync'
        /\ sync'.left = sync.left \cup {"process"}
    BY <2>1, ExitIs
  <2>3. \A k \in Parts : k # "process" /\ fetch'[k].at = fetch[k].at
    <3>1. \A k \in Kinds : fetch'[k].at = fetch[k].at
      BY <1>0, <2>1, WakeStops
    <3> QED BY <3>1 DEF Parts, Kinds
  <2>4. Stops
    BY <2>1, <2>2, <2>3 DEF Stops
  <2> QED BY <2>1, <2>4, QuietPeers
<1>3. ASSUME NEW err, Quit(err) PROVE PeerInv' /\ Ended'
  <2> DEFINE C == Cancelling
  <2>1. /\ sync' = [sync EXCEPT !.left = @ \cup C, !.err = IF @ = "none" THEN err ELSE @]
        /\ fetch' = [k \in Kinds |-> IF k \in C \/ (k = "header" /\ "headers" \in C)
                                     THEN Off ELSE fetch[k]]
        /\ header' = IF "headers" \in C THEN NoHeaders ELSE header
        /\ UNCHANGED <<q, peerVars>>
    BY <1>3 DEF Quit
  <2> HIDE DEF C
  <2>2. sync'.active = sync.active /\ sync'.left = sync.left \cup C /\ DOMAIN sync' = DOMAIN sync
    BY <1>0, <2>1
  <2>3. \A k \in Parts : (k \in C => fetch'[k].at = "off") /\ (fetch[k].at = "off" => fetch'[k].at = "off")
    BY <2>1, OffAt, KindNames
  <2>4. ("headers" \in C => header'.at = "off") /\ (header.at = "off" => header'.at = "off")
    BY <2>1, NoHeadersIs
  <2>5. Stops
    BY <1>0, <2>2, <2>3, <2>4 DEF Stops
  <2> QED BY <2>1, <2>5, QuietPeers
<1> QED BY <1>1, <1>2, <1>3 DEF HandStep

\* Headers are scheduled and finished blocks leave: no request changes.
LEMMA QueueStepPeers ==
  ASSUME IInv, PeerInv, Ended, ScheduleStep \/ \E limit, upto : TakeContent(limit, upto)
  PROVE  PeerInv' /\ Ended'
<1>0. WellFormed(q) /\ q.tasks["header"] \in SUBSET Nat /\ {"active", "left"} \subseteq DOMAIN sync
  BY DEF IInv, QueueInv, PeerInv, PeerTypes, Ended
<1>1. UNCHANGED <<peerVars, fetch, header>> /\ (sync' = sync \/ \E err : Exit("process", err))
  BY DEF ScheduleStep, ScheduleChunk, StaleHeaders, TakeContent
<1>2. q'.pend = q.pend /\ q'.tasks["header"] = q.tasks["header"]
  <2>1. \A mode : "header" \notin PartsOf(mode)
    BY PartsOfParts, KindNames
  <2>2. ASSUME NEW count PROVE Schedule(q, count).pend = q.pend
                               /\ Schedule(q, count).tasks["header"] = q.tasks["header"]
    BY <1>0, <2>1, KindNames DEF WellFormed, Schedule
  <2>3. ASSUME NEW count, NEW limit PROVE TakeResults(q, count, limit).pend = q.pend
                                          /\ TakeResults(q, count, limit).tasks = q.tasks
    BY <1>0 DEF WellFormed, TakeResults
  <2>4. \/ \E count : q' = Schedule(q, count)
        \/ \E count, limit : q' = TakeResults(q, count, limit)
    BY Zenon DEF ScheduleStep, ScheduleChunk, StaleHeaders, TakeContent
  <2> QED BY <2>2, <2>3, <2>4
<1>3. Stops /\ (sync'.active => sync.active)
  <2>1. CASE sync' = sync
    BY <1>1, <2>1, SameStops
  <2>2. CASE \E err : Exit("process", err)
    <3>1. /\ sync'.active = sync.active /\ {"active", "left"} \subseteq DOMAIN sync'
          /\ sync'.left = sync.left \cup {"process"}
      BY <1>0, <2>2, ExitIs
    <3>2. "process" \notin Parts
      BY DEF Parts
    <3> QED BY <1>1, <3>1, <3>2 DEF Stops
  <2> QED BY <1>1, <2>1, <2>2
<1> QED BY <1>0, <1>1, <1>2, <1>3, PeersSame, StopsEnded

LEMMA StartEnded ==
  ASSUME NEW mode, Start(mode)
  PROVE  Ended'
<1>1. sync' = [active |-> TRUE, cancelled |-> FALSE, left |-> {}, err |-> "none",
               outcome |-> "none", origin |-> chain, syncs |-> sync.syncs + 1]
  BY DEF Start
<1> QED BY <1>1 DEF Ended

LEMMA InitPeers == Init => PeerInv /\ Ended
<1> SUFFICES ASSUME Init PROVE PeerInv /\ Ended
  OBVIOUS
<1>1. PICK mode \in Modes : q = FreshQueue(mode, 1, CacheSize)
  BY DEF Init
<1>2. q.tasks["header"] = {} /\ \A k \in Kinds, p \in Peers : q.pend[k][p] = <<>>
  BY <1>1, KindNames DEF FreshQueue
<1>3. /\ busy = [k \in Kinds |-> {}] /\ asked = [k \in Kinds |-> [p \in Peers |-> <<>>]]
      /\ strays = [k \in Kinds |-> {}] /\ fetch = [k \in Kinds |-> Off] /\ header = NoHeaders
      /\ sync = Idle /\ reg \in SUBSET Peers
  BY DEF Init
<1>4. <<>> \in Seq(Questions) /\ <<>> \in Seq(Nat) /\ {} \in SUBSET Nat
  OBVIOUS
<1>5. PeerTypes
  BY <1>2, <1>3, <1>4 DEF PeerTypes
<1>6. \A k \in Kinds, p \in Peers : Returning(k, p)
  BY <1>2, <1>3 DEF Returning
<1>7. Ended
  BY <1>3, OffAt, NoHeadersIs, KindNames DEF Ended, Idle
<1> QED BY <1>5, <1>6, <1>7 DEF PeerInv

LEMMA NextPeers ==
  ASSUME IInv, PeerInv, Ended, Next
  PROVE  PeerInv' /\ Ended'
<1>1. \/ \E k \in Kinds : FetchStep(k)
      \/ \E k \in Kinds, p \in Peers : Delivery(k, p)
      \/ PeerStep \/ HeaderStep \/ HeaderTimeout \/ HandStep
      \/ ScheduleStep \/ \E limit, upto : TakeContent(limit, upto)
      \/ \E mode \in Modes : Start(mode)
  BY Zenon DEF Next, PeerStep, HandStep, ScheduleStep, ProcessStep, ContentStep
<1>2. CASE \E k \in Kinds : FetchStep(k)
  BY <1>2, FetchStepPeers
<1>3. CASE \E k \in Kinds, p \in Peers : Delivery(k, p)
  BY <1>3, DeliveryPeers
<1>4. CASE PeerStep
  BY <1>4, PeerStepPeers
<1>5. CASE HeaderStep \/ HeaderTimeout
  BY <1>5, HeaderStepPeers
<1>6. CASE HandStep
  BY <1>6, HandStepPeers
<1>7. CASE ScheduleStep \/ \E limit, upto : TakeContent(limit, upto)
  BY <1>7, QueueStepPeers
<1>8. CASE \E mode \in Modes : Start(mode)
  BY <1>8, StartPeers, StartEnded
<1> QED BY <1>1, <1>2, <1>3, <1>4, <1>5, <1>6, <1>7, <1>8, Zenon

LEMMA StutterPeers ==
  ASSUME PeerInv, Ended, UNCHANGED vars
  PROVE  PeerInv' /\ Ended'
<1>1. UNCHANGED <<q, peerVars, fetch, header, sync>>
  BY DEF vars, workers
<1> QED BY <1>1, SameStops, QuietPeers

\* No late, partial or empty answer takes a peer out of use: a peer that is busy
\* has a request, owes an answer, or once sent what was not asked for.  The answer
\* of a request that timed out is stale only while the question of the present
\* request is open (fetchParts: no setIdle on errStaleDelivery; deliver, expire).
THEOREM PeersComeBack == Spec => []HonestPeersReturn
<1>1. Init => IInv /\ PeerInv /\ Ended
  BY InitInv, InitPeers
<1>2. IInv /\ PeerInv /\ Ended /\ [Next]_vars => (IInv /\ PeerInv /\ Ended)'
  BY NextInv, StutterInv, NextPeers, StutterPeers
<1>3. IInv /\ PeerInv /\ Ended => HonestPeersReturn
  <2> SUFFICES ASSUME IInv, PeerInv, Ended, NEW k \in Kinds, fetch[k].at # "off",
                      NEW p \in (reg \cap busy[k]) \ strays[k]
               PROVE  q.pend[k][p] # <<>> \/ asked[k][p] # <<>>
    BY DEF HonestPeersReturn
  <2>0. p \in Peers
    BY DEF PeerInv, PeerTypes
  <2>1. sync.active
    <3>1. CASE k \in Parts
      BY <3>1 DEF Ended
    <3>2. CASE k = "header"
      <4>1. header.at = "fill"
        BY <3>2 DEF IInv, HeaderInv, HeaderTypes
      <4> QED BY <4>1 DEF Ended
    <3> QED BY <3>1, <3>2 DEF Kinds
  <2>2. Returning(k, p)
    BY <2>0 DEF PeerInv
  <2> QED BY <2>1, <2>2 DEF Returning
<1> QED BY <1>1, <1>2, <1>3, PTL DEF Spec
-----------------------------------------------------------------------------
(* A synchronisation that reports success is complete.  Its goroutines leave in *)
(* an order: fetchHeaders when all headers are on their way, processHeaders     *)
(* when they are scheduled, the fetchers when nothing is left to fetch, the     *)
(* content processor when nothing is left to import.                            *)

Finished(k) == \A n \in q.offset .. q.headed : n \in q.done[k] \/ n \in raced

\* Headers came, in a first fast synchronisation all that were promised.
Headed ==
  /\ q.headed > sync.origin
  /\ q.mode = "fast" /\ sync.syncs = 1 => q.headed = Height

Imported == chain = q.headed \/ chain + 1 \in raced

\* No header is lost on its way, and their end is told after the last one.
HeadersFlow ==
  /\ sync.origin \in Nat /\ sync.origin < Height
  /\ header.at = "fill" => q.headed + Held + 1 = header.from + q.proced
  /\ header.at # "fill" => q.headed + Held + 1 = header.from
  /\ procCh # <<>> /\ procCh[1] = 0 => header.at = "off"
  /\ "process" \in sync.left => header.at = "off" /\ Held = 0 /\ Headed

\* A fetcher is told of the end only when all headers are scheduled, and it leaves
\* with everything fetched but what was revoked between its two reads.
PartFlow(k) ==
  /\ fetch[k].at # "off" /\ (fetch[k].wake \/ fetch[k].finished) => "process" \in sync.left
  /\ fetch[k].at = "drained" => "process" \in sync.left /\ q.tasks[k] \subseteq raced
  /\ k \in sync.left => "process" \in sync.left /\ Finished(k)

ContentFlow ==
  /\ content = "take" => chain = q.offset - 1
  /\ "content" \in sync.left => "process" \in sync.left /\ Imported

Flows == HeadersFlow /\ ContentFlow /\ \A k \in PartsOf(q.mode) : PartFlow(k)

Shaped == DOMAIN fetch = Kinds /\ \A k \in Kinds : DOMAIN fetch[k] = DOMAIN Off

\* What has returned has stopped.
Exits ==
  /\ DOMAIN sync = DOMAIN Idle /\ sync.left \subseteq Workers
  /\ ~sync.active \/ "process" \in sync.left => proc.at = "off"
  /\ ~sync.active \/ "content" \in sync.left => content = "off"

Outcome ==
  sync.outcome = "ok" => ~sync.active /\ q.headed + 1 = header.from /\ Headed /\ Imported

FlowInv ==
  /\ Shaped /\ Exits /\ Outcome
  /\ sync.active /\ sync.err = "none" => Flows

\* The cancel channel apart, the synchronisation is where it was.
SameSync ==
  /\ DOMAIN sync' = DOMAIN sync
  /\ sync'.active = sync.active /\ sync'.left = sync.left
  /\ sync'.err = sync.err /\ sync'.outcome = sync.outcome
  /\ sync'.origin = sync.origin /\ sync'.syncs = sync.syncs

\* Goroutine w returns err.
Returns(w, err) ==
  /\ DOMAIN sync' = DOMAIN sync
  /\ sync'.active = sync.active /\ sync'.left = sync.left \cup {w}
  /\ sync'.err = (IF sync.err = "none" THEN err ELSE sync.err) /\ sync'.outcome = sync.outcome
  /\ sync'.origin = sync.origin /\ sync'.syncs = sync.syncs

\* The loop of kind k is not touched.
Rests(k) ==
  /\ fetch'[k].at = fetch[k].at /\ fetch'[k].wake = fetch[k].wake
  /\ fetch'[k].finished = fetch[k].finished
  /\ fetch[k].at = "drained" => q'.tasks[k] \subseteq q.tasks[k] \cup raced'

\* The loop of kind k goes on, and not because of an empty queue.
Rounds(k) ==
  /\ fetch[k].at # "off" /\ fetch'[k].at # "drained"
  /\ (fetch'[k].wake \/ fetch'[k].finished) => (fetch[k].wake \/ fetch[k].finished)

LEMMA SyncFields ==
  DOMAIN Idle = {"active", "cancelled", "left", "err", "outcome", "origin", "syncs"}
BY DEF Idle

LEMMA FetchFields ==
  DOMAIN Off = {"at", "wake", "finished", "idles", "full", "progressed", "throttled", "running", "present"}
BY DEF Off

LEMMA ExitReturns ==
  ASSUME Exits, NEW w, NEW err, Exit(w, err)
  PROVE  Returns(w, err)
BY SyncFields DEF Exits, Exit, Returns

LEMMA ReturnsExits ==
  ASSUME Exits, NEW w \in Workers \ {"process", "content"}, NEW err, Returns(w, err),
         UNCHANGED <<proc, content>>
  PROVE  Exits'
BY DEF Exits, Returns

\* An error takes away every claim but that about the outcome.
LEMMA FailedFlow ==
  ASSUME FlowInv, sync.active, sync'.active, sync'.err # "none", sync'.outcome = sync.outcome,
         Shaped', Exits'
  PROVE  FlowInv'
BY DEF FlowInv, Outcome

LEMMA RestsFlow ==
  ASSUME NEW k \in Parts, PartFlow(k), Rests(k), Grows, sync'.left = sync.left, raced \subseteq raced'
  PROVE  PartFlow(k)'
<1>1. Finished(k) => Finished(k)'
  BY DEF Finished, Grows
<1> QED BY <1>1 DEF PartFlow, Rests

LEMMA RoundsFlow ==
  ASSUME NEW k \in Parts, PartFlow(k), Rounds(k), Grows, sync'.left = sync.left, raced \subseteq raced'
  PROVE  PartFlow(k)'
<1>1. Finished(k) => Finished(k)'
  BY DEF Finished, Grows
<1> QED BY <1>1 DEF PartFlow, Rounds

\* The headers and the content processor stay where they are.
LEMMA FetchingFlow ==
  ASSUME FlowInv, Grows, q'.proced = q.proced, SameSync, raced \subseteq raced', Shaped',
         UNCHANGED <<header, procCh, proc, content, chain>>,
         \A k \in Parts : sync.active => Rests(k) \/ Rounds(k) \/ (PartFlow(k) => PartFlow(k)')
  PROVE  FlowInv'
<1>1. Exits'
  BY DEF FlowInv, Exits, SameSync
<1>2. Outcome'
  BY DEF FlowInv, Outcome, SameSync, Grows, Headed, Imported
<1>3. ASSUME sync'.active, sync'.err = "none" PROVE Flows'
  <2>1. Flows /\ sync.active
    BY <1>3 DEF FlowInv, SameSync
  <2>2. HeadersFlow'
    BY <2>1 DEF Flows, HeadersFlow, SameSync, Grows, Held, Headed
  <2>3. ContentFlow'
    BY <2>1 DEF Flows, ContentFlow, SameSync, Grows, Imported
  <2>4. ASSUME NEW k \in PartsOf(q.mode) PROVE PartFlow(k)'
    <3>1. PartFlow(k) /\ k \in Parts /\ sync'.left = sync.left
      BY <2>1, PartsOfParts DEF Flows, SameSync
    <3> QED BY <2>1, <3>1, RestsFlow, RoundsFlow
  <2>5. q'.mode = q.mode
    BY DEF Grows
  <2> QED BY <2>2, <2>3, <2>4, <2>5 DEF Flows
<1> QED BY <1>1, <1>2, <1>3 DEF FlowInv

\* What Revoke does to the content tasks.
LEMMA RevokeFields ==
  ASSUME NEW x, WellFormed(x), NEW P \in SUBSET Peers, NEW y, y = Revoke(x, P)
  PROVE  \A m \in Parts :
           /\ y.tasks[m] = x.tasks[m] \cup UNION {ToSet(x.pend[m][p]) : p \in P}
           /\ \A p \in Peers : y.pend[m][p] = IF p \in P THEN <<>> ELSE x.pend[m][p]
<1> DEFINE z == Requeue(x, "body", P)
<1>1. /\ Keeps(x, z) /\ DOMAIN z.tasks = Kinds /\ DOMAIN z.pend = Kinds
      /\ z.tasks["body"] = x.tasks["body"] \cup UNION {ToSet(x.pend["body"][p]) : p \in P}
      /\ z.pend["body"] = [p \in Peers |-> IF p \in P THEN <<>> ELSE x.pend["body"][p]]
      /\ \A l \in Kinds \ {"body"} : z.tasks[l] = x.tasks[l] /\ z.pend[l] = x.pend[l]
  BY RequeueFields, KindNames
<1>2. y = Requeue(z, "receipt", P)
  BY DEF Revoke
<1> HIDE DEF z
<1>3. WellFormed(z)
  <2>1. \A l \in Kinds : DOMAIN z.pend[l] = Peers
    BY <1>1 DEF WellFormed
  <2> QED BY <1>1, <2>1, KeptInv
<1>4. /\ y.tasks["receipt"] = z.tasks["receipt"] \cup UNION {ToSet(z.pend["receipt"][p]) : p \in P}
      /\ y.pend["receipt"] = [p \in Peers |-> IF p \in P THEN <<>> ELSE z.pend["receipt"][p]]
      /\ \A l \in Kinds \ {"receipt"} : y.tasks[l] = z.tasks[l] /\ y.pend[l] = z.pend[l]
  BY <1>2, <1>3, RequeueFields, KindNames
<1>5. z.tasks["receipt"] = x.tasks["receipt"] /\ z.pend["receipt"] = x.pend["receipt"]
      /\ y.tasks["body"] = z.tasks["body"] /\ y.pend["body"] = z.pend["body"]
  BY <1>1, <1>4, KindNames
<1> QED BY <1>1, <1>4, <1>5 DEF Parts

\* UnregisterPeer by another goroutine than the fetcher of kind m: when that is
\* between its two reads, what is revoked is in raced.
LEMMA UnregisterRests ==
  ASSUME NEW x, WellFormed(x), NEW P \in SUBSET Peers, NEW k, Unregister(P, x, k),
         NEW m \in Parts \ {k}, x.tasks[m] = q.tasks[m]
  PROVE  /\ fetch[m].at = "drained" => q'.tasks[m] \subseteq q.tasks[m] \cup raced'
         /\ raced \subseteq raced'
<1> DEFINE drained == {l \in Parts \ {k} : fetch[l].at = "drained"}
<1>1. /\ q' = Revoke(x, P)
      /\ raced' = raced \cup UNION {ToSet(x.pend[l][p]) : p \in P, l \in drained}
  BY DEF Unregister
<1>2. q'.tasks[m] = x.tasks[m] \cup UNION {ToSet(x.pend[m][p]) : p \in P}
  BY <1>1, RevokeFields
<1>3. ASSUME fetch[m].at = "drained" PROVE q'.tasks[m] \subseteq q.tasks[m] \cup raced'
  <2>1. m \in drained
    BY <1>3
  <2> HIDE DEF drained
  <2>2. \A p \in P : ToSet(x.pend[m][p]) \subseteq raced'
    BY <1>1, <2>1
  <2> QED BY <1>2, <2>2
<1> HIDE DEF drained
<1> QED BY <1>1, <1>3

-----------------------------------------------------------------------------
(* The steps of fetchParts and of deliveries. *)

\* The loop of kind k runs, so the synchronisation is not over.
LEMMA RunningActive ==
  ASSUME IInv, Ended, NEW k \in Kinds, fetch[k].at # "off"
  PROVE  sync.active /\ (k \in Parts => k \notin sync.left) /\ (k = "header" => header.at = "fill")
<1>1. CASE k \in Parts
  BY <1>1, KindNames DEF Ended
<1>2. CASE k = "header"
  <2>1. header.at = "fill"
    BY <1>2 DEF IInv, HeaderInv, HeaderTypes
  <2> QED BY <1>2, <2>1, KindNames DEF Ended
<1> QED BY <1>1, <1>2 DEF Kinds

\* The loop of kind k returns an error.
LEMMA ErrorFlow ==
  ASSUME IInv, Ended, FlowInv, NEW k \in Kinds, fetch[k].at # "off", NEW err, err # "none",
         Return(k, err), UNCHANGED <<proc, content>>
  PROVE  FlowInv'
<1>1. sync.active
  BY RunningActive
<1>2. \E w \in Workers \ {"process", "content"} : Exit(w, IF k = "header" THEN "invalidChain" ELSE err)
  <2>1. CASE k = "header"
    <3>1. Exit("headers", "invalidChain")
      BY <2>1 DEF Return
    <3> QED BY <2>1, <3>1 DEF Workers
  <2>2. CASE k # "header"
    <3>1. Exit(k, err) /\ k \in {"body", "receipt"}
      BY <2>2 DEF Return, Kinds, Parts
    <3> QED BY <2>2, <3>1 DEF Workers, Parts
  <2> QED BY <2>1, <2>2
<1>3. PICK w \in Workers \ {"process", "content"} : Exit(w, IF k = "header" THEN "invalidChain" ELSE err)
  BY <1>2
<1> DEFINE e == IF k = "header" THEN "invalidChain" ELSE err
<1>4. e # "none" /\ Exit(w, e)
  BY <1>3
<1> HIDE DEF e
<1>5. Returns(w, e) /\ Exits'
  BY <1>4, ExitReturns, ReturnsExits DEF FlowInv
<1>6. Shaped'
  BY FetchFields DEF FlowInv, Shaped, Return
<1> QED BY <1>1, <1>4, <1>5, <1>6, FailedFlow DEF Returns

\* A round goes on, or it fails.
LEMMA ContinueCases ==
  ASSUME Shaped, NEW k \in Kinds, NEW f, DOMAIN f = DOMAIN Off, Continue(k, f)
  PROVE  \/ /\ Return(k, "peersUnavailable") /\ f.idles = {} /\ f.full
            /\ ~f.progressed /\ ~f.throttled /\ ~f.running
         \/ /\ UNCHANGED <<header, sync>> /\ Shaped'
            /\ \A l \in Kinds \ {k} : fetch'[l] = fetch[l]
            /\ fetch'[k].wake = f.wake /\ fetch'[k].finished = f.finished
            /\ (fetch'[k].at = "select" \/ (f.idles # {} /\ fetch'[k] = f))
<1>1. CASE /\ f.idles = {} /\ f.full /\ ~f.progressed /\ ~f.throttled /\ ~f.running
  BY <1>1 DEF Continue
<1>2. CASE ~(/\ f.idles = {} /\ f.full /\ ~f.progressed /\ ~f.throttled /\ ~f.running)
  <2> DEFINE g == IF f.idles = {} THEN AtSelect(f) ELSE f
  <2>1. fetch' = [fetch EXCEPT ![k] = g] /\ UNCHANGED <<header, sync>>
    BY <1>2 DEF Continue
  <2>2. DOMAIN g = DOMAIN Off /\ g.wake = f.wake /\ g.finished = f.finished
        /\ (g.at = "select" \/ (f.idles # {} /\ g = f))
    BY FetchFields DEF AtSelect
  <2> HIDE DEF g
  <2> QED BY <2>1, <2>2 DEF Shaped
<1> QED BY <1>1, <1>2

\* Other loops than that of kind k, when the queue changes only for kind k.
LEMMA OthersRest ==
  ASSUME NEW k \in Kinds, \A l \in Kinds \ {k} : fetch'[l] = fetch[l],
         \A m \in Parts \ {k} : q'.tasks[m] = q.tasks[m]
  PROVE  \A m \in Parts \ {k} : Rests(m)
BY KindNames DEF Rests

LEMMA WakeFlow ==
  ASSUME IInv, Ended, FlowInv, NEW k \in Kinds, Wake(k)
  PROVE  FlowInv'
<1>1. /\ fetch[k].at = "select" /\ fetch[k].wake
      /\ fetch' = [fetch EXCEPT ![k].wake = FALSE, ![k].finished = TRUE]
      /\ UNCHANGED <<q, header, procCh, proc, content, sync, chain, raced>>
  BY DEF Wake, workers
<1>2. /\ Shaped' /\ (\A l \in Kinds \ {k} : fetch'[l] = fetch[l]) /\ fetch'[k].at = "select"
  BY <1>1, FetchFields DEF FlowInv, Shaped
<1>3. Rounds(k) /\ Grows /\ SameSync
  BY <1>1, <1>2, KeepsGrows DEF Rounds, SameSync
<1>4. \A m \in Parts \ {k} : Rests(m)
  BY <1>1, <1>2, OthersRest
<1> QED BY <1>1, <1>2, <1>3, <1>4, FetchingFlow

\* A fetcher that finds nothing in flight after nothing pending has fetched all.
LEMMA DrainedAll ==
  ASSUME IInv, NEW k \in PartsOf(q.mode), q.tasks[k] \subseteq raced, ~InFlight(q, k)
  PROVE  Finished(k)
<1>1. KindConserved(q, k) /\ QueueInv(q)
  BY DEF IInv, QueueInv
<1>2. \A p \in Peers : ToSet(q.pend[k][p]) = {}
  BY ToSetEmpty DEF InFlight
<1>3. Asked(q, k) = {}
  BY <1>2 DEF Asked
<1>4. {n \in q.offset .. q.headed : n \notin q.done[k]} \subseteq raced
  BY <1>1, <1>3 DEF KindConserved
<1> QED BY <1>4 DEF Finished

LEMMA DrainedFlow ==
  ASSUME IInv, Ended, FlowInv, NEW k \in Kinds, Drained(k)
  PROVE  FlowInv'
<1>0. /\ fetch[k].at = "drained" /\ UNCHANGED <<q, procCh, proc, content, chain, raced>>
  BY DEF Drained
<1>1. sync.active /\ (k \in Parts => k \notin sync.left) /\ (k = "header" => header.at = "fill")
      /\ Grows /\ HeaderTypes
  BY <1>0, RunningActive, KeepsGrows DEF IInv, HeaderInv
<1>2. CASE InFlight(q, k)
  <2>1. fetch' = [fetch EXCEPT ![k].at = "select"] /\ UNCHANGED <<header, sync>>
    BY <1>2 DEF Drained
  <2>2. /\ Shaped' /\ (\A l \in Kinds \ {k} : fetch'[l] = fetch[l]) /\ fetch'[k].at = "select"
        /\ fetch'[k].wake = fetch[k].wake /\ fetch'[k].finished = fetch[k].finished
    BY <2>1, FetchFields DEF FlowInv, Shaped
  <2>3. Rounds(k) /\ SameSync
    BY <1>0, <2>1, <2>2 DEF Rounds, SameSync
  <2>4. \A m \in Parts \ {k} : Rests(m)
    BY <1>0, <2>2, OthersRest
  <2> QED BY <1>0, <1>1, <2>1, <2>2, <2>3, <2>4, FetchingFlow
<1>3. CASE ~InFlight(q, k) /\ k \in Parts
  <2>1. Exit(k, "none") /\ header' = header /\ fetch' = [fetch EXCEPT ![k] = Off] /\ k \in Workers
    BY <1>3, KindNames DEF Drained, Return, Workers
  <2>2. Returns(k, "none") /\ Exits'
    BY <1>0, <1>3, <2>1, ExitReturns, ReturnsExits DEF FlowInv, Workers, Parts
  <2>3. /\ Shaped' /\ (\A l \in Kinds \ {k} : fetch'[l] = fetch[l]) /\ fetch'[k].at = "off"
    BY <2>1, OffAt DEF FlowInv, Shaped
  <2>4. Outcome'
    BY <1>1, <2>2 DEF FlowInv, Outcome, Returns
  <2>5. ASSUME sync'.err = "none" PROVE Flows'
    <3>0. /\ Flows /\ sync.err = "none" /\ sync'.left = sync.left \cup {k}
          /\ k # "process" /\ k # "content"
      BY <1>1, <1>3, <2>2, <2>5 DEF FlowInv, Returns, Parts
    <3>1. HeadersFlow'
      BY <1>0, <2>1, <2>2, <3>0 DEF Flows, HeadersFlow, Held, Headed, Returns
    <3>2. ContentFlow'
      BY <1>0, <3>0 DEF Flows, ContentFlow, Imported
    <3>3. ASSUME NEW m \in PartsOf(q.mode) PROVE PartFlow(m)'
      <4>0. PartFlow(m) /\ m \in Parts /\ m \in Kinds
        BY <3>0, PartsOfParts, KindNames DEF Flows
      <4>1. CASE m = k
        <5>1. "process" \in sync.left /\ q.tasks[k] \subseteq raced
          BY <1>0, <4>0, <4>1 DEF PartFlow
        <5>2. Finished(k)
          BY <1>3, <4>1, <5>1, DrainedAll
        <5>3. Finished(k) => Finished(k)'
          BY <1>0 DEF Finished
        <5> QED BY <1>0, <2>3, <3>0, <4>1, <5>1, <5>2, <5>3 DEF PartFlow
      <4>2. CASE m # k
        <5>1. fetch'[m] = fetch[m] /\ (Finished(m) => Finished(m)')
          BY <1>0, <2>3, <4>0, <4>2 DEF Finished
        <5> QED BY <1>0, <3>0, <4>0, <4>2, <5>1 DEF PartFlow
      <4> QED BY <4>1, <4>2
    <3> QED BY <1>0, <3>1, <3>2, <3>3 DEF Flows
  <2> QED BY <2>2, <2>3, <2>4, <2>5 DEF FlowInv
<1>4. CASE ~InFlight(q, k) /\ k = "header"
  <2>1. /\ header' = [header EXCEPT !.at = "push", !.from = @ + q.proced, !.rest = q.size - q.proced]
        /\ sync' = sync /\ fetch' = [fetch EXCEPT ![k] = Off]
    BY <1>4 DEF Drained, Return
  <2>2. /\ Shaped' /\ \A l \in Kinds \ {k} : fetch'[l] = fetch[l]
    BY <2>1 DEF FlowInv, Shaped
  <2>3. Exits' /\ Outcome'
    BY <1>0, <1>1, <2>1 DEF FlowInv, Exits, Outcome
  <2>4. header'.at = "push" /\ header'.from = header.from + q.proced /\ header.at = "fill"
    BY <1>1, <1>4, <2>1 DEF HeaderTypes
  <2>5. ASSUME sync.err = "none" PROVE Flows'
    <3>0. Flows
      BY <1>1, <2>5 DEF FlowInv
    <3>1. HeadersFlow'
      BY <1>0, <2>1, <2>4, <3>0 DEF Flows, HeadersFlow, Held
    <3>2. ContentFlow'
      BY <1>0, <2>1, <3>0 DEF Flows, ContentFlow, Imported
    <3>3. ASSUME NEW m \in PartsOf(q.mode) PROVE PartFlow(m)'
      <4>1. PartFlow(m) /\ m \in Parts
        BY <3>0, PartsOfParts DEF Flows
      <4>2. Rests(m)
        BY <1>0, <1>4, <2>2, <4>1, OthersRest, KindNames
      <4> QED BY <1>0, <1>1, <2>1, <4>1, <4>2, RestsFlow
    <3> QED BY <1>0, <3>1, <3>2, <3>3 DEF Flows
  <2> QED BY <2>1, <2>2, <2>3, <2>5 DEF FlowInv
<1> QED BY <1>2, <1>3, <1>4 DEF Kinds

LEMMA RoundFlow ==
  ASSUME IInv, Ended, FlowInv, NEW k \in Kinds, NEW E \in SUBSET Peers, Round(k, E)
  PROVE  FlowInv'
<1> DEFINE drop == Stalling(k, E)
           x == Requeue(q, k, E)
           qq == Revoke(x, drop)
           free == (reg \ drop) \ (busy[k] \ E)
           empty == [fetch[k] EXCEPT !.at = IF fetch[k].finished THEN "drained" ELSE "select"]
           ready == [fetch[k] EXCEPT !.at = "assign", !.idles = free,
                            !.full = (free = reg \ drop), !.running = InFlight(qq, k),
                            !.present = reg \ drop]
<1>0. /\ drop \in SUBSET Peers /\ QueueInv(q) /\ WellFormed(q) /\ Shaped
  BY DEF Stalling, IInv, QueueInv, FlowInv
<1>1. /\ Unregister(drop, x, k) /\ fetch[k].at = "select"
      /\ IF qq.tasks[k] # {} THEN Continue(k, ready)
         ELSE fetch' = [fetch EXCEPT ![k] = empty] /\ UNCHANGED <<header, sync>>
      /\ UNCHANGED <<procCh, proc, content, chain>>
  BY DEF Round
<1>2. /\ QueueInv(x) /\ Keeps(q, x) /\ KeepsSkeleton(q, x) /\ WellFormed(x)
      /\ \A m \in Kinds \ {k} : x.tasks[m] = q.tasks[m]
  <2>1. x = Requeue(q, k, E)
    OBVIOUS
  <2> HIDE DEF x
  <2>2. QueueInv(x) /\ Keeps(q, x) /\ KeepsSkeleton(q, x)
    BY <1>0, <2>1, RequeueInv
  <2>3. /\ Keeps(q, x) /\ KeepsSkeleton(q, x)
        /\ DOMAIN x.tasks = Kinds /\ DOMAIN x.pend = Kinds
        /\ x.tasks[k] = q.tasks[k] \cup UNION {ToSet(q.pend[k][p]) : p \in E}
        /\ x.pend[k] = [p \in Peers |-> IF p \in E THEN <<>> ELSE q.pend[k][p]]
        /\ \A l \in Kinds \ {k} : x.tasks[l] = q.tasks[l] /\ x.pend[l] = q.pend[l]
    BY <1>0, <2>1, RequeueFields
  <2> QED BY <2>2, <2>3 DEF QueueInv
<1>3. q' = qq
  BY <1>1 DEF Unregister
<1>4. /\ DOMAIN ready = DOMAIN Off /\ ready.wake = fetch[k].wake /\ ready.finished = fetch[k].finished
      /\ ready.at = "assign"
      /\ DOMAIN empty = DOMAIN Off /\ empty.wake = fetch[k].wake /\ empty.finished = fetch[k].finished
      /\ empty.at = IF fetch[k].finished THEN "drained" ELSE "select"
  BY <1>0, FetchFields DEF Shaped
<1> HIDE DEF drop, x, qq, free, empty, ready
<1>5. Grows /\ q'.proced = q.proced
  BY <1>0, <1>1, <1>2, UnregisterInv DEF KeepsSkeleton
<1>6. raced \subseteq raced'
  BY <1>1 DEF Unregister
<1>7. \A m \in Parts \ {k} : fetch[m].at = "drained" => q'.tasks[m] \subseteq q.tasks[m] \cup raced'
  BY <1>0, <1>1, <1>2, UnregisterRests, KindNames
<1>8. sync.active
  BY <1>1, RunningActive
<1>9. CASE Return(k, "peersUnavailable")
  BY <1>1, <1>9, ErrorFlow
<1>10. CASE /\ qq.tasks[k] # {} /\ ~Return(k, "peersUnavailable")
  <2>1. /\ UNCHANGED <<header, sync>> /\ Shaped'
        /\ \A l \in Kinds \ {k} : fetch'[l] = fetch[l]
        /\ fetch'[k].wake = ready.wake /\ fetch'[k].finished = ready.finished
        /\ fetch'[k].at = "select" \/ fetch'[k] = ready
    BY <1>0, <1>1, <1>4, <1>10, ContinueCases
  <2>2. Rounds(k) /\ SameSync
    BY <1>1, <1>4, <2>1 DEF Rounds, SameSync
  <2>3. \A m \in Parts \ {k} : Rests(m)
    BY <1>7, <2>1, KindNames DEF Rests
  <2> QED BY <1>1, <1>5, <1>6, <2>1, <2>2, <2>3, FetchingFlow
<1>11. CASE qq.tasks[k] = {}
  <2>1. /\ fetch' = [fetch EXCEPT ![k] = empty] /\ UNCHANGED <<header, sync>>
    BY <1>1, <1>11
  <2>2. Shaped' /\ (\A l \in Kinds \ {k} : fetch'[l] = fetch[l]) /\ fetch'[k] = empty
    BY <1>0, <1>4, <2>1 DEF Shaped
  <2>3. SameSync
    BY <2>1 DEF SameSync
  <2>4. \A m \in Parts \ {k} : Rests(m)
    BY <1>7, <2>2, KindNames DEF Rests
  <2>5. k \in Parts => (PartFlow(k) => PartFlow(k)')
    <3> SUFFICES ASSUME k \in Parts, PartFlow(k) PROVE PartFlow(k)'
      OBVIOUS
    <3>1. Finished(k) => Finished(k)'
      BY <1>5, <1>6 DEF Finished, Grows
    <3> QED BY <1>1, <1>3, <1>4, <1>6, <1>11, <2>1, <2>2, <3>1 DEF PartFlow
  <2> QED BY <1>1, <1>5, <1>6, <2>1, <2>2, <2>3, <2>4, <2>5, FetchingFlow
<1> QED BY <1>1, <1>9, <1>10, <1>11

\* A reservation is for one kind.
LEMMA ReserveOthers ==
  ASSUME NEW x, QueueInv(x), NEW k \in Kinds, NEW p \in Peers, NEW count, NEW lacking,
         NEW z, z = Reserve(x, k, p, count, lacking)
  PROVE  \A m \in Kinds \ {k} : z.q.tasks[m] = x.tasks[m] /\ z.q.pend[m] = x.pend[m]
<1>0. /\ WellFormed(x) /\ Unwanted(x) /\ DOMAIN x.pend = Kinds /\ DOMAIN x.tasks = Kinds
      /\ \A l \in Kinds : DOMAIN x.pend[l] = Peers
      /\ "pend" \in DOMAIN x /\ "tasks" \in DOMAIN x
  BY DEF QueueInv, WellFormed
<1>1. CASE k = "header"
  <2>1. z = ReserveBatch(x, p)
    BY <1>1 DEF Reserve
  <2> DEFINE send == IF x.tasks["header"] \ x.miss[p] = {} \/ x.pend["header"][p] # <<>> THEN <<>>
                     ELSE <<Lowest(x.tasks["header"] \ x.miss[p])>>
  <2>2. z.q = IF send = <<>> THEN x
              ELSE [x EXCEPT !.tasks["header"] = @ \ ToSet(send), !.pend["header"][p] = send]
    BY <2>1 DEF ReserveBatch
  <2> HIDE DEF send
  <2>3. CASE send = <<>>
    BY <2>2, <2>3
  <2>4. CASE send # <<>>
    <3>1. /\ z.q.tasks = [x.tasks EXCEPT !["header"] = @ \ ToSet(send)]
          /\ z.q.pend = [x.pend EXCEPT !["header"][p] = send]
      BY <1>0, <2>2, <2>4
    <3> QED BY <1>0, <1>1, <3>1
  <2> QED BY <2>3, <2>4
<1>2. CASE k # "header"
  <2>1. z = ReserveParts(x, k, p, count, lacking) /\ k \in Parts
    BY <1>2 DEF Reserve, Kinds, Parts
  <2>2. CASE x.tasks[k] = {} \/ x.pend[k][p] # <<>>
    <3>1. z.q = x
      BY <2>1, <2>2 DEF ReserveParts
    <3> QED BY <3>1
  <2>3. CASE x.tasks[k] # {} /\ x.pend[k][p] = <<>>
    <3> DEFINE r == ReserveLoop(x, k, count, lacking)
               y == [r.q EXCEPT !.tasks[k] = @ \cup r.skip, !.pend[k][p] = r.send]
    <3>1. k \in PartsOf(x.mode)
      BY <1>0, <2>1, <2>3 DEF Unwanted
    <3>2. LoopInv(x, k, r)
      BY <3>1, LoopResult
    <3>3. z.q = (IF r.invalid THEN r.q ELSE y)
      BY <2>1, <2>3 DEF ReserveParts
    <3> HIDE DEF r
    <3>4. /\ z.q = y /\ r.q.pend = x.pend
          /\ (\A l \in Kinds \ {k} : r.q.tasks[l] = x.tasks[l]) /\ WellFormed(r.q)
      BY <3>2, <3>3 DEF LoopInv, SameOthers
    <3>5. /\ y.pend = [x.pend EXCEPT ![k][p] = r.send]
          /\ \A l \in Kinds \ {k} : y.tasks[l] = r.q.tasks[l]
      BY <3>4 DEF WellFormed
    <3> HIDE DEF y
    <3> QED BY <1>0, <3>4, <3>5
  <2> QED BY <2>2, <2>3
<1> QED BY <1>1, <1>2

LEMMA AssignFlow ==
  ASSUME IInv, Ended, FlowInv, NEW k \in Kinds, NEW p \in Peers, NEW count, Assign(k, p, count)
  PROVE  FlowInv'
<1> DEFINE f == fetch[k]
           r == Reserve(q, k, p, count, lacks[p])
           g1 == [f EXCEPT !.idles = {}, !.throttled = TRUE]
           g2 == [f EXCEPT !.idles = {}]
           g3 == [f EXCEPT !.idles = @ \ {p}, !.progressed = @ \/ r.progress,
                           !.running = @ \/ r.send # <<>>]
<1>0. QueueInv(q) /\ Shaped /\ fetch[k].at = "assign" /\ UNCHANGED <<procCh, proc, content, chain, raced>>
  BY DEF IInv, FlowInv, Assign
<1>1. Continue(k, g1) \/ Continue(k, g2) \/ Continue(k, g3) \/ Return(k, "invalidChain")
  BY Zenon DEF Assign
<1>2. q' = q \/ q' = r.q
  BY DEF Assign
<1>3. \A g \in {g1, g2, g3} : /\ DOMAIN g = DOMAIN Off /\ g.at = "assign"
                              /\ g.wake = fetch[k].wake /\ g.finished = fetch[k].finished
  BY <1>0, FetchFields DEF Shaped
<1>4. /\ Grows /\ q'.proced = q.proced /\ \A m \in Parts \ {k} : q'.tasks[m] = q.tasks[m]
  <2>1. CASE q' = q
    BY <2>1, KeepsGrows
  <2>2. CASE q' = r.q
    <3>1. /\ Stays(q, r.q) /\ KeepsSkeleton(q, r.q)
          /\ \A l \in Parts : q.done[l] \subseteq r.q.done[l]
      BY <1>0, ReserveInv
    <3>2. \A m \in Parts \ {k} : r.q.tasks[m] = q.tasks[m]
      BY <1>0, ReserveOthers, KindNames
    <3> HIDE DEF r
    <3> QED BY <2>2, <3>1, <3>2 DEF Stays, Grows, KeepsSkeleton
  <2> QED BY <1>2, <2>1, <2>2
<1> HIDE DEF f, r, g1, g2, g3
<1>5. CASE \E err : err # "none" /\ Return(k, err)
  BY <1>0, <1>5, ErrorFlow
<1>6. CASE ~\E err : err # "none" /\ Return(k, err)
  <2>1. PICK g \in {g1, g2, g3} : Continue(k, g)
    BY <1>1, <1>6
  <2>2. /\ UNCHANGED <<header, sync>> /\ Shaped'
        /\ \A l \in Kinds \ {k} : fetch'[l] = fetch[l]
        /\ fetch'[k].wake = g.wake /\ fetch'[k].finished = g.finished
        /\ fetch'[k].at = "select" \/ fetch'[k] = g
    BY <1>0, <1>3, <1>6, <2>1, ContinueCases
  <2>3. Rounds(k) /\ SameSync
    BY <1>0, <1>3, <2>1, <2>2 DEF Rounds, SameSync
  <2>4. \A m \in Parts \ {k} : Rests(m)
    BY <1>4, <2>2, OthersRest
  <2> QED BY <1>0, <1>4, <2>2, <2>3, <2>4, FetchingFlow
<1> QED BY <1>5, <1>6

LEMMA FetchStepFlow ==
  ASSUME IInv, Ended, FlowInv, NEW k \in Kinds, FetchStep(k)
  PROVE  FlowInv'
<1>1. ASSUME NoPeers(k) PROVE FlowInv'
  <2>1. fetch[k].at # "off" /\ Return(k, "noPeers") /\ UNCHANGED <<proc, content>>
    BY <1>1 DEF NoPeers
  <2> QED BY <2>1, ErrorFlow
<1> QED BY <1>1, WakeFlow, DrainedFlow, RoundFlow, AssignFlow DEF FetchStep

LEMMA DeliverPartFlow ==
  ASSUME IInv, Ended, FlowInv, NEW k \in Parts, NEW p \in Peers, NEW answer, DeliverPart(k, p, answer)
  PROVE  FlowInv'
<1>0. QueueInv(q) /\ WellFormed(q) /\ k \in Kinds
  BY KindNames DEF IInv, QueueInv
<1>1. /\ q' = DeliverParts(q, k, p, answer).q /\ fetch[k].at = "select"
      /\ Return(k, "invalidChain") \/ UNCHANGED <<fetch, header, sync>>
      /\ UNCHANGED <<procCh, proc, content, chain, raced>>
  BY DEF DeliverPart
<1>2. PICK good \in SUBSET ToSet(q.pend[k][p]) : q' = Accepted(q, k, p, good)
  BY <1>1, DeliverAccepts
<1>3. /\ Stays(q, q') /\ KeepsSkeleton(q, q')
      /\ \A m \in Kinds \ {k} : q'.tasks[m] = q.tasks[m]
      /\ q'.done[k] = q.done[k] \cup good
      /\ \A l \in Parts \ {k} : q'.done[l] = q.done[l]
  BY <1>0, <1>2, KindNames DEF WellFormed, Accepted, Stays, KeepsSkeleton
<1>4. Grows /\ q'.proced = q.proced
  BY <1>3 DEF Grows, Stays, KeepsSkeleton
<1>5. CASE Return(k, "invalidChain")
  BY <1>0, <1>1, <1>5, ErrorFlow
<1>6. CASE UNCHANGED <<fetch, header, sync>>
  <2>1. Rounds(k) /\ SameSync /\ Shaped'
    BY <1>1, <1>6 DEF Rounds, SameSync, FlowInv, Shaped
  <2>2. \A m \in Parts \ {k} : Rests(m)
    BY <1>0, <1>3, <1>6, OthersRest, KindNames
  <2> QED BY <1>1, <1>4, <1>6, <2>1, <2>2, FetchingFlow
<1> QED BY <1>1, <1>5, <1>6

-----------------------------------------------------------------------------
(* Headers on their way. *)

\* The step of fetchHeaders or processHeaders: the fetchers at most learn that
\* processHeaders has returned.
LEMMA HeadersMove ==
  ASSUME FlowInv, sync.active, Grows, UNCHANGED <<content, chain, raced>>, Shaped', Exits',
         sync'.active, sync'.err = sync.err, sync'.outcome = sync.outcome,
         \A w \in Parts \cup {"content"} : w \in sync'.left => w \in sync.left,
         "process" \in sync.left => "process" \in sync'.left,
         \A k \in Parts : Rests(k) \/ (fetch'[k].at = fetch[k].at /\ "process" \in sync'.left
                                         /\ q'.tasks[k] = q.tasks[k]),
         HeadersFlow => HeadersFlow'
  PROVE  FlowInv'
<1>1. Outcome'
  BY DEF FlowInv, Outcome
<1>2. ASSUME sync'.err = "none" PROVE Flows'
  <2>1. Flows
    BY <1>2 DEF FlowInv
  <2>2. HeadersFlow' /\ ContentFlow' /\ q'.mode = q.mode
    BY <2>1 DEF Flows, ContentFlow, Imported, Grows
  <2>3. ASSUME NEW k \in PartsOf(q.mode) PROVE PartFlow(k)'
    <3>1. PartFlow(k) /\ k \in Parts
      BY <2>1, PartsOfParts DEF Flows
    <3>2. Finished(k) => Finished(k)'
      BY <3>1 DEF Finished, Grows
    <3> QED BY <3>1, <3>2 DEF PartFlow, Rests
  <2> QED BY <2>2, <2>3 DEF Flows
<1> QED BY <1>1, <1>2 DEF FlowInv

LEMMA DeliverHeadersFlow ==
  ASSUME IInv, Ended, FlowInv, NEW p \in Peers, NEW fits \in BOOLEAN, DeliverHeaders(p, fits)
  PROVE  FlowInv'
<1> DEFINE room == procCh = <<>>
           d == DeliverBatch(q, p, fits, room)
           from == q.pend["header"][p][1]
           push == IF room THEN Ready(q, from) ELSE 0
<1>0. /\ HeaderInv /\ HeaderTypes /\ QueueInv(q) /\ WellFormed(q) /\ q.headed \in Nat
  BY QueueNumbers DEF IInv, HeaderInv, QueueInv
<1>1. /\ q' = d.q /\ fetch["header"].at = "select"
      /\ procCh' = IF d.push > 0 THEN <<d.push>> ELSE procCh
      /\ fetch' = [fetch EXCEPT !["header"].wake = @ \/ (d.err = "none" /\ d.q.unfilled = {})]
      /\ UNCHANGED <<header, proc, content, sync, chain, raced>>
  BY DEF DeliverHeaders
<1>2. Grows /\ \A m \in Parts : q'.tasks[m] = q.tasks[m]
  <2>1. Keeps(q, q')
    BY <1>0, <1>1, BatchInv
  <2>2. \A m \in Parts : d.q.tasks[m] = q.tasks[m]
    BY <1>0, KindNames DEF WellFormed, DeliverBatch
  <2> QED BY <1>1, <2>1, <2>2, KeepsGrows
<1>3. \/ q'.proced = q.proced /\ d.push = 0
      \/ q'.proced = q.proced + push /\ d.push = push
  BY <1>0, <1>1 DEF DeliverBatch, Ready, WellFormed
<1> HIDE DEF d
<1>4. Shaped' /\ \A m \in Parts : fetch'[m] = fetch[m]
  BY <1>1, KindNames DEF FlowInv, Shaped
<1>5. sync.active /\ header.at = "fill" /\ header.from \in Nat
  BY <1>0, <1>1, RunningActive, KindNames DEF HeaderTypes
<1>6. Filling /\ Held \in Nat
  BY <1>0, <1>5, HeldNat DEF HeaderInv
<1> HIDE DEF from
<1>7. push \in Nat /\ (push > 0 => procCh = <<>>) /\ q.proced \in Nat
  BY <1>5, <1>6, ReadyBounds DEF Filling
<1> HIDE DEF push
<1>8. q'.proced = q.proced + d.push /\ d.push \in Nat /\ (d.push > 0 => procCh = <<>>)
  BY <1>3, <1>7
<1>9. Held' = Held + d.push
  <2>1. CASE d.push > 0
    BY <1>0, <1>1, <1>8, <2>1 DEF Held, HeaderTypes
  <2>2. CASE d.push = 0
    BY <1>1, <1>6, <2>2 DEF Held
  <2> QED BY <1>8, <2>1, <2>2
<1>10. HeadersFlow => HeadersFlow'
  <2> SUFFICES ASSUME HeadersFlow PROVE HeadersFlow'
    OBVIOUS
  <2>1. q.headed + Held + 1 = header.from + q.proced /\ "process" \notin sync.left
    BY <1>5 DEF HeadersFlow
  <2>2. (q.headed + Held + 1 = header.from + q.proced)'
    <3>1. q'.headed = q.headed /\ header' = header
      BY <1>1, <1>2 DEF Grows
    <3>2. /\ q.headed \in Nat /\ Held \in Nat /\ header.from \in Nat /\ q.proced \in Nat /\ d.push \in Nat
          /\ q.headed + Held + 1 = header.from + q.proced
      BY <1>0, <1>5, <1>6, <1>7, <1>8, <2>1
    <3>3. q.headed + (Held + d.push) + 1 = header.from + (q.proced + d.push)
      <4>1. PICK a, b, c, e, i \in Nat : a = q.headed /\ b = Held /\ c = header.from /\ e = q.proced /\ i = d.push
        BY <3>2
      <4>2. a + b + 1 = c + e
        BY <3>2, <4>1
      <4>3. a + (b + i) + 1 = c + (e + i)
        BY <4>2
      <4> QED BY <4>1, <4>3
    <3> QED BY <1>8, <1>9, <3>1, <3>3
  <2>3. ~(procCh' # <<>> /\ procCh'[1] = 0)
    BY <1>1, <1>5, <1>8 DEF HeadersFlow
  <2> QED BY <1>1, <1>5, <2>1, <2>2, <2>3 DEF HeadersFlow
<1>11. Exits' /\ \A m \in Parts : Rests(m)
  BY <1>1, <1>2, <1>4 DEF FlowInv, Exits, Rests
<1> QED BY <1>1, <1>2, <1>4, <1>5, <1>10, <1>11, HeadersMove

LEMMA HeaderStepFlow ==
  ASSUME IInv, Ended, FlowInv, HeaderStep
  PROVE  FlowInv'
<1>0. /\ HeaderInv /\ HeaderTypes /\ QueueInv(q) /\ WellFormed(q) /\ q.headed \in Nat /\ Held \in Nat
      /\ header.from \in Nat /\ header.rest \in Nat /\ DOMAIN header = {"at", "from", "rest", "skeleton"}
      /\ Shaped /\ Exits
  BY QueueNumbers, HeldNat DEF IInv, HeaderInv, QueueInv, HeaderTypes, FlowInv
<1>1. header.at # "off" => sync.active /\ "headers" \notin sync.left
  BY DEF Ended
<1>2. ASSUME NEW count \in 0 .. MaxSkeleton, Skeleton(count) PROVE FlowInv'
  <2>1. /\ header.at = "skeleton"
        /\ UNCHANGED <<procCh, proc, content, sync, chain, raced>>
        /\ \/ /\ header' = [header EXCEPT !.at = "tail", !.skeleton = FALSE] /\ UNCHANGED <<q, fetch>>
           \/ /\ header' = [header EXCEPT !.at = "fill"]
              /\ q' = ScheduleSkeleton(q, header.from, count)
              /\ fetch' = [fetch EXCEPT !["header"] = AtSelect(Off)]
    BY <1>2 DEF Skeleton
  <2>2. Shaped' /\ \A m \in Parts : fetch'[m] = fetch[m]
    <3>1. DOMAIN AtSelect(Off) = DOMAIN Off
      BY DEF AtSelect
    <3> QED BY <1>0, <2>1, <3>1, KindNames DEF Shaped
  <2>3. Grows /\ \A m \in Parts : q'.tasks[m] = q.tasks[m]
    <3>1. CASE q' = q
      BY <3>1, KeepsGrows
    <3>2. CASE q' = ScheduleSkeleton(q, header.from, count)
      <4>1. Keeps(q, q')
        BY <1>0, <3>2, SkeletonInv
      <4>2. \A m \in Parts : q'.tasks[m] = q.tasks[m]
        BY <1>0, <3>2, KindNames DEF WellFormed, ScheduleSkeleton
      <4> QED BY <4>1, <4>2, KeepsGrows
    <3> QED BY <2>1, <3>1, <3>2
  <2>4. HeadersFlow => HeadersFlow'
    <3> SUFFICES ASSUME HeadersFlow PROVE HeadersFlow'
      OBVIOUS
    <3>0. Held' = Held /\ q'.headed = q.headed
      BY <2>1, <2>3 DEF Held, Grows
    <3>1. /\ header'.from = header.from
          /\ header'.at = "tail" \/ (header'.at = "fill" /\ q'.proced = 0)
      BY <1>0, <2>1 DEF ScheduleSkeleton, WellFormed
    <3>2. q.headed + Held + 1 = header.from
      BY <2>1 DEF HeadersFlow
    <3> QED BY <1>0, <2>1, <3>0, <3>1, <3>2 DEF HeadersFlow
  <2>5. Exits' /\ \A m \in Parts : Rests(m)
    BY <1>0, <2>1, <2>2, <2>3 DEF Exits, Rests
  <2> QED BY <1>1, <2>1, <2>2, <2>3, <2>4, <2>5, HeadersMove
<1>3. ASSUME NEW count, TailHeaders(count) PROVE FlowInv'
  <2>1. /\ header.at = "tail"
        /\ header' = IF count = 0 THEN [header EXCEPT !.at = "end"]
                     ELSE [header EXCEPT !.at = "push", !.rest = count]
        /\ UNCHANGED <<q, fetch, procCh, proc, content, sync, chain, raced>>
    BY <1>3 DEF TailHeaders
  <2>2. Grows /\ Shaped' /\ Exits' /\ \A m \in Parts : Rests(m)
    BY <1>0, <2>1, KeepsGrows DEF Shaped, Exits, Rests
  <2>3. HeadersFlow => HeadersFlow'
    <3> SUFFICES ASSUME HeadersFlow PROVE HeadersFlow'
      OBVIOUS
    <3>0. Held' = Held /\ q' = q
      BY <2>1 DEF Held
    <3>1. header'.from = header.from /\ header'.at \in {"push", "end"}
      BY <1>0, <2>1
    <3> QED BY <2>1, <3>0, <3>1 DEF HeadersFlow
  <2> QED BY <1>1, <2>1, <2>2, <2>3, HeadersMove
<1>4. ASSUME PushHeaders PROVE FlowInv'
  <2>1. /\ header.at = "push" /\ (header.rest > 0 => procCh = <<>>)
        /\ procCh' = IF header.rest > 0 THEN <<header.rest>> ELSE procCh
        /\ header' = [header EXCEPT !.from = @ + header.rest, !.rest = 0,
                              !.at = IF header.skeleton THEN "skeleton" ELSE "tail"]
        /\ UNCHANGED <<q, fetch, proc, content, sync, chain, raced>>
    BY <1>4 DEF PushHeaders
  <2>2. Grows /\ Shaped' /\ Exits' /\ \A m \in Parts : Rests(m)
    BY <1>0, <2>1, KeepsGrows DEF Shaped, Exits, Rests
  <2>3. HeadersFlow => HeadersFlow'
    <3> SUFFICES ASSUME HeadersFlow PROVE HeadersFlow'
      OBVIOUS
    <3>0. Held' = Held + header.rest
      <4>1. CASE header.rest > 0
        BY <1>0, <2>1, <4>1 DEF Held, HeaderTypes
      <4>2. CASE header.rest = 0
        BY <1>0, <2>1, <4>2 DEF Held
      <4> QED BY <1>0, <4>1, <4>2
    <3>1. header'.from = header.from + header.rest /\ header'.at \in {"skeleton", "tail"}
      BY <1>0, <2>1
    <3>2. q.headed + Held + 1 = header.from /\ "process" \notin sync.left
      BY <2>1 DEF HeadersFlow
    <3>3. ~(procCh' # <<>> /\ procCh'[1] = 0)
      BY <1>0, <2>1 DEF HeadersFlow
    <3>4. (q.headed + Held + 1 = header.from)'
      BY <1>0, <2>1, <3>0, <3>1, <3>2
    <3> QED BY <2>1, <3>1, <3>2, <3>3, <3>4 DEF HeadersFlow
  <2> QED BY <1>1, <2>1, <2>2, <2>3, HeadersMove
<1>5. ASSUME EndHeaders PROVE FlowInv'
  <2>1. /\ header.at = "end" /\ procCh = <<>> /\ procCh' = <<0>>
        /\ header' = [header EXCEPT !.at = "off"] /\ Exit("headers", "none")
        /\ UNCHANGED <<q, fetch, proc, content, chain, raced>>
    BY <1>5 DEF EndHeaders
  <2>2. Returns("headers", "none") /\ Exits'
    BY <1>0, <2>1, ExitReturns, ReturnsExits DEF Workers
  <2>3. Grows /\ Shaped' /\ \A m \in Parts : Rests(m)
    BY <1>0, <2>1, KeepsGrows DEF Shaped, Rests
  <2>4. HeadersFlow => HeadersFlow'
    <3> SUFFICES ASSUME HeadersFlow PROVE HeadersFlow'
      OBVIOUS
    <3>1. Held' = Held /\ header'.at = "off" /\ header'.from = header.from
      BY <1>0, <2>1 DEF Held
    <3>2. q.headed + Held + 1 = header.from /\ "process" \notin sync.left
      BY <2>1 DEF HeadersFlow
    <3> QED BY <2>1, <2>2, <3>1, <3>2 DEF HeadersFlow, Returns
  <2>5. /\ \A w \in Parts \cup {"content"} : w \in sync'.left => w \in sync.left
        /\ "process" \in sync.left => "process" \in sync'.left
    BY <2>2 DEF Returns, Parts
  <2> QED BY <1>1, <2>1, <2>2, <2>3, <2>4, <2>5, HeadersMove DEF Returns
<1> QED BY <1>2, <1>3, <1>4, <1>5 DEF HeaderStep

\* The master is dropped, with an error.
LEMMA HeaderTimeoutFlow ==
  ASSUME IInv, Ended, FlowInv, HeaderTimeout
  PROVE  FlowInv'
<1>1. /\ header.at # "off" /\ WakeFetchers /\ Exit("headers", "badPeer") /\ UNCHANGED <<proc, content>>
  BY DEF HeaderTimeout
<1>2. sync.active
  BY <1>1 DEF Ended
<1>3. Returns("headers", "badPeer") /\ Exits'
  BY <1>1, ExitReturns, ReturnsExits DEF FlowInv, Workers
<1>4. Shaped'
  BY <1>1, FetchFields DEF FlowInv, Shaped, WakeFetchers
<1> QED BY <1>2, <1>3, <1>4, FailedFlow DEF Returns

-----------------------------------------------------------------------------
(* Headers are scheduled, blocks leave. *)

LEMMA ExitFields ==
  ASSUME Exits
  PROVE  /\ proc.at # "off" => sync.active /\ "process" \notin sync.left
         /\ content # "off" => sync.active /\ "content" \notin sync.left
BY DEF Exits

LEMMA FinishHeadersFlow ==
  ASSUME IInv, Ended, FlowInv, NEW err, FinishHeaders(err)
  PROVE  FlowInv'
<1>0. HeaderTypes /\ Shaped /\ Exits /\ Held \in Nat /\ q.headed \in Nat
  BY HeldNat, QueueNumbers DEF IInv, HeaderInv, FlowInv
<1>1. /\ proc.at = "wait" /\ procCh = <<0>> /\ procCh' = <<>> /\ WakeFetchers
      /\ proc' = [proc EXCEPT !.at = "off"] /\ Exit("process", err)
      /\ UNCHANGED <<q, header, content, chain, raced>>
  BY DEF FinishHeaders
<1>2. sync.active /\ "process" \notin sync.left
  BY <1>0, <1>1, ExitFields
<1>3. Returns("process", err)
  BY <1>0, <1>1, ExitReturns
<1>4. proc'.at = "off" /\ proc'.todo = 0 /\ proc.todo = 0
  BY <1>0, <1>1 DEF HeaderTypes
<1>5. Exits'
  BY <1>0, <1>1, <1>3, <1>4 DEF Exits, Returns, Workers
<1>6. Shaped' /\ \A k \in Kinds : fetch'[k].at = fetch[k].at
  <2>1. fetch' = [k \in Kinds |-> IF k \in Parts /\ fetch[k].at # "off"
                                   THEN [fetch[k] EXCEPT !.wake = TRUE] ELSE fetch[k]]
    BY <1>1 DEF WakeFetchers
  <2> QED BY <1>0, <2>1, FetchFields DEF Shaped
<1>7. CASE err # "none"
  <2>1. sync'.active /\ sync'.err # "none" /\ sync'.outcome = sync.outcome
    BY <1>2, <1>3, <1>7 DEF Returns
  <2> QED BY <1>2, <1>5, <1>6, <2>1, FailedFlow
<1>8. CASE err = "none"
  <2>1. Held = 0 /\ Held' = 0
    BY <1>1, <1>4 DEF Held
  <2>2. HeadersFlow => HeadersFlow'
    <3> SUFFICES ASSUME HeadersFlow PROVE HeadersFlow'
      OBVIOUS
    <3>1. header.at = "off" /\ q.headed + Held + 1 = header.from
          /\ sync.origin \in Nat /\ sync.origin < Height
      BY <1>1 DEF HeadersFlow
    <3>2. chain \in Nat /\ chain <= q.headed /\ q.headed <= Height /\ Height \in Nat
      <4>1. chain \in Nat /\ chain < q.offset /\ q.offset \in Nat /\ q.offset <= q.headed + 1
        BY QueueNumbers DEF IInv, QueueInv, WellFormed
      <4>2. q.headed + Held <= Height
        BY DEF IInv, HeaderInv
      <4> QED BY <1>0, <2>1, <4>1, <4>2, QueueAssumption
    <3>3. /\ ~(~(q.headed > sync.origin) /\ chain < Height)
          /\ q.mode = "fast" /\ q.headed < Height => sync.syncs > 1
      BY <1>8 DEF FinishHeaders
    <3>4. Headed
      BY <1>0, <3>1, <3>2, <3>3 DEF Headed
    <3>5. Headed'
      BY <1>1, <1>3, <3>4 DEF Headed, Returns
    <3> QED BY <1>1, <1>3, <2>1, <3>1, <3>5 DEF HeadersFlow, Returns
  <2>3. /\ sync'.active /\ sync'.err = sync.err /\ sync'.outcome = sync.outcome
        /\ \A w \in Parts \cup {"content"} : w \in sync'.left => w \in sync.left
        /\ "process" \in sync'.left
    BY <1>2, <1>3, <1>8 DEF Returns, Parts
  <2>4. Grows
    BY <1>1, KeepsGrows
  <2>5. \A k \in Parts : fetch'[k].at = fetch[k].at /\ q'.tasks[k] = q.tasks[k]
    BY <1>1, <1>6, KindNames
  <2> QED BY <1>1, <1>2, <1>5, <1>6, <2>2, <2>3, <2>4, <2>5, HeadersMove
<1> QED BY <1>7, <1>8

LEMMA TakeHeadersFlow ==
  ASSUME IInv, Ended, FlowInv, TakeHeaders
  PROVE  FlowInv'
<1>0. HeaderTypes /\ Shaped /\ Exits
  BY DEF IInv, HeaderInv, FlowInv
<1>1. /\ proc.at = "wait" /\ procCh # <<>> /\ procCh' = <<>>
      /\ proc' = [proc EXCEPT !.at = "busy", !.todo = procCh[1]]
      /\ UNCHANGED <<q, fetch, header, content, sync, chain, raced>>
  BY DEF TakeHeaders
<1>2. sync.active /\ "process" \notin sync.left
  BY <1>0, <1>1, ExitFields
<1>3. Grows /\ Shaped' /\ Exits' /\ \A m \in Parts : Rests(m)
  BY <1>0, <1>1, <1>2, KeepsGrows DEF Shaped, Exits, Rests
<1>4. Held' = Held
  <2>1. proc'.todo = procCh[1] /\ proc.todo = 0 /\ procCh[1] \in Nat
    BY <1>0, <1>1 DEF HeaderTypes
  <2> QED BY <1>1, <2>1 DEF Held
<1>5. HeadersFlow => HeadersFlow'
  BY <1>1, <1>2, <1>4 DEF HeadersFlow
<1> QED BY <1>1, <1>2, <1>3, <1>5, HeadersMove

LEMMA BadHeaderFlow ==
  ASSUME FlowInv, BadHeader
  PROVE  FlowInv'
<1>0. Shaped /\ Exits
  BY DEF FlowInv
<1>1. /\ proc.at = "busy" /\ Exit("process", "invalidChain") /\ proc' = [at |-> "off", todo |-> 0]
      /\ UNCHANGED <<fetch, content>>
  BY DEF BadHeader
<1>2. sync.active /\ Returns("process", "invalidChain")
  BY <1>0, <1>1, ExitFields, ExitReturns
<1>3. Exits' /\ Shaped'
  BY <1>0, <1>1, <1>2 DEF Exits, Returns, Workers, Shaped
<1> QED BY <1>2, <1>3, FailedFlow DEF Returns

LEMMA StaleHeadersFlow ==
  ASSUME FlowInv, NEW count, StaleHeaders(count)
  PROVE  FlowInv'
<1>0. Shaped /\ Exits
  BY DEF FlowInv
<1>1. /\ proc.at = "busy" /\ Exit("process", "badPeer") /\ proc' = [at |-> "off", todo |-> 0]
      /\ UNCHANGED <<fetch, content>>
  BY DEF StaleHeaders
<1>2. sync.active /\ Returns("process", "badPeer")
  BY <1>0, <1>1, ExitFields, ExitReturns
<1>3. Exits' /\ Shaped'
  BY <1>0, <1>1, <1>2 DEF Exits, Returns, Workers, Shaped
<1> QED BY <1>2, <1>3, FailedFlow DEF Returns

LEMMA QuitFlow ==
  ASSUME FlowInv, NEW err, err # "none", Quit(err)
  PROVE  FlowInv'
<1>0. Shaped /\ Exits /\ DOMAIN sync = DOMAIN Idle
  BY DEF FlowInv, Exits
<1> DEFINE C == Cancelling
<1>1. /\ sync.active
      /\ sync' = [sync EXCEPT !.left = @ \cup C, !.err = IF @ = "none" THEN err ELSE @]
      /\ fetch' = [k \in Kinds |-> IF k \in C \/ (k = "header" /\ "headers" \in C)
                                   THEN Off ELSE fetch[k]]
      /\ proc' = IF "process" \in C THEN [at |-> "off", todo |-> 0] ELSE proc
      /\ content' = content
  BY DEF Quit
<1>2. C \subseteq Workers /\ "content" \notin C
  BY DEF Cancelling, Workers, Parts
<1> HIDE DEF C
<1>3. /\ DOMAIN sync' = DOMAIN Idle /\ sync'.active /\ sync'.left = sync.left \cup C
      /\ sync'.err # "none" /\ sync'.outcome = sync.outcome
  BY <1>0, <1>1, SyncFields
<1>4. Shaped'
  BY <1>0, <1>1 DEF Shaped
<1>5. Exits'
  BY <1>0, <1>1, <1>2, <1>3 DEF Exits
<1> QED BY <1>1, <1>3, <1>4, <1>5, FailedFlow

LEMMA HandStepFlow ==
  ASSUME IInv, Ended, FlowInv, HandStep
  PROVE  FlowInv'
<1>1. ASSUME NEW err \in {"cancelled", "invalidChain"}, Quit(err) PROVE FlowInv'
  <2>1. err # "none"
    OBVIOUS
  <2> QED BY <1>1, <2>1, QuitFlow
<1> QED BY <1>1, TakeHeadersFlow, BadHeaderFlow, FinishHeadersFlow DEF HandStep

\* While headers are scheduled no fetcher is finished.
LEMMA ScheduleChunkFlow ==
  ASSUME IInv, Ended, FlowInv, ScheduleChunk
  PROVE  FlowInv'
<1> DEFINE count == Chunk
<1>0. /\ QueueInv(q) /\ WellFormed(q) /\ HeaderTypes /\ q.headed \in Nat /\ Held \in Nat
      /\ proc.todo \in Nat /\ DOMAIN proc = {"at", "todo"} /\ Shaped /\ Exits
  BY QueueNumbers, HeldNat DEF IInv, HeaderInv, QueueInv, HeaderTypes, FlowInv
<1>1. /\ q' = Schedule(q, count) /\ proc.at = "busy"
      /\ proc' = [proc EXCEPT !.todo = @ - count, !.at = IF proc.todo = count THEN "wait" ELSE "busy"]
      /\ UNCHANGED <<fetch, header, procCh, content, sync, chain, raced>>
  BY DEF ScheduleChunk
<1>2. count \in Nat /\ count <= proc.todo
  BY <1>0, ChunkIs
<1> HIDE DEF count
<1>3. /\ q'.mode = q.mode /\ q'.offset = q.offset /\ q'.proced = q.proced
      /\ q'.headed = q.headed + count
  BY <1>0, <1>1 DEF WellFormed, Schedule
<1>4. proc'.todo = proc.todo - count
  BY <1>0, <1>1
<1>5. q'.headed + Held' = q.headed + Held
  <2>1. (procCh # <<>> => procCh[1] \in Nat)
    BY <1>0 DEF HeaderTypes
  <2>2. Held' = Held - count
    BY <1>0, <1>1, <1>2, <1>4, <2>1 DEF Held
  <2> QED BY <1>0, <1>2, <1>3, <2>2
<1>6. sync.active /\ "process" \notin sync.left
  BY <1>0, <1>1, ExitFields
<1>7. Shaped' /\ Exits' /\ Outcome'
  BY <1>0, <1>1, <1>6 DEF Shaped, Exits, Outcome, FlowInv
<1>8. ASSUME sync.err = "none" PROVE Flows'
  <2>1. Flows
    BY <1>6, <1>8 DEF FlowInv
  <2>2. HeadersFlow'
    BY <1>1, <1>3, <1>5, <1>6, <2>1 DEF Flows, HeadersFlow
  <2>3. ContentFlow'
    <3>1. "content" \notin sync.left
      BY <1>6, <2>1 DEF Flows, ContentFlow
    <3> QED BY <1>1, <1>3, <2>1, <3>1 DEF Flows, ContentFlow
  <2>4. ASSUME NEW k \in PartsOf(q.mode) PROVE PartFlow(k)'
    <3>1. PartFlow(k)
      BY <2>1 DEF Flows
    <3> QED BY <1>1, <1>6, <3>1 DEF PartFlow
  <2> QED BY <1>3, <2>2, <2>3, <2>4 DEF Flows
<1> QED BY <1>1, <1>7, <1>8 DEF FlowInv

LEMMA TakeContentFlow ==
  ASSUME IInv, Ended, FlowInv, NEW limit \in Limits, NEW upto, TakeContent(limit, upto)
  PROVE  FlowInv'
<1> DEFINE ready == CountProcessable(q)
           count == IF ready < MaxResults THEN ready ELSE MaxResults
<1>0. /\ QueueInv(q) /\ WellFormed(q) /\ Shaped /\ Exits /\ q.headed \in Nat /\ q.offset \in Nat
  BY QueueNumbers DEF IInv, QueueInv, FlowInv
<1>1. /\ content = "take" /\ ready > 0
      /\ q' = TakeResults(q, count, limit) /\ chain' = upto
      /\ content' = IF upto = q.offset + count - 1 THEN "take" ELSE "failed"
      /\ UNCHANGED <<fetch, header, procCh, proc, sync, raced>>
  BY DEF TakeContent
<1>2. ready \in Nat
  BY <1>0, ProcessableNat
<1>3. count \in Nat \ {0}
  BY <1>1, <1>2, QueueAssumption
<1> HIDE DEF ready, count
<1>4. /\ q'.mode = q.mode /\ q'.offset = q.offset + count /\ q'.proced = q.proced
      /\ q'.headed = q.headed /\ q'.tasks = q.tasks
      /\ \A k \in Parts : q'.done[k] = q.done[k] \ (q.offset .. q.offset + count - 1)
  <2> DEFINE taken == q.offset .. q.offset + count - 1
  <2>1. taken = q.offset .. q.offset + count - 1
    OBVIOUS
  <2> HIDE DEF taken
  <2>2. /\ q'.mode = q.mode /\ q'.offset = q.offset + count /\ q'.proced = q.proced
        /\ q'.headed = q.headed /\ q'.tasks = q.tasks /\ \A k \in Parts : q'.done[k] = q.done[k] \ taken
    BY <1>0, <1>1, <2>1 DEF WellFormed, TakeResults
  <2> QED BY <2>1, <2>2
<1>5. sync.active /\ "content" \notin sync.left
  BY <1>0, <1>1, ExitFields
<1>6. Shaped' /\ Exits' /\ Outcome'
  BY <1>0, <1>1, <1>5 DEF Shaped, Exits, Outcome, FlowInv
<1>7. ASSUME sync.err = "none" PROVE Flows'
  <2>1. Flows
    BY <1>5, <1>7 DEF FlowInv
  <2>2. HeadersFlow'
    BY <1>1, <1>4, <2>1 DEF Flows, HeadersFlow, Held, Headed
  <2>3. ContentFlow'
    BY <1>0, <1>1, <1>3, <1>4, <1>5 DEF ContentFlow
  <2>4. ASSUME NEW k \in PartsOf(q.mode) PROVE PartFlow(k)'
    <3>1. PartFlow(k) /\ k \in Parts
      BY <2>1, PartsOfParts DEF Flows
    <3>2. Finished(k) => Finished(k)'
      BY <1>0, <1>1, <1>3, <1>4, <3>1 DEF Finished
    <3> QED BY <1>1, <1>4, <3>1, <3>2 DEF PartFlow
  <2> QED BY <1>4, <2>2, <2>3, <2>4 DEF Flows
<1> QED BY <1>1, <1>6, <1>7 DEF FlowInv

-----------------------------------------------------------------------------
(* The end of a synchronisation. *)

LEMMA AllWorkers ==
  ASSUME NEW L \in SUBSET (Workers \ {"content"}), Cardinality(L) = Cardinality(Workers) - 1
  PROVE  L = Workers \ {"content"}
<1>1. IsFiniteSet(Workers)
  <2>1. Workers = {"body", "receipt", "headers", "process", "content"}
    BY DEF Workers, Parts
  <2>2. IsFiniteSet({}) /\ \A S, x : IsFiniteSet(S) => IsFiniteSet(S \cup {x})
    BY FS_EmptySet, FS_AddElement
  <2>3. IsFiniteSet(((((({} \cup {"body"}) \cup {"receipt"}) \cup {"headers"}) \cup {"process"}) \cup {"content"}))
    BY <2>2, Zenon
  <2>4. Workers = (((({} \cup {"body"}) \cup {"receipt"}) \cup {"headers"}) \cup {"process"}) \cup {"content"}
    BY <2>1
  <2> QED BY <2>3, <2>4
<1> DEFINE W == Workers \ {"content"}
<1>2. "content" \in Workers
  BY DEF Workers
<1>3. IsFiniteSet(W) /\ Cardinality(W) = Cardinality(Workers) - 1
  BY <1>1, <1>2, FS_RemoveElement
<1> QED BY <1>3, FS_Subset

\* Nothing is left to import, and nothing to fetch: the chain is complete, or the
\* next block was revoked between the two reads of a fetcher.
LEMMA NothingLeft ==
  ASSUME QueueInv(q), CountProcessable(q) = 0, \A k \in PartsOf(q.mode) : Finished(k)
  PROVE  q.offset = q.headed + 1 \/ q.offset \in raced
<1>0. /\ WellFormed(q) /\ Cached(q) /\ q.headed \in Nat /\ q.offset \in Nat /\ q.offset <= q.headed + 1
      /\ "body" \in PartsOf(q.mode) /\ "body" \in Parts
  BY DoneBounds DEF QueueInv, Parts
<1>1. SUFFICES ASSUME q.offset <= q.headed, q.offset \notin raced PROVE FALSE
  BY <1>0
<1> DEFINE n == q.offset
           F == {i \in DOMAIN q.cache : \A m \in q.offset .. i : m \in DOMAIN q.cache /\ q.cache[m] = 0}
<1>2. \A k \in PartsOf(q.mode) : n \in q.done[k]
  BY <1>0, <1>1 DEF Finished
<1>3. n \in DOMAIN q.cache
  BY <1>0, <1>2 DEF Cached
<1>4. MissingParts(q, n) = {}
  BY <1>2 DEF MissingParts
<1>5. q.cache[n] = 0
  BY <1>0, <1>3, <1>4, FS_EmptySet DEF Cached
<1>6. n \in F
  <2>1. \A m \in q.offset .. n : m = n
    BY <1>0
  <2> QED BY <1>3, <1>5, <2>1
<1>7. IsFiniteSet(F)
  <2>1. F \subseteq Nat /\ \A i \in F : i <= q.headed
    BY <1>0 DEF Cached
  <2> QED BY <1>0, <2>1, FS_BoundedSetOfNaturals
<1>8. Cardinality(F) = 0
  BY DEF CountProcessable
<1> QED BY <1>6, <1>7, <1>8, FS_EmptySet

LEMMA EndContentFlow ==
  ASSUME IInv, Ended, FlowInv, EndContent
  PROVE  FlowInv'
<1>0. Shaped /\ Exits /\ QueueInv(q) /\ q.headed \in Nat /\ q.offset \in Nat
  BY QueueNumbers DEF FlowInv, IInv
<1>1. /\ content = "take" /\ CountProcessable(q) = 0 /\ Closed /\ content' = "off"
      /\ Exit("content", "none")
      /\ UNCHANGED <<q, fetch, header, procCh, proc, chain, raced>>
  BY DEF EndContent
<1>2. sync.active /\ "content" \notin sync.left /\ sync.left \subseteq Workers
  BY <1>0, <1>1, ExitFields DEF Exits
<1>3. Returns("content", "none")
  BY <1>0, <1>1, ExitReturns
<1>4. Exits' /\ Shaped' /\ Outcome'
  BY <1>0, <1>1, <1>2, <1>3 DEF Exits, Shaped, Outcome, Returns, Workers, FlowInv
<1>5. ASSUME sync'.err = "none" PROVE Flows'
  <2>1. sync.err = "none" /\ Flows /\ sync'.left = sync.left \cup {"content"}
    BY <1>2, <1>3, <1>5 DEF FlowInv, Returns
  <2>2. sync.left = Workers \ {"content"}
    BY <1>1, <1>2, <2>1, AllWorkers DEF Closed
  <2>3. "process" \in sync.left /\ \A k \in PartsOf(q.mode) : k \in sync.left
    BY <2>2, PartsOfParts DEF Workers, Parts
  <2>4. \A k \in PartsOf(q.mode) : Finished(k)
    BY <2>1, <2>3 DEF Flows, PartFlow
  <2>5. q.offset = q.headed + 1 \/ q.offset \in raced
    BY <1>0, <1>1, <2>4, NothingLeft
  <2>6. chain = q.offset - 1
    BY <1>1, <2>1 DEF Flows, ContentFlow
  <2>7. Imported
    BY <1>0, <2>5, <2>6 DEF Imported
  <2>8. HeadersFlow' /\ ContentFlow'
    BY <1>1, <1>3, <2>1, <2>3, <2>7 DEF Flows, HeadersFlow, ContentFlow, Held, Headed, Imported, Returns
  <2>9. ASSUME NEW k \in PartsOf(q.mode) PROVE PartFlow(k)'
    <3>1. PartFlow(k) /\ k # "content"
      BY <2>1, PartsOfParts DEF Flows, Parts
    <3>2. Finished(k) => Finished(k)'
      BY <1>1 DEF Finished
    <3> QED BY <1>1, <2>1, <3>1, <3>2 DEF PartFlow
  <2> QED BY <1>1, <2>8, <2>9 DEF Flows
<1> QED BY <1>3, <1>4, <1>5 DEF FlowInv

LEMMA EndSyncFlow ==
  ASSUME IInv, Ended, FlowInv, EndSync
  PROVE  FlowInv'
<1>0. Shaped /\ Exits /\ DOMAIN sync = DOMAIN Idle
  BY DEF FlowInv, Exits
<1>1. /\ sync.active /\ sync.left = Workers
      /\ sync' = [sync EXCEPT !.active = FALSE, !.cancelled = TRUE,
                              !.outcome = IF sync.err = "none" THEN "ok" ELSE "failed"]
      /\ UNCHANGED <<fetch, header, procCh, proc, content, chain>>
  BY DEF EndSync, workers
<1>2. raced \subseteq raced' /\ q'.headed = q.headed /\ q'.mode = q.mode
  <2>1. PICK P \in SUBSET Peers : Unregister(P, q, "none")
    BY DownloaderAssumption DEF EndSync
  <2>2. Grows
    BY <1>1, <2>1, DropInv
  <2> QED BY <2>1, <2>2 DEF Unregister, Grows
<1>3. /\ sync'.active = FALSE /\ sync'.left = Workers /\ DOMAIN sync' = DOMAIN Idle
      /\ sync'.outcome = IF sync.err = "none" THEN "ok" ELSE "failed"
      /\ sync'.origin = sync.origin /\ sync'.syncs = sync.syncs
  BY <1>0, <1>1, SyncFields
<1>4. proc.at = "off" /\ content = "off"
  BY <1>0, <1>1 DEF Exits, Workers
<1>5. ASSUME sync.err = "none" PROVE q.headed + 1 = header.from /\ Headed /\ Imported
  <2>1. Flows /\ "process" \in sync.left /\ "content" \in sync.left
    BY <1>1, <1>5 DEF FlowInv, Workers
  <2>2. header.at = "off" /\ Held = 0 /\ Headed /\ q.headed + Held + 1 = header.from /\ Imported
    BY <2>1 DEF Flows, HeadersFlow, ContentFlow
  <2>3. q.headed \in Nat
    BY QueueNumbers DEF IInv
  <2> QED BY <2>2, <2>3
<1>6. Shaped' /\ Exits' /\ Outcome'
  <2>1. Outcome'
    BY <1>1, <1>2, <1>3, <1>5 DEF Outcome, Headed, Imported
  <2> QED BY <1>0, <1>1, <1>3, <1>4, <2>1 DEF Shaped, Exits
<1> QED BY <1>3, <1>6 DEF FlowInv

\* Nothing but the peers, the cancel channel and the open questions changes.
LEMMA PeersFlow ==
  ASSUME IInv, FlowInv, SameSync, Shaped', Grows, q'.proced = q.proced, raced \subseteq raced',
         UNCHANGED workers,
         chain' = chain, \A m \in Parts : Rests(m)
  PROVE  FlowInv'
<1>1. UNCHANGED <<header, procCh, proc, content, chain>>
  BY DEF workers
<1> QED BY <1>1, FetchingFlow

LEMMA PeerStepFlow ==
  ASSUME IInv, Ended, FlowInv, PeerStep
  PROVE  FlowInv'
<1>0. Shaped /\ Exits /\ QueueInv(q) /\ WellFormed(q) /\ DOMAIN sync = DOMAIN Idle /\ HeaderTypes
  BY DEF FlowInv, IInv, QueueInv, Exits, HeaderInv
<1>1. ASSUME NEW k \in Kinds, NEW p \in Peers, Discard(k, p) PROVE FlowInv'
  <2>1. UNCHANGED <<q, fetch, workers, sync, chain, raced>>
    BY <1>1 DEF Discard
  <2>2. SameSync /\ Shaped' /\ Grows /\ \A m \in Parts : Rests(m)
    BY <1>0, <2>1, KeepsGrows DEF SameSync, Shaped, Rests
  <2> QED BY <2>1, <2>2, PeersFlow
<1>2. ASSUME ImportFailed PROVE FlowInv'
  <2>1. /\ content = "failed" /\ content' = "off" /\ Exit("content", "invalidChain")
        /\ UNCHANGED <<fetch, proc>>
    BY <1>2 DEF ImportFailed
  <2>2. sync.active /\ Returns("content", "invalidChain")
    BY <1>0, <2>1, ExitFields, ExitReturns
  <2>3. Exits' /\ Shaped'
    BY <1>0, <2>1, <2>2 DEF Exits, Returns, Workers, Shaped
  <2> QED BY <2>2, <2>3, FailedFlow DEF Returns
<1>3. ASSUME Cancel \/ CancelMaster PROVE FlowInv'
  <2>1. UNCHANGED <<q, fetch, workers, chain, raced>> /\ sync' = [sync EXCEPT !.cancelled = TRUE]
    BY <1>3 DEF Cancel, CancelMaster
  <2>2. SameSync
    BY <1>0, <2>1, SyncFields DEF SameSync
  <2>3. Shaped' /\ Grows /\ \A m \in Parts : Rests(m)
    BY <1>0, <2>1, KeepsGrows DEF Shaped, Rests
  <2> QED BY <2>1, <2>2, <2>3, PeersFlow
<1>4. ASSUME NEW p \in Peers, Connect(p) PROVE FlowInv'
  <2>1. /\ UNCHANGED <<q, workers, sync, chain, raced>>
        /\ fetch' = [k \in Kinds |-> [fetch[k] EXCEPT !.present = @ \ {p}]]
    BY <1>4 DEF Connect
  <2>2. Shaped' /\ \A k \in Kinds : /\ fetch'[k].at = fetch[k].at /\ fetch'[k].wake = fetch[k].wake
                                    /\ fetch'[k].finished = fetch[k].finished
    BY <1>0, <2>1, FetchFields DEF Shaped
  <2>3. SameSync /\ Grows /\ \A m \in Parts : Rests(m)
    BY <2>1, <2>2, KeepsGrows, KindNames DEF SameSync, Rests
  <2> QED BY <2>1, <2>2, <2>3, PeersFlow
<1>5. ASSUME NEW p \in Peers, Disconnect(p) PROVE FlowInv'
  <2>1. Unregister({p}, q, "none") /\ UNCHANGED <<fetch, workers, sync, chain>>
    BY <1>5 DEF Disconnect
  <2>2. Keeps(q, q) /\ KeepsSkeleton(q, q) /\ {p} \in SUBSET Peers
    BY SameQueue
  <2>3. Grows /\ KeepsSkeleton(q, q')
    BY <1>0, <2>1, <2>2, UnregisterInv
  <2>4. PICK x : x = q
    OBVIOUS
  <2>5. \A m \in Parts : m \in Parts \ {"none"} /\ x.tasks[m] = q.tasks[m]
    BY <2>4 DEF Parts
  <2>6. ASSUME NEW m \in Parts
        PROVE  fetch[m].at = "drained" => q'.tasks[m] \subseteq q.tasks[m] \cup raced'
    BY <1>0, <2>1, <2>2, <2>4, <2>5, UnregisterRests
  <2>7. \A m \in Parts : Rests(m)
    BY <2>1, <2>6 DEF Rests
  <2>8. raced \subseteq raced'
    BY <2>1 DEF Unregister
  <2>9. SameSync /\ Shaped'
    BY <1>0, <2>1 DEF SameSync, Shaped
  <2> QED BY <2>1, <2>3, <2>7, <2>8, <2>9, PeersFlow DEF KeepsSkeleton
<1> QED BY <1>1, <1>2, <1>3, <1>4, <1>5, EndContentFlow, EndSyncFlow DEF PeerStep

LEMMA StartFlow ==
  ASSUME IInv, NEW mode \in Modes, Start(mode)
  PROVE  FlowInv'
<1>0. chain \in Nat /\ chain < Height
  BY DEF IInv, Start
<1>1. /\ sync' = [active |-> TRUE, cancelled |-> FALSE, left |-> {}, err |-> "none",
                  outcome |-> "none", origin |-> chain, syncs |-> sync.syncs + 1]
      /\ fetch' = [k \in Kinds |-> IF k \in Parts THEN AtSelect(Off) ELSE Off]
      /\ header' = [at |-> "skeleton", from |-> chain + 1, rest |-> 0, skeleton |-> TRUE]
      /\ procCh' = <<>> /\ proc' = [at |-> "wait", todo |-> 0] /\ content' = "take" /\ chain' = chain
  BY DEF Start
<1>2. q'.headed = chain /\ q'.offset = chain + 1
  BY StartInv DEF Restarts
<1>3. /\ AtSelect(Off).at = "select" /\ AtSelect(Off).wake = FALSE /\ AtSelect(Off).finished = FALSE
      /\ DOMAIN AtSelect(Off) = DOMAIN Off
  BY DEF AtSelect, Off
<1>4. Shaped'
  BY <1>1, <1>3 DEF Shaped
<1>5. sync'.active /\ sync'.left = {} /\ sync'.outcome = "none" /\ DOMAIN sync' = DOMAIN Idle
      /\ sync'.origin = chain
  BY <1>1, SyncFields
<1>6. Exits' /\ Outcome'
  BY <1>5 DEF Exits, Outcome
<1>7. Held' = 0 /\ header'.at = "skeleton" /\ header'.from = chain + 1
  BY <1>1 DEF Held
<1>8. HeadersFlow'
  BY <1>0, <1>1, <1>2, <1>5, <1>7 DEF HeadersFlow
<1>9. ContentFlow'
  BY <1>0, <1>1, <1>2, <1>5 DEF ContentFlow
<1>10. \A k \in Parts : PartFlow(k)'
  BY <1>1, <1>3, <1>5, KindNames DEF PartFlow
<1>11. Flows'
  BY <1>8, <1>9, <1>10, PartsOfParts DEF Flows
<1> QED BY <1>4, <1>6, <1>11 DEF FlowInv

LEMMA InitFlow == Init => FlowInv
<1> SUFFICES ASSUME Init PROVE FlowInv
  OBVIOUS
<1>1. /\ fetch = [k \in Kinds |-> Off] /\ proc = [at |-> "off", todo |-> 0] /\ content = "off"
      /\ sync = Idle
  BY DEF Init
<1>2. Idle.active = FALSE /\ Idle.left = Workers /\ Idle.outcome = "none"
  BY DEF Idle
<1> QED BY <1>1, <1>2 DEF FlowInv, Shaped, Exits, Outcome

LEMMA NextFlow ==
  ASSUME IInv, Ended, FlowInv, Next
  PROVE  FlowInv'
<1>1. \/ \E k \in Kinds : FetchStep(k)
      \/ \E k \in Kinds, p \in Peers : Delivery(k, p)
      \/ PeerStep \/ HeaderStep \/ HeaderTimeout \/ HandStep \/ ScheduleChunk
      \/ \E count : StaleHeaders(count)
      \/ \E limit \in Limits : \E upto : TakeContent(limit, upto)
      \/ \E mode \in Modes : Start(mode)
  BY Zenon DEF Next, PeerStep, HandStep, ProcessStep, ContentStep
<1>2. ASSUME NEW k \in Kinds, NEW p \in Peers, Delivery(k, p) PROVE FlowInv'
  BY <1>2, DeliverPartFlow, DeliverHeadersFlow DEF Delivery
<1> QED BY <1>1, <1>2, FetchStepFlow, PeerStepFlow, HeaderStepFlow, HeaderTimeoutFlow,
          HandStepFlow, ScheduleChunkFlow, StaleHeadersFlow, TakeContentFlow, StartFlow

LEMMA StutterFlow ==
  ASSUME IInv, FlowInv, UNCHANGED vars
  PROVE  FlowInv'
<1>1. UNCHANGED <<q, fetch, workers, sync, chain, raced>>
  BY DEF vars
<1>2. SameSync /\ Shaped' /\ Grows /\ \A m \in Parts : Rests(m)
  BY <1>1, KeepsGrows DEF SameSync, Shaped, Rests, FlowInv
<1> QED BY <1>1, <1>2, PeersFlow

\* A synchronisation that reports success got headers, in a first fast one all of
\* those promised, lost none of them between fetchHeaders and processHeaders, and
\* has imported every block of theirs, unless the next block is one that a leaving
\* peer gave back between the two reads after which a fetcher returns: no fetcher
\* is told of the end too early, and the queue is closed for the content processor
\* only when nothing else is left (spawnSync, fetchParts, processHeaders,
\* processFullSyncContent).
THEOREM SuccessIsComplete == Spec => []SuccessComplete
<1>1. Init => IInv /\ PeerInv /\ Ended /\ FlowInv
  BY InitInv, InitPeers, InitFlow
<1>2. IInv /\ PeerInv /\ Ended /\ FlowInv /\ [Next]_vars => (IInv /\ PeerInv /\ Ended /\ FlowInv)'
  BY NextInv, StutterInv, NextPeers, StutterPeers, NextFlow, StutterFlow
<1>3. FlowInv => SuccessComplete
  BY DEF FlowInv, Outcome, Headed, Imported, SuccessComplete
<1> QED BY <1>1, <1>2, <1>3, PTL DEF Spec

-----------------------------------------------------------------------------
(* A fetcher gives up for want of peers. *)

\* In a round in which nothing was in flight at its start, nothing was asked for
\* and nothing finished since, every peer of the round that was tried lacks a block.
Tried(k) ==
  (/\ fetch[k].at = "assign" /\ fetch[k].full
   /\ ~fetch[k].progressed /\ ~fetch[k].running) =>
       /\ q.tasks[k] # {} /\ \A p \in Peers : q.pend[k][p] = <<>>
       /\ \A p \in (reg \cap fetch[k].present) \ fetch[k].idles : lacks[p] # {}

TryInv == DOMAIN lacks = Peers /\ \A k \in Parts : Tried(k)

\* The claim of NoSpuriousFailure for one step and kind.
Gives(k) ==
  fetch[k].at = "assign" /\ fetch'[k].at = "off" =>
    \A p \in reg \cap fetch[k].present : lacks[p] # {}

\* A round of kind k that is under way does not see the step.
Steady(k) ==
  /\ fetch[k].at = "assign" => fetch'[k].at # "off"
  /\ fetch'[k].at = "assign" =>
       /\ fetch[k].at = "assign" /\ fetch'[k].idles = fetch[k].idles /\ fetch'[k].full = fetch[k].full
       /\ fetch'[k].progressed = fetch[k].progressed /\ fetch'[k].running = fetch[k].running
       /\ reg' \cap fetch'[k].present \subseteq reg \cap fetch[k].present
       /\ \A p \in reg' \cap fetch'[k].present : lacks[p] # {} => lacks'[p] # {}
       /\ q.tasks[k] \subseteq q'.tasks[k]
       /\ \A p \in Peers : q.pend[k][p] = <<>> => q'.pend[k][p] = <<>>

LEMMA SteadyTried ==
  ASSUME NEW k \in Parts, Tried(k), Steady(k)
  PROVE  Tried(k)' /\ Gives(k)
<1>1. Gives(k)
  BY DEF Steady, Gives
<1>2. Tried(k)'
  <2> SUFFICES ASSUME fetch'[k].at = "assign", fetch'[k].full, ~fetch'[k].progressed, ~fetch'[k].running
               PROVE  /\ q'.tasks[k] # {} /\ \A p \in Peers : q'.pend[k][p] = <<>>
                      /\ \A p \in (reg' \cap fetch'[k].present) \ fetch'[k].idles : lacks'[p] # {}
    BY DEF Tried
  <2>1. /\ fetch[k].at = "assign" /\ fetch[k].full /\ ~fetch[k].progressed /\ ~fetch[k].running
    BY DEF Steady
  <2>2. /\ q.tasks[k] # {} /\ \A p \in Peers : q.pend[k][p] = <<>>
        /\ \A p \in (reg \cap fetch[k].present) \ fetch[k].idles : lacks[p] # {}
    BY <2>1 DEF Tried
  <2> QED BY <2>2 DEF Steady
<1> QED BY <1>1, <1>2

\* The loop of kind k stays; peers may leave, tasks may come.
LEMMA StillSteady ==
  ASSUME NEW k \in Parts, fetch'[k] = fetch[k], reg' \subseteq reg, lacks' = lacks,
         q.tasks[k] \subseteq q'.tasks[k],
         \A p \in Peers : q.pend[k][p] = <<>> => q'.pend[k][p] = <<>>
  PROVE  Steady(k)
BY DEF Steady

LEMMA SelectSteady ==
  ASSUME NEW k \in Parts, fetch[k].at # "assign", fetch'[k].at # "assign"
  PROVE  Steady(k)
BY DEF Steady

LEMMA UnregisterSteady ==
  ASSUME NEW x, WellFormed(x), NEW P \in SUBSET Peers, NEW k, Unregister(P, x, k), NEW m \in Parts,
         q.tasks[m] \subseteq x.tasks[m], \A p \in Peers : q.pend[m][p] = <<>> => x.pend[m][p] = <<>>
  PROVE  /\ reg' \subseteq reg /\ q.tasks[m] \subseteq q'.tasks[m]
         /\ \A p \in Peers : q.pend[m][p] = <<>> => q'.pend[m][p] = <<>>
<1>1. q' = Revoke(x, P) /\ reg' = reg \ P
  BY DEF Unregister
<1>2. /\ q'.tasks[m] = x.tasks[m] \cup UNION {ToSet(x.pend[m][p]) : p \in P}
      /\ \A p \in Peers : q'.pend[m][p] = IF p \in P THEN <<>> ELSE x.pend[m][p]
  BY <1>1, RevokeFields
<1> QED BY <1>1, <1>2

\* A reservation that finds nothing to ask for and finishes nothing: the peer
\* lacks a block, and the tasks are back in the queue.
LEMMA ReserveTries ==
  ASSUME NEW x, QueueInv(x), NEW k \in Parts, NEW p \in Peers, NEW count \in Nat \ {0}, NEW lacking,
         NEW z, z = Reserve(x, k, p, count, lacking), x.tasks[k] # {}, x.pend[k][p] = <<>>,
         ~ShouldThrottle(x, k), ~z.progress, z.send = <<>>
  PROVE  /\ lacking # {} /\ z.q.tasks[k] # {}
         /\ \A s \in Peers : z.q.pend[k][s] = x.pend[k][s]
<1>0. WellFormed(x) /\ Unwanted(x) /\ k \in Kinds /\ k # "header"
  BY KindNames DEF QueueInv
<1>1. k \in PartsOf(x.mode)
  BY <1>0 DEF Unwanted
<1> DEFINE r == ReserveLoop(x, k, count, lacking)
           y == [r.q EXCEPT !.tasks[k] = @ \cup r.skip, !.pend[k][p] = r.send]
<1>2. z = ReserveParts(x, k, p, count, lacking)
  BY <1>0 DEF Reserve
<1>3. z.q = (IF r.invalid THEN r.q ELSE y) /\ z.progress = r.progress /\ z.send = r.send
  <2>1. z = [ q |-> IF r.invalid THEN r.q ELSE y,
              send |-> r.send, progress |-> r.progress, invalid |-> r.invalid ]
    BY <1>2, Zenon DEF ReserveParts
  <2> HIDE DEF r, y
  <2> QED BY <2>1
<1>4. LoopInv(x, k, r) /\ Tries(x, k, count, lacking, 1, r)
  BY <1>1, LoopResult
<1> HIDE DEF r
<1>5. SameOthers(x, k, r) /\ Split(x, k, r)
  BY <1>4 DEF LoopInv
<1>6. ResultSlots(x, k) \in Int /\ ResultSlots(x, k) > 0 /\ count > 0
  BY <1>0, <1>1, SlotsInteger DEF ShouldThrottle
<1>7. /\ r.progress = FALSE /\ r.skip \subseteq lacking /\ r.q.done[k] = x.done[k]
      /\ PoppedBy(x, k, r) # {}
  BY <1>3, <1>4, <1>6 DEF Tries
<1>8. r.skip # {}
  <2>1. PoppedBy(x, k, r) = FinishedBy(x, k, r) \cup ToSet(r.send) \cup r.skip
    BY <1>5 DEF Split
  <2>2. FinishedBy(x, k, r) = {}
    BY <1>7 DEF FinishedBy
  <2> QED BY <1>3, <1>7, <2>1, <2>2, ToSetEmpty
<1>9. z.q = y /\ WellFormed(r.q) /\ r.q.pend = x.pend
  BY <1>3, <1>5 DEF SameOthers
<1>10. y.tasks[k] = r.q.tasks[k] \cup r.skip /\ y.pend[k] = [x.pend[k] EXCEPT ![p] = r.send]
  BY <1>0, <1>9 DEF WellFormed
<1> HIDE DEF y
<1> QED BY <1>0, <1>3, <1>7, <1>8, <1>9, <1>10 DEF WellFormed

\* The turn of an idle peer.
LEMMA AssignTries ==
  ASSUME IInv, FlowInv, NEW k \in Parts, Tried(k), NEW p \in Peers, NEW count \in Counts,
         Assign(k, p, count)
  PROVE  Tried(k)' /\ Gives(k)
<1> DEFINE f == fetch[k]
           r == Reserve(q, k, p, count, lacks[p])
           g1 == [f EXCEPT !.idles = {}, !.throttled = TRUE]
           g2 == [f EXCEPT !.idles = {}]
           g3 == [f EXCEPT !.idles = @ \ {p}, !.progressed = @ \/ r.progress,
                           !.running = @ \/ r.send # <<>>]
<1>0. QueueInv(q) /\ Shaped /\ f.at = "assign" /\ k \in Kinds /\ count \in Nat \ {0}
      /\ UNCHANGED <<reg, lacks>>
  BY KindNames, DownloaderAssumption DEF IInv, FlowInv, Assign
<1>1. r.invalid = FALSE
  <2>1. PICK z : z = Reserve(q, k, p, count, lacks[p])
    OBVIOUS
  <2>2. QueueInv(q) /\ k \in Kinds /\ p \in Peers
    BY <1>0
  <2>3. /\ z.invalid = FALSE
        /\ QueueInv(z.q) /\ Stays(q, z.q) /\ KeepsSkeleton(q, z.q)
        /\ \A l \in Parts : q.done[l] \subseteq z.q.done[l]
    BY ONLY <2>1, <2>2, ReserveInv
  <2> QED BY <2>1, <2>3
<1>2. \/ ShouldThrottle(q, k) /\ Continue(k, g1)
      \/ q.tasks[k] = {} /\ Continue(k, g2)
      \/ ~ShouldThrottle(q, k) /\ q.tasks[k] # {} /\ q' = r.q /\ Continue(k, g3)
  <2> HIDE DEF g1, g2, g3
  <2>1. ~(r.invalid)
    BY <1>1
  <2> HIDE DEF r
  <2> QED BY <2>1, Zenon DEF Assign, r, f, g1, g2, g3
<1>3. /\ DOMAIN g1 = DOMAIN Off /\ g1.idles = {} /\ g1.throttled = TRUE
      /\ DOMAIN g2 = DOMAIN Off /\ g2.idles = {} /\ g2.full = f.full
      /\ g2.progressed = f.progressed /\ g2.running = f.running
      /\ DOMAIN g3 = DOMAIN Off /\ g3.idles = f.idles \ {p} /\ g3.full = f.full
      /\ g3.present = f.present /\ g3.at = "assign"
      /\ g3.progressed = (f.progressed \/ r.progress) /\ g3.running = (f.running \/ r.send # <<>>)
  BY <1>0, FetchFields DEF Shaped
<1> HIDE DEF g1, g2, g3
<1>4. ASSUME ShouldThrottle(q, k), Continue(k, g1) PROVE fetch'[k].at = "select"
  <2> HIDE DEF r, f
  <2> QED BY <1>0, <1>3, <1>4, ContinueCases
<1>5. ASSUME q.tasks[k] = {}, Continue(k, g2) PROVE fetch'[k].at = "select"
  <2>1. ~(f.full /\ ~f.progressed /\ ~f.running)
    BY <1>0, <1>5 DEF Tried
  <2> HIDE DEF r, f
  <2> QED BY <1>0, <1>3, <1>5, <2>1, ContinueCases
<1>6. ASSUME fetch'[k].at = "select" PROVE Tried(k)' /\ Gives(k)
  BY <1>6 DEF Tried, Gives
<1>7. ASSUME ~ShouldThrottle(q, k), q.tasks[k] # {}, q' = r.q, Continue(k, g3)
      PROVE  Tried(k)' /\ Gives(k)
  <2>1. ASSUME g3.full, ~g3.progressed, ~g3.running
        PROVE  /\ q'.tasks[k] # {} /\ \A s \in Peers : q'.pend[k][s] = <<>>
               /\ \A s \in (reg \cap f.present) \ g3.idles : lacks[s] # {}
    <3>1. f.full /\ ~f.progressed /\ ~f.running /\ ~r.progress /\ r.send = <<>>
      BY <1>3, <2>1, Zenon
    <3>2. /\ \A s \in Peers : q.pend[k][s] = <<>>
          /\ \A s \in (reg \cap f.present) \ f.idles : lacks[s] # {}
      BY <1>0, <3>1 DEF Tried
    <3>3. /\ lacks[p] # {} /\ r.q.tasks[k] # {}
          /\ \A s \in Peers : r.q.pend[k][s] = q.pend[k][s]
      BY <1>0, <1>7, <3>1, <3>2, ReserveTries
    <3> HIDE DEF r
    <3> QED BY <1>3, <1>7, <3>2, <3>3
  <2> HIDE DEF r
  <2>2. CASE g3.idles = {} /\ g3.full /\ ~g3.progressed /\ ~g3.throttled /\ ~g3.running
    <3>1. Return(k, "peersUnavailable")
      BY <1>7, <2>2 DEF Continue
    <3>2. fetch'[k].at = "off"
      BY <1>0, <3>1, OffAt DEF Return, Shaped
    <3> QED BY <2>1, <2>2, <3>2 DEF Tried, Gives
  <2>3. CASE ~(g3.idles = {} /\ g3.full /\ ~g3.progressed /\ ~g3.throttled /\ ~g3.running)
    <3>1. fetch'[k].at = "select" \/ fetch'[k] = g3
      BY <1>0, <1>3, <1>7, <2>3, ContinueCases
    <3>2. ASSUME fetch'[k] = g3 PROVE Tried(k)' /\ Gives(k)
      BY <1>0, <1>3, <2>1, <3>2 DEF Tried, Gives
    <3> QED BY <1>6, <3>1, <3>2
  <2> QED BY <2>2, <2>3
<1> QED BY <1>2, <1>4, <1>5, <1>6, <1>7

\* A round starts: all its peers are in the list of idle ones, or the loop does
\* not give up in this round.
LEMMA RoundTries ==
  ASSUME IInv, FlowInv, NEW k \in Kinds, NEW E \in SUBSET Peers, Round(k, E), NEW m \in Parts, Tried(m)
  PROVE  Tried(m)' /\ Gives(m)
<1> DEFINE drop == Stalling(k, E)
           x == Requeue(q, k, E)
           qq == Revoke(x, drop)
           free == (reg \ drop) \ (busy[k] \ E)
           empty == [fetch[k] EXCEPT !.at = IF fetch[k].finished THEN "drained" ELSE "select"]
           ready == [fetch[k] EXCEPT !.at = "assign", !.idles = free,
                            !.full = (free = reg \ drop), !.running = InFlight(qq, k),
                            !.present = reg \ drop]
<1>0. /\ drop \in SUBSET Peers /\ QueueInv(q) /\ WellFormed(q) /\ Shaped
  BY DEF Stalling, IInv, QueueInv, FlowInv
<1>1. /\ Unregister(drop, x, k) /\ fetch[k].at = "select" /\ lacks' = lacks
      /\ IF qq.tasks[k] # {} THEN Continue(k, ready)
         ELSE fetch' = [fetch EXCEPT ![k] = empty]
  BY DEF Round
<1>2. q' = qq /\ reg' = reg \ drop
  BY <1>1 DEF Unregister
<1>3. /\ DOMAIN ready = DOMAIN Off /\ ready.idles = free /\ ready.full = (free = reg \ drop)
      /\ ready.running = InFlight(qq, k) /\ ready.present = reg \ drop
      /\ DOMAIN empty = DOMAIN Off /\ empty.at # "assign"
  BY <1>0, FetchFields DEF Shaped
<1>4. /\ \A l \in Kinds \ {k} : x.tasks[l] = q.tasks[l] /\ x.pend[l] = q.pend[l]
      /\ WellFormed(x)
  <2>1. x = Requeue(q, k, E)
    OBVIOUS
  <2> HIDE DEF x
  <2>2. QueueInv(x) /\ Keeps(q, x) /\ KeepsSkeleton(q, x)
    BY <1>0, <2>1, RequeueInv
  <2>3. /\ Keeps(q, x) /\ KeepsSkeleton(q, x)
        /\ DOMAIN x.tasks = Kinds /\ DOMAIN x.pend = Kinds
        /\ x.tasks[k] = q.tasks[k] \cup UNION {ToSet(q.pend[k][p]) : p \in E}
        /\ x.pend[k] = [p \in Peers |-> IF p \in E THEN <<>> ELSE q.pend[k][p]]
        /\ \A l \in Kinds \ {k} : x.tasks[l] = q.tasks[l] /\ x.pend[l] = q.pend[l]
    BY <1>0, <2>1, RequeueFields
  <2> QED BY <2>2, <2>3 DEF QueueInv
<1> HIDE DEF drop, x, qq, free, empty, ready
<1>5. /\ \A l \in Kinds \ {k} : fetch'[l] = fetch[l]
      /\ fetch'[k].at # "assign" \/ (qq.tasks[k] # {} /\ fetch'[k] = ready)
  <2>1. CASE qq.tasks[k] = {}
    BY <1>0, <1>1, <1>3, <2>1 DEF Shaped
  <2>2. CASE qq.tasks[k] # {}
    <3>1. CASE Return(k, "peersUnavailable")
      BY <1>0, <3>1, OffAt DEF Return, Shaped
    <3>2. CASE ~Return(k, "peersUnavailable")
      <4>1. Continue(k, ready)
        BY <1>1, <2>2
      <4>2. /\ \A l \in Kinds \ {k} : fetch'[l] = fetch[l]
            /\ fetch'[k].at = "select" \/ fetch'[k] = ready
        BY <1>0, <1>3, <3>2, <4>1, ContinueCases
      <4> QED BY <2>2, <4>2
    <3> QED BY <3>1, <3>2
  <2> QED BY <2>1, <2>2
<1>6. CASE m # k
  <2>1. fetch'[m] = fetch[m] /\ q.tasks[m] \subseteq x.tasks[m]
        /\ \A p \in Peers : q.pend[m][p] = <<>> => x.pend[m][p] = <<>>
    BY <1>4, <1>5, <1>6, KindNames
  <2>2. /\ reg' \subseteq reg /\ q.tasks[m] \subseteq q'.tasks[m]
        /\ \A p \in Peers : q.pend[m][p] = <<>> => q'.pend[m][p] = <<>>
    <3>1. PICK y, P : y = x /\ P = drop
      OBVIOUS
    <3>2. /\ WellFormed(y) /\ P \in SUBSET Peers /\ Unregister(P, y, k) /\ m \in Parts
          /\ q.tasks[m] \subseteq y.tasks[m]
          /\ \A p \in Peers : q.pend[m][p] = <<>> => y.pend[m][p] = <<>>
      BY <1>0, <1>1, <1>4, <2>1, <3>1
    <3> QED BY ONLY <3>2, UnregisterSteady
  <2> QED BY <1>1, <2>1, <2>2, StillSteady, SteadyTried
<1>7. CASE m = k
  <2>1. Gives(m)
    BY <1>1, <1>7 DEF Gives
  <2>2. Tried(m)'
    <3>1. CASE fetch'[k].at # "assign"
      BY <1>7, <3>1 DEF Tried
    <3>2. CASE qq.tasks[k] # {} /\ fetch'[k] = ready
      <4> SUFFICES ASSUME fetch'[k].full, ~fetch'[k].running
                   PROVE  /\ q'.tasks[k] # {} /\ \A p \in Peers : q'.pend[k][p] = <<>>
                          /\ \A p \in (reg' \cap fetch'[k].present) \ fetch'[k].idles : lacks'[p] # {}
        BY <1>7 DEF Tried
      <4>1. free = reg \ drop /\ ~InFlight(qq, k)
        BY <1>3, <3>2, Zenon
      <4>2. \A p \in Peers : q'.pend[k][p] = <<>>
        BY <1>2, <4>1 DEF InFlight
      <4> QED BY <1>2, <1>3, <3>2, <4>1, <4>2
    <3> QED BY <1>5, <3>1, <3>2
  <2> QED BY <2>1, <2>2
<1> QED BY <1>6, <1>7

LEMMA FetchStepTries ==
  ASSUME IInv, FlowInv, NEW k \in Kinds, FetchStep(k), NEW m \in Parts, Tried(m)
  PROVE  Tried(m)' /\ Gives(m)
<1>0. QueueInv(q) /\ Shaped /\ m \in Kinds
  BY KindNames DEF IInv, FlowInv
<1>1. ASSUME Wake(k) \/ NoPeers(k) \/ Drained(k) PROVE Tried(m)' /\ Gives(m)
  <2>1. /\ fetch[k].at # "assign" /\ UNCHANGED <<q, reg, lacks>>
        /\ \/ fetch' = [fetch EXCEPT ![k].wake = FALSE, ![k].finished = TRUE] /\ fetch[k].at = "select"
           \/ fetch' = [fetch EXCEPT ![k].at = "select"]
           \/ fetch' = [fetch EXCEPT ![k] = Off]
    BY <1>1 DEF Wake, NoPeers, Drained, Return, peerVars
  <2>2. fetch'[k].at # "assign" /\ \A l \in Kinds \ {k} : fetch'[l] = fetch[l]
    BY <1>0, <2>1, FetchFields, OffAt DEF Shaped
  <2>3. CASE m = k
    BY <2>1, <2>2, <2>3, SelectSteady, SteadyTried
  <2>4. CASE m # k
    BY <1>0, <2>1, <2>2, <2>4, StillSteady, SteadyTried
  <2> QED BY <2>3, <2>4
<1>2. ASSUME NEW E \in SUBSET Peers, Round(k, E) PROVE Tried(m)' /\ Gives(m)
  BY <1>2, RoundTries
<1>3. ASSUME NEW p \in Peers, NEW count \in Counts, Assign(k, p, count) PROVE Tried(m)' /\ Gives(m)
  <2>1. CASE m = k
    BY <1>3, <2>1, AssignTries
  <2>2. CASE m # k
    <3> DEFINE r == Reserve(q, k, p, count, lacks[p])
    <3>1. (q' = q \/ q' = r.q) /\ UNCHANGED <<reg, lacks>>
      BY <1>3 DEF Assign
    <3>2. \E g : fetch' = [fetch EXCEPT ![k] = g]
      <4>1. (\E err : Return(k, err)) \/ (\E g : Continue(k, g))
        BY <1>3, Zenon DEF Assign
      <4> QED BY <4>1, Zenon DEF Return, Continue
    <3>3. fetch'[m] = fetch[m]
      BY <1>0, <2>2, <3>2 DEF Shaped
    <3>4. r.q.tasks[m] = q.tasks[m] /\ r.q.pend[m] = q.pend[m]
      BY <1>0, <2>2, ReserveOthers
    <3> HIDE DEF r
    <3> QED BY <3>1, <3>3, <3>4, StillSteady, SteadyTried
  <2> QED BY <2>1, <2>2
<1> QED BY <1>1, <1>2, <1>3 DEF FetchStep

LEMMA DeliveryTries ==
  ASSUME IInv, FlowInv, TryInv, NEW k \in Kinds, NEW p \in Peers, Delivery(k, p), NEW m \in Parts
  PROVE  Tried(m)' /\ Gives(m) /\ DOMAIN lacks' = Peers
<1>0. QueueInv(q) /\ WellFormed(q) /\ Shaped /\ m \in Kinds /\ Tried(m) /\ DOMAIN lacks = Peers
  BY KindNames DEF IInv, QueueInv, FlowInv, TryInv
<1>1. ASSUME k \in Parts, NEW answer, DeliverPart(k, p, answer)
      PROVE  Tried(m)' /\ Gives(m) /\ DOMAIN lacks' = Peers
  <2>1. /\ q' = DeliverParts(q, k, p, answer).q /\ fetch[k].at = "select"
        /\ fetch' = [fetch EXCEPT ![k] = Off] \/ fetch' = fetch
        /\ reg' = reg /\ \E L : lacks' = [lacks EXCEPT ![p] = @ \cup L]
    BY <1>1 DEF DeliverPart, Return
  <2>2. PICK good \in SUBSET ToSet(q.pend[k][p]) : q' = Accepted(q, k, p, good)
    BY <1>1, <2>1, DeliverAccepts
  <2>3. \A l \in Kinds \ {k} : q'.tasks[l] = q.tasks[l] /\ q'.pend[l] = q.pend[l]
    BY <1>0, <2>2 DEF WellFormed, Accepted
  <2>4. fetch'[k].at # "assign" /\ \A l \in Kinds \ {k} : fetch'[l] = fetch[l]
    BY <1>0, <2>1, OffAt DEF Shaped
  <2>5. DOMAIN lacks' = Peers /\ \A r \in Peers : lacks[r] \subseteq lacks'[r]
    BY <1>0, <2>1
  <2>6. CASE m = k
    BY <1>0, <2>1, <2>4, <2>5, <2>6, SelectSteady, SteadyTried
  <2>7. CASE m # k
    <3>1. \A r : lacks[r] # {} => lacks'[r] # {}
      BY <1>0, <2>1
    <3>2. fetch'[m] = fetch[m] /\ q'.tasks[m] = q.tasks[m] /\ q'.pend[m] = q.pend[m]
      BY <1>0, <2>3, <2>4, <2>7
    <3>3. Steady(m)
      BY <2>1, <3>1, <3>2 DEF Steady
    <3> QED BY <1>0, <2>5, <3>3, SteadyTried
  <2> QED BY <2>6, <2>7
<1>2. ASSUME NEW fits \in BOOLEAN, DeliverHeaders(p, fits)
      PROVE  Tried(m)' /\ Gives(m) /\ DOMAIN lacks' = Peers
  <2> DEFINE d == DeliverBatch(q, p, fits, procCh = <<>>)
  <2>1. /\ q' = d.q /\ UNCHANGED <<reg, lacks>>
        /\ fetch' = [fetch EXCEPT !["header"].wake = @ \/ (d.err = "none" /\ d.q.unfilled = {})]
    BY <1>2 DEF DeliverHeaders
  <2>2. d.q.tasks[m] = q.tasks[m] /\ d.q.pend[m] = q.pend[m]
    BY <1>0, KindNames DEF WellFormed, DeliverBatch
  <2> HIDE DEF d
  <2>3. fetch'[m] = fetch[m]
    BY <1>0, <2>1, KindNames DEF Shaped
  <2> QED BY <1>0, <2>1, <2>2, <2>3, StillSteady, SteadyTried
<1> QED BY <1>1, <1>2 DEF Delivery

\* Steps that leave the queue, the peers and the rounds alone.
LEMMA QuietTries ==
  ASSUME TryInv, UNCHANGED <<reg, lacks>>, NEW m \in Parts, fetch'[m] = fetch[m],
         q.tasks[m] \subseteq q'.tasks[m], q'.pend[m] = q.pend[m]
  PROVE  Tried(m)' /\ Gives(m) /\ DOMAIN lacks' = Peers
BY StillSteady, SteadyTried DEF TryInv

LEMMA PeerStepTries ==
  ASSUME IInv, FlowInv, TryInv, PeerStep, NEW m \in Parts
  PROVE  Tried(m)' /\ Gives(m) /\ DOMAIN lacks' = Peers
<1>0. QueueInv(q) /\ WellFormed(q) /\ Shaped /\ m \in Kinds /\ Tried(m) /\ DOMAIN lacks = Peers
  BY KindNames DEF IInv, QueueInv, FlowInv, TryInv
<1>1. ASSUME \/ \E k \in Kinds, p \in Peers : Discard(k, p)
             \/ ImportFailed \/ EndContent \/ Cancel \/ CancelMaster
      PROVE Tried(m)' /\ Gives(m) /\ DOMAIN lacks' = Peers
  <2>1. UNCHANGED <<q, reg, lacks, fetch>>
    BY <1>1 DEF Discard, ImportFailed, EndContent, Cancel, CancelMaster, peerVars
  <2> QED BY <2>1, QuietTries
<1>2. ASSUME NEW P \in SUBSET Peers, Unregister(P, q, "none"), UNCHANGED <<fetch, lacks>>
      PROVE Tried(m)' /\ Gives(m) /\ DOMAIN lacks' = Peers
  <2>1. PICK x : x = q
    OBVIOUS
  <2>2. WellFormed(x) /\ Unregister(P, x, "none") /\ q.tasks[m] \subseteq x.tasks[m]
        /\ \A p \in Peers : q.pend[m][p] = <<>> => x.pend[m][p] = <<>>
    BY <1>0, <1>2, <2>1
  <2>3. /\ reg' \subseteq reg /\ q.tasks[m] \subseteq q'.tasks[m]
        /\ \A p \in Peers : q.pend[m][p] = <<>> => q'.pend[m][p] = <<>>
    BY <2>2, UnregisterSteady
  <2> QED BY <1>0, <1>2, <2>3, StillSteady, SteadyTried
<1>3. ASSUME EndSync PROVE Tried(m)' /\ Gives(m) /\ DOMAIN lacks' = Peers
  <2> DEFINE drop == IF sync.err \in Penalised /\ Master \in reg THEN {Master} ELSE {}
  <2>1. drop \in SUBSET Peers
    BY DownloaderAssumption
  <2>2. Unregister(drop, q, "none") /\ UNCHANGED <<fetch, lacks>>
    BY <1>3 DEF EndSync
  <2> QED BY <1>2, <2>1, <2>2
<1>4. ASSUME NEW p \in Peers, Disconnect(p) PROVE Tried(m)' /\ Gives(m) /\ DOMAIN lacks' = Peers
  <2>1. Unregister({p}, q, "none") /\ UNCHANGED <<fetch, lacks>> /\ {p} \in SUBSET Peers
    BY <1>4 DEF Disconnect
  <2> QED BY <1>2, <2>1
<1>5. ASSUME NEW p \in Peers, Connect(p) PROVE Tried(m)' /\ Gives(m) /\ DOMAIN lacks' = Peers
  <2>1. /\ reg' = reg \cup {p} /\ lacks' = [lacks EXCEPT ![p] = {}] /\ q' = q
        /\ fetch' = [k \in Kinds |-> [fetch[k] EXCEPT !.present = @ \ {p}]]
    BY <1>5 DEF Connect
  <2>2. /\ fetch'[m].at = fetch[m].at /\ fetch'[m].idles = fetch[m].idles
        /\ fetch'[m].full = fetch[m].full /\ fetch'[m].progressed = fetch[m].progressed
        /\ fetch'[m].running = fetch[m].running /\ fetch'[m].present = fetch[m].present \ {p}
    BY <1>0, <2>1, FetchFields DEF Shaped
  <2>3. DOMAIN lacks' = Peers /\ \A r : r # p => lacks'[r] = lacks[r]
    BY <1>0, <2>1
  <2>4. Steady(m)
    BY <2>1, <2>2, <2>3 DEF Steady
  <2> QED BY <1>0, <2>3, <2>4, SteadyTried
<1> QED BY <1>1, <1>3, <1>4, <1>5 DEF PeerStep

LEMMA HeaderStepTries ==
  ASSUME IInv, FlowInv, TryInv, HeaderStep \/ HeaderTimeout \/ HandStep, NEW m \in Parts
  PROVE  Tried(m)' /\ Gives(m) /\ DOMAIN lacks' = Peers
<1>0. QueueInv(q) /\ WellFormed(q) /\ Shaped /\ m \in Kinds /\ Tried(m) /\ DOMAIN lacks = Peers
      /\ HeaderTypes
  BY KindNames DEF IInv, QueueInv, FlowInv, TryInv, HeaderInv
<1>1. ASSUME NEW count \in 0 .. MaxSkeleton, Skeleton(count)
      PROVE  Tried(m)' /\ Gives(m) /\ DOMAIN lacks' = Peers
  <2>1. /\ UNCHANGED <<reg, lacks>>
        /\ \/ UNCHANGED <<q, fetch>>
           \/ q' = ScheduleSkeleton(q, header.from, count) /\ fetch' = [fetch EXCEPT !["header"] = AtSelect(Off)]
    BY <1>1 DEF Skeleton, peerVars
  <2>2. fetch'[m] = fetch[m]
    BY <1>0, <2>1, KindNames DEF Shaped
  <2>3. q'.tasks[m] = q.tasks[m] /\ q'.pend[m] = q.pend[m]
    <3>1. /\ ScheduleSkeleton(q, header.from, count).tasks[m] = q.tasks[m]
          /\ ScheduleSkeleton(q, header.from, count).pend[m] = q.pend[m]
      BY <1>0, KindNames DEF ScheduleSkeleton, WellFormed
    <3> QED BY <2>1, <3>1
  <2> QED BY <2>1, <2>2, <2>3, QuietTries
<1>2. ASSUME \/ \E count \in 0 .. MaxHeaderFetch : TailHeaders(count)
             \/ PushHeaders \/ EndHeaders \/ TakeHeaders \/ BadHeader
      PROVE  Tried(m)' /\ Gives(m) /\ DOMAIN lacks' = Peers
  <2>1. UNCHANGED <<q, reg, lacks, fetch>>
    BY <1>2 DEF TailHeaders, PushHeaders, EndHeaders, TakeHeaders, BadHeader, peerVars
  <2> QED BY <2>1, QuietTries
<1>3. ASSUME WakeFetchers, lacks' = lacks, reg' \subseteq reg, q.tasks[m] \subseteq q'.tasks[m],
             \A p \in Peers : q.pend[m][p] = <<>> => q'.pend[m][p] = <<>>
      PROVE  Tried(m)' /\ Gives(m) /\ DOMAIN lacks' = Peers
  <2>1. fetch' = [k \in Kinds |-> IF k \in Parts /\ fetch[k].at # "off"
                                   THEN [fetch[k] EXCEPT !.wake = TRUE] ELSE fetch[k]]
    BY <1>3 DEF WakeFetchers
  <2>2. /\ fetch'[m].at = fetch[m].at /\ fetch'[m].idles = fetch[m].idles
        /\ fetch'[m].full = fetch[m].full /\ fetch'[m].progressed = fetch[m].progressed
        /\ fetch'[m].running = fetch[m].running /\ fetch'[m].present = fetch[m].present
    BY <1>0, <2>1, FetchFields DEF Shaped
  <2>3. Steady(m)
    BY <1>3, <2>2 DEF Steady
  <2> QED BY <1>0, <1>3, <2>3, SteadyTried
<1>4. ASSUME HeaderTimeout PROVE Tried(m)' /\ Gives(m) /\ DOMAIN lacks' = Peers
  <2>1. Unregister({Master}, q, "none") /\ WakeFetchers /\ lacks' = lacks /\ {Master} \in SUBSET Peers
    BY <1>4, DownloaderAssumption DEF HeaderTimeout
  <2>2. PICK x, P : x = q /\ P = {Master}
    OBVIOUS
  <2>3. /\ WellFormed(x) /\ P \in SUBSET Peers /\ Unregister(P, x, "none") /\ m \in Parts
        /\ q.tasks[m] \subseteq x.tasks[m]
        /\ \A p \in Peers : q.pend[m][p] = <<>> => x.pend[m][p] = <<>>
    BY <1>0, <2>1, <2>2
  <2>4. /\ reg' \subseteq reg /\ q.tasks[m] \subseteq q'.tasks[m]
        /\ \A p \in Peers : q.pend[m][p] = <<>> => q'.pend[m][p] = <<>>
    BY ONLY <2>3, UnregisterSteady
  <2> QED BY <1>3, <2>1, <2>4
<1>5. ASSUME NEW err, FinishHeaders(err) PROVE Tried(m)' /\ Gives(m) /\ DOMAIN lacks' = Peers
  <2>1. WakeFetchers /\ UNCHANGED <<q, reg, lacks>>
    BY <1>5 DEF FinishHeaders, peerVars
  <2> QED BY <1>3, <2>1
<1>6. ASSUME NEW err, Quit(err) PROVE Tried(m)' /\ Gives(m) /\ DOMAIN lacks' = Peers
  <2> DEFINE C == Cancelling
  <2>1. /\ UNCHANGED <<q, reg, lacks>>
        /\ fetch' = [k \in Kinds |-> IF k \in C \/ (k = "header" /\ "headers" \in C)
                                     THEN Off ELSE fetch[k]]
    BY <1>6 DEF Quit, peerVars
  <2>2. m \in C => fetch[m].at = "select"
    BY KindNames DEF Cancelling, Parts
  <2> HIDE DEF C
  <2>3. CASE m \in C
    <3>1. fetch'[m].at = "off"
      BY <1>0, <2>1, <2>3, OffAt
    <3> QED BY <1>0, <2>1, <2>2, <2>3, <3>1, SelectSteady, SteadyTried
  <2>4. CASE m \notin C
    <3>1. fetch'[m] = fetch[m]
      BY <1>0, <2>1, <2>4, KindNames
    <3> QED BY <2>1, <3>1, QuietTries
  <2> QED BY <2>3, <2>4
<1> QED BY <1>1, <1>2, <1>4, <1>5, <1>6 DEF HeaderStep, HandStep

LEMMA QueueStepTries ==
  ASSUME IInv, FlowInv, TryInv, NEW m \in Parts,
         ScheduleStep \/ \E limit, upto : TakeContent(limit, upto)
  PROVE  Tried(m)' /\ Gives(m) /\ DOMAIN lacks' = Peers
<1>0. WellFormed(q) /\ m \in Kinds
  BY KindNames DEF IInv, QueueInv
<1>1. UNCHANGED <<reg, lacks, fetch>>
  BY DEF ScheduleStep, ScheduleChunk, StaleHeaders, TakeContent, peerVars
<1>2. ASSUME NEW count PROVE Schedule(q, count).pend = q.pend
                             /\ q.tasks[m] \subseteq Schedule(q, count).tasks[m]
  BY <1>0 DEF WellFormed, Schedule
<1>3. ASSUME NEW count, NEW limit PROVE TakeResults(q, count, limit).pend = q.pend
                                        /\ TakeResults(q, count, limit).tasks = q.tasks
  BY <1>0 DEF WellFormed, TakeResults
<1>4. \/ \E count : q' = Schedule(q, count)
      \/ \E count, limit : q' = TakeResults(q, count, limit)
  BY Zenon DEF ScheduleStep, ScheduleChunk, StaleHeaders, TakeContent
<1> QED BY <1>1, <1>2, <1>3, <1>4, QuietTries

LEMMA StartTries ==
  ASSUME NEW mode, Start(mode), NEW m \in Parts
  PROVE  Tried(m)' /\ Gives(m) /\ DOMAIN lacks' = Peers
<1>1. /\ lacks' = [p \in Peers |-> {}]
      /\ fetch' = [k \in Kinds |-> IF k \in Parts THEN AtSelect(Off) ELSE Off]
  BY DEF Start
<1>2. fetch'[m].at = "select"
  BY <1>1, OffAt, KindNames
<1> QED BY <1>1, <1>2 DEF Tried, Gives

LEMMA NextTries ==
  ASSUME IInv, FlowInv, TryInv, Next
  PROVE  TryInv' /\ \A m \in Parts : Gives(m)
<1>1. \/ \E k \in Kinds : FetchStep(k)
      \/ \E k \in Kinds, p \in Peers : Delivery(k, p)
      \/ PeerStep \/ HeaderStep \/ HeaderTimeout \/ HandStep
      \/ ScheduleStep \/ \E limit, upto : TakeContent(limit, upto)
      \/ \E mode \in Modes : Start(mode)
  BY Zenon DEF Next, PeerStep, HandStep, ScheduleStep, ProcessStep, ContentStep
<1>2. ASSUME NEW m \in Parts, NEW k \in Kinds, FetchStep(k)
      PROVE  Tried(m)' /\ Gives(m) /\ DOMAIN lacks' = Peers
  <2>1. DOMAIN lacks' = Peers
    BY <1>2 DEF FetchStep, Wake, NoPeers, Drained, Round, Assign, peerVars, TryInv
  <2> QED BY <1>2, <2>1, FetchStepTries DEF TryInv
<1>3. ASSUME NEW m \in Parts PROVE Tried(m)' /\ Gives(m) /\ DOMAIN lacks' = Peers
  BY <1>1, <1>2, DeliveryTries, PeerStepTries, HeaderStepTries, QueueStepTries, StartTries
<1>4. DOMAIN lacks' = Peers
  <2>1. "body" \in Parts
    BY DEF Parts
  <2> QED BY <1>3, <2>1
<1>5. \A m \in Parts : Tried(m)' /\ Gives(m)
  BY <1>3
<1> QED BY <1>4, <1>5 DEF TryInv

LEMMA StutterTries ==
  ASSUME TryInv, UNCHANGED vars
  PROVE  TryInv'
<1>1. UNCHANGED <<q, reg, lacks, fetch>>
  BY DEF vars, peerVars
<1> QED BY <1>1, QuietTries, KindNames DEF TryInv

\* A fetcher that gives up has tried every peer that was there for the whole round,
\* and each of them lacks a block: neither a full result cache, nor an empty block,
\* nor a request of another peer, nor a peer that comes or goes makes it give up
\* (fetchParts: errPeersUnavailable; reserveHeaders).
THEOREM FailsForCause == Spec => NoSpuriousFailure
<1>1. Init => IInv /\ PeerInv /\ Ended /\ FlowInv /\ TryInv
  <2>1. Init => TryInv
    <3> SUFFICES ASSUME Init PROVE TryInv
      OBVIOUS
    <3>1. lacks = [p \in Peers |-> {}] /\ fetch = [k \in Kinds |-> Off]
      BY DEF Init
    <3>2. \A k \in Parts : fetch[k].at = "off"
      BY <3>1, OffAt, KindNames
    <3> QED BY <3>1, <3>2 DEF TryInv, Tried
  <2> QED BY <2>1, InitInv, InitPeers, InitFlow
<1>2. IInv /\ PeerInv /\ Ended /\ FlowInv /\ TryInv /\ [Next]_vars =>
        (IInv /\ PeerInv /\ Ended /\ FlowInv /\ TryInv)'
  BY NextInv, StutterInv, NextPeers, StutterPeers, NextFlow, StutterFlow, NextTries, StutterTries
<1>3. IInv /\ FlowInv /\ TryInv /\ [Next]_vars =>
        [\A k \in Parts : fetch[k].at = "assign" /\ fetch'[k].at = "off" =>
           \A p \in reg \cap fetch[k].present : lacks[p] # {}]_vars
  BY NextTries DEF Gives
<1> QED BY <1>1, <1>2, <1>3, PTL DEF Spec, NoSpuriousFailure
=============================================================================
