--------------------------- MODULE FetcherProofs ---------------------------
(***************************************************************************)
(* Proofs about the block fetcher, for every set of peers and hashes and   *)
(* every limit.                                                            *)
(***************************************************************************)
EXTENDS Fetcher, FiniteSetTheorems, TLAPS

Entry == Announce \cup {NoAnnounce}

\* An announce the fetcher may act upon: made by a liar, or about a valid
\* block, with its number unless the peer sends none.
Sound(h, e) == \/ e.origin \in Liars
               \/ h \notin Invalid /\ (e.origin \in Legacy \/ e.number = Num[h])

\* An announce whose header arrived is still in fetching.
FetchedStays == \A h \in Hashes : fetched[h] # NoAnnounce => fetching[h] # NoAnnounce

AnnouncesSound ==
  \A h \in Hashes :
    /\ \A i \in DOMAIN announced[h] : Sound(h, announced[h][i])
    /\ fetching[h] # NoAnnounce => Sound(h, fetching[h])
    /\ fetched[h] # NoAnnounce => Sound(h, fetched[h])
    /\ completing[h] # NoAnnounce => Sound(h, completing[h])

AnnInv == NoSecondFetch /\ FetchedStays /\ AnnouncesSound

QueueSound == \A h \in Hashes : queued[h] # NoAnnounce => queued[h] \in Liars \/ h \notin Invalid

QueueInv == QueuedOnce /\ QueueCounters /\ BlockBound /\ QueueSound

DropInv == dropped \subseteq Liars \cup Legacy

\* The inductive invariant.
IInv == TypeOK /\ AnnInv /\ QueueInv /\ DropInv

AnnounceType ==
  /\ announces \in [Peers -> Int]
  /\ announced \in [Hashes -> Seq(Announce)]
  /\ fetching \in [Hashes -> Entry]
  /\ fetched \in [Hashes -> Entry]
  /\ completing \in [Hashes -> Entry]
  /\ aged \subseteq Hashes

QueueType ==
  /\ queue \in [Inject -> Nat]
  /\ queues \in [Peers -> Nat]
  /\ queued \in [Hashes -> Peers \cup {NoAnnounce}]

ImportType == importing \in [Inject -> Nat] /\ finished \in [Inject -> Nat]

RestType ==
  /\ pc \in Pcs /\ todo \subseteq Hashes /\ blocks \in [Hashes -> Nat]
  /\ height \in Nat /\ chainHeight \in Nat
  /\ chain \subseteq Hashes \cup {Root}
  /\ dropped \subseteq Peers

-----------------------------------------------------------------------------
(* Helpers.                                                                *)

\* What forgetHash subtracts is a number.
LEMMA CountByNat ==
  ASSUME NEW s \in Seq(Announce), NEW p
  PROVE  CountBy(s, p) \in Nat
<1>1. IsFiniteSet(1..Len(s))
  BY FS_Interval
<1>2. {i \in DOMAIN s : s[i].origin = p} \subseteq 1..Len(s)
  OBVIOUS
<1>3. IsFiniteSet({i \in DOMAIN s : s[i].origin = p})
  BY <1>1, <1>2, FS_Subset
<1> QED
  BY <1>3, FS_CardinalityType DEF CountBy

\* forgetHash, and the entries its callers store afterwards, keep the announce
\* maps well formed, single staged and sound.
LEMMA ForgetHashThenInv ==
  ASSUME AnnounceType, AnnInv, NEW h \in Hashes, NEW f \in Entry, NEW c \in Entry,
         f # NoAnnounce => Sound(h, f), c # NoAnnounce => Sound(h, c),
         ForgetHashThen(h, f, c)
  PROVE  AnnounceType' /\ AnnInv'
<1>1. \A p \in Peers : Owed(h, p) \in Int
  <2> TAKE p \in Peers
  <2>1. CountBy(announced[h], p) \in Nat
    BY CountByNat DEF AnnounceType
  <2> QED BY <2>1 DEF Owed, MadeBy
<1>2. announces' \in [Peers -> Int]
  BY <1>1 DEF ForgetHashThen, AnnounceType
<1>3. announced' \in [Hashes -> Seq(Announce)]
  BY DEF ForgetHashThen, AnnounceType
<1>4. AnnounceType'
  BY <1>2, <1>3 DEF ForgetHashThen, AnnounceType, Entry
<1>5. NoSecondFetch' /\ FetchedStays'
  BY DEF ForgetHashThen, AnnounceType, AnnInv, NoSecondFetch, FetchedStays
<1>6. AnnouncesSound'
  <2> SUFFICES ASSUME NEW g \in Hashes
               PROVE  /\ \A i \in DOMAIN announced'[g] : Sound(g, announced'[g][i])
                      /\ fetching'[g] # NoAnnounce => Sound(g, fetching'[g])
                      /\ fetched'[g] # NoAnnounce => Sound(g, fetched'[g])
                      /\ completing'[g] # NoAnnounce => Sound(g, completing'[g])
    BY DEF AnnouncesSound, Sound
  <2>1. CASE g = h
    BY <2>1 DEF ForgetHashThen, AnnounceType
  <2>2. CASE g # h
    BY <2>2 DEF ForgetHashThen, AnnounceType, AnnInv, AnnouncesSound
  <2> QED BY <2>1, <2>2
<1> QED BY <1>4, <1>5, <1>6 DEF AnnInv

LEMMA ForgetHashInv ==
  ASSUME AnnounceType, AnnInv, NEW h \in Hashes, ForgetHash(h)
  PROVE  AnnounceType' /\ AnnInv'
BY ForgetHashThenInv DEF ForgetHash, Entry

LEMMA AnnounceUnchanged ==
  ASSUME AnnounceType, AnnInv, UNCHANGED announceVars
  PROVE  AnnounceType' /\ AnnInv'
BY DEF announceVars, AnnounceType, AnnInv, NoSecondFetch, FetchedStays, AnnouncesSound, Sound

LEMMA QueuedByFinite ==
  ASSUME NEW p
  PROVE  IsFiniteSet(QueuedBy(p)) /\ Cardinality(QueuedBy(p)) \in Nat
<1>1. QueuedBy(p) \subseteq Hashes
  BY DEF QueuedBy
<1> QED
  BY <1>1, FetcherAssumption, FS_Subset, FS_CardinalityType

\* A block booked on p adds one to the blocks of p and to nobody else's.
LEMMA BookBlock ==
  ASSUME QueueType, NEW p \in Peers, NEW h \in Hashes, queued[h] = NoAnnounce,
         queued' = [queued EXCEPT ![h] = p]
  PROVE  \A q \in Peers : Cardinality(QueuedBy(q))'
                            = Cardinality(QueuedBy(q)) + (IF q = p THEN 1 ELSE 0)
<1> TAKE q \in Peers
<1>0. NoAnnounce \notin Peers
  BY AnnounceAssumption
<1>f. IsFiniteSet(QueuedBy(q)) /\ Cardinality(QueuedBy(q)) \in Nat
  BY QueuedByFinite
<1>1. CASE q = p
  <2>1. QueuedBy(q)' = QueuedBy(q) \cup {h} /\ h \notin QueuedBy(q)
    BY <1>0, <1>1 DEF QueuedBy, QueueType
  <2> QED BY <2>1, <1>1, <1>f, FS_AddElement
<1>2. CASE q # p
  <2>1. QueuedBy(q)' = QueuedBy(q)
    BY <1>0, <1>2 DEF QueuedBy, QueueType
  <2> QED BY <2>1, <1>2, <1>f
<1> QED BY <1>1, <1>2

\* A block forgotten takes one from the peer it was booked on.
LEMMA UnbookBlock ==
  ASSUME QueueType, NEW h \in Hashes, queued[h] # NoAnnounce,
         queued' = [queued EXCEPT ![h] = NoAnnounce]
  PROVE  \A q \in Peers : Cardinality(QueuedBy(q))'
                            = Cardinality(QueuedBy(q)) - (IF q = queued[h] THEN 1 ELSE 0)
<1> TAKE q \in Peers
<1>0. NoAnnounce \notin Peers
  BY AnnounceAssumption
<1>f. IsFiniteSet(QueuedBy(q)) /\ Cardinality(QueuedBy(q)) \in Nat
  BY QueuedByFinite
<1>1. CASE q = queued[h]
  <2>1. QueuedBy(q)' = QueuedBy(q) \ {h} /\ h \in QueuedBy(q)
    BY <1>0, <1>1 DEF QueuedBy, QueueType
  <2> QED BY <2>1, <1>1, <1>f, FS_RemoveElement
<1>2. CASE q # queued[h]
  <2>1. QueuedBy(q)' = QueuedBy(q)
    BY <1>0, <1>2 DEF QueuedBy, QueueType
  <2> QED BY <2>1, <1>2, <1>f
<1> QED BY <1>1, <1>2

\* enqueue keeps both halves of the invariant.
LEMMA EnqueueInv ==
  ASSUME AnnounceType, AnnInv, QueueType, ImportType, QueueInv,
         NEW p \in Peers, NEW h \in Hashes, p \in Liars \/ h \notin Invalid,
         Enqueue(p, h), UNCHANGED importVars
  PROVE  AnnounceType' /\ AnnInv' /\ QueueType' /\ QueueInv'
<1> DEFINE op == [origin |-> p, hash |-> h]
           Refused == queues[p] + 1 > BlockLimit \/ TooFar(Num[h])
<1>op. op \in Inject
  BY DEF Inject
<1>1. CASE Refused
  <2>1. ForgetHash(h) /\ UNCHANGED queueVars
    BY <1>1 DEF Enqueue
  <2>2. QueueType' /\ QueueInv'
    BY <2>1 DEF QueueType, QueueInv, QueuedOnce, InFlight, QueueCounters, BlockBound, QueuedBy,
                QueueSound, queueVars, importVars
  <2> QED BY <2>1, <2>2, ForgetHashInv
<1>2. CASE ~Refused /\ queued[h] # NoAnnounce
  <2>1. UNCHANGED <<announceVars, queueVars>>
    BY <1>2 DEF Enqueue
  <2>2. QueueType' /\ QueueInv'
    BY <2>1 DEF QueueType, QueueInv, QueuedOnce, InFlight, QueueCounters, BlockBound, QueuedBy,
                QueueSound, queueVars, importVars
  <2> QED BY <2>1, <2>2, AnnounceUnchanged
<1>3. CASE ~Refused /\ queued[h] = NoAnnounce
  <2>1. /\ UNCHANGED announceVars
        /\ queues' = [queues EXCEPT ![p] = @ + 1]
        /\ queued' = [queued EXCEPT ![h] = p]
        /\ queue' = [queue EXCEPT ![op] = @ + 1]
    BY <1>3 DEF Enqueue
  <2>2. QueueType'
    BY <1>op, <2>1 DEF QueueType
  <2>3. QueuedOnce'
    <3> SUFFICES ASSUME NEW o \in Inject
                 PROVE  InFlight(o)' = IF queued'[o.hash] = o.origin THEN 1 ELSE 0
      BY DEF QueuedOnce
    <3>1. InFlight(o) = IF queued[o.hash] = o.origin THEN 1 ELSE 0
      BY DEF QueueInv, QueuedOnce
    <3>2. InFlight(o)' = InFlight(o) + (IF o = op THEN 1 ELSE 0)
      BY <1>op, <2>1 DEF InFlight, QueueType, ImportType, importVars
    <3>3. o.hash \in Hashes /\ o.origin \in Peers /\ o = [origin |-> o.origin, hash |-> o.hash]
      BY DEF Inject
    <3>4. NoAnnounce \notin Peers
      BY AnnounceAssumption
    <3>5. CASE o.hash = h
      BY <3>1, <3>2, <3>3, <3>4, <3>5, <1>3, <2>1 DEF QueueType
    <3>6. CASE o.hash # h
      BY <3>1, <3>2, <3>3, <3>6, <2>1 DEF QueueType
    <3> QED BY <3>5, <3>6
  <2>4. \A q \in Peers : Cardinality(QueuedBy(q))'
                           = Cardinality(QueuedBy(q)) + (IF q = p THEN 1 ELSE 0)
    BY <1>3, <2>1, BookBlock
  <2>5. QueueCounters' /\ BlockBound'
    <3> SUFFICES ASSUME NEW q \in Peers
                 PROVE  queues'[q] = Cardinality(QueuedBy(q))' /\ Cardinality(QueuedBy(q))' <= BlockLimit
      BY DEF QueueCounters, BlockBound
    <3>1. queues[q] = Cardinality(QueuedBy(q)) /\ Cardinality(QueuedBy(q)) <= BlockLimit
      BY DEF QueueInv, QueueCounters, BlockBound
    <3> QED BY <3>1, <2>1, <2>4, <1>3, FetcherAssumption DEF QueueType
  <2>6. QueueSound'
    BY <2>1 DEF QueueInv, QueueSound, QueueType
  <2> QED BY <2>1, <2>2, <2>3, <2>5, <2>6, AnnounceUnchanged DEF QueueInv
<1> QED BY <1>1, <1>2, <1>3

\* Taking the one operation of a block out of flight together with forgetBlock
\* keeps the queue invariant.
LEMMA ForgetBlockInv ==
  ASSUME QueueType, ImportType, QueueInv, NEW op \in Inject,
         InFlight(op) > 0, ForgetBlock(op.hash),
         queue' \in [Inject -> Nat], ImportType',
         \A o \in Inject : InFlight(o)' = InFlight(o) - (IF o = op THEN 1 ELSE 0)
  PROVE  QueueType' /\ QueueInv'
<1>0. NoAnnounce \notin Peers
  BY AnnounceAssumption
<1>1. op.hash \in Hashes /\ op.origin \in Peers /\ op = [origin |-> op.origin, hash |-> op.hash]
  BY DEF Inject
<1>2. queued[op.hash] = op.origin
  <2>1. InFlight(op) = IF queued[op.hash] = op.origin THEN 1 ELSE 0
    BY DEF QueueInv, QueuedOnce
  <2> QED BY <2>1
<1>3. /\ queues' = [queues EXCEPT ![op.origin] = @ - 1]
      /\ queued' = [queued EXCEPT ![op.hash] = NoAnnounce]
  BY <1>0, <1>1, <1>2 DEF ForgetBlock
<1>4. \A q \in Peers : Cardinality(QueuedBy(q))'
                         = Cardinality(QueuedBy(q)) - (IF q = op.origin THEN 1 ELSE 0)
  BY <1>0, <1>1, <1>2, <1>3, UnbookBlock
<1>5. \A q \in Peers : queues[q] = Cardinality(QueuedBy(q)) /\ Cardinality(QueuedBy(q)) <= BlockLimit
  BY DEF QueueInv, QueueCounters, BlockBound
<1>6. \A q \in Peers : Cardinality(QueuedBy(q))' \in Nat
  BY QueuedByFinite, <1>3, FetcherAssumption, FS_Subset, FS_CardinalityType DEF QueuedBy
<1>7. QueueCounters' /\ BlockBound' /\ queues' \in [Peers -> Nat]
  <2>1. \A q \in Peers : queues'[q] = Cardinality(QueuedBy(q))' /\ Cardinality(QueuedBy(q))' <= BlockLimit
    BY <1>1, <1>3, <1>4, <1>5, FetcherAssumption DEF QueueType
  <2>2. queues' \in [Peers -> Int]
    BY <1>1, <1>3 DEF QueueType
  <2> QED BY <2>1, <2>2, <1>6 DEF QueueCounters, BlockBound
<1>8. QueueType'
  BY <1>3, <1>7 DEF QueueType
<1>9. QueuedOnce'
  <2> SUFFICES ASSUME NEW o \in Inject
               PROVE  InFlight(o)' = IF queued'[o.hash] = o.origin THEN 1 ELSE 0
    BY DEF QueuedOnce
  <2>1. InFlight(o) = IF queued[o.hash] = o.origin THEN 1 ELSE 0
    BY DEF QueueInv, QueuedOnce
  <2>2. InFlight(o)' = InFlight(o) - (IF o = op THEN 1 ELSE 0)
    OBVIOUS
  <2>3. o.hash \in Hashes /\ o.origin \in Peers /\ o = [origin |-> o.origin, hash |-> o.hash]
    BY DEF Inject
  <2>5. CASE o.hash = op.hash
    BY <1>0, <1>1, <1>2, <1>3, <2>1, <2>2, <2>3, <2>5 DEF QueueType
  <2>6. CASE o.hash # op.hash
    BY <1>1, <1>3, <2>1, <2>2, <2>3, <2>6 DEF QueueType
  <2> QED BY <2>5, <2>6
<1>10. QueueSound'
  BY <1>3 DEF QueueInv, QueueSound, QueueType
<1> QED BY <1>7, <1>8, <1>9, <1>10 DEF QueueInv

LEMMA QueueUnchanged ==
  ASSUME QueueType, ImportType, QueueInv, UNCHANGED <<queueVars, importVars>>
  PROVE  QueueType' /\ ImportType' /\ QueueInv'
BY DEF QueueType, ImportType, QueueInv, QueuedOnce, InFlight, QueueCounters, BlockBound, QueuedBy,
       QueueSound, queueVars, importVars

\* An import goroutine that ends stays in flight until the loop hears of it.
LEMMA ExitInv ==
  ASSUME QueueType, ImportType, QueueInv, NEW op \in Inject, Exit(op)
  PROVE  QueueType' /\ ImportType' /\ QueueInv'
<1>1. ImportType'
  BY DEF Exit, ImportType
<1>2. \A o \in Inject : InFlight(o)' = InFlight(o)
  BY DEF Exit, InFlight, ImportType, QueueType, queueVars
<1>3. QueueType' /\ QueueInv'
  BY <1>2 DEF Exit, QueueType, QueueInv, QueuedOnce, QueueCounters, BlockBound, QueuedBy,
              QueueSound, queueVars
<1> QED BY <1>1, <1>3

\* The invariant, cut into the parts that the steps treat one by one.
LEMMA Split ==
  ASSUME IInv
  PROVE  AnnounceType /\ QueueType /\ ImportType /\ RestType /\ AnnInv /\ QueueInv
BY DEF IInv, TypeOK, AnnounceType, QueueType, ImportType, RestType, Entry

LEMMA Assemble ==
  ASSUME AnnounceType', QueueType', ImportType', RestType', AnnInv', QueueInv', DropInv'
  PROVE  IInv'
BY DEF IInv, TypeOK, AnnounceType, QueueType, ImportType, RestType, Entry

-----------------------------------------------------------------------------
(* The invariant.                                                          *)

LEMMA InitInv == Init => IInv
<1> SUFFICES ASSUME Init PROVE IInv
  OBVIOUS
<1>0. NoAnnounce \notin Peers
  BY AnnounceAssumption
<1>1. TypeOK
  BY FetcherAssumption DEF Init, TypeOK, Pcs
<1>2. AnnInv
  BY DEF Init, AnnInv, NoSecondFetch, FetchedStays, AnnouncesSound
<1>3. QueuedOnce
  BY <1>0 DEF Init, QueuedOnce, InFlight, Inject
<1>4. \A p \in Peers : QueuedBy(p) = {}
  BY <1>0 DEF Init, QueuedBy
<1>5. QueueCounters /\ BlockBound
  <2>1. \A p \in Peers : Cardinality(QueuedBy(p)) = 0
    BY <1>4, FS_EmptySet
  <2> QED BY <2>1, FetcherAssumption DEF Init, QueueCounters, BlockBound
<1>6. QueueInv
  BY <1>3, <1>5 DEF Init, QueueInv, QueueSound
<1> QED BY <1>1, <1>2, <1>6 DEF IInv, DropInv, Init

LEMMA LoopTopInv == IInv /\ LoopTop => IInv'
<1> SUFFICES ASSUME IInv, LoopTop PROVE IInv'
  OBVIOUS
<1>t. AnnounceType /\ QueueType /\ ImportType /\ RestType /\ AnnInv /\ QueueInv
  BY Split
<1>1. ASSUME NEW h \in Hashes, ExpireFetch(h) PROVE IInv'
  <2>1. AnnounceType' /\ AnnInv'
    BY <1>t, <1>1, ForgetHashInv DEF ExpireFetch
  <2>2. QueueType' /\ ImportType' /\ QueueInv'
    BY <1>t, <1>1, QueueUnchanged DEF ExpireFetch
  <2>3. RestType' /\ DropInv'
    BY <1>t, <1>1 DEF ExpireFetch, RestType, loopVars, chainVars, IInv, DropInv
  <2> QED BY <2>1, <2>2, <2>3, Assemble
<1>2. CASE ReadHeight \/ Wait
  <2>0. UNCHANGED <<announceVars, queueVars, importVars>>
    BY <1>2 DEF ReadHeight, Wait
  <2>1. AnnounceType' /\ AnnInv'
    BY <1>t, <2>0, AnnounceUnchanged
  <2>2. QueueType' /\ ImportType' /\ QueueInv'
    BY <1>t, <2>0, QueueUnchanged
  <2>3. RestType' /\ DropInv'
    BY <1>t, <1>2 DEF ReadHeight, Wait, RestType, Pcs, chainVars, IInv, DropInv
  <2> QED BY <2>1, <2>2, <2>3, Assemble
<1>3. ASSUME NEW op \in Inject, ImportNext(op) PROVE IInv'
  <2>h. op.hash \in Hashes
    BY DEF Inject
  <2>q. queue[op] \in Nat /\ queue[op] > 0 /\ importing[op] \in Nat /\ finished[op] \in Nat
    BY <1>t, <1>3 DEF ImportNext, Lowest, QueueType, ImportType
  <2>q2. queue' \in [Inject -> Nat]
    BY <1>t, <1>3, <2>q DEF ImportNext, QueueType
  <2>1. AnnounceType' /\ AnnInv'
    BY <1>t, <1>3, AnnounceUnchanged DEF ImportNext
  <2>2. QueueType' /\ ImportType' /\ QueueInv'
    <3>1. CASE Num[op.hash] + MaxUncleDist < height \/ Known(op.hash)
      <4>1. ForgetBlock(op.hash) /\ UNCHANGED <<importing, finished>>
        BY <1>3, <3>1 DEF ImportNext
      <4>2. ImportType'
        BY <4>1, <1>t DEF ImportType
      <4>3. \A o \in Inject : InFlight(o)' = InFlight(o) - (IF o = op THEN 1 ELSE 0)
        BY <1>t, <1>3, <4>1 DEF ImportNext, InFlight, QueueType, ImportType
      <4>4. InFlight(op) > 0
        BY <2>q DEF InFlight
      <4> QED BY <1>t, <2>q2, <4>1, <4>2, <4>3, <4>4, ForgetBlockInv
    <3>2. CASE ~(Num[op.hash] + MaxUncleDist < height \/ Known(op.hash))
      <4>1. importing' = [importing EXCEPT ![op] = @ + 1] /\ UNCHANGED <<queues, queued, finished>>
        BY <1>3, <3>2 DEF ImportNext
      <4>2. ImportType' /\ QueueType'
        BY <1>t, <2>q2, <4>1 DEF ImportType, QueueType
      <4>3. \A o \in Inject : InFlight(o)' = InFlight(o)
        BY <1>t, <1>3, <4>1 DEF ImportNext, InFlight, QueueType, ImportType
      <4>4. QueueInv'
        BY <1>t, <4>1, <4>3 DEF QueueInv, QueuedOnce, QueueCounters, BlockBound, QueuedBy, QueueSound
      <4> QED BY <4>2, <4>4
    <3> QED BY <3>1, <3>2
  <2>3. RestType' /\ DropInv'
    BY <1>t, <1>3 DEF ImportNext, RestType, loopVars, chainVars, IInv, DropInv
  <2> QED BY <2>1, <2>2, <2>3, Assemble
<1> QED BY <1>1, <1>2, <1>3 DEF LoopTop

LEMMA HandlerInv == IInv /\ Handler => IInv'
<1> SUFFICES ASSUME IInv, Handler PROVE IInv'
  OBVIOUS
<1>t. AnnounceType /\ QueueType /\ ImportType /\ RestType /\ AnnInv /\ QueueInv
  BY Split
<1>1. ASSUME NEW h \in Hashes, FetchNext(h) PROVE IInv'
  <2>0. PICK i \in DOMAIN announced[h] :
          ForgetHashThen(h, IF Known(h) THEN NoAnnounce ELSE announced[h][i], NoAnnounce)
    BY <1>1 DEF FetchNext
  <2>a. announced[h][i] \in Announce /\ Sound(h, announced[h][i])
    BY <1>t, <2>0 DEF AnnounceType, AnnInv, AnnouncesSound
  <2>1. AnnounceType' /\ AnnInv'
    <3> DEFINE f == IF Known(h) THEN NoAnnounce ELSE announced[h][i]
    <3>1. f \in Entry /\ (f # NoAnnounce => Sound(h, f)) /\ NoAnnounce \in Entry
      BY <2>a DEF Entry
    <3>2. ForgetHashThen(h, f, NoAnnounce)
      BY <2>0
    <3> HIDE DEF f
    <3> QED BY <1>t, <3>1, <3>2, ForgetHashThenInv
  <2>2. QueueType' /\ ImportType' /\ QueueInv'
    BY <1>t, <1>1, QueueUnchanged DEF FetchNext
  <2>3. RestType' /\ DropInv'
    BY <1>t, <1>1 DEF FetchNext, RestType, chainVars, IInv, DropInv
  <2> QED BY <2>1, <2>2, <2>3, Assemble
<1>2. ASSUME NEW h \in Hashes, CompleteNext(h) PROVE IInv'
  <2>1. AnnounceType' /\ AnnInv'
    <3> DEFINE c == IF Known(h) THEN NoAnnounce ELSE fetched[h]
    <3>1. c \in Entry /\ (c # NoAnnounce => Sound(h, c)) /\ NoAnnounce \in Entry
      BY <1>t DEF Entry, AnnounceType, AnnInv, AnnouncesSound
    <3>2. ForgetHashThen(h, NoAnnounce, c)
      BY <1>2 DEF CompleteNext
    <3> HIDE DEF c
    <3> QED BY <1>t, <3>1, <3>2, ForgetHashThenInv
  <2>2. QueueType' /\ ImportType' /\ QueueInv'
    BY <1>t, <1>2, QueueUnchanged DEF CompleteNext
  <2>3. RestType' /\ DropInv'
    BY <1>t, <1>2 DEF CompleteNext, RestType, chainVars, IInv, DropInv
  <2> QED BY <2>1, <2>2, <2>3, Assemble
<1>3. ASSUME NEW h \in Hashes, MatchNext(h) PROVE IInv'
  <2>1. AnnounceType' /\ AnnInv'
    BY <1>t, <1>3, ForgetHashInv, AnnounceUnchanged DEF MatchNext
  <2>2. QueueType' /\ ImportType' /\ QueueInv'
    BY <1>t, <1>3, QueueUnchanged DEF MatchNext
  <2>3. RestType' /\ DropInv'
    BY <1>t, <1>3 DEF MatchNext, RestType, chainVars, IInv, DropInv
  <2> QED BY <2>1, <2>2, <2>3, Assemble
<1>4. ASSUME NEW h \in Hashes, EnqueueNext(h) PROVE IInv'
  <2>1. AnnounceType' /\ AnnInv' /\ QueueType' /\ QueueInv'
    <3>1. CASE completing[h] # NoAnnounce
      <4>1. completing[h] \in Announce /\ Sound(h, completing[h])
        BY <1>t, <3>1 DEF AnnounceType, AnnInv, AnnouncesSound, Entry
      <4>2. completing[h].origin \in Peers
        BY <4>1 DEF Announce
      <4>3. completing[h].origin \in Liars \/ h \notin Invalid
        BY <4>1 DEF Sound
      <4>4. Enqueue(completing[h].origin, h) /\ UNCHANGED importVars
        BY <1>4, <3>1 DEF EnqueueNext
      <4> QED BY <1>t, <4>2, <4>3, <4>4, EnqueueInv
    <3>2. CASE completing[h] = NoAnnounce
      <4>1. UNCHANGED <<announceVars, queueVars, importVars>>
        BY <1>4, <3>2 DEF EnqueueNext
      <4> QED BY <1>t, <4>1, AnnounceUnchanged, QueueUnchanged
    <3> QED BY <3>1, <3>2
  <2>2. ImportType'
    BY <1>t, <1>4 DEF EnqueueNext, ImportType, importVars
  <2>3. RestType' /\ DropInv'
    BY <1>t, <1>4 DEF EnqueueNext, RestType, chainVars, IInv, DropInv
  <2> QED BY <2>1, <2>2, <2>3, Assemble
<1>5. CASE HandlerEnds
  <2>1. AnnounceType' /\ AnnInv'
    BY <1>t, <1>5, AnnounceUnchanged DEF HandlerEnds
  <2>2. QueueType' /\ ImportType' /\ QueueInv'
    BY <1>t, <1>5, QueueUnchanged DEF HandlerEnds
  <2>3. RestType' /\ DropInv'
    BY <1>t, <1>5 DEF HandlerEnds, RestType, Pcs, chainVars, IInv, DropInv
  <2> QED BY <2>1, <2>2, <2>3, Assemble
<1> QED BY <1>1, <1>2, <1>3, <1>4, <1>5 DEF Handler

LEMMA MessagesInv == IInv /\ Messages => IInv'
<1> SUFFICES ASSUME IInv, NEW p \in Peers,
                    \/ \E h \in Offers(p) : \E n \in Claims(p, h) : Notify(p, h, n)
                    \/ \E h \in Offers(p) : Propagated(p, h)
                    \/ \E h \in Offers(p) : FilterHeader(p, h)
                    \/ \E count \in [Bodies -> 0..MaxCopies] : FilterBodies(p, count)
             PROVE IInv'
  BY DEF Messages
<1>t. AnnounceType /\ QueueType /\ ImportType /\ RestType /\ AnnInv /\ QueueInv
  BY Split
<1>o. \A h \in Offers(p) : h \in Hashes /\ (p \in Liars \/ h \notin Invalid)
  BY DEF Offers
<1>1. ASSUME NEW h \in Offers(p), NEW n \in Claims(p, h), Notify(p, h, n) PROVE IInv'
  <2>h. h \in Hashes
    BY <1>o
  <2>1. AnnounceType' /\ AnnInv'
    <3>1. CASE Discarded(p, h, n)
      BY <1>t, <1>1, <3>1, AnnounceUnchanged DEF Notify
    <3>2. CASE ~Discarded(p, h, n)
      <4> DEFINE e == [origin |-> p, number |-> n]
      <4>1. /\ announces' = [announces EXCEPT ![p] = @ + 1]
            /\ announced' = [announced EXCEPT ![h] = Append(@, e)]
            /\ UNCHANGED <<fetching, fetched, completing, aged>>
        BY <1>1, <3>2 DEF Notify
      <4>2. e \in Announce /\ Sound(h, e)
        BY <1>o, <2>h, FetcherAssumption DEF Announce, Sound, Claims
      <4>3. announced[h] \in Seq(Announce) /\ Append(announced[h], e) \in Seq(Announce)
        BY <1>t, <2>h, <4>2 DEF AnnounceType
      <4>4. AnnounceType'
        BY <1>t, <2>h, <4>1, <4>3 DEF AnnounceType
      <4>5. NoSecondFetch' /\ FetchedStays'
        BY <1>t, <2>h, <3>2, <4>1 DEF Discarded, AnnInv, NoSecondFetch, FetchedStays, AnnounceType
      <4>6. \A i \in DOMAIN Append(announced[h], e) : Sound(h, Append(announced[h], e)[i])
        <5> HIDE DEF e
        <5>1. \A i \in DOMAIN announced[h] : Sound(h, announced[h][i])
          BY <1>t, <2>h DEF AnnInv, AnnouncesSound
        <5> QED BY <4>2, <4>3, <5>1
      <4>7. AnnouncesSound'
        <5> HIDE DEF e
        <5> SUFFICES ASSUME NEW g \in Hashes
                     PROVE  \A i \in DOMAIN announced'[g] : Sound(g, announced'[g][i])
          BY <1>t, <4>1 DEF AnnouncesSound, AnnInv, Sound
        <5>1. CASE g = h
          BY <1>t, <4>1, <4>6, <5>1 DEF AnnounceType
        <5>2. CASE g # h
          BY <1>t, <4>1, <5>2, <2>h DEF AnnounceType, AnnInv, AnnouncesSound
        <5> QED BY <5>1, <5>2
      <4> QED BY <4>4, <4>5, <4>7 DEF AnnInv
    <3> QED BY <3>1, <3>2
  <2>2. QueueType' /\ ImportType' /\ QueueInv'
    BY <1>t, <1>1, QueueUnchanged DEF Notify
  <2>3. RestType' /\ DropInv'
    BY <1>t, <1>1 DEF Notify, RestType, Pcs, chainVars, IInv, DropInv
  <2> QED BY <2>1, <2>2, <2>3, Assemble
<1>2. ASSUME NEW h \in Offers(p), Propagated(p, h) PROVE IInv'
  <2>1. AnnounceType' /\ AnnInv' /\ QueueType' /\ QueueInv'
    BY <1>t, <1>o, <1>2, EnqueueInv DEF Propagated
  <2>2. ImportType'
    BY <1>t, <1>2 DEF Propagated, ImportType, importVars
  <2>3. RestType' /\ DropInv'
    BY <1>t, <1>2 DEF Propagated, RestType, Pcs, chainVars, IInv, DropInv
  <2> QED BY <2>1, <2>2, <2>3, Assemble
<1>3. ASSUME NEW h \in Offers(p), FilterHeader(p, h) PROVE IInv'
  <2>h. h \in Hashes
    BY <1>o
  <2>2. QueueType' /\ ImportType' /\ QueueInv'
    BY <1>t, <1>3, QueueUnchanged DEF FilterHeader
  <2>c. fetching[h] # NoAnnounce => fetching[h] \in Announce /\ fetching[h].origin \in Peers
                                     /\ Sound(h, fetching[h])
    BY <1>t, <2>h DEF AnnounceType, Entry, Announce, AnnInv, AnnouncesSound
  <2>3. CASE ~Requested(p, h)
    <3>1. UNCHANGED announceVars /\ RestType' /\ DropInv'
      BY <1>t, <1>3, <2>3 DEF FilterHeader, RestType, Pcs, chainVars, IInv, DropInv
    <3> QED BY <1>t, <3>1, <2>2, AnnounceUnchanged, Assemble
  <2>4. CASE Requested(p, h) /\ (fetching[h].number # Num[h] \/ Known(h))
    <3>1. AnnounceType' /\ AnnInv'
      BY <1>t, <1>3, <2>4, <2>h, ForgetHashInv DEF FilterHeader
    <3>2. fetching[h] # NoAnnounce
      BY <2>4 DEF Requested
    <3>3. fetching[h].number # Num[h] => fetching[h].origin \in Liars \cup Legacy
      BY <3>2, <2>c DEF Sound
    <3>4. RestType' /\ DropInv'
      BY <1>t, <1>3, <2>4, <2>c, <3>2, <3>3 DEF FilterHeader, RestType, Pcs, chainVars, IInv, DropInv
    <3> QED BY <3>1, <3>4, <2>2, Assemble
  <2>5. CASE Requested(p, h) /\ fetching[h].number = Num[h] /\ ~Known(h)
    <3>1. fetching[h] # NoAnnounce
      BY <2>5 DEF Requested
    <3>2. /\ aged' = aged \ {h}
          /\ \/ completing' = [completing EXCEPT ![h] = fetching[h]] /\ UNCHANGED fetched
             \/ fetched' = [fetched EXCEPT ![h] = fetching[h]] /\ UNCHANGED completing
          /\ UNCHANGED <<announces, announced, fetching>>
      BY <1>3, <2>5 DEF FilterHeader
    <3>3. AnnounceType'
      BY <1>t, <2>h, <3>2 DEF AnnounceType
    <3>4. announced[h] = << >>
      BY <1>t, <2>h, <3>1 DEF AnnInv, NoSecondFetch
    <3>5. NoSecondFetch' /\ FetchedStays'
      BY <1>t, <2>h, <3>1, <3>2, <3>4 DEF AnnounceType, AnnInv, NoSecondFetch, FetchedStays
    <3>6. AnnouncesSound'
      <4> SUFFICES ASSUME NEW g \in Hashes
                   PROVE  /\ fetched'[g] # NoAnnounce => Sound(g, fetched'[g])
                          /\ completing'[g] # NoAnnounce => Sound(g, completing'[g])
        BY <1>t, <3>2 DEF AnnInv, AnnouncesSound, Sound
      <4>1. CASE g = h
        BY <1>t, <2>c, <3>1, <3>2, <4>1 DEF AnnounceType, AnnInv, AnnouncesSound
      <4>2. CASE g # h
        BY <1>t, <2>h, <3>2, <4>2 DEF AnnounceType, AnnInv, AnnouncesSound
      <4> QED BY <4>1, <4>2
    <3>7. RestType' /\ DropInv'
      BY <1>t, <1>3, <2>h, <2>5 DEF FilterHeader, RestType, Pcs, chainVars, IInv, DropInv
    <3> QED BY <3>3, <3>5, <3>6, <3>7, <2>2, Assemble DEF AnnInv
  <2> QED BY <2>3, <2>4, <2>5
<1>4. ASSUME NEW count \in [Bodies -> 0..MaxCopies], FilterBodies(p, count) PROVE IInv'
  <2>1. AnnounceType' /\ AnnInv'
    BY <1>t, <1>4, AnnounceUnchanged DEF FilterBodies
  <2>2. QueueType' /\ ImportType' /\ QueueInv'
    BY <1>t, <1>4, QueueUnchanged DEF FilterBodies
  <2>3. \A h \in Hashes : count[BodyOf[h]] \in Nat
    BY DEF Bodies
  <2>4. RestType' /\ DropInv'
    BY <1>t, <1>4, <2>3 DEF FilterBodies, RestType, Pcs, chainVars, IInv, DropInv
  <2> QED BY <2>1, <2>2, <2>4, Assemble
<1> QED BY <1>1, <1>2, <1>3, <1>4

LEMMA DoneInv == ASSUME IInv, NEW op \in Inject, Done(op) PROVE IInv'
<1>t. AnnounceType /\ QueueType /\ ImportType /\ RestType /\ AnnInv /\ QueueInv
  BY Split
<1>h. op.hash \in Hashes
  BY DEF Inject
<1>1. AnnounceType' /\ AnnInv'
  BY <1>t, <1>h, ForgetHashInv DEF Done
<1>2. ImportType' /\ queue' \in [Inject -> Nat]
  BY <1>t DEF Done, ImportType, QueueType
<1>3. InFlight(op) > 0
  BY <1>t DEF Done, InFlight, QueueType, ImportType
<1>4. \A o \in Inject : InFlight(o)' = InFlight(o) - (IF o = op THEN 1 ELSE 0)
  BY <1>t DEF Done, InFlight, QueueType, ImportType
<1>5. QueueType' /\ QueueInv'
  BY <1>t, <1>2, <1>3, <1>4, ForgetBlockInv DEF Done
<1>6. RestType' /\ DropInv'
  BY <1>t DEF Done, RestType, Pcs, chainVars, IInv, DropInv
<1> QED BY <1>1, <1>2, <1>5, <1>6, Assemble

LEMMA ImportsInv == IInv /\ Imports => IInv'
<1> SUFFICES ASSUME IInv, NEW op \in Inject,
                    ImportFails(op) \/ ImportRejected(op) \/ ImportSucceeds(op)
             PROVE  IInv'
  BY DEF Imports
<1>t. AnnounceType /\ QueueType /\ ImportType /\ RestType /\ AnnInv /\ QueueInv
  BY Split
<1>h. op.hash \in Hashes /\ op.origin \in Peers
  BY DEF Inject
<1>e. Exit(op)
  BY DEF ImportFails, ImportRejected, ImportSucceeds
<1>1. AnnounceType' /\ AnnInv'
  BY <1>t, <1>e, AnnounceUnchanged DEF Exit
<1>2. QueueType' /\ ImportType' /\ QueueInv'
  BY <1>t, <1>e, ExitInv
<1>3. chainHeight' \in Nat /\ chain' \subseteq Hashes \cup {Root}
  BY <1>t, <1>h, FetcherAssumption
     DEF ImportFails, ImportRejected, ImportSucceeds, Extend, RestType, chainVars
<1>4. dropped' \subseteq Peers /\ DropInv'
  <2>1. CASE ImportRejected(op)
    <3>1. InFlight(op) > 0
      BY <1>t, <1>e DEF Exit, InFlight, QueueType, ImportType
    <3>2. queued[op.hash] = op.origin
      BY <1>t, <3>1 DEF QueueInv, QueuedOnce
    <3>3. NoAnnounce \notin Peers
      BY AnnounceAssumption
    <3>4. op.origin \in Liars
      BY <1>t, <1>h, <2>1, <3>2, <3>3 DEF QueueInv, QueueSound, ImportRejected
    <3> QED BY <1>t, <1>h, <2>1, <3>4 DEF ImportRejected, RestType, IInv, DropInv
  <2>2. CASE ImportFails(op) \/ ImportSucceeds(op)
    BY <1>t, <2>2 DEF ImportFails, ImportSucceeds, RestType, IInv, DropInv
  <2> QED BY <2>1, <2>2
<1>5. RestType'
  BY <1>t, <1>e, <1>3, <1>4 DEF Exit, RestType, loopVars
<1> QED BY <1>1, <1>2, <1>4, <1>5, Assemble

LEMMA OthersInv == IInv /\ (Timers \/ Environment \/ Quit \/ UNCHANGED vars) => IInv'
<1> SUFFICES ASSUME IInv, Timers \/ Environment \/ Quit \/ UNCHANGED vars PROVE IInv'
  OBVIOUS
<1>t. AnnounceType /\ QueueType /\ ImportType /\ RestType /\ AnnInv /\ QueueInv
  BY Split
<1>1. UNCHANGED <<queueVars, importVars, dropped>>
  BY DEF Timers, FetchTimer, CompleteTimer, Environment, Age, ChainGrows, Quit, vars
<1>2. AnnounceType' /\ AnnInv'
  <2>1. UNCHANGED <<announces, announced, fetching, fetched, completing>>
    BY DEF Timers, FetchTimer, CompleteTimer, Environment, Age, ChainGrows, Quit, vars, announceVars
  <2>2. aged' \subseteq Hashes
    BY <1>t DEF AnnounceType, Timers, FetchTimer, CompleteTimer, Environment, Age, ChainGrows,
                Quit, vars, announceVars
  <2> QED BY <1>t, <2>1, <2>2 DEF AnnounceType, AnnInv, NoSecondFetch, FetchedStays,
                                  AnnouncesSound, Sound
<1>3. QueueType' /\ ImportType' /\ QueueInv'
  BY <1>t, <1>1, QueueUnchanged
<1>4. RestType' /\ DropInv'
  BY <1>t, <1>1, FetcherAssumption
     DEF RestType, IInv, DropInv, Timers, FetchTimer, CompleteTimer, Environment, Age,
         ChainGrows, Extend, Quit, vars, loopVars, chainVars, Pcs
<1> QED BY <1>2, <1>3, <1>4, Assemble

LEMMA StepInv == IInv /\ [Next]_vars => IInv'
BY LoopTopInv, HandlerInv, MessagesInv, DoneInv, ImportsInv, OthersInv DEF Next

-----------------------------------------------------------------------------
\* The invariant holds in every reachable state of the fetcher.
THEOREM Invariant == Spec => []IInv
BY InitInv, StepInv, PTL DEF Spec

\* The maps of the fetcher keep their types, block counters never go below 0.
THEOREM TypeCorrect == Spec => []TypeOK
<1>1. IInv => TypeOK
  BY DEF IInv
<1> QED BY <1>1, Invariant, PTL

\* enqueue, insert and the done handler import each block once at a time, and
\* free the slot of the peer it is booked on.
THEOREM ImportedOnce == Spec => []QueuedOnce
<1>1. IInv => QueuedOnce
  BY DEF IInv, QueueInv
<1> QED BY <1>1, Invariant, PTL

\* blockLimit bounds what one peer can keep in the fetcher.
THEOREM BlocksBounded == Spec => [](QueueCounters /\ BlockBound)
<1>1. IInv => QueueCounters /\ BlockBound
  BY DEF IInv, QueueInv
<1> QED BY <1>1, Invariant, PTL

\* No hash is scheduled for retrieval while it is being retrieved.
THEOREM FetchedOnce == Spec => []NoSecondFetch
<1>1. IInv => NoSecondFetch
  BY DEF IInv, AnnInv
<1> QED BY <1>1, Invariant, PTL

\* Where every peer announces numbers, only lying peers are dropped.
THEOREM DropsJustified ==
  ASSUME Legacy = {}
  PROVE  Spec => []OnlyLiarsDropped
<1>1. IInv => OnlyLiarsDropped
  BY DEF IInv, DropInv, OnlyLiarsDropped
<1> QED BY <1>1, Invariant, PTL
=============================================================================
