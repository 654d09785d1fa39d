----------------------------- MODULE FeedProofs -----------------------------
(***************************************************************************)
(* Proofs about Feed, for any set of subscribers, any buffer and any       *)
(* number of Sends.                                                        *)
(***************************************************************************)
EXTENDS Feed, SequenceTheorems, TLAPS

-----------------------------------------------------------------------------
(* Lists without duplicates. *)

NoDuplicates(q) == \A i, j \in 1 .. Len(q) : q[i] = q[j] => i = j
Listed(q) == {q[i] : i \in 1 .. Len(q)}

LEMMA ListedIn ==
  ASSUME NEW S, NEW q \in Seq(S)
  PROVE  Listed(q) \subseteq S
BY ElementOfSeq DEF Listed

\* find returns the place of a case, or 0 if it is not in the list.
LEMMA FindPlace ==
  ASSUME NEW S, NEW q \in Seq(S), NoDuplicates(q), NEW i \in 1 .. Len(q)
  PROVE  Find(q, q[i]) = i
<1> DEFINE I == {j \in 1 .. Len(q) : q[j] = q[i]}
<1>1. I = {i}
  BY DEF NoDuplicates
<1>2. Min({i}) = i
  BY DEF Min
<1>3. Find(q, q[i]) = IF I # {} THEN Min(I) ELSE 0
  BY DEF Find, SelectInSeq
<1> QED BY <1>1, <1>2, <1>3

LEMMA FindNone ==
  ASSUME NEW S, NEW q \in Seq(S), NEW s, s \notin Listed(q)
  PROVE  Find(q, s) = 0
<1>1. {j \in 1 .. Len(q) : q[j] = s} = {}
  BY DEF Listed
<1> QED BY <1>1 DEF Find, SelectInSeq

\* delete closes the gap.
LEMMA RemoveAtPlaces ==
  ASSUME NEW S, NEW q \in Seq(S), NEW i \in 1 .. Len(q)
  PROVE  /\ RemoveAt(q, i) \in Seq(S)
         /\ Len(RemoveAt(q, i)) = Len(q) - 1
         /\ \A j \in 1 .. Len(q) - 1 :
              RemoveAt(q, i)[j] = IF j < i THEN q[j] ELSE q[j + 1]
<1> DEFINE a == SubSeq(q, 1, i - 1)
           b == SubSeq(q, i + 1, Len(q))
<1>0. Len(q) \in Nat /\ \A j \in 1 .. Len(q) : q[j] \in S
  BY LenProperties
<1>1. a \in Seq(S) /\ Len(a) = i - 1 /\ \A j \in 1 .. i - 1 : a[j] = q[j]
  BY <1>0, SubSeqProperties, i - 1 \in Int
<1>2. b \in Seq(S) /\ Len(b) = Len(q) - i /\ \A j \in 1 .. Len(q) - i : b[j] = q[i + j]
  BY <1>0, SubSeqProperties, i + 1 \in Int
<1> HIDE DEF a, b
<1>3. /\ a \o b \in Seq(S)
      /\ Len(a \o b) = Len(a) + Len(b)
      /\ \A j \in 1 .. Len(a) + Len(b) :
           (a \o b)[j] = IF j <= Len(a) THEN a[j] ELSE b[j - Len(a)]
  BY <1>1, <1>2, ConcatProperties
<1>4. RemoveAt(q, i) = a \o b
  BY DEF RemoveAt, a, b
<1>5. ASSUME NEW j \in 1 .. Len(q) - 1
      PROVE  (a \o b)[j] = IF j < i THEN q[j] ELSE q[j + 1]
  <2>1. CASE j < i
    BY <1>0, <1>1, <1>2, <1>3, <2>1
  <2>2. CASE ~(j < i)
    <3>1. j - Len(a) \in 1 .. Len(q) - i /\ ~(j <= Len(a))
      BY <1>0, <1>1, <2>2
    <3>2. b[j - Len(a)] = q[i + (j - Len(a))] /\ i + (j - Len(a)) = j + 1
      BY <1>0, <1>1, <1>2, <3>1
    <3>3. j \in 1 .. Len(a) + Len(b)
      BY <1>0, <1>1, <1>2
    <3>4. (a \o b)[j] = b[j - Len(a)]
      BY <1>3, <3>1, <3>3, Zenon
    <3> QED BY <2>2, <3>2, <3>4, Zenon
  <2> QED BY <2>1, <2>2
<1> QED BY <1>0, <1>1, <1>2, <1>3, <1>4, <1>5

LEMMA RemoveAtListed ==
  ASSUME NEW S, NEW q \in Seq(S), NoDuplicates(q), NEW i \in 1 .. Len(q)
  PROVE  /\ NoDuplicates(RemoveAt(q, i))
         /\ Listed(RemoveAt(q, i)) = Listed(q) \ {q[i]}
<1> DEFINE r == RemoveAt(q, i)
<1>0. Len(q) \in Nat
  BY LenProperties
<1>1. /\ Len(r) = Len(q) - 1
      /\ \A j \in 1 .. Len(q) - 1 : r[j] = IF j < i THEN q[j] ELSE q[j + 1]
  BY RemoveAtPlaces
<1> HIDE DEF r
<1>2. NoDuplicates(r)
  BY <1>0, <1>1 DEF NoDuplicates
<1>3. ASSUME NEW j \in 1 .. Len(r) PROVE r[j] \in Listed(q) \ {q[i]}
  BY <1>0, <1>1 DEF NoDuplicates, Listed
<1>4. ASSUME NEW k \in 1 .. Len(q), k # i PROVE \E j \in 1 .. Len(r) : r[j] = q[k]
  <2>1. CASE k < i
    BY <1>0, <1>1, <2>1
  <2>2. CASE k > i
    <3>1. k - 1 \in 1 .. Len(r) /\ r[k - 1] = q[k]
      BY <1>0, <1>1, <2>2
    <3> QED BY <3>1
  <2> QED BY <1>0, <1>4, <2>1, <2>2
<1>5. Listed(r) = Listed(q) \ {q[i]}
  BY <1>3, <1>4 DEF Listed
<1> QED BY <1>2, <1>5 DEF r

\* In r the elements n and i of q have changed places.
Exchanged(q, r, n, i) ==
  /\ Len(r) = Len(q)
  /\ \A j \in 1 .. Len(q) : r[j] = IF j = n THEN q[i] ELSE IF j = i THEN q[n] ELSE q[j]

LEMMA ExchangeListed ==
  ASSUME NEW S, NEW q \in Seq(S), NoDuplicates(q),
         NEW n \in 1 .. Len(q), NEW i \in 1 .. Len(q), NEW r,
         Exchanged(q, r, n, i)
  PROVE  NoDuplicates(r) /\ Listed(r) = Listed(q)
<1>0. Len(q) \in Nat
  BY LenProperties
<1>1. /\ Len(r) = Len(q)
      /\ \A j \in 1 .. Len(q) : r[j] = IF j = n THEN q[i] ELSE IF j = i THEN q[n] ELSE q[j]
  BY DEF Exchanged
<1>2. NoDuplicates(r)
  <2> SUFFICES ASSUME NEW j \in 1 .. Len(q), NEW k \in 1 .. Len(q), r[j] = r[k]
               PROVE  j = k
    BY <1>1 DEF NoDuplicates
  <2>1. n \in 1 .. Len(q) /\ i \in 1 .. Len(q)
    BY <1>0
  <2>2. /\ r[j] = IF j = n THEN q[i] ELSE IF j = i THEN q[n] ELSE q[j]
        /\ r[k] = IF k = n THEN q[i] ELSE IF k = i THEN q[n] ELSE q[k]
    BY <1>1
  <2> QED BY <2>1, <2>2, Zenon DEF NoDuplicates
<1>3. \A j \in 1 .. Len(q) : \E k \in 1 .. Len(q) : r[j] = q[k]
  BY <1>0, <1>1
<1>4. \A k \in 1 .. Len(q) : \E j \in 1 .. Len(q) : r[j] = q[k]
  BY <1>0, <1>1
<1>5. ASSUME NEW x \in Listed(r) PROVE x \in Listed(q)
  BY <1>1, <1>3, Zenon DEF Listed
<1>6. ASSUME NEW x \in Listed(q) PROVE x \in Listed(r)
  <2>1. PICK k \in 1 .. Len(q) : x = q[k]
    BY Zenon DEF Listed
  <2>2. PICK j \in 1 .. Len(r) : r[j] = q[k]
    BY <1>1, <1>4, Zenon
  <2> QED BY <2>1, <2>2, Zenon DEF Listed
<1> QED BY <1>2, <1>5, <1>6

\* deactivate exchanges two cases.
LEMMA DeactivatePlaces ==
  ASSUME NEW S, NEW q \in Seq(S), NoDuplicates(q), NEW n \in 1 .. Len(q), NEW i \in 1 .. n
  PROVE  /\ Deactivate(q, n, i) \in Seq(S)
         /\ Exchanged(q, Deactivate(q, n, i), n, i)
         /\ NoDuplicates(Deactivate(q, n, i))
         /\ Listed(Deactivate(q, n, i)) = Listed(q)
<1>0. Len(q) \in Nat /\ \A j \in 1 .. Len(q) : q[j] \in S
  BY LenProperties
<1>1. i \in 1 .. Len(q) /\ q[i] \in S /\ q[n] \in S
  BY <1>0
<1> DEFINE a == [q EXCEPT ![i] = q[n]]
           b == [a EXCEPT ![n] = q[i]]
<1>2. /\ a \in Seq(S) /\ Len(a) = Len(q)
      /\ \A j \in 1 .. Len(q) : a[j] = IF j = i THEN q[n] ELSE q[j]
  BY <1>1, ExceptSeq
<1>3. Deactivate(q, n, i) = b
  BY DEF Deactivate
<1> HIDE DEF a
<1>4. /\ b \in Seq(S) /\ Len(b) = Len(a)
      /\ \A j \in 1 .. Len(a) : b[j] = IF j = n THEN q[i] ELSE a[j]
  BY <1>1, <1>2, ExceptSeq
<1> HIDE DEF b
<1>5. Exchanged(q, b, n, i)
  BY <1>2, <1>4 DEF Exchanged
<1>6. NoDuplicates(b) /\ Listed(b) = Listed(q)
  BY <1>1, <1>5, ExchangeListed
<1> QED BY <1>3, <1>4, <1>5, <1>6

\* A list appended to another one.
LEMMA ConcatListed ==
  ASSUME NEW S, NEW q \in Seq(S), NEW r \in Seq(S)
  PROVE  /\ Listed(q \o r) = Listed(q) \cup Listed(r)
         /\ IsInjective(q \o r) <=> /\ NoDuplicates(q) /\ NoDuplicates(r)
                                    /\ Listed(q) \cap Listed(r) = {}
<1> DEFINE c == q \o r
<1>0. Len(q) \in Nat /\ Len(r) \in Nat
  BY LenProperties
<1>1. /\ c \in Seq(S) /\ Len(c) = Len(q) + Len(r)
      /\ \A i \in 1 .. Len(q) + Len(r) : c[i] = IF i <= Len(q) THEN q[i] ELSE r[i - Len(q)]
  BY ConcatProperties
<1>2. DOMAIN c = 1 .. Len(c)
  BY <1>1, LenProperties
<1> HIDE DEF c
<1>3. \A i \in 1 .. Len(q) : i \in 1 .. Len(c) /\ c[i] = q[i]
  BY <1>0, <1>1
<1>4. \A i \in 1 .. Len(r) : Len(q) + i \in 1 .. Len(c) /\ c[Len(q) + i] = r[i]
  <2> TAKE i \in 1 .. Len(r)
  <2>1. Len(q) + i \in 1 .. Len(q) + Len(r) /\ ~(Len(q) + i <= Len(q)) /\ (Len(q) + i) - Len(q) = i
    BY <1>0
  <2> QED BY <1>1, <2>1
<1>5. \A i \in 1 .. Len(c) : \/ i \in 1 .. Len(q) /\ c[i] = q[i]
                             \/ i - Len(q) \in 1 .. Len(r) /\ c[i] = r[i - Len(q)]
  <2> TAKE i \in 1 .. Len(c)
  <2>1. i \in 1 .. Len(q) + Len(r)
    BY <1>1
  <2>2. CASE i <= Len(q)
    BY <1>0, <1>1, <2>1, <2>2
  <2>3. CASE ~(i <= Len(q))
    <3>1. i - Len(q) \in 1 .. Len(r)
      BY <1>0, <2>1, <2>3
    <3> QED BY <1>1, <2>1, <2>3, <3>1
  <2> QED BY <2>2, <2>3
<1>6. Listed(c) = Listed(q) \cup Listed(r)
  <2>1. ASSUME NEW x \in Listed(c) PROVE x \in Listed(q) \cup Listed(r)
    BY <1>5, Zenon DEF Listed
  <2>2. ASSUME NEW x \in Listed(q) \cup Listed(r) PROVE x \in Listed(c)
    BY <1>3, <1>4, Zenon DEF Listed
  <2> QED BY <2>1, <2>2
<1>7. ASSUME IsInjective(c)
      PROVE  NoDuplicates(q) /\ NoDuplicates(r) /\ Listed(q) \cap Listed(r) = {}
  <2>1. NoDuplicates(q)
    BY <1>2, <1>3, <1>7 DEF IsInjective, NoDuplicates
  <2>2. NoDuplicates(r)
    <3> SUFFICES ASSUME NEW i \in 1 .. Len(r), NEW j \in 1 .. Len(r), r[i] = r[j]
                 PROVE  i = j
      BY DEF NoDuplicates
    <3>1. Len(q) + i = Len(q) + j
      BY <1>2, <1>4, <1>7 DEF IsInjective
    <3> QED BY <1>0, <3>1
  <2>3. ASSUME NEW i \in 1 .. Len(q), NEW j \in 1 .. Len(r), q[i] = r[j] PROVE FALSE
    <3>1. i = Len(q) + j
      BY <1>2, <1>3, <1>4, <1>7, <2>3 DEF IsInjective
    <3> QED BY <1>0, <3>1
  <2> QED BY <2>1, <2>2, <2>3 DEF Listed
<1>8. ASSUME NoDuplicates(q), NoDuplicates(r), Listed(q) \cap Listed(r) = {}
      PROVE  IsInjective(c)
  <2> SUFFICES ASSUME NEW i \in 1 .. Len(c), NEW j \in 1 .. Len(c), c[i] = c[j]
               PROVE  i = j
    BY <1>2 DEF IsInjective
  <2>1. \A k \in 1 .. Len(q), l \in 1 .. Len(r) : q[k] # r[l]
    BY <1>8 DEF Listed
  <2>2. i \in Int /\ j \in Int
    BY <1>0, <1>1
  <2>3. CASE i \in 1 .. Len(q) /\ c[i] = q[i]
    BY <1>5, <1>8, <2>1, <2>3 DEF NoDuplicates
  <2>4. CASE i - Len(q) \in 1 .. Len(r) /\ c[i] = r[i - Len(q)]
    <3>1. i - Len(q) = j - Len(q)
      BY <1>5, <1>8, <2>1, <2>4 DEF NoDuplicates
    <3> QED BY <1>0, <2>2, <3>1
  <2> QED BY <1>5, <2>3, <2>4
<1> QED BY <1>6, <1>7, <1>8 DEF c

-----------------------------------------------------------------------------
(* The inductive invariant. *)

\* The value that s received last, counted from its subscription.
Got(s) == since[s] + Len(delivered[s])

\* OneEntry, by lists.
Entries ==
  /\ NoDuplicates(sendCases) /\ NoDuplicates(inbox)
  /\ Listed(sendCases) \cap Listed(inbox) = {}
  /\ \A s \in Subs : sub[s] \in {"on", "removing"}
                       <=> s \in Listed(sendCases) \cup Listed(inbox)
  /\ \A s \in Subs : sub[s] = "removing" => s \in Listed(sendCases)

\* NoneMissed, by lists.
Counts ==
  /\ \A i \in 1 .. Len(sendCases) :
       Got(sendCases[i]) = IF i <= active THEN sent - 1 ELSE sent
  /\ \A s \in Listed(inbox) : Got(s) = sent

\* Consecutive, value by value; who has not subscribed has nothing.
Values ==
  \A s \in Subs : /\ \A k \in 1 .. Len(delivered[s]) : delivered[s][k] = since[s] + k
                  /\ sub[s] = "new" => Len(delivered[s]) = 0

\* Without a Send in progress no case is active.
Quiet == send \in {"idle", "locked"} => active = 0

IInv == TypeOK /\ Entries /\ Counts /\ Values /\ Quiet

LEMMA InitInv ==
  ASSUME FeedAssumption, Init
  PROVE  IInv
<1>1. /\ inbox = <<>> /\ sendCases = <<>> /\ Len(inbox) = 0 /\ Len(sendCases) = 0
      /\ inbox \in Seq(Subs) /\ sendCases \in Seq(Subs)
  BY EmptySeq DEF Init
<1>2. delivered = [s \in Subs |-> <<>>] /\ <<>> \in Seq(Nat) /\ Len(<<>>) = 0
  BY EmptySeq DEF Init
<1>3. Listed(inbox) = {} /\ Listed(sendCases) = {}
  BY <1>1 DEF Listed
<1>4. NoDuplicates(inbox) /\ NoDuplicates(sendCases)
  BY <1>1 DEF NoDuplicates
<1>5. TypeOK
  BY <1>1, <1>2 DEF Init, TypeOK, FeedAssumption
<1>6. Entries
  BY <1>3, <1>4 DEF Init, Entries
<1>7. Counts
  BY <1>1, <1>3 DEF Counts
<1>8. Values
  BY <1>2 DEF Values
<1> QED BY <1>5, <1>6, <1>7, <1>8 DEF IInv, Quiet, Init

LEMMA SubscribeInv ==
  ASSUME FeedAssumption, IInv, NEW s \in Subs, Subscribe(s)
  PROVE  IInv'
<1>0. /\ inbox \in Seq(Subs) /\ Len(inbox) \in Nat /\ sent \in Nat
      /\ sub[s] = "new" /\ Len(delivered[s]) = 0
  BY LenProperties DEF IInv, TypeOK, Values, Subscribe
<1>1. s \notin Listed(sendCases) /\ s \notin Listed(inbox)
  BY <1>0 DEF IInv, Entries
<1>2. /\ inbox' \in Seq(Subs) /\ Len(inbox') = Len(inbox) + 1
      /\ \A i \in 1 .. Len(inbox) : inbox'[i] = inbox[i]
      /\ inbox'[Len(inbox) + 1] = s
  BY <1>0 DEF Subscribe
<1>3. Listed(inbox') = Listed(inbox) \cup {s}
  BY <1>0, <1>2 DEF Listed
<1>4. NoDuplicates(inbox')
  <2> SUFFICES ASSUME NEW i \in 1 .. Len(inbox) + 1, NEW j \in 1 .. Len(inbox) + 1,
                      inbox'[i] = inbox'[j]
               PROVE  i = j
    BY <1>2 DEF NoDuplicates
  <2>1. \A k \in 1 .. Len(inbox) : inbox[k] # s
    BY <1>1 DEF Listed
  <2> QED BY <1>0, <1>2, <2>1 DEF IInv, Entries, NoDuplicates
<1>5. TypeOK'
  BY <1>2 DEF IInv, TypeOK, Subscribe
<1>6. Entries'
  <2>1. sendCases' = sendCases /\ sub' = [sub EXCEPT ![s] = "on"]
    BY DEF Subscribe
  <2>2. \A t \in Subs : sub'[t] = IF t = s THEN "on" ELSE sub[t]
    BY <2>1 DEF IInv, TypeOK
  <2> QED BY <1>1, <1>3, <1>4, <2>1, <2>2 DEF IInv, Entries
<1>7. Values'
  BY <1>0 DEF IInv, TypeOK, Values, Subscribe
<1>8. Counts'
  <2>1. \A t \in Subs : t # s => Got(t)' = Got(t)
    BY DEF IInv, TypeOK, Got, Subscribe
  <2>2. Got(s)' = sent'
    BY <1>0 DEF IInv, TypeOK, Got, Subscribe
  <2>3. Listed(sendCases) \subseteq Subs /\ Listed(inbox) \subseteq Subs
    BY ListedIn DEF IInv, TypeOK
  <2>4. \A i \in 1 .. Len(sendCases) : Got(sendCases[i])' = Got(sendCases[i])
    <3> TAKE i \in 1 .. Len(sendCases)
    <3>1. sendCases[i] \in Subs /\ sendCases[i] # s /\ sendCases' = sendCases
      BY <1>1, <2>3 DEF Listed, Subscribe
    <3> QED BY <2>1, <3>1
  <2>5. UNCHANGED <<sendCases, active, sent>>
    BY DEF Subscribe
  <2> QED BY <1>1, <1>3, <2>1, <2>2, <2>3, <2>4, <2>5 DEF IInv, Counts
<1>9. Quiet'
  BY DEF IInv, Quiet, Subscribe
<1> QED BY <1>5, <1>6, <1>7, <1>8, <1>9 DEF IInv

\* What a step leaves of Got and Values when it delivers nothing.
LEMMA NothingDelivered ==
  ASSUME IInv, UNCHANGED <<since, delivered>>,
         \A s \in Subs : sub'[s] = "new" => sub[s] = "new"
  PROVE  Values' /\ \A s \in Subs : Got(s)' = Got(s)
BY DEF IInv, Values, Got

LEMMA RemoveFromInboxInv ==
  ASSUME FeedAssumption, IInv, NEW s \in Subs, RemoveFromInbox(s)
  PROVE  IInv'
<1>0. /\ inbox \in Seq(Subs) /\ Len(inbox) \in Nat /\ Listed(inbox) \subseteq Subs
      /\ NoDuplicates(inbox) /\ sub[s] = "on" /\ sub \in [Subs -> {"new", "on", "removing", "off"}]
      /\ UNCHANGED <<sendCases, active, index, send, queued, sent, since, delivered>>
  BY LenProperties, ListedIn DEF IInv, TypeOK, Entries, RemoveFromInbox
<1>q. Quiet'
  BY <1>0 DEF IInv, Quiet
<1>1. CASE s \in Listed(inbox)
  <2>1. PICK i \in 1 .. Len(inbox) : inbox[i] = s
    BY <1>1 DEF Listed
  <2>2. Find(inbox, s) = i
    BY <1>0, <2>1, FindPlace
  <2>3. inbox' = RemoveAt(inbox, i) /\ sub' = [sub EXCEPT ![s] = "off"]
    BY <2>1, <2>2 DEF RemoveFromInbox
  <2>4. inbox' \in Seq(Subs) /\ NoDuplicates(inbox') /\ Listed(inbox') = Listed(inbox) \ {s}
    BY <1>0, <2>1, <2>3, RemoveAtPlaces, RemoveAtListed
  <2>5. \A t \in Subs : sub'[t] = IF t = s THEN "off" ELSE sub[t]
    BY <1>0, <2>3
  <2>6. TypeOK'
    BY <1>0, <2>3, <2>4 DEF IInv, TypeOK
  <2>7. Entries'
    BY <1>0, <1>1, <2>4, <2>5 DEF IInv, Entries
  <2>8. Values' /\ \A t \in Subs : Got(t)' = Got(t)
    BY <1>0, <2>5, NothingDelivered
  <2>9. Counts'
    <3>1. \A j \in 1 .. Len(sendCases) : sendCases[j] \in Subs
      BY ElementOfSeq DEF IInv, TypeOK
    <3> QED BY <1>0, <2>4, <2>8, <3>1 DEF IInv, Counts
  <2> QED BY <1>q, <2>6, <2>7, <2>8, <2>9 DEF IInv
<1>2. CASE s \notin Listed(inbox)
  <2>1. inbox' = inbox /\ sub' = [sub EXCEPT ![s] = "removing"]
    BY <1>0, <1>2, FindNone DEF RemoveFromInbox
  <2>2. \A t \in Subs : sub'[t] = IF t = s THEN "removing" ELSE sub[t]
    BY <1>0, <2>1
  <2>3. TypeOK'
    BY <1>0, <2>1 DEF IInv, TypeOK
  <2>4. Entries'
    BY <1>0, <1>2, <2>1, <2>2 DEF IInv, Entries
  <2>5. Values' /\ \A t \in Subs : Got(t)' = Got(t)
    BY <1>0, <2>2, NothingDelivered
  <2>6. Counts'
    <3>1. \A j \in 1 .. Len(sendCases) : sendCases[j] \in Subs
      BY ElementOfSeq DEF IInv, TypeOK
    <3> QED BY <1>0, <2>1, <2>5, <3>1 DEF IInv, Counts
  <2> QED BY <1>q, <2>3, <2>4, <2>5, <2>6 DEF IInv
<1> QED BY <1>1, <1>2

\* The case of s leaves the list; active is what Shrunk says.
LEMMA RemoveInv ==
  ASSUME FeedAssumption, IInv, NEW s \in Subs, sub[s] = "removing",
         sendCases' = RemoveAt(sendCases, Find(sendCases, s)),
         active' = Shrunk(active, Find(sendCases, s)),
         sub' = [sub EXCEPT ![s] = "off"],
         UNCHANGED <<inbox, queued, sent, since, delivered>>,
         index' \in Nat \ {0}, send' \in {"idle", "locked", "trying", "selecting"},
         Quiet'
  PROVE  IInv'
<1>0. /\ sendCases \in Seq(Subs) /\ Len(sendCases) \in Nat /\ active \in 0 .. Len(sendCases)
      /\ Listed(inbox) \subseteq Subs
      /\ NoDuplicates(sendCases) /\ sub \in [Subs -> {"new", "on", "removing", "off"}]
      /\ s \in Listed(sendCases)
  BY LenProperties, ListedIn DEF IInv, TypeOK, Entries
<1>1. PICK i \in 1 .. Len(sendCases) : sendCases[i] = s
  BY <1>0 DEF Listed
<1>2. Find(sendCases, s) = i
  BY <1>0, <1>1, FindPlace
<1>3. /\ sendCases' \in Seq(Subs) /\ Len(sendCases') = Len(sendCases) - 1
      /\ \A j \in 1 .. Len(sendCases) - 1 :
           sendCases'[j] = IF j < i THEN sendCases[j] ELSE sendCases[j + 1]
  BY <1>0, <1>2, RemoveAtPlaces
<1>4. NoDuplicates(sendCases') /\ Listed(sendCases') = Listed(sendCases) \ {s}
  BY <1>0, <1>1, <1>2, RemoveAtListed
<1>5. active' = (IF i <= active THEN active - 1 ELSE active) /\ active' \in 0 .. Len(sendCases')
  BY <1>0, <1>2, <1>3 DEF Shrunk
<1>6. \A t \in Subs : sub'[t] = IF t = s THEN "off" ELSE sub[t]
  BY <1>0
<1>7. TypeOK'
  BY <1>0, <1>3, <1>5 DEF IInv, TypeOK
<1>8. Entries'
  BY <1>0, <1>4, <1>6 DEF IInv, Entries
<1>9. Values' /\ \A t \in Subs : Got(t)' = Got(t)
  BY <1>6, NothingDelivered
<1>10. Counts'
  <2>1. ASSUME NEW j \in 1 .. Len(sendCases')
        PROVE  Got(sendCases[j])' = IF j <= active' THEN sent' - 1 ELSE sent'
    <3>1. sendCases'[j] \in Subs
      BY <1>3, ElementOfSeq
    <3>2. Got(sendCases[j])' = Got(sendCases'[j])
      BY <1>9, <3>1 DEF Got
    <3>3. CASE j < i
      <4>1. sendCases'[j] = sendCases[j] /\ j \in 1 .. Len(sendCases) /\ (j <= active' <=> j <= active)
        BY <1>0, <1>3, <1>5, <3>3
      <4> QED BY <3>2, <4>1 DEF IInv, Counts
    <3>4. CASE ~(j < i)
      <4>1. /\ sendCases'[j] = sendCases[j + 1] /\ j + 1 \in 1 .. Len(sendCases)
            /\ j <= active' <=> j + 1 <= active
        BY <1>0, <1>3, <1>5, <3>4
      <4> QED BY <3>2, <4>1 DEF IInv, Counts
    <3> QED BY <3>3, <3>4
  <2> QED BY <1>0, <1>9, <2>1 DEF IInv, Counts
<1> QED BY <1>7, <1>8, <1>9, <1>10 DEF IInv

LEMMA RemoveLockedInv ==
  ASSUME FeedAssumption, IInv, NEW s \in Subs, RemoveLocked(s)
  PROVE  IInv'
<1>1. active = 0 /\ Quiet'
  BY DEF IInv, Quiet, RemoveLocked
<1>2. s \in Listed(sendCases)
  BY DEF IInv, Entries, RemoveLocked
<1>3. Find(sendCases, s) \in Nat \ {0}
  BY <1>2, FindPlace, LenProperties DEF Listed, IInv, TypeOK, Entries
<1>4. active' = Shrunk(active, Find(sendCases, s))
  BY <1>1, <1>3 DEF Shrunk, RemoveLocked
<1> QED BY <1>1, <1>4, RemoveInv DEF RemoveLocked, IInv, TypeOK

LEMMA RemoveBySendInv ==
  ASSUME FeedAssumption, IInv, NEW s \in Subs, RemoveBySend(s)
  PROVE  IInv'
<1>1. Quiet'
  BY DEF Quiet, RemoveBySend
<1>2. /\ sub[s] = "removing" /\ sub' = [sub EXCEPT ![s] = "off"]
      /\ sendCases' = RemoveAt(sendCases, Find(sendCases, s))
      /\ active' = Shrunk(active, Find(sendCases, s))
      /\ index' \in Nat \ {0} /\ send' \in {"idle", "locked", "trying", "selecting"}
      /\ UNCHANGED <<inbox, queued, sent, since, delivered>>
  BY DEF RemoveBySend
<1> QED BY <1>1, <1>2, RemoveInv

LEMMA ReceiveInv ==
  ASSUME FeedAssumption, IInv, NEW s \in Subs, Receive(s)
  PROVE  IInv'
<1>1. UNCHANGED <<feedVars, sub, sent, since, delivered>> /\ queued' \in [Subs -> 0 .. Buffer]
  BY DEF Receive, IInv, TypeOK, FeedAssumption
<1> QED BY <1>1 DEF IInv, TypeOK, Entries, Counts, Values, Quiet, Got, feedVars

LEMMA SendLockInv ==
  ASSUME FeedAssumption, IInv, SendLock
  PROVE  IInv'
BY DEF SendLock, IInv, TypeOK, Entries, Counts, Values, Quiet, Got

LEMMA TriedAllInv ==
  ASSUME FeedAssumption, IInv, TriedAll
  PROVE  IInv'
BY DEF TriedAll, IInv, TypeOK, Entries, Counts, Values, Quiet, Got

LEMMA SendCollectInv ==
  ASSUME FeedAssumption, IInv, SendCollect
  PROVE  IInv'
<1>0. /\ sendCases \in Seq(Subs) /\ inbox \in Seq(Subs) /\ active = 0 /\ sent \in Nat
      /\ Len(sendCases) \in Nat /\ Len(inbox) \in Nat
  BY LenProperties DEF SendCollect, IInv, TypeOK, Quiet
<1>1. /\ sendCases' = sendCases \o inbox /\ inbox' = <<>> /\ active' = Len(sendCases')
      /\ send' = "trying" /\ index' = 1 /\ sent' = sent + 1
      /\ UNCHANGED <<sub, queued, since, delivered>>
  BY DEF SendCollect
<1>2. /\ sendCases' \in Seq(Subs) /\ Len(sendCases') = Len(sendCases) + Len(inbox)
      /\ \A i \in 1 .. Len(sendCases) + Len(inbox) : sendCases'[i] =
           IF i <= Len(sendCases) THEN sendCases[i] ELSE inbox[i - Len(sendCases)]
  BY <1>0, <1>1, ConcatProperties
<1>3. inbox' \in Seq(Subs) /\ Len(inbox') = 0
  BY <1>1, EmptySeq
<1>4. Listed(inbox') = {} /\ NoDuplicates(inbox')
  BY <1>3 DEF Listed, NoDuplicates
<1>5. Listed(sendCases') = Listed(sendCases) \cup Listed(inbox)
  BY <1>0, <1>1, ConcatListed
<1>6. NoDuplicates(sendCases')
  <2>1. IsInjective(sendCases \o inbox)
    BY <1>0, ConcatListed DEF IInv, Entries
  <2>2. DOMAIN sendCases' = 1 .. Len(sendCases')
    BY <1>2, LenProperties
  <2> QED BY <1>1, <2>1, <2>2 DEF IsInjective, NoDuplicates
<1>7. TypeOK'
  BY <1>0, <1>1, <1>2, <1>3 DEF IInv, TypeOK
<1>8. Entries'
  BY <1>1, <1>4, <1>5, <1>6 DEF IInv, Entries
<1>9. Values' /\ \A t \in Subs : Got(t)' = Got(t)
  BY <1>1, NothingDelivered
<1>10. Counts'
  <2>1. ASSUME NEW j \in 1 .. Len(sendCases')
        PROVE  Got(sendCases[j])' = sent
    <3>1. sendCases'[j] \in Subs
      BY <1>2, ElementOfSeq
    <3>2. Got(sendCases[j])' = Got(sendCases'[j])
      BY <1>9, <3>1 DEF Got
    <3>3. \/ \E k \in 1 .. Len(sendCases) : sendCases'[j] = sendCases[k]
          \/ sendCases'[j] \in Listed(inbox)
      BY <1>5 DEF Listed
    <3>4. ASSUME NEW k \in 1 .. Len(sendCases) PROVE Got(sendCases[k]) = sent
      <4>1. ~(k <= active)
        BY <1>0
      <4> QED BY <4>1 DEF IInv, Counts
    <3>5. ASSUME NEW t \in Listed(inbox) PROVE Got(t) = sent
      BY DEF IInv, Counts
    <3> QED BY <3>2, <3>3, <3>4, <3>5
  <2>2. \A j \in 1 .. Len(sendCases') : j <= active'
    BY <1>0, <1>1, <1>2
  <2>3. sent = sent' - 1
    BY <1>0, <1>1
  <2> QED BY <1>4, <2>1, <2>2, <2>3 DEF Counts
<1>11. Quiet'
  BY <1>1 DEF Quiet
<1> QED BY <1>7, <1>8, <1>9, <1>10, <1>11 DEF IInv

LEMMA OneMore ==
  ASSUME NEW a \in Nat, NEW b \in Nat, NEW n \in Nat, a + b = n - 1
  PROVE  n = a + (b + 1)
OBVIOUS

\* The value goes to the active case i.
LEMMA DeliverInv ==
  ASSUME FeedAssumption, IInv, NEW i \in 1 .. active, Deliver(i),
         UNCHANGED <<inbox, sub, sent, since>>,
         index' \in Nat \ {0}, send' = "trying"
  PROVE  IInv'
<1>0. /\ sendCases \in Seq(Subs) /\ Len(sendCases) \in Nat /\ active \in 1 .. Len(sendCases)
      /\ i \in 1 .. Len(sendCases) /\ NoDuplicates(sendCases) /\ sent \in Nat
  BY LenProperties DEF IInv, TypeOK, Entries
<1>1. PICK s \in Subs : s = sendCases[i]
  BY <1>0, ElementOfSeq
<1>l. s \in Listed(sendCases)
  BY <1>0, <1>1 DEF Listed
<1>2. /\ queued[s] < Buffer /\ queued' = [queued EXCEPT ![s] = @ + 1]
      /\ delivered' = [delivered EXCEPT ![s] = Append(@, sent)]
      /\ sendCases' = Deactivate(sendCases, active, i) /\ active' = active - 1
  BY <1>1 DEF Deliver
<1>3. /\ sendCases' \in Seq(Subs) /\ Exchanged(sendCases, sendCases', active, i)
      /\ NoDuplicates(sendCases') /\ Listed(sendCases') = Listed(sendCases)
  BY <1>0, <1>2, DeactivatePlaces
<1>4. Got(s) = sent - 1 /\ delivered[s] \in Seq(Nat) /\ Len(delivered[s]) \in Nat /\ since[s] \in Nat
  <2>1. i <= active
    BY <1>0
  <2>2. Got(s) = sent - 1
    BY <1>0, <1>1, <2>1 DEF IInv, Counts
  <2> QED BY <2>2, LenProperties DEF IInv, TypeOK
<1>n. sent \in Nat /\ since[s] + Len(delivered[s]) = sent - 1
  BY <1>0, <1>4 DEF Got
<1>m. sent = since[s] + (Len(delivered[s]) + 1)
  <2>1. PICK a \in Nat : a = since[s]
    BY <1>4
  <2>2. PICK b \in Nat : b = Len(delivered[s])
    BY <1>4
  <2>3. a + b = sent - 1
    BY <1>n, <2>1, <2>2, Zenon
  <2>4. sent = a + (b + 1)
    BY <1>n, <2>3, OneMore
  <2> QED BY <2>1, <2>2, <2>4, Zenon
<1>a. /\ Append(delivered[s], sent) \in Seq(Nat)
      /\ Len(Append(delivered[s], sent)) = Len(delivered[s]) + 1
      /\ \A k \in 1 .. Len(delivered[s]) : Append(delivered[s], sent)[k] = delivered[s][k]
      /\ Append(delivered[s], sent)[Len(delivered[s]) + 1] = sent
  BY <1>4, <1>n
<1>d. /\ delivered' \in [Subs -> Seq(Nat)] /\ delivered'[s] = Append(delivered[s], sent)
      /\ \A t \in Subs : t # s => delivered'[t] = delivered[t]
  <2>1. delivered \in [Subs -> Seq(Nat)]
    BY DEF IInv, TypeOK
  <2> QED BY <1>2, <1>a, <2>1, Zenon
<1>5. /\ delivered'[s] \in Seq(Nat) /\ Len(delivered'[s]) = Len(delivered[s]) + 1
      /\ \A k \in 1 .. Len(delivered[s]) : delivered'[s][k] = delivered[s][k]
      /\ delivered'[s][Len(delivered[s]) + 1] = sent
      /\ \A t \in Subs : t # s => delivered'[t] = delivered[t]
      /\ delivered' \in [Subs -> Seq(Nat)]
  BY <1>a, <1>d, Zenon
<1>6. TypeOK'
  <2>1. active' \in 0 .. Len(sendCases')
    BY <1>0, <1>2, <1>3 DEF Exchanged
  <2>2. queued' \in [Subs -> 0 .. Buffer]
    <3>1. queued \in [Subs -> 0 .. Buffer] /\ Buffer \in Nat
      BY DEF IInv, TypeOK, FeedAssumption
    <3>2. queued[s] + 1 \in 0 .. Buffer
      BY <1>2, <3>1
    <3> QED BY <1>2, <3>1, <3>2
  <2> QED BY <1>3, <1>5, <2>1, <2>2 DEF IInv, TypeOK
<1>7. Entries'
  BY <1>3 DEF IInv, Entries
<1>8. Values'
  <2>1. sub[s] # "new"
    BY <1>l DEF IInv, Entries
  <2>2. sent = since[s] + (Len(delivered[s]) + 1)
    BY <1>m
  <2>3. \A k \in 1 .. Len(delivered'[s]) : delivered'[s][k] = since'[s] + k
    <3> TAKE k \in 1 .. Len(delivered'[s])
    <3>1. CASE k = Len(delivered[s]) + 1
      BY <1>5, <2>2, <3>1
    <3>2. CASE k # Len(delivered[s]) + 1
      <4>1. k \in 1 .. Len(delivered[s])
        BY <1>4, <1>5, <3>2
      <4> QED BY <1>1, <1>5, <4>1 DEF IInv, Values
    <3> QED BY <3>1, <3>2
  <2>4. ASSUME NEW t \in Subs, t # s
        PROVE  /\ \A k \in 1 .. Len(delivered'[t]) : delivered'[t][k] = since'[t] + k
               /\ sub'[t] = "new" => Len(delivered'[t]) = 0
    BY <1>5, <2>4 DEF IInv, Values
  <2> QED BY <2>1, <2>3, <2>4 DEF Values
<1>9. /\ Got(s)' = sent
      /\ \A t \in Subs : t # s => Got(t)' = Got(t)
  <2>1. since'[s] + Len(delivered'[s]) = sent
    BY <1>5, <1>m, Zenon
  <2>2. Got(s)' = since'[s] + Len(delivered'[s])
    BY DEF Got
  <2>3. \A t \in Subs : t # s => Got(t)' = Got(t)
    BY <1>d DEF Got
  <2> QED BY <2>1, <2>2, <2>3
<1>10. Counts'
  <2>0. /\ Len(sendCases') = Len(sendCases) /\ sendCases'[active] = s
        /\ \A j \in 1 .. Len(sendCases) : j # active => sendCases'[j] =
             IF j = i THEN sendCases[active] ELSE sendCases[j]
    BY <1>0, <1>1, <1>3 DEF Exchanged
  <2>1. ASSUME NEW j \in 1 .. Len(sendCases')
        PROVE  Got(sendCases[j])' = IF j <= active' THEN sent' - 1 ELSE sent'
    <3>0. j \in 1 .. Len(sendCases) /\ sendCases'[j] \in Subs
      BY <1>3, <2>0, ElementOfSeq
    <3>1. CASE j = active
      <4>1. ~(j <= active') /\ sendCases'[j] = s
        BY <1>0, <1>2, <2>0, <3>1
      <4>2. Got(sendCases[j])' = sent
        BY <1>9, <4>1 DEF Got
      <4> QED BY <4>1, <4>2
    <3>2. CASE j # active
      <4>1. sendCases'[j] # s
        <5>1. active \in 1 .. Len(sendCases')
          BY <1>0, <2>0
        <5> QED BY <1>3, <2>0, <3>2, <5>1 DEF NoDuplicates
      <4>2. Got(sendCases[j])' = Got(sendCases'[j])
        BY <1>9, <3>0, <4>1 DEF Got
      <4>3. PICK m \in 1 .. Len(sendCases) :
               sendCases'[j] = sendCases[m] /\ (j <= active' <=> m <= active)
        <5>1. CASE j = i
          <6>1. active \in 1 .. Len(sendCases) /\ sendCases'[j] = sendCases[active]
                /\ (j <= active' <=> active <= active)
            BY <1>0, <1>2, <2>0, <3>0, <3>2, <5>1
          <6> QED BY <6>1
        <5>2. CASE j # i
          <6>1. sendCases'[j] = sendCases[j] /\ (j <= active' <=> j <= active)
            BY <1>0, <1>2, <2>0, <3>0, <3>2, <5>2
          <6> QED BY <3>0, <6>1
        <5> QED BY <5>1, <5>2
      <4>4. Got(sendCases[m]) = IF m <= active THEN sent - 1 ELSE sent
        BY <4>3 DEF IInv, Counts
      <4> QED BY <4>2, <4>3, <4>4
    <3> QED BY <3>1, <3>2
  <2>2. \A t \in Listed(inbox) : t \in Subs /\ t # s
    BY <1>l, ListedIn DEF IInv, TypeOK, Entries
  <2> QED BY <1>9, <2>1, <2>2 DEF IInv, Counts
<1>11. Quiet'
  BY DEF Quiet
<1> QED BY <1>6, <1>7, <1>8, <1>10, <1>11 DEF IInv

\* Nothing but the loop index changes.
LEMMA StutterInv ==
  ASSUME IInv, index' \in Nat \ {0},
         UNCHANGED <<inbox, sendCases, active, send, sub, queued, sent, since, delivered>>
  PROVE  IInv'
<1>1. TypeOK'
  BY DEF IInv, TypeOK
<1>2. Entries'
  BY DEF IInv, Entries
<1>3. Values' /\ \A s \in Subs : Got(s)' = Got(s)
  BY NothingDelivered
<1>4. Counts'
  BY Zenon DEF IInv, Counts, Got
<1>5. Quiet'
  BY DEF IInv, Quiet
<1> QED BY <1>1, <1>2, <1>3, <1>4, <1>5 DEF IInv

LEMMA TrySendInv ==
  ASSUME FeedAssumption, IInv, TrySend
  PROVE  IInv'
<1>1. index \in 1 .. active
  BY DEF IInv, TypeOK, TrySend
<1>2. CASE Deliver(index) /\ UNCHANGED index
  BY <1>1, <1>2, DeliverInv DEF IInv, TypeOK, TrySend
<1>3. CASE /\ index' = index + 1
           /\ UNCHANGED <<sendCases, active, queued, delivered>>
  <2>1. UNCHANGED <<inbox, sendCases, active, send, sub, queued, sent, since, delivered>>
    BY <1>3 DEF TrySend
  <2>2. index' \in Nat \ {0}
    BY <1>3 DEF IInv, TypeOK
  <2> QED BY <2>1, <2>2, StutterInv
<1> QED BY <1>2, <1>3 DEF TrySend

LEMMA SelectSendInv ==
  ASSUME FeedAssumption, IInv, SelectSend
  PROVE  IInv'
<1>1. PICK i \in 1 .. active : Deliver(i)
  BY DEF SelectSend
<1> QED BY <1>1, DeliverInv DEF SelectSend

LEMMA NextInv ==
  ASSUME FeedAssumption, IInv, [Next]_vars
  PROVE  IInv'
<1>1. CASE SendLock
  BY <1>1, SendLockInv
<1>2. CASE Sending
  BY <1>2, SendCollectInv, TrySendInv, TriedAllInv, SelectSendInv DEF Sending
<1>3. CASE \E s \in Subs :
             Subscribe(s) \/ RemoveFromInbox(s) \/ Removing(s) \/ Receive(s)
  BY <1>3, SubscribeInv, RemoveFromInboxInv, RemoveLockedInv, RemoveBySendInv, ReceiveInv
     DEF Removing
<1>4. CASE UNCHANGED vars
  BY <1>4, StutterInv DEF vars, feedVars, IInv, TypeOK
<1> QED BY <1>1, <1>2, <1>3, <1>4 DEF Next

-----------------------------------------------------------------------------
(* The theorems. *)

\* The lists, the counters and the values received fit together in every
\* reachable state, whatever Sends, Subscribes and Unsubscribes interleave.
THEOREM Invariant == FeedAssumption => (Spec => []IInv)
<1> SUFFICES ASSUME FeedAssumption
             PROVE  Spec => []IInv
  OBVIOUS
<1>1. Init => IInv
  BY InitInv
<1>2. IInv /\ [Next]_vars => IInv'
  BY NextInv
<1> QED BY <1>1, <1>2, PTL DEF Spec

\* The type invariant; `active' and the loop index stay within the case list.
THEOREM TypeCorrect == FeedAssumption => (Spec => []TypeOK)
<1> SUFFICES ASSUME FeedAssumption
             PROVE  Spec => []TypeOK
  OBVIOUS
<1>1. IInv => TypeOK
  BY DEF IInv
<1> QED BY <1>1, Invariant, PTL

\* A running subscription has exactly one entry in the case list and the
\* inbox together, and remove always finds the channel it deletes.
THEOREM EntryUnique == FeedAssumption => (Spec => []OneEntry)
<1> SUFFICES ASSUME FeedAssumption
             PROVE  Spec => []OneEntry
  OBVIOUS
<1>1. IInv => OneEntry
  <2> SUFFICES ASSUME IInv PROVE OneEntry
    OBVIOUS
  <2>1. sendCases \in Seq(Subs) /\ inbox \in Seq(Subs)
    BY DEF IInv, TypeOK
  <2>2. Range(sendCases) = Listed(sendCases) /\ Range(inbox) = Listed(inbox)
    BY <2>1, LenProperties DEF Range, Listed
  <2>3. IsInjective(sendCases \o inbox)
    BY <2>1, ConcatListed DEF IInv, Entries
  <2> QED BY <2>2, <2>3, Zenon DEF IInv, Entries, OneEntry
<1> QED BY <1>1, Invariant, PTL

\* A subscriber has missed no Send since it subscribed, and has the current
\* one exactly when its case is no longer active.
THEOREM NoValueMissed == FeedAssumption => (Spec => []NoneMissed)
<1> SUFFICES ASSUME FeedAssumption
             PROVE  Spec => []NoneMissed
  OBVIOUS
<1>1. IInv => NoneMissed
  <2> SUFFICES ASSUME IInv PROVE NoneMissed
    OBVIOUS
  <2>1. /\ DOMAIN sendCases = 1 .. Len(sendCases)
        /\ DOMAIN inbox = 1 .. Len(inbox)
    BY LenProperties DEF IInv, TypeOK
  <2> QED BY <2>1, Zenon DEF IInv, Counts, Got, Listed, NoneMissed
<1> QED BY <1>1, Invariant, PTL

\* A channel receives the values of consecutive Sends, each once and in
\* order, from the first Send after its subscription on.
THEOREM InOrder == FeedAssumption => (Spec => []Consecutive)
<1> SUFFICES ASSUME FeedAssumption
             PROVE  Spec => []Consecutive
  OBVIOUS
<1>1. IInv => Consecutive
  <2> SUFFICES ASSUME IInv, NEW s \in Subs
               PROVE  delivered[s] = [k \in 1 .. Len(delivered[s]) |-> since[s] + k]
    BY DEF Consecutive
  <2>1. PICK q \in Seq(Nat) : q = delivered[s]
    BY DEF IInv, TypeOK
  <2>2. q \in [1 .. Len(q) -> Nat]
    BY LenProperties
  <2>3. \A k \in 1 .. Len(q) : q[k] = since[s] + k
    BY <2>1, Zenon DEF IInv, Values
  <2>4. q = [k \in 1 .. Len(q) |-> since[s] + k]
    BY <2>2, <2>3, Zenon
  <2> QED BY <2>1, <2>4, Zenon
<1> QED BY <1>1, Invariant, PTL

\* A delivery goes to a channel that is in the case list.
LEMMA DeliveredToListed ==
  ASSUME IInv, NEW i \in 1 .. active, Deliver(i), NEW s \in Subs,
         s \notin Listed(sendCases)
  PROVE  delivered'[s] = delivered[s]
<1>1. i \in 1 .. Len(sendCases)
  BY LenProperties DEF IInv, TypeOK
<1>2. sendCases[i] # s
  BY <1>1 DEF Listed
<1>3. delivered' = [delivered EXCEPT ![sendCases[i]] = Append(@, sent)]
  BY DEF Deliver
<1> QED BY <1>2, <1>3, Zenon DEF IInv, TypeOK

\* Nothing is put into a channel once its Unsubscribe has returned.
THEOREM SilentOnceOff == FeedAssumption => (Spec => SilentAfterUnsubscribe)
<1> SUFFICES ASSUME FeedAssumption
             PROVE  Spec => SilentAfterUnsubscribe
  OBVIOUS
<1>1. ASSUME IInv, [Next]_vars
      PROVE  [\A s \in Subs : sub[s] = "off" => delivered'[s] = delivered[s]]_vars
  <2> SUFFICES ASSUME NEW s \in Subs, sub[s] = "off", Next
               PROVE  delivered'[s] = delivered[s]
    BY <1>1
  <2>1. s \notin Listed(sendCases)
    BY <1>1 DEF IInv, Entries
  <2>2. CASE \E i \in 1 .. active : Deliver(i)
    BY <1>1, <2>1, <2>2, DeliveredToListed
  <2>3. CASE UNCHANGED delivered
    BY <2>3
  <2>4. \/ UNCHANGED delivered
        \/ \E i \in 1 .. active : Deliver(i)
    <3>1. CASE TrySend
      BY <1>1, <3>1 DEF TrySend, IInv, TypeOK
    <3>2. CASE SelectSend
      BY <3>2 DEF SelectSend
    <3>3. CASE SendLock \/ SendCollect \/ TriedAll
      BY <3>3 DEF SendLock, SendCollect, TriedAll
    <3>4. CASE \E t \in Subs :
                 Subscribe(t) \/ RemoveFromInbox(t) \/ Removing(t) \/ Receive(t)
      BY <3>4 DEF Subscribe, RemoveFromInbox, Removing, RemoveLocked, RemoveBySend, Receive
    <3> QED BY <3>1, <3>2, <3>3, <3>4 DEF Next, Sending
  <2> QED BY <2>2, <2>3, <2>4
<1> QED BY <1>1, Invariant, PTL DEF Spec, SilentAfterUnsubscribe

=============================================================================
