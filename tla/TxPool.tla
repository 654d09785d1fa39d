------------------------------- MODULE TxPool -------------------------------
(***************************************************************************)
(* The transaction pool of core/tx_pool.go with the lists of               *)
(* core/tx_list.go and the journal of core/tx_journal.go.                  *)
(*                                                                         *)
(* Every operation holds pool.mu from its first read to its last write, so *)
(* an operation is one action; inside it the code runs in its own order    *)
(* over a record p, the pool's fields.  What an operation leaves open, the *)
(* iteration order of Go's maps and the ties of its heaps and sorts, is    *)
(* resolved by `order', a sequence of all accounts that the action picks.  *)
(* Transactions of one account that leave a list together are taken by     *)
(* nonce where txList.Filter returns them in the order of a map; only the  *)
(* stale entries of the price heap can tell the difference.                *)
(*                                                                         *)
(* A transaction is its sender, nonce and gas price.  Cost and gas limit   *)
(* only decide whether the sender can pay for it in a given state, which   *)
(* Payable tells per head; size, value, signature and intrinsic gas are    *)
(* checked on the transaction alone, so Txs holds those that pass.         *)
(***************************************************************************)
EXTENDS Integers, Sequences, FiniteSets, SequencesExt

CONSTANTS
  Accounts,      \* senders
  Wallet,        \* the accounts this node submits for (AddLocal)
  Txs,           \* records [from, nonce, price]
  Batches,       \* the sequences of transactions peers send
  Heads,         \* blocks that can become the chain's head
  Genesis,       \* the root of their tree
  Parent,        \* the parent of every other head
  BlockTxs,      \* the sequence of transactions of a block
  Payable,       \* per head, the transactions balance and gas limit allow
  Stateless,     \* heads whose state is not available
  MaxReorg,      \* 64 in the code
  PriceBump,     \* percent a replacement must add
  Prices,        \* gas prices SetGasPrice may set
  PriceLimit,    \* the initial gas price
  AccountSlots, GlobalSlots, AccountQueue, GlobalQueue,
  MaxJournal     \* bound of the model on the journal's length

ASSUME PoolAssumption ==
  /\ Wallet \subseteq Accounts /\ IsFiniteSet(Accounts) /\ IsFiniteSet(Heads)
  /\ Txs \subseteq [from : Accounts, nonce : Nat, price : Nat]
  /\ \A b \in Batches : b \in Seq(Txs)
  /\ Genesis \in Heads \ Stateless
  /\ Parent \in [Heads \ {Genesis} -> Heads]
  /\ \A h \in Heads : BlockTxs[h] \in Seq(Txs)
  /\ Payable \in [Heads -> SUBSET Txs]
  /\ AccountSlots \in Nat \ {0} /\ GlobalSlots \in Nat /\ MaxReorg \in Nat
  /\ AccountQueue \in Nat /\ GlobalQueue \in Nat /\ MaxJournal \in Nat
  /\ PriceBump \in Nat /\ Prices \subseteq Nat /\ PriceLimit \in Nat

VARIABLES
  pool,          \* the fields of TxPool, see Fresh
  head           \* the loop's local variable head

vars == <<pool, head>>

-----------------------------------------------------------------------------
\* The elements of s that are not in S (types.TxDifference for transactions).
Minus(s, S) == FoldLeft(LAMBDA r, x : IF x \in S THEN r ELSE Append(r, x), <<>>, s)

-----------------------------------------------------------------------------
(* The chain as the pool sees it. *)

\* A head and its ancestors, the head first.
Path ==
  [h \in Heads |->
     FoldLeft(LAMBDA s, i : IF Last(s) = Genesis THEN s ELSE Append(s, Parent[Last(s)]),
              <<h>>, [i \in 1 .. Cardinality(Heads) |-> i])]

Number(h) == Len(Path[h]) - 1

\* The nonce of an account in the state of a head: what its blocks executed.
StateNonce ==
  [h \in Heads |-> [a \in Accounts |->
     FoldLeft(LAMBDA n, b : n + Cardinality({i \in DOMAIN BlockTxs[b] :
                                               BlockTxs[b][i].from = a}),
              0, Path[h])]]

\* The transactions of the blocks of head h that are not blocks of head g.
Left(h, g) ==
  FoldLeft(LAMBDA s, b : IF b \in ToSet(Path[g]) THEN s ELSE s \o BlockTxs[b],
           <<>>, Path[h])

-----------------------------------------------------------------------------
(* Lists of one account, ordered by nonce.  A set of transactions stands   *)
(* for the lists of all accounts.                                          *)

Of(S, a) == {t \in S : t.from = a}
At(S, tx) == {t \in S : t.from = tx.from /\ t.nonce = tx.nonce}
Above(S, tx) == {t \in S : t.from = tx.from /\ t.nonce > tx.nonce}

\* The elements of S in an order that is total on S, each at its rank.
Sorted(S, Before(_, _)) ==
  [i \in 1 .. Cardinality(S) |->
     CHOOSE x \in S : Cardinality({y \in S : Before(y, x)}) = i - 1]

Rising(S) == Sorted(S, LAMBDA s, t : s.nonce < t.nonce)
Falling(S) == Sorted(S, LAMBDA s, t : s.nonce > t.nonce)

\* The position of an account in a sequence of accounts, 0 if it is not there.
Position(s, a) == SelectInSeq(s, LAMBDA b : b = a)

\* txList.Add refuses a transaction that does not outbid the one it replaces.
Outbids(tx, old) ==
  /\ tx.price > old.price
  /\ tx.price >= (old.price * (100 + PriceBump)) \div 100

Accepts(S, tx) == \A old \in At(S, tx) : Outbids(tx, old)

\* txSortedMap.Ready: the run of consecutive nonces at the front of L, unless
\* it starts beyond `start'.
Ready(L, start) ==
  {t \in L : /\ \E u \in L : u.nonce <= start
             /\ \A u \in L : \A n \in u.nonce .. t.nonce :
                  \E v \in L : v.nonce = n}

\* txSortedMap.Cap: what exceeds the limit, the highest nonces.
Exceeding(L, limit) ==
  {t \in L : Cardinality({u \in L : u.nonce <= t.nonce}) > limit}

-----------------------------------------------------------------------------
(* The price heap, txPricedList.  It keeps entries of transactions that    *)
(* have left the pool (they are stale) and counts them in `stales'; a      *)
(* transaction that comes back before its old entry is gone has two, which *)
(* is why entries are numbered: <<transaction, number>>.                   *)

\* priceHeap.Less: cheap first, a high nonce first; order settles the rest.
Cheaper(s, t, order) ==
  \/ s.price < t.price
  \/ s.price = t.price /\ s.nonce > t.nonce
  \/ s.price = t.price /\ s.nonce = t.nonce
     /\ Position(order, s.from) < Position(order, t.from)

\* The entries of the heap in the order they would be popped.
Popped(heap, order) ==
  Sorted(heap, LAMBDA d, e : \/ Cheaper(d[1], e[1], order)
                             \/ d[1] = e[1] /\ d[2] > e[2])

EntriesOf(heap, tx) == {e \in heap : e[1] = tx}

Put(p, tx) ==
  [p EXCEPT !.all = @ \cup {tx},
            !.priced = @ \cup {<<tx, 1 + Cardinality(EntriesOf(@, tx))>>}]

\* Mutation: the counter is reset and the heap is not rebuilt.
RemovedNoReheap(p) ==
  IF p.stales + 1 <= Cardinality(p.priced) \div 4
  THEN [p EXCEPT !.stales = @ + 1] ELSE [p EXCEPT !.stales = 0]

\* txPricedList.Removed: count a stale entry; rebuild the heap from the pool
\* when more than a quarter of it is stale.
Removed(p) ==
  IF p.stales + 1 <= Cardinality(p.priced) \div 4
  THEN [p EXCEPT !.stales = @ + 1]
  ELSE [p EXCEPT !.stales = 0, !.priced = p.all \X {1}]

\* all.Remove and priced.Removed, for one transaction and for several.
Drop(p, tx) == Removed([p EXCEPT !.all = @ \ {tx}])
DropSeq(p, s) == FoldLeft(Drop, p, s)

\* One of the pops of Cap and Discard, entry e: a stale entry is discarded, a live
\* one of a local account is pushed back and another taken out, until c.count of
\* them are out or a transaction of c.enough turns up.
CullStep(c, s, e) ==
  LET t == e[1] IN
    IF s.stop \/ Len(s.drop) = c.count \/ t \in c.enough THEN [s EXCEPT !.stop = TRUE]
    ELSE IF t \notin c.pool.all
    THEN [s EXCEPT !.p.priced = @ \ {e}, !.p.stales = @ - 1]
    ELSE IF t.from \in c.pool.locals THEN s
    ELSE [s EXCEPT !.p.priced = @ \ {e}, !.drop = Append(@, t)]

Cull(p, order, count, enough) ==
  LET c == [pool |-> p, count |-> count, enough |-> enough]
  IN  FoldLeft(LAMBDA s, e : CullStep(c, s, e),
               [p |-> p, drop |-> <<>>, stop |-> FALSE], Popped(p.priced, order))

\* Underpriced, for a sender that is not local: stale entries at the front of
\* the heap are popped, then its first entry is compared.
Underpriced(p, tx) ==
  LET live == {e[1] : e \in p.priced} \cap p.all
  IN  live # {} /\ \A t \in live : t.price >= tx.price

PopStale(p, order) == Cull(p, order, 1, p.all).p

-----------------------------------------------------------------------------
(* Moving transactions between the lists. *)

\* delete(pool.beats, addr) when no pending transaction is left.
Settle(p, a) ==
  IF Of(p.pending, a) = {} THEN [p EXCEPT !.beats = Minus(@, {a})] ELSE p

LowerNonce(p, tx) ==
  IF p.nonce[tx.from] > tx.nonce
  THEN [p EXCEPT !.nonce[tx.from] = tx.nonce] ELSE p

\* enqueueTx; a transaction that is refused changes nothing here.
EnqueueTx(p, tx) ==
  IF ~ Accepts(p.queue, tx) THEN p
  ELSE LET q == DropSeq([p EXCEPT !.queue = (@ \ At(@, tx)) \cup {tx}],
                        Rising(At(p.queue, tx)))
       IN  IF tx \in q.all THEN q ELSE Put(q, tx)

EnqueueSeq(p, s) == FoldLeft(EnqueueTx, p, s)

\* Mutation: the transactions behind a removed one are not queued again.
RemoveTxLeak(p, tx, outofbound) ==
  LET gone == IF outofbound THEN Drop(p, tx) ELSE [p EXCEPT !.all = @ \ {tx}]
  IN  IF tx \notin p.all THEN p
      ELSE IF At(p.pending, tx) # {}
      THEN LowerNonce(Settle([gone EXCEPT
             !.pending = @ \ (At(@, tx) \cup Above(@, tx))], tx.from), tx)
      ELSE [gone EXCEPT !.queue = @ \ At(@, tx)]

\* removeTx.  pending.Remove looks the nonce up, not the transaction.
RemoveTx(p, tx, outofbound) ==
  LET gone == IF outofbound THEN Drop(p, tx) ELSE [p EXCEPT !.all = @ \ {tx}]
      invalids == Above(p.pending, tx)
      demoted == EnqueueSeq(
        Settle([gone EXCEPT !.pending = @ \ (At(@, tx) \cup invalids)], tx.from),
        Rising(invalids))
  IN  IF tx \notin p.all THEN p
      ELSE IF At(p.pending, tx) # {} THEN LowerNonce(demoted, tx)
      ELSE [gone EXCEPT !.queue = @ \ At(@, tx)]

RemoveSeq(p, s, outofbound) ==
  FoldLeft(LAMBDA q, t : RemoveTx(q, t, outofbound), p, s)

\* promoteTx, for a transaction that Ready has taken out of the queue.
PromoteTx(p, tx) ==
  IF ~ Accepts(p.pending, tx) THEN Drop(p, tx)
  ELSE LET q == DropSeq([p EXCEPT !.pending = (@ \ At(@, tx)) \cup {tx}],
                        Rising(At(p.pending, tx)))
           r == IF tx \in q.all THEN q ELSE Put(q, tx)
       IN  [r EXCEPT !.beats = Append(Minus(@, {tx.from}), tx.from),
                     !.nonce[tx.from] = tx.nonce + 1]

\* Transactions taken out of the queue, or of the pending lists, and dropped.
DropQueued(p, S) == DropSeq([p EXCEPT !.queue = @ \ S], Rising(S))
DropPending(p, S) == DropSeq([p EXCEPT !.pending = @ \ S], Rising(S))

\* Transactions the state of the base has passed, or does not allow.
Old(p, S) == {t \in S : t.nonce < StateNonce[p.base][t.from]}
Unpayable(p, S) == S \ Payable[p.base]

\* What Ready takes out of the queue is promoted.
PromoteReady(p, a) ==
  LET ready == Ready(Of(p.queue, a), p.nonce[a])
  IN  FoldLeft(PromoteTx, [p EXCEPT !.queue = @ \ ready], Rising(ready))

\* Only local accounts may exceed the limit of the queue.
CapQueued(p, a) ==
  LET over == Exceeding(Of(p.queue, a), AccountQueue)
  IN  IF a \in p.locals THEN p
      ELSE DropSeq([p EXCEPT !.queue = @ \ over], Falling(over))

\* The body of promoteExecutables' loop over accounts: too old, unpayable,
\* executable, over the account's limit.
ForwardQueued(p, a) == DropQueued(p, Old(p, Of(p.queue, a)))
FilterQueued(p, a) == DropQueued(p, Unpayable(p, Of(p.queue, a)))
PromoteAccount(p, a) ==
  CapQueued(PromoteReady(FilterQueued(ForwardQueued(p, a), a), a), a)

-----------------------------------------------------------------------------
(* The pool's limits, at the end of promoteExecutables. *)

Size(S, a) == Cardinality(Of(S, a))

\* The account with more transactions, or else the first of order.
Larger(S, a, b, order) ==
  \/ Size(S, a) > Size(S, b)
  \/ Size(S, a) = Size(S, b) /\ Position(order, a) < Position(order, b)

\* list.Cap(list.Len() - 1) of an offender's pending list.
Trim(p, a) ==
  LET top == Exceeding(Of(p.pending, a), Size(p.pending, a) - 1)
  IN  FoldLeft(LAMBDA q, t : LowerNonce(Drop(q, t), t),
               [p EXCEPT !.pending = @ \ top], Falling(top))

\* Mutation: local accounts are spammers like the others.
SpammersAll(p, order) ==
  Sorted({a \in Accounts : Size(p.pending, a) > AccountSlots},
         LAMBDA a, b : Larger(p.pending, a, b, order))

\* Accounts over their slots, the largest first.
Spammers(p, order) ==
  Sorted({a \in Accounts \ p.locals : Size(p.pending, a) > AccountSlots},
         LAMBDA a, b : Larger(p.pending, a, b, order))

\* Mutation: offenders are only cut down to each other, not to their slots.
EqualizeRoundOnly(s, round) ==
  LET n == Len(s.off)
      larger == /\ n > 1
                /\ Size(s.p.pending, s.off[n - 1]) > Size(s.p.pending, s.off[n])
  IN  IF Cardinality(s.p.pending) <= GlobalSlots THEN s
      ELSE IF larger
      THEN [s EXCEPT !.p = FoldLeft(Trim, @, SubSeq(s.off, 1, n - 1))]
      ELSE IF s.spam # <<>>
      THEN [s EXCEPT !.off = Append(@, Head(s.spam)), !.spam = Tail(@)]
      ELSE s

\* One round of the two loops: cut the earlier offenders down to the last
\* one, else take the next spammer, else cut all of them to their slots.
EqualizeRound(s, round) ==
  LET n == Len(s.off)
      larger == /\ n > 1
                /\ Size(s.p.pending, s.off[n - 1]) > Size(s.p.pending, s.off[n])
  IN  IF Cardinality(s.p.pending) <= GlobalSlots THEN s
      ELSE IF larger
      THEN [s EXCEPT !.p = FoldLeft(Trim, @, SubSeq(s.off, 1, n - 1))]
      ELSE IF s.spam # <<>>
      THEN [s EXCEPT !.off = Append(@, Head(s.spam)), !.spam = Tail(@)]
      ELSE IF n > 0 /\ Size(s.p.pending, s.off[n]) > AccountSlots
      THEN [s EXCEPT !.p = FoldLeft(Trim, @, s.off)]
      ELSE s

\* Every round takes a transaction or a spammer, which bounds their number.
Equalize(p, order) ==
  FoldLeft(EqualizeRound, [p |-> p, off |-> <<>>, spam |-> Spammers(p, order)],
           [i \in 1 .. Cardinality(p.pending) + Len(order) |-> i]).p

\* The more recent heartbeat, or else the first of order; an account without a
\* heartbeat has the zero time.
Fresher(p, a, b, order) ==
  \/ Position(p.beats, a) > Position(p.beats, b)
  \/ Position(p.beats, a) = Position(p.beats, b) /\ Position(order, a) < Position(order, b)

\* s.drop transactions are still to be dropped when it is the turn of a.
LimitStep(s, a) ==
  LET list == Of(s.p.queue, a)
      size == Cardinality(list)
  IN  IF size <= s.drop
      THEN [p |-> RemoveSeq(s.p, Rising(list), TRUE), drop |-> s.drop - size]
      ELSE [p |-> RemoveSeq(s.p, Falling(Exceeding(list, size - s.drop)), TRUE),
            drop |-> 0]

\* The queue over its limit loses transactions of the accounts with the most
\* recent heartbeat first.
LimitQueue(p, order) ==
  LET queued == {a \in Accounts \ p.locals : Of(p.queue, a) # {}}
      addresses == Sorted(queued, LAMBDA a, b : Fresher(p, a, b, order))
  IN  IF Cardinality(p.queue) <= GlobalQueue THEN p
      ELSE FoldLeft(LimitStep,
                    [p |-> p, drop |-> Cardinality(p.queue) - GlobalQueue],
                    addresses).p

PromoteExecutables(p, accounts, order) ==
  LimitQueue(
    Equalize(
      FoldLeft(LAMBDA q, a : IF a \in accounts THEN PromoteAccount(q, a) ELSE q,
               p, order),
      order),
    order)

-----------------------------------------------------------------------------
(* Adding transactions. *)

ValidateTx(p, tx, local) ==
  /\ tx \in Payable[p.base]
  /\ local \/ tx.from \in p.locals \/ tx.price >= p.gasPrice
  /\ ~ (tx.nonce < StateNonce[p.base][tx.from])

\* journalTx; inserting fails when a failed rotation has left the journal
\* without a writer.  History: due remembers what the journal was given.
JournalTx(p, tx) ==
  IF tx.from \notin p.locals \/ ~ p.writer THEN p
  ELSE [p EXCEPT !.journal = Append(@, tx), !.due = @ \cup {tx}]

\* The room a new transaction needs in a full pool.
MakeRoom(p, tx, order) ==
  LET excess == Cardinality(p.all) - (GlobalSlots + GlobalQueue - 1)
      culled == Cull(p, order, excess, {})
  IN  IF excess <= 0 THEN p ELSE RemoveSeq(culled.p, culled.drop, FALSE)

\* The tail of add, once there is room: replace a pending transaction in
\* place, or queue the new one and mark its sender.
Insert(s, tx, local) ==
  LET p == s.p
      replaced == DropSeq([p EXCEPT !.pending = (@ \ At(@, tx)) \cup {tx}],
                          Rising(At(p.pending, tx)))
      queued == [EnqueueTx(p, tx) EXCEPT
                   !.locals = IF local THEN @ \cup {tx.from} ELSE @]
  IN  IF At(p.pending, tx) # {}
      THEN IF Accepts(p.pending, tx)
           THEN [s EXCEPT !.p = JournalTx(Put(replaced, tx), tx)] ELSE s
      ELSE IF ~ Accepts(p.queue, tx) THEN s
      ELSE [p |-> JournalTx(queued, tx),
            dirty |-> IF At(p.queue, tx) = {} THEN s.dirty \cup {tx.from}
                      ELSE s.dirty]

\* add on s.p; s.dirty gathers the senders that need a promotion.
Add(s, tx, local, order) ==
  LET p == s.p
      full == Cardinality(p.all) >= GlobalSlots + GlobalQueue
      priced == full /\ ~ local /\ tx.from \notin p.locals
      q == IF priced THEN PopStale(p, order) ELSE p
  IN  IF tx \in p.all \/ ~ ValidateTx(p, tx, local) THEN s
      ELSE IF priced /\ Underpriced(p, tx) THEN [s EXCEPT !.p = q]
      ELSE Insert([s EXCEPT !.p = MakeRoom(q, tx, order)], tx, local)

\* The promotion at the end of addTx and addTxsLocked.
PromoteDirty(s, order) ==
  IF s.dirty = {} THEN s.p ELSE PromoteExecutables(s.p, s.dirty, order)

\* addTxsLocked; for one transaction it does what addTx does.
AddTxs(p, txs, local, order) ==
  PromoteDirty(FoldLeft(LAMBDA r, tx : Add(r, tx, local, order),
                        [p |-> p, dirty |-> {}], txs), order)

-----------------------------------------------------------------------------
(* Following the chain. *)

\* The transactions the sender cannot pay for are dropped, those behind them
\* are queued again.
FilterPending(p, a) ==
  LET drops == Unpayable(p, Of(p.pending, a))
      invalids == (UNION {Above(p.pending, t) : t \in drops}) \ drops
  IN  EnqueueSeq([DropPending(p, drops) EXCEPT !.pending = @ \ invalids],
                 Rising(invalids))

\* With a gap in front the whole list is queued again.
PostponeGapped(p, a) ==
  LET list == Of(p.pending, a)
  IN  IF \E t \in list : t.nonce = StateNonce[p.base][a] THEN p
      ELSE EnqueueSeq([p EXCEPT !.pending = @ \ list], Falling(list))

\* The body of demoteUnexecutables' loop: too old, unpayable with what follows
\* it, a gap in front.
ForwardPending(p, a) == DropPending(p, Old(p, Of(p.pending, a)))
DemoteAccount(p, a) ==
  Settle(PostponeGapped(FilterPending(ForwardPending(p, a), a), a), a)

DemoteUnexecutables(p, order) == FoldLeft(DemoteAccount, p, order)

\* Mutation: the pending nonces are left at the new state's.
SetNoncesSkipped(p) == p

\* pendingState.SetNonce of every account with pending transactions.
SetNonces(p) ==
  [p EXCEPT !.nonce = [a \in Accounts |->
     IF Of(p.pending, a) = {} THEN @[a]
     ELSE 1 + Max({t.nonce : t \in Of(p.pending, a)})]]

\* The transactions only the old branch holds, unless the branches are too far
\* apart or the new head is the old one's child.
Reinject(old, new) ==
  LET gap == Number(old) - Number(new)
      child == new # Genesis /\ Parent[new] = old
  IN  IF child \/ gap > MaxReorg \/ -gap > MaxReorg
      THEN <<>>
      ELSE Minus(Left(old, new), ToSet(Left(new, old)))

\* History: merged tells that transactions of another branch came back.
Rebased(p, new, reinject) ==
  [p EXCEPT !.base = new, !.nonce = StateNonce[new],
            !.merged = @ \/ reinject # <<>>]

\* reset after reinject is known; without a state nothing happens.
ResetPool(p, reinject, new, order) ==
  IF new \in Stateless THEN p
  ELSE PromoteExecutables(
         SetNonces(DemoteUnexecutables(
           AddTxs(Rebased(p, new, reinject), reinject, FALSE, order), order)),
         Accounts, order)

\* Mutation: the rotated journal leaves out queued transactions.
LocalTxsPending(p, order) ==
  FoldLeft(LAMBDA s, a : IF a \in p.locals THEN s \o Rising(Of(p.pending, a)) ELSE s,
           <<>>, order)

\* local(): what rotate writes, account by account, pending before queued.
LocalTxs(p, order) ==
  FoldLeft(LAMBDA s, a :
             IF a \in p.locals
             THEN s \o Rising(Of(p.pending, a)) \o Rising(Of(p.queue, a)) ELSE s,
           <<>>, order)

\* How a rotation ends: done, or without a writer because the new file was not
\* written or put in place ("old"), or could not be opened again ("new").
Rotations == {"done", "old", "new"}

\* journal.rotate.  A new file is due the pooled transactions of local accounts.
RotateJournal(p, order, end) ==
  [p EXCEPT !.journal = IF end = "old" THEN @ ELSE LocalTxs(p, order),
            !.due = IF end = "old" THEN @ ELSE {t \in p.all : t.from \in p.locals},
            !.writer = end = "done"]

\* NewTxPool's fields before reset, on the state of head h.
Fresh(h) ==
  [all |-> {}, pending |-> {}, queue |-> {}, beats |-> <<>>, locals |-> {},
   priced |-> {}, stales |-> 0, gasPrice |-> PriceLimit, base |-> h,
   nonce |-> StateNonce[h],
   journal |-> <<>>, writer |-> FALSE, due |-> {}, merged |-> FALSE]

\* The journal is loaded with its writer set aside, then rotated.
NewTxPool(h, journal, order, end) ==
  LET loaded == AddTxs(ResetPool(Fresh(h), <<>>, h, order), journal, TRUE, order)
  IN  RotateJournal([loaded EXCEPT !.journal = journal, !.due = ToSet(journal)],
                    order, end)

-----------------------------------------------------------------------------
(* Operations. *)

Orders == SetToSeqs(Accounts)

Init ==
  /\ pool = [Fresh(Genesis) EXCEPT !.writer = TRUE]
  /\ head = Genesis

\* The bound of the model: only a transaction of Wallet is ever journalled.
Room(txs) ==
  Len(pool.journal) + Len(SelectSeq(txs, LAMBDA t : t.from \in Wallet)) <= MaxJournal

\* AddLocal and AddLocals, from the node's own accounts.
AddLocal(tx) ==
  /\ tx.from \in Wallet
  /\ Room(<<tx>>)
  /\ \E order \in Orders : pool' = AddTxs(pool, <<tx>>, TRUE, order)
  /\ UNCHANGED head

\* AddRemote and AddRemotes.
AddRemotes(txs) ==
  /\ Room(txs)
  /\ \E order \in Orders : pool' = AddTxs(pool, txs, FALSE, order)
  /\ UNCHANGED head

\* A ChainHeadEvent in the loop.
Reset(new) ==
  /\ Room(Reinject(head, new))
  /\ \E order \in Orders : pool' = ResetPool(pool, Reinject(head, new), new, order)
  /\ head' = new

EvictAccount(p, a) == RemoveSeq(p, Rising(Of(p.queue, a)), TRUE)

\* The eviction ticker: queued transactions of accounts whose heartbeat is
\* older than Lifetime; any number of the oldest heartbeats is.
Evict ==
  /\ \E order \in Orders, k \in 0 .. Len(pool.beats) :
       LET idle == Accounts \ (pool.locals
                     \cup ToSet(SubSeq(pool.beats, k + 1, Len(pool.beats))))
       IN  pool' = FoldLeft(LAMBDA p, a : IF a \in idle THEN EvictAccount(p, a) ELSE p,
                            pool, order)
  /\ UNCHANGED head

SetGasPrice(price) ==
  /\ \E order \in Orders :
       LET culled == Cull(pool, order, Cardinality(pool.all) + 1,
                          {t \in pool.all : t.price >= price})
       IN  pool' = RemoveSeq([culled.p EXCEPT !.gasPrice = price],
                             culled.drop, FALSE)
  /\ UNCHANGED head

\* The rejournal ticker.
Rotate(end) ==
  /\ \E order \in Orders : pool' = RotateJournal(pool, order, end)
  /\ UNCHANGED head

\* The node stops, or dies, and starts again: NewTxPool reads the chain's head
\* for its state, the loop reads it again when it starts.
Restart(h, end) ==
  /\ h \in Heads \ Stateless
  /\ \E order \in Orders : pool' = NewTxPool(h, pool.journal, order, end)
  /\ head' \in Heads

Next ==
  \/ \E tx \in Txs : AddLocal(tx)
  \/ \E txs \in Batches : AddRemotes(txs)
  \/ \E h \in Heads \ {Genesis} : Reset(h)
  \/ Evict
  \/ \E price \in Prices : SetGasPrice(price)
  \/ \E end \in Rotations : Rotate(end)
  \/ \E h \in Heads, end \in Rotations : Restart(h, end)

Spec == Init /\ [][Next]_vars

-----------------------------------------------------------------------------
(* Properties. *)

\* The lookup and the two lists agree, and an account has one transaction per
\* nonce: removeTx takes out of the pending list whatever has the nonce, and
\* enqueueTx silently forgets a transaction whose nonce is taken.
AllIndexed ==
  /\ pool.all = pool.pending \cup pool.queue
  /\ pool.pending \cap pool.queue = {}
  /\ \A s, t \in pool.all : s.from = t.from /\ s.nonce = t.nonce => s = t

\* Unless a reorganisation has brought transactions back, the pending ones of an
\* account run without a gap from its nonce in the chain to the pending state's,
\* and the next one is not left behind in the queue.  All are payable.
PendingExecutable ==
  \A a \in Accounts :
    /\ Of(pool.pending, a) \subseteq Payable[pool.base]
    /\ \A t \in Of(pool.pending, a) : t.nonce >= StateNonce[pool.base][a]
    /\ ~ pool.merged =>
         /\ {t.nonce : t \in Of(pool.pending, a)}
              = StateNonce[pool.base][a] .. pool.nonce[a] - 1
         /\ \A t \in Of(pool.queue, a) : t.nonce # pool.nonce[a]

\* The price heap has an entry for every pooled transaction, and its count of
\* stale entries is never below their number, or it would not be rebuilt.
HeapCovers ==
  /\ \A t \in pool.all : EntriesOf(pool.priced, t) # {}
  /\ Cardinality({e \in pool.priced : e[1] \notin pool.all}) <= pool.stales

\* When more transactions are pending than the pool has slots for, every
\* account that is not local is down to its own slots.
FairSlots ==
  Cardinality(pool.pending) > GlobalSlots =>
    \A a \in Accounts \ pool.locals : Size(pool.pending, a) <= AccountSlots

\* While the state the pool works on stays, no limit, price or timer takes a
\* transaction of a local account out of the pool: it stays or is outbid.
LocalsStay ==
  [][\/ head' # head \/ pool'.base # pool.base
     \/ \A t \in pool.all : t.from \in pool.locals =>
          \E u \in At(pool'.all, t) : u = t \/ Outbids(u, t)
     \/ \E h \in Heads, end \in Rotations : Restart(h, end)]_vars

\* A restart at this point, on any head, would keep every pooled transaction the
\* journal was given, if the head's state still allows it: a failed rotation
\* leaves the old file whole, a new one leaves nothing out, and all of it loads
\* back past the limits.  The journal also keeps transactions that have left the
\* pool, so an earlier one may come back on the nonce instead; then the
\* transaction is not dear enough to replace it.
RestartKeepsLocals ==
  \A h \in Heads \ Stateless, order \in Orders :
    LET restarted == NewTxPool(h, pool.journal, order, "done")
    IN  \A t \in pool.all \cap pool.due :
          t \in Payable[h] /\ t.nonce >= StateNonce[h][t.from] =>
            \E u \in At(restarted.all, t) : u = t \/ ~ Outbids(t, u)
=============================================================================
