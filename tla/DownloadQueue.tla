---------------------------- MODULE DownloadQueue ----------------------------
(***************************************************************************)
(* The download scheduler of eth/downloader/queue.go, as operators over a  *)
(* record q of its fields.  Every method of the queue holds q.lock, so the *)
(* Downloader module uses each as one atomic step.                         *)
(*                                                                         *)
(* All headers are of one chain, and a header, its hash, its body and its  *)
(* receipts are its number.  A skeleton task is the number of the first    *)
(* header of its batch.  The priority queues of tasks are sets: the lowest *)
(* number is always popped first.  A request is the sequence of its        *)
(* numbers, <<>> when the peer has none.                                   *)
(*                                                                         *)
(*   mode     full or fast       headed   number of the last scheduled one *)
(*   tasks    per kind, the task queue                                     *)
(*   pend     per kind and peer, the pending request                       *)
(*   done     per part, the done pool                                      *)
(*   cache    result cache: number -> parts still missing (Pending)        *)
(*   offset   number of the first cache slot                               *)
(*   limit    slots the memory limit allows at the present block size      *)
(*   from, size, unfilled, proced, miss   the skeleton being filled        *)
(***************************************************************************)
EXTENDS Integers, Sequences, FiniteSets, SequencesExt

CONSTANTS
  Height,            \* number of the last block of the chain
  Peers,           \* peer ids
  NoBody,          \* blocks without transactions and uncles
  NoReceipts,      \* blocks without receipts
  CacheSize,       \* blockCacheItems
  Limits,          \* possible values of limit, depending on block sizes
  MaxHeaderFetch,  \* headers per batch
  MaxResults       \* maxResultsProcess

ASSUME QueueAssumption ==
  /\ Height \in Nat /\ CacheSize \in Nat \ {0}
  /\ Limits \subseteq 1 .. CacheSize /\ Limits # {}
  /\ NoBody \subseteq 1 .. Height /\ NoReceipts \subseteq 1 .. Height
  /\ MaxHeaderFetch \in Nat \ {0} /\ MaxResults \in Nat \ {0}

Parts == {"body", "receipt"}
Kinds == Parts \cup {"header"}

\* The parts a block is assembled from.
PartsOf(mode) == IF mode = "fast" THEN Parts ELSE {"body"}

\* Blocks whose part needs no retrieval.
Noop(k) == IF k = "body" THEN NoBody ELSE NoReceipts

Lowest(S) == CHOOSE n \in S : \A m \in S : n <= m

-----------------------------------------------------------------------------
\* Reset followed by Prepare.
FreshQueue(mode, offset, limit) ==
  [ mode |-> mode, headed |-> offset - 1,
    tasks |-> [k \in Kinds |-> {}],
    pend |-> [k \in Kinds |-> [p \in Peers |-> <<>>]],
    done |-> [k \in Parts |-> {}],
    cache |-> <<>>, offset |-> offset, limit |-> limit,
    from |-> 0, size |-> 0, unfilled |-> {}, proced |-> 0,
    miss |-> [p \in Peers |-> {}] ]

InFlight(q, k) == \E p \in Peers : q.pend[k][p] # <<>>

\* Slots of the cache that may still be asked for.
ResultSlots(q, k) ==
  LET window == q.offset .. q.offset + q.limit - 1
      filled == {n \in window : q.offset .. n \subseteq DOMAIN q.cache}
      asked  == UNION {ToSet(q.pend[k][p]) : p \in Peers}
  IN  q.limit - Cardinality(filled \cap q.done[k])
              - Cardinality({n \in asked : n < q.offset + q.limit})

ShouldThrottle(q, k) == k # "header" /\ ResultSlots(q, k) <= 0

\* The next count headers are queued for every part of the mode.
Schedule(q, count) ==
  LET new == q.headed + 1 .. q.headed + count
  IN  [q EXCEPT !.headed = @ + count,
                !.tasks = [k \in Kinds |->
                             IF k \in PartsOf(q.mode) THEN @[k] \cup new ELSE @[k]]]

\* The finished blocks at the front of the cache.
CountProcessable(q) ==
  Cardinality({n \in DOMAIN q.cache :
                 \A m \in q.offset .. n : m \in DOMAIN q.cache /\ q.cache[m] = 0})

\* The first count blocks leave the cache; the memory limit follows their size.
TakeResults(q, count, limit) ==
  LET taken == q.offset .. q.offset + count - 1
  IN  [q EXCEPT !.done = [k \in Parts |-> @[k] \ taken],
                !.cache = [n \in DOMAIN @ \ taken |-> @[n]],
                !.offset = @ + count,
                !.limit = limit]

-----------------------------------------------------------------------------
(* Reservations. *)

\* One task of reserveHeaders: r.q the queue, r.send and r.skip what was
\* popped so far, r.space and r.proc the loop counters.
ReserveStep(r, k, lacking) ==
  LET n == Lowest(r.q.tasks[k])
      popped == [r.q EXCEPT !.tasks[k] = @ \ {n}]
      slot == IF n \in DOMAIN r.q.cache THEN r.q.cache[n]
              ELSE Cardinality(PartsOf(r.q.mode))
      opened == [popped EXCEPT !.cache = [m \in DOMAIN @ \cup {n} |->
                                            IF m = n THEN slot ELSE @[m]]]
      skipped == [opened EXCEPT !.cache[n] = slot - 1, !.done[k] = @ \cup {n}]
  IN  IF n \notin r.q.offset .. r.q.offset + CacheSize - 1
        THEN [r EXCEPT !.q = popped, !.invalid = TRUE]
      ELSE IF n \in Noop(k)
        THEN [r EXCEPT !.q = skipped, !.space = @ - 1, !.progress = TRUE]
      ELSE IF n \in lacking
        THEN [r EXCEPT !.q = opened, !.skip = @ \cup {n}, !.proc = @ + 1]
      ELSE [r EXCEPT !.q = opened, !.send = Append(@, n), !.proc = @ + 1]

\* The loop of reserveHeaders: a turn pops a task while there is space for it,
\* and there are at most as many turns as queued tasks.
ReserveStart(q, k) ==
  [ q |-> q, send |-> <<>>, skip |-> {}, proc |-> 0, invalid |-> FALSE,
    space |-> ResultSlots(q, k), progress |-> FALSE ]

ReserveTurn(r, k, count, lacking) ==
  IF /\ r.proc < r.space /\ Len(r.send) < count
     /\ r.q.tasks[k] # {} /\ ~r.invalid
    THEN ReserveStep(r, k, lacking) ELSE r

ReserveLoop(q, k, count, lacking) ==
  LET turns == Cardinality(q.tasks[k])
      loop[i \in 0 .. turns] ==
        IF i = 0 THEN ReserveStart(q, k)
        ELSE ReserveTurn(loop[i - 1], k, count, lacking)
  IN  loop[turns]

\* The outcome of ReserveBodies and ReserveReceipts for peer p.
ReserveParts(q, k, p, count, lacking) ==
  LET nothing == [q |-> q, send |-> <<>>, progress |-> FALSE, invalid |-> FALSE]
      r == ReserveLoop(q, k, count, lacking)
      merged == [r.q EXCEPT !.tasks[k] = @ \cup r.skip, !.pend[k][p] = r.send]
  IN  IF q.tasks[k] = {} \/ q.pend[k][p] # <<>> THEN nothing
      ELSE [ q |-> IF r.invalid THEN r.q ELSE merged,
             send |-> r.send, progress |-> r.progress, invalid |-> r.invalid ]

\* The outcome of ReserveHeaders: the lowest batch p has not failed.
ReserveBatch(q, p) ==
  LET open == q.tasks["header"] \ q.miss[p]
      send == IF open = {} \/ q.pend["header"][p] # <<>> THEN <<>>
              ELSE <<Lowest(open)>>
  IN  [ q |-> IF send = <<>> THEN q
              ELSE [q EXCEPT !.tasks["header"] = @ \ ToSet(send),
                             !.pend["header"][p] = send],
        send |-> send, progress |-> FALSE, invalid |-> FALSE ]

Reserve(q, k, p, count, lacking) ==
  IF k = "header" THEN ReserveBatch(q, p) ELSE ReserveParts(q, k, p, count, lacking)

\* Mutant: only the first item of an expired request is queued again.
RequeueFirst(q, k, P) ==
  [q EXCEPT !.tasks[k] = @ \cup {Head(q.pend[k][p]) : p \in {r \in P : q.pend[k][r] # <<>>}},
            !.pend[k] = [p \in Peers |-> IF p \in P THEN <<>> ELSE @[p]]]

\* cancel and expire: the requests of the peers of P return to the task queue.
Requeue(q, k, P) ==
  [q EXCEPT !.tasks[k] = @ \cup UNION {ToSet(q.pend[k][p]) : p \in P},
            !.pend[k] = [p \in Peers |-> IF p \in P THEN <<>> ELSE @[p]]]

\* Revoke for every peer of P: both content requests, not the header request.
Revoke(q, P) == Requeue(Requeue(q, "body", P), "receipt", P)

-----------------------------------------------------------------------------
(* Deliveries. *)

\* deliver: an answer is the sequence of the blocks its items belong to, 0 for
\* an item that belongs to none.  The items are matched against the pending
\* request, whatever question the peer meant to answer.
DeliverParts(q, k, p, answer) ==
  LET request == q.pend[k][p]
      outside == {i \in DOMAIN request : request[i] \notin DOMAIN q.cache}
      matched == {i \in DOMAIN request : i <= Len(answer) /\ \A j \in 1 .. i :
                    answer[j] = request[j] /\ j \notin outside}
      good == {request[i] : i \in matched}
      next == Cardinality(matched) + 1
      failed == next <= Len(request) /\ next <= Len(answer)
  IN  [ q |-> [q EXCEPT !.pend[k][p] = <<>>,
                        !.tasks[k] = @ \cup (ToSet(request) \ good),
                        !.done[k] = @ \cup good,
                        !.cache = [n \in DOMAIN @ |-> IF n \in good THEN @[n] - 1 ELSE @[n]]],
        lacks |-> IF answer = <<>> THEN ToSet(request) ELSE {},
        err |-> IF request = <<>> THEN "noFetchesPending"
                ELSE IF ~failed THEN "none"
                ELSE IF next \in outside THEN "invalidChain"
                ELSE IF good # {} THEN "partial"
                ELSE "stale" ]

\* ScheduleSkeleton: count batches from number `from' on.
ScheduleSkeleton(q, from, count) ==
  LET starts == {from + i * MaxHeaderFetch : i \in 0 .. count - 1}
  IN  [q EXCEPT !.from = from, !.size = count * MaxHeaderFetch,
                !.unfilled = starts, !.proced = 0,
                !.tasks["header"] = starts, !.miss = [p \in Peers |-> {}]]

\* DeliverHeaders: the batch fits the skeleton or the peer is marked.  Ready
\* headers are handed on when the channel to the processor has room.
DeliverBatch(q, p, fits, room) ==
  LET request == q.pend["header"][p]
      from == request[1]
      unasked == [q EXCEPT !.pend["header"][p] = <<>>]
      refused == [unasked EXCEPT !.miss[p] = @ \cup {from},
                                 !.tasks["header"] = @ \cup {from}]
      unfilled == q.unfilled \ {from}
      ready == (IF unfilled = {} THEN q.size ELSE Lowest(unfilled) - q.from) - q.proced
      push == IF room THEN ready ELSE 0
      filled == [unasked EXCEPT !.unfilled = unfilled, !.proced = @ + push]
  IN  IF request = <<>> THEN [q |-> q, push |-> 0, err |-> "noFetchesPending"]
      ELSE IF fits THEN [q |-> filled, push |-> push, err |-> "none"]
      ELSE [q |-> refused, push |-> 0, err |-> "notAccepted"]
=============================================================================
