------------------------------ MODULE Fetcher ------------------------------
(***************************************************************************)
(* The block fetcher of eth/fetcher/fetcher.go: it turns block hashes that *)
(* peers announce into header requests, body requests and finally imports. *)
(*                                                                         *)
(* One goroutine, the loop, owns all the maps.  An iteration of the loop   *)
(* first expires old header fetches (pc = "expire"), then imports what     *)
(* fits on the chain (pc = "import"), then blocks in a select              *)
(* (pc = "select").  Handlers that walk over a Go map take one step per    *)
(* key ("fetch", "complete", "match", "enqueue"), in any order.  Imports   *)
(* run in goroutines of their own, one per popped queue item, which report *)
(* on the unbuffered channel done.                                         *)
(*                                                                         *)
(* A hash stands for the block; its number, parent, body and validity are  *)
(* constants.  A Go map entry that is absent is 0, << >> or NoAnnounce.    *)
(***************************************************************************)
EXTENDS Integers, Sequences, FiniteSets

CONSTANTS
  Peers,          \* peer identifiers
  Liars,          \* peers that may announce false numbers or bad blocks
  Legacy,         \* peers that announce without a number (number 0)
  Hashes,         \* blocks that can be announced
  Root,           \* the block the local chain starts with
  Num,            \* block number of each hash
  ParentOf,       \* parent of each hash
  BodyOf,         \* transactions and uncles of each hash
  EmptyBody,      \* the body without transactions and uncles
  Invalid,        \* hashes whose header fails verification
  HashLimit,      \* fetcher.go hashLimit
  BlockLimit,     \* fetcher.go blockLimit
  MaxUncleDist,   \* fetcher.go maxUncleDist
  MaxQueueDist,   \* fetcher.go maxQueueDist
  MaxPending,     \* bound of the model: announces kept per hash
  MaxCopies,      \* bound of the model: copies of a body in one message
  MaxDeficit,     \* bound of the model: how far a counter may fall below 0
  NoAnnounce      \* absent map entry

ASSUME FetcherAssumption ==
  /\ IsFiniteSet(Peers) /\ IsFiniteSet(Hashes)
  /\ Liars \subseteq Peers /\ Legacy \subseteq Peers
  /\ Root \notin Hashes
  /\ Num \in [Hashes -> Nat \ {0}]
  /\ ParentOf \in [Hashes -> Hashes \cup {Root}]
  /\ DOMAIN BodyOf = Hashes
  /\ Invalid \subseteq Hashes
  /\ HashLimit \in Nat /\ BlockLimit \in Nat
  /\ MaxUncleDist \in Nat /\ MaxQueueDist \in Nat
  /\ MaxPending \in Nat /\ MaxCopies \in Nat /\ MaxDeficit \in Nat

Announce == [origin : Peers, number : Nat]
Inject   == [origin : Peers, hash : Hashes]
Bodies   == {BodyOf[h] : h \in Hashes}

ASSUME AnnounceAssumption == NoAnnounce \notin Announce \cup Peers

VARIABLES
  announces,    \* announce counter of each peer
  announced,    \* announces waiting for the arrival timer, per hash
  fetching,     \* announce whose header is being fetched, per hash
  fetched,      \* announce whose header arrived, per hash
  completing,   \* announce whose body is being fetched, per hash
  aged,         \* hashes fetched for longer than fetchTimeout
  queue,        \* bag of pending import operations
  queues,       \* block counter of each peer
  queued,       \* peer that delivered the queued block, per hash
  importing,    \* bag of import goroutines that still have to run
  finished,     \* bag of import goroutines blocked on the done channel
  pc, todo,     \* place in the loop, hashes its handler still has to visit
  blocks,       \* copies of each block that a body delivery completed
  height,       \* the loop's copy of the chain height
  chain,        \* blocks of the local chain
  chainHeight,  \* number of its head
  dropped       \* peers disconnected for misbehaving

announceVars == <<announces, announced, fetching, fetched, completing, aged>>
queueVars    == <<queue, queues, queued>>
importVars   == <<importing, finished>>
chainVars    == <<chain, chainHeight>>
loopVars     == <<pc, todo, blocks, height>>
vars == <<announceVars, queueVars, importVars, chainVars, loopVars, dropped>>

Known(h) == h \in chain

Init ==
  /\ announces = [p \in Peers |-> 0]
  /\ announced = [h \in Hashes |-> << >>]
  /\ fetching = [h \in Hashes |-> NoAnnounce]
  /\ fetched = [h \in Hashes |-> NoAnnounce]
  /\ completing = [h \in Hashes |-> NoAnnounce]
  /\ aged = {}
  /\ queue = [o \in Inject |-> 0]
  /\ queues = [p \in Peers |-> 0]
  /\ queued = [h \in Hashes |-> NoAnnounce]
  /\ importing = [o \in Inject |-> 0]
  /\ finished = [o \in Inject |-> 0]
  /\ pc = "expire" /\ todo = {} /\ blocks = [h \in Hashes |-> 0] /\ height = 0
  /\ chain = {Root} /\ chainHeight = 0
  /\ dropped = {}

-----------------------------------------------------------------------------
(* Helpers shared by the handlers.                                         *)

CountBy(s, p) == Cardinality({i \in DOMAIN s : s[i].origin = p})
MadeBy(a, p)  == IF a # NoAnnounce /\ a.origin = p THEN 1 ELSE 0

\* What forgetHash subtracts from the counter of p.
Owed(h, p) == CountBy(announced[h], p) + MadeBy(fetching[h], p)
                + MadeBy(fetched[h], p) + MadeBy(completing[h], p)

\* forgetHash(h), after which the caller stores f in fetching and c in completing.
ForgetHashThen(h, f, c) ==
  /\ announces' = [p \in Peers |-> announces[p] - Owed(h, p)]
  /\ announced' = [announced EXCEPT ![h] = << >>]
  /\ fetching' = [fetching EXCEPT ![h] = f]
  /\ fetched' = [fetched EXCEPT ![h] = NoAnnounce]
  /\ completing' = [completing EXCEPT ![h] = c]
  /\ aged' = aged \ {h}

ForgetHash(h) == ForgetHashThen(h, NoAnnounce, NoAnnounce)

\* Mutation: the entry goes, the counter stays.
ForgetBlockOnly(h) ==
  /\ queued' = [queued EXCEPT ![h] = NoAnnounce]
  /\ UNCHANGED queues

\* forgetBlock(h) drops the queued entry and the counter it was booked on.
ForgetBlock(h) ==
  IF queued[h] = NoAnnounce
    THEN UNCHANGED <<queues, queued>>
    ELSE /\ queues' = [queues EXCEPT ![queued[h]] = @ - 1]
         /\ queued' = [queued EXCEPT ![h] = NoAnnounce]

TooFar(n) == n - chainHeight < -MaxUncleDist \/ n - chainHeight > MaxQueueDist

\* Mutation: enqueue without the dedup test.
EnqueueAgain(p, h) ==
  LET op == [origin |-> p, hash |-> h] IN
  IF queues[p] + 1 > BlockLimit \/ TooFar(Num[h])
    THEN ForgetHash(h) /\ UNCHANGED queueVars
    ELSE /\ UNCHANGED announceVars
         /\ queues' = [queues EXCEPT ![p] = @ + 1]
         /\ queued' = [queued EXCEPT ![h] = p]
         /\ queue' = [queue EXCEPT ![op] = @ + 1]

\* enqueue(p, h): refuse and forget, or queue the block unless it is queued.
Enqueue(p, h) ==
  LET op == [origin |-> p, hash |-> h] IN
  IF queues[p] + 1 > BlockLimit \/ TooFar(Num[h])
    THEN ForgetHash(h) /\ UNCHANGED queueVars
    ELSE /\ UNCHANGED announceVars
         /\ IF queued[h] # NoAnnounce
              THEN UNCHANGED queueVars
              ELSE /\ queues' = [queues EXCEPT ![p] = @ + 1]
                   /\ queued' = [queued EXCEPT ![h] = p]
                   /\ queue' = [queue EXCEPT ![op] = @ + 1]

\* Numbers a peer may announce for a hash, and blocks it may deliver.
Claims(p, h) ==
  IF p \in Liars THEN {Num[g] : g \in Hashes}
  ELSE IF p \in Legacy THEN {0}
  ELSE {Num[h]}
Offers(p) == IF p \in Liars THEN Hashes ELSE Hashes \ Invalid

-----------------------------------------------------------------------------
(* The top of the loop.                                                    *)

\* One expired header fetch is forgotten.
ExpireFetch(h) ==
  /\ pc = "expire"
  /\ fetching[h] # NoAnnounce /\ h \in aged
  /\ ForgetHash(h)
  /\ UNCHANGED <<queueVars, importVars, chainVars, loopVars, dropped>>

\* No expired fetch is left: read the chain height and turn to the queue.
ReadHeight ==
  /\ pc = "expire"
  /\ \A h \in Hashes : fetching[h] # NoAnnounce => h \notin aged
  /\ pc' = "import" /\ height' = chainHeight
  /\ UNCHANGED <<announceVars, queueVars, importVars, chainVars, todo, blocks, dropped>>

\* Mutation: a pop from a queue that may be empty.
LowestOfAny(op) ==
  \A o \in Inject : queue[o] > 0 => Num[op.hash] <= Num[o.hash]

\* The queue is ordered by block number; a pop takes a lowest one.
Lowest(op) ==
  /\ queue[op] > 0
  /\ \A o \in Inject : queue[o] > 0 => Num[op.hash] <= Num[o.hash]

Importable(op) == Num[op.hash] <= height + 1

\* A popped block is forgotten when stale or known, otherwise imported.
ImportNext(op) ==
  /\ pc = "import"
  /\ Lowest(op) /\ Importable(op)
  /\ queue' = [queue EXCEPT ![op] = @ - 1]
  /\ IF Num[op.hash] + MaxUncleDist < height \/ Known(op.hash)
       THEN ForgetBlock(op.hash) /\ UNCHANGED importing
       ELSE /\ importing' = [importing EXCEPT ![op] = @ + 1]
            /\ UNCHANGED <<queues, queued>>
  /\ UNCHANGED <<announceVars, finished, chainVars, loopVars, dropped>>

\* The queue is empty or its head is too high: wait for an event.
Wait ==
  /\ pc = "import"
  /\ \A op \in Inject : Lowest(op) => ~Importable(op)
  /\ pc' = "select" /\ height' = 0
  /\ UNCHANGED <<announceVars, queueVars, importVars, chainVars, todo, blocks, dropped>>

-----------------------------------------------------------------------------
(* Events of the select.                                                   *)

\* Mutation: blocks whose body is being fetched are not looked at.
DiscardedIfFetching(p, h, n) ==
  \/ announces[p] + 1 > HashLimit
  \/ n > 0 /\ TooFar(n)
  \/ fetching[h] # NoAnnounce

\* Why a notification is dropped without a trace.
Discarded(p, h, n) ==
  \/ announces[p] + 1 > HashLimit
  \/ n > 0 /\ TooFar(n)
  \/ fetching[h] # NoAnnounce
  \/ completing[h] # NoAnnounce

Notify(p, h, n) ==
  /\ pc = "select"
  /\ Len(announced[h]) < MaxPending
  /\ IF Discarded(p, h, n)
       THEN UNCHANGED announceVars
       ELSE /\ announces' = [announces EXCEPT ![p] = @ + 1]
            /\ announced' = [announced EXCEPT ![h] =
                               Append(@, [origin |-> p, number |-> n])]
            /\ UNCHANGED <<fetching, fetched, completing, aged>>
  /\ pc' = "expire"
  /\ UNCHANGED <<queueVars, importVars, chainVars, todo, blocks, height, dropped>>

\* A whole block was propagated to us.
Propagated(p, h) ==
  /\ pc = "select"
  /\ Enqueue(p, h)
  /\ pc' = "expire"
  /\ UNCHANGED <<importVars, chainVars, todo, blocks, height, dropped>>

\* An import goroutine reports; all traces of its block go.
Done(op) ==
  /\ pc = "select"
  /\ finished[op] > 0
  /\ finished' = [finished EXCEPT ![op] = @ - 1]
  /\ ForgetHash(op.hash)
  /\ ForgetBlock(op.hash)
  /\ pc' = "expire"
  /\ UNCHANGED <<queue, importing, chainVars, todo, blocks, height, dropped>>

\* The arrival timer fires and finds the hashes in due old enough.
FetchTimer(due) ==
  /\ pc = "select"
  /\ pc' = "fetch" /\ todo' = due
  /\ UNCHANGED <<announceVars, queueVars, importVars, chainVars, blocks, height, dropped>>

\* A random announcer of one due hash is asked for the header.
FetchNext(h) ==
  /\ pc = "fetch" /\ h \in todo
  /\ \E i \in DOMAIN announced[h] :
       ForgetHashThen(h, IF Known(h) THEN NoAnnounce ELSE announced[h][i], NoAnnounce)
  /\ todo' = todo \ {h}
  /\ UNCHANGED <<queueVars, importVars, chainVars, pc, blocks, height, dropped>>

\* The completion timer fires; every fetched header gets a body request.
CompleteTimer ==
  /\ pc = "select"
  /\ pc' = "complete" /\ todo' = {h \in Hashes : fetched[h] # NoAnnounce}
  /\ UNCHANGED <<announceVars, queueVars, importVars, chainVars, blocks, height, dropped>>

CompleteNext(h) ==
  /\ pc = "complete" /\ h \in todo
  /\ ForgetHashThen(h, NoAnnounce, IF Known(h) THEN NoAnnounce ELSE fetched[h])
  /\ todo' = todo \ {h}
  /\ UNCHANGED <<queueVars, importVars, chainVars, pc, blocks, height, dropped>>

\* The header of h, delivered by p, is one the fetcher asked p for.
Requested(p, h) ==
  /\ fetching[h] # NoAnnounce /\ fetching[h].origin = p
  /\ fetched[h] = NoAnnounce /\ completing[h] = NoAnnounce
  /\ queued[h] = NoAnnounce

\* A header arrives; the protocol handler filters single headers only.  An
\* accepted one waits for the body, or, when the block is empty, is completed
\* at once and queued like a block whose body arrived.
FilterHeader(p, h) ==
  /\ pc = "select"
  /\ UNCHANGED <<queueVars, importVars, chainVars, todo, height>>
  /\ \/ /\ ~Requested(p, h)
        /\ pc' = "expire" /\ UNCHANGED <<announceVars, blocks, dropped>>
     \/ /\ Requested(p, h) /\ fetching[h].number # Num[h]
        /\ dropped' = dropped \cup {fetching[h].origin}
        /\ ForgetHash(h)
        /\ pc' = "expire" /\ UNCHANGED blocks
     \/ /\ Requested(p, h) /\ fetching[h].number = Num[h] /\ Known(h)
        /\ ForgetHash(h)
        /\ pc' = "expire" /\ UNCHANGED <<blocks, dropped>>
     \/ /\ Requested(p, h) /\ fetching[h].number = Num[h] /\ ~Known(h)
        /\ aged' = aged \ {h}
        /\ IF BodyOf[h] = EmptyBody
             THEN /\ completing' = [completing EXCEPT ![h] = fetching[h]]
                  /\ blocks' = [blocks EXCEPT ![h] = 1]
                  /\ pc' = "enqueue" /\ UNCHANGED fetched
             ELSE /\ fetched' = [fetched EXCEPT ![h] = fetching[h]]
                  /\ pc' = "expire" /\ UNCHANGED <<completing, blocks>>
        /\ UNCHANGED <<announces, announced, fetching, dropped>>

\* Bodies arrive from p, body b in count[b] copies.  A body stands for every
\* block it completes and that was requested from p.
FilterBodies(p, count) ==
  /\ pc = "select"
  /\ pc' = "match"
  /\ todo' = {h \in Hashes : /\ completing[h] # NoAnnounce
                             /\ completing[h].origin = p
                             /\ queued[h] = NoAnnounce
                             /\ count[BodyOf[h]] > 0}
  /\ blocks' = [h \in Hashes |-> IF h \in todo' THEN count[BodyOf[h]] ELSE 0]
  /\ UNCHANGED <<announceVars, queueVars, importVars, chainVars, height, dropped>>

\* A completed block is kept unless it got imported by other means.
MatchNext(h) ==
  /\ pc = "match" /\ h \in todo
  /\ todo' = todo \ {h}
  /\ IF Known(h)
       THEN ForgetHash(h) /\ blocks' = [blocks EXCEPT ![h] = 0]
       ELSE UNCHANGED <<announceVars, blocks>>
  /\ UNCHANGED <<queueVars, importVars, chainVars, pc, height, dropped>>

\* The completed blocks are queued, a block once per copy of its body.
EnqueueNext(h) ==
  /\ pc = "enqueue" /\ blocks[h] > 0
  /\ blocks' = [blocks EXCEPT ![h] = @ - 1]
  /\ IF completing[h] # NoAnnounce
       THEN Enqueue(completing[h].origin, h)
       ELSE UNCHANGED <<announceVars, queueVars>>
  /\ UNCHANGED <<importVars, chainVars, pc, todo, height, dropped>>

\* A handler has visited all its hashes.
HandlerEnds ==
  /\ todo = {}
  /\ \/ pc \in {"fetch", "complete"} /\ pc' = "expire"
     \/ pc = "match" /\ pc' = "enqueue"
     \/ pc = "enqueue" /\ (\A h \in Hashes : blocks[h] = 0) /\ pc' = "expire"
  /\ UNCHANGED <<announceVars, queueVars, importVars, chainVars,
                 todo, blocks, height, dropped>>

\* Stop: the loop returns from its select, or while it hands bodies back.
Quit ==
  /\ pc = "select" \/ (pc = "match" /\ todo = {})
  /\ pc' = "quit"
  /\ UNCHANGED <<announceVars, queueVars, importVars, chainVars,
                 todo, blocks, height, dropped>>

-----------------------------------------------------------------------------
(* The import goroutines.  All their exits send on the done channel.       *)

\* Mutation: a path that returns without the deferred send on done.
ExitSilently(op) ==
  /\ importing[op] > 0
  /\ importing' = [importing EXCEPT ![op] = @ - 1]
  /\ UNCHANGED <<finished, announceVars, queueVars, loopVars>>

Exit(op) ==
  /\ importing[op] > 0
  /\ importing' = [importing EXCEPT ![op] = @ - 1]
  /\ finished' = [finished EXCEPT ![op] = @ + 1]
  /\ UNCHANGED <<announceVars, queueVars, loopVars>>

\* Mutation: a block that cannot be imported is held against its peer.
ImportFailureDrops(op) ==
  /\ ParentOf[op.hash] \notin chain \/ op.hash \notin Invalid
  /\ Exit(op)
  /\ dropped' = dropped \cup {op.origin}
  /\ UNCHANGED chainVars

\* The parent is unknown, or insertChain fails (a future block, bad state).
ImportFails(op) ==
  /\ ParentOf[op.hash] \notin chain \/ op.hash \notin Invalid
  /\ Exit(op)
  /\ UNCHANGED <<chainVars, dropped>>

\* verifyHeader fails.
ImportRejected(op) ==
  /\ ParentOf[op.hash] \in chain /\ op.hash \in Invalid
  /\ Exit(op)
  /\ dropped' = dropped \cup {op.origin}
  /\ UNCHANGED chainVars

\* A block joins the chain, as its head or as a side block.
Extend(h) ==
  /\ ParentOf[h] \in chain /\ h \notin Invalid
  /\ chain' = chain \cup {h}
  /\ chainHeight' \in {chainHeight, Num[h]}

ImportSucceeds(op) ==
  /\ Extend(op.hash)
  /\ Exit(op)
  /\ UNCHANGED dropped

-----------------------------------------------------------------------------
(* The environment.                                                        *)

\* Time passes: a header fetch is now older than fetchTimeout.
Age(h) ==
  /\ pc # "expire"
  /\ fetching[h] # NoAnnounce /\ h \notin aged
  /\ aged' = aged \cup {h}
  /\ UNCHANGED <<announces, announced, fetching, fetched, completing, queueVars,
                 importVars, chainVars, loopVars, dropped>>

\* The downloader or the miner extends the chain.
ChainGrows(h) ==
  /\ ~Known(h)
  /\ Extend(h)
  /\ UNCHANGED <<announceVars, queueVars, importVars, loopVars, dropped>>

-----------------------------------------------------------------------------
LoopTop == \/ \E h \in Hashes : ExpireFetch(h)
           \/ ReadHeight
           \/ \E op \in Inject : ImportNext(op)
           \/ Wait

Handler == \/ \E h \in Hashes : FetchNext(h)
           \/ \E h \in Hashes : CompleteNext(h)
           \/ \E h \in Hashes : MatchNext(h)
           \/ \E h \in Hashes : EnqueueNext(h)
           \/ HandlerEnds

Timers == \/ \E due \in SUBSET {h \in Hashes : announced[h] # << >>} : FetchTimer(due)
          \/ CompleteTimer

Messages == \E p \in Peers :
  \/ /\ announces[p] > -MaxDeficit
     /\ \E h \in Offers(p) : \E n \in Claims(p, h) : Notify(p, h, n)
  \/ \E h \in Offers(p) : Propagated(p, h)
  \/ \E h \in Offers(p) : FilterHeader(p, h)
  \/ \E count \in [Bodies -> 0..MaxCopies] : FilterBodies(p, count)

Imports == \E op \in Inject : ImportFails(op) \/ ImportRejected(op) \/ ImportSucceeds(op)

Environment == \E h \in Hashes : Age(h) \/ ChainGrows(h)

Next ==
  \/ LoopTop \/ Handler \/ Timers \/ Messages
  \/ (\E op \in Inject : Done(op))
  \/ Imports \/ Environment \/ Quit

Spec == Init /\ [][Next]_vars

\* Fairness.  The Go scheduler runs every runnable goroutine, so the loop and
\* each import goroutine make progress; a select picks at random among its
\* ready cases, so a done message that is ready again and again is received.
\* Time passes, so an unanswered header fetch does not stay young for ever.
Fairness ==
  /\ WF_vars(LoopTop) /\ WF_vars(Handler)
  /\ \A h \in Hashes : SF_vars(Age(h))
  /\ \A op \in Inject :
       /\ WF_vars(ImportFails(op) \/ ImportRejected(op) \/ ImportSucceeds(op))
       /\ SF_vars(Done(op))

FairSpec == Spec /\ Fairness

-----------------------------------------------------------------------------
(* Properties.                                                             *)

Pcs == {"expire", "import", "select", "fetch", "complete", "match", "enqueue", "quit"}

\* Every map holds entries of its kind; the announce counters are integers,
\* because forgetHash can take them below zero.
TypeOK ==
  /\ announces \in [Peers -> Int]
  /\ announced \in [Hashes -> Seq(Announce)]
  /\ fetching \in [Hashes -> Announce \cup {NoAnnounce}]
  /\ fetched \in [Hashes -> Announce \cup {NoAnnounce}]
  /\ completing \in [Hashes -> Announce \cup {NoAnnounce}]
  /\ aged \subseteq Hashes
  /\ queue \in [Inject -> Nat] /\ importing \in [Inject -> Nat] /\ finished \in [Inject -> Nat]
  /\ queues \in [Peers -> Nat]
  /\ queued \in [Hashes -> Peers \cup {NoAnnounce}]
  /\ pc \in Pcs /\ todo \subseteq Hashes /\ blocks \in [Hashes -> Nat]
  /\ height \in Nat /\ chainHeight \in Nat
  /\ chain \subseteq Hashes \cup {Root}
  /\ dropped \subseteq Peers

InFlight(o) == queue[o] + importing[o] + finished[o]
QueuedBy(p) == {h \in Hashes : queued[h] = p}

\* A block that the dedup map queued holds is in exactly one place, the
\* priority queue or one import goroutine, on behalf of the peer it is booked
\* on; a block it does not hold is in none.  So no block is imported twice at
\* a time and no done message frees another peer's slot.
QueuedOnce ==
  \A o \in Inject : InFlight(o) = IF queued[o.hash] = o.origin THEN 1 ELSE 0

\* The per-peer counter that enqueue tests against blockLimit is the number of
\* blocks of that peer that are queued or being imported.
QueueCounters == \A p \in Peers : queues[p] = Cardinality(QueuedBy(p))

\* blockLimit bounds the blocks held for one peer, import goroutines included.
BlockBound == \A p \in Peers : Cardinality(QueuedBy(p)) <= BlockLimit

\* dropPeer hits only peers that announced a false number or sent a block
\* that fails verification, whichever announcer the fetcher asked.
OnlyLiarsDropped == dropped \subseteq Liars

\* A hash whose header or body is being retrieved is not scheduled for a
\* second retrieval: Notify tests fetching and completing only, which is enough
\* because an announce whose header arrived stays in fetching too.
NoSecondFetch ==
  \A h \in Hashes :
    announced[h] # << >> => /\ fetching[h] = NoAnnounce /\ fetched[h] = NoAnnounce
                            /\ completing[h] = NoAnnounce

\* No slot is lost: a block handed to an import goroutine, whatever becomes of
\* the import, eventually leaves queued, unless the fetcher is stopped.
ImportsReaped ==
  \A op \in Inject : importing[op] + finished[op] > 0
                        ~> (pc = "quit" \/ queued[op.hash] = NoAnnounce)
=============================================================================
