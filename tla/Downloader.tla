----------------------------- MODULE Downloader -----------------------------
(***************************************************************************)
(* The concurrent block download of eth/downloader: spawnSync's five       *)
(* goroutines over one queue and one peer set.                             *)
(*                                                                         *)
(*   headers   fetchHeaders with fillHeaderSkeleton (fetch["header"])      *)
(*   body      fetchBodies     (fetch["body"])                             *)
(*   receipt   fetchReceipts   (fetch["receipt"])                          *)
(*   process   processHeaders                                              *)
(*   content   processFullSyncContent, or the fast sync counterpart        *)
(*                                                                         *)
(* The three fetch loops are the one function fetchParts.  Its select is   *)
(* the state "select"; a round of the update case is broken where other    *)
(* goroutines can come in between two of its reads: after pending() = 0    *)
(* ("drained") and before every peer of the idle list ("assign").          *)
(*                                                                         *)
(* Peers answer the questions they were asked in their order, late or      *)
(* never, in full, in part or wrongly.  What goes wrong is counted in      *)
(* faults, which bounds the model.  The local header chain, the pivot and  *)
(* its state are not modelled.                                             *)
(***************************************************************************)
EXTENDS DownloadQueue

CONSTANTS
  Master,          \* the peer that is synchronised with
  Modes,           \* sync modes, "full" or "fast"
  Counts,          \* items a peer may be asked for at once (capacity)
  Stall,           \* up to so many expired items the peer is dropped; 2 in the code
  MaxSkeleton,     \* MaxSkeletonSize
  MaxChunk,        \* maxHeadersProcess
  MaxQueued,       \* maxQueuedHeaders
  MaxAsked,        \* bound of the model on the open questions of a peer
  MaxFaults,       \* per mode, bound of the model on what goes wrong
  MaxSyncs         \* per mode, bound of the model on synchronisations

ASSUME DownloaderAssumption ==
  /\ Master \in Peers
  /\ Modes \subseteq {"full", "fast"}
  /\ Counts \subseteq Nat \ {0}
  /\ {Stall, MaxSkeleton, MaxChunk, MaxQueued, MaxAsked} \subseteq Nat
  /\ MaxFaults \in [Modes -> Nat] /\ MaxSyncs \in [Modes -> Nat]

VARIABLES
  q,         \* the queue, see DownloadQueue
  reg,       \* registered peers
  busy,      \* per kind, the peers that are not idle
  lacks,     \* per peer, blocks it does not have (lacking)
  asked,     \* per kind and peer, the questions it has not answered
  strays,    \* history: per kind, peers that answered something else
  fetch,     \* per kind, the local state of its fetchParts
  header,    \* local state of fetchHeaders
  procCh,    \* headerProcCh: header counts, 0 for the end
  proc,      \* local state of processHeaders
  content,   \* local state of the content processor
  sync,      \* cancel channel, results of the goroutines, outcome
  chain,     \* number of the local head block
  faults,    \* what went wrong so far
  raced      \* history: blocks revoked between a fetcher's two last reads

peerVars == <<reg, busy, lacks, asked, strays>>
workers == <<header, procCh, proc, content>>
vars == <<q, peerVars, fetch, workers, sync, chain, faults, raced>>

Workers == Parts \cup {"headers", "process", "content"}

\* The local state of fetchParts, with whether a `false' waits in its wake channel.
\* History: present are the peers of the round's start that did not register anew.
Off == [ at |-> "off", wake |-> FALSE, finished |-> FALSE, idles |-> {}, full |-> FALSE,
         progressed |-> FALSE, throttled |-> FALSE, running |-> FALSE, present |-> {} ]

\* At its select, with the flags f carries from round to round.
AtSelect(f) == [Off EXCEPT !.at = "select", !.wake = f.wake, !.finished = f.finished]

\* fetchHeaders has returned.
NoHeaders == [at |-> "off", from |-> 0, rest |-> 0, skeleton |-> FALSE]

Idle == [active |-> FALSE, cancelled |-> TRUE, left |-> Workers, err |-> "none",
         outcome |-> "none", origin |-> 0, syncs |-> 0]

Init ==
  /\ \E mode \in Modes : q = FreshQueue(mode, 1, CacheSize)
  /\ reg \in {R \in SUBSET Peers : Master \in R}
  /\ busy = [k \in Kinds |-> {}]
  /\ lacks = [p \in Peers |-> {}]
  /\ asked = [k \in Kinds |-> [p \in Peers |-> <<>>]]
  /\ strays = [k \in Kinds |-> {}]
  /\ fetch = [k \in Kinds |-> Off]
  /\ header = NoHeaders
  /\ procCh = <<>>
  /\ proc = [at |-> "off", todo |-> 0]
  /\ content = "off"
  /\ sync = Idle
  /\ chain = 0
  /\ faults = 0
  /\ raced = {}

\* Something goes wrong n times.
Fault(n) ==
  /\ faults + n <= MaxFaults[q.mode]
  /\ faults' = faults + n

\* Goroutine w returns err; on the first error spawnSync closes the cancel channel.
Exit(w, err) ==
  sync' = [sync EXCEPT !.left = @ \cup {w}, !.err = IF @ = "none" THEN err ELSE @,
                       !.cancelled = @ \/ err # "none"]

\* A select that finds the cancel channel closed returns.  Go may take another
\* ready case first; since that case does not depend on the channel, it is the
\* same as taking it before the channel was closed.  See Quit.
Running == ~sync.cancelled

-----------------------------------------------------------------------------
(* The peer set. *)

\* What UnregisterPeer does with the peers of P, on a queue that is qq by now
\* and seen by the fetcher of kind k (or none).
Unregister(P, qq, k) ==
  /\ reg' = reg \ P
  /\ q' = Revoke(qq, P)
  /\ raced' = raced \cup UNION {ToSet(qq.pend[l][p]) : p \in P,
                               l \in {m \in Parts \ {k} : fetch[m].at = "drained"}}
  /\ asked' = [l \in Kinds |-> [p \in Peers |-> IF p \in P THEN <<>> ELSE asked[l][p]]]

\* The last part of UnregisterPeer: the master's departure cancels the sync.
CancelMaster ==
  /\ sync.active /\ ~sync.cancelled
  /\ Master \notin reg
  /\ sync' = [sync EXCEPT !.cancelled = TRUE]
  /\ UNCHANGED <<q, peerVars, fetch, workers, chain, faults, raced>>

Disconnect(p) ==
  /\ p \in reg
  /\ Fault(1)
  /\ Unregister({p}, q, "none")
  /\ UNCHANGED <<busy, lacks, strays, fetch, workers, sync, chain>>

\* RegisterPeer with a new connection, after UnregisterPeer is through with the
\* old one.  Reconnecting takes longer than a round that still has the old one
\* in its list of idle peers.
Connect(p) ==
  /\ p \notin reg
  /\ p = Master => sync.cancelled
  /\ \A k \in Kinds : p \notin fetch[k].idles
  /\ Fault(1)
  /\ reg' = reg \cup {p}
  /\ busy' = [k \in Kinds |-> busy[k] \ {p}]
  /\ lacks' = [lacks EXCEPT ![p] = {}]
  /\ strays' = [k \in Kinds |-> strays[k] \ {p}]
  /\ fetch' = [k \in Kinds |-> [fetch[k] EXCEPT !.present = @ \ {p}]]
  /\ UNCHANGED <<q, asked, workers, sync, chain, raced>>

-----------------------------------------------------------------------------
(* fetchParts. *)

\* The loop of kind k returns err.  Bodies and receipts are goroutines of their
\* own; the header loop returns into fetchHeaders with what RetrieveHeaders has.
Return(k, err) ==
  /\ fetch' = [fetch EXCEPT ![k] = Off]
  /\ IF k # "header"
       THEN Exit(k, err) /\ UNCHANGED header
     ELSE IF err # "none"
       THEN Exit("headers", "invalidChain") /\ header' = NoHeaders
     ELSE /\ header' = [header EXCEPT !.at = "push", !.from = @ + q.proced,
                                     !.rest = q.size - q.proced]
          /\ UNCHANGED sync

\* Mutant: a loop that waits for room in the result cache gives up.
ContinueImpatient(k, f) ==
  IF f.idles = {} /\ f.full /\ ~f.progressed /\ ~f.running
    THEN Return(k, "peersUnavailable")
    ELSE /\ fetch' = [fetch EXCEPT ![k] = IF f.idles = {} THEN AtSelect(f) ELSE f]
         /\ UNCHANGED <<header, sync>>

\* The round goes on with f: to the next idle peer, back to the select, or out
\* of the loop when every peer was tried in vain.
Continue(k, f) ==
  IF /\ f.idles = {} /\ f.full
     /\ ~f.progressed /\ ~f.throttled /\ ~f.running
    THEN Return(k, "peersUnavailable")
    ELSE /\ fetch' = [fetch EXCEPT ![k] = IF f.idles = {} THEN AtSelect(f) ELSE f]
         /\ UNCHANGED <<header, sync>>

\* The false from the wake channel.
Wake(k) ==
  /\ fetch[k].at = "select" /\ Running
  /\ fetch[k].wake
  /\ fetch' = [fetch EXCEPT ![k].wake = FALSE, ![k].finished = TRUE]
  /\ UNCHANGED <<q, peerVars, workers, sync, chain, faults, raced>>

\* An update without peers.
NoPeers(k) ==
  /\ fetch[k].at = "select" /\ Running
  /\ reg = {}
  /\ Return(k, "noPeers")
  /\ UNCHANGED <<q, peerVars, procCh, proc, content, chain, faults, raced>>

\* Of the peers whose request expired, those that are dropped: the request was
\* small.  A header request counts as empty.
Stalling(k, E) ==
  {p \in E \cap reg : k = "header" \/ Len(q.pend[k][p]) <= Stall}

\* An update up to the list of idle peers: the requests of E have timed out.
\* With nothing pending, the second read matters only to a loop that is finished.
Round(k, E) ==
  LET drop == Stalling(k, E)
      qq == Revoke(Requeue(q, k, E), drop)
      free == (reg \ drop) \ (busy[k] \ E)
      empty == [fetch[k] EXCEPT !.at = IF fetch[k].finished THEN "drained" ELSE "select"]
      ready == [fetch[k] EXCEPT !.at = "assign", !.idles = free,
                                !.full = (free = reg \ drop), !.running = InFlight(qq, k),
                                !.present = reg \ drop]
  IN  /\ fetch[k].at = "select" /\ Running
      /\ reg # {}
      /\ \A p \in E : q.pend[k][p] # <<>>
      /\ Fault(Cardinality({p \in E : asked[k][p] # <<>>}))
      /\ Unregister(drop, Requeue(q, k, E), k)
      /\ busy' = [busy EXCEPT ![k] = @ \ E]
      /\ IF qq.tasks[k] # {} THEN Continue(k, ready)
         ELSE /\ fetch' = [fetch EXCEPT ![k] = empty]
              /\ UNCHANGED <<header, sync>>
      /\ UNCHANGED <<lacks, strays, procCh, proc, content, chain>>

\* Mutant: a finished loop returns without the second read.
DrainedUnread(k) ==
  /\ fetch[k].at = "drained"
  /\ Return(k, "none")
  /\ UNCHANGED <<q, peerVars, procCh, proc, content, chain, faults, raced>>

\* Nothing was pending: the second read decides whether the loop is over.
Drained(k) ==
  /\ fetch[k].at = "drained"
  /\ IF ~InFlight(q, k)
       THEN Return(k, "none")
       ELSE /\ fetch' = [fetch EXCEPT ![k].at = "select"]
            /\ UNCHANGED <<header, sync>>
  /\ UNCHANGED <<q, peerVars, procCh, proc, content, chain, faults, raced>>

\* FetchBodies and its kin: a peer that is still registered gets the question.
Fetch(k, p, send) ==
  /\ busy' = [busy EXCEPT ![k] = @ \cup {p}]
  /\ asked' = [asked EXCEPT ![k][p] = IF p \in reg THEN Append(@, send) ELSE @]

\* One turn of the loop over the idle peers.  After the last one pending() is
\* read again; it is positive whenever nothing was sent and nothing progressed.
Assign(k, p, count) ==
  LET f == fetch[k]
      r == Reserve(q, k, p, count, lacks[p])
  IN  /\ f.at = "assign"
      /\ p \in f.idles
      /\ Len(asked[k][p]) < MaxAsked
      /\ IF ShouldThrottle(q, k)
           THEN /\ Continue(k, [f EXCEPT !.idles = {}, !.throttled = TRUE])
                /\ UNCHANGED <<q, busy, asked>>
         ELSE IF q.tasks[k] = {}
           THEN /\ Continue(k, [f EXCEPT !.idles = {}])
                /\ UNCHANGED <<q, busy, asked>>
         ELSE IF r.invalid
           THEN /\ q' = r.q
                /\ Return(k, "invalidChain")
                /\ UNCHANGED <<busy, asked>>
         ELSE /\ q' = r.q
              /\ Continue(k, [f EXCEPT !.idles = @ \ {p}, !.progressed = @ \/ r.progress,
                                       !.running = @ \/ r.send # <<>>])
              /\ IF r.send = <<>> THEN UNCHANGED <<busy, asked>> ELSE Fetch(k, p, r.send)
      /\ UNCHANGED <<reg, lacks, strays, procCh, proc, content, chain, faults, raced>>

-----------------------------------------------------------------------------
(* Answers. *)

\* The answers to a question: some of the front, with a wrong item after it, or
\* without the first item (a peer leaves out what it does not have).
Answers(question) ==
  LET fronts == {SubSeq(question, 1, n) : n \in 0 .. Len(question)}
  IN  fronts \cup {Append(SubSeq(question, 1, n), 0) : n \in 0 .. Len(question) - 1}
             \cup {Tail(question)}

\* An answer is in order when it is a non-empty front of the question.
InOrder(question, answer) == answer # <<>> /\ IsPrefix(answer, question)

\* Mutant: only a delivery without an error makes the peer idle again.
IdlesFlawless(err) == err = "none"

\* Deliveries after which the peer is idle again: all but stale ones.
Idles(err) == err # "stale"

\* A delivery of bodies or receipts.
DeliverPart(k, p, answer) ==
  LET question == Head(asked[k][p])
      d == DeliverParts(q, k, p, answer)
  IN  /\ fetch[k].at = "select" /\ Running
      /\ p \in reg
      /\ asked[k][p] # <<>> /\ answer \in Answers(question)
      /\ Fault(IF InOrder(question, answer) THEN 0 ELSE 1)
      /\ asked' = [asked EXCEPT ![k][p] = Tail(@)]
      /\ strays' = [strays EXCEPT ![k] =
                      IF IsPrefix(answer, question) THEN @ ELSE @ \cup {p}]
      /\ q' = d.q
      /\ lacks' = [lacks EXCEPT ![p] = @ \cup d.lacks]
      /\ IF d.err = "invalidChain"
           THEN Return(k, "invalidChain") /\ UNCHANGED busy
           ELSE /\ busy' = [busy EXCEPT ![k] = IF Idles(d.err) THEN @ \ {p} ELSE @]
                /\ UNCHANGED <<fetch, header, sync>>
      /\ UNCHANGED <<reg, procCh, proc, content, chain, raced>>

\* A delivery of a batch of headers.
DeliverHeaders(p, fits) ==
  LET d == DeliverBatch(q, p, fits, procCh = <<>>)
  IN  /\ fetch["header"].at = "select" /\ Running
      /\ p \in reg
      /\ asked["header"][p] # <<>>
      /\ fits => Head(asked["header"][p]) = q.pend["header"][p]
      /\ Fault(IF fits THEN 0 ELSE 1)
      /\ asked' = [asked EXCEPT !["header"][p] = Tail(@)]
      /\ q' = d.q
      /\ busy' = [busy EXCEPT !["header"] = @ \ {p}]
      /\ procCh' = IF d.push > 0 THEN <<d.push>> ELSE procCh
      /\ fetch' = [fetch EXCEPT !["header"].wake = @ \/ (d.err = "none" /\ d.q.unfilled = {})]
      /\ UNCHANGED <<reg, lacks, strays, header, proc, content, sync, chain, raced>>

\* An answer between two syncs is dropped.  One that comes after the loop has
\* returned sits in the delivery channel until then.
Discard(k, p) ==
  /\ ~sync.active
  /\ asked[k][p] # <<>>
  /\ asked' = [asked EXCEPT ![k][p] = Tail(@)]
  /\ UNCHANGED <<q, reg, busy, lacks, strays, fetch, workers, sync, chain, faults, raced>>

-----------------------------------------------------------------------------
(* fetchHeaders. *)

\* `false' into the wake channels of bodies and receipts.  A flag sent to a loop
\* that has returned is only drained by the next Start.
WakeFetchers ==
  fetch' = [k \in Kinds |-> IF k \in Parts /\ fetch[k].at # "off"
                             THEN [fetch[k] EXCEPT !.wake = TRUE] ELSE fetch[k]]

\* Headers from header.from on that are not fetched yet.
Remaining == Height + 1 - header.from

\* The master's skeleton: count whole batches, up to as many as are left.  With
\* an empty answer the skeleton is over, whatever the master promised.
Skeleton(count) ==
  LET batches == Remaining \div MaxHeaderFetch
  IN  /\ header.at = "skeleton" /\ Running
      /\ Master \in reg
      /\ count <= MaxSkeleton /\ count <= batches
      /\ Fault(IF count = 0 /\ batches > 0 THEN 1 ELSE 0)
      /\ IF count = 0
           THEN /\ header' = [header EXCEPT !.at = "tail", !.skeleton = FALSE]
                /\ UNCHANGED <<q, fetch>>
           ELSE /\ header' = [header EXCEPT !.at = "fill"]
                /\ q' = ScheduleSkeleton(q, header.from, count)
                /\ fetch' = [fetch EXCEPT !["header"] = AtSelect(Off)]
      /\ UNCHANGED <<peerVars, procCh, proc, content, sync, chain, raced>>

\* The headers above the skeleton, directly from the master: count of those that
\* are left.  An empty answer ends the headers.
TailHeaders(count) ==
  LET most == IF Remaining < MaxHeaderFetch THEN Remaining ELSE MaxHeaderFetch
  IN  /\ header.at = "tail" /\ Running
      /\ Master \in reg
      /\ count <= most
      /\ Fault(IF count < most THEN 1 ELSE 0)
      /\ header' = IF count = 0 THEN [header EXCEPT !.at = "end"]
                   ELSE [header EXCEPT !.at = "push", !.rest = count]
      /\ UNCHANGED <<q, peerVars, fetch, procCh, proc, content, sync, chain, raced>>

\* Headers go to the processor, then the next are asked for.
PushHeaders ==
  /\ header.at = "push" /\ Running
  /\ header.rest > 0 => procCh = <<>>
  /\ procCh' = IF header.rest > 0 THEN <<header.rest>> ELSE procCh
  /\ header' = [header EXCEPT !.from = @ + header.rest, !.rest = 0,
                              !.at = IF header.skeleton THEN "skeleton" ELSE "tail"]
  /\ UNCHANGED <<q, peerVars, fetch, proc, content, sync, chain, faults, raced>>

\* The number after the last header stays, as history.
EndHeaders ==
  /\ header.at = "end" /\ Running
  /\ procCh = <<>>
  /\ procCh' = <<0>>
  /\ header' = [header EXCEPT !.at = "off"]
  /\ Exit("headers", "none")
  /\ UNCHANGED <<q, peerVars, fetch, proc, content, chain, faults, raced>>

\* The master does not answer: it is dropped; the wake flags and, when there is room, the end of the headers are sent.
HeaderTimeout ==
  /\ header.at \in {"skeleton", "tail"} /\ Running
  /\ Master \in reg
  /\ Fault(1)
  /\ Unregister({Master}, q, "none")
  /\ WakeFetchers
  /\ procCh' = IF procCh = <<>> THEN <<0>> ELSE procCh
  /\ header' = NoHeaders
  /\ Exit("headers", "badPeer")
  /\ UNCHANGED <<busy, lacks, strays, proc, content, chain>>

-----------------------------------------------------------------------------
(* processHeaders. *)

TakeHeaders ==
  /\ proc.at = "wait" /\ Running
  /\ procCh # <<>> /\ Head(procCh) > 0
  /\ procCh' = <<>>
  /\ proc' = [proc EXCEPT !.at = "busy", !.todo = Head(procCh)]
  /\ UNCHANGED <<q, peerVars, fetch, header, content, sync, chain, faults, raced>>

\* The next chunk of headers, and whether the task queues have room for it.
Chunk == IF proc.todo < MaxChunk THEN proc.todo ELSE MaxChunk
RoomForChunk == \A k \in Parts : Cardinality(q.tasks[k]) < MaxQueued

ScheduleChunk ==
  /\ proc.at = "busy" /\ Running
  /\ RoomForChunk
  /\ q' = Schedule(q, Chunk)
  /\ proc' = [proc EXCEPT !.todo = @ - Chunk,
                          !.at = IF proc.todo = Chunk THEN "wait" ELSE "busy"]
  /\ UNCHANGED <<peerVars, fetch, header, procCh, content, sync, chain, faults, raced>>

\* The end of the headers wakes the fetchers.  The master is stalling when no
\* header came and the local head is below the promised one, in fast sync also
\* when the header chain is; headers of an earlier sync may then make up for it.
\* Every header taken has been scheduled by now, which is what gotHeaders tells.
FinishHeaders(err) ==
  LET gotHeaders == q.headed > sync.origin
      short == q.mode = "fast" /\ q.headed < Height
      stalling == ~gotHeaders /\ chain < Height
  IN  /\ proc.at = "wait" /\ Running
      /\ procCh = <<0>>
      /\ \/ err = "stalling" /\ (stalling \/ short)
         \/ err = "none" /\ ~stalling /\ (short => sync.syncs > 1)
      /\ procCh' = <<>>
      /\ WakeFetchers
      /\ proc' = [proc EXCEPT !.at = "off"]
      /\ Exit("process", err)
      /\ UNCHANGED <<q, peerVars, header, content, chain, faults, raced>>

\* In fast sync, a header that does not verify.
BadHeader ==
  /\ proc.at = "busy" /\ q.mode = "fast"
  /\ Fault(1)
  /\ Exit("process", "invalidChain")
  /\ proc' = [at |-> "off", todo |-> 0]
  /\ UNCHANGED <<q, peerVars, fetch, header, procCh, content, chain, raced>>

\* Schedule stops after count headers of the chunk: the next one does not follow.
StaleHeaders(count) ==
  /\ proc.at = "busy" /\ Running
  /\ RoomForChunk
  /\ count < Chunk
  /\ Fault(1)
  /\ q' = Schedule(q, count)
  /\ Exit("process", "badPeer")
  /\ proc' = [at |-> "off", todo |-> 0]
  /\ UNCHANGED <<peerVars, fetch, header, procCh, content, chain, raced>>

-----------------------------------------------------------------------------
(* The content processor. *)

\* Finished blocks are taken and given to the chain, which imports them up to
\* upto, all of them or not.  Nobody looks at the chain before the sync is over,
\* so taking and importing are one step, and the report of a failure another.
TakeContent(limit, upto) ==
  LET ready == CountProcessable(q)
      count == IF ready < MaxResults THEN ready ELSE MaxResults
      last == q.offset + count - 1
  IN  /\ content = "take"
      /\ ready > 0
      /\ limit \in Limits
      /\ upto \in q.offset - 1 .. last
      /\ Fault(IF upto = last THEN 0 ELSE 1)
      /\ q' = TakeResults(q, count, limit)
      /\ chain' = upto
      /\ content' = IF upto = last THEN "take" ELSE "failed"
      /\ UNCHANGED <<peerVars, fetch, header, procCh, proc, sync, raced>>

ImportFailed ==
  /\ content = "failed"
  /\ content' = "off"
  /\ Exit("content", "invalidChain")
  /\ UNCHANGED <<q, peerVars, fetch, header, procCh, proc, chain, faults, raced>>

\* spawnSync closes the queue for the last goroutine, or after the first error.
Closed == sync.err # "none" \/ Cardinality(sync.left) = Cardinality(Workers) - 1

EndContent ==
  /\ content = "take"
  /\ CountProcessable(q) = 0 /\ Closed
  /\ content' = "off"
  /\ Exit("content", "none")
  /\ UNCHANGED <<q, peerVars, fetch, header, procCh, proc, chain, faults, raced>>

-----------------------------------------------------------------------------
(* Synchronise and spawnSync. *)

\* Mutant: Reset leaves the offset of the result cache.
PrepareKept(mode) ==
  LET offset == IF q.offset > chain + 1 THEN q.offset ELSE chain + 1
  IN  [FreshQueue(mode, chain + 1, q.limit) EXCEPT !.offset = offset]

\* The queue for the blocks above the local head.
Prepare(mode) == FreshQueue(mode, chain + 1, q.limit)

\* Reset of the queue, the peers and the channels, and the five goroutines.
Start(mode) ==
  /\ ~sync.active
  /\ sync.syncs < MaxSyncs[mode] /\ chain < Height
  /\ Master \in reg
  /\ sync' = [active |-> TRUE, cancelled |-> FALSE, left |-> {}, err |-> "none",
              outcome |-> "none", origin |-> chain, syncs |-> sync.syncs + 1]
  /\ q' = Prepare(mode)
  /\ busy' = [k \in Kinds |-> {}]
  /\ lacks' = [p \in Peers |-> {}]
  /\ strays' = [k \in Kinds |-> {}]
  /\ fetch' = [k \in Kinds |-> IF k \in Parts THEN AtSelect(Off) ELSE Off]
  /\ header' = [at |-> "skeleton", from |-> chain + 1, rest |-> 0, skeleton |-> TRUE]
  /\ procCh' = <<>>
  /\ proc' = [at |-> "wait", todo |-> 0]
  /\ content' = "take"
  /\ raced' = {}
  /\ UNCHANGED <<reg, asked, chain, faults>>

\* The goroutines that see a closed cancel channel now: all but the content
\* processor, unless in the middle of a round.
Cancelling ==
  {k \in Parts : fetch[k].at = "select"}
    \cup {w \in {"process"} : proc.at # "off"}
    \cup {w \in {"headers"} : header.at # "off" /\ fetch["header"].at \in {"off", "select"}}

\* They return.  Their order does not matter but for the first error, which is
\* errInvalidChain when it comes from the filling of a skeleton.
Quit(err) ==
  LET C == Cancelling
  IN  /\ sync.active /\ sync.cancelled
      /\ C # {}
      /\ err = "invalidChain" => "headers" \in C /\ header.at = "fill"
      /\ err = "cancelled" => C # {"headers"} \/ header.at # "fill"
      /\ sync' = [sync EXCEPT !.left = @ \cup C, !.err = IF @ = "none" THEN err ELSE @]
      /\ fetch' = [k \in Kinds |-> IF k \in C \/ (k = "header" /\ "headers" \in C)
                                   THEN Off ELSE fetch[k]]
      /\ proc' = IF "process" \in C THEN [at |-> "off", todo |-> 0] ELSE proc
      /\ header' = IF "headers" \in C THEN NoHeaders ELSE header
      /\ UNCHANGED <<q, peerVars, procCh, content, chain, faults, raced>>

\* Errors for which Synchronise drops the master.
Penalised == {"badPeer", "stalling", "peersUnavailable", "invalidChain"}

\* All goroutines have returned.
EndSync ==
  LET drop == IF sync.err \in Penalised /\ Master \in reg THEN {Master} ELSE {}
  IN  /\ sync.active
      /\ sync.left = Workers
      /\ sync' = [sync EXCEPT !.active = FALSE, !.cancelled = TRUE,
                              !.outcome = IF sync.err = "none" THEN "ok" ELSE "failed"]
      /\ Unregister(drop, q, "none")
      /\ UNCHANGED <<busy, lacks, strays, fetch, workers, chain, faults>>

\* Cancel from outside: the node stops or a better sync is wanted.
Cancel ==
  /\ sync.active /\ ~sync.cancelled
  /\ Fault(1)
  /\ sync' = [sync EXCEPT !.cancelled = TRUE]
  /\ UNCHANGED <<q, peerVars, fetch, workers, chain, raced>>

-----------------------------------------------------------------------------
FetchStep(k) ==
  \/ Wake(k) \/ NoPeers(k) \/ Drained(k)
  \/ \E E \in SUBSET Peers : Round(k, E)
  \/ \E p \in Peers, count \in Counts : Assign(k, p, count)

Delivery(k, p) ==
  \/ /\ k \in Parts /\ asked[k][p] # <<>>
     /\ \E answer \in Answers(Head(asked[k][p])) : DeliverPart(k, p, answer)
  \/ k = "header" /\ \E fits \in BOOLEAN : DeliverHeaders(p, fits)

HeaderStep ==
  \/ \E count \in 0 .. MaxSkeleton : Skeleton(count)
  \/ \E count \in 0 .. MaxHeaderFetch : TailHeaders(count)
  \/ PushHeaders \/ EndHeaders

ProcessStep == TakeHeaders \/ ScheduleChunk \/ FinishHeaders("none")

ContentStep ==
  \/ \E limit \in Limits, upto \in chain .. Height : TakeContent(limit, upto)
  \/ ImportFailed \/ EndContent

Next ==
  \/ \E k \in Kinds : FetchStep(k)
  \/ \E k \in Kinds, p \in Peers : Delivery(k, p) \/ Discard(k, p)
  \/ HeaderStep
  \/ HeaderTimeout
  \/ ProcessStep
  \/ FinishHeaders("stalling") \/ BadHeader
  \/ \E count \in 0 .. MaxChunk : StaleHeaders(count)
  \/ ContentStep
  \/ \E mode \in Modes : Start(mode)
  \/ \E err \in {"cancelled", "invalidChain"} : Quit(err)
  \/ EndSync \/ Cancel \/ CancelMaster
  \/ \E p \in Peers : Disconnect(p) \/ Connect(p)

Spec == Init /\ [][Next]_vars

-----------------------------------------------------------------------------
(* Properties. *)

\* Blocks whose part k is still to come.
Missing(k) == {n \in q.offset .. q.headed : n \notin q.done[k]}

\* Every scheduled part of a block that is not finished is in exactly one place,
\* the task queue or the request of one peer, through timeouts, revocations,
\* refusals, late answers and throttling; and a cache slot counts its missing
\* parts (reserveHeaders, deliver, expire, Revoke).
PartsConserved ==
  \A k \in PartsOf(q.mode) :
    /\ q.tasks[k] \cup UNION {ToSet(q.pend[k][p]) : p \in Peers} = Missing(k)
    /\ \A p \in Peers : /\ q.tasks[k] \cap ToSet(q.pend[k][p]) = {}
                        /\ \A r \in Peers \ {p} : ToSet(q.pend[k][p]) \cap ToSet(q.pend[k][r]) = {}
    /\ \A n \in DOMAIN q.cache :
         q.cache[n] = Cardinality({l \in PartsOf(q.mode) : n \notin q.done[l]})

\* The queue hands the blocks of the header chain to the chain in order, each
\* once per attempt and none with a part that was not verified.
Delivered ==
  INSTANCE ChainDelivery WITH
    known <- q.headed,
    verified <- {n \in 1 .. q.headed : n < q.offset \/ \A k \in PartsOf(q.mode) : n \in q.done[k]},
    handed <- q.offset - 1

DeliversInOrder == Delivered!ASpec

\* A registered peer that counts as busy has a pending request, owes an answer,
\* or once sent something that does not belong to the question: the late answer
\* of a request that timed out does not take a well-behaved peer out of use
\* (fetchParts: no setIdle on errStaleDelivery).
HonestPeersReturn ==
  \A k \in Kinds : fetch[k].at # "off" =>
    \A p \in (reg \cap busy[k]) \ strays[k] : q.pend[k][p] # <<>> \/ asked[k][p] # <<>>

\* A synchronisation that reports success got headers, in a first fast sync all
\* of those promised, scheduled every header that was fetched, and has imported
\* every block it scheduled, but for one way to stop short: the next block is one
\* of those that a leaving peer gave back between the two reads after which a
\* fetcher returns (fetchParts: pending(), then inFlight()).  A master that ends
\* its headers early is a success of a full sync (processHeaders).
SuccessComplete ==
  sync.outcome = "ok" =>
    /\ q.headed > sync.origin /\ q.headed + 1 = header.from
    /\ q.mode = "fast" /\ sync.syncs = 1 => q.headed = Height
    /\ chain = q.headed \/ chain + 1 \in raced

\* A fetcher gives up for want of peers, and the master is dropped for it, only
\* when every peer that was there for the whole round has answered a question
\* with nothing (fetchParts: errPeersUnavailable).
NoSpuriousFailure ==
  [][\A k \in Parts :
       fetch[k].at = "assign" /\ fetch'[k].at = "off" =>
         \A p \in reg \cap fetch[k].present : lacks[p] # {}]_vars
=============================================================================
