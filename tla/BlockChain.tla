----------------------------- MODULE BlockChain -----------------------------
(***************************************************************************)
(* The chain manager of core/blockchain.go on top of core/headerchain.go.  *)
(*                                                                         *)
(* Threads: "insert" runs InsertChain and InsertHeaderChain, which chainmu *)
(* serialises; "mine" is the miner's WriteBlockWithState; "rpc" runs       *)
(* SetHead and Rollback; "fast" runs InsertReceiptChain.  A critical       *)
(* section under mu computes the list of its writes when it takes the lock *)
(* and then executes them one at a time, so that a crash can fall between  *)
(* any two.  A batch is one write.  The events that the chain posts are    *)
(* left out.                                                               *)
(***************************************************************************)
EXTENDS ChainStore

CONSTANTS
  Uses,       \* what nodes are used for: [ops, segments, targets, invalid, seals], a
              \* subset of AllOps, the chains of blocks that callers import, the numbers
              \* that SetHead rewinds to, the blocks whose execution fails, and those
              \* that the miner may find
  Late,       \* blocks that are in the future at first
  MaxCrashes  \* bound of the model: crashes

AllOps == {"import", "mine", "sethead", "headers", "receipts", "commit",
           "rollback", "crash", "stop"}
Threads == {"insert", "mine", "rpc", "fast"}
Segments == UNION {u.segments : u \in Uses}

ASSUME ChainAssumption ==
  /\ \A u \in Uses : /\ u.ops \subseteq AllOps /\ u.targets \subseteq Nat
                     /\ u.invalid \subseteq Blocks
                     /\ u.seals \subseteq Blocks \ ({Genesis} \cup u.invalid)
  /\ Segments \subseteq Seq(Blocks \ {Genesis})
  /\ \A s \in Segments : s # << >> /\ \A i \in 2..Len(s) : Parent[s[i]] = s[i - 1]
  /\ Late \subseteq Blocks
  /\ MaxCrashes \in Nat

VARIABLES
  use,        \* what this node is used for, one of Uses
  mode,       \* "up", "down" or "panic"
  lock,       \* thread that holds mu, or None
  script,     \* writes each thread still has to do
  pc,         \* place of each thread
  status,     \* what WriteBlockWithState returns to each thread
  work,       \* blocks insertChain still has to import
  parked,     \* the same of an import that waits for chainmu in the middle
  mined,      \* block the miner has sealed
  receipts,   \* bodies that InsertReceiptChain writes, and its last block
  early,      \* blocks that are still in the future
  stopped,    \* head at a clean shutdown, until the next start
  crashes     \* crashes so far

otherVars  == <<mined, receipts, early, stopped, crashes, use>>
vars == <<storeVars, mode, lock, script, pc, status, work, parked, otherVars>>

NoReceipts == [new |-> {}, last |-> None]

\* What a process loses when it ends.
Volatile ==
  /\ lock' = None
  /\ script' = [t \in Threads |-> << >>]
  /\ pc' = [t \in Threads |-> "idle"]
  /\ status' = [t \in Threads |-> "none"]
  /\ work' = << >> /\ parked' = << >> /\ mined' = None /\ receipts' = NoReceipts
  /\ mem' = {} /\ future' = {}

Init ==
  /\ StoreInit /\ use \in Uses
  /\ mode = "up" /\ lock = None
  /\ script = [t \in Threads |-> << >>]
  /\ pc = [t \in Threads |-> "idle"]
  /\ status = [t \in Threads |-> "none"]
  /\ work = << >> /\ parked = << >> /\ mined = None /\ receipts = NoReceipts
  /\ early = Late /\ stopped = None /\ crashes = 0

Goto(t, place) == pc' = [pc EXCEPT ![t] = place]
Runs(op) == mode = "up" /\ op \in use.ops

-----------------------------------------------------------------------------
(* The execution of scripts.                                               *)

\* The next write of thread t.
DoWrite(t) ==
  /\ mode = "up" /\ script[t] # << >>
  /\ Head(script[t]).op \notin {"state", "load", "backh", "backf", "backb"}
  /\ Write(Head(script[t]))
  /\ LET w == Head(script[t]) IN
       script' = [script EXCEPT ![t] = IF w.op = "canon" THEN AfterCanon(w.b, Tail(@)) ELSE Tail(@)]
  /\ UNCHANGED <<mode, lock, pc, status, work, parked, otherVars>>

\* Mutation: the states of the newest blocks are collected too.
CollectedToHead(keep, old) == {x \in keep : Num[x] > Num[old] + Tries}
\* States in the cache that survive a collection up to the number of old.
Collected(keep, old) == {x \in keep : Num[x] > Num[old]}

\* None when the number is not assigned, or its header is gone.
GetHeaderByNumber(n) == IF canon[n] \in headers THEN canon[n] ELSE None

\* The state of b is committed to the trie cache; if enough time was spent
\* the state Tries blocks below is flushed to disk; states at or below that
\* number lose the references of the garbage collector.
CommitState(t) ==
  /\ mode = "up" /\ script[t] # << >> /\ Head(script[t]).op = "state"
  /\ LET b == Head(script[t]).b
         old == IF Num[b] > Tries THEN GetHeaderByNumber(Num[b] - Tries) ELSE None
         keep == mem \cup {b}
     IN IF Num[b] <= Tries
          THEN mem' = keep /\ UNCHANGED <<mode, disk>>
          ELSE IF old = None
            THEN mode' = "panic" /\ UNCHANGED <<mem, disk>>
            ELSE /\ disk' \in {disk, disk \cup (keep \cap {old})}
                 /\ mem' = Collected(keep, old)
                 /\ UNCHANGED mode
  /\ script' = [script EXCEPT ![t] = Tail(@)]
  /\ UNCHANGED <<headers, bodies, tds, canon, headBlock, headHeader, headFast, lookup, headVars,
                 future, lock, pc, status, work, parked, otherVars>>

\* Mutation: the head block is taken without looking for its state.
UnrepairedHead(b) == b
\* repair: the closest ancestor with a state; None when a block is missing.
Repaired(b) ==
  LET good == {x \in Path[b] : HasState(x) /\ \A y \in Path[b] : Num[y] >= Num[x] => Present(y)}
  IN IF good = {} THEN None ELSE CHOOSE x \in good : \A y \in good : Num[y] <= Num[x]

\* loadLastState.  A missing head block leads to Reset, which reads the head
\* in memory before there is one (and within SetHead waits for its own lock).
LoadLastState(now) ==
  IF ~Present(headBlock) \/ Repaired(headBlock) = None
    THEN mode' = "panic" /\ UNCHANGED <<headVars, headHeader>>
    ELSE /\ mode' = now
         /\ curBlock' = Repaired(headBlock)
         /\ curHeader' = IF headHeader \in headers THEN headHeader ELSE curBlock'
         /\ headHeader' = curHeader'
         /\ curFast' = IF Present(headFast) THEN headFast ELSE curBlock'

Load(t) ==
  /\ mode = "up" /\ script[t] # << >> /\ Head(script[t]).op = "load"
  /\ LoadLastState("up")
  /\ script' = [script EXCEPT ![t] = Tail(@)]
  /\ UNCHANGED <<headers, bodies, tds, canon, headBlock, headFast, disk, lookup, mem, future,
                 lock, pc, status, work, parked, otherVars>>

\* A critical section of t begins with the writes s, and ends.
Acquire(t, s, result) ==
  /\ lock = None /\ lock' = t
  /\ script' = [script EXCEPT ![t] = s]
  /\ status' = [status EXCEPT ![t] = result]
Release(t) ==
  /\ lock = t /\ script[t] = << >> /\ lock' = None
  /\ UNCHANGED <<script, status>>

-----------------------------------------------------------------------------
(* WriteBlockWithState.                                                    *)

NewSide(b) == Path[b] \ Path[curBlock]
OldSide(b) == Path[curBlock] \ Path[b]
TxsOf(S)   == UNION {Txs[x] : x \in S}

\* Blocks that reorg reads while it looks for the common ancestor.
ReorgPossible(b) == \A x \in NewSide(b) \cup OldSide(b) : Present(Parent[x])

\* Mutation: lookups of transactions that the new branch also holds are deleted.
ReorgDeletesAll(b) ==
  FlattenSeq([i \in 1..Cardinality(NewSide(b)) |->
    LET x == ByNumber(NewSide(b))[i] IN Insert(x) \o <<W("index", x)>>])
  \o <<W("unindex", TxsOf(OldSide(b)))>>
\* Mutation: the number index of the new branch is not written.
ReorgKeepsNumbers(b) ==
  [i \in 1..Cardinality(NewSide(b)) |-> W("index", ByNumber(NewSide(b))[i])]
  \o <<W("unindex", TxsOf(OldSide(b)) \ TxsOf(NewSide(b)))>>
Reorg(b) ==
  FlattenSeq([i \in 1..Cardinality(NewSide(b)) |->
    LET x == ByNumber(NewSide(b))[i] IN Insert(x) \o <<W("index", x)>>])
  \o <<W("unindex", TxsOf(OldSide(b)) \ TxsOf(NewSide(b)))>>

\* Mutation: the longer chain wins, not the heavier one.
WinsByLength(b, coin) == Num[b] > Num[curBlock] \/ (Num[b] = Num[curBlock] /\ coin)
\* A heavier block wins; a tie goes to the lower number, then to a coin.
Wins(b, coin) ==
  \/ TD[b] > TD[curBlock]
  \/ TD[b] = TD[curBlock] /\ (Num[b] < Num[curBlock] \/ (Num[b] = Num[curBlock] /\ coin))

\* Its writes: total difficulty, state, the reorganisation if the parent is not
\* the head, the block with its lookups in a batch, the head.
WriteBlock(b, coin) ==
  <<W("td", b), W("state", b)>> \o
  (IF ~Wins(b, coin) THEN <<W("side", b), W("unfuture", b)>>
   ELSE IF Parent[b] = curBlock THEN <<W("best", b)>> \o Insert(b) \o <<W("unfuture", b)>>
   ELSE IF ~ReorgPossible(b) THEN << >>
   ELSE Reorg(b) \o <<W("best", b)>> \o Insert(b) \o <<W("unfuture", b)>>)

\* What it returns.
WriteStatus(b, coin) ==
  IF ~Wins(b, coin) THEN "side"
  ELSE IF Parent[b] = curBlock \/ ReorgPossible(b) THEN "canon" ELSE "error"

WriteBlockWithState(t, b) ==
  /\ pc[t] = "lock"
  /\ \E coin \in BOOLEAN : Acquire(t, WriteBlock(b, coin), WriteStatus(b, coin))
  /\ Goto(t, "held")

-----------------------------------------------------------------------------
(* InsertChain.                                                            *)

\* A block to import: kind "block", or "direct" after its ancestors, or "header";
\* first tells whether it is the first of its segment, header what VerifyHeaders
\* said, free whether chainmu has to be taken again before it.
Entry(b, kind, first, free) ==
  [b |-> b, kind |-> kind, first |-> first, header |-> "none", free |-> free]
Entries(seg, kind, free) == [i \in 1..Len(seg) |-> Entry(seg[i], kind, i = 1, free /\ i = 1)]

Importing == mode = "up" /\ pc["insert"] = "next" /\ (work # << >> => ~Head(work).free)
Released == mode = "up" /\ pc["insert"] = "next" /\ work # << >> /\ Head(work).free
Next1 == Head(work)
Locked == <<[Next1 EXCEPT !.free = FALSE]>> \o Tail(work)

\* An import that waits for chainmu takes it, from nobody or from the other one.
TakeChainmu ==
  /\ Released /\ parked = << >>
  /\ work' = Locked
  /\ UNCHANGED <<storeVars, mode, lock, script, pc, status, parked, otherVars>>
GiveWay ==
  /\ Released /\ parked # << >>
  /\ work' = parked /\ parked' = Locked
  /\ UNCHANGED <<storeVars, mode, lock, script, pc, status, otherVars>>

\* An import of seg takes chainmu: there is no other import, or it has let go of
\* it.  (Bound: two imports at a time.)
Enter(seg, kind) ==
  /\ \/ pc["insert"] = "idle" /\ UNCHANGED parked
     \/ Released /\ parked = << >> /\ parked' = Locked
  /\ work' = Entries(seg, kind, FALSE)
  /\ Goto("insert", "next")

InsertChain(seg) ==
  /\ Runs("import") /\ Enter(seg, "block")
  /\ UNCHANGED <<storeVars, mode, lock, script, status, otherVars>>

\* procFutureBlocks hands every waiting block to InsertChain.
ProcFutureBlocks == \E b \in future : InsertChain(<<b>>)

\* The end of insertChain; an import that waits for chainmu goes on.
Finish ==
  /\ work' = parked /\ parked' = << >>
  /\ Goto("insert", IF parked = << >> THEN "idle" ELSE "next")

\* verifyHeaderWorker: the parent of the first header must be known.
HeaderVerdict(e) ==
  IF e.first /\ Parent[e.b] \notin headers THEN "unknown"
  ELSE IF e.b \notin headers /\ e.b \in early THEN "future" ELSE "ok"

\* Mutation: a block counts as known whether or not its state is there.
VerdictKnownBlock(e) ==
  CASE e.header # "ok" -> e.header
    [] Present(e.b) -> "known"
    [] Present(Parent[e.b]) /\ HasState(Parent[e.b]) -> "ok"
    [] Parent[e.b] \in bodies -> "pruned"
    [] OTHER -> "unknown"
\* The error that insertChain switches on: the header's, or else ValidateBody's.
Verdict(e) ==
  CASE e.header # "ok" -> e.header
    [] Present(e.b) /\ HasState(e.b) -> "known"
    [] Present(Parent[e.b]) /\ HasState(Parent[e.b]) -> "ok"
    [] Parent[e.b] \in bodies -> "pruned"
    [] OTHER -> "unknown"

\* The verdict on a header is computed ahead of its use.
VerifyHeader ==
  /\ Importing /\ work # << >> /\ Next1.kind = "block" /\ Next1.header = "none"
  /\ work' = <<[Next1 EXCEPT !.header = HeaderVerdict(Next1)]>> \o Tail(work)
  /\ UNCHANGED <<storeVars, mode, lock, script, pc, status, parked, otherVars>>

\* The first block of work has a verdict v.
Judged(v) ==
  /\ Importing /\ work # << >> /\ Next1.kind = "block" /\ Next1.header # "none"
  /\ Verdict(Next1) = v

InsertEnds ==
  /\ Importing /\ work = << >>
  /\ Finish
  /\ UNCHANGED <<storeVars, mode, lock, script, status, otherVars>>

\* Known blocks at or below the head are skipped.
SkipKnown ==
  /\ Judged("known") /\ Num[curBlock] >= Num[Next1.b]
  /\ work' = Tail(work)
  /\ UNCHANGED <<storeVars, mode, lock, script, pc, status, parked, otherVars>>

\* Future blocks and children of future blocks wait, unless too far ahead.
AddFuture ==
  /\ Judged("future") \/ (Judged("unknown") /\ Parent[Next1.b] \in future)
  /\ future' = future \cup {Next1.b}
  /\ work' = Tail(work)
  /\ UNCHANGED <<dbVars, headVars, mem, mode, lock, script, pc, status, parked, otherVars>>

\* Mutation: a side block is stored without its header.
BodyWithoutHeader(b) == <<W("td", b), W("body", b)>>
\* The writes of a block whose state is unknown.
WriteBlockWithoutState(b) == <<W("td", b), W("body", b), W("header", b)>>

\* A block on a pruned fork that is lighter than the head is only stored.
TdsKnown == curBlock \in tds /\ Parent[Next1.b] \in tds
StoreSide ==
  /\ Judged("pruned") /\ TdsKnown /\ TD[curBlock] > TD[Next1.b]
  /\ script' = [script EXCEPT !["insert"] = WriteBlockWithoutState(Next1.b)]
  /\ Goto("insert", "flush")
  /\ UNCHANGED <<storeVars, mode, lock, status, work, parked, otherVars>>

SideStored ==
  /\ mode = "up" /\ pc["insert"] = "flush" /\ script["insert"] = << >>
  /\ work' = Tail(work)
  /\ Goto("insert", "next")
  /\ UNCHANGED <<storeVars, mode, lock, script, status, parked, otherVars>>

\* Otherwise its ancestors without a state are imported first, by a nested
\* insertChain, and then the block; chainmu is free before each of the two.
Pruned(b) == {x \in Path[b] \ {b} : \A y \in Path[b] \ {b} : Num[y] >= Num[x] => ~HasState(y)}
ImportWinner ==
  /\ Judged("pruned") /\ (TdsKnown => TD[curBlock] <= TD[Next1.b])
  /\ LET b == Next1.b
     IN IF TdsKnown /\ \A x \in Pruned(b) : Present(x)
          THEN /\ work' = Entries(ByNumber(Pruned(b)), "block", TRUE)
                          \o <<Entry(b, "direct", Next1.first, TRUE)>> \o Tail(work)
               /\ UNCHANGED mode
          ELSE mode' = "panic" /\ UNCHANGED work
  /\ UNCHANGED <<storeVars, lock, script, pc, status, parked, otherVars>>

\* Anything else that is not importable ends the import.
InsertFails ==
  /\ Judged("future") \/ (Judged("unknown") /\ Parent[Next1.b] \notin future)
  /\ Finish
  /\ UNCHANGED <<storeVars, mode, lock, script, status, otherVars>>

\* The block is executed on the state of its parent.
Execute ==
  /\ \/ Judged("ok")
     \/ Judged("known") /\ Num[curBlock] < Num[Next1.b]
     \/ Importing /\ work # << >> /\ Next1.kind = "direct"
  /\ LET p == Parent[Next1.b] IN
     IF Next1.first /\ ~Present(p)
       THEN /\ mode' = "panic"
            /\ UNCHANGED <<pc, work, parked>>
       ELSE IF ~HasState(p) \/ Next1.b \in use.invalid
         THEN Finish /\ UNCHANGED mode
         ELSE /\ Goto("insert", "td")
              /\ UNCHANGED <<mode, work, parked>>
  /\ UNCHANGED <<storeVars, lock, script, status, otherVars>>

\* The parent's total difficulty is read before mu is taken.
ReadTd ==
  /\ mode = "up" /\ pc["insert"] = "td"
  /\ IF Parent[Next1.b] \in tds
       THEN Goto("insert", "lock") /\ UNCHANGED <<work, parked>>
       ELSE Finish
  /\ UNCHANGED <<storeVars, mode, lock, script, status, otherVars>>

WriteNext ==
  /\ mode = "up"
  /\ WriteBlockWithState("insert", Next1.b)
  /\ UNCHANGED <<storeVars, mode, work, parked, otherVars>>

Written ==
  /\ mode = "up" /\ pc["insert"] = "held" /\ Next1.kind # "header"
  /\ Release("insert")
  /\ IF status["insert"] = "error"
       THEN Finish
       ELSE /\ work' = Tail(work)
            /\ Goto("insert", "next") /\ UNCHANGED parked
  /\ UNCHANGED <<storeVars, mode, otherVars>>

-----------------------------------------------------------------------------
(* The miner.                                                              *)

\* The miner seals a block on a head that it saw.
Seal(b) ==
  /\ Runs("mine") /\ pc["mine"] = "idle"
  /\ b \in use.seals /\ Parent[b] = curBlock /\ HasState(curBlock)
  /\ mined' = b /\ Goto("mine", "td")
  /\ UNCHANGED <<storeVars, mode, lock, script, status, work, receipts, early, stopped, crashes, use, parked>>

MinerReadTd ==
  /\ mode = "up" /\ pc["mine"] = "td"
  /\ IF Parent[mined] \in tds
       THEN Goto("mine", "lock") /\ UNCHANGED mined
       ELSE Goto("mine", "idle") /\ mined' = None
  /\ UNCHANGED <<storeVars, mode, lock, script, status, work, receipts, early, stopped, crashes, use, parked>>

MinerWrite ==
  /\ mode = "up"
  /\ WriteBlockWithState("mine", mined)
  /\ UNCHANGED <<storeVars, mode, work, parked, otherVars>>

MinerWritten ==
  /\ mode = "up" /\ pc["mine"] = "held"
  /\ Release("mine")
  /\ mined' = None /\ Goto("mine", "idle")
  /\ UNCHANGED <<storeVars, mode, work, receipts, early, stopped, crashes, use, parked>>

-----------------------------------------------------------------------------
(* Rewinds.                                                                *)

\* The writes of a rewind to header h: the headers, bodies and numbers above it
\* go, a head block without a body or a state becomes the genesis.
Rewound(h) ==
  LET b == IF Num[h] < Num[curBlock] THEN h ELSE curBlock
      f == IF Num[h] < Num[curFast] THEN h ELSE curFast
  IN <<W("wipe", h), W("hhead", h),
       W("head", IF Present(b) /\ HasState(b) THEN b ELSE Genesis),
       W("fhead", IF Present(f) THEN f ELSE Genesis),
       W("load", None)>>

\* SetHead(n): the header chain is cut above n.
SetHead(n) ==
  /\ Runs("sethead") /\ pc["rpc"] = "idle"
  /\ Acquire("rpc", Rewound(IF Num[curHeader] <= n THEN curHeader ELSE Ancestor(curHeader, n)), "none")
  /\ Goto("rpc", "held")
  /\ UNCHANGED <<storeVars, mode, work, parked, otherVars>>

\* Rollback: from the last hash to the first, a head that is the hash moves to
\* its parent, first the header, then the fast block, then the block.
Rollback(seg) ==
  /\ Runs("rollback") /\ pc["rpc"] = "idle"
  /\ Acquire("rpc", FlattenSeq([i \in 1..Len(seg) |->
       LET b == seg[Len(seg) + 1 - i] IN <<W("backh", b), W("backf", b), W("backb", b)>>]), "none")
  /\ Goto("rpc", "held")
  /\ UNCHANGED <<storeVars, mode, work, parked, otherVars>>

StepBack(t) ==
  /\ mode = "up" /\ script[t] # << >>
  /\ LET w == Head(script[t])
         p == Parent[w.b]
         hit == \/ w.op = "backh" /\ curHeader = w.b
                \/ w.op = "backf" /\ curFast = w.b
                \/ w.op = "backb" /\ curBlock = w.b
         gone == IF w.op = "backh" THEN p \notin headers ELSE ~Present(p)
         moves(op) == hit /\ ~gone /\ w.op = op
     IN /\ w.op \in {"backh", "backf", "backb"}
        /\ mode' = IF hit /\ gone THEN "panic" ELSE mode
        /\ curHeader' = IF moves("backh") THEN p ELSE curHeader
        /\ headHeader' = IF moves("backh") THEN p ELSE headHeader
        /\ curFast' = IF moves("backf") THEN p ELSE curFast
        /\ headFast' = IF moves("backf") THEN p ELSE headFast
        /\ curBlock' = IF moves("backb") THEN p ELSE curBlock
        /\ headBlock' = IF moves("backb") THEN p ELSE headBlock
  /\ script' = [script EXCEPT ![t] = Tail(@)]
  /\ UNCHANGED <<headers, bodies, tds, canon, disk, lookup, mem, future, lock, pc, status,
                 work, parked, otherVars>>

RewindEnds ==
  /\ mode = "up" /\ pc["rpc"] = "held"
  /\ Release("rpc") /\ Goto("rpc", "idle")
  /\ UNCHANGED <<storeVars, mode, work, parked, otherVars>>

-----------------------------------------------------------------------------
(* Fast sync: headers, then bodies and receipts, then the pivot's state.   *)

InsertHeaderChain(seg) ==
  /\ Runs("headers") /\ Enter(seg, "header")
  /\ Parent[seg[1]] \in headers
  /\ UNCHANGED <<storeVars, mode, lock, script, status, otherVars>>

SkipHeader ==
  /\ Importing /\ work # << >> /\ Next1.kind = "header" /\ Next1.b \in headers
  /\ work' = Tail(work)
  /\ UNCHANGED <<storeVars, mode, lock, script, pc, status, parked, otherVars>>

\* Mutation: ancestors of the new head header keep their old numbers.
StaleIgnored(b) == {x \in Path[b] \ {b} : FALSE}
\* Ancestors of b, from its parent down, that are not canonical.
Stale(b) == {x \in Path[b] \ {b} : \A y \in Path[b] \ {b} : Num[y] >= Num[x] => canon[Num[y]] # y}

WriteHeader ==
  /\ Importing /\ work # << >> /\ Next1.kind = "header" /\ Next1.b \notin headers
  /\ LET b == Next1.b
         base == <<W("td", b), W("header", b)>>
         stale == Reverse(ByNumber(Stale(b)))
     IN IF Parent[b] \notin tds
          THEN /\ lock = None
               /\ Finish /\ UNCHANGED <<mode, lock, script, status>>
          ELSE \/ /\ TD[b] >= TD[curHeader]
                  /\ IF Stale(b) \subseteq headers
                       THEN /\ Acquire("insert",
                                 base \o <<W("trim", b)>>
                                   \o [i \in 1..Len(stale) |-> W("number", stale[i])]
                                   \o <<W("number", b), W("hhead", b)>>, "canon")
                            /\ Goto("insert", "held") /\ UNCHANGED mode
                       ELSE /\ lock = None /\ mode' = "panic"
                            /\ UNCHANGED <<lock, script, pc, status>>
                  /\ UNCHANGED <<work, parked>>
               \/ /\ TD[b] <= TD[curHeader]
                  /\ Acquire("insert", base, "side")
                  /\ Goto("insert", "held") /\ UNCHANGED <<mode, work, parked>>
  /\ UNCHANGED <<storeVars, otherVars>>

HeaderWritten ==
  /\ mode = "up" /\ pc["insert"] = "held" /\ Next1.kind = "header"
  /\ Release("insert")
  /\ work' = Tail(work) /\ Goto("insert", "next")
  /\ UNCHANGED <<storeVars, mode, parked, otherVars>>

\* InsertReceiptChain looks up which bodies are missing.  The downloader hands
\* over bodies in the order of the chain.
InsertReceiptChain(seg) ==
  /\ Runs("receipts") /\ pc["fast"] = "idle"
  /\ Range(seg) \subseteq headers /\ Present(Parent[seg[1]])
  /\ receipts' = [new |-> Range(seg) \ bodies, last |-> Last(seg)]
  /\ Goto("fast", "batch")
  /\ UNCHANGED <<storeVars, mode, lock, script, status, work, mined, early, stopped, crashes, use, parked>>

\* Then it writes them and their lookups in a batch, without a lock ...
ReceiptsWritten ==
  /\ mode = "up" /\ pc["fast"] = "batch"
  /\ bodies' = bodies \cup receipts.new
  /\ lookup' = [t \in AllTxs |-> IF t \in TxsOf(receipts.new)
                                   THEN CHOOSE b \in receipts.new : t \in Txs[b] ELSE lookup[t]]
  /\ Goto("fast", "head")
  /\ UNCHANGED <<headers, tds, canon, headBlock, headHeader, headFast, disk, headVars, mem, future,
                 mode, lock, script, status, work, parked, otherVars>>

\* Mutation: the fast head moves without looking whether the block is still there.
BetterFastUnchecked(b) == TD[curFast] < TD[b]
\* ... and moves the fast head under mu, unless a rewind took the block away.
BetterFast(b) == b \in tds /\ TD[curFast] < TD[b]
FastHead ==
  /\ mode = "up" /\ pc["fast"] = "head" /\ lock = None
  /\ IF BetterFast(receipts.last)
       THEN headFast' = receipts.last /\ curFast' = receipts.last
       ELSE UNCHANGED <<headFast, curFast>>
  /\ receipts' = NoReceipts /\ Goto("fast", "idle")
  /\ UNCHANGED <<headers, bodies, tds, canon, headBlock, headHeader, disk, lookup, curBlock,
                 curHeader, mem, future, mode, lock, script, status, work, mined,
                 early, stopped, crashes, use, parked>>

\* The downloader's state sync brings in the state of the pivot block.
SyncState(b) ==
  /\ Runs("commit") /\ b \in bodies /\ b \notin disk
  /\ disk' = disk \cup {b}
  /\ UNCHANGED <<headers, bodies, tds, canon, headBlock, headHeader, headFast, lookup, headVars,
                 mem, future, mode, lock, script, pc, status, work, parked, otherVars>>

\* FastSyncCommitHead looks for the block and its state, then takes mu.
FastSyncCommitHead(b) ==
  /\ Runs("commit") /\ pc["fast"] = "idle"
  /\ Present(b) /\ HasState(b)
  /\ receipts' = [NoReceipts EXCEPT !.last = b]
  /\ Goto("fast", "commit")
  /\ UNCHANGED <<storeVars, mode, lock, script, status, work, mined, early, stopped, crashes, use, parked>>
CommitHead ==
  /\ mode = "up" /\ pc["fast"] = "commit" /\ lock = None
  /\ curBlock' = receipts.last
  /\ receipts' = NoReceipts /\ Goto("fast", "idle")
  /\ UNCHANGED <<dbVars, curHeader, curFast, mem, future, mode, lock, script, status, work,
                 mined, early, stopped, crashes, use, parked>>

-----------------------------------------------------------------------------
(* Shutdown, crash and restart.                                            *)

\* Numbers whose state Stop writes to disk: the head, the one below, and the
\* lowest one the garbage collector still keeps.
Kept == {Num[curBlock] - o : o \in {x \in {0, 1, Tries - 1} : Num[curBlock] > x}}

\* An import in progress ends before its next block.
BetweenBlocks ==
  \A s \in {work, parked} : s # << >> => Head(s).kind # "direct" /\ Head(s).header = "none"

Stop ==
  /\ Runs("stop") /\ lock = None
  /\ \A t \in Threads : script[t] = << >>
  /\ pc["insert"] # "idle" => pc["insert"] = "next" /\ BetweenBlocks
  /\ pc["mine"] \in {"idle", "td"} /\ pc["fast"] = "idle"
  /\ IF \E n \in Kept : canon[n] = None \/ ~Present(canon[n])
       THEN mode' = "panic" /\ UNCHANGED <<disk, headVars, stopped>>
       ELSE /\ disk' = disk \cup ({canon[n] : n \in Kept} \cap mem)
            /\ mode' = "down" /\ stopped' = curBlock
            /\ curBlock' = Genesis /\ curHeader' = Genesis /\ curFast' = Genesis
  /\ Volatile
  /\ UNCHANGED <<headers, bodies, tds, canon, headBlock, headHeader, headFast, lookup, early,
                 crashes, use>>

Crash ==
  /\ Runs("crash") /\ crashes < MaxCrashes
  /\ crashes' = crashes + 1
  /\ mode' = "down" /\ stopped' = None
  /\ curBlock' = Genesis /\ curHeader' = Genesis /\ curFast' = Genesis
  /\ Volatile
  /\ UNCHANGED <<dbVars, early, use>>

\* NewBlockChain.
Restart ==
  /\ mode = "down"
  /\ LoadLastState("up")
  /\ stopped' = None
  /\ UNCHANGED <<headers, bodies, tds, canon, headBlock, headFast, disk, lookup, mem, future,
                 lock, script, pc, status, work, mined, receipts, early, crashes, use, parked>>

\* Time passes.
Tick(b) ==
  /\ mode = "up" /\ b \in early
  /\ early' = early \ {b}
  /\ UNCHANGED <<storeVars, mode, lock, script, pc, status, work, mined, receipts, stopped, crashes, use, parked>>

-----------------------------------------------------------------------------
Script == \E t \in Threads : DoWrite(t) \/ CommitState(t) \/ Load(t) \/ StepBack(t)

\* The steps of an import that has begun.
Steps == VerifyHeader \/ InsertEnds \/ SkipKnown \/ AddFuture \/ StoreSide \/ SideStored \/ ImportWinner
         \/ TakeChainmu \/ GiveWay \/ InsertFails \/ Execute \/ ReadTd \/ WriteNext \/ Written

Import == \/ \E seg \in use.segments : InsertChain(seg)
          \/ ProcFutureBlocks
          \/ Steps

Miner == (\E b \in Blocks : Seal(b)) \/ MinerReadTd \/ MinerWrite \/ MinerWritten

Rewind == \/ \E n \in use.targets : SetHead(n)
          \/ \E seg \in use.segments : Rollback(seg)
          \/ RewindEnds

FastSync == \/ \E seg \in use.segments : InsertHeaderChain(seg)
            \/ SkipHeader \/ WriteHeader \/ HeaderWritten
            \/ \E seg \in use.segments : InsertReceiptChain(seg)
            \/ ReceiptsWritten \/ FastHead
            \/ \E b \in Blocks : SyncState(b) \/ FastSyncCommitHead(b)
            \/ CommitHead

Lifecycle == Stop \/ Crash \/ Restart \/ \E b \in Late : Tick(b)

Next == Script \/ Import \/ Miner \/ Rewind \/ FastSync \/ Lifecycle

Spec == Init /\ [][Next]_vars

\* Threads run on, a node that is down is started again, time passes, the
\* ticker of update fires again and again, and peers keep offering every
\* segment.
Fairness ==
  /\ WF_vars(Script) /\ WF_vars(Steps) /\ WF_vars(Restart)
  /\ \A b \in Late : WF_vars(Tick(b))
  /\ SF_vars(ProcFutureBlocks)
  /\ \A seg \in Segments : SF_vars(seg \in use.segments /\ InsertChain(seg))
FairSpec == Spec /\ Fairness

-----------------------------------------------------------------------------
(* Properties.  A chain at rest is up and has no writes pending.           *)

AtRest == mode = "up" /\ lock = None /\ \A t \in Threads : script[t] = << >>

\* Nothing but whole blocks is imported; nobody rewinds the chain.
WholeBlocks == "headers" \notin use.ops
OnlyGrows == WholeBlocks /\ "sethead" \notin use.ops

\* insert and reorg keep the number index on the branch of the head block:
\* GetBlockByNumber below the head returns the head's ancestors; the three heads
\* lie on that branch, and are what a restart would load.
CanonicalLinked ==
  AtRest /\ WholeBlocks =>
    /\ \A b \in Path[curBlock] \cup {curBlock, curHeader, curFast} : canon[Num[b]] = b
    /\ headBlock = curBlock /\ headHeader = curHeader /\ headFast = curFast

\* A block on another branch, not heavier, at least Tries above the head: the states
\* to collect are chosen by the number of the block that is written.
Outgrown == \E b \in tds : /\ curBlock \notin Path[b] /\ TD[b] <= TD[curBlock]
                           /\ Num[b] >= Num[curBlock] + Tries

\* The head block can be built upon: block and total difficulty exist, and its
\* state can be computed from that of an ancestor.  The state itself is there unless
\* a side branch has outgrown the head (WriteBlockWithState).
HeadUsable ==
  AtRest /\ OnlyGrows =>
    /\ Present(curBlock) /\ curBlock \in tds /\ Repaired(curBlock) # None
    /\ HasState(curBlock) \/ Outgrown

\* Fork choice: no complete block in the database is heavier than the head,
\* whichever thread wrote it and in whichever order.
HeaviestWins ==
  AtRest /\ OnlyGrows => \A b \in Blocks : Present(b) => TD[b] <= TD[curBlock]

\* Transaction lookups point into the branch of the head, at the block that
\* holds the transaction, and exactly the transactions of that branch have one.
LookupCanonical ==
  AtRest /\ OnlyGrows => \A t \in AllTxs :
    IF \E b \in Path[curBlock] : t \in Txs[b]
      THEN lookup[t] \in Path[curBlock] /\ t \in Txs[lookup[t]]
      ELSE lookup[t] = None


\* Whatever the order of arrival, the forks, the pruned states and the restarts,
\* a node that stays up ends on the heaviest branch it is offered.
Offered == UNION {Range(seg) : seg \in use.segments} \ use.invalid
Converges == <>[](mode = "up") => <>[](\A b \in Offered : TD[b] <= TD[curBlock])

\* The header chain is linked below the head header.
HeadersLinked == AtRest => \A b \in Path[curHeader] : b \in headers /\ b \in tds /\ canon[Num[b]] = b

\* Whatever rewinds and reorganisations of the header chain do meanwhile, the
\* fast head that InsertReceiptChain leaves has a header and a total difficulty.
FastHeadKnown == AtRest => curFast \in headers /\ curFast \in tds

\* The process does not end in a run-time panic.
NoPanic == OnlyGrows => mode # "panic"

\* A chain that only grows has one way to panic: WriteBlockWithState has no
\* canonical header Tries below a block of a branch that is longer by more than that.
\* Reorganisations, imports of pruned branches and the miner never miss a block.
OnlyPanic ==
  [][OnlyGrows /\ mode' = "panic" =>
       \E t \in Threads : /\ script[t] # << >> /\ Head(script[t]).op = "state"
                          /\ curBlock \notin Path[Head(script[t]).b]
                          /\ Num[Head(script[t]).b] > Num[curBlock] + Tries]_vars
=============================================================================
