----------------------------- MODULE ChainStore -----------------------------
(***************************************************************************)
(* What core/rawdb keeps of the chain on disk, the heads that              *)
(* core/blockchain.go and core/headerchain.go keep beside it in memory,    *)
(* and the single writes that their critical sections are made of.         *)
(*                                                                         *)
(* A block stands for its hash; number, parent, difficulty, transactions   *)
(* and validity are constants.  Total difficulty is a function of the      *)
(* block, so the database only tells whether it is stored.  Every block    *)
(* has a state root of its own.                                            *)
(***************************************************************************)
EXTENDS Integers, SequencesExt

CONSTANTS
  Blocks,    \* all blocks
  Genesis,
  Parent,    \* parent of every other block
  Num,       \* block number
  Diff,      \* difficulty
  Txs,       \* transactions of each block
  Tries,     \* blockchain.go triesInMemory
  None       \* no block

ASSUME TreeAssumption ==
  /\ IsFiniteSet(Blocks) /\ Genesis \in Blocks /\ None \notin Blocks
  /\ Parent \in [Blocks \ {Genesis} -> Blocks]
  /\ Num \in [Blocks -> Nat] /\ Num[Genesis] = 0
  /\ \A b \in Blocks \ {Genesis} : Num[b] = Num[Parent[b]] + 1
  /\ Diff \in [Blocks -> Nat \ {0}]
  /\ Tries \in Nat \ {0}

VARIABLES
  headers, bodies, tds,             \* blocks whose record is on disk
  canon,                            \* canonical hash of each number
  headBlock, headHeader, headFast,  \* head markers on disk
  disk,                             \* blocks whose state is on disk
  lookup,                           \* block a transaction is looked up in
  curBlock, curHeader, curFast,     \* heads in memory
  mem,                              \* blocks whose state the trie cache references
  future                            \* blocks waiting for their time

dbVars    == <<headers, bodies, tds, canon, headBlock, headHeader, headFast, disk, lookup>>
headVars  == <<curBlock, curHeader, curFast>>
storeVars == <<dbVars, headVars, mem, future>>

Numbers == {Num[b] : b \in Blocks}
AllTxs  == UNION {Txs[b] : b \in Blocks}

\* The blocks from the genesis up to b, and their accumulated difficulty.
Path[b \in Blocks] == IF b = Genesis THEN {b} ELSE Path[Parent[b]] \cup {b}
TD[b \in Blocks] == IF b = Genesis THEN Diff[b] ELSE TD[Parent[b]] + Diff[b]

Ancestor(b, n) == CHOOSE x \in Path[b] : Num[x] = n
ByNumber(S) == SetToSortSeq(S, LAMBDA x, y : Num[x] < Num[y])

Present(b)  == b \in headers /\ b \in bodies
HasState(b) == b \in disk \/ b \in mem

StoreInit ==
  /\ headers = {Genesis} /\ bodies = {Genesis} /\ tds = {Genesis}
  /\ canon = [n \in Numbers |-> IF n = 0 THEN Genesis ELSE None]
  /\ headBlock = Genesis /\ headHeader = Genesis /\ headFast = Genesis
  /\ disk = {Genesis}
  /\ lookup = [t \in AllTxs |-> None]
  /\ curBlock = Genesis /\ curHeader = Genesis /\ curFast = Genesis
  /\ mem = {}
  /\ future = {}

-----------------------------------------------------------------------------
(* Single writes.  A write to the database and the store of the head in    *)
(* memory beside it are one step.                                          *)

W(op, b) == [op |-> op, b |-> b]

\* insert(b): canonical number, head block, and the other two heads, which
\* the "canon" write drops from the script when the number is b's already.
Insert(b) == <<W("canon", b), W("head", b), W("hhead", b), W("fhead", b)>>
AfterCanon(b, rest) ==
  IF canon[Num[b]] # b THEN rest ELSE <<rest[1]>> \o SubSeq(rest, 4, Len(rest))

\* Blocks that a rewind of the header chain to header b deletes.
Doomed(b) == {x \in Path[curHeader] : Num[x] > Num[b]}

\* Numbers above n that are assigned without a gap.
Assigned(n) == {m \in Numbers : m > n /\ \A k \in (n + 1)..m : canon[k] # None}

Put(S, on, b) == IF on THEN S \cup {b} ELSE S

\* Writes of block data, indices and heads.  The operations that take a set
\* or a state apart ("state", "load") have actions of their own.
Write(w) ==
  /\ tds' = IF w.op = "wipe" THEN tds \ Doomed(w.b) ELSE Put(tds, w.op = "td", w.b)
  /\ headers' = IF w.op = "wipe" THEN headers \ Doomed(w.b)
                ELSE Put(headers, w.op \in {"header", "side", "best"}, w.b)
  /\ bodies' = IF w.op = "wipe" THEN bodies \ Doomed(w.b)
               ELSE Put(bodies, w.op \in {"body", "side", "best"}, w.b)
  /\ canon' = CASE w.op \in {"canon", "number"} -> [canon EXCEPT ![Num[w.b]] = w.b]
                [] w.op = "trim" -> [n \in Numbers |->
                                       IF n \in Assigned(Num[w.b]) THEN None ELSE canon[n]]
                [] w.op = "wipe" -> [n \in Numbers |->
                                       IF Num[w.b] < n /\ n <= Num[curHeader] THEN None ELSE canon[n]]
                [] OTHER -> canon
  /\ lookup' = CASE w.op \in {"index", "best"} -> [t \in AllTxs |->
                                                     IF t \in Txs[w.b] THEN w.b ELSE lookup[t]]
                 [] w.op = "unindex" -> [t \in AllTxs |-> IF t \in w.b THEN None ELSE lookup[t]]
                 [] OTHER -> lookup
  /\ headBlock' = IF w.op = "head" THEN w.b ELSE headBlock
  /\ curBlock' = IF w.op = "head" THEN w.b ELSE curBlock
  /\ headHeader' = IF w.op = "hhead" THEN w.b ELSE headHeader
  /\ curHeader' = IF w.op \in {"hhead", "wipe"} THEN w.b ELSE curHeader
  /\ headFast' = IF w.op = "fhead" THEN w.b ELSE headFast
  /\ curFast' = IF w.op = "fhead" THEN w.b ELSE curFast
  /\ future' = CASE w.op = "unfuture" -> future \ {w.b}
                 [] w.op = "wipe" -> {}
                 [] OTHER -> future
  /\ UNCHANGED <<disk, mem>>
=============================================================================
