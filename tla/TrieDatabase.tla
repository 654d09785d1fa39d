---------------------------- MODULE TrieDatabase ----------------------------
(***************************************************************************)
(* The write layer in front of the trie nodes on disk, trie/database.go,   *)
(* driven the way BlockChain.WriteBlockWithState of core/blockchain.go     *)
(* drives it: the state of a block is committed into the cache and         *)
(* referenced, then old nodes are flushed (Cap), one old trie may be       *)
(* persisted (Commit) and the tries of old blocks are dereferenced.  All   *)
(* of that happens under the chain's mutex, so there is one writer; it is  *)
(* interrupted only by a crash, which keeps what the batches have written. *)
(* Readers take a node from the cache or else from disk, so they are       *)
(* served as long as a node they want is in one of the two.                *)
(*                                                                         *)
(* A node is its hash.  Embedded[h] lists the hashes inside h, once per    *)
(* occurrence; External[h] are the storage roots and codes of the accounts *)
(* in h, which the leaf callback of StateDB.Commit references from h.      *)
(* Sizes only decide how far Cap goes and when a batch is full, and are    *)
(* left open; preimages are left out but for the failing write of Commit   *)
(* that returns with the lock held.                                        *)
(***************************************************************************)
EXTENDS Naturals, Sequences, FiniteSets, SequencesExt, BagsExt

CONSTANTS
  Hashes,        \* trie nodes and codes
  Nil,           \* the zero hash, key of the metaroot
  Embedded,      \* [Hashes -> Seq(Hashes)]
  External,      \* [Hashes -> SUBSET Hashes]
  Order,         \* all hashes, children before parents
  Roots,         \* the state roots blocks may have
  Retain,        \* triesInMemory, 128 in the code
  Width,         \* 2^16 in the code: parents is a uint16
  MaxFlush,      \* bound of the model on the nodes one Cap flushes
  MaxBlocks      \* bound of the model on the blocks written

Kids(h) == Range(Embedded[h]) \cup External[h]

ASSUME TrieAssumption ==
  /\ Nil \notin Hashes
  /\ Range(Order) = Hashes /\ IsInjective(Order)
  /\ Embedded \in [Hashes -> Seq(Hashes)]
  /\ External \in [Hashes -> SUBSET Hashes]
  /\ \A j \in DOMAIN Order : \A k \in Kids(Order[j]) :
       \E i \in 1 .. j - 1 : Order[i] = k
  /\ Roots \subseteq Hashes
  /\ Retain \in Nat /\ Width \in Nat \ {0}
  /\ MaxFlush \in Nat /\ MaxBlocks \in Nat

VARIABLES
  db,            \* [nodes, oldest, newest, panic], see Fresh
  disk,          \* hashes in the disk database
  triegc,        \* BlockChain.triegc, a bag of blocks
  written,       \* per number, the roots of the blocks in the database
  blocks,        \* how many times a block has been written
  current,       \* the block that is being written
  stage,         \* what WriteBlockWithState does next
  todo,          \* nodes of the running Cap or Commit still to be written
  target,        \* Cap: the node to stop at; Commit: the root
  archive,       \* cacheConfig.Disabled
  lockHeld,      \* a Commit has returned without releasing db.lock
  capped         \* history: Cap has flushed a node since the start

chainVars == <<written, blocks, current>>
vars == <<db, disk, triegc, chainVars, stage, todo, target, archive,
          lockHeld, capped>>

-----------------------------------------------------------------------------
(* Database. *)

Entry(prev) ==
  [parents |-> 0, children |-> [h \in Hashes |-> 0], prev |-> prev, next |-> Nil]

\* NewDatabase.
Fresh ==
  [nodes |-> Nil :> Entry(Nil), oldest |-> Nil, newest |-> Nil, panic |-> FALSE]

Cached(d) == DOMAIN d.nodes \ {Nil}

Panicked(d) == [d EXCEPT !.panic = TRUE]

\* cachedNode.childs.
Childs(d, h) ==
  SetToSeq({c \in Hashes : d.nodes[h].children[c] > 0})
    \o (IF h = Nil THEN <<>> ELSE Embedded[h])

Occurrences(c, h) == Cardinality({i \in DOMAIN Embedded[h] : Embedded[h][i] = c})

\* Database.insert.  A node without entry is a nil pointer.
Insert(d, h) ==
  LET counted == [c \in DOMAIN d.nodes |->
        IF c = Nil THEN d.nodes[c]
        ELSE [d.nodes[c] EXCEPT !.parents = (@ + Occurrences(c, h)) % Width]]
      nodes == counted @@ (h :> Entry(d.newest))
  IN CASE h \in Cached(d) -> d
       [] h \notin Cached(d) /\ d.oldest = Nil ->
            [d EXCEPT !.nodes = nodes, !.oldest = h, !.newest = h]
       [] h \notin Cached(d) /\ d.oldest # Nil /\ d.newest \in DOMAIN nodes ->
            [d EXCEPT !.nodes = [nodes EXCEPT ![d.newest].next = h],
                      !.newest = h]
       [] OTHER -> Panicked(d)

\* Mutant: the metaroot counts a root once, too.
ReferenceOnce(d, child, parent) ==
  IF child \notin Cached(d) \/ d.nodes[parent].children[child] > 0 THEN d
  ELSE [d EXCEPT !.nodes[child].parents = (@ + 1) % Width,
                 !.nodes[parent].children[child] = @ + 1]

\* Database.reference: only the metaroot counts a child more than once.
Reference(d, child, parent) ==
  IF \/ child \notin Cached(d)
     \/ parent # Nil /\ d.nodes[parent].children[child] > 0
  THEN d
  ELSE [d EXCEPT !.nodes[child].parents = (@ + 1) % Width,
                 !.nodes[parent].children[child] = @ + 1]

\* Takes the node out of the flush-list.
Unlink(d, h) ==
  LET n == d.nodes[h] IN
    CASE h = d.oldest -> [d EXCEPT !.oldest = n.next]
      [] h # d.oldest /\ {n.prev, n.next} \subseteq DOMAIN d.nodes ->
           [d EXCEPT !.nodes = [[@ EXCEPT ![n.prev].next = n.next]
                                  EXCEPT ![n.next].prev = n.prev]]
      [] OTHER -> Panicked(d)

Delete(d, h) ==
  [d EXCEPT !.nodes = [x \in DOMAIN d.nodes \ {h} |-> d.nodes[x]]]

\* Mutant: the count of nothing becomes as much as a uint16 holds.
LoweredWraps(n) == (n + Width - 1) % Width

\* One reference less: a root that was not cached has not been counted, and a
\* node loaded from disk and inserted again may have no parents.
Lowered(n) == IF n > 0 THEN n - 1 ELSE 0

\* Database.dereference.
RECURSIVE Dereference(_, _, _)
Dereference(d, child, parent) ==
  LET dropped == [d EXCEPT !.nodes[parent].children[child] = Lowered(@)]
      lowered == [dropped EXCEPT !.nodes[child].parents = Lowered(@)]
      unlinked == Unlink(lowered, child)
  IN CASE d.panic -> d
       [] ~d.panic /\ child \notin Cached(d) -> dropped
       [] ~d.panic /\ child \in Cached(d) /\ lowered.nodes[child].parents > 0 ->
            lowered
       [] OTHER ->
            Delete(FoldLeft(LAMBDA e, c : Dereference(e, c, child),
                            unlinked, Childs(unlinked, child)),
                   child)

\* Mutant: a node is put before its children.
RECURSIVE CommitParentFirst(_, _)
CommitParentFirst(d, h) ==
  IF h \notin Cached(d) THEN <<>>
  ELSE <<h>> \o FoldLeft(LAMBDA s, c : s \o CommitParentFirst(d, c), <<>>,
                          Childs(d, h))

\* The nodes Database.commit puts into its batch, in its order.
RECURSIVE CommitOrder(_, _)
CommitOrder(d, h) ==
  IF h \notin Cached(d) THEN <<>>
  ELSE FoldLeft(LAMBDA s, c : s \o CommitOrder(d, c), <<>>, Childs(d, h))
         \o <<h>>

\* Database.uncache.
RECURSIVE Uncache(_, _)
Uncache(d, h) ==
  IF d.panic \/ h \notin Cached(d) THEN d
  ELSE LET unlinked == Unlink(d, h) IN
         Delete(FoldLeft(Uncache, unlinked, Childs(unlinked, h)), h)

\* The first k nodes of the flush-list, and what follows them.
RECURSIVE FlushList(_, _, _)
FlushList(d, h, k) ==
  IF k = 0 \/ h = Nil THEN <<>>
  ELSE <<h>> \o FlushList(d, d.nodes[h].next, k - 1)

\* The end of Cap: what has been written leaves the cache.
RECURSIVE DropUntil(_, _)
DropUntil(d, until) ==
  IF d.oldest = until
  THEN IF until = Nil THEN d ELSE [d EXCEPT !.nodes[until].prev = Nil]
  ELSE DropUntil(Delete([d EXCEPT !.oldest = d.nodes[d.oldest].next], d.oldest),
                 until)

-----------------------------------------------------------------------------
(* StateDB.Commit. *)

\* A node and everything below it.
RECURSIVE Trie(_)
Trie(h) == {h} \cup UNION {Trie(k) : k \in Kids(h)}

Available == Cached(db) \cup disk

\* The states a block may be executed on: the empty one, or that of a block one
\* below whose root is found.
Bases(number) ==
  IF number = 1 THEN {{}} ELSE {Trie(b) : b \in written[number - 1] \cap Available}

\* The sets of nodes a new state can find dirty: all that its base does not
\* have, maybe some that were changed and changed back, and with a node all
\* nodes above it.
DirtySets(root, base) ==
  {s \in SUBSET Trie(root) :
     /\ Trie(root) \ base \subseteq s
     /\ \A h \in Trie(root) : (Kids(h) \cap s # {}) => h \in s}

\* hasher.store and the leaf callback for one node.
Store(d, h) ==
  IF d.panic THEN d
  ELSE LET inserted == Insert(d, h) IN
         IF inserted.panic THEN inserted
         ELSE FoldLeft(LAMBDA e, c : Reference(e, c, h), inserted,
                       SetToSeq(External[h]))

StateCommit(d, dirty) ==
  FoldLeft(Store, d, SelectSeq(Order, LAMBDA h : h \in dirty))

-----------------------------------------------------------------------------
(* WriteBlockWithState. *)

Init ==
  /\ db = Fresh /\ disk = {} /\ triegc = EmptyBag
  /\ written = [n \in 1 .. MaxBlocks |-> {}] /\ blocks = 0
  /\ current = [root |-> Nil, number |-> 0]
  /\ stage = "idle" /\ todo = <<>> /\ target = Nil
  /\ archive \in BOOLEAN /\ lockHeld = FALSE /\ capped = FALSE

Running == ~db.panic /\ ~lockHeld

\* The batch with the block itself is written at the end.
BlockWritten(block) ==
  written' = [written EXCEPT ![block.number] = @ \cup {block.root}]

\* Blocks whose states are not kept any longer.
Old == {b \in BagToSet(triegc) : b.number + Retain <= current.number}

\* The state of a new block, on the canonical chain or beside it.
WriteState ==
  /\ stage = "idle" /\ Running
  /\ blocks < MaxBlocks /\ blocks' = blocks + 1
  /\ \E root \in Roots, number \in 1 .. MaxBlocks :
     \E base \in Bases(number) : \E dirty \in DirtySets(root, base) :
       LET block == [root |-> root, number |-> number]
           stored == StateCommit(db, dirty) IN
         /\ current' = block
         /\ db' = IF archive \/ stored.panic THEN stored
                  ELSE Reference(stored, root, Nil)
         /\ triegc' = IF archive THEN triegc ELSE BagAdd(triegc, block)
         /\ stage' = CASE archive -> "commit"
                       [] ~archive /\ number > Retain -> "cap"
                       [] OTHER -> "idle"
         /\ IF stage' = "idle" THEN BlockWritten(block) ELSE UNCHANGED written
  /\ UNCHANGED <<disk, todo, target, archive, lockHeld, capped>>

\* Cap collects nodes from the flush-list until the cache is small enough.
CapBegin ==
  /\ stage = "cap" /\ Running
  /\ \E k \in 0 .. MaxFlush :
       /\ todo' = FlushList(db, db.oldest, k)
       /\ target' = IF todo' = <<>> THEN db.oldest ELSE db.nodes[Last(todo')].next
  /\ stage' = "capping" /\ capped' = (capped \/ todo' # <<>>)
  /\ UNCHANGED <<db, disk, triegc, chainVars, archive, lockHeld>>

CapEnd ==
  /\ stage = "capping" /\ todo = <<>>
  /\ db' = DropUntil(db, target)
  /\ stage' = "commit"
  /\ UNCHANGED <<disk, triegc, chainVars, todo, target, archive, lockHeld, capped>>

\* The time allowance has passed, or the node is an archive node.
CommitBegin ==
  /\ stage = "commit" /\ Running
  /\ \E root \in IF archive THEN {current.root}
                 ELSE written[current.number - Retain] :
       /\ todo' = CommitOrder(db, root)
       /\ target' = root
  /\ stage' = "committing"
  /\ UNCHANGED <<db, disk, triegc, chainVars, archive, lockHeld, capped>>

CommitSkip ==
  /\ stage = "commit" /\ Running
  /\ ~archive
  /\ stage' = "dereference"
  /\ UNCHANGED <<db, disk, triegc, chainVars, todo, target, archive, lockHeld, capped>>

CommitEnd ==
  /\ stage = "committing" /\ todo = <<>>
  /\ db' = Uncache(db, target)
  /\ IF archive THEN stage' = "idle" /\ BlockWritten(current)
     ELSE stage' = "dereference" /\ UNCHANGED written
  /\ UNCHANGED <<disk, triegc, blocks, current, todo, target, archive, lockHeld, capped>>

\* A batch of any size reaches the disk as a whole.
WriteBatch ==
  /\ stage \in {"capping", "committing"}
  /\ \E k \in 1 .. Len(todo) :
       /\ disk' = disk \cup Range(SubSeq(todo, 1, k))
       /\ todo' = SubSeq(todo, k + 1, Len(todo))
  /\ UNCHANGED <<db, triegc, chainVars, stage, target, archive, lockHeld, capped>>

\* A batch fails: Cap and Commit return, the cache stays as it is.
WriteFails ==
  /\ stage \in {"capping", "committing"} /\ todo # <<>>
  /\ todo' = <<>>
  /\ stage' = CASE stage = "capping" -> "commit"
                [] stage = "committing" /\ ~archive -> "dereference"
                [] OTHER -> "idle"
  /\ UNCHANGED <<db, disk, triegc, chainVars, target, archive, lockHeld, capped>>

\* A batch of preimages fails in Commit, which keeps the read lock.
PreimageFails ==
  /\ stage = "commit" /\ Running
  /\ lockHeld' = TRUE
  /\ stage' = IF archive THEN "idle" ELSE "dereference"
  /\ UNCHANGED <<db, disk, triegc, chainVars, todo, target, archive, capped>>

\* The tries of blocks below the retention, lowest number first.
DereferenceOld ==
  /\ stage = "dereference" /\ Running
  /\ IF Old # {}
     THEN \E b \in Old :
            /\ \A o \in Old : b.number <= o.number
            /\ db' = Dereference(db, b.root, Nil)
            /\ triegc' = BagRemove(triegc, b)
            /\ UNCHANGED <<stage, written>>
     ELSE stage' = "idle" /\ BlockWritten(current) /\ UNCHANGED <<db, triegc>>
  /\ UNCHANGED <<disk, blocks, current, todo, target, archive, lockHeld, capped>>

\* The process dies, of a nil pointer too, and starts with an empty cache,
\* maybe in the other mode.
Restart ==
  /\ db' = Fresh /\ triegc' = EmptyBag
  /\ stage' = "idle" /\ todo' = <<>> /\ target' = Nil
  /\ archive' \in BOOLEAN /\ lockHeld' = FALSE /\ capped' = FALSE
  /\ UNCHANGED <<disk, chainVars>>

Next ==
  \/ WriteState \/ CapBegin \/ CapEnd
  \/ CommitBegin \/ CommitSkip \/ CommitEnd
  \/ WriteBatch \/ WriteFails \/ PreimageFails
  \/ DereferenceOld \/ Restart

Spec == Init /\ [][Next]_vars

-----------------------------------------------------------------------------
(* Properties. *)

\* "metadata reference to keep trie alive": every node of a state that is kept
\* for a recent block is in the cache or on disk, also between the two phases
\* of Cap and Commit.
TriesComplete ==
  ~db.panic => \A b \in BagToSet(triegc) : Trie(b.root) \subseteq Available

\* A node reaches the disk after all that is below it, whatever batches a crash
\* cuts short, so that a root found on disk after a restart is a whole state.
DiskClosed == \A h \in disk : Kids(h) \subseteq disk

\* Stop: the states of some blocks are persisted, those of all blocks that are
\* kept dereferenced.
StateRoots(b) == [k \in 1 .. triegc[b] |-> b.root]
Cleanup(d, recent) ==
  LET kept == SetToSeq(BagToSet(triegc)) IN
    FoldLeft(LAMBDA e, root : Dereference(e, root, Nil),
             FoldLeft(Uncache, d, SetToSeq(recent)),
             FlattenSeq([k \in DOMAIN kept |-> StateRoots(kept[k])]))

\* What Stop checks ("Dangling trie nodes after full cleanup"): nothing stays
\* in the cache, whichever states are recent, as long as Cap did not flush part
\* of a trie.
NothingDangles ==
  stage = "idle" /\ ~archive /\ ~db.panic /\ ~capped =>
    \A recent \in SUBSET UNION Range(written) \ {{}} :
      Cached(Cleanup(db, recent)) = {}
=============================================================================
