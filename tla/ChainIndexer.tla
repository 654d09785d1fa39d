---------------------------- MODULE ChainIndexer ----------------------------
(***************************************************************************)
(* The section indexer of core/chain_indexer.go: an indexer fed by the     *)
(* events of the chain, with a child that is fed by it.                    *)
(*                                                                         *)
(* A block is the sequence of the forks its ancestors and it belong to,    *)
(* genesis first, so blocks are equal when their whole histories are and   *)
(* block b has number Len(b) - 1; the chain is its head block.  The event  *)
(* loop and the two update loops are processes: an update loop reads the   *)
(* chain block by block without c.lock.  Backends only see the blocks of a *)
(* section, which its last block stands for.  Of the index database the    *)
(* count and the section heads are kept; throttling only delays a token.   *)
(***************************************************************************)
EXTENDS Integers, Sequences, SequencesExt

CONSTANTS
  Size,          \* sectionSize, per indexer
  Confirms,      \* confirmsReq, per indexer
  BackendFails,  \* the backend's Reset and Commit may return errors
  MaxHeight,     \* bound of the model on the length of the chain
  MaxReorgs,     \* bound of the model on the reorganisations
  MaxDepth,      \* the most blocks a reorganisation removes
  MaxRestarts,   \* bound of the model on restarts
  MaxEvents      \* capacity of the event channel, 10 in the code

Parent == 1
Child == 2
Indexers == {Parent, Child}
None == <<>>     \* the zero hash

\* What ChainIndexer assumes of its parameters; the theorems have it as a hypothesis.
IndexerAssumption ==
  /\ Size \in [Indexers -> Nat \ {0}] /\ Confirms \in [Indexers -> Nat]
  /\ BackendFails \in BOOLEAN
  /\ {MaxHeight, MaxReorgs, MaxDepth, MaxRestarts, MaxEvents} \subseteq Nat

VARIABLES
  chain,         \* the canonical chain, by its head block
  reorgs,        \* reorganisations so far
  restarts,      \* restarts so far
  events,        \* blocks in the event channel
  event,         \* the block the event loop works on, or None
  prev,          \* prevHeader of the event loop
  ix,            \* per indexer [stored, known, cascaded, heads, update]
  work           \* per indexer the section its update loop works on, or Idle

vars == <<chain, reorgs, restarts, events, event, prev, ix, work>>

MaxSections == MaxHeight + 1
Sections == 0 .. MaxSections

Number(b) == Len(b) - 1
BlockAt(b, n) == SubSeq(b, 1, n + 1)
ParentOf(b) == Front(b)

\* rawdb.FindCommonAncestor: headers of old forks stay in the database.
CommonAncestor(a, b) == LongestCommonPrefix({a, b})

-----------------------------------------------------------------------------
(* The state of one indexer, x = ix[i]. *)

\* SectionHead; an underflow of section - 1 reads a key nobody writes.
SectionHead(x, section) == IF section < 0 THEN None ELSE x.heads[section]

\* setValidSections.
SetValidSections(x, n) ==
  [x EXCEPT !.stored = n,
            !.heads = [s \in Sections |->
               IF n <= s /\ s < x.stored THEN None ELSE x.heads[s]]]

\* newHead with reorg, for one indexer.
Revert(x, i, head) ==
  LET changed == head \div Size[i]
      fewer == [x EXCEPT !.known = IF changed < @ THEN changed ELSE @]
      valid == IF changed < x.stored THEN SetValidSections(fewer, changed)
               ELSE fewer
  IN [valid EXCEPT !.cascaded = IF changed * Size[i] < @ THEN changed * Size[i]
                                ELSE @]

\* newHead with reorg: the child hears of it if sections passed on are affected.
NewHeadReorg(s, head) ==
  LET p == Revert(s[Parent], Parent, head) IN
    IF p.cascaded < s[Parent].cascaded
    THEN [s EXCEPT ![Parent] = p, ![Child] = Revert(@, Child, p.cascaded)]
    ELSE [s EXCEPT ![Parent] = p]

\* How many sections a head of this number completes.
Known(i, head) ==
  IF head >= Confirms[i] THEN (head + 1 - Confirms[i]) \div Size[i] ELSE 0

\* newHead without reorg.
NewHead(s, i, head) ==
  IF Known(i, head) > s[i].known
  THEN [s EXCEPT ![i].known = Known(i, head), ![i].update = TRUE]
  ELSE s

-----------------------------------------------------------------------------
Idle == [section |-> -1]

Fresh == [stored |-> 0, known |-> 0, cascaded |-> 0,
          heads |-> [s \in Sections |-> None], update |-> FALSE]

\* NewChainIndexer on an index database, AddChildIndexer and the first lines of
\* the event loop.
Started(s, head) ==
  LET loaded == [i \in Indexers |->
        [s[i] EXCEPT !.known = 0, !.cascaded = 0, !.update = FALSE]]
      linked == IF loaded[Parent].stored = 0 THEN loaded
                ELSE NewHead(loaded, Child, loaded[Parent].stored * Size[Parent] - 1)
  IN NewHead(linked, Parent, head)

Init ==
  /\ chain = <<0>> /\ reorgs = 0 /\ restarts = 0
  /\ events = <<>> /\ event = None /\ prev = <<0>>
  /\ ix = Started([i \in Indexers |-> Fresh], 0)
  /\ work = [i \in Indexers |-> Idle]

-----------------------------------------------------------------------------
(* The chain.  The import waits when the event channel is full. *)

Extend ==
  /\ Number(chain) < MaxHeight
  /\ Len(events) < MaxEvents
  /\ chain' = Append(chain, reorgs)
  /\ events' = Append(events, chain')
  /\ UNCHANGED <<reorgs, restarts, event, prev, ix, work>>

\* Another fork takes over; only its head is announced.
Reorganise ==
  /\ reorgs < MaxReorgs /\ reorgs' = reorgs + 1
  /\ Len(events) < MaxEvents
  /\ \E keep \in 1 .. Len(chain) - 1, len \in {Len(chain), Len(chain) + 1} :
       /\ Len(chain) - keep <= MaxDepth
       /\ len <= MaxHeight + 1
       /\ chain' = SubSeq(chain, 1, keep) \o [k \in 1 .. len - keep |-> reorgs']
  /\ events' = Append(events, chain')
  /\ UNCHANGED <<restarts, event, prev, ix, work>>

-----------------------------------------------------------------------------
(* eventLoop. *)

EventReceived ==
  /\ event = None /\ events # <<>>
  /\ event' = Head(events) /\ events' = Tail(events)
  /\ ix' = IF ParentOf(event') # prev
           THEN NewHeadReorg(ix, Number(CommonAncestor(prev, event')))
           ELSE ix
  /\ UNCHANGED <<chain, reorgs, restarts, prev, work>>

EventDone ==
  /\ event # None
  /\ ix' = NewHead(ix, Parent, Number(event))
  /\ prev' = event /\ event' = None
  /\ UNCHANGED <<chain, reorgs, restarts, events, work>>

-----------------------------------------------------------------------------
(* updateLoop and processSection of indexer i. *)

UpdateBegin(i) ==
  /\ work[i] = Idle /\ ix[i].update
  /\ ix' = [ix EXCEPT ![i].update = FALSE]
  /\ IF ix[i].known > ix[i].stored
     THEN LET section == ix[i].stored
              old == SectionHead(ix[i], section - 1) IN
            work' = [work EXCEPT ![i] =
              [section |-> section, old |-> old, last |-> old,
               next |-> section * Size[i], failed |-> FALSE]]
     ELSE UNCHANGED work
  /\ UNCHANGED <<chain, reorgs, restarts, events, event, prev>>

\* The backend cannot start the section: the whole index is invalidated.
ResetError(i) ==
  /\ BackendFails
  /\ work[i] # Idle /\ ~work[i].failed
  /\ work[i].next = work[i].section * Size[i]
  /\ ix' = [ix EXCEPT ![i] = SetValidSections(@, 0)]
  /\ work' = [work EXCEPT ![i].failed = TRUE]
  /\ UNCHANGED <<chain, reorgs, restarts, events, event, prev>>

Complete(i) == work[i].next = (work[i].section + 1) * Size[i]

\* The next canonical block is processed if it follows the last one.
Process(i) ==
  /\ work[i] # Idle /\ ~work[i].failed /\ ~Complete(i)
  /\ LET n == work[i].next IN
       work' = IF n <= Number(chain) /\ ParentOf(BlockAt(chain, n)) = work[i].last
               THEN [work EXCEPT ![i].next = n + 1, ![i].last = BlockAt(chain, n)]
               ELSE [work EXCEPT ![i].failed = TRUE]
  /\ UNCHANGED <<chain, reorgs, restarts, events, event, prev, ix>>

\* The backend cannot commit the section.
CommitError(i) ==
  /\ BackendFails
  /\ work[i] # Idle /\ ~work[i].failed /\ Complete(i)
  /\ work' = [work EXCEPT ![i].failed = TRUE]
  /\ UNCHANGED <<chain, reorgs, restarts, events, event, prev, ix>>

\* What the update loop does with a processed section, under c.lock.
Finished(s, i) ==
  LET w == work[i]
      done == SetValidSections([s[i] EXCEPT !.heads[w.section] = w.last],
                               w.section + 1)
      cascaded == done.stored * Size[i] - 1
      marked == [s EXCEPT ![i] = [done EXCEPT !.cascaded = cascaded]]
  IN IF ~w.failed /\ w.old = SectionHead(s[i], w.section - 1)
     THEN IF i = Parent THEN NewHead(marked, Child, cascaded) ELSE marked
     ELSE [s EXCEPT ![i].known = s[i].stored]

UpdateEnd(i) ==
  /\ work[i] # Idle /\ (work[i].failed \/ Complete(i))
  /\ LET s == Finished(ix, i) IN
       ix' = IF s[i].known > s[i].stored THEN [s EXCEPT ![i].update = TRUE] ELSE s
  /\ work' = [work EXCEPT ![i] = Idle]
  /\ UNCHANGED <<chain, reorgs, restarts, events, event, prev>>

-----------------------------------------------------------------------------
\* The process stops or crashes; the count and the section heads are on disk.
Restart ==
  /\ restarts < MaxRestarts /\ restarts' = restarts + 1
  /\ events' = <<>> /\ event' = None /\ prev' = chain
  /\ ix' = Started(ix, Number(chain))
  /\ work' = [i \in Indexers |-> Idle]
  /\ UNCHANGED <<chain, reorgs>>

EventLoop == EventReceived \/ EventDone
UpdateLoop(i) == UpdateBegin(i) \/ Process(i) \/ UpdateEnd(i)

Next ==
  \/ Extend \/ Reorganise \/ Restart
  \/ EventLoop
  \/ \E i \in Indexers : UpdateLoop(i) \/ ResetError(i) \/ CommitError(i)

\* The loops are goroutines that go on while they can.
Spec ==
  /\ Init /\ [][Next]_vars
  /\ WF_vars(EventLoop) /\ \A i \in Indexers : WF_vars(UpdateLoop(i))

-----------------------------------------------------------------------------
(* Properties. *)

OnChain(x, i, s) == x.heads[s] = BlockAt(chain, (s + 1) * Size[i] - 1)

\* However reorganisations interleave with the processing, the stored sections
\* of an index follow one another on one chain, without a gap.
SectionsLinked ==
  \A i \in Indexers : \A s \in 0 .. ix[i].stored - 1 :
    /\ Len(ix[i].heads[s]) = (s + 1) * Size[i]
    /\ s > 0 => IsPrefix(ix[i].heads[s - 1], ix[i].heads[s])

\* "in case of rollbacks that might affect already finished sections" the child
\* is notified: when the event loop makes the parent give up sections the child
\* keeps none of them.
RollbackReachesChild ==
  [][(event = None /\ event' # None /\ ix'[Parent].stored < ix[Parent].stored) =>
       ix'[Child].stored * Size[Child] <= ix'[Parent].stored * Size[Parent]]_vars

\* Every section marked as completed is a section of the canonical chain.
StoredCanonical ==
  \A i \in Indexers : \A s \in 0 .. ix[i].stored - 1 :
    Number(chain) >= (s + 1) * Size[i] - 1 /\ OnChain(ix[i], i, s)

Settled ==
  events = <<>> /\ event = None /\ \A i \in Indexers : work[i] = Idle

\* "If processing succeeded and no reorgs occcurred, mark the section completed":
\* once all events are handled and no section is in work, every section marked
\* as completed is a section of the canonical chain.
SettledCanonical == Settled => StoredCanonical

\* When the chain stays as it is, every confirmed section gets indexed by both.
CatchesUp ==
  \A n \in 0 .. MaxHeight :
    <>[](Number(chain) = n) =>
      <>[](/\ ix[Parent].stored >= Known(Parent, n)
           /\ ix[Child].stored >=
                Known(Child, Known(Parent, n) * Size[Parent] - 1))
=============================================================================
