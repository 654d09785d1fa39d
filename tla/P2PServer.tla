----------------------------- MODULE P2PServer -----------------------------
(***************************************************************************)
(* The connection manager of p2p/server.go with the dial scheduler of      *)
(* p2p/dial.go: the loop Server.run, the goroutines that set connections   *)
(* up (dial tasks and the handshake slots of listenLoop), the goroutine of *)
(* each peer, and Stop.                                                    *)
(*                                                                         *)
(* What run keeps to itself is the record srv; a turn of its loop is       *)
(* ScheduleTasks and one of the events.                                    *)
(* Handshakes, dials, lookups and peers end when and as they like.  Time   *)
(* is the number of entries of the dial history that have expired, oldest  *)
(* first, as all are kept equally long.                                    *)
(***************************************************************************)
EXTENDS Integers, Sequences, FiniteSets, SequencesExt

CONSTANTS
  Nodes,         \* remote nodes
  Self,          \* our own node ID
  Trusted,       \* TrustedNodes
  Bootnodes,     \* sequence of BootstrapNodes
  Setups         \* how servers are set up and used, see SetupType

Known == Nodes \cup {Self}

\* A setup: whether there is a discovery table (ntab), NoDial, MaxPeers and
\* DialRatio, NetRestrict, StaticNodes, the handshake slots of listenLoop (50 in the
\* code), maxActiveDialTasks (16 in the code), the nodes that AddPeer and RemovePeer
\* are called for, whether Stop is called, and a bound of the model on the results
\* of a lookup.
SetupType(u) ==
  /\ u.ntab \in BOOLEAN /\ u.noDial \in BOOLEAN
  /\ u.maxPeers \in Nat /\ u.dialRatio \in Nat \ {0}
  /\ u.allowed \cup u.static \cup u.add \subseteq Known /\ u.active \in Nat \ {0}
  /\ IsFiniteSet(u.slots) /\ u.stop \in BOOLEAN /\ u.results \in Nat

ASSUME ServerAssumption ==
  /\ Self \notin Nodes /\ IsFiniteSet(Nodes)
  /\ Trusted \subseteq Nodes
  /\ Bootnodes \in Seq(Nodes)
  /\ \A u \in Setups : SetupType(u)

VARIABLES
  srv,           \* Config and what Server.run and its dialstate hold, see Init
  loop,          \* "schedule", "select", "self" (waits in Self), "spindown", "ended"
  conns,         \* connections being set up, per slot and per dialed node
  done,          \* tasks in the channel taskdone
  listening,     \* listenLoop runs
  stop           \* "no", "waiting" (holds srv.lock, quit is closed), "returned"

vars == <<srv, loop, conns, done, listening, stop>>

maxDialedConns ==
  IF ~srv.config.ntab \/ srv.config.noDial THEN 0
  ELSE srv.config.maxPeers \div srv.config.dialRatio
maxInboundConns == srv.config.maxPeers - maxDialedConns

Dial(n, flag) == [kind |-> "dial", id |-> n, flag |-> flag]
Discover == [kind |-> "discover", id |-> Self, flag |-> "none"]
WaitExpire(n) == [kind |-> "wait", id |-> n, flag |-> "none"]
DialFlags == {"dyn", "static"}
Tasks == {Dial(n, flag) : n \in Known, flag \in DialFlags}
           \cup {Discover} \cup {WaitExpire(n) : n \in Known}

In(slot) == <<"in", slot>>
Out(n) == <<"out", n>>
Slots == UNION {u.slots : u \in Setups}
Keys == {In(slot) : slot \in Slots} \cup {Out(n) : n \in Known}
NoConn == [stage |-> "none", id |-> Self, flags |-> {}]

Init ==
  /\ \E setup \in Setups :
       srv = [config |-> setup, peers |-> <<>>, inboundCount |-> 0,
              static |-> setup.static, dialing |-> <<>>, hist |-> <<>>, due |-> 0,
              lookupBuf |-> <<>>, lookupRunning |-> FALSE, bootnodes |-> Bootnodes,
              running |-> {}, queued |-> <<>>]
  /\ loop = "schedule" /\ listening = TRUE /\ stop = "no"
  /\ conns = [k \in Keys |-> NoConn]
  /\ done = {}

Peers(s) == DOMAIN s.peers
Dialing(s) == DOMAIN s.dialing
With(f, n, v) == [m \in DOMAIN f \cup {n} |-> IF m = n THEN v ELSE f[m]]
Without(f, n) == [m \in DOMAIN f \ {n} |-> f[m]]

-----------------------------------------------------------------------------
(* dialstate. *)

\* Without a discovery table, it is the handshake that finds out about Self.
Refused(n) == (srv.config.ntab /\ n = Self) \/ n \notin srv.config.allowed

\* checkDial = nil.
CheckDial(s, n) ==
  n \notin Dialing(s) \cup Peers(s) \cup Range(s.hist) /\ ~Refused(n)

\* Mutant: dials in progress are not counted.
NeedIgnoringDials(s) ==
  maxDialedConns - Cardinality({n \in Peers(s) : "dyn" \in s.peers[n].flags})

\* The number of dynamic dials necessary.
NeedDynDials(s) ==
  maxDialedConns
    - Cardinality({n \in Peers(s) : "dyn" \in s.peers[n].flags})
    - Cardinality({n \in Dialing(s) : s.dialing[n] = "dyn"})

\* newTasks collects in a: the new state, what is needed, the new tasks and what
\* is left of lookupBuf.
AddTask(a, n, flag) ==
  [a EXCEPT !.s.dialing = With(@, n, flag), !.tasks = Append(@, Dial(n, flag))]

AddDial(a, n) ==
  IF CheckDial(a.s, n) THEN [AddTask(a, n, "dyn") EXCEPT !.need = @ - 1] ELSE a

AddStaticDial(a, n) ==
  CASE CheckDial(a.s, n) -> AddTask(a, n, "static")
    [] Refused(n) /\ n \notin Dialing(a.s) \cup Peers(a.s) ->
         [a EXCEPT !.s.static = @ \ {n}]
    [] OTHER -> a

\* A random bootnode when there are no peers for some time.
AddBootnode(a, fallback) ==
  IF fallback /\ Peers(a.s) = {} /\ a.s.bootnodes # <<>> /\ a.need > 0
  THEN LET first == Head(a.s.bootnodes) IN
         AddDial([a EXCEPT !.s.bootnodes = Append(Tail(@), first)], first)
  ELSE a

\* Random nodes of the table for half of the necessary dials.
AddRandom(a, random) ==
  FoldLeft(AddDial, a, SubSeq(random, 1, IF a.need \div 2 < Len(random)
                                          THEN a.need \div 2 ELSE Len(random)))

AddLookup(a, n) ==
  IF a.need > 0 THEN AddDial(a, n) ELSE [a EXCEPT !.rest = Append(@, n)]

AddDiscover(a) ==
  IF Len(a.rest) < a.need /\ ~a.s.lookupRunning
  THEN [a EXCEPT !.s.lookupRunning = TRUE, !.tasks = Append(@, Discover)]
  ELSE a

AddWait(a, nRunning) ==
  IF nRunning = 0 /\ a.tasks = <<>> /\ a.s.hist # <<>>
  THEN [a EXCEPT !.tasks = <<WaitExpire(Head(a.s.hist))>>]
  ELSE a

\* newTasks, with the order of the map of static nodes, whether fallbackInterval
\* has passed, and what the table returns.
NewTasks(s, order, fallback, random) ==
  LET nRunning == Cardinality(s.running) + Len(s.queued)
      fresh == [s EXCEPT !.hist = SubSeq(@, s.due + 1, Len(@)), !.due = 0]
      a0 == [s |-> fresh, need |-> NeedDynDials(s), tasks |-> <<>>, rest |-> <<>>]
      a1 == FoldLeft(AddStaticDial, a0, order)
      a2 == AddRandom(AddBootnode(a1, fallback), random)
      a3 == FoldLeft(AddLookup, a2, s.lookupBuf)
      a4 == AddWait(AddDiscover(a3), nRunning)
  IN [s |-> [fresh EXCEPT !.static = a4.s.static, !.dialing = a4.s.dialing,
                          !.bootnodes = a4.s.bootnodes, !.lookupBuf = a4.rest,
                          !.lookupRunning = a4.s.lookupRunning],
      tasks |-> a4.tasks]

\* The entry of a node leaves the dial history.
HistRemove(s, n) ==
  LET i == SelectInSeq(s.hist, LAMBDA m : m = n) IN
    IF i = 0 THEN s
    ELSE [s EXCEPT !.hist = RemoveAt(@, i),
                   !.due = IF i <= @ THEN @ - 1 ELSE @]

-----------------------------------------------------------------------------
(* Server.run: scheduleTasks. *)

\* startTasks: as many of ts as may run; the others stay in queued.
StartTasks(s, ts) ==
  LET free == srv.config.active - Cardinality(s.running)
      k == IF free < Len(ts) THEN free ELSE Len(ts)
  IN [s EXCEPT !.running = @ \cup Range(SubSeq(ts, 1, k)),
               !.queued = @ \o SubSeq(ts, k + 1, Len(ts))]

Schedule(s, order, fallback, random) ==
  LET started == StartTasks([s EXCEPT !.queued = <<>>], s.queued)
      new == NewTasks(started, order, fallback, random)
  IN IF Cardinality(started.running) < srv.config.active
     THEN StartTasks(new.s, new.tasks)
     ELSE started

\* The goroutines of started dial tasks.
WithDials(c, started) ==
  [k \in Keys |->
     LET flags == {flag \in DialFlags : Dial(k[2], flag) \in started} IN
       IF k = Out(k[2]) /\ flags # {}
       THEN [stage |-> "dial", id |-> k[2], flags |-> flags]
       ELSE c[k]]

Samples == {q \in SetToAllKPermutations(Nodes) : Len(q) <= maxDialedConns \div 2}
Lookups == {q \in SetToAllKPermutations(Known) : Len(q) <= srv.config.results}

\* scheduleTasks; the loop goes on to its select.
ScheduleTasks ==
  /\ loop = "schedule" /\ loop' = "select"
  /\ \E order \in SetToSeqs(srv.static), fallback \in BOOLEAN, random \in Samples :
       /\ srv' = Schedule(srv, order, fallback, random)
       /\ conns' = WithDials(conns, srv'.running \ srv.running)
  /\ UNCHANGED <<done, listening, stop>>

-----------------------------------------------------------------------------
(* Server.run: events. *)

Selected == loop = "select" /\ loop' = "schedule"

AddPeer(n) ==
  /\ Selected /\ n \in srv.config.add
  /\ srv' = [srv EXCEPT !.static = @ \cup {n}]
  /\ UNCHANGED <<conns, done, listening, stop>>

\* Disconnect makes the goroutine of the peer end.
RemovePeer(n) ==
  /\ Selected /\ n \in srv.config.add
  /\ srv' = LET s == HistRemove([srv EXCEPT !.static = @ \ {n}], n) IN
              IF n \in Peers(s) THEN [s EXCEPT !.peers[n].ended = TRUE] ELSE s
  /\ UNCHANGED <<conns, done, listening, stop>>

DialDone(s, n) ==
  [s EXCEPT !.hist = Append(@, n), !.dialing = Without(@, n)]

TaskDone(t) ==
  /\ Selected /\ t \in done
  /\ done' = done \ {t}
  /\ LET s == [srv EXCEPT !.running = @ \ {t}] IN
       \/ t.kind = "dial" /\ srv' = DialDone(s, t.id)
       \/ /\ t.kind = "discover"
          /\ \E results \in Lookups :
               srv' = [s EXCEPT !.lookupRunning = FALSE, !.lookupBuf = @ \o results]
       \/ t.kind = "wait" /\ srv' = s
  /\ UNCHANGED <<conns, listening, stop>>

-----------------------------------------------------------------------------
(* Handshake checks. *)

TooManyPeers(s, c) ==
  \/ /\ {"trusted", "static"} \cap c.flags = {}
     /\ Cardinality(Peers(s)) >= srv.config.maxPeers
  \/ /\ "trusted" \notin c.flags /\ "inbound" \in c.flags
     /\ s.inboundCount >= maxInboundConns

\* encHandshakeChecks gets as far as the comparison with Self, which locks.
AsksSelf(s, c) == ~TooManyPeers(s, c) /\ c.id \notin Peers(s)

EncHandshakeChecks(s, c) == AsksSelf(s, c) /\ c.id # Self

\* Mutant: the second check only looks at the protocols.
ProtoHandshakeChecksOnce(s, c) == c.id \notin Peers(s)

\* The matching of protocols is left to the action.
ProtoHandshakeChecks(s, c) == EncHandshakeChecks(s, c)

Blocks(c) == stop = "waiting" /\ AsksSelf(srv, c)

\* The run loop waits for srv.lock, which Stop holds while it waits for the loop.
WaitInSelf(c) ==
  /\ loop = "select" /\ loop' = "self"
  /\ Blocks(c)
  /\ UNCHANGED <<srv, conns, done, listening, stop>>

TaskOf(k) == {t \in srv.running : t.kind = "dial" /\ k = Out(t.id)}

\* SetupConn returns: the slot is free, the dial task is done.
Returned(k) == [conns EXCEPT ![k] = NoConn]
TaskReturns(k) == done' = done \cup TaskOf(k)

PostHandshake(k) ==
  /\ conns[k].stage = "post"
  /\ LET c == [conns[k] EXCEPT !.flags =
                 IF conns[k].id \in Trusted THEN @ \cup {"trusted"} ELSE @] IN
       \/ WaitInSelf(c)
       \/ /\ Selected /\ ~Blocks(c)
          /\ IF EncHandshakeChecks(srv, c)
             THEN /\ conns' = [conns EXCEPT ![k] = [c EXCEPT !.stage = "proto"]]
                  /\ UNCHANGED done
             ELSE conns' = Returned(k) /\ TaskReturns(k)
          /\ UNCHANGED <<srv, listening, stop>>

WithPeer(s, c) ==
  [s EXCEPT !.peers = With(@, c.id, [flags |-> c.flags, ended |-> FALSE]),
            !.inboundCount = IF "inbound" \in c.flags THEN @ + 1 ELSE @]

\* The peer is added or not, also for want of a common protocol, before the
\* task goes on.
AddConn(k) ==
  /\ conns[k].stage = "add"
  /\ \/ WaitInSelf(conns[k])
     \/ /\ Selected /\ ~Blocks(conns[k])
        /\ \/ /\ ProtoHandshakeChecks(srv, conns[k])
              /\ srv' = WithPeer(srv, conns[k])
           \/ UNCHANGED srv
        /\ conns' = Returned(k) /\ TaskReturns(k)
        /\ UNCHANGED <<listening, stop>>

DelPeer(n) ==
  /\ Selected /\ n \in Peers(srv) /\ srv.peers[n].ended
  /\ srv' = [srv EXCEPT !.peers = Without(@, n),
                        !.inboundCount = IF "inbound" \in srv.peers[n].flags
                                         THEN @ - 1 ELSE @]
  /\ UNCHANGED <<conns, done, listening, stop>>

\* The loop sees quit and disconnects everyone.
Quit ==
  /\ loop = "select" /\ stop = "waiting"
  /\ loop' = "spindown"
  /\ srv' = [srv EXCEPT !.peers =
               [n \in Peers(srv) |-> [srv.peers[n] EXCEPT !.ended = TRUE]]]
  /\ UNCHANGED <<conns, done, listening, stop>>

SpinDown ==
  /\ loop = "spindown"
  /\ IF Peers(srv) = {}
     THEN loop' = "ended" /\ UNCHANGED srv
     ELSE /\ \E n \in Peers(srv) : srv' = [srv EXCEPT !.peers = Without(@, n)]
          /\ UNCHANGED loop
  /\ UNCHANGED <<conns, done, listening, stop>>

-----------------------------------------------------------------------------
(* The other goroutines. *)

\* listenLoop accepts a connection of a node in NetRestrict and has a slot.
Accept(slot, n) ==
  /\ stop = "no" /\ conns[In(slot)] = NoConn
  /\ n \in srv.config.allowed
  /\ conns' = [conns EXCEPT ![In(slot)] =
                 [stage |-> "new", id |-> n, flags |-> {"inbound"}]]
  /\ UNCHANGED <<srv, loop, done, listening, stop>>

\* The listener is closed and listenLoop has a slot.
ListenEnd ==
  /\ listening /\ stop # "no"
  /\ \E slot \in srv.config.slots : conns[In(slot)] = NoConn
  /\ listening' = FALSE
  /\ UNCHANGED <<srv, loop, conns, done, stop>>

NextStage(stage) ==
  CASE stage \in {"dial", "new"} -> "enc"   \* connected, server is running
    [] stage = "enc" -> "post"              \* encryption handshake
    [] stage = "proto" -> "add"             \* protocol handshake

\* A connection gets on.  Beginning the setup takes srv.lock.
Advance(k) ==
  /\ conns[k].stage \in {"dial", "new", "enc", "proto"}
  /\ conns[k].stage \in {"dial", "new"} => stop = "no"
  /\ conns' = [conns EXCEPT ![k].stage = NextStage(@)]
  /\ UNCHANGED <<srv, loop, done, listening, stop>>

\* A dial or a handshake fails or times out, the identity is another one, the
\* server has been stopped.
Fail(k) ==
  /\ \/ conns[k].stage \in {"dial", "enc", "proto"}
     \/ conns[k].stage = "new" /\ stop = "returned"
     \/ conns[k].stage \in {"post", "add"} /\ stop # "no"
  /\ conns' = Returned(k) /\ TaskReturns(k)
  /\ UNCHANGED <<srv, loop, listening, stop>>

\* A lookup returns; a waitExpireTask does when its entry has expired.
TaskEnds(t) ==
  /\ t \in srv.running \ done
  /\ \/ t.kind = "discover"
     \/ /\ t.kind = "wait"
        /\ t.id \notin Range(SubSeq(srv.hist, srv.due + 1, Len(srv.hist)))
  /\ done' = done \cup {t}
  /\ UNCHANGED <<srv, loop, conns, listening, stop>>

PeerEnds(n) ==
  /\ n \in Peers(srv) /\ ~srv.peers[n].ended
  /\ srv' = [srv EXCEPT !.peers[n].ended = TRUE]
  /\ UNCHANGED <<loop, conns, done, listening, stop>>

Expire ==
  /\ srv.due < Len(srv.hist)
  /\ srv' = [srv EXCEPT !.due = @ + 1]
  /\ UNCHANGED <<loop, conns, done, listening, stop>>

StopCalled ==
  /\ srv.config.stop /\ stop = "no"
  /\ stop' = "waiting"
  /\ UNCHANGED <<srv, loop, conns, done, listening>>

StopReturn ==
  /\ stop = "waiting" /\ loop = "ended" /\ ~listening
  /\ stop' = "returned"
  /\ UNCHANGED <<srv, loop, conns, done, listening>>

-----------------------------------------------------------------------------
Setup(k) == Advance(k) \/ Fail(k)

Next ==
  \/ ScheduleTasks \/ Quit \/ SpinDown
  \/ \E n \in Known : AddPeer(n) \/ RemovePeer(n) \/ DelPeer(n) \/ PeerEnds(n)
  \/ \E t \in Tasks : TaskDone(t) \/ TaskEnds(t)
  \/ \E k \in Keys : PostHandshake(k) \/ AddConn(k) \/ Setup(k)
  \/ \E slot \in srv.config.slots, n \in Known : Accept(slot, n)
  \/ ListenEnd \/ Expire \/ StopCalled \/ StopReturn

Spec == Init /\ [][Next]_vars

-----------------------------------------------------------------------------
(* Properties. *)

\* The counter that is kept beside the map counts the inbound peers.
InboundCounted ==
  loop \notin {"spindown", "ended"} =>
    srv.inboundCount =
      Cardinality({n \in Peers(srv) : "inbound" \in srv.peers[n].flags})

\* Connections whose handshakes overlap are checked twice, so that MaxPeers and
\* the share of inbound peers hold; static and trusted nodes are exempt.
PeerLimits ==
  LET plain == {n \in Peers(srv) : srv.peers[n].flags \cap {"static", "trusted"} = {}}
      inbound == {n \in Peers(srv) : "inbound" \in srv.peers[n].flags}
  IN /\ Cardinality(plain) <= srv.config.maxPeers
     /\ Cardinality(inbound \ Trusted) <= maxInboundConns
     /\ InboundCounted

\* The tasks that the marks of dialstate stand for.
Owed(s) ==
  {Dial(n, s.dialing[n]) : n \in Dialing(s)} \cup {t \in {Discover} : s.lookupRunning}

\* A node is marked as being dialed exactly while it has one task, waiting or
\* running, of the kind it is marked with; there is one lookup at most and it is
\* marked, too.
TasksTracked ==
  /\ {t \in srv.running \cup Range(srv.queued) : t.kind # "wait"} = Owed(srv)
  /\ \A i \in DOMAIN srv.queued : srv.queued[i].kind # "wait" =>
       /\ srv.queued[i] \notin srv.running
       /\ \A j \in DOMAIN srv.queued : srv.queued[j] = srv.queued[i] => j = i
  /\ done \subseteq srv.running

\* "dial tasks complete after the peer has been added or discarded": dialed
\* peers and dials on the way never exceed what may be dialed.
DynDialBound ==
  /\ Cardinality({n \in Peers(srv) : "dyn" \in srv.peers[n].flags}
                   \cup {n \in Dialing(srv) : srv.dialing[n] = "dyn"})
       <= maxDialedConns
  /\ TasksTracked
=============================================================================
