----------------------------- MODULE P2PProofs -----------------------------
(***************************************************************************)
(* Proofs about the peers and the dials of P2PServer, for any number of    *)
(* nodes, any setup and any interleaving of dials, handshakes and          *)
(* disconnects.  The loops of newTasks get their invariants through        *)
(* instances of FoldRule.                                                  *)
(***************************************************************************)
EXTENDS P2PServer, FiniteSetTheorems, TLAPS

-----------------------------------------------------------------------------
(* The inductive invariant. *)

Plain(p) == {n \in DOMAIN p : p[n].flags \cap {"static", "trusted"} = {}}
Inbound(p) == {n \in DOMAIN p : "inbound" \in p[n].flags}

\* What the peers depend on is there.
PeerFields == {"config", "peers", "inboundCount"}
WellFormed(s) ==
  /\ PeerFields \subseteq DOMAIN s /\ s.config \in Setups
  /\ IsFiniteSet(DOMAIN s.peers)
  /\ \A n \in DOMAIN s.peers : {"flags", "ended"} \subseteq DOMAIN s.peers[n]

\* Only trusted nodes are marked as trusted.
ConnType(c) ==
  /\ {"stage", "id", "flags"} \subseteq DOMAIN c
  /\ "trusted" \in c.flags => c.id \in Trusted

Conns == DOMAIN conns = Keys /\ \A k \in Keys : ConnType(conns[k])

\* maxDialedConns of a setup.
MaxDialed(u) == IF ~u.ntab \/ u.noDial THEN 0 ELSE u.maxPeers \div u.dialRatio

Limits(s) ==
  /\ Cardinality(Plain(s.peers)) <= s.config.maxPeers
  /\ Cardinality(Inbound(s.peers) \ Trusted)
       <= s.config.maxPeers - MaxDialed(s.config)

\* The counter is right until the loop has seen quit.
Counted ==
  loop \notin {"spindown", "ended"} => srv.inboundCount = Cardinality(Inbound(srv.peers))

IInv == WellFormed(srv) /\ Conns /\ Limits(srv) /\ Counted

-----------------------------------------------------------------------------
(* Peers come and go. *)

LEMMA SetupNumbers ==
  ASSUME NEW u \in Setups
  PROVE  u.maxPeers \in Nat /\ MaxDialed(u) \in Nat /\ MaxDialed(u) <= u.maxPeers
<1>1. u.maxPeers \in Nat /\ u.dialRatio \in Nat \ {0}
  BY ServerAssumption DEF SetupType
<1> QED BY <1>1 DEF MaxDialed

LEMMA KnownFinite == IsFiniteSet(Known)
BY ServerAssumption, FS_AddElement DEF Known

LEMMA FinitePeers ==
  ASSUME NEW p, IsFiniteSet(DOMAIN p)
  PROVE  /\ IsFiniteSet(Plain(p)) /\ Cardinality(Plain(p)) \in Nat
         /\ IsFiniteSet(Inbound(p)) /\ Cardinality(Inbound(p)) \in Nat
         /\ IsFiniteSet(Inbound(p) \ Trusted) /\ Cardinality(Inbound(p) \ Trusted) \in Nat
         /\ Cardinality(Inbound(p) \ Trusted) <= Cardinality(Inbound(p))
         /\ Cardinality(Plain(p)) <= Cardinality(DOMAIN p) /\ Cardinality(DOMAIN p) \in Nat
<1>1. Plain(p) \subseteq DOMAIN p /\ Inbound(p) \subseteq DOMAIN p
  BY DEF Plain, Inbound
<1>2. IsFiniteSet(Plain(p)) /\ IsFiniteSet(Inbound(p)) /\ IsFiniteSet(Inbound(p) \ Trusted)
  BY <1>1, FS_Subset
<1> QED BY <1>1, <1>2, FS_Subset, FS_CardinalityType

\* A step that only takes peers away or ends them keeps the limits.
LEMMA FewerPeers ==
  ASSUME NEW s, NEW t, WellFormed(s), Limits(s),
         PeerFields \subseteq DOMAIN t, t.config = s.config,
         DOMAIN t.peers \subseteq DOMAIN s.peers,
         \A n \in DOMAIN t.peers : /\ {"flags", "ended"} \subseteq DOMAIN t.peers[n]
                                   /\ t.peers[n].flags = s.peers[n].flags
  PROVE  WellFormed(t) /\ Limits(t)
<1>1. IsFiniteSet(DOMAIN s.peers) /\ IsFiniteSet(DOMAIN t.peers)
  BY FS_Subset DEF WellFormed
<1>2. /\ Plain(t.peers) \subseteq Plain(s.peers)
      /\ Inbound(t.peers) \ Trusted \subseteq Inbound(s.peers) \ Trusted
  BY DEF Plain, Inbound
<1>3. /\ Cardinality(Plain(t.peers)) <= Cardinality(Plain(s.peers))
      /\ Cardinality(Inbound(t.peers) \ Trusted) <= Cardinality(Inbound(s.peers) \ Trusted)
  BY <1>1, <1>2, FinitePeers, FS_Subset
<1>4. /\ s.config.maxPeers \in Nat /\ MaxDialed(s.config) \in Nat
  BY SetupNumbers DEF WellFormed
<1>5. Limits(t)
  <2>1. /\ Cardinality(Plain(t.peers)) \in Nat /\ Cardinality(Plain(s.peers)) \in Nat
        /\ Cardinality(Inbound(t.peers) \ Trusted) \in Nat
        /\ Cardinality(Inbound(s.peers) \ Trusted) \in Nat
    BY <1>1, FinitePeers
  <2> QED BY <1>3, <1>4, <2>1 DEF Limits
<1> QED BY <1>1, <1>5 DEF WellFormed

\* A step that leaves the peers, their number and the setup alone.
LEMMA SamePeers ==
  ASSUME IInv, PeerFields \subseteq DOMAIN srv',
         srv'.config = srv.config, srv'.peers = srv.peers,
         srv'.inboundCount = srv.inboundCount,
         Conns', loop' \in {"spindown", "ended"} \/ loop \notin {"spindown", "ended"}
  PROVE  IInv'
<1>1. WellFormed(srv')
  BY DEF IInv, WellFormed
<1>2. Limits(srv')
  BY DEF IInv, Limits
<1>3. Counted'
  BY DEF IInv, Counted
<1> QED BY <1>1, <1>2, <1>3 DEF IInv

LEMMA SameConns ==
  ASSUME Conns, UNCHANGED conns
  PROVE  Conns'
BY DEF Conns

\* One connection changes.
LEMMA OneConn ==
  ASSUME Conns, NEW k \in Keys, NEW c, ConnType(c), conns' = [conns EXCEPT ![k] = c]
  PROVE  Conns'
<1>1. DOMAIN conns' = Keys
  BY DEF Conns
<1>2. ASSUME NEW j \in Keys PROVE ConnType(conns'[j])
  BY <1>2 DEF Conns
<1> QED BY <1>1, <1>2 DEF Conns

LEMMA NoConnType == ConnType(NoConn)
BY DEF ConnType, NoConn

-----------------------------------------------------------------------------
(* The dial scheduler does not touch the peers. *)

Keeps(s, t) ==
  /\ PeerFields \subseteq DOMAIN t
  /\ t.config = s.config /\ t.peers = s.peers /\ t.inboundCount = s.inboundCount

LEMMA StartTasksKeeps ==
  ASSUME NEW s, PeerFields \subseteq DOMAIN s, NEW ts
  PROVE  Keeps(s, StartTasks(s, ts))
BY DEF StartTasks, Keeps, PeerFields

LEMMA NewTasksKeeps ==
  ASSUME NEW s, PeerFields \subseteq DOMAIN s, NEW order, NEW fallback, NEW random
  PROVE  Keeps(s, NewTasks(s, order, fallback, random).s)
BY DEF NewTasks, Keeps, PeerFields

LEMMA ScheduleKeeps ==
  ASSUME NEW s, PeerFields \subseteq DOMAIN s, NEW order, NEW fallback, NEW random
  PROVE  Keeps(s, Schedule(s, order, fallback, random))
<1> DEFINE fresh == [s EXCEPT !.queued = <<>>]
           started == StartTasks(fresh, s.queued)
           new == NewTasks(started, order, fallback, random)
<1>1. Keeps(s, fresh)
  BY DEF Keeps, PeerFields
<1>2. Keeps(fresh, started)
  BY <1>1, StartTasksKeeps DEF Keeps
<1>3. Keeps(started, new.s)
  BY <1>2, NewTasksKeeps DEF Keeps
<1>4. Keeps(new.s, StartTasks(new.s, new.tasks))
  BY <1>3, StartTasksKeeps DEF Keeps
<1> HIDE DEF fresh, new
<1>5. \/ Schedule(s, order, fallback, random) = StartTasks(new.s, new.tasks)
      \/ Schedule(s, order, fallback, random) = started
  BY Zenon DEF Schedule, fresh, new
<1> QED BY <1>1, <1>2, <1>3, <1>4, <1>5 DEF Keeps

LEMMA WithDialsConns ==
  ASSUME Conns, NEW started, conns' = WithDials(conns, started)
  PROVE  Conns'
<1>1. DOMAIN conns' = Keys
  BY DEF WithDials
<1>2. ASSUME NEW k \in Keys PROVE ConnType(conns'[k])
  <2> DEFINE flags == {flag \in DialFlags : Dial(k[2], flag) \in started}
  <2>1. \/ conns'[k] = [stage |-> "dial", id |-> k[2], flags |-> flags]
        \/ conns'[k] = conns[k]
    BY DEF WithDials
  <2>2. "trusted" \notin flags
    BY DEF DialFlags
  <2> HIDE DEF flags
  <2>3. ConnType([stage |-> "dial", id |-> k[2], flags |-> flags])
    BY <2>2 DEF ConnType
  <2> QED BY <2>1, <2>3 DEF Conns
<1> QED BY <1>1, <1>2 DEF Conns

-----------------------------------------------------------------------------
(* The steps. *)

LEMMA InitInv == Init => IInv
<1> SUFFICES ASSUME Init PROVE IInv
  OBVIOUS
<1>1. PICK u \in Setups : srv.config = u /\ srv.peers = <<>> /\ srv.inboundCount = 0
                          /\ PeerFields \subseteq DOMAIN srv
  <2>1. PICK u \in Setups :
          srv = [config |-> u, peers |-> <<>>, inboundCount |-> 0,
                 static |-> u.static, dialing |-> <<>>, hist |-> <<>>, due |-> 0,
                 lookupBuf |-> <<>>, lookupRunning |-> FALSE, bootnodes |-> Bootnodes,
                 running |-> {}, queued |-> <<>>]
    BY Zenon DEF Init
  <2>2. srv.config = u /\ srv.peers = <<>> /\ srv.inboundCount = 0
    BY <2>1
  <2>3. PeerFields \subseteq DOMAIN srv
    BY <2>1 DEF PeerFields
  <2> QED BY <2>2, <2>3
<1>2. DOMAIN srv.peers = {} /\ IsFiniteSet({}) /\ Cardinality({}) = 0
  BY <1>1, FS_EmptySet
<1>3. Plain(srv.peers) = {} /\ Inbound(srv.peers) = {} /\ Inbound(srv.peers) \ Trusted = {}
  BY <1>2 DEF Plain, Inbound
<1>4. WellFormed(srv)
  BY <1>1, <1>2 DEF WellFormed
<1>5. Limits(srv)
  <2>1. PICK a \in Nat, b \in Nat : /\ a = u.maxPeers /\ b = MaxDialed(u)
                                   /\ b <= a
    BY SetupNumbers
  <2>2. 0 <= a /\ 0 <= a - b
    BY <2>1
  <2> QED BY <1>1, <1>2, <1>3, <2>1, <2>2 DEF Limits
<1>6. Conns
  BY NoConnType DEF Init, Conns
<1> QED BY <1>1, <1>2, <1>3, <1>4, <1>5, <1>6 DEF IInv, Counted

LEMMA ScheduleTasksInv ==
  ASSUME IInv, ScheduleTasks
  PROVE  IInv'
<1>0. PeerFields \subseteq DOMAIN srv /\ Conns
  BY DEF IInv, WellFormed
<1>1. Keeps(srv, srv')
  BY <1>0, ScheduleKeeps, Zenon DEF ScheduleTasks
<1>2. Conns'
  BY <1>0, WithDialsConns DEF ScheduleTasks
<1> QED BY <1>1, <1>2, SamePeers DEF ScheduleTasks, Keeps

\* A step of the loop that keeps or ends peers and changes other parts of srv.
LEMMA AddPeerInv ==
  ASSUME IInv, NEW n, AddPeer(n)
  PROVE  IInv'
<1>1. Keeps(srv, srv') /\ Conns'
  BY SameConns DEF AddPeer, Keeps, IInv, WellFormed, PeerFields
<1> QED BY <1>1, SamePeers DEF AddPeer, Selected, Keeps

LEMMA TaskDoneInv ==
  ASSUME IInv, NEW t, TaskDone(t)
  PROVE  IInv'
<1>1. Conns' /\ PeerFields \subseteq DOMAIN srv
  BY SameConns DEF TaskDone, IInv, WellFormed
<1> DEFINE s == [srv EXCEPT !.running = @ \ {t}]
<1>2. Keeps(srv, s)
  BY <1>1 DEF Keeps, PeerFields
<1> HIDE DEF s
<1>3. \/ srv' = DialDone(s, t.id)
      \/ \E results \in Lookups :
            srv' = [s EXCEPT !.lookupRunning = FALSE, !.lookupBuf = @ \o results]
      \/ srv' = s
  BY DEF TaskDone, s
<1>4. Keeps(s, srv')
  BY <1>2, <1>3 DEF Keeps, PeerFields, DialDone
<1> QED BY <1>1, <1>2, <1>4, SamePeers DEF TaskDone, Selected, Keeps

LEMMA ConnStepInv ==
  ASSUME IInv, Conns', UNCHANGED srv,
         loop' \in {"spindown", "ended"} \/ loop \notin {"spindown", "ended"}
  PROVE  IInv'
BY SamePeers DEF IInv, WellFormed

LEMMA WaitInSelfInv ==
  ASSUME IInv, NEW c, WaitInSelf(c)
  PROVE  IInv'
BY ConnStepInv, SameConns DEF WaitInSelf, IInv

LEMMA PostHandshakeInv ==
  ASSUME IInv, NEW k \in Keys, PostHandshake(k)
  PROVE  IInv'
<1>0. Conns /\ ConnType(conns[k])
  BY DEF IInv, Conns
<1> DEFINE c == [conns[k] EXCEPT !.flags =
                   IF conns[k].id \in Trusted THEN @ \cup {"trusted"} ELSE @]
<1>1. ConnType(c) /\ ConnType([c EXCEPT !.stage = "proto"])
  <2>1. {"stage", "id", "flags"} \subseteq DOMAIN c /\ c.id = conns[k].id
    BY <1>0 DEF ConnType
  <2>2. c.flags = IF conns[k].id \in Trusted THEN conns[k].flags \cup {"trusted"}
                  ELSE conns[k].flags
    BY <1>0 DEF ConnType
  <2> HIDE DEF c
  <2>3. ConnType(c)
    BY <1>0, <2>1, <2>2 DEF ConnType
  <2>4. ConnType([c EXCEPT !.stage = "proto"])
    BY <2>3 DEF ConnType
  <2> QED BY <2>3, <2>4
<1> HIDE DEF c
<1>2. \/ WaitInSelf(c)
      \/ /\ loop = "select" /\ UNCHANGED srv
         /\ \/ conns' = [conns EXCEPT ![k] = [c EXCEPT !.stage = "proto"]]
            \/ conns' = [conns EXCEPT ![k] = NoConn]
  BY DEF PostHandshake, c, Selected, Returned
<1>3. CASE WaitInSelf(c)
  BY <1>3, WaitInSelfInv
<1>4. CASE /\ loop = "select" /\ UNCHANGED srv
           /\ \/ conns' = [conns EXCEPT ![k] = [c EXCEPT !.stage = "proto"]]
              \/ conns' = [conns EXCEPT ![k] = NoConn]
  <2>1. Conns'
    BY <1>0, <1>1, <1>4, OneConn, NoConnType
  <2> QED BY <1>4, <2>1, ConnStepInv
<1> QED BY <1>2, <1>3, <1>4

\* The check of protoHandshakeChecks and the insertion happen in one turn of the
\* loop, so that they see the same peers.
LEMMA WithPeerInv ==
  ASSUME IInv, loop = "select", NEW c, ConnType(c), EncHandshakeChecks(srv, c),
         srv' = WithPeer(srv, c), Conns'
  PROVE  IInv'
<1> DEFINE p == srv.peers
           q == With(p, c.id, [flags |-> c.flags, ended |-> FALSE])
<1>0. /\ IsFiniteSet(DOMAIN p) /\ PeerFields \subseteq DOMAIN srv /\ srv.config \in Setups
      /\ c.id \notin DOMAIN p /\ ~TooManyPeers(srv, c)
  BY DEF IInv, WellFormed, EncHandshakeChecks, AsksSelf, Peers
<1>1. /\ PeerFields \subseteq DOMAIN srv' /\ srv'.config = srv.config /\ srv'.peers = q
      /\ srv'.inboundCount = IF "inbound" \in c.flags THEN srv.inboundCount + 1
                             ELSE srv.inboundCount
  BY <1>0 DEF WithPeer, PeerFields
<1>2. /\ DOMAIN q = DOMAIN p \cup {c.id}
      /\ q[c.id] = [flags |-> c.flags, ended |-> FALSE]
      /\ \A n \in DOMAIN p : q[n] = p[n]
  BY <1>0 DEF With
<1>3. IsFiniteSet(DOMAIN q)
  BY <1>0, <1>2, FS_AddElement
<1> HIDE DEF p, q
<1>4. WellFormed(srv')
  <2>1. \A n \in DOMAIN q : {"flags", "ended"} \subseteq DOMAIN q[n]
    BY <1>2 DEF IInv, WellFormed, p
  <2> QED BY <1>0, <1>1, <1>3, <2>1 DEF WellFormed
<1>5. q[c.id].flags = c.flags
  BY <1>2
<1>6. /\ Inbound(q) = IF "inbound" \in c.flags THEN Inbound(p) \cup {c.id} ELSE Inbound(p)
      /\ c.id \notin Inbound(p)
  BY <1>0, <1>2, <1>5 DEF Inbound
<1>7. /\ Plain(q) = IF c.flags \cap {"static", "trusted"} = {} THEN Plain(p) \cup {c.id}
                    ELSE Plain(p)
      /\ c.id \notin Plain(p)
  BY <1>0, <1>2, <1>5 DEF Plain
<1>8. /\ srv.config.maxPeers \in Nat
      /\ MaxDialed(srv.config) \in Nat
  BY <1>0, SetupNumbers
<1>9. srv.inboundCount = Cardinality(Inbound(p))
  BY DEF IInv, Counted, p
<1>10. srv'.inboundCount = Cardinality(Inbound(q))
  <2>1. IsFiniteSet(Inbound(p)) /\ Cardinality(Inbound(p)) \in Nat
    BY <1>0, FinitePeers
  <2>2. Cardinality(Inbound(p) \cup {c.id}) = Cardinality(Inbound(p)) + 1
    BY <1>6, <2>1, FS_AddElement
  <2> QED BY <1>1, <1>6, <1>9, <2>2
<1>11. Cardinality(Plain(q)) <= srv.config.maxPeers
  <2>1. CASE c.flags \cap {"static", "trusted"} = {}
    <3>1. Cardinality(DOMAIN p) < srv.config.maxPeers
      <4>1. {"trusted", "static"} \cap c.flags = {}
        BY <2>1
      <4>2. ~(Cardinality(DOMAIN p) >= srv.config.maxPeers)
        BY <1>0, <4>1 DEF TooManyPeers, Peers, p
      <4> QED BY <1>0, <1>8, <4>2, FS_CardinalityType
    <3>2. Cardinality(Plain(q)) = Cardinality(Plain(p)) + 1
      <4>1. IsFiniteSet(Plain(p))
        BY <1>0, FinitePeers
      <4> QED BY <1>7, <2>1, <4>1, FS_AddElement
    <3>3. /\ Cardinality(Plain(p)) <= Cardinality(DOMAIN p)
          /\ Cardinality(Plain(p)) \in Nat /\ Cardinality(DOMAIN p) \in Nat
      BY <1>0, FinitePeers
    <3> QED BY <1>8, <3>1, <3>2, <3>3
  <2>2. CASE c.flags \cap {"static", "trusted"} # {}
    BY <1>7, <2>2 DEF IInv, Limits, p
  <2> QED BY <2>1, <2>2
<1>12. Cardinality(Inbound(q) \ Trusted)
         <= srv.config.maxPeers - MaxDialed(srv.config)
  <2>1. CASE "inbound" \in c.flags /\ "trusted" \notin c.flags
    <3>1. ~(srv.inboundCount >= maxInboundConns)
      BY <1>0, <2>1 DEF TooManyPeers
    <3>2. Cardinality(Inbound(q)) = Cardinality(Inbound(p)) + 1
      BY <1>0, <1>6, <2>1, FinitePeers, FS_AddElement
    <3>3. /\ Cardinality(Inbound(q) \ Trusted) <= Cardinality(Inbound(q))
          /\ Cardinality(Inbound(q) \ Trusted) \in Nat /\ Cardinality(Inbound(p)) \in Nat
      BY <1>0, <1>3, FinitePeers
    <3>4. PICK m \in Int :
             m = srv.config.maxPeers - MaxDialed(srv.config)
      BY <1>8
    <3>5. ~(Cardinality(Inbound(p)) >= m)
      BY <1>9, <3>1, <3>4 DEF maxInboundConns, maxDialedConns, MaxDialed
    <3>6. Cardinality(Inbound(q) \ Trusted) <= m
      BY <3>2, <3>3, <3>5
    <3> QED BY <3>4, <3>6
  <2>2. CASE "inbound" \notin c.flags \/ "trusted" \in c.flags
    <3>1. Inbound(q) \ Trusted = Inbound(p) \ Trusted
      BY <1>6, <2>2 DEF ConnType
    <3> QED BY <3>1 DEF IInv, Limits, p
  <2> QED BY <2>1, <2>2
<1>13. Limits(srv') /\ Counted'
  BY <1>1, <1>10, <1>11, <1>12 DEF Limits, Counted
<1> QED BY <1>4, <1>13 DEF IInv

LEMMA AddConnInv ==
  ASSUME IInv, NEW k \in Keys, AddConn(k)
  PROVE  IInv'
<1>0. Conns /\ ConnType(conns[k])
  BY DEF IInv, Conns
<1>1. CASE WaitInSelf(conns[k])
  BY <1>1, WaitInSelfInv
<1>2. CASE /\ loop = "select" /\ conns' = Returned(k)
           /\ \/ ProtoHandshakeChecks(srv, conns[k]) /\ srv' = WithPeer(srv, conns[k])
              \/ UNCHANGED srv
  <2>1. Conns'
    BY <1>0, <1>2, OneConn, NoConnType DEF Returned
  <2> QED BY <1>0, <1>2, <2>1, WithPeerInv, ConnStepInv DEF ProtoHandshakeChecks
<1> QED BY <1>1, <1>2 DEF AddConn, Selected

LEMMA DelPeerInv ==
  ASSUME IInv, NEW n, DelPeer(n)
  PROVE  IInv'
<1> DEFINE p == srv.peers
           q == Without(p, n)
<1>0. /\ IsFiniteSet(DOMAIN p) /\ PeerFields \subseteq DOMAIN srv /\ n \in DOMAIN p
      /\ WellFormed(srv) /\ Limits(srv) /\ loop = "select"
  BY DEF IInv, WellFormed, DelPeer, Peers, Selected
<1>1. /\ PeerFields \subseteq DOMAIN srv' /\ srv'.config = srv.config /\ srv'.peers = q
      /\ srv'.inboundCount = IF "inbound" \in p[n].flags THEN srv.inboundCount - 1
                             ELSE srv.inboundCount
  BY <1>0 DEF DelPeer, PeerFields
<1>2. DOMAIN q = DOMAIN p \ {n} /\ \A m \in DOMAIN q : q[m] = p[m]
  BY DEF Without
<1> HIDE DEF p, q
<1>3. WellFormed(srv') /\ Limits(srv')
  <2>1. \A m \in DOMAIN q : /\ {"flags", "ended"} \subseteq DOMAIN q[m]
                            /\ q[m].flags = p[m].flags
    BY <1>2 DEF IInv, WellFormed, p
  <2> QED BY <1>0, <1>1, <1>2, <2>1, FewerPeers DEF p
<1>4. Counted'
  <2>1. srv.inboundCount = Cardinality(Inbound(p))
    BY <1>0 DEF IInv, Counted, p
  <2>2. Inbound(q) = Inbound(p) \ {n}
    BY <1>2 DEF Inbound
  <2>3. n \in Inbound(p) <=> "inbound" \in p[n].flags
    BY <1>0 DEF Inbound
  <2>4. srv'.inboundCount = Cardinality(Inbound(q))
    <3>1. IsFiniteSet(Inbound(p))
      BY <1>0, FinitePeers
    <3>2. Cardinality(Inbound(q)) = IF n \in Inbound(p) THEN Cardinality(Inbound(p)) - 1
                                    ELSE Cardinality(Inbound(p))
      BY <2>2, <3>1, FS_RemoveElement
    <3> QED BY <1>1, <2>1, <2>3, <3>2
  <2> QED BY <1>1, <2>4 DEF Counted
<1>5. Conns'
  BY SameConns DEF IInv, DelPeer
<1> QED BY <1>3, <1>4, <1>5 DEF IInv

\* Peers end; none comes or goes.
Marks(s, t) ==
  /\ PeerFields \subseteq DOMAIN t /\ t.config = s.config
  /\ t.inboundCount = s.inboundCount /\ DOMAIN t.peers = DOMAIN s.peers
  /\ \A m \in DOMAIN t.peers : /\ {"flags", "ended"} \subseteq DOMAIN t.peers[m]
                               /\ t.peers[m].flags = s.peers[m].flags

LEMMA EndedInv ==
  ASSUME IInv, Marks(srv, srv'), UNCHANGED conns,
         loop' \in {"spindown", "ended"} \/ loop \notin {"spindown", "ended"}
  PROVE  IInv'
<1>1. WellFormed(srv') /\ Limits(srv')
  BY FewerPeers DEF IInv, Marks
<1>2. Inbound(srv'.peers) = Inbound(srv.peers)
  BY DEF Inbound, Marks
<1>3. Counted'
  BY <1>2 DEF IInv, Counted, Marks
<1>4. Conns'
  BY SameConns DEF IInv
<1> QED BY <1>1, <1>3, <1>4 DEF IInv

\* Disconnect: the record of one peer is marked.
Disconnected(s, n) == [s EXCEPT !.peers[n].ended = TRUE]

LEMMA DisconnectedMarks ==
  ASSUME NEW s, WellFormed(s), NEW n \in DOMAIN s.peers
  PROVE  Marks(s, Disconnected(s, n))
<1> DEFINE t == Disconnected(s, n)
<1>1. /\ PeerFields \subseteq DOMAIN t /\ t.config = s.config
      /\ t.inboundCount = s.inboundCount
      /\ t.peers = [s.peers EXCEPT ![n].ended = TRUE]
  BY DEF WellFormed, PeerFields, Disconnected
<1> HIDE DEF t
<1>2. DOMAIN t.peers = DOMAIN s.peers
  BY <1>1
<1>3. ASSUME NEW m \in DOMAIN s.peers
      PROVE  /\ {"flags", "ended"} \subseteq DOMAIN t.peers[m]
             /\ t.peers[m].flags = s.peers[m].flags
  <2>1. CASE m = n
    <3>1. t.peers[m] = [s.peers[m] EXCEPT !.ended = TRUE]
      BY <1>1, <2>1
    <3> QED BY <3>1 DEF WellFormed
  <2>2. CASE m # n
    BY <1>1, <2>2 DEF WellFormed
  <2> QED BY <2>1, <2>2
<1>4. Marks(s, t)
  BY <1>1, <1>2, <1>3 DEF Marks
<1> QED BY <1>4 DEF t

LEMMA PeerEndsInv ==
  ASSUME IInv, NEW n, PeerEnds(n)
  PROVE  IInv'
<1>1. WellFormed(srv) /\ n \in DOMAIN srv.peers /\ UNCHANGED <<conns, loop>>
  BY DEF IInv, PeerEnds, Peers
<1>2. srv' = Disconnected(srv, n)
  BY DEF PeerEnds, Disconnected
<1>3. Marks(srv, srv')
  BY <1>1, <1>2, DisconnectedMarks
<1> QED BY <1>1, <1>3, EndedInv

LEMMA RemovePeerInv ==
  ASSUME IInv, NEW n, RemovePeer(n)
  PROVE  IInv'
<1>0. PeerFields \subseteq DOMAIN srv /\ WellFormed(srv)
  BY DEF IInv, WellFormed
<1> DEFINE r == [srv EXCEPT !.static = @ \ {n}]
           s == HistRemove(r, n)
<1>1. Keeps(srv, r)
  BY <1>0 DEF Keeps, PeerFields
<1> HIDE DEF r
<1>2. Keeps(r, s)
  <2>1. \/ s = r
        \/ \E i : s = [r EXCEPT !.hist = RemoveAt(@, i), !.due = IF i <= @ THEN @ - 1 ELSE @]
    BY DEF HistRemove
  <2> HIDE DEF s
  <2> QED BY <1>1, <2>1 DEF Keeps, PeerFields
<1>4. /\ srv' = IF n \in DOMAIN s.peers THEN Disconnected(s, n) ELSE s
      /\ UNCHANGED conns /\ loop = "select"
  BY DEF RemovePeer, r, Peers, Selected, Disconnected
<1> HIDE DEF s
<1>3. WellFormed(s) /\ Keeps(srv, s)
  BY <1>0, <1>1, <1>2 DEF WellFormed, Keeps
<1>5. Marks(s, srv')
  <2>1. CASE n \in DOMAIN s.peers
    BY <1>3, <1>4, <2>1, DisconnectedMarks
  <2>2. CASE n \notin DOMAIN s.peers
    <3>1. srv' = s
      BY <1>4, <2>2
    <3> QED BY <1>3, <3>1 DEF WellFormed, Marks
  <2> QED BY <2>1, <2>2
<1>6. Marks(srv, srv')
  BY <1>3, <1>5 DEF Keeps, Marks
<1> QED BY <1>4, <1>6, EndedInv

LEMMA QuitInv ==
  ASSUME IInv, Quit
  PROVE  IInv'
<1> DEFINE p == [n \in DOMAIN srv.peers |-> [srv.peers[n] EXCEPT !.ended = TRUE]]
<1>0. PeerFields \subseteq DOMAIN srv /\ WellFormed(srv)
  BY DEF IInv, WellFormed
<1>1. srv' = [srv EXCEPT !.peers = p] /\ UNCHANGED conns /\ loop' = "spindown"
  BY DEF Quit, Peers
<1>2. DOMAIN p = DOMAIN srv.peers
  OBVIOUS
<1>3. ASSUME NEW m \in DOMAIN srv.peers
      PROVE  {"flags", "ended"} \subseteq DOMAIN p[m] /\ p[m].flags = srv.peers[m].flags
  BY <1>0 DEF WellFormed
<1> HIDE DEF p
<1>4. /\ PeerFields \subseteq DOMAIN srv' /\ srv'.config = srv.config
      /\ srv'.inboundCount = srv.inboundCount /\ srv'.peers = p
  BY <1>0, <1>1 DEF PeerFields
<1>5. Marks(srv, srv')
  BY <1>2, <1>3, <1>4 DEF Marks
<1> QED BY <1>1, <1>5, EndedInv

LEMMA SpinDownInv ==
  ASSUME IInv, SpinDown
  PROVE  IInv'
<1>0. PeerFields \subseteq DOMAIN srv /\ WellFormed(srv) /\ Limits(srv)
  BY DEF IInv, WellFormed
<1>1. CASE UNCHANGED srv /\ loop' = "ended"
  BY <1>1, ConnStepInv, SameConns DEF IInv, SpinDown
<1>2. CASE loop' = "spindown" /\ \E n \in Peers(srv) : srv' = [srv EXCEPT !.peers = Without(@, n)]
  <2>1. PICK n \in DOMAIN srv.peers : srv' = [srv EXCEPT !.peers = Without(@, n)]
    BY <1>2 DEF Peers
  <2>2. /\ PeerFields \subseteq DOMAIN srv' /\ srv'.config = srv.config
        /\ srv'.peers = Without(srv.peers, n)
    BY <1>0, <2>1 DEF PeerFields
  <2>3. DOMAIN srv'.peers \subseteq DOMAIN srv.peers
        /\ \A m \in DOMAIN srv'.peers : srv'.peers[m] = srv.peers[m]
    BY <2>2 DEF Without
  <2>4. WellFormed(srv') /\ Limits(srv')
    <3>1. \A m \in DOMAIN srv'.peers : /\ {"flags", "ended"} \subseteq DOMAIN srv'.peers[m]
                                       /\ srv'.peers[m].flags = srv.peers[m].flags
      BY <1>0, <2>3 DEF WellFormed
    <3> QED BY <1>0, <2>2, <2>3, <3>1, FewerPeers
  <2>5. Conns' /\ Counted'
    BY <1>2, SameConns DEF IInv, SpinDown, Counted
  <2> QED BY <2>4, <2>5 DEF IInv
<1> QED BY <1>1, <1>2 DEF SpinDown

\* The goroutines that set up connections.
LEMMA SetupInv ==
  ASSUME IInv, NEW k \in Keys, Setup(k)
  PROVE  IInv'
<1>0. Conns /\ ConnType(conns[k]) /\ UNCHANGED <<srv, loop>>
  BY DEF IInv, Conns, Setup, Advance, Fail
<1>1. CASE Advance(k)
  <2>1. PICK stage : conns' = [conns EXCEPT ![k] = [conns[k] EXCEPT !.stage = stage]]
    <3>1. conns' = [conns EXCEPT ![k].stage = NextStage(@)]
      BY <1>1 DEF Advance
    <3> QED BY <3>1, Zenon
  <2>2. ConnType([conns[k] EXCEPT !.stage = stage])
    BY <1>0 DEF ConnType
  <2> QED BY <1>0, <2>1, <2>2, OneConn, ConnStepInv
<1>2. CASE Fail(k)
  <2>1. conns' = [conns EXCEPT ![k] = NoConn]
    BY <1>2 DEF Fail, Returned
  <2> QED BY <1>0, <2>1, NoConnType, OneConn, ConnStepInv
<1> QED BY <1>1, <1>2 DEF Setup

LEMMA AcceptInv ==
  ASSUME IInv, NEW slot \in srv.config.slots, NEW n, Accept(slot, n)
  PROVE  IInv'
<1>1. In(slot) \in Keys
  BY DEF IInv, WellFormed, Keys, Slots
<1>2. ConnType([stage |-> "new", id |-> n, flags |-> {"inbound"}])
  BY DEF ConnType
<1>3. Conns'
  BY <1>1, <1>2, OneConn DEF IInv, Accept
<1> QED BY <1>3, ConnStepInv DEF Accept

\* Steps that neither touch the peers nor the connections.
LEMMA OtherInv ==
  ASSUME IInv, UNCHANGED <<conns, loop>>, srv' = srv \/ srv' = [srv EXCEPT !.due = @ + 1]
  PROVE  IInv'
<1>1. Keeps(srv, srv')
  BY DEF IInv, WellFormed, Keeps, PeerFields
<1> QED BY <1>1, SamePeers, SameConns DEF IInv, Keeps

LEMMA NextInv ==
  ASSUME IInv, [Next]_vars
  PROVE  IInv'
<1>1. CASE ScheduleTasks \/ Quit \/ SpinDown
  BY <1>1, ScheduleTasksInv, QuitInv, SpinDownInv
<1>2. CASE \E n \in Known : AddPeer(n) \/ RemovePeer(n) \/ DelPeer(n) \/ PeerEnds(n)
  BY <1>2, AddPeerInv, RemovePeerInv, DelPeerInv, PeerEndsInv
<1>3. CASE \E t \in Tasks : TaskDone(t)
  BY <1>3, TaskDoneInv
<1>4. CASE \E k \in Keys : PostHandshake(k) \/ AddConn(k) \/ Setup(k)
  BY <1>4, PostHandshakeInv, AddConnInv, SetupInv
<1>5. CASE \E slot \in srv.config.slots, n \in Known : Accept(slot, n)
  BY <1>5, AcceptInv
<1>6. CASE (\E t \in Tasks : TaskEnds(t)) \/ ListenEnd \/ Expire \/ StopCalled \/ StopReturn
  BY <1>6, OtherInv DEF TaskEnds, ListenEnd, Expire, StopCalled, StopReturn
<1>7. CASE UNCHANGED vars
  BY <1>7, OtherInv DEF vars
<1> QED BY <1>1, <1>2, <1>3, <1>4, <1>5, <1>6, <1>7 DEF Next

-----------------------------------------------------------------------------
(* The theorems. *)

\* The counter, the peers and the connections on the way fit together in every
\* reachable state.
THEOREM Invariant == Spec => []IInv
<1> QED BY InitInv, NextInv, PTL DEF Spec

\* However many handshakes overlap, MaxPeers and the share of inbound peers are
\* kept, and inboundCount is the number of inbound peers.
THEOREM LimitsKept == Spec => []PeerLimits
<1>1. IInv => PeerLimits
  BY DEF IInv, Limits, Counted, Plain, Inbound, PeerLimits, InboundCounted, Peers,
         maxInboundConns, maxDialedConns, MaxDialed
<1> QED BY <1>1, Invariant, PTL

-----------------------------------------------------------------------------
(* Dials. *)

\* Dialed peers and dials on the way.
Dyn(s) == {n \in DOMAIN s.peers : "dyn" \in s.peers[n].flags}
            \cup {n \in DOMAIN s.dialing : s.dialing[n] = "dyn"}

\* The tasks of R and of the sequence Q are O, each once; waits do not count.
Work(T) == {t \in T : t.kind # "wait"}
Distinct(R, Q) ==
  \A i \in DOMAIN Q : Q[i].kind # "wait" =>
    Q[i] \notin R /\ \A j \in DOMAIN Q : Q[j] = Q[i] => j = i
Tracked(R, Q, O) == Work(R \cup Range(Q)) = O /\ Distinct(R, Q)

IsSeq(q) == \E S : q \in Seq(S)

DialFields ==
  {"config", "peers", "static", "dialing", "lookupBuf", "lookupRunning", "bootnodes",
   "running", "queued", "hist", "due"}

\* What dialstate and the loop know of dials, apart from the tasks.
DialTypes(s) ==
  /\ DialFields \subseteq DOMAIN s /\ s.config \in Setups
  /\ IsFiniteSet(DOMAIN s.peers)
  /\ s.static \subseteq Known /\ s.lookupBuf \in Seq(Known)
  /\ DOMAIN s.dialing \subseteq Known
  /\ Cardinality(Dyn(s)) <= MaxDialed(s.config)

TaskTypes(s) ==
  /\ IsFiniteSet(s.running) /\ Cardinality(s.running) <= s.config.active
  /\ IsSeq(s.queued)

DialState(s) == DialTypes(s) /\ TaskTypes(s) /\ Tracked(s.running, s.queued, Owed(s))

\* A connection that would become a dialed peer belongs to a dial on the way.
OnTheWay(k, c, d) == k = Out(c.id) /\ c.id \in DOMAIN d /\ d[c.id] = "dyn"
ConnDials ==
  /\ DOMAIN conns = Keys
  /\ \A k \in Keys : "dyn" \in conns[k].flags => OnTheWay(k, conns[k], srv.dialing)

\* A task reports after its connection is gone.
DoneDials ==
  /\ done \subseteq srv.running
  /\ \A t \in done : \A k \in Keys :
       t.kind = "dial" /\ k = Out(t.id) => "dyn" \notin conns[k].flags

DInv == DialState(srv) /\ ConnDials /\ DoneDials

-----------------------------------------------------------------------------
(* Sequences of tasks. *)

LEMMA RangeIs == ASSUME NEW f PROVE \A x : x \in Range(f) <=> \E i \in DOMAIN f : f[i] = x
BY Zenon DEF Range

LEMMA AppendRange ==
  ASSUME NEW S, NEW q \in Seq(S), NEW x \in S
  PROVE  \A t : t \in Range(Append(q, x)) <=> t \in Range(q) \/ t = x
<1> DEFINE p == Append(q, x)
<1>1. /\ DOMAIN p = 1 .. Len(q) + 1 /\ DOMAIN q = 1 .. Len(q) /\ Len(q) \in Nat
      /\ (\A i \in 1 .. Len(q) : p[i] = q[i]) /\ p[Len(q) + 1] = x
  OBVIOUS
<1> HIDE DEF p
<1>2. \A i : i \in DOMAIN p <=> i \in DOMAIN q \/ i = Len(q) + 1
  BY <1>1
<1>3. \A t : (\E i \in DOMAIN p : p[i] = t) <=> (\E i \in DOMAIN q : q[i] = t) \/ t = x
  BY <1>1, <1>2
<1> QED BY <1>3, RangeIs DEF p

\* The tasks after the first k, and where they come from.
LEMMA SplitSeq ==
  ASSUME NEW S, NEW ts \in Seq(S), NEW k \in 0 .. Len(ts)
  PROVE  /\ SubSeq(ts, 1, k) \in Seq(S) /\ Len(SubSeq(ts, 1, k)) = k
         /\ \A i \in 1 .. k : SubSeq(ts, 1, k)[i] = ts[i]
         /\ SubSeq(ts, k + 1, Len(ts)) \in Seq(S)
         /\ Len(SubSeq(ts, k + 1, Len(ts))) = Len(ts) - k
         /\ \A i \in 1 .. (Len(ts) - k) : SubSeq(ts, k + 1, Len(ts))[i] = ts[i + k]
<1>1. k \in Nat /\ Len(ts) \in Nat /\ k <= Len(ts)
  OBVIOUS
<1>2. \A i \in 1 .. k : i \in 1 .. Len(ts)
  BY <1>1
<1>3. \A i \in 1 .. (Len(ts) - k) : i + k \in 1 .. Len(ts)
  BY <1>1
<1>4. /\ SubSeq(ts, 1, k) \in Seq(S) /\ Len(SubSeq(ts, 1, k)) = k
      /\ \A i \in 1 .. k : SubSeq(ts, 1, k)[i] = ts[i]
  BY <1>1, <1>2
<1>5. /\ SubSeq(ts, k + 1, Len(ts)) \in Seq(S)
      /\ Len(SubSeq(ts, k + 1, Len(ts))) = Len(ts) - k
      /\ \A i \in 1 .. (Len(ts) - k) : SubSeq(ts, k + 1, Len(ts))[i] = ts[i + k]
  BY <1>1, <1>3
<1> QED BY <1>4, <1>5

\* No more elements than indices.
LEMMA RangeBound ==
  ASSUME NEW S, NEW q \in Seq(S)
  PROVE  IsFiniteSet(Range(q)) /\ Cardinality(Range(q)) <= Len(q)
<1>1. Len(q) \in Nat /\ DOMAIN q = 1 .. Len(q) /\ q \in [1 .. Len(q) -> Range(q)]
  BY DEF Range
<1>2. q \in Surjection(1 .. Len(q), Range(q))
  BY <1>1, RangeIs DEF Surjection
<1>3. IsFiniteSet(1 .. Len(q)) /\ Cardinality(1 .. Len(q)) = Len(q)
  BY <1>1, FS_Interval
<1> QED BY <1>2, <1>3, FS_Surjection

\* startTasks moves tasks from the front of ts to the running ones.
LEMMA MoveTracked ==
  ASSUME NEW R, NEW S, NEW Q \in Seq(S), NEW ts \in Seq(S), NEW k \in 0 .. Len(ts), NEW O,
         Work(R \cup Range(Q) \cup Range(ts)) = O,
         Distinct(R, Q), Distinct(R, ts),
         \A i \in DOMAIN ts : ts[i].kind # "wait" => ts[i] \notin Range(Q)
  PROVE  Tracked(R \cup Range(SubSeq(ts, 1, k)), Q \o SubSeq(ts, k + 1, Len(ts)), O)
<1> DEFINE a == SubSeq(ts, 1, k)
           b == SubSeq(ts, k + 1, Len(ts))
           P == Q \o b
<1>1. /\ a \in Seq(S) /\ Len(a) = k /\ \A i \in 1 .. k : a[i] = ts[i]
      /\ b \in Seq(S) /\ Len(b) = Len(ts) - k
      /\ \A i \in 1 .. (Len(ts) - k) : b[i] = ts[i + k]
  BY SplitSeq
<1> HIDE DEF a, b
<1>2. /\ P \in Seq(S) /\ Len(P) = Len(Q) + Len(b)
      /\ \A i \in 1 .. Len(Q) : P[i] = Q[i]
      /\ \A i \in 1 .. Len(b) : P[Len(Q) + i] = b[i]
  BY <1>1
<1> HIDE DEF P
<1>3. Len(Q) \in Nat /\ Len(ts) \in Nat /\ k \in Nat /\ k <= Len(ts)
  OBVIOUS
<1>4. /\ DOMAIN a = 1 .. k /\ DOMAIN b = 1 .. (Len(ts) - k) /\ DOMAIN ts = 1 .. Len(ts)
      /\ DOMAIN Q = 1 .. Len(Q) /\ DOMAIN P = 1 .. (Len(Q) + (Len(ts) - k))
  BY <1>1, <1>2
\* An index of P is one of Q or one of ts beyond k.
<1>5. ASSUME NEW i \in DOMAIN P
      PROVE  \/ i \in DOMAIN Q /\ P[i] = Q[i]
             \/ /\ i \notin DOMAIN Q /\ i - Len(Q) + k \in DOMAIN ts
                /\ i - Len(Q) + k \notin 1 .. k /\ P[i] = ts[i - Len(Q) + k]
  <2>1. CASE i \in 1 .. Len(Q)
    BY <1>2, <1>4, <2>1
  <2>2. CASE i \notin 1 .. Len(Q)
    <3>1. i - Len(Q) \in 1 .. (Len(ts) - k) /\ i = Len(Q) + (i - Len(Q))
      BY <1>3, <1>4, <2>2
    <3>2. P[i] = b[i - Len(Q)]
      BY <1>1, <1>2, <3>1
    <3>3. b[i - Len(Q)] = ts[i - Len(Q) + k]
      BY <1>1, <3>1
    <3>4. i - Len(Q) + k \in 1 .. Len(ts) /\ i - Len(Q) + k \notin 1 .. k
      BY <1>3, <3>1
    <3> QED BY <1>4, <2>2, <3>2, <3>3, <3>4
  <2> QED BY <2>1, <2>2
<1>6. ASSUME NEW j \in DOMAIN ts, j \notin 1 .. k
      PROVE  ts[j] \in Range(P)
  <2>1. j - k \in 1 .. (Len(ts) - k)
    BY <1>3, <1>4, <1>6
  <2>2. b[j - k] = ts[j]
    <3>1. b[j - k] = ts[j - k + k]
      BY <1>1, <2>1
    <3> QED BY <3>1, <1>4
  <2>3. P[Len(Q) + (j - k)] = b[j - k]
    BY <1>1, <1>2, <2>1
  <2>4. Len(Q) + (j - k) \in DOMAIN P
    BY <1>3, <1>4, <2>1
  <2> QED BY <2>2, <2>3, <2>4, RangeIs
<1>7. Range(Q) \subseteq Range(P)
  <2> SUFFICES ASSUME NEW i \in DOMAIN Q PROVE Q[i] \in Range(P)
    BY RangeIs
  <2>1. i \in DOMAIN P /\ P[i] = Q[i]
    BY <1>2, <1>3, <1>4
  <2> QED BY <2>1, RangeIs
<1>8. \A x : x \in Range(a) <=> \E i \in 1 .. k : ts[i] = x
  <2>1. \A x : (\E i \in DOMAIN a : a[i] = x) <=> \E i \in 1 .. k : ts[i] = x
    BY <1>1, <1>4
  <2> QED BY <2>1, RangeIs
<1>9. R \cup Range(a) \cup Range(P) = R \cup Range(Q) \cup Range(ts)
  <2>1. ASSUME NEW x \in Range(ts) PROVE x \in Range(a) \cup Range(P)
    <3>1. PICK j \in DOMAIN ts : ts[j] = x
      BY <2>1, RangeIs
    <3> QED BY <3>1, <1>6, <1>8
  <2>2. ASSUME NEW x \in Range(P) PROVE x \in Range(Q) \cup Range(ts)
    <3>1. PICK i \in DOMAIN P : P[i] = x
      BY <2>2, RangeIs
    <3> QED BY <3>1, <1>5, RangeIs
  <2>3. Range(a) \subseteq Range(ts)
    <3>1. \A i \in 1 .. k : i \in DOMAIN ts
      BY <1>3, <1>4
    <3> QED BY <3>1, <1>8, RangeIs
  <2> QED BY <2>1, <2>2, <2>3, <1>7
<1>10. Work((R \cup Range(a)) \cup Range(P)) = O
  BY <1>9, Zenon
<1>11. Distinct(R \cup Range(a), P)
  <2> SUFFICES ASSUME NEW i \in DOMAIN P, P[i].kind # "wait"
               PROVE  /\ P[i] \notin R /\ P[i] \notin Range(a)
                      /\ \A j \in DOMAIN P : P[j] = P[i] => j = i
    BY DEF Distinct
  <2>1. CASE i \in DOMAIN Q /\ P[i] = Q[i]
    <3>1. P[i] \notin R /\ P[i] \in Range(Q)
      BY <2>1, RangeIs DEF Distinct
    <3>2. \A j \in DOMAIN ts : ts[j] # P[i]
      BY <3>1
    <3>3. P[i] \notin Range(a)
      <4>1. \A j \in 1 .. k : j \in DOMAIN ts
        BY <1>3, <1>4
      <4> QED BY <3>2, <4>1, <1>8
    <3>4. \A j \in DOMAIN P : P[j] = P[i] => j = i
      BY <2>1, <3>2, <1>5 DEF Distinct
    <3> QED BY <3>1, <3>3, <3>4
  <2>2. CASE /\ i \notin DOMAIN Q /\ i - Len(Q) + k \in DOMAIN ts
             /\ i - Len(Q) + k \notin 1 .. k /\ P[i] = ts[i - Len(Q) + k]
    <3> DEFINE m == i - Len(Q) + k
    <3>1. P[i] \notin R /\ P[i] \notin Range(Q) /\ \A j \in DOMAIN ts : ts[j] = P[i] => j = m
      BY <2>2 DEF Distinct
    <3>2. P[i] \notin Range(a)
      <4>1. \A j \in 1 .. k : j \in DOMAIN ts
        BY <1>3, <1>4
      <4> QED BY <2>2, <3>1, <4>1, <1>8
    <3>3. ASSUME NEW j \in DOMAIN P, P[j] = P[i] PROVE j = i
      <4>1. j \notin DOMAIN Q \/ P[j] # Q[j]
        BY <3>1, <3>3, RangeIs
      <4>2. j - Len(Q) + k \in DOMAIN ts /\ P[j] = ts[j - Len(Q) + k]
        BY <1>5, <3>3, <4>1
      <4>3. j - Len(Q) + k = i - Len(Q) + k
        BY <3>1, <3>3, <4>2
      <4>4. i \in Int /\ j \in Int
        BY <1>4
      <4> QED BY <4>3, <4>4, <1>3
    <3> QED BY <3>1, <3>2, <3>3
  <2> QED BY <1>5, <2>1, <2>2
<1> QED BY <1>10, <1>11 DEF Tracked, a, b, P

\* startTasks: at most active tasks run, and every task is somewhere.
LEMMA StartTasksTracked ==
  ASSUME NEW s, {"running", "queued"} \subseteq DOMAIN s, s.config = srv.config, srv.config \in Setups,
         TaskTypes(s), NEW ts, IsSeq(ts), NEW O,
         Work(s.running \cup Range(s.queued) \cup Range(ts)) = O,
         Distinct(s.running, s.queued), Distinct(s.running, ts),
         \A i \in DOMAIN ts : ts[i].kind # "wait" => ts[i] \notin Range(s.queued)
  PROVE  LET t == StartTasks(s, ts) IN
           /\ IsFiniteSet(t.running) /\ Cardinality(t.running) <= s.config.active
           /\ IsSeq(t.queued) /\ Tracked(t.running, t.queued, O)
           /\ s.running \subseteq t.running
           /\ DOMAIN t = DOMAIN s
           /\ \A f \in DOMAIN s \ {"running", "queued"} : t[f] = s[f]
<1> DEFINE free == srv.config.active - Cardinality(s.running)
           k == IF free < Len(ts) THEN free ELSE Len(ts)
           t == StartTasks(s, ts)
           a == SubSeq(ts, 1, k)
           b == SubSeq(ts, k + 1, Len(ts))
<1>0. srv.config.active \in Nat
  BY ServerAssumption DEF SetupType
<1>1. PICK S : ts \in Seq(S) /\ s.queued \in Seq(S)
  <2>1. PICK A : ts \in Seq(A)
    BY DEF IsSeq
  <2>2. PICK B : s.queued \in Seq(B)
    BY DEF IsSeq, TaskTypes
  <2>3. ts \in Seq(A \cup B) /\ s.queued \in Seq(A \cup B)
    BY <2>1, <2>2
  <2> QED BY <2>3, Zenon
<1>2. /\ Cardinality(s.running) \in Nat /\ Cardinality(s.running) <= srv.config.active
      /\ IsFiniteSet(s.running)
  BY FS_CardinalityType DEF TaskTypes
<1>3. k \in 0 .. Len(ts) /\ k <= free
  BY <1>0, <1>1, <1>2
<1>4. t = [s EXCEPT !.running = @ \cup Range(a), !.queued = @ \o b]
  BY Zenon DEF StartTasks
<1> HIDE DEF t
<1>5. /\ t.running = s.running \cup Range(a) /\ t.queued = s.queued \o b
      /\ DOMAIN t = DOMAIN s
      /\ \A f \in DOMAIN s \ {"running", "queued"} : t[f] = s[f]
  BY <1>4
<1>6. Tracked(t.running, t.queued, O)
  <2> HIDE DEF k
  <2>1. Tracked(s.running \cup Range(SubSeq(ts, 1, k)),
                s.queued \o SubSeq(ts, k + 1, Len(ts)), O)
    BY <1>1, <1>3, MoveTracked
  <2> QED BY <2>1, <1>5
<1>7. a \in Seq(S) /\ Len(a) = k /\ b \in Seq(S)
  BY <1>1, <1>3, SplitSeq
<1>8. IsSeq(t.queued)
  <2> HIDE DEF b
  <2>1. s.queued \o b \in Seq(S)
    BY <1>1, <1>7
  <2> QED BY <2>1, <1>5 DEF IsSeq
<1>9. IsFiniteSet(t.running) /\ Cardinality(t.running) <= s.config.active
  <2> HIDE DEF a, k, free
  <2>1. IsFiniteSet(Range(a)) /\ Cardinality(Range(a)) <= k
    BY <1>7, RangeBound
  <2>5. /\ IsFiniteSet(s.running \cup Range(a))
        /\ Cardinality(s.running \cup Range(a))
             = Cardinality(s.running) + Cardinality(Range(a)) - Cardinality(s.running \cap Range(a))
    BY <1>2, <2>1, FS_Union
  <2>2. /\ IsFiniteSet(t.running)
        /\ Cardinality(t.running) = Cardinality(s.running) + Cardinality(Range(a))
                                      - Cardinality(s.running \cap Range(a))
    BY <1>5, <2>5, Zenon
  <2>3. Cardinality(s.running \cap Range(a)) \in Nat /\ Cardinality(Range(a)) \in Nat
    BY <1>2, <2>1, FS_Intersection, FS_CardinalityType
  <2>4. k \in Int /\ k <= srv.config.active - Cardinality(s.running)
    BY <1>1, <1>3 DEF free
  <2> QED BY <1>0, <1>2, <2>1, <2>2, <2>3, <2>4
<1> QED BY <1>5, <1>6, <1>8, <1>9 DEF t

-----------------------------------------------------------------------------
(* newTasks. *)

\* What newTasks has gathered in a, having begun with s: the marks of s are
\* kept, each new mark has its task, and need bounds the dials that are added.
Planned(s, a) ==
  /\ {"s", "need", "tasks", "rest"} \subseteq DOMAIN a /\ a.need \in Int
  /\ DialFields \subseteq DOMAIN a.s
  /\ a.s.peers = s.peers /\ a.s.lookupRunning = s.lookupRunning
  /\ a.s.static \subseteq Known /\ a.rest \in Seq(Known)
  /\ DOMAIN a.s.dialing \subseteq Known
  /\ \A n \in DOMAIN s.dialing :
       n \in DOMAIN a.s.dialing /\ a.s.dialing[n] = s.dialing[n]
  /\ a.tasks \in Seq(Tasks)
  /\ \A t : t \in Range(a.tasks) <=>
       \E n \in DOMAIN a.s.dialing \ DOMAIN s.dialing : t = Dial(n, a.s.dialing[n])
  /\ \A i, j \in DOMAIN a.tasks : a.tasks[i] = a.tasks[j] => i = j
  /\ Cardinality(Dyn(a.s)) <= MaxDialed(s.config)
  /\ Cardinality(Dyn(a.s)) + a.need <= MaxDialed(s.config)

Scheduling(s) == DialTypes(s) /\ s.config = srv.config

LEMMA FiniteDyn ==
  ASSUME NEW s, IsFiniteSet(DOMAIN s.peers), DOMAIN s.dialing \subseteq Known
  PROVE  IsFiniteSet(Dyn(s)) /\ Cardinality(Dyn(s)) \in Nat
<1>1. IsFiniteSet(DOMAIN s.dialing)
  BY KnownFinite, FS_Subset
<1>2. IsFiniteSet(DOMAIN s.peers \cup DOMAIN s.dialing)
  BY <1>1, FS_Union
<1>3. Dyn(s) \subseteq DOMAIN s.peers \cup DOMAIN s.dialing
  BY DEF Dyn
<1> QED BY <1>2, <1>3, FS_Subset, FS_CardinalityType

LEMMA DialIs ==
  ASSUME NEW n, NEW m, NEW f, NEW g
  PROVE  /\ Dial(n, f).kind = "dial" /\ Dial(n, f).id = n /\ Dial(n, f).flag = f
         /\ Dial(n, f) = Dial(m, g) => n = m /\ f = g
         /\ Dial(n, f) # Discover /\ Discover.kind = "discover" /\ Discover.id = Self
<1>1. /\ Dial(n, f).kind = "dial" /\ Dial(n, f).id = n /\ Dial(n, f).flag = f
      /\ Dial(m, g).id = m /\ Dial(m, g).flag = g
      /\ Discover.kind = "discover" /\ Discover.id = Self
  BY DEF Dial, Discover
<1> QED BY <1>1

\* A mark and its task are added.
LEMMA AddTaskPlanned ==
  ASSUME NEW s, Scheduling(s), NEW a, Planned(s, a), NEW n, CheckDial(a.s, n),
         NEW flag \in DialFlags, flag = "dyn" => a.need > 0,
         NEW b, {"s", "need", "tasks", "rest"} \subseteq DOMAIN b,
         b.s = [a.s EXCEPT !.dialing = With(@, n, flag)],
         b.tasks = Append(a.tasks, Dial(n, flag)), b.rest = a.rest,
         b.need = IF flag = "dyn" THEN a.need - 1 ELSE a.need
  PROVE  Planned(s, b)
<1> DEFINE d == a.s.dialing
           e == With(d, n, flag)
<1>1. n \notin DOMAIN d /\ n \notin DOMAIN a.s.peers /\ n \in srv.config.allowed
  BY DEF CheckDial, Dialing, Peers, Refused
<1>2. n \in Known
  BY <1>1, ServerAssumption DEF SetupType, Known, Scheduling, DialTypes
<1>3. /\ DialFields \subseteq DOMAIN b.s /\ b.s.peers = a.s.peers /\ b.s.dialing = e
      /\ b.s.lookupRunning = a.s.lookupRunning /\ b.s.static = a.s.static
  BY DEF Planned, DialFields
<1>4. DOMAIN e = DOMAIN d \cup {n} /\ e[n] = flag /\ \A m \in DOMAIN d : e[m] = d[m]
  BY <1>1 DEF With
<1> HIDE DEF d, e
<1>5. /\ DOMAIN d \subseteq Known /\ DOMAIN s.dialing \subseteq DOMAIN d
      /\ \A m \in DOMAIN s.dialing : d[m] = s.dialing[m]
      /\ a.tasks \in Seq(Tasks) /\ a.need \in Int
      /\ a.s.peers = s.peers
  BY DEF Planned, d
<1>6. Dial(n, flag) \in Tasks
  BY <1>2 DEF Tasks, DialFlags
<1>7. b.tasks \in Seq(Tasks) /\ Len(b.tasks) = Len(a.tasks) + 1
      /\ (\A i \in 1 .. Len(a.tasks) : b.tasks[i] = a.tasks[i])
      /\ b.tasks[Len(a.tasks) + 1] = Dial(n, flag)
  BY <1>5, <1>6
<1>8. /\ DOMAIN b.tasks = DOMAIN a.tasks \cup {Len(a.tasks) + 1}
      /\ DOMAIN a.tasks = 1 .. Len(a.tasks)
  BY <1>5, <1>7
<1>9. \A t : t \in Range(a.tasks) <=> \E m \in DOMAIN d \ DOMAIN s.dialing : t = Dial(m, d[m])
  BY DEF Planned, d
<1>10. Dial(n, flag) \notin Range(a.tasks)
  BY <1>1, <1>9, DialIs DEF d
<1>11. \A t : t \in Range(b.tasks) <=> t \in Range(a.tasks) \/ t = Dial(n, flag)
  BY <1>5, <1>6, AppendRange
<1>12. \A t : t \in Range(b.tasks) <=> \E m \in DOMAIN e \ DOMAIN s.dialing : t = Dial(m, e[m])
  <2> TAKE t
  <2>1. n \notin DOMAIN s.dialing
    BY <1>1, <1>5 DEF d
  <2>2. (\E m \in DOMAIN e \ DOMAIN s.dialing : t = Dial(m, e[m]))
          <=> \/ t = Dial(n, flag)
              \/ \E m \in DOMAIN d \ DOMAIN s.dialing : t = Dial(m, d[m])
    BY <1>4, <2>1
  <2> QED BY <1>9, <1>11, <2>2
<1>13. \A i, j \in DOMAIN b.tasks : b.tasks[i] = b.tasks[j] => i = j
  <2>1. \A i, j \in DOMAIN a.tasks : a.tasks[i] = a.tasks[j] => i = j
    BY DEF Planned
  <2>2. \A i \in DOMAIN a.tasks : a.tasks[i] # Dial(n, flag)
    BY <1>10, RangeIs
  <2> QED BY <1>7, <1>8, <2>1, <2>2
<1>14. Dyn(b.s) = (IF flag = "dyn" THEN Dyn(a.s) \cup {n} ELSE Dyn(a.s)) /\ n \notin Dyn(a.s)
  <2>1. {m \in DOMAIN e : e[m] = "dyn"}
          = IF flag = "dyn" THEN {m \in DOMAIN d : d[m] = "dyn"} \cup {n}
            ELSE {m \in DOMAIN d : d[m] = "dyn"}
    BY <1>1, <1>4 DEF DialFlags, d
  <2> QED BY <1>1, <1>3, <2>1 DEF Dyn, d
<1>15. IsFiniteSet(Dyn(a.s)) /\ Cardinality(Dyn(a.s)) \in Nat
  <2>1. IsFiniteSet(DOMAIN a.s.peers)
    BY <1>5 DEF Scheduling, DialTypes
  <2> QED BY <1>5, <2>1, FiniteDyn DEF d
<1>16. MaxDialed(s.config) \in Nat
  BY SetupNumbers DEF Scheduling, DialTypes
<1>17. Cardinality(Dyn(b.s)) = IF flag = "dyn" THEN Cardinality(Dyn(a.s)) + 1 ELSE Cardinality(Dyn(a.s))
  BY <1>14, <1>15, FS_AddElement
<1>18. /\ Cardinality(Dyn(b.s)) <= MaxDialed(s.config)
       /\ Cardinality(Dyn(b.s)) + b.need <= MaxDialed(s.config) /\ b.need \in Int
  <2>1. /\ Cardinality(Dyn(a.s)) <= MaxDialed(s.config)
        /\ Cardinality(Dyn(a.s)) + a.need <= MaxDialed(s.config)
    BY DEF Planned
  <2> QED BY <1>5, <1>15, <1>16, <1>17, <2>1
<1>19. /\ DOMAIN e \subseteq Known
       /\ \A m \in DOMAIN s.dialing : m \in DOMAIN e /\ e[m] = s.dialing[m]
  BY <1>2, <1>4, <1>5
<1>20. /\ a.s.static \subseteq Known /\ a.rest \in Seq(Known)
       /\ a.s.peers = s.peers /\ a.s.lookupRunning = s.lookupRunning
  BY DEF Planned
<1> QED BY <1>3, <1>7, <1>12, <1>13, <1>18, <1>19, <1>20 DEF Planned

\* A dial is added while one is needed.
LEMMA AddDialPlanned ==
  ASSUME NEW s, Scheduling(s), NEW a, Planned(s, a), NEW n, a.need > 0
  PROVE  Planned(s, AddDial(a, n)) /\ AddDial(a, n).need \in {a.need, a.need - 1}
<1> DEFINE b == AddDial(a, n)
<1>1. CASE CheckDial(a.s, n)
  <2>1. b = [[a EXCEPT !.s.dialing = With(@, n, "dyn"), !.tasks = Append(@, Dial(n, "dyn"))]
               EXCEPT !.need = @ - 1]
    BY <1>1, Zenon DEF AddDial, AddTask
  <2>2. {"s", "need", "tasks", "rest"} \subseteq DOMAIN a
    BY DEF Planned
  <2> HIDE DEF b
  <2>3. /\ {"s", "need", "tasks", "rest"} \subseteq DOMAIN b
        /\ b.s = [a.s EXCEPT !.dialing = With(@, n, "dyn")]
        /\ b.tasks = Append(a.tasks, Dial(n, "dyn")) /\ b.rest = a.rest
        /\ b.need = a.need - 1
    BY <2>1, <2>2
  <2>4. Planned(s, b)
    BY <1>1, <2>3, AddTaskPlanned DEF DialFlags
  <2> QED BY <2>3, <2>4 DEF b
<1>2. CASE ~CheckDial(a.s, n)
  BY <1>2, Zenon DEF AddDial
<1> QED BY <1>1, <1>2

\* The loop over the static nodes.
StaticOp(s, a, n) == AddStaticDial(a, n)
StaticInv(s, seq, i, a) == Planned(s, a)
AddingStatic == INSTANCE FoldRule WITH Op <- StaticOp, Inv <- StaticInv

LEMMA AddStaticDialPlanned ==
  ASSUME NEW s, Scheduling(s), NEW a, Planned(s, a), NEW n
  PROVE  Planned(s, AddStaticDial(a, n))
<1> DEFINE b == AddStaticDial(a, n)
<1>0. {"s", "need", "tasks", "rest"} \subseteq DOMAIN a /\ DialFields \subseteq DOMAIN a.s
  BY DEF Planned
<1>1. CASE CheckDial(a.s, n)
  <2>1. b = [a EXCEPT !.s.dialing = With(@, n, "static"), !.tasks = Append(@, Dial(n, "static"))]
    BY <1>1 DEF AddStaticDial, AddTask, CheckDial
  <2> HIDE DEF b
  <2>3. /\ {"s", "need", "tasks", "rest"} \subseteq DOMAIN b
        /\ b.s = [a.s EXCEPT !.dialing = With(@, n, "static")]
        /\ b.tasks = Append(a.tasks, Dial(n, "static")) /\ b.rest = a.rest
        /\ b.need = a.need
    BY <2>1, <1>0
  <2>4. Planned(s, b)
    BY <1>1, <2>3, AddTaskPlanned DEF DialFlags
  <2> QED BY <2>4 DEF b
<1>2. CASE ~CheckDial(a.s, n)
  <2>1. b = [a EXCEPT !.s.static = @ \ {n}] \/ b = a
    BY <1>2 DEF AddStaticDial
  <2> HIDE DEF b
  <2>2. CASE b = [a EXCEPT !.s.static = @ \ {n}]
    <3>1. /\ {"s", "need", "tasks", "rest"} \subseteq DOMAIN b
          /\ b.s = [a.s EXCEPT !.static = @ \ {n}]
          /\ b.tasks = a.tasks /\ b.rest = a.rest /\ b.need = a.need
      BY <1>0, <2>2
    <3>2. /\ DialFields \subseteq DOMAIN b.s /\ b.s.static = a.s.static \ {n}
          /\ b.s.peers = a.s.peers /\ b.s.lookupRunning = a.s.lookupRunning
          /\ b.s.dialing = a.s.dialing
      BY <1>0, <3>1 DEF DialFields
    <3>3. Dyn(b.s) = Dyn(a.s)
      BY <3>2 DEF Dyn
    <3>4. Planned(s, b)
      BY <3>1, <3>2, <3>3 DEF Planned
    <3> QED BY <3>4 DEF b
  <2> QED BY <2>1, <2>2 DEF b
<1> QED BY <1>1, <1>2

LEMMA AllStaticPlanned ==
  ASSUME NEW s, Scheduling(s), NEW a, Planned(s, a), NEW k \in Nat, NEW order, DOMAIN order = 1 .. k
  PROVE  Planned(s, FoldLeft(AddStaticDial, a, order))
<1>1. FoldLeft(AddStaticDial, a, order) = AddingStatic!Fold(s, a, order)
  BY Zenon DEF AddingStatic!Fold, StaticOp,
       FoldLeft, MapThenFoldSet, AddingStatic!Unfolds, AddingStatic!Top, Max
<1>2. StaticInv(s, order, 0, a)
  BY DEF StaticInv
<1>3. \A i \in 1 .. k : \A b :
        StaticInv(s, order, i - 1, b) => StaticInv(s, order, i, StaticOp(s, b, order[i]))
  BY AddStaticDialPlanned DEF StaticInv, StaticOp
<1>4. StaticInv(s, order, k, AddingStatic!Fold(s, a, order))
  BY <1>2, <1>3, AddingStatic!FoldInduction, Zenon
<1> QED BY <1>1, <1>4 DEF StaticInv

LEMMA AddBootnodePlanned ==
  ASSUME NEW s, Scheduling(s), NEW a, Planned(s, a), NEW fallback
  PROVE  Planned(s, AddBootnode(a, fallback))
<1>1. CASE fallback /\ Peers(a.s) = {} /\ a.s.bootnodes # <<>> /\ a.need > 0
  <2> DEFINE first == Head(a.s.bootnodes)
             c == [a EXCEPT !.s.bootnodes = Append(Tail(@), first)]
  <2>0. {"s", "need", "tasks", "rest"} \subseteq DOMAIN a /\ DialFields \subseteq DOMAIN a.s
    BY DEF Planned
  <2>1. AddBootnode(a, fallback) = AddDial(c, first)
    BY <1>1, Zenon DEF AddBootnode
  <2>2. /\ {"s", "need", "tasks", "rest"} \subseteq DOMAIN c
        /\ c.s = [a.s EXCEPT !.bootnodes = Append(Tail(@), first)]
        /\ c.tasks = a.tasks /\ c.rest = a.rest /\ c.need = a.need
    BY <2>0
  <2> HIDE DEF c, first
  <2>3. /\ DialFields \subseteq DOMAIN c.s /\ c.s.static = a.s.static
        /\ c.s.peers = a.s.peers /\ c.s.lookupRunning = a.s.lookupRunning
        /\ c.s.dialing = a.s.dialing
    BY <2>0, <2>2 DEF DialFields
  <2>4. Dyn(c.s) = Dyn(a.s)
    BY <2>3 DEF Dyn
  <2>5. Planned(s, c)
    BY <2>2, <2>3, <2>4 DEF Planned
  <2>6. c.need > 0
    BY <1>1, <2>2
  <2>7. Planned(s, AddDial(c, first))
    BY <2>5, <2>6, AddDialPlanned
  <2> QED BY <2>1, <2>7
<1>2. CASE ~(fallback /\ Peers(a.s) = {} /\ a.s.bootnodes # <<>> /\ a.need > 0)
  BY <1>2, Zenon DEF AddBootnode
<1> QED BY <1>1, <1>2

\* The loop over the random nodes takes half of what is needed.
RandomOp(c, a, n) == AddDial(a, n)
RandomInv(c, seq, i, a) == Planned(c[1], a) /\ a.need >= c[2] - i
AddingRandom == INSTANCE FoldRule WITH Op <- RandomOp, Inv <- RandomInv

LEMMA AddRandomPlanned ==
  ASSUME NEW s, Scheduling(s), NEW a, Planned(s, a), NEW S, NEW random \in Seq(S)
  PROVE  Planned(s, AddRandom(a, random))
<1> DEFINE m == IF a.need \div 2 < Len(random) THEN a.need \div 2 ELSE Len(random)
           seq == SubSeq(random, 1, m)
           c == <<s, a.need>>
<1>0. a.need \in Int
  BY DEF Planned
<1>1. m \in Int /\ m <= Len(random) /\ (m > 0 => m < a.need)
  BY <1>0
<1>2. PICK k \in Nat : DOMAIN seq = 1 .. k /\ (k # 0 => k < a.need)
  <2> HIDE DEF m
  <2>1. CASE m > 0
    <3>1. m \in 0 .. Len(random) /\ m \in Nat
      BY <1>1, <2>1
    <3>2. seq \in Seq(S) /\ Len(seq) = m
      BY <3>1, SplitSeq
    <3> QED BY <1>1, <2>1, <3>1, <3>2
  <2>2. CASE ~(m > 0)
    <3>1. DOMAIN seq = 1 .. m
      BY <1>1
    <3>2. 1 .. m = 1 .. 0
      BY <1>1, <2>2
    <3> QED BY <3>1, <3>2
  <2> QED BY <2>1, <2>2
<1>3. AddRandom(a, random) = AddingRandom!Fold(c, a, seq)
  BY Zenon DEF AddRandom, AddingRandom!Fold, RandomOp,
       FoldLeft, MapThenFoldSet, AddingRandom!Unfolds, AddingRandom!Top, Max
<1> HIDE DEF m, seq
<1>4. c[1] = s /\ c[2] = a.need
  OBVIOUS
<1> HIDE DEF c
<1>5. RandomInv(c, seq, 0, a)
  BY <1>0, <1>4 DEF RandomInv
<1>6. ASSUME NEW i \in 1 .. k, NEW b, RandomInv(c, seq, i - 1, b)
      PROVE  RandomInv(c, seq, i, RandomOp(c, b, seq[i]))
  <2>1. Planned(s, b) /\ b.need >= a.need - (i - 1) /\ b.need \in Int
    BY <1>4, <1>6 DEF RandomInv, Planned
  <2>2. b.need > 0
    BY <1>0, <1>2, <2>1
  <2>3. Planned(s, AddDial(b, seq[i])) /\ AddDial(b, seq[i]).need \in {b.need, b.need - 1}
    BY <2>1, <2>2, AddDialPlanned
  <2>4. AddDial(b, seq[i]).need >= a.need - i
    BY <1>0, <2>1, <2>3
  <2> QED BY <1>4, <2>3, <2>4 DEF RandomInv, RandomOp
<1>7. \A i \in 1 .. k : \A b :
        RandomInv(c, seq, i - 1, b) => RandomInv(c, seq, i, RandomOp(c, b, seq[i]))
  BY <1>6, Zenon
<1>8. RandomInv(c, seq, k, AddingRandom!Fold(c, a, seq))
  BY <1>2, <1>5, <1>7, AddingRandom!FoldInduction, Zenon
<1> QED BY <1>3, <1>4, <1>8 DEF RandomInv

\* The loop over the results of lookups.
LookupOp(c, a, n) == AddLookup(a, n)
AddingLookups == INSTANCE FoldRule WITH Op <- LookupOp, Inv <- StaticInv

LEMMA AddLookupPlanned ==
  ASSUME NEW s, Scheduling(s), NEW a, Planned(s, a), NEW n \in Known
  PROVE  Planned(s, AddLookup(a, n))
<1>1. CASE a.need > 0
  BY <1>1, AddDialPlanned, Zenon DEF AddLookup
<1>2. CASE ~(a.need > 0)
  <2> DEFINE b == [a EXCEPT !.rest = Append(@, n)]
  <2>1. AddLookup(a, n) = b
    BY <1>2, Zenon DEF AddLookup
  <2>2. {"s", "need", "tasks", "rest"} \subseteq DOMAIN a /\ a.rest \in Seq(Known)
    BY DEF Planned
  <2>3. /\ {"s", "need", "tasks", "rest"} \subseteq DOMAIN b
        /\ b.s = a.s /\ b.tasks = a.tasks /\ b.need = a.need /\ b.rest = Append(a.rest, n)
    BY <2>2
  <2> HIDE DEF b
  <2>4. b.rest \in Seq(Known)
    BY <2>2, <2>3
  <2>5. Planned(s, b)
    BY <2>3, <2>4 DEF Planned
  <2> QED BY <2>1, <2>5
<1> QED BY <1>1, <1>2

LEMMA AllLookupsPlanned ==
  ASSUME NEW s, Scheduling(s), NEW a, Planned(s, a), NEW buf \in Seq(Known)
  PROVE  Planned(s, FoldLeft(AddLookup, a, buf))
<1>0. Len(buf) \in Nat /\ DOMAIN buf = 1 .. Len(buf)
  OBVIOUS
<1>1. FoldLeft(AddLookup, a, buf) = AddingLookups!Fold(s, a, buf)
  BY Zenon DEF AddingLookups!Fold, LookupOp,
       FoldLeft, MapThenFoldSet, AddingLookups!Unfolds, AddingLookups!Top, Max
<1>2. StaticInv(s, buf, 0, a)
  BY DEF StaticInv
<1>3. \A i \in 1 .. Len(buf) : \A b :
        StaticInv(s, buf, i - 1, b) => StaticInv(s, buf, i, LookupOp(s, b, buf[i]))
  <2>1. \A i \in 1 .. Len(buf) : buf[i] \in Known
    OBVIOUS
  <2> QED BY <2>1, AddLookupPlanned DEF StaticInv, LookupOp
<1>4. StaticInv(s, buf, Len(buf), AddingLookups!Fold(s, a, buf))
  BY <1>0, <1>2, <1>3, AddingLookups!FoldInduction, Zenon
<1> QED BY <1>1, <1>4 DEF StaticInv

\* What newTasks returns beyond what was there: the waits apart, the tasks are
\* those of the new marks.
Gathered(s, a) ==
  /\ {"s", "need", "tasks", "rest"} \subseteq DOMAIN a
  /\ DialFields \subseteq DOMAIN a.s /\ a.s.peers = s.peers
  /\ a.s.static \subseteq Known /\ a.rest \in Seq(Known)
  /\ DOMAIN a.s.dialing \subseteq Known
  /\ \A n \in DOMAIN s.dialing :
       n \in DOMAIN a.s.dialing /\ a.s.dialing[n] = s.dialing[n]
  /\ s.lookupRunning => a.s.lookupRunning
  /\ IsSeq(a.tasks)
  /\ \A t : t \in Work(Range(a.tasks)) <=>
       \/ \E n \in DOMAIN a.s.dialing \ DOMAIN s.dialing : t = Dial(n, a.s.dialing[n])
       \/ t = Discover /\ a.s.lookupRunning /\ ~s.lookupRunning
  /\ \A i, j \in DOMAIN a.tasks :
       a.tasks[i].kind # "wait" /\ a.tasks[i] = a.tasks[j] => i = j
  /\ Cardinality(Dyn(a.s)) <= MaxDialed(s.config)

LEMMA PlannedGathered ==
  ASSUME NEW s, NEW a, Planned(s, a)
  PROVE  Gathered(s, a)
<1>1. \A t : t \in Range(a.tasks) <=>
        \E n \in DOMAIN a.s.dialing \ DOMAIN s.dialing : t = Dial(n, a.s.dialing[n])
  BY DEF Planned
<1>2. \A t \in Range(a.tasks) : t.kind # "wait"
  BY <1>1, DialIs
<1>3. Work(Range(a.tasks)) = Range(a.tasks)
  BY <1>2 DEF Work
<1>4. a.s.lookupRunning = s.lookupRunning
  BY DEF Planned
<1>5. \A t : t \in Work(Range(a.tasks)) <=>
       \/ \E n \in DOMAIN a.s.dialing \ DOMAIN s.dialing : t = Dial(n, a.s.dialing[n])
       \/ t = Discover /\ a.s.lookupRunning /\ ~s.lookupRunning
  BY <1>1, <1>3, <1>4
<1>6. IsSeq(a.tasks)
  BY DEF Planned, IsSeq
<1> QED BY <1>4, <1>5, <1>6 DEF Planned, Gathered

LEMMA AddDiscoverGathered ==
  ASSUME NEW s, NEW a, Planned(s, a)
  PROVE  Gathered(s, AddDiscover(a))
<1>1. CASE ~(Len(a.rest) < a.need /\ ~a.s.lookupRunning)
  BY <1>1, PlannedGathered, Zenon DEF AddDiscover
<1>2. CASE Len(a.rest) < a.need /\ ~a.s.lookupRunning
  <2> DEFINE b == [a EXCEPT !.s.lookupRunning = TRUE, !.tasks = Append(@, Discover)]
  <2>0. AddDiscover(a) = b
    BY <1>2, Zenon DEF AddDiscover
  <2>1. {"s", "need", "tasks", "rest"} \subseteq DOMAIN a /\ DialFields \subseteq DOMAIN a.s
    BY DEF Planned
  <2>2. /\ {"s", "need", "tasks", "rest"} \subseteq DOMAIN b
        /\ b.s = [a.s EXCEPT !.lookupRunning = TRUE]
        /\ b.tasks = Append(a.tasks, Discover) /\ b.rest = a.rest
    BY <2>1
  <2> HIDE DEF b
  <2>3. /\ DialFields \subseteq DOMAIN b.s /\ b.s.static = a.s.static
        /\ b.s.peers = a.s.peers /\ b.s.lookupRunning = TRUE
        /\ b.s.dialing = a.s.dialing
    BY <2>1, <2>2 DEF DialFields
  <2>4. Dyn(b.s) = Dyn(a.s)
    BY <2>3 DEF Dyn
  <2>5. a.tasks \in Seq(Tasks) /\ Discover \in Tasks
    BY DEF Planned, Tasks
  <2>6. \A t : t \in Range(a.tasks) <=>
          \E n \in DOMAIN a.s.dialing \ DOMAIN s.dialing : t = Dial(n, a.s.dialing[n])
    BY DEF Planned
  <2>7. ~s.lookupRunning
    BY <1>2 DEF Planned
  <2>8. \A t : t \in Range(b.tasks) <=> t \in Range(a.tasks) \/ t = Discover
    BY <2>2, <2>5, AppendRange
  <2>9. Discover \notin Range(a.tasks)
    BY <2>6, DialIs
  <2>10. Work(Range(b.tasks)) = Range(b.tasks)
    <3>1. \A t \in Range(b.tasks) : t.kind # "wait"
      BY <2>6, <2>8, DialIs
    <3> QED BY <3>1 DEF Work
  <2>11. \A t : t \in Work(Range(b.tasks)) <=>
       \/ \E n \in DOMAIN b.s.dialing \ DOMAIN s.dialing : t = Dial(n, b.s.dialing[n])
       \/ t = Discover /\ b.s.lookupRunning /\ ~s.lookupRunning
    BY <2>3, <2>6, <2>7, <2>8, <2>10
  <2>12. /\ b.tasks \in Seq(Tasks) /\ DOMAIN a.tasks = 1 .. Len(a.tasks)
         /\ DOMAIN b.tasks = 1 .. Len(a.tasks) + 1 /\ Len(a.tasks) \in Nat
         /\ (\A i \in 1 .. Len(a.tasks) : b.tasks[i] = a.tasks[i])
         /\ b.tasks[Len(a.tasks) + 1] = Discover
    BY <2>2, <2>5
  <2>13. \A i, j \in DOMAIN b.tasks : b.tasks[i] = b.tasks[j] => i = j
    <3>1. \A i, j \in DOMAIN a.tasks : a.tasks[i] = a.tasks[j] => i = j
      BY DEF Planned
    <3>2. \A i \in DOMAIN a.tasks : a.tasks[i] # Discover
      BY <2>9, RangeIs
    <3>3. \A i \in DOMAIN b.tasks : i \in DOMAIN a.tasks \/ i = Len(a.tasks) + 1
      BY <2>12
    <3> QED BY <2>12, <3>1, <3>2, <3>3
  <2>14. IsSeq(b.tasks)
    BY <2>12 DEF IsSeq
  <2>15. Gathered(s, b)
    <3>1. /\ a.s.peers = s.peers /\ a.s.static \subseteq Known /\ a.rest \in Seq(Known)
          /\ DOMAIN a.s.dialing \subseteq Known
          /\ \A n \in DOMAIN s.dialing :
                n \in DOMAIN a.s.dialing /\ a.s.dialing[n] = s.dialing[n]
          /\ Cardinality(Dyn(a.s)) <= MaxDialed(s.config)
      BY DEF Planned
    <3> QED BY <2>2, <2>3, <2>4, <2>11, <2>13, <2>14, <3>1 DEF Gathered
  <2> QED BY <2>0, <2>15
<1> QED BY <1>1, <1>2

LEMMA AddWaitGathered ==
  ASSUME NEW s, NEW a, Gathered(s, a), NEW k
  PROVE  Gathered(s, AddWait(a, k))
<1>1. CASE ~(k = 0 /\ a.tasks = <<>> /\ a.s.hist # <<>>)
  BY <1>1, Zenon DEF AddWait
<1>2. CASE k = 0 /\ a.tasks = <<>> /\ a.s.hist # <<>>
  <2> DEFINE w == WaitExpire(Head(a.s.hist))
             b == [a EXCEPT !.tasks = <<w>>]
  <2>0. AddWait(a, k) = b
    BY <1>2, Zenon DEF AddWait
  <2>1. {"s", "need", "tasks", "rest"} \subseteq DOMAIN a
    BY DEF Gathered
  <2>2. /\ {"s", "need", "tasks", "rest"} \subseteq DOMAIN b
        /\ b.s = a.s /\ b.rest = a.rest /\ b.tasks = <<w>>
    BY <2>1
  <2>3. w.kind = "wait"
    BY DEF WaitExpire
  <2> HIDE DEF b, w
  <2>4. b.tasks \in Seq({w}) /\ DOMAIN b.tasks = {1} /\ b.tasks[1] = w
    BY <2>2
  <2>5. Work(Range(b.tasks)) = {}
    BY <2>3, <2>4, RangeIs DEF Work
  <2>6. Work(Range(a.tasks)) = {}
    <3>1. DOMAIN a.tasks = {}
      BY <1>2
    <3> QED BY <3>1, RangeIs DEF Work
  <2>7. IsSeq(b.tasks)
    BY <2>4 DEF IsSeq
  <2>8. \A i, j \in DOMAIN b.tasks : b.tasks[i].kind # "wait" /\ b.tasks[i] = b.tasks[j] => i = j
    BY <2>4
  <2>9. Gathered(s, b)
    BY <2>2, <2>5, <2>6, <2>7, <2>8 DEF Gathered
  <2> QED BY <2>0, <2>9
<1> QED BY <1>1, <1>2

\* newTasks begins with all that may be dialed and is not.
LEMMA StartPlanned ==
  ASSUME NEW s, Scheduling(s), NEW h,
         NEW a, a = [s |-> [s EXCEPT !.hist = h, !.due = 0], need |-> NeedDynDials(s),
                     tasks |-> <<>>, rest |-> <<>>]
  PROVE  Planned(s, a)
<1> DEFINE A == {n \in DOMAIN s.peers : "dyn" \in s.peers[n].flags}
           B == {n \in DOMAIN s.dialing : s.dialing[n] = "dyn"}
<1>1. /\ {"s", "need", "tasks", "rest"} \subseteq DOMAIN a
      /\ a.s = [s EXCEPT !.hist = h, !.due = 0] /\ a.need = NeedDynDials(s)
      /\ a.tasks = <<>> /\ a.rest = <<>>
  OBVIOUS
<1>2. /\ DialFields \subseteq DOMAIN a.s /\ a.s.peers = s.peers /\ a.s.static = s.static
      /\ a.s.lookupRunning = s.lookupRunning /\ a.s.dialing = s.dialing
  BY <1>1 DEF Scheduling, DialTypes, DialFields
<1>3. Dyn(a.s) = Dyn(s) /\ Dyn(s) = A \cup B
  BY <1>2 DEF Dyn
<1>4. IsFiniteSet(A) /\ IsFiniteSet(B)
  <2>1. IsFiniteSet(DOMAIN s.dialing) /\ IsFiniteSet(DOMAIN s.peers)
    BY KnownFinite, FS_Subset DEF Scheduling, DialTypes
  <2> QED BY <2>1, FS_Subset
<1>5. a.need = MaxDialed(s.config) - Cardinality(A) - Cardinality(B)
  BY <1>1 DEF NeedDynDials, Peers, Dialing, maxDialedConns, MaxDialed, Scheduling
<1> HIDE DEF A, B
<1>6. MaxDialed(s.config) \in Nat
  BY SetupNumbers DEF Scheduling, DialTypes
<1>7. /\ Cardinality(A \cup B) = Cardinality(A) + Cardinality(B) - Cardinality(A \cap B)
      /\ Cardinality(A) \in Nat /\ Cardinality(B) \in Nat /\ Cardinality(A \cap B) \in Nat
  BY <1>4, FS_Union, FS_Intersection, FS_CardinalityType
<1>8. a.need \in Int /\ Cardinality(Dyn(a.s)) + a.need <= MaxDialed(s.config)
  <2>1. \A x, y, z, m \in Nat : m - x - y \in Int /\ (x + y - z) + (m - x - y) <= m
    OBVIOUS
  <2>2. Cardinality(Dyn(a.s)) = Cardinality(A) + Cardinality(B) - Cardinality(A \cap B)
    BY <1>3, <1>7, Zenon
  <2> QED BY <1>5, <1>6, <1>7, <2>1, <2>2, Zenon
<1>9. Cardinality(Dyn(a.s)) <= MaxDialed(s.config)
  BY <1>3 DEF Scheduling, DialTypes
<1>10. a.tasks \in Seq(Tasks) /\ a.rest \in Seq(Known) /\ DOMAIN a.tasks = {}
  BY <1>1
<1>11. \A t : t \in Range(a.tasks) <=>
         \E n \in DOMAIN a.s.dialing \ DOMAIN s.dialing : t = Dial(n, a.s.dialing[n])
  BY <1>2, <1>10, RangeIs
<1>12. s.static \subseteq Known /\ DOMAIN s.dialing \subseteq Known
  BY DEF Scheduling, DialTypes
<1> HIDE DEF MaxDialed
<1> QED BY <1>1, <1>2, <1>8, <1>9, <1>10, <1>11, <1>12 DEF Planned

\* The state that newTasks leaves: h is left of the dial history.
Renewed(s, a, h) ==
  [[s EXCEPT !.hist = h, !.due = 0]
     EXCEPT !.static = a.s.static, !.dialing = a.s.dialing,
            !.bootnodes = a.s.bootnodes, !.lookupBuf = a.rest,
            !.lookupRunning = a.s.lookupRunning]

Renews(s, new) ==
  \E a, h : Gathered(s, a) /\ new = [s |-> Renewed(s, a, h), tasks |-> a.tasks]

LEMMA NewTasksGathered ==
  ASSUME NEW s, Scheduling(s), NEW k \in Nat, NEW order, DOMAIN order = 1 .. k, NEW fallback,
         NEW random \in Seq(Nodes)
  PROVE  Renews(s, NewTasks(s, order, fallback, random))
<1> DEFINE h == SubSeq(s.hist, s.due + 1, Len(s.hist))
           a0 == [s |-> [s EXCEPT !.hist = h, !.due = 0], need |-> NeedDynDials(s),
                  tasks |-> <<>>, rest |-> <<>>]
           a1 == FoldLeft(AddStaticDial, a0, order)
           a2 == AddRandom(AddBootnode(a1, fallback), random)
           a3 == FoldLeft(AddLookup, a2, s.lookupBuf)
           a4 == AddWait(AddDiscover(a3), Cardinality(s.running) + Len(s.queued))
<1>0. NewTasks(s, order, fallback, random)
        = [s |-> Renewed(s, a4, h), tasks |-> a4.tasks]
  BY Zenon DEF NewTasks, Renewed
<1> HIDE DEF h
<1>1. Planned(s, a0)
  BY StartPlanned
<1> HIDE DEF a0
<1>2. Planned(s, a1)
  BY <1>1, AllStaticPlanned
<1> HIDE DEF a1
<1>3. Planned(s, a2)
  BY <1>2, AddBootnodePlanned, AddRandomPlanned
<1> HIDE DEF a2
<1>4. s.lookupBuf \in Seq(Known)
  BY DEF Scheduling, DialTypes
<1>5. Planned(s, a3)
  BY <1>3, <1>4, AllLookupsPlanned
<1> HIDE DEF a3
<1>6. Gathered(s, a4)
  BY <1>5, AddDiscoverGathered, AddWaitGathered
<1> HIDE DEF a4
<1> QED BY <1>0, <1>6, Zenon DEF Renews

LEMMA OwedIs ==
  ASSUME NEW s
  PROVE  \A x : x \in Owed(s) <=>
           \/ \E n \in DOMAIN s.dialing : x = Dial(n, s.dialing[n])
           \/ x = Discover /\ s.lookupRunning
BY DEF Owed, Dialing

\* Each mark has its task again when newTasks is done.
LEMMA NewTasksState ==
  ASSUME NEW s, Scheduling(s), Tracked(s.running, s.queued, Owed(s)), NEW h, NEW a, Gathered(s, a),
         NEW t, t = Renewed(s, a, h)
  PROVE  /\ DialTypes(t) /\ t.config = s.config
         /\ t.running = s.running /\ t.queued = s.queued
         /\ Work(s.running \cup Range(s.queued) \cup Range(a.tasks)) = Owed(t)
         /\ Distinct(s.running, a.tasks)
         /\ \A i \in DOMAIN a.tasks : a.tasks[i].kind # "wait" => a.tasks[i] \notin Range(s.queued)
<1>0. DialFields \subseteq DOMAIN s
  BY DEF Scheduling, DialTypes
<1>1. /\ DOMAIN t = DOMAIN s
      /\ t.config = s.config /\ t.running = s.running /\ t.queued = s.queued
      /\ t.peers = s.peers /\ t.static = a.s.static /\ t.dialing = a.s.dialing
      /\ t.lookupBuf = a.rest /\ t.lookupRunning = a.s.lookupRunning
  BY <1>0 DEF DialFields, Renewed
<1>2. /\ a.s.peers = s.peers /\ a.s.static \subseteq Known /\ a.rest \in Seq(Known)
      /\ DOMAIN a.s.dialing \subseteq Known
      /\ DOMAIN s.dialing \subseteq DOMAIN a.s.dialing
      /\ \A n \in DOMAIN s.dialing : a.s.dialing[n] = s.dialing[n]
      /\ s.lookupRunning => a.s.lookupRunning
      /\ Cardinality(Dyn(a.s)) <= MaxDialed(s.config)
  BY DEF Gathered
<1>3. \A x : x \in Work(Range(a.tasks)) <=>
       \/ \E n \in DOMAIN a.s.dialing \ DOMAIN s.dialing : x = Dial(n, a.s.dialing[n])
       \/ x = Discover /\ a.s.lookupRunning /\ ~s.lookupRunning
  BY DEF Gathered
<1>4. \A i, j \in DOMAIN a.tasks : a.tasks[i].kind # "wait" /\ a.tasks[i] = a.tasks[j] => i = j
  BY DEF Gathered
<1>5. Dyn(t) = Dyn(a.s)
  BY <1>1, <1>2 DEF Dyn
<1>6. s.config \in Setups /\ IsFiniteSet(DOMAIN s.peers)
  BY DEF Scheduling, DialTypes
<1>7. DialTypes(t)
  BY <1>0, <1>1, <1>2, <1>5, <1>6 DEF DialTypes
<1>8. \A x : x \in Owed(t) <=>
        \/ \E n \in DOMAIN a.s.dialing : x = Dial(n, a.s.dialing[n])
        \/ x = Discover /\ a.s.lookupRunning
  BY <1>1, OwedIs
<1>9. \A x : x \in Owed(s) <=>
        \/ \E n \in DOMAIN s.dialing : x = Dial(n, s.dialing[n])
        \/ x = Discover /\ s.lookupRunning
  BY OwedIs
<1>10. \A x : x \in Owed(t) <=> x \in Owed(s) \/ x \in Work(Range(a.tasks))
  BY <1>2, <1>3, <1>8, <1>9
<1>11. \A x : ~(x \in Owed(s) /\ x \in Work(Range(a.tasks)))
  BY <1>3, <1>9, DialIs
<1>12. Owed(s) = Work(s.running \cup Range(s.queued))
  BY DEF Tracked
<1>13. Work(s.running \cup Range(s.queued) \cup Range(a.tasks)) = Owed(t)
  BY <1>10, <1>12 DEF Work
<1>14. ASSUME NEW i \in DOMAIN a.tasks, a.tasks[i].kind # "wait"
       PROVE  a.tasks[i] \notin s.running \cup Range(s.queued)
  <2>1. a.tasks[i] \in Work(Range(a.tasks))
    BY <1>14, RangeIs DEF Work
  <2> QED BY <1>11, <1>12, <1>14, <2>1 DEF Work
<1>15. Distinct(s.running, a.tasks)
  BY <1>4, <1>14 DEF Distinct
<1> QED BY <1>1, <1>7, <1>13, <1>14, <1>15

\* One turn of scheduleTasks keeps the state of the dials, its marks and the
\* running tasks.
Schedules(s, t) ==
  /\ DialState(t) /\ t.config = s.config /\ t.peers = s.peers
  /\ s.running \subseteq t.running
  /\ \A n \in DOMAIN s.dialing : n \in DOMAIN t.dialing /\ t.dialing[n] = s.dialing[n]

LEMMA StartedState ==
  ASSUME NEW s, DialState(s), s.config = srv.config,
         NEW t, t = StartTasks([s EXCEPT !.queued = <<>>], s.queued)
  PROVE  /\ Schedules(s, t) /\ Scheduling(t) /\ TaskTypes(t)
         /\ Tracked(t.running, t.queued, Owed(t))
<1> DEFINE r == [s EXCEPT !.queued = <<>>]
<1>0. DialFields \subseteq DOMAIN s /\ DialTypes(s) /\ TaskTypes(s) /\ s.config \in Setups
  BY DEF DialState, DialTypes
<1>1. /\ DOMAIN r = DOMAIN s /\ r.queued = <<>> /\ r.running = s.running
      /\ \A f \in DOMAIN s \ {"queued"} : r[f] = s[f]
      /\ r.config = s.config
  BY <1>0 DEF DialFields
<1> HIDE DEF r
<1>2. Range(r.queued) = {} /\ DOMAIN r.queued = {}
  <2>1. DOMAIN r.queued = {}
    BY <1>1
  <2> QED BY <2>1, RangeIs
<1>3. /\ IsSeq(s.queued) /\ Distinct(s.running, s.queued)
      /\ Work(s.running \cup Range(s.queued)) = Owed(s)
  BY DEF DialState, TaskTypes, Tracked
<1>4. TaskTypes(r)
  <2>1. r.queued \in Seq({})
    BY <1>1
  <2> QED BY <1>0, <1>1, <2>1 DEF TaskTypes, IsSeq
<1>5. Work(r.running \cup Range(r.queued) \cup Range(s.queued)) = Owed(s)
  <2>1. r.running \cup Range(r.queued) \cup Range(s.queued) = s.running \cup Range(s.queued)
    BY <1>1, <1>2
  <2> QED BY <1>3, <2>1, Zenon
<1>6. Distinct(r.running, r.queued) /\ Distinct(r.running, s.queued)
  BY <1>1, <1>2, <1>3 DEF Distinct
<1>7. {"running", "queued"} \subseteq DOMAIN r
  BY <1>0, <1>1 DEF DialFields
<1>8. /\ IsFiniteSet(t.running) /\ Cardinality(t.running) <= r.config.active
      /\ IsSeq(t.queued) /\ Tracked(t.running, t.queued, Owed(s))
      /\ r.running \subseteq t.running
      /\ DOMAIN t = DOMAIN r
      /\ \A f \in DOMAIN r \ {"running", "queued"} : t[f] = r[f]
  <2>1. t = StartTasks(r, s.queued)
    BY DEF r
  <2> QED BY <1>0, <1>1, <1>2, <1>3, <1>4, <1>5, <1>6, <1>7, <2>1, StartTasksTracked
<1>9. \A f \in DialFields \ {"running", "queued"} : t[f] = s[f]
  BY <1>0, <1>1, <1>8
<1>10. /\ t.config = s.config /\ t.peers = s.peers /\ t.static = s.static
       /\ t.dialing = s.dialing /\ t.lookupBuf = s.lookupBuf
       /\ t.lookupRunning = s.lookupRunning
  BY <1>9 DEF DialFields
<1>11. Dyn(t) = Dyn(s) /\ Owed(t) = Owed(s)
  BY <1>10 DEF Dyn, Owed, Dialing
<1>12. DialTypes(t)
  BY <1>0, <1>1, <1>8, <1>10, <1>11 DEF DialTypes
<1>13. TaskTypes(t) /\ Tracked(t.running, t.queued, Owed(t))
  BY <1>1, <1>8, <1>10, <1>11 DEF TaskTypes
<1> QED BY <1>1, <1>8, <1>10, <1>12, <1>13 DEF Schedules, Scheduling, DialState

LEMMA ScheduleState ==
  ASSUME NEW s, DialState(s), s.config = srv.config,
         NEW k \in Nat, NEW order, DOMAIN order = 1 .. k, NEW fallback,
         NEW random \in Seq(Nodes)
  PROVE  Schedules(s, Schedule(s, order, fallback, random))
<1> DEFINE started == StartTasks([s EXCEPT !.queued = <<>>], s.queued)
           new == NewTasks(started, order, fallback, random)
<1>1. \/ Schedule(s, order, fallback, random) = started
      \/ Schedule(s, order, fallback, random) = StartTasks(new.s, new.tasks)
  BY Zenon DEF Schedule
<1>2. /\ Schedules(s, started) /\ Scheduling(started) /\ TaskTypes(started)
      /\ Tracked(started.running, started.queued, Owed(started))
  BY StartedState
<1> HIDE DEF started
<1>3. PICK a, h : /\ Gathered(started, a)
                  /\ new = [s |-> Renewed(started, a, h), tasks |-> a.tasks]
  <2>1. Scheduling(started)
    BY <1>2
  <2>2. Renews(started, new)
    BY <2>1, NewTasksGathered
  <2> HIDE DEF new
  <2> QED BY <2>2, Zenon DEF Renews
<1> HIDE DEF new
<1> DEFINE t == Renewed(started, a, h)
           u == StartTasks(t, a.tasks)
<1>4. new.s = t /\ new.tasks = a.tasks
  BY <1>3
<1>5. /\ DialTypes(t) /\ t.config = started.config
      /\ t.running = started.running /\ t.queued = started.queued
      /\ Work(started.running \cup Range(started.queued) \cup Range(a.tasks)) = Owed(t)
      /\ Distinct(started.running, a.tasks)
      /\ \A i \in DOMAIN a.tasks : a.tasks[i].kind # "wait" => a.tasks[i] \notin Range(started.queued)
  BY <1>2, <1>3, NewTasksState
<1>6. t.dialing = a.s.dialing /\ t.peers = started.peers
  BY <1>2 DEF Scheduling, DialTypes, DialFields, Renewed
<1> HIDE DEF t
<1>7. TaskTypes(t) /\ Distinct(t.running, t.queued) /\ {"running", "queued"} \subseteq DOMAIN t
  <2>1. TaskTypes(t)
    BY <1>2, <1>5 DEF TaskTypes
  <2>2. Distinct(t.running, t.queued)
    BY <1>2, <1>5 DEF Tracked
  <2>3. {"running", "queued"} \subseteq DOMAIN t
    BY <1>5 DEF DialTypes, DialFields
  <2> QED BY <2>1, <2>2, <2>3
<1>8. IsSeq(a.tasks) /\ t.config = srv.config /\ srv.config \in Setups
  BY <1>2, <1>3, <1>5 DEF Gathered, Scheduling, DialTypes
<1>9. /\ IsFiniteSet(u.running) /\ Cardinality(u.running) <= t.config.active
      /\ IsSeq(u.queued) /\ Tracked(u.running, u.queued, Owed(t))
      /\ t.running \subseteq u.running
      /\ DOMAIN u = DOMAIN t
      /\ \A f \in DOMAIN t \ {"running", "queued"} : u[f] = t[f]
  <2>1. /\ Work(t.running \cup Range(t.queued) \cup Range(a.tasks)) = Owed(t)
        /\ Distinct(t.running, a.tasks)
        /\ \A i \in DOMAIN a.tasks : a.tasks[i].kind # "wait" => a.tasks[i] \notin Range(t.queued)
    BY <1>5
  <2> QED BY <1>7, <1>8, <2>1, StartTasksTracked
<1> HIDE DEF u
<1>10. DialFields \subseteq DOMAIN t
  BY <1>5 DEF DialTypes
<1>11. /\ u.config = t.config /\ u.peers = t.peers /\ u.static = t.static
       /\ u.dialing = t.dialing /\ u.lookupBuf = t.lookupBuf
       /\ u.lookupRunning = t.lookupRunning
  BY <1>9, <1>10 DEF DialFields
<1>12. Dyn(u) = Dyn(t) /\ Owed(u) = Owed(t)
  BY <1>11 DEF Dyn, Owed, Dialing
<1>13. DialState(u)
  BY <1>5, <1>9, <1>11, <1>12 DEF DialState, DialTypes, TaskTypes
<1>14. Schedules(s, u)
  <2>1. \A n \in DOMAIN started.dialing :
          n \in DOMAIN a.s.dialing /\ a.s.dialing[n] = started.dialing[n]
    BY <1>3 DEF Gathered
  <2> QED BY <1>2, <1>5, <1>6, <1>9, <1>11, <1>13, <2>1 DEF Schedules
<1> QED BY <1>1, <1>2, <1>4, <1>14 DEF u

-----------------------------------------------------------------------------
(* The steps and the dials. *)

LEMMA InitDials == Init => DInv
<1> SUFFICES ASSUME Init PROVE DInv
  OBVIOUS
<1>1. PICK u \in Setups :
        srv = [config |-> u, peers |-> <<>>, inboundCount |-> 0,
               static |-> u.static, dialing |-> <<>>, hist |-> <<>>, due |-> 0,
               lookupBuf |-> <<>>, lookupRunning |-> FALSE, bootnodes |-> Bootnodes,
               running |-> {}, queued |-> <<>>]
  BY Zenon DEF Init
<1>2. /\ srv.config = u /\ srv.peers = <<>> /\ srv.static = u.static /\ srv.dialing = <<>>
      /\ srv.lookupBuf = <<>> /\ srv.lookupRunning = FALSE
      /\ srv.running = {} /\ srv.queued = <<>>
  BY <1>1
<1>3. DialFields \subseteq DOMAIN srv
  BY <1>1 DEF DialFields
<1>4. DOMAIN srv.peers = {} /\ DOMAIN srv.dialing = {} /\ DOMAIN srv.queued = {}
  BY <1>2
<1>5. Dyn(srv) = {}
  BY <1>4 DEF Dyn
<1>6. MaxDialed(u) \in Nat
  BY SetupNumbers
<1>7. DialTypes(srv)
  <2>1. u.static \subseteq Known
    BY ServerAssumption DEF SetupType
  <2>2. Cardinality(Dyn(srv)) <= MaxDialed(u)
    BY <1>5, <1>6, FS_EmptySet
  <2>3. srv.lookupBuf \in Seq(Known) /\ IsFiniteSet(DOMAIN srv.peers)
    BY <1>2, <1>4, FS_EmptySet
  <2> QED BY <1>2, <1>3, <1>4, <2>1, <2>2, <2>3 DEF DialTypes
<1>8. TaskTypes(srv)
  <2>1. u.active \in Nat
    BY ServerAssumption DEF SetupType
  <2>2. srv.queued \in Seq({})
    BY <1>2
  <2> QED BY <1>2, <2>1, <2>2, FS_EmptySet DEF TaskTypes, IsSeq
<1>9. Tracked(srv.running, srv.queued, Owed(srv))
  <2>1. Owed(srv) = {}
    BY <1>2, <1>4, OwedIs
  <2>2. Range(srv.queued) = {}
    BY <1>4, RangeIs
  <2> QED BY <1>2, <1>4, <2>1, <2>2 DEF Tracked, Work, Distinct
<1>10. ConnDials /\ DoneDials
  BY DEF Init, ConnDials, DoneDials, NoConn
<1> QED BY <1>7, <1>8, <1>9, <1>10 DEF DInv, DialState

\* A step that leaves the tasks and the marks alone and adds no dialed peer.
Calm(s, t) ==
  /\ DialFields \subseteq DOMAIN t /\ t.config = s.config /\ t.static \subseteq Known
  /\ t.lookupBuf = s.lookupBuf /\ t.lookupRunning = s.lookupRunning
  /\ t.dialing = s.dialing /\ t.running = s.running /\ t.queued = s.queued
  /\ IsFiniteSet(DOMAIN t.peers) /\ Dyn(t) \subseteq Dyn(s)

LEMMA FewerDyn ==
  ASSUME NEW s, DialTypes(s), NEW t, IsFiniteSet(DOMAIN t.peers), Dyn(t) \subseteq Dyn(s)
  PROVE  Cardinality(Dyn(t)) <= MaxDialed(s.config)
<1>1. IsFiniteSet(Dyn(s)) /\ Cardinality(Dyn(s)) \in Nat
  BY FiniteDyn DEF DialTypes
<1>2. IsFiniteSet(Dyn(t)) /\ Cardinality(Dyn(t)) <= Cardinality(Dyn(s))
  BY <1>1, FS_Subset
<1>3. Cardinality(Dyn(t)) \in Nat
  BY <1>2, FS_CardinalityType
<1>4. MaxDialed(s.config) \in Nat
  BY SetupNumbers DEF DialTypes
<1>5. Cardinality(Dyn(s)) <= MaxDialed(s.config)
  BY DEF DialTypes
<1> QED BY <1>1, <1>2, <1>3, <1>4, <1>5

LEMMA CalmState ==
  ASSUME NEW s, DialState(s), NEW t, Calm(s, t)
  PROVE  DialState(t)
<1>1. DialTypes(t)
  <2>1. Cardinality(Dyn(t)) <= MaxDialed(s.config)
    BY FewerDyn DEF DialState, Calm
  <2> QED BY <2>1 DEF DialState, DialTypes, Calm
<1>2. TaskTypes(t)
  BY DEF DialState, TaskTypes, Calm
<1>3. \A x : x \in Owed(t) <=> x \in Owed(s)
  BY OwedIs DEF Calm
<1>4. Owed(t) = Owed(s)
  BY <1>3
<1>5. Tracked(t.running, t.queued, Owed(t))
  BY <1>4 DEF DialState, Calm
<1> QED BY <1>1, <1>2, <1>5 DEF DialState

LEMMA SameCalm == ASSUME DInv, UNCHANGED srv PROVE Calm(srv, srv')
BY DEF DInv, DialState, DialTypes, Calm

LEMMA CalmInv ==
  ASSUME DInv, Calm(srv, srv'), UNCHANGED <<conns, done>>
  PROVE  DInv'
<1>1. DialState(srv')
  BY CalmState DEF DInv
<1>2. ConnDials' /\ DoneDials'
  BY DEF DInv, ConnDials, DoneDials, Calm
<1> QED BY <1>1, <1>2 DEF DInv

\* One connection changes; it stays what it was or is no dial any more.
LEMMA ConnInv ==
  ASSUME DInv, Calm(srv, srv'), NEW k \in Keys, NEW c, conns' = [conns EXCEPT ![k] = c],
         "dyn" \in c.flags => "dyn" \in conns[k].flags /\ c.id = conns[k].id,
         done' = done \/ (done' = done \cup TaskOf(k) /\ "dyn" \notin c.flags)
  PROVE  DInv'
<1>1. DialState(srv')
  BY CalmState DEF DInv
<1>2. DOMAIN conns = Keys
  BY DEF DInv, ConnDials
<1>3. /\ DOMAIN conns' = Keys /\ conns'[k] = c
      /\ \A j \in Keys : j # k => conns'[j] = conns[j]
  BY <1>2
<1>4. ConnDials'
  <2> SUFFICES ASSUME NEW j \in Keys, "dyn" \in conns'[j].flags
               PROVE  OnTheWay(j, conns'[j], srv'.dialing)
    BY <1>3 DEF ConnDials
  <2>1. "dyn" \in conns[j].flags /\ conns'[j].id = conns[j].id
    BY <1>3
  <2> QED BY <2>1 DEF DInv, ConnDials, OnTheWay, Calm
<1>5. DoneDials'
  <2>0. srv'.running = srv.running
    BY DEF Calm
  <2>1. done' \subseteq srv'.running
    BY <2>0 DEF DInv, DoneDials, TaskOf
  <2>2. ASSUME NEW t \in done', NEW j \in Keys, t.kind = "dial", j = Out(t.id)
        PROVE  "dyn" \notin conns'[j].flags
    <3>1. CASE t \in done
      BY <1>3, <2>2, <3>1 DEF DInv, DoneDials
    <3>2. CASE t \notin done
      <4>1. t \in TaskOf(k) /\ "dyn" \notin c.flags
        BY <3>2
      <4>2. k = j
        BY <2>2, <4>1 DEF TaskOf
      <4> QED BY <1>3, <4>1, <4>2
    <3> QED BY <3>1, <3>2
  <2> QED BY <2>1, <2>2 DEF DoneDials
<1> QED BY <1>1, <1>4, <1>5 DEF DInv

\* Peers that end or leave are no new dialed peers.
LEMMA CalmPeers ==
  ASSUME NEW s, DialTypes(s), NEW t, DialFields \subseteq DOMAIN t,
         \A f \in DialFields \ {"peers", "hist", "due", "static"} : t[f] = s[f],
         t.static \subseteq Known, DOMAIN t.peers \subseteq DOMAIN s.peers,
         \A n \in DOMAIN t.peers : t.peers[n].flags = s.peers[n].flags
  PROVE  Calm(s, t)
<1>1. /\ t.config = s.config /\ t.lookupBuf = s.lookupBuf
      /\ t.lookupRunning = s.lookupRunning /\ t.dialing = s.dialing
      /\ t.running = s.running /\ t.queued = s.queued
  BY DEF DialFields
<1>2. IsFiniteSet(DOMAIN t.peers)
  BY FS_Subset DEF DialTypes
<1>3. Dyn(t) \subseteq Dyn(s)
  BY <1>1 DEF Dyn
<1> QED BY <1>1, <1>2, <1>3 DEF Calm

LEMMA PermutationSeq ==
  ASSUME NEW S, IsFiniteSet(S), NEW q \in SetToAllKPermutations(S)
  PROVE  q \in Seq(S)
<1>1. PICK T \in SUBSET S : q \in SetToSeqs(T)
  BY DEF SetToAllKPermutations
<1>2. Cardinality(T) \in Nat
  BY FS_Subset, FS_CardinalityType
<1>3. q \in [1 .. Cardinality(T) -> T]
  BY <1>1 DEF SetToSeqs
<1> QED BY <1>2, <1>3

LEMMA FiniteKnown == IsFiniteSet(Known)
BY ServerAssumption, FS_AddElement DEF Known

LEMMA ScheduleTasksDials ==
  ASSUME DInv, ScheduleTasks
  PROVE  DInv'
<1>1. PICK order \in SetToSeqs(srv.static), fallback \in BOOLEAN, random \in Samples :
        /\ srv' = Schedule(srv, order, fallback, random)
        /\ conns' = WithDials(conns, srv'.running \ srv.running)
  BY Zenon DEF ScheduleTasks
<1>2. Cardinality(srv.static) \in Nat /\ DOMAIN order = 1 .. Cardinality(srv.static)
  <2>1. IsFiniteSet(srv.static)
    BY FiniteKnown, FS_Subset DEF DInv, DialState, DialTypes
  <2>2. Cardinality(srv.static) \in Nat
    BY <2>1, FS_CardinalityType
  <2>3. order \in [1 .. Cardinality(srv.static) -> srv.static]
    BY <1>1 DEF SetToSeqs
  <2> QED BY <2>2, <2>3
<1>3. random \in Seq(Nodes)
  BY <1>1, PermutationSeq, ServerAssumption DEF Samples
<1>4. Schedules(srv, srv')
  BY <1>1, <1>2, <1>3, ScheduleState DEF DInv
<1>5. done' = done
  BY DEF ScheduleTasks
<1>6. DialState(srv') /\ srv.running \subseteq srv'.running
      /\ \A n \in DOMAIN srv.dialing : n \in DOMAIN srv'.dialing /\ srv'.dialing[n] = srv.dialing[n]
  BY <1>4 DEF Schedules
\* A running dial is the one that its node is marked with.
<1>7. ASSUME NEW t \in srv'.running, t.kind = "dial"
      PROVE  t.id \in DOMAIN srv'.dialing /\ t = Dial(t.id, srv'.dialing[t.id])
  <2>1. t \in Owed(srv')
    BY <1>6, <1>7 DEF DialState, Tracked, Work
  <2> QED BY <1>7, <2>1, OwedIs, DialIs
<1>8. DOMAIN conns' = Keys
  BY <1>1 DEF WithDials
<1>9. ASSUME NEW k \in Keys, "dyn" \in conns'[k].flags
      PROVE  \/ conns'[k] = conns[k]
             \/ /\ k = Out(k[2]) /\ conns'[k].id = k[2]
                /\ Dial(k[2], "dyn") \in srv'.running \ srv.running
  <2> DEFINE flags == {flag \in DialFlags : Dial(k[2], flag) \in srv'.running \ srv.running}
  <2>1. conns'[k] = IF k = Out(k[2]) /\ flags # {}
                    THEN [stage |-> "dial", id |-> k[2], flags |-> flags]
                    ELSE conns[k]
    BY <1>1 DEF WithDials
  <2>2. CASE k = Out(k[2]) /\ flags # {}
    <3>1. conns'[k].flags = flags /\ conns'[k].id = k[2]
      BY <2>1, <2>2
    <3>2. "dyn" \in flags
      BY <1>9, <3>1
    <3> QED BY <2>2, <3>1, <3>2
  <2>3. CASE ~(k = Out(k[2]) /\ flags # {})
    BY <2>1, <2>3
  <2> QED BY <2>2, <2>3
<1>10. ConnDials'
  <2> SUFFICES ASSUME NEW k \in Keys, "dyn" \in conns'[k].flags
               PROVE  OnTheWay(k, conns'[k], srv'.dialing)
    BY <1>8 DEF ConnDials
  <2>1. CASE conns'[k] = conns[k]
    BY <1>6, <2>1 DEF DInv, ConnDials, OnTheWay
  <2>2. CASE /\ k = Out(k[2]) /\ conns'[k].id = k[2]
             /\ Dial(k[2], "dyn") \in srv'.running \ srv.running
    <3>1. k[2] \in DOMAIN srv'.dialing /\ Dial(k[2], "dyn") = Dial(k[2], srv'.dialing[k[2]])
      BY <1>7, <2>2, DialIs
    <3>2. srv'.dialing[k[2]] = "dyn"
      BY <3>1, DialIs
    <3> QED BY <2>2, <3>1, <3>2 DEF OnTheWay
  <2> QED BY <1>9, <2>1, <2>2
<1>11. DoneDials'
  <2>1. done' \subseteq srv'.running
    BY <1>5, <1>6 DEF DInv, DoneDials
  <2>2. ASSUME NEW t \in done', NEW k \in Keys, t.kind = "dial", k = Out(t.id),
               "dyn" \in conns'[k].flags
        PROVE  FALSE
    <3>1. t \in done /\ t \in srv.running /\ t \in srv'.running /\ "dyn" \notin conns[k].flags
      BY <1>5, <1>6, <2>2 DEF DInv, DoneDials
    <3>2. k = Out(k[2]) /\ Dial(k[2], "dyn") \in srv'.running \ srv.running
      BY <1>9, <2>2, <3>1
    <3>3. k[2] = t.id
      BY <2>2 DEF Out
    <3>4. t = Dial(t.id, srv'.dialing[t.id])
      BY <1>7, <2>2, <3>1
    <3>5. Dial(t.id, "dyn") = Dial(t.id, srv'.dialing[t.id])
      BY <1>7, <3>2, <3>3, DialIs
    <3> QED BY <3>1, <3>2, <3>3, <3>4, <3>5
  <2> QED BY <2>1, <2>2 DEF DoneDials
<1> QED BY <1>6, <1>10, <1>11 DEF DInv

\* A task that has ended, and what it stood for, is gone.
LEMMA EndTracked ==
  ASSUME NEW R, NEW Q, NEW O, Tracked(R, Q, O), NEW t \in R
  PROVE  Tracked(R \ {t}, Q, IF t.kind = "wait" THEN O ELSE O \ {t})
<1>1. Distinct(R, Q) /\ Work(R \cup Range(Q)) = O
  BY DEF Tracked
<1>2. Distinct(R \ {t}, Q)
  BY <1>1 DEF Distinct
<1>3. CASE t.kind = "wait"
  <2>1. Work((R \ {t}) \cup Range(Q)) = O
    BY <1>1, <1>3 DEF Work
  <2> QED BY <1>2, <1>3, <2>1 DEF Tracked
<1>4. CASE t.kind # "wait"
  <2>1. t \notin Range(Q)
    BY <1>1, <1>4, RangeIs DEF Distinct
  <2>2. Work((R \ {t}) \cup Range(Q)) = O \ {t}
    BY <1>1, <1>4, <2>1 DEF Work
  <2> QED BY <1>2, <1>4, <2>2 DEF Tracked
<1> QED BY <1>3, <1>4

LEMMA TaskDoneDials ==
  ASSUME DInv, NEW t, TaskDone(t)
  PROVE  DInv'
<1> DEFINE s == [srv EXCEPT !.running = @ \ {t}]
<1>0. /\ DialFields \subseteq DOMAIN srv /\ DialTypes(srv) /\ TaskTypes(srv)
      /\ Tracked(srv.running, srv.queued, Owed(srv))
      /\ t \in done /\ t \in srv.running
      /\ done' = done \ {t} /\ conns' = conns
  BY DEF DInv, DialState, DialTypes, TaskDone, DoneDials
<1>1. /\ DOMAIN s = DOMAIN srv /\ s.running = srv.running \ {t}
      /\ \A f \in DOMAIN srv \ {"running"} : s[f] = srv[f]
  BY <1>0 DEF DialFields
<1>2. \/ t.kind = "dial" /\ srv' = DialDone(s, t.id)
      \/ t.kind = "discover" /\ \E results \in Lookups :
            srv' = [s EXCEPT !.lookupRunning = FALSE, !.lookupBuf = @ \o results]
      \/ t.kind = "wait" /\ srv' = s
  BY DEF TaskDone
<1> HIDE DEF s
<1>3. /\ s.config = srv.config /\ s.peers = srv.peers /\ s.static = srv.static
      /\ s.dialing = srv.dialing /\ s.lookupBuf = srv.lookupBuf
      /\ s.lookupRunning = srv.lookupRunning /\ s.queued = srv.queued
      /\ DialFields \subseteq DOMAIN s
  BY <1>0, <1>1 DEF DialFields
\* What the three kinds have in common.
<1>4. ASSUME DialFields \subseteq DOMAIN srv',
             srv'.config = srv.config, srv'.peers = srv.peers, srv'.static = srv.static,
             srv'.running = srv.running \ {t}, srv'.queued = srv.queued,
             srv'.lookupBuf \in Seq(Known), DOMAIN srv'.dialing \subseteq DOMAIN srv.dialing,
             \A n \in DOMAIN srv'.dialing : srv'.dialing[n] = srv.dialing[n],
             \A n \in DOMAIN srv.dialing \ DOMAIN srv'.dialing : t.kind = "dial" /\ n = t.id,
             Owed(srv') = IF t.kind = "wait" THEN Owed(srv) ELSE Owed(srv) \ {t}
      PROVE  DInv'
  <2>1. Dyn(srv') \subseteq Dyn(srv)
    BY <1>4 DEF Dyn
  <2>2. IsFiniteSet(DOMAIN srv'.peers)
    BY <1>0, <1>4 DEF DialTypes
  <2>3. Cardinality(Dyn(srv')) <= MaxDialed(srv.config)
    BY <1>0, <2>1, <2>2, FewerDyn
  <2>4. DialTypes(srv')
    BY <1>0, <1>4, <2>2, <2>3 DEF DialTypes
  <2>5. TaskTypes(srv')
    <3>1. IsFiniteSet(srv.running) /\ Cardinality(srv.running) <= srv.config.active
      BY <1>0 DEF TaskTypes
    <3>2. /\ IsFiniteSet(srv'.running) /\ Cardinality(srv'.running) <= Cardinality(srv.running)
      BY <1>4, <3>1, FS_Subset
    <3>3. /\ Cardinality(srv'.running) \in Nat /\ Cardinality(srv.running) \in Nat
          /\ srv.config.active \in Nat
      <4>1. srv.config.active \in Nat
        BY <1>0, ServerAssumption DEF DialTypes, SetupType
      <4> QED BY <3>1, <3>2, <4>1, FS_CardinalityType
    <3>4. Cardinality(srv'.running) <= srv.config.active
      BY <3>1, <3>2, <3>3
    <3> QED BY <1>0, <1>4, <3>2, <3>4 DEF TaskTypes
  <2>6. Tracked(srv'.running, srv'.queued, Owed(srv'))
    <3>1. Tracked(srv.running \ {t}, srv.queued,
                  IF t.kind = "wait" THEN Owed(srv) ELSE Owed(srv) \ {t})
      BY <1>0, EndTracked
    <3> QED BY <1>4, <3>1, Zenon
  <2>7. ConnDials'
    <3> SUFFICES ASSUME NEW k \in Keys, "dyn" \in conns[k].flags
                 PROVE  OnTheWay(k, conns[k], srv'.dialing)
      BY <1>0 DEF DInv, ConnDials
    <3>1. OnTheWay(k, conns[k], srv.dialing)
      BY DEF DInv, ConnDials
    <3>2. conns[k].id \in DOMAIN srv'.dialing
      BY <1>0, <1>4, <3>1 DEF DInv, DoneDials, OnTheWay
    <3> QED BY <1>4, <3>1, <3>2 DEF OnTheWay
  <2>8. DoneDials'
    BY <1>0, <1>4 DEF DInv, DoneDials
  <2> QED BY <2>4, <2>5, <2>6, <2>7, <2>8 DEF DInv, DialState
<1>5. t.kind # "wait" => t \in Owed(srv)
  BY <1>0 DEF Tracked, Work
<1>6. CASE t.kind = "dial" /\ srv' = DialDone(s, t.id)
  <2>1. /\ srv' = [s EXCEPT !.hist = Append(@, t.id), !.dialing = Without(@, t.id)]
    BY <1>6 DEF DialDone
  <2>2. /\ DialFields \subseteq DOMAIN srv'
        /\ srv'.config = srv.config /\ srv'.peers = srv.peers /\ srv'.static = srv.static
        /\ srv'.running = srv.running \ {t} /\ srv'.queued = srv.queued
        /\ srv'.lookupBuf = srv.lookupBuf /\ srv'.lookupRunning = srv.lookupRunning
        /\ srv'.dialing = Without(srv.dialing, t.id)
    BY <1>1, <1>3, <2>1 DEF DialFields
  <2>3. /\ DOMAIN srv'.dialing = DOMAIN srv.dialing \ {t.id}
        /\ \A n \in DOMAIN srv'.dialing : srv'.dialing[n] = srv.dialing[n]
    BY <2>2 DEF Without
  <2>4. t.id \in DOMAIN srv.dialing /\ t = Dial(t.id, srv.dialing[t.id])
    BY <1>5, <1>6, OwedIs, DialIs
  <2>5. \A x : x \in Owed(srv') <=> x \in Owed(srv) /\ x # t
    <3>1. \A x : x \in Owed(srv') <=>
            \/ \E n \in DOMAIN srv.dialing \ {t.id} : x = Dial(n, srv.dialing[n])
            \/ x = Discover /\ srv.lookupRunning
      BY <2>2, <2>3, OwedIs
    <3>2. \A x : x \in Owed(srv) <=>
            \/ \E n \in DOMAIN srv.dialing : x = Dial(n, srv.dialing[n])
            \/ x = Discover /\ srv.lookupRunning
      BY OwedIs
    <3>3. \A n \in DOMAIN srv.dialing : Dial(n, srv.dialing[n]) = t <=> n = t.id
      BY <2>4, DialIs
    <3>4. t # Discover
      BY <2>4, DialIs
    <3> QED BY <3>1, <3>2, <3>3, <3>4
  <2>6. Owed(srv') = Owed(srv) \ {t}
    BY <2>5
  <2>7. srv'.lookupBuf \in Seq(Known)
    BY <1>0, <2>2 DEF DialTypes
  <2> QED BY <1>4, <1>6, <2>2, <2>3, <2>6, <2>7
<1>7. CASE t.kind = "discover" /\ \E results \in Lookups :
             srv' = [s EXCEPT !.lookupRunning = FALSE, !.lookupBuf = @ \o results]
  <2>1. PICK results \in Lookups :
          srv' = [s EXCEPT !.lookupRunning = FALSE, !.lookupBuf = @ \o results]
    BY <1>7
  <2>2. /\ DialFields \subseteq DOMAIN srv'
        /\ srv'.config = srv.config /\ srv'.peers = srv.peers /\ srv'.static = srv.static
        /\ srv'.running = srv.running \ {t} /\ srv'.queued = srv.queued
        /\ srv'.lookupBuf = srv.lookupBuf \o results /\ srv'.lookupRunning = FALSE
        /\ srv'.dialing = srv.dialing
    BY <1>1, <1>3, <2>1 DEF DialFields
  <2>3. results \in Seq(Known)
    BY <2>1, FiniteKnown, PermutationSeq DEF Lookups
  <2>4. srv.lookupBuf \in Seq(Known)
    BY <1>0 DEF DialTypes
  <2>5. srv'.lookupBuf \in Seq(Known)
    BY <2>2, <2>3, <2>4
  <2>6. t = Discover
    BY <1>5, <1>7, OwedIs, DialIs
  <2>7. \A x : x \in Owed(srv') <=> x \in Owed(srv) /\ x # t
    <3>1. \A x : x \in Owed(srv') <=> \E n \in DOMAIN srv.dialing : x = Dial(n, srv.dialing[n])
      BY <2>2, OwedIs
    <3>2. \A x : x \in Owed(srv) <=>
            \/ \E n \in DOMAIN srv.dialing : x = Dial(n, srv.dialing[n])
            \/ x = Discover /\ srv.lookupRunning
      BY OwedIs
    <3> QED BY <2>6, <3>1, <3>2, DialIs
  <2>8. Owed(srv') = Owed(srv) \ {t}
    BY <2>7
  <2> QED BY <1>4, <1>7, <2>2, <2>5, <2>8
<1>8. CASE t.kind = "wait" /\ srv' = s
  <2>1. srv.lookupBuf \in Seq(Known)
    BY <1>0 DEF DialTypes
  <2>2. \A x : x \in Owed(srv') <=> x \in Owed(srv)
    BY <1>3, <1>8, OwedIs
  <2>3. Owed(srv') = Owed(srv)
    BY <2>2
  <2> QED BY <1>1, <1>3, <1>4, <1>8, <2>1, <2>3
<1> QED BY <1>2, <1>6, <1>7, <1>8

LEMMA PostHandshakeDials ==
  ASSUME IInv, DInv, NEW k \in Keys, PostHandshake(k)
  PROVE  DInv'
<1> DEFINE c == [conns[k] EXCEPT !.flags =
                   IF conns[k].id \in Trusted THEN @ \cup {"trusted"} ELSE @]
           d == [c EXCEPT !.stage = "proto"]
<1>1. {"stage", "id", "flags"} \subseteq DOMAIN conns[k]
  BY DEF IInv, Conns, ConnType
<1>2. /\ d.id = conns[k].id
      /\ d.flags = IF conns[k].id \in Trusted THEN conns[k].flags \cup {"trusted"}
                   ELSE conns[k].flags
  BY <1>1
<1>3. UNCHANGED srv /\ \/ UNCHANGED <<conns, done>>
                       \/ conns' = [conns EXCEPT ![k] = d] /\ UNCHANGED done
                       \/ conns' = [conns EXCEPT ![k] = NoConn] /\ done' = done \cup TaskOf(k)
  BY DEF PostHandshake, WaitInSelf, Returned, TaskReturns
<1> HIDE DEF c, d
<1>4. Calm(srv, srv')
  BY <1>3, SameCalm
<1>5. CASE UNCHANGED <<conns, done>>
  BY <1>4, <1>5, CalmInv
<1>6. CASE conns' = [conns EXCEPT ![k] = d] /\ UNCHANGED done
  <2>1. "dyn" \in d.flags => "dyn" \in conns[k].flags /\ d.id = conns[k].id
    BY <1>2
  <2> QED BY <1>4, <1>6, <2>1, ConnInv
<1>7. CASE conns' = [conns EXCEPT ![k] = NoConn] /\ done' = done \cup TaskOf(k)
  <2>1. "dyn" \notin NoConn.flags
    BY DEF NoConn
  <2> QED BY <1>4, <1>7, <2>1, ConnInv
<1> QED BY <1>3, <1>5, <1>6, <1>7

\* A dialed peer is added while its dial is still marked: it was counted.
LEMMA WithPeerCalm ==
  ASSUME IInv, DInv, NEW k \in Keys, EncHandshakeChecks(srv, conns[k]),
         srv' = WithPeer(srv, conns[k])
  PROVE  Calm(srv, srv')
<1> DEFINE c == conns[k]
           p == srv.peers
           q == With(p, c.id, [flags |-> c.flags, ended |-> FALSE])
<1>0. DialFields \subseteq DOMAIN srv /\ DialTypes(srv) /\ c.id \notin DOMAIN p
  BY DEF DInv, DialState, DialTypes, EncHandshakeChecks, AsksSelf, Peers
<1>1. /\ DialFields \subseteq DOMAIN srv' /\ srv'.config = srv.config
      /\ srv'.static = srv.static /\ srv'.lookupBuf = srv.lookupBuf
      /\ srv'.lookupRunning = srv.lookupRunning /\ srv'.dialing = srv.dialing
      /\ srv'.running = srv.running /\ srv'.queued = srv.queued /\ srv'.peers = q
  BY <1>0 DEF WithPeer, DialFields
<1>2. /\ DOMAIN q = DOMAIN p \cup {c.id} /\ q[c.id].flags = c.flags
      /\ \A n \in DOMAIN p : q[n] = p[n]
  BY <1>0 DEF With
<1>3. "dyn" \in c.flags => c.id \in DOMAIN srv.dialing /\ srv.dialing[c.id] = "dyn"
  BY DEF DInv, ConnDials, OnTheWay
<1> HIDE DEF c, q
<1>4. Dyn(srv') \subseteq Dyn(srv)
  BY <1>1, <1>2, <1>3 DEF Dyn
<1>5. IsFiniteSet(DOMAIN q)
  BY <1>0, <1>2, FS_AddElement DEF DialTypes
<1> QED BY <1>0, <1>1, <1>4, <1>5 DEF Calm, DialTypes

LEMMA AddConnDials ==
  ASSUME IInv, DInv, NEW k \in Keys, AddConn(k)
  PROVE  DInv'
<1>1. CASE WaitInSelf(conns[k])
  BY <1>1, SameCalm, CalmInv DEF WaitInSelf
<1>2. CASE /\ conns' = Returned(k) /\ TaskReturns(k)
           /\ \/ ProtoHandshakeChecks(srv, conns[k]) /\ srv' = WithPeer(srv, conns[k])
              \/ UNCHANGED srv
  <2>1. Calm(srv, srv')
    BY <1>2, WithPeerCalm, SameCalm DEF ProtoHandshakeChecks
  <2>2. conns' = [conns EXCEPT ![k] = NoConn] /\ done' = done \cup TaskOf(k)
    BY <1>2 DEF Returned, TaskReturns
  <2>3. "dyn" \notin NoConn.flags
    BY DEF NoConn
  <2> QED BY <2>1, <2>2, <2>3, ConnInv
<1> QED BY <1>1, <1>2 DEF AddConn

LEMMA SetupDials ==
  ASSUME IInv, DInv, NEW k \in Keys, Setup(k)
  PROVE  DInv'
<1>0. UNCHANGED srv /\ {"stage", "id", "flags"} \subseteq DOMAIN conns[k]
  BY DEF Setup, Advance, Fail, IInv, Conns, ConnType
<1>1. Calm(srv, srv')
  BY <1>0, SameCalm
<1>2. CASE Advance(k)
  <2>1. PICK stage : conns' = [conns EXCEPT ![k] = [conns[k] EXCEPT !.stage = stage]]
    <3>1. conns' = [conns EXCEPT ![k].stage = NextStage(@)]
      BY <1>2 DEF Advance
    <3> QED BY <3>1, Zenon
  <2> DEFINE c == [conns[k] EXCEPT !.stage = stage]
  <2>2. c.flags = conns[k].flags /\ c.id = conns[k].id
    BY <1>0
  <2>3. UNCHANGED done
    BY <1>2 DEF Advance
  <2> HIDE DEF c
  <2>4. conns' = [conns EXCEPT ![k] = c]
    BY <2>1 DEF c
  <2> QED BY <1>1, <2>2, <2>3, <2>4, ConnInv
<1>3. CASE Fail(k)
  <2>1. conns' = [conns EXCEPT ![k] = NoConn] /\ done' = done \cup TaskOf(k)
    BY <1>3 DEF Fail, Returned, TaskReturns
  <2>2. "dyn" \notin NoConn.flags
    BY DEF NoConn
  <2> QED BY <1>1, <2>1, <2>2, ConnInv
<1> QED BY <1>2, <1>3 DEF Setup

LEMMA AcceptDials ==
  ASSUME IInv, DInv, NEW slot \in srv.config.slots, NEW n, Accept(slot, n)
  PROVE  DInv'
<1> DEFINE c == [stage |-> "new", id |-> n, flags |-> {"inbound"}]
<1>1. In(slot) \in Keys
  BY DEF IInv, WellFormed, Keys, Slots
<1>2. "dyn" \notin c.flags
  OBVIOUS
<1>3. conns' = [conns EXCEPT ![In(slot)] = c] /\ UNCHANGED <<srv, done>>
  BY DEF Accept
<1> HIDE DEF c
<1>4. Calm(srv, srv')
  BY <1>3, SameCalm
<1> QED BY <1>1, <1>2, <1>3, <1>4, ConnInv

\* The events of the loop that concern peers.
LEMMA PeerDials ==
  ASSUME IInv, DInv, NEW n \in Known,
         AddPeer(n) \/ RemovePeer(n) \/ DelPeer(n) \/ PeerEnds(n) \/ Quit \/ SpinDown
  PROVE  DInv'
<1>0. /\ DialFields \subseteq DOMAIN srv /\ DialTypes(srv) /\ WellFormed(srv)
      /\ srv.static \subseteq Known /\ UNCHANGED <<conns, done>>
  BY DEF DInv, DialState, DialTypes, IInv, AddPeer, RemovePeer, DelPeer, PeerEnds, Quit, SpinDown
<1> DEFINE Others(s, t) == /\ DialFields \subseteq DOMAIN t
                           /\ \A f \in DialFields \ {"peers", "hist", "due", "static"} : t[f] = s[f]
                           /\ t.static \subseteq Known
           Fewer(s, t) == /\ DOMAIN t.peers \subseteq DOMAIN s.peers
                          /\ \A m \in DOMAIN t.peers : t.peers[m].flags = s.peers[m].flags
<1>1. SUFFICES Others(srv, srv') /\ Fewer(srv, srv')
  BY <1>0, CalmPeers, CalmInv
<1>2. CASE AddPeer(n)
  <2>1. srv' = [srv EXCEPT !.static = @ \cup {n}]
    BY <1>2 DEF AddPeer
  <2> QED BY <1>0, <2>1 DEF DialFields
<1>3. CASE RemovePeer(n)
  <2> DEFINE r == [srv EXCEPT !.static = @ \ {n}]
             s == HistRemove(r, n)
  <2>1. Others(srv, r) /\ r.peers = srv.peers
    BY <1>0 DEF DialFields
  <2>2. \/ s = r
        \/ \E i : s = [r EXCEPT !.hist = RemoveAt(@, i), !.due = IF i <= @ THEN @ - 1 ELSE @]
    BY DEF HistRemove
  <2>3. srv' = IF n \in DOMAIN s.peers THEN Disconnected(s, n) ELSE s
    BY <1>3 DEF RemovePeer, Peers, Disconnected
  <2> HIDE DEF r, s
  <2>4. Others(srv, s) /\ s.peers = srv.peers
    BY <2>1, <2>2 DEF DialFields
  <2>5. s.config = srv.config /\ PeerFields \subseteq DOMAIN s
    <3>1. s.config = srv.config
      BY <2>4 DEF DialFields
    <3>2. PeerFields \subseteq DOMAIN r
      BY <1>0 DEF WellFormed, r
    <3>3. DOMAIN s = DOMAIN r
      BY <2>2
    <3> QED BY <3>1, <3>2, <3>3
  <2>6. WellFormed(s)
    BY <1>0, <2>4, <2>5 DEF WellFormed
  <2>7. CASE n \in DOMAIN s.peers
    <3>1. srv' = Disconnected(s, n) /\ Marks(s, srv')
      BY <2>3, <2>6, <2>7, DisconnectedMarks
    <3>2. srv' = [s EXCEPT !.peers[n].ended = TRUE]
      BY <3>1 DEF Disconnected
    <3>3. Others(s, srv')
      BY <2>4, <3>2 DEF DialFields
    <3>4. Fewer(s, srv')
      BY <3>1 DEF Marks
    <3> QED BY <2>4, <3>3, <3>4
  <2>8. CASE n \notin DOMAIN s.peers
    BY <2>3, <2>4, <2>8
  <2> QED BY <2>7, <2>8
<1>4. CASE DelPeer(n)
  <2>1. PICK i : srv' = [srv EXCEPT !.peers = Without(@, n), !.inboundCount = i]
    BY <1>4 DEF DelPeer
  <2>2. Others(srv, srv') /\ srv'.peers = Without(srv.peers, n)
    BY <1>0, <2>1 DEF DialFields
  <2> QED BY <2>2 DEF Without
<1>5. CASE PeerEnds(n)
  <2>1. srv' = [srv EXCEPT !.peers[n].ended = TRUE] /\ n \in DOMAIN srv.peers
    BY <1>5 DEF PeerEnds, Peers
  <2>2. Others(srv, srv')
    BY <1>0, <2>1 DEF DialFields
  <2>3. Marks(srv, srv')
    BY <1>0, <2>1, DisconnectedMarks DEF Disconnected
  <2> QED BY <2>2, <2>3 DEF Marks
<1>6. CASE Quit
  <2> DEFINE p == [m \in DOMAIN srv.peers |-> [srv.peers[m] EXCEPT !.ended = TRUE]]
  <2>1. srv' = [srv EXCEPT !.peers = p]
    BY <1>6 DEF Quit, Peers
  <2>2. /\ DOMAIN p = DOMAIN srv.peers
        /\ \A m \in DOMAIN srv.peers : p[m].flags = srv.peers[m].flags
    BY <1>0 DEF WellFormed
  <2> HIDE DEF p
  <2>3. Others(srv, srv') /\ srv'.peers = p
    BY <1>0, <2>1 DEF DialFields
  <2> QED BY <2>2, <2>3
<1>7. CASE SpinDown
  <2>1. CASE UNCHANGED srv
    BY <1>0, <2>1
  <2>2. CASE \E m \in Peers(srv) : srv' = [srv EXCEPT !.peers = Without(@, m)]
    <3>1. PICK m \in DOMAIN srv.peers : srv' = [srv EXCEPT !.peers = Without(@, m)]
      BY <2>2 DEF Peers
    <3>2. Others(srv, srv') /\ srv'.peers = Without(srv.peers, m)
      BY <1>0, <3>1 DEF DialFields
    <3> QED BY <3>2 DEF Without
  <2> QED BY <1>7, <2>1, <2>2 DEF SpinDown
<1> QED BY <1>2, <1>3, <1>4, <1>5, <1>6, <1>7

LEMMA OtherDials ==
  ASSUME DInv, UNCHANGED conns, srv' = srv \/ srv' = [srv EXCEPT !.due = @ + 1],
         UNCHANGED done \/ \E t \in srv.running : t.kind # "dial" /\ done' = done \cup {t}
  PROVE  DInv'
<1>1. Calm(srv, srv')
  <2>1. DialTypes(srv) /\ DialFields \subseteq DOMAIN srv /\ srv.static \subseteq Known
    BY DEF DInv, DialState, DialTypes
  <2>2. /\ DialFields \subseteq DOMAIN srv' /\ srv'.static = srv.static /\ srv'.peers = srv.peers
        /\ \A f \in DialFields \ {"peers", "hist", "due", "static"} : srv'[f] = srv[f]
    BY <2>1 DEF DialFields
  <2> QED BY <2>1, <2>2, CalmPeers
<1>2. DialState(srv')
  BY <1>1, CalmState DEF DInv
<1>3. ConnDials'
  BY <1>1 DEF DInv, ConnDials, Calm
<1>4. DoneDials'
  BY <1>1 DEF DInv, DoneDials, Calm
<1> QED BY <1>2, <1>3, <1>4 DEF DInv

LEMMA NextDials ==
  ASSUME IInv, DInv, [Next]_vars
  PROVE  DInv'
<1>0. Self \in Known
  BY DEF Known
<1>1. CASE ScheduleTasks \/ Quit \/ SpinDown
  BY <1>0, <1>1, ScheduleTasksDials, PeerDials
<1>2. CASE \E n \in Known : AddPeer(n) \/ RemovePeer(n) \/ DelPeer(n) \/ PeerEnds(n)
  BY <1>2, PeerDials
<1>3. CASE \E t \in Tasks : TaskDone(t)
  BY <1>3, TaskDoneDials
<1>4. CASE \E k \in Keys : PostHandshake(k) \/ AddConn(k) \/ Setup(k)
  BY <1>4, PostHandshakeDials, AddConnDials, SetupDials
<1>5. CASE \E slot \in srv.config.slots, n \in Known : Accept(slot, n)
  BY <1>5, AcceptDials
<1>6. CASE (\E t \in Tasks : TaskEnds(t)) \/ ListenEnd \/ Expire \/ StopCalled \/ StopReturn
  BY <1>6, OtherDials DEF TaskEnds, ListenEnd, Expire, StopCalled, StopReturn
<1>7. CASE UNCHANGED vars
  BY <1>7, OtherDials DEF vars
<1> QED BY <1>1, <1>2, <1>3, <1>4, <1>5, <1>6, <1>7 DEF Next

\* Dialed peers and dials on the way share the bound on what may be dialed: a dial
\* task reports only after its peer is added or refused, so that a node is never
\* out of both counts while it is still to come.
THEOREM DialsBounded == Spec => []DynDialBound
<1>1. DInv => DynDialBound
  <2> SUFFICES ASSUME DInv PROVE DynDialBound
    OBVIOUS
  <2>1. /\ Cardinality(Dyn(srv)) <= MaxDialed(srv.config)
        /\ DOMAIN srv.dialing \subseteq Known
        /\ Tracked(srv.running, srv.queued, Owed(srv)) /\ done \subseteq srv.running
    BY DEF DInv, DialState, DialTypes, DoneDials
  <2>2. Cardinality({n \in Peers(srv) : "dyn" \in srv.peers[n].flags}
                      \cup {n \in Dialing(srv) : srv.dialing[n] = "dyn"}) <= maxDialedConns
    BY <2>1, Zenon DEF Dyn, MaxDialed, Peers, Dialing, maxDialedConns
  <2>3. TasksTracked
    BY <2>1, ServerAssumption DEF Tracked, Work, Distinct, TasksTracked, Dialing
  <2> QED BY <2>2, <2>3 DEF DynDialBound
<1> QED BY <1>1, InitDials, NextDials, Invariant, PTL DEF Spec
=============================================================================
