---------------------------- MODULE MCP2PServer ----------------------------
(* Three setups of P2PServer: a server that dials for all of its two peers, *)
(* one of them static; one that accepts one of its two peers beside the      *)
(* trusted node n3 and is stopped; and one without discovery that is told to *)
(* dial itself.                                                              *)
EXTENDS P2PServer

CONSTANTS n1, n2, n3

MCBootnodes == <<n2>>

Dials   == [ntab |-> TRUE, noDial |-> FALSE, maxPeers |-> 2, dialRatio |-> 1, allowed |-> {n1, n2, n3}, static |-> {n1},
            slots |-> {}, active |-> 2, add |-> {n1}, stop |-> FALSE,
            results |-> 1]
Accepts == [ntab |-> TRUE, noDial |-> FALSE, maxPeers |-> 2, dialRatio |-> 2, allowed |-> {n1, n2, n3}, static |-> {},
            slots |-> {1, 2}, active |-> 1, add |-> {}, stop |-> TRUE,
            results |-> 0]

Private == [ntab |-> FALSE, noDial |-> FALSE, maxPeers |-> 1, dialRatio |-> 1,
            allowed |-> {n1, n3, Self}, static |-> {n1, Self}, slots |-> {1}, active |-> 2,
            add |-> {Self}, stop |-> FALSE, results |-> 0]

MCSetups == {Dials, Accepts, Private}
=============================================================================
