--------------------------- MODULE MCTrieDatabase ---------------------------
(* A small instance of TrieDatabase: two states that share the leaf p,     *)
(* which r2 holds twice; code c belongs to accounts in r1 and q.           *)
EXTENDS TrieDatabase

CONSTANTS c, p, q, r1, r2

MCEmbedded ==
  (c :> <<>>) @@ (p :> <<>>) @@ (q :> <<>>) @@ (r1 :> <<p>>) @@ (r2 :> <<p, q, p>>)

MCExternal ==
  [h \in {c, p, q, r1, r2} |-> IF h \in {r1, q} THEN {c} ELSE {}]

MCOrder == <<c, p, q, r1, r2>>
=============================================================================
