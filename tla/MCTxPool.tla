------------------------------ MODULE MCTxPool ------------------------------
(* A small instance of TxPool: an account a of this node and a remote b.   *)
EXTENDS TxPool

CONSTANTS a, b, g, h1, h2, h3

T(acc, n, p) == [from |-> acc, nonce |-> n, price |-> p]

\* With a bump of 10 percent 22 replaces 20, and 21 replaces nothing.
MCTxs ==
  {T(a, 0, 20), T(a, 0, 21), T(a, 0, 22), T(a, 1, 20),
   T(b, 0, 20), T(b, 1, 20), T(b, 1, 22), T(b, 2, 22)}

\* What peers send: single transactions and a batch that arrives out of order.
MCBatches ==
  {<<t>> : t \in MCTxs} \cup {<<T(b, 2, 22), T(b, 1, 20), T(b, 0, 20)>>}

\* h1 and h2 are children of g, h3 extends h2.
MCParent == (h1 :> g) @@ (h2 :> g) @@ (h3 :> h2)

MCBlockTxs ==
  (g :> <<>>) @@ (h1 :> <<T(a, 0, 20), T(b, 0, 20)>>) @@ (h2 :> <<T(b, 0, 20)>>)
    @@ (h3 :> <<>>)

\* On h2 each account cannot pay for one of its transactions.
MCPayable ==
  [h \in {g, h1, h2, h3} |->
     IF h = h2 THEN MCTxs \ {T(a, 0, 20), T(b, 1, 20)} ELSE MCTxs]
=============================================================================
