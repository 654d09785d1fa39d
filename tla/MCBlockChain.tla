---------------------------- MODULE MCBlockChain ----------------------------
(***************************************************************************)
(* Two branches over the genesis g: a1 .. a4 with equal difficulties and   *)
(* b1 .. b3, whose last block is so heavy that the shorter branch wins.    *)
(* c3 is a light second child of a2.  h1 on the genesis outweighs all of   *)
(* them, and h2 follows it.  Transaction t2 is on both branches, t1 and t3 *)
(* are on one only.  An instance takes some of the blocks and segments.    *)
(***************************************************************************)
EXTENDS BlockChain

CONSTANTS g, a1, a2, a3, a4, b1, b2, b3, c3, h1, h2, t1, t2, t3

MCParent == [b \in Blocks \ {g} |-> CASE b \in {a1, b1, h1} -> g [] b = a2 -> a1 [] b = a3 -> a2
                                      [] b = a4 -> a3 [] b = b2 -> b1 [] b = b3 -> b2 [] b = c3 -> a2
                                      [] b = h2 -> h1]
MCNum  == [b \in Blocks |-> CASE b = g -> 0 [] b \in {a1, b1, h1} -> 1 [] b \in {a2, b2, h2} -> 2
                              [] b \in {a3, b3, c3} -> 3 [] b = a4 -> 4]
MCDiff == [b \in Blocks |-> CASE b = h1 -> 20 [] b = b3 -> 5 [] b = b2 -> 3 [] b = c3 -> 1 [] OTHER -> 2]
MCTxs  == [b \in Blocks |-> CASE b = a3 -> {t1, t2} [] b = b2 -> {t2, t3} [] OTHER -> {}]

Use(ops, segments, targets) ==
  [ops |-> ops, segments |-> segments, targets |-> targets, invalid |-> {}, seals |-> {}]

\* A miner on both branches, with an invalid side block.
Mining == [Use({"import", "mine"},
                {<<a1, a2>>, <<a3, a4>>, <<b1, b2>>, <<b2, b3>>, <<a2, c3>>}, {})
             EXCEPT !.invalid = {c3}, !.seals = {a2, a4, b3}]
\* A node that is rewound while it imports one branch and a side block.
Rewinding == Use({"import", "sethead"}, {<<a1, a2>>, <<a2, a3>>, <<c3>>}, {0, 1, 2})
\* Headers, bodies and receipts, and the state of the pivot, with rollbacks or
\* with rewinds.
Syncing(back, targets) ==
  Use({"headers", "receipts", "commit", back}, {<<a1, a2>>, <<b1>>}, targets)

\* A heavy block and a long light branch.
Outgrowing == [Use({"import", "mine"}, {<<h1>>, <<h2>>, <<a1, a2>>, <<a3, a4>>}, {})
                 EXCEPT !.seals = {h2}]

MCUses     == {Mining, Outgrowing, Rewinding, Syncing("rollback", {}), Syncing("sethead", {0})}
RestartUses == {Use({"import", "stop", "crash"}, {<<a1, a2>>, <<b1>>, <<b2>>}, {})}
CrashUses  == {Use({"import", "crash"}, {<<a1, a2>>, <<a2, a3>>, <<b1, b2>>}, {})}
=============================================================================
