------------------------------ MODULE MCTxPool ------------------------------
(***************************************************************************)
(* The coinbase of a block, and its output, have the name of the block,    *)
(* but for r2; other outputs have the name of their transaction, and t1    *)
(* has a second one, u1.                                                   *)
(*                                                                         *)
(*   g -- a1 -- a2 (t1 spends a1, t2 spends t1) -- a3 (t3 spends t2)       *)
(*           |-- b2 (x1 spends a1 too)                                     *)
(*           |-- r2 (has the coinbase of a1)                               *)
(*                                                                         *)
(* m4 spends t3 and u1; v2 spends t1 too, and its signature is wrong.      *)
(***************************************************************************)
EXTENDS TxPool, TLC

MCBlocks == {"g", "a1", "a2", "a3", "b2", "r2"}
MCParent == ("a1" :> "g") @@ ("a2" :> "a1") @@ ("b2" :> "a1") @@ ("r2" :> "a1") @@ ("a3" :> "a2")

MCAncestors ==
    ("g" :> {"g"}) @@ ("a1" :> {"g", "a1"}) @@ ("a2" :> {"g", "a1", "a2"})
    @@ ("a3" :> {"g", "a1", "a2", "a3"}) @@ ("b2" :> {"g", "a1", "b2"})
    @@ ("r2" :> {"g", "a1", "r2"})

MCHeight == [b \in MCBlocks |-> Cardinality(MCAncestors[b]) - 1]
MCWork == [b \in MCBlocks |-> 1]

MCBlockTxs ==
    ("g" :> <<"g">>) @@ ("a1" :> <<"a1">>) @@ ("a2" :> <<"a2", "t1", "t2">>)
    @@ ("a3" :> <<"a3", "t3">>) @@ ("b2" :> <<"b2", "x1">>) @@ ("r2" :> <<"a1">>)

MCTxs == {"t1", "t2", "t3", "m4", "x1", "v2"}

MCTxIn ==
    [b \in MCBlocks |-> {}] @@ ("t1" :> {"a1"}) @@ ("x1" :> {"a1"}) @@ ("t2" :> {"t1"})
    @@ ("v2" :> {"t1"}) @@ ("t3" :> {"t2"}) @@ ("m4" :> {"t3", "u1"})

MCTxOut == [t \in DOMAIN MCTxIn |-> IF t = "t1" THEN {"t1", "u1"} ELSE {t}]
MCOutputs == UNION {MCTxOut[t] : t \in DOMAIN MCTxOut}
MCScriptsOK == MCTxs \ {"v2"}
=============================================================================
