---------------------------- MODULE MCBlockChain ----------------------------
(***************************************************************************)
(* Block trees for BlockChain.  A transaction has one output, which has    *)
(* the name of the transaction; the coinbase of a block has its name, but  *)
(* for r2.                                                                 *)
(*                                                                         *)
(*   g -- a1 -- a2 (t1 spends a1, t2 spends t1) -- a3                      *)
(*    |     |-- c2 -- d3, e3                                               *)
(*    |           |-- c3 (t4 spends t2, which is not on its branch)        *)
(*    |-- b1 -- b2 (t3 spends b1)                                          *)
(*    |-- i1 (not sane), k1 (blacklisted)                                  *)
(*    |-- x1 (fails a rule) -- x2 -- z3                                    *)
(*    |                     |-- y2                                         *)
(*    |-- r1 -- r2 (has the coinbase of r1)                                *)
(***************************************************************************)
EXTENDS BlockChain, TLC

AllParent ==
    [b \in {"a1", "b1", "i1", "k1", "x1", "r1"} |-> "g"] @@ [b \in {"a2", "c2"} |-> "a1"]
    @@ [b \in {"c3", "d3", "e3"} |-> "c2"] @@ [b \in {"x2", "y2"} |-> "x1"]
    @@ ("a3" :> "a2") @@ ("b2" :> "b1") @@ ("z3" :> "x2") @@ ("r2" :> "r1")

AllWork ==
    [b \in {"g", "a1", "a2", "c2", "e3", "i1", "k1", "r1", "x1", "x2"} |-> 1] @@ ("b1" :> 2)
    @@ [b \in {"b2", "c3", "d3", "r2", "y2"} |-> 3] @@ [b \in {"a3", "z3"} |-> 4]

AllSpends ==
    ("a2" :> <<"t1", "t2">>) @@ ("b2" :> <<"t3">>) @@ ("c3" :> <<"t4">>)

MCParent == [b \in Blocks \ {Genesis} |-> AllParent[b]]
MCAncestors[b \in Blocks] ==
    IF b = Genesis THEN {b} ELSE {b} \cup MCAncestors[AllParent[b]]

MCHeight == [b \in Blocks |-> Cardinality(MCAncestors[b]) - 1]
MCWork == [b \in Blocks |-> AllWork[b]]

MCBlockTxs ==
    [b \in Blocks |-> <<IF b = "r2" THEN "r1" ELSE b>> \o (IF b \in DOMAIN AllSpends THEN AllSpends[b] ELSE <<>>)]

AllTxIn == ("t1" :> {"a1"}) @@ ("t2" :> {"t1"}) @@ ("t3" :> {"b1"}) @@ ("t4" :> {"t2"})

MCTxIn ==
    [t \in UNION {Range(MCBlockTxs[b]) : b \in Blocks} |-> IF t \in DOMAIN AllTxIn THEN AllTxIn[t] ELSE {}]

MCTxOut == [t \in DOMAIN MCTxIn |-> {t}]
MCOutputs == DOMAIN MCTxIn \cup UNION {MCTxIn[t] : t \in DOMAIN MCTxIn}
MCSane == Blocks \ {"i1"}
MCBlacklisted == Blocks \cap {"k1"}
MCRulesOK == Blocks \ {"x1"}

ReorgBlocks == {"g", "a1", "a2", "a3", "c2", "d3"}
ForkBlocks == {"g", "a1", "a2", "b1", "b2", "i1", "k1"}
LongBlocks == {"g", "b1", "a1", "c2", "e3"}
OffBranchBlocks == {"g", "a1", "a2", "c2", "c3"}
RepeatBlocks == {"g", "a1", "r1", "r2"}
InvalidParentBlocks == {"g", "x1", "x2", "y2", "z3"}
=============================================================================
