----------------------------- MODULE MCNetwork -----------------------------
(* What the node keeps of others, each on its own (the part never changes):*)
(* connections, addresses, local addresses, and transactions.              *)
EXTENDS Connections, AddrManager, MCTxPool

CONSTANTS h1, h2, a1, a2, a3

VARIABLE part

MCGroup == h1 :> "g" @@ h2 :> "g"
MCNewBucketOf == [k \in {1} |-> [a \in Addrs |-> [s \in Sources |->
                    IF s = 1 THEN 1 ELSE IF a \in {a1, a2} THEN 2 ELSE 1]]]

MCTriedBucketOf == [k \in {1} |-> [a \in Addrs |-> IF a = a3 THEN 2 ELSE 1]]

MCInit ==
    /\ part \in {"connections", "addresses", "local", "pool"}
    /\ ConnectionsInit /\ AddrInit /\ TxPoolInit

MaxLocal == 3

MCNext ==
    \/ part = "connections" /\ ConnectionsNext /\ UNCHANGED <<part, addrVars, txPoolVars>>
    \/ part = "addresses" /\ UNCHANGED <<part, netVars, localAddresses, txPoolVars>> /\ AddrNext
    \/ /\ part = "local" /\ UNCHANGED <<part, netVars, am, txPoolVars>> /\ AddrNext
       /\ Cardinality(DOMAIN localAddresses') <= MaxLocal
    \/ part = "pool" /\ TxPoolNext /\ UNCHANGED <<part, netVars, addrVars>>

MCSpec ==
    /\ MCInit /\ [][MCNext]_<<part, netVars, addrVars, txPoolVars>>
    /\ WF_txPoolVars(Handler) /\ WF_txPoolVars(Loop)
=============================================================================
