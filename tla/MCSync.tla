------------------------------- MODULE MCSync -------------------------------
(***************************************************************************)
(* A small network for SyncManager, under one of several scenarios that    *)
(* Init chooses: which peers connect and what they do besides answering.   *)
(***************************************************************************)
EXTENDS SyncManager

CONSTANTS p1, p2, t1

VARIABLE scenario

mcVars == <<vars, scenario>>

(* 0 - 1 - 2 - 3 - 4 - 5, the checkpoints 1 and 3, and the branches          *)
(* 1 - 6 - 7 and 3 - 8 - 9.                                                 *)
MCBlocks == 0 .. 9
MCPrev == [b \in MCBlocks |->
              CASE b = 0 -> 0 [] b = 6 -> 1 [] b = 8 -> 3 [] OTHER -> b - 1]

MCCheckpoints == <<1, 3>>
MCMined == (p1 :> {} @@ p2 :> {5, 9})

(* The tips of the chains of the two peers.                                 *)
(* relay: the peers announce transactions once the chain is downloaded.     *)
(* fork: a peer whose chain leaves out a checkpoint.  short: a peer whose   *)
(* chain ends before one.  rival: two chains of one height.  local: one     *)
(* peer, and blocks are handed in locally.                                  *)
Tips == [sync |-> <<4, 4>>, relay |-> <<4, 4>>, fork |-> <<4, 7>>, short |-> <<4, 2>>,
         rival |-> <<4, 8>>, local |-> <<4, 4>>]

MCFirstTips == (p1 :> {4} @@ p2 :> {2, 4, 7, 8})

Connecting == IF scenario = "local" THEN {p1} ELSE Peers

MCInit ==
    /\ Init
    /\ scenario \in DOMAIN Tips
    /\ <<remote[p1].tip, remote[p2].tip>> = Tips[scenario]

MCNext ==
    \/ \E p \in Connecting : Handle(p) /\ UNCHANGED scenario
    \/ \E p \in Connecting : Remote(p) /\ UNCHANGED scenario
    \/ \E p \in Connecting : OnVersion(p) /\ UNCHANGED scenario
    \/ \E p \in Connecting :
          scenario # "relay" /\ PeerLeaves(p) /\ UNCHANGED scenario
    \/ \E p \in Connecting : \E b \in Mined[p] :
          scenario \in {"sync", "rival"} /\ PeerFinds(p, b) /\ UNCHANGED scenario
    \/ \E p \in Connecting, t \in Txs :
          /\ scenario = "relay" /\ best = remote[p].tip
          /\ PeerRelays(p, t) /\ UNCHANGED scenario
    \/ \E b \in Submitted :
          scenario = "local" /\ ProcessBlock(b) /\ UNCHANGED scenario
    \/ HandleUpdatePeerHeights /\ UNCHANGED scenario

MCFairness == \A p \in Peers :
    /\ WF_mcVars(p \in Connecting /\ Handle(p) /\ UNCHANGED scenario)
    /\ WF_mcVars(p \in Connecting /\ Remote(p) /\ UNCHANGED scenario)
    /\ WF_mcVars(p \in Connecting /\ OnVersion(p) /\ UNCHANGED scenario)

MCSpec == MCInit /\ [][MCNext]_mcVars /\ MCFairness
=============================================================================
