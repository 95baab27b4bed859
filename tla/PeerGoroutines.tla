--------------------------- MODULE PeerGoroutines ---------------------------
(* The goroutines of a peer, a getdata, and the end of the server, each on *)
(* its own: the part never changes.                                        *)
EXTENDS PeerConn, ServerPeer

VARIABLE part

goroutineVars == <<part, peerVars, getDataVars, stopVars>>

GoroutinesInit ==
    /\ part \in {"peer", "getdata", "stop"}
    /\ PeerInit /\ ServerPeerInit
    /\ part # "getdata" => items = <<>>
    /\ part # "stop" => relaysLeft = 0

GoroutinesNext ==
    \/ part = "peer" /\ PeerNext /\ UNCHANGED <<part, getDataVars, stopVars>>
    \/ part = "getdata" /\ GetDataNext /\ UNCHANGED <<part, peerVars, stopVars>>
    \/ part = "stop" /\ StopNext /\ UNCHANGED <<part, peerVars, getDataVars>>

GoroutinesSpec == GoroutinesInit /\ [][GoroutinesNext]_goroutineVars
                  /\ PeerFairness /\ GetDataFairness /\ StopFairness

-----------------------------------------------------------------------------
(* Messages of a peer are written one at a time in the order they were     *)
(* queued, whoever waits for one is signalled once, no deadline is kept    *)
(* that nothing is owed for, and no completion channel gets a second token.*)
MessagesKeepOrder == OneInFlight /\ SignalledOnce /\ DeadlinesAreOwed /\ ChannelsHoldOne

(* A peer's goroutines end once it disconnects, a peer that owes an answer *)
(* is disconnected, a getdata comes to its end, and so does the server.    *)
EverythingEnds == PeerWindsDown /\ StalledPeersLeave /\ GetDataReturns /\ StopsWithRoom

=============================================================================
