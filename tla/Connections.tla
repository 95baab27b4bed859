---------------------------- MODULE Connections ----------------------------
(***************************************************************************)
(* Who the node is connected to: the connection manager that dials         *)
(* (pkg/peer/connmgr/connmanager.go) and the peer lists of the server      *)
(* (Node.PeerHandler in cmd/node/rpc/server.go).  Each is one goroutine    *)
(* that takes its requests from channels; dials, timers and peers are      *)
(* goroutines of their own.                                                *)
(*                                                                         *)
(* A connection request is a number and a peer is the number of a          *)
(* connection.  Time is left out: a retry waits in tasks until it runs.    *)
(***************************************************************************)
EXTENDS Integers, Sequences, FiniteSets

CONSTANTS Hosts, GroupKey,      \* hosts, and the network group of each
          Permanent,            \* the hosts of AddPeers and of addnode
          TargetOutbound,
          MaxPeers,             \* of the configuration
          MaxConnReqs,          \* bounds on requests, on connections and on
          MaxConns, MaxInbound  \* the inbound ones among them

ASSUME ConnectionsConstants ==
    /\ Permanent \subseteq Hosts
    /\ TargetOutbound \in Nat /\ MaxPeers \in Nat

VARIABLES connReqs,     \* every request so far: its host, and whether it is permanent
          pendingReqs,  \* pending of connHandler
          conns,        \* conns of connHandler, by request
          newReqs,      \* calls of NewConnReq that wait to run
          tasks,        \* goroutines of requests: <<what they are at, request>>
          calls,        \* handleDisconnected messages: requests, in order
          nodePeers,    \* every peer so far
          newPeers,     \* the channels to PeerHandler
          donePeers,
          peerState     \* its lists: inbound, outbound, persistent, groups, banned

connVars == <<connReqs, pendingReqs, conns, newReqs, tasks, calls>>
serverVars == <<nodePeers, newPeers, donePeers, peerState>>
netVars == <<connVars, serverVars>>

ConnectionsInit ==
    /\ connReqs = <<>> /\ pendingReqs = {} /\ conns = {}
    /\ newReqs = TargetOutbound
    /\ tasks = {} /\ calls = <<>>
    /\ nodePeers = <<>> /\ newPeers = <<>> /\ donePeers = <<>>
    /\ peerState = [inbound |-> {}, outbound |-> {}, persistent |-> {},
                    groups |-> [g \in {GroupKey[h] : h \in Hosts} |-> 0], banned |-> {}]

-----------------------------------------------------------------------------
(* Goroutines of the connection manager.                                   *)

NewTask(what, id) == tasks' = tasks \cup {<<what, id>>}

(* NewConnReq: take a number and register it as pending.                   *)
NewConnReq ==
    /\ newReqs > 0 /\ Len(connReqs) < MaxConnReqs
    /\ newReqs' = newReqs - 1
    /\ connReqs' = Append(connReqs, [host |-> "none", permanent |-> FALSE])
    /\ pendingReqs' = pendingReqs \cup {Len(connReqs) + 1}
    /\ NewTask("address", Len(connReqs) + 1)
    /\ UNCHANGED <<conns, calls, serverVars>>

(* GetNewAddress: a host of a group with no outbound peer; then dial it.   *)
GetNewAddress(id) ==
    /\ <<"address", id>> \in tasks
    /\ \E h \in Hosts \ Permanent :
         /\ peerState.groups[GroupKey[h]] = 0
         /\ connReqs' = [connReqs EXCEPT ![id].host = h]
    /\ tasks' = (tasks \ {<<"address", id>>}) \cup {<<"dial", id>>}
    /\ UNCHANGED <<pendingReqs, conns, newReqs, calls, serverVars>>

(* Connect, for an address that was configured or added over RPC.          *)
Connect(h) ==
    /\ h \in Permanent /\ \A i \in DOMAIN connReqs : connReqs[i].host # h
    /\ Len(connReqs) < MaxConnReqs
    /\ connReqs' = Append(connReqs, [host |-> h, permanent |-> TRUE])
    /\ pendingReqs' = pendingReqs \cup {Len(connReqs) + 1}
    /\ NewTask("dial", Len(connReqs) + 1)
    /\ UNCHANGED <<conns, newReqs, calls, serverVars>>

-----------------------------------------------------------------------------
(* connHandler.                                                            *)

NeverRetried(id, rest) == tasks' = rest /\ UNCHANGED newReqs

(* handleFailedConn: a permanent request is dialled again, any other makes *)
(* way for a new one, at once or after RetryDuration.                      *)
handleFailedConn(id, rest) ==
    IF connReqs[id].permanent
    THEN tasks' = rest \cup {<<"dial", id>>} /\ UNCHANGED newReqs
    ELSE tasks' = rest /\ newReqs' = newReqs + 1

NewPeer(id) == [req |-> id, host |-> connReqs[id].host, persistent |-> connReqs[id].permanent,
                versionKnown |-> FALSE, up |-> TRUE]

(* The dial succeeded: OnConnection makes it a peer.  (One that is not pending   *)
(* any more, because it was removed, is closed; nothing in this program    *)
(* calls Remove.)                                                          *)
handleConnected(id) ==
    /\ <<"dial", id>> \in tasks
    /\ tasks' = tasks \ {<<"dial", id>>}
    /\ IF id \in pendingReqs
       THEN /\ Len(nodePeers) < MaxConns
            /\ conns' = conns \cup {id} /\ pendingReqs' = pendingReqs \ {id}
            /\ nodePeers' = Append(nodePeers, NewPeer(id))
       ELSE UNCHANGED <<conns, pendingReqs, nodePeers>>
    /\ UNCHANGED <<connReqs, newReqs, calls, newPeers, donePeers, peerState>>

(* No address was found, or the dial failed.                               *)
handleFailed(id) ==
    /\ \E t \in tasks : t[2] = id /\ LET rest == tasks \ {t} IN
         IF id \in pendingReqs THEN handleFailedConn(id, rest)
         ELSE tasks' = rest /\ UNCHANGED newReqs
    /\ UNCHANGED <<connReqs, pendingReqs, conns, calls, serverVars>>

(* Disconnect: with enough connections left, only a permanent request is   *)
(* tried again.  A request that is still pending is cancelled.             *)
handleDisconnected ==
    /\ calls # <<>>
    /\ calls' = Tail(calls)
    /\ LET id == Head(calls)
       IN  CASE id \in conns ->
                  /\ conns' = conns \ {id}
                  /\ IF Cardinality(conns') < TargetOutbound \/ connReqs[id].permanent
                     THEN pendingReqs' = pendingReqs \cup {id} /\ handleFailedConn(id, tasks)
                     ELSE UNCHANGED <<pendingReqs, tasks, newReqs>>
             [] id \notin conns /\ id \in pendingReqs ->
                  pendingReqs' = pendingReqs \ {id} /\ UNCHANGED <<conns, tasks, newReqs>>
             [] OTHER -> UNCHANGED <<pendingReqs, conns, tasks, newReqs>>
    /\ UNCHANGED <<connReqs, serverVars>>

-----------------------------------------------------------------------------
(* Peers: accept, negotiate, disconnect.                                   *)

InboundPeerConnected(h) ==
    /\ Len(nodePeers) < MaxConns
    /\ Cardinality({p \in DOMAIN nodePeers : nodePeers[p].req = 0}) < MaxInbound
    /\ nodePeers' = Append(nodePeers, [req |-> 0, host |-> h, persistent |-> FALSE,
                                       versionKnown |-> FALSE, up |-> TRUE])
    /\ UNCHANGED <<connVars, newPeers, donePeers, peerState>>

(* OnVersion ends with AddPeer.  Outbound peers need the services.         *)
VersionReceived(p) ==
    /\ nodePeers[p].up /\ ~nodePeers[p].versionKnown
    /\ nodePeers' = [nodePeers EXCEPT ![p].versionKnown = TRUE]
    /\ newPeers' = Append(newPeers, p) \/ UNCHANGED newPeers
    /\ UNCHANGED <<connVars, donePeers, peerState>>

(* The peer goes down, if it is up, and PeerDoneHandler says so, once.     *)
GoesDown(p) ==
    /\ nodePeers' = [nodePeers EXCEPT ![p].up = FALSE]
    /\ donePeers' = IF nodePeers[p].up THEN Append(donePeers, p) ELSE donePeers

(* The connection breaks, or any goroutine calls Disconnect.               *)
PeerDisconnects(p) ==
    /\ nodePeers[p].up
    /\ GoesDown(p)
    /\ UNCHANGED <<connVars, newPeers, peerState>>

-----------------------------------------------------------------------------
(* PeerHandler.  It takes from whichever channel is ready, and waits for   *)
(* the connection manager when it has called Disconnect.                   *)

HandlerReady == calls = <<>>

Inbound(p) == nodePeers[p].req = 0
Group(p) == GroupKey[nodePeers[p].host]
Count == Cardinality(peerState.inbound) + Cardinality(peerState.outbound)
         + Cardinality(peerState.persistent)

AddGroup(p) == [peerState.groups EXCEPT ![Group(p)] = @ + 1]

Refuses(p) == nodePeers[p].host \in peerState.banned \/ Count >= MaxPeers

HandleAddPeerMsg ==
    /\ HandlerReady /\ newPeers # <<>>
    /\ newPeers' = Tail(newPeers)
    /\ LET p == Head(newPeers)
       IN  IF Refuses(p)
           THEN GoesDown(p) /\ UNCHANGED peerState
           ELSE /\ peerState' =
                     CASE Inbound(p) -> [peerState EXCEPT !.inbound = @ \cup {p}]
                       [] ~Inbound(p) /\ nodePeers[p].persistent ->
                            [peerState EXCEPT !.persistent = @ \cup {p}, !.groups = AddGroup(p)]
                       [] OTHER ->
                            [peerState EXCEPT !.outbound = @ \cup {p}, !.groups = AddGroup(p)]
                /\ UNCHANGED <<nodePeers, donePeers>>
    /\ UNCHANGED <<connVars>>

RemoveGroup(p) == [peerState.groups EXCEPT ![Group(p)] = @ - 1]

Without(p) ==
    [peerState EXCEPT !.inbound = @ \ {p}, !.outbound = @ \ {p}, !.persistent = @ \ {p},
                      !.groups = IF Inbound(p) THEN @ ELSE RemoveGroup(p)]

Listed(p) == p \in peerState.inbound \cup peerState.outbound \cup peerState.persistent

HandleDonePeerMsg ==
    /\ HandlerReady /\ donePeers # <<>>
    /\ donePeers' = Tail(donePeers)
    /\ LET p == Head(donePeers)
       IN  /\ peerState' = IF Listed(p) THEN Without(p) ELSE peerState
           /\ calls' = IF Inbound(p) THEN calls ELSE Append(calls, nodePeers[p].req)
    /\ UNCHANGED <<connReqs, pendingReqs, conns, newReqs, tasks, nodePeers, newPeers>>

(* HandleBanPeerMsg, after AddBanScore has also disconnected the peer.     *)
HandleBanPeerMsg(p) ==
    /\ HandlerReady /\ nodePeers[p].up /\ nodePeers[p].versionKnown
    /\ peerState' = [peerState EXCEPT !.banned = @ \cup {nodePeers[p].host}]
    /\ GoesDown(p)
    /\ UNCHANGED <<connVars, newPeers>>

BanEnds(h) ==
    /\ h \in peerState.banned
    /\ peerState' = [peerState EXCEPT !.banned = @ \ {h}]
    /\ UNCHANGED <<connVars, nodePeers, newPeers, donePeers>>

(* DisconnectPeer for one peer of a list: addnode "remove" for a persistent *)
(* peer, node "disconnect" for the others.                                 *)
DisconnectPeer(p) ==
    /\ HandlerReady /\ Listed(p)
    /\ peerState' = Without(p)
    /\ GoesDown(p)
    /\ UNCHANGED <<connVars, newPeers>>

-----------------------------------------------------------------------------
ConnectionsNext ==
    \/ NewConnReq
    \/ \E id \in DOMAIN connReqs : GetNewAddress(id)
    \/ \E h \in Hosts : Connect(h)
    \/ \E id \in DOMAIN connReqs : handleConnected(id)
    \/ \E id \in DOMAIN connReqs : handleFailed(id)
    \/ handleDisconnected
    \/ \E h \in Hosts : InboundPeerConnected(h)
    \/ \E p \in DOMAIN nodePeers : VersionReceived(p)
    \/ \E p \in DOMAIN nodePeers : PeerDisconnects(p)
    \/ HandleAddPeerMsg
    \/ HandleDonePeerMsg
    \/ \E p \in DOMAIN nodePeers : HandleBanPeerMsg(p)
    \/ \E h \in Hosts : BanEnds(h)
    \/ \E p \in DOMAIN nodePeers : DisconnectPeer(p)

ConnectionsSpec == ConnectionsInit /\ [][ConnectionsNext]_netVars

-----------------------------------------------------------------------------
(* The node never gives up a connection slot: what is connected and what   *)
(* is being tried make up TargetOutbound, whichever of them fail, are      *)
(* refused, banned or disconnected, and in whatever order the two          *)
(* goroutines hear of it.                                                  *)
Attempts == {t[2] : t \in tasks} \cap pendingReqs

SlotsAreKept == Cardinality(conns) + Cardinality(Attempts) + newReqs >= TargetOutbound

(* A request has at most one peer that is up, and it counts as connected   *)
(* as long as that peer is up or its end has not been handled.             *)
OnePeerPerRequest ==
    /\ \A p \in DOMAIN nodePeers : nodePeers[p].up /\ ~Inbound(p) => nodePeers[p].req \in conns
    /\ \A p, q \in DOMAIN nodePeers :
         nodePeers[p].up /\ nodePeers[q].up /\ nodePeers[p].req = nodePeers[q].req /\ ~Inbound(p)
             => p = q
    /\ conns \cap pendingReqs = {}

(* The count of a group is the outbound peers that are listed with it,     *)
(* through refusals, removals over RPC and peers that end before they are  *)
(* added; GetNewAddress relies on it.                                      *)
GroupsAreCounted ==
    \A g \in DOMAIN peerState.groups :
        peerState.groups[g] =
            Cardinality({p \in peerState.outbound \cup peerState.persistent : Group(p) = g})

(* The connection manager and the server agree on who is connected: no     *)
(* outbound slot is lost, none is filled twice, and the groups of the      *)
(* peers are counted right.                                                *)
ConnectionsAreKept == SlotsAreKept /\ OnePeerPerRequest /\ GroupsAreCounted

=============================================================================
