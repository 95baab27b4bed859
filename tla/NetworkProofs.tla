--------------------------- MODULE NetworkProofs ---------------------------
(***************************************************************************)
(* The node's connections, the addresses it knows and the goroutines of a  *)
(* peer, each on its own.                                                  *)
(*                                                                         *)
(* For any hosts and groups, any number of requests, connections and peers *)
(* and any limits: the connection manager and the server agree on who is   *)
(* connected.  No outbound slot is lost, a request never has two peers,    *)
(* and the groups count the listed outbound peers.  A request is held by   *)
(* one thing at a time: a peer that is up, the word of its end on the way  *)
(* to PeerHandler, or the call of Disconnect on the way to connHandler.    *)
(* That is why connHandler never cancels a request that it is still        *)
(* trying, and so why no slot is lost.                                     *)
(*                                                                         *)
(* For any addresses, sources and keys, any hash functions and any sizes:  *)
(* the index, the buckets and the counters of the address manager agree,   *)
(* within their bounds, and the best local address is the one announced.   *)
(*                                                                         *)
(* The inductive invariant, KnownOK, says in which tried bucket a tried    *)
(* address is, which the property does not: without it an address evicted  *)
(* from one tried bucket could stay in another.  updateAddress and Good    *)
(* are each two changes, and between them one part of it is suspended: an  *)
(* address that has just joined the index is in no bucket yet (fresh), and *)
(* a full tried bucket holds one more until it evicts one (KnownBut).      *)
(* What is saved holds neither references nor counters; they come back     *)
(* from the buckets as they were (ReadBack).                               *)
(*                                                                         *)
(* For any messages, any size of the output queue and any getdata: what a  *)
(* peer is sent keeps its order.  A message is in one place at a time, and *)
(* until the peer is disconnected those places in turn, after what was     *)
(* written, make up what was queued (LineOK).  A channel of OnGetData has  *)
(* its signal, or a message on the way that will give it, or neither, and  *)
(* is given away once (TokensOK).                                          *)
(***************************************************************************)
EXTENDS Connections, AddrManager, PeerGoroutines, FiniteSetTheorems, SliceLemmas, TLAPS

-----------------------------------------------------------------------------
(* The invariant.                                                          *)

Request == [host : Hosts \cup {"none"}, permanent : BOOLEAN]
Reqs == DOMAIN connReqs
NodePeer == [req : Nat, host : Hosts, persistent : BOOLEAN, versionKnown : BOOLEAN, up : BOOLEAN]
Nodes == DOMAIN nodePeers
GroupNames == {GroupKey[h] : h \in Hosts}

(* The connection manager; who is dialled has an address.                  *)
RequestsOK ==
    /\ connReqs \in Seq(Request)
    /\ pendingReqs \subseteq Reqs /\ conns \subseteq Reqs
    /\ newReqs \in Nat
    /\ tasks \subseteq {"address", "dial"} \X Reqs
    /\ \A id \in Reqs :
         connReqs[id].permanent \/ <<"dial", id>> \in tasks => connReqs[id].host \in Hosts

(* The peers and the channels to PeerHandler.                              *)
PeersOK ==
    /\ nodePeers \in Seq(NodePeer)
    /\ \A p \in Nodes : ~Inbound(p) => nodePeers[p].req \in Reqs
    /\ newPeers \in Seq(Nodes) /\ Distinct(newPeers)
    /\ donePeers \in Seq(Nodes) /\ Distinct(donePeers)
    /\ \A p \in Elements(donePeers) : ~nodePeers[p].up

(* Who holds a request on behalf of the server.                            *)
Holding(p) == ~Inbound(p) /\ (nodePeers[p].up \/ p \in Elements(donePeers))

HoldersOK ==
    /\ calls = <<>> \/ \E id \in conns : calls = <<id>>
    /\ \A p \in Nodes : Holding(p) =>
         /\ nodePeers[p].req \in conns /\ calls # <<nodePeers[p].req>>
         /\ \A q \in Nodes : Holding(q) /\ nodePeers[q].req = nodePeers[p].req => q = p
    /\ conns \cap pendingReqs = {}

(* The lists of the server: a peer waits to be listed, or is listed, once. *)
Outbound == peerState.outbound \cup peerState.persistent

ListsOK ==
    /\ peerState \in [inbound : SUBSET Nodes, outbound : SUBSET Nodes, persistent : SUBSET Nodes,
                      groups : [GroupNames -> Int], banned : SUBSET Hosts]
    /\ \A p \in peerState.inbound : Inbound(p)
    /\ \A p \in Outbound : ~Inbound(p)
    /\ \A p \in Nodes : Listed(p) => nodePeers[p].versionKnown
    /\ \A p \in Elements(newPeers) : nodePeers[p].versionKnown /\ ~Listed(p)

NetInv == RequestsOK /\ PeersOK /\ HoldersOK /\ ListsOK /\ SlotsAreKept /\ GroupsAreCounted

-----------------------------------------------------------------------------
(* Counting.                                                               *)

(* Facts about the sizes of the sets of requests.                          *)
LEMMA Sizes ==
    ASSUME NEW S, IsFiniteSet(S)
    PROVE  /\ Cardinality(S) \in Nat
           /\ \A x : /\ Cardinality(S \cup {x}) = IF x \in S THEN Cardinality(S)
                                                  ELSE Cardinality(S) + 1
                     /\ Cardinality(S \ {x}) = IF x \in S THEN Cardinality(S) - 1
                                               ELSE Cardinality(S)
           /\ \A T : T \subseteq S => IsFiniteSet(T) /\ Cardinality(T) <= Cardinality(S)
  BY FS_CardinalityType, FS_AddElement, FS_RemoveElement, FS_Subset

(* What is connected and what is tried are finite sets.                    *)
LEMMA RequestsAreFinite ==
    RequestsOK => IsFiniteSet(conns) /\ IsFiniteSet(Attempts)
<1> SUFFICES ASSUME RequestsOK PROVE IsFiniteSet(conns) /\ IsFiniteSet(Attempts)
  OBVIOUS
<1>1. Reqs = 1..Len(connReqs) /\ Len(connReqs) \in Nat
  BY DEF RequestsOK, Reqs
<1>2. IsFiniteSet(Reqs)
  BY <1>1, FS_Interval
<1> QED
  BY <1>2, FS_Subset DEF RequestsOK, Attempts

(* Slots cannot be lost while nothing that is connected or tried goes.     *)
LEMMA SlotsGrow ==
    ASSUME RequestsOK, RequestsOK', SlotsAreKept,
           conns \subseteq conns', Attempts \subseteq Attempts', newReqs' >= newReqs
    PROVE  SlotsAreKept'
<1>0. (RequestsOK => IsFiniteSet(conns) /\ IsFiniteSet(Attempts))'
  BY RequestsAreFinite, PTL
<1>1. IsFiniteSet(conns) /\ IsFiniteSet(Attempts) /\ IsFiniteSet(conns') /\ IsFiniteSet(Attempts')
  BY <1>0, RequestsAreFinite
<1>2. /\ Cardinality(conns) \in Nat /\ Cardinality(conns') \in Nat
      /\ Cardinality(Attempts) \in Nat /\ Cardinality(Attempts') \in Nat
      /\ Cardinality(conns) <= Cardinality(conns')
      /\ Cardinality(Attempts) <= Cardinality(Attempts')
  BY <1>1, Sizes
<1>3. newReqs \in Nat /\ newReqs' \in Nat
  BY DEF RequestsOK
<1> QED
  BY <1>2, <1>3, ConnectionsConstants DEF SlotsAreKept

-----------------------------------------------------------------------------
(* Init.                                                                   *)

LEMMA InitNetInv == ConnectionsInit => NetInv
<1> SUFFICES ASSUME ConnectionsInit PROVE NetInv
  OBVIOUS
<1> USE DEF ConnectionsInit
<1>1. RequestsOK
  BY ConnectionsConstants DEF RequestsOK, Reqs
<1>2. PeersOK
  BY DEF PeersOK, Nodes, Elements, Distinct
<1>3. HoldersOK
  BY DEF HoldersOK, Nodes
<1>4. ListsOK
  BY DEF ListsOK, Nodes, GroupNames, Outbound, Elements, Listed
<1>5. SlotsAreKept
  BY FS_EmptySet, ConnectionsConstants DEF SlotsAreKept, Attempts
<1>6. GroupsAreCounted
  <2>1. \A g : {p \in {} \cup {} : Group(p) = g} = {}
    OBVIOUS
  <2> QED
    BY <2>1, FS_EmptySet DEF GroupsAreCounted
<1> QED
  BY <1>1, <1>2, <1>3, <1>4, <1>5, <1>6 DEF NetInv

-----------------------------------------------------------------------------
(* The connection manager.                                                 *)

(* A new request gets the next number.                                     *)
LEMMA NewNumber ==
    ASSUME RequestsOK, NEW r \in Request, connReqs' = Append(connReqs, r)
    PROVE  LET id == Len(connReqs) + 1
           IN  /\ connReqs' \in Seq(Request)
               /\ id \notin Reqs /\ Reqs' = Reqs \cup {id}
               /\ connReqs'[id] = r
               /\ \A k \in Reqs : connReqs'[k] = connReqs[k]
<1>1. connReqs \in Seq(Request) /\ Len(connReqs) \in Nat /\ DOMAIN connReqs = 1..Len(connReqs)
  BY DEF RequestsOK
<1>2. /\ connReqs' \in Seq(Request) /\ DOMAIN connReqs' = 1..Len(connReqs) + 1
      /\ \A k \in 1..Len(connReqs) : connReqs'[k] = connReqs[k]
      /\ connReqs'[Len(connReqs) + 1] = r
  BY <1>1
<1>3. Len(connReqs) + 1 \notin 1..Len(connReqs)
      /\ 1..Len(connReqs) + 1 = 1..Len(connReqs) \cup {Len(connReqs) + 1}
  BY <1>1
<1> QED
  BY <1>1, <1>2, <1>3 DEF Reqs

(* As long as the server rests and nothing that is connected goes, the     *)
(* server's side of the invariant stays.                                   *)
LEMMA ServerRests ==
    ASSUME NetInv, UNCHANGED serverVars, UNCHANGED calls, conns \subseteq conns',
           Reqs \subseteq Reqs', conns' \cap pendingReqs' = {}
    PROVE  PeersOK' /\ HoldersOK' /\ ListsOK' /\ GroupsAreCounted'
<1> USE DEF serverVars
<1>1. PeersOK'
  BY DEF NetInv, PeersOK, Nodes, Elements, Distinct, Inbound
<1>2. HoldersOK'
  BY DEF NetInv, HoldersOK, Nodes, Holding, Inbound, Elements
<1>3. ListsOK'
  BY DEF NetInv, ListsOK, Nodes, Outbound, Listed, Inbound, Elements
<1>4. GroupsAreCounted'
  BY DEF NetInv, GroupsAreCounted, Group
<1> QED
  BY <1>1, <1>2, <1>3, <1>4

(* A new peer gets the next number.                                        *)
LEMMA NewPeerNumber ==
    ASSUME PeersOK, NEW n \in NodePeer, nodePeers' = Append(nodePeers, n)
    PROVE  LET p == Len(nodePeers) + 1
           IN  /\ nodePeers' \in Seq(NodePeer)
               /\ p \notin Nodes /\ Nodes' = Nodes \cup {p}
               /\ nodePeers'[p] = n
               /\ \A q \in Nodes : nodePeers'[q] = nodePeers[q]
<1>1. nodePeers \in Seq(NodePeer) /\ Len(nodePeers) \in Nat /\ DOMAIN nodePeers = 1..Len(nodePeers)
  BY DEF PeersOK
<1>2. /\ nodePeers' \in Seq(NodePeer) /\ DOMAIN nodePeers' = 1..Len(nodePeers) + 1
      /\ \A k \in 1..Len(nodePeers) : nodePeers'[k] = nodePeers[k]
      /\ nodePeers'[Len(nodePeers) + 1] = n
  BY <1>1
<1>3. Len(nodePeers) + 1 \notin 1..Len(nodePeers)
      /\ 1..Len(nodePeers) + 1 = 1..Len(nodePeers) \cup {Len(nodePeers) + 1}
  BY <1>1
<1> QED
  BY <1>1, <1>2, <1>3 DEF Nodes

(* The lists stay right while PeerHandler rests: peers may come and go.    *)
LEMMA ListsStay ==
    ASSUME PeersOK, ListsOK, GroupsAreCounted, UNCHANGED <<newPeers, peerState>>,
           Nodes \subseteq Nodes',
           \A p \in Nodes : /\ Inbound(p)' = Inbound(p) /\ Group(p)' = Group(p)
                            /\ nodePeers'[p].versionKnown = nodePeers[p].versionKnown
    PROVE  ListsOK' /\ GroupsAreCounted'
<1>1. /\ peerState.inbound \subseteq Nodes /\ Outbound \subseteq Nodes
      /\ \A p : Listed(p) => p \in Nodes
  BY DEF ListsOK, Outbound, Listed
<1>2. Elements(newPeers) \subseteq Nodes
  BY DEF PeersOK, Elements
<1>3. /\ peerState' = peerState /\ Elements(newPeers') = Elements(newPeers) /\ Outbound' = Outbound
      /\ \A p : Listed(p)' <=> Listed(p)
  BY DEF Elements, Outbound, Listed
<1>4. ListsOK'
  <2>1. peerState' \in [inbound : SUBSET Nodes', outbound : SUBSET Nodes', persistent : SUBSET Nodes',
                        groups : [GroupNames -> Int], banned : SUBSET Hosts]
    BY <1>3 DEF ListsOK
  <2>2. (\A p \in peerState'.inbound : Inbound(p)') /\ (\A p \in Outbound' : ~Inbound(p)')
    BY <1>1, <1>3 DEF ListsOK
  <2>3. \A p \in Nodes' : Listed(p)' => nodePeers'[p].versionKnown
    BY <1>1, <1>3 DEF ListsOK
  <2>4. \A p \in Elements(newPeers') : nodePeers'[p].versionKnown /\ ~Listed(p)'
    BY <1>2, <1>3 DEF ListsOK
  <2> QED
    BY <2>1, <2>2, <2>3, <2>4 DEF ListsOK
<1>5. GroupsAreCounted'
  <2>1. \A g : {p \in Outbound : Group(p) = g} = {p \in Outbound' : Group(p)' = g}
    BY <1>1, <1>3
  <2> QED
    BY <1>3, <2>1 DEF GroupsAreCounted, Outbound
<1> QED
  BY <1>4, <1>5

LEMMA NewConnReqKeeps == NetInv /\ NewConnReq => NetInv'
<1> SUFFICES ASSUME NetInv, NewConnReq PROVE NetInv'
  OBVIOUS
<1> DEFINE id == Len(connReqs) + 1
           r == [host |-> "none", permanent |-> FALSE]
<1>0. r \in Request /\ connReqs' = Append(connReqs, r)
  BY DEF Request, NewConnReq
<1>1. /\ connReqs' \in Seq(Request) /\ id \notin Reqs /\ Reqs' = Reqs \cup {id}
      /\ connReqs'[id] = r /\ \A k \in Reqs : connReqs'[k] = connReqs[k]
  BY <1>0, NewNumber DEF NetInv
<1>2. /\ pendingReqs' = pendingReqs \cup {id} /\ conns' = conns /\ newReqs' = newReqs - 1 /\ newReqs > 0
      /\ tasks' = tasks \cup {<<"address", id>>}
      /\ UNCHANGED calls /\ UNCHANGED serverVars
  BY DEF NewConnReq, NewTask
<1> HIDE DEF id
<1>3. RequestsOK'
  <2>1. <<"dial", id>> \notin tasks'
    BY <1>1, <1>2 DEF NetInv, RequestsOK
  <2>2. ~r.permanent
    OBVIOUS
  <2>3. \A k \in Reqs' :
          connReqs'[k].permanent \/ <<"dial", k>> \in tasks' => connReqs'[k].host \in Hosts
    <3> HIDE DEF r
    <3> QED
      BY <1>1, <1>2, <2>1, <2>2 DEF NetInv, RequestsOK
  <2>4. newReqs' \in Nat
    BY <1>2 DEF NetInv, RequestsOK
  <2> QED
    BY <1>1, <1>2, <2>3, <2>4 DEF NetInv, RequestsOK
<1>4. conns' \cap pendingReqs' = {}
  BY <1>1, <1>2 DEF NetInv, HoldersOK, RequestsOK
<1>5. SlotsAreKept'
  <2>0. {t[2] : t \in tasks'} = {t[2] : t \in tasks} \cup {id}
    <3>1. <<"address", id>>[2] = id
      OBVIOUS
    <3>2. \A t \in tasks' : t \in tasks \/ t = <<"address", id>>
      BY <1>2
    <3>3. \A t \in tasks : t \in tasks'
      BY <1>2
    <3>4. <<"address", id>> \in tasks'
      BY <1>2
    <3> QED
      BY <3>1, <3>2, <3>3, <3>4
  <2>1. Attempts' = Attempts \cup {id} /\ id \notin Attempts
    <3>1. \A t \in tasks : t[2] \in Reqs
      BY DEF NetInv, RequestsOK
    <3> QED
      BY <1>1, <1>2, <2>0, <3>1 DEF Attempts
  <2>2. IsFiniteSet(Attempts) /\ IsFiniteSet(conns)
    BY RequestsAreFinite DEF NetInv
  <2>3. Cardinality(Attempts') = Cardinality(Attempts) + 1
    BY <2>1, <2>2, Sizes
  <2>4. Cardinality(Attempts) \in Nat /\ Cardinality(conns) \in Nat /\ newReqs \in Nat
    BY <2>2, Sizes DEF NetInv, RequestsOK
  <2> QED
    BY <1>2, <2>3, <2>4, ConnectionsConstants DEF SlotsAreKept, NetInv
<1> QED
  BY <1>1, <1>2, <1>3, <1>4, <1>5, ServerRests DEF NetInv

LEMMA GetNewAddressKeeps ==
    ASSUME NetInv, NEW id \in Reqs, GetNewAddress(id)
    PROVE  NetInv'
<1> PICK h \in Hosts \ Permanent : connReqs' = [connReqs EXCEPT ![id].host = h]
  BY DEF GetNewAddress
<1>1. /\ tasks' = (tasks \ {<<"address", id>>}) \cup {<<"dial", id>>} /\ <<"address", id>> \in tasks
      /\ UNCHANGED <<pendingReqs, conns, newReqs, calls>> /\ UNCHANGED serverVars
  BY DEF GetNewAddress
<1>2. /\ connReqs' \in Seq(Request) /\ Reqs' = Reqs
      /\ connReqs'[id].host = h /\ \A k \in Reqs \ {id} : connReqs'[k] = connReqs[k]
  <2>1. connReqs \in Seq(Request) /\ connReqs[id] \in Request
    BY DEF NetInv, RequestsOK, Reqs
  <2> DEFINE r == [connReqs[id] EXCEPT !.host = h]
  <2>2. r \in Request /\ r.host = h
    BY <2>1 DEF Request
  <2>3. connReqs' = [connReqs EXCEPT ![id] = r]
    OBVIOUS
  <2> HIDE DEF r
  <2> QED
    BY <2>1, <2>2, <2>3, SeqExcept DEF Reqs
<1>3. RequestsOK'
  <2>1. \A k \in Reqs' :
          connReqs'[k].permanent \/ <<"dial", k>> \in tasks' => connReqs'[k].host \in Hosts
    BY <1>1, <1>2 DEF NetInv, RequestsOK
  <2> QED
    BY <1>1, <1>2, <2>1 DEF NetInv, RequestsOK
<1>4. conns' \cap pendingReqs' = {}
  BY <1>1 DEF NetInv, HoldersOK
<1>5. Attempts \subseteq Attempts'
  BY <1>1 DEF Attempts
<1>6. SlotsAreKept'
  BY <1>1, <1>3, <1>5, SlotsGrow DEF NetInv, RequestsOK
<1> QED
  BY <1>1, <1>2, <1>3, <1>4, <1>6, ServerRests DEF NetInv

LEMMA ConnectKeeps ==
    ASSUME NetInv, NEW h \in Hosts, Connect(h)
    PROVE  NetInv'
<1> DEFINE id == Len(connReqs) + 1
           r == [host |-> h, permanent |-> TRUE]
<1>0. r \in Request /\ connReqs' = Append(connReqs, r) /\ r.host = h
  BY DEF Request, Connect
<1>1. /\ connReqs' \in Seq(Request) /\ id \notin Reqs /\ Reqs' = Reqs \cup {id}
      /\ connReqs'[id] = r /\ \A k \in Reqs : connReqs'[k] = connReqs[k]
  BY <1>0, NewNumber DEF NetInv
<1>2. /\ pendingReqs' = pendingReqs \cup {id} /\ tasks' = tasks \cup {<<"dial", id>>}
      /\ UNCHANGED <<conns, newReqs, calls>> /\ UNCHANGED serverVars
  BY DEF Connect, NewTask
<1> HIDE DEF id, r
<1>3. RequestsOK'
  <2>1. \A k \in Reqs' :
          connReqs'[k].permanent \/ <<"dial", k>> \in tasks' => connReqs'[k].host \in Hosts
    BY <1>0, <1>1, <1>2 DEF NetInv, RequestsOK
  <2> QED
    BY <1>1, <1>2, <2>1 DEF NetInv, RequestsOK
<1>4. conns' \cap pendingReqs' = {}
  BY <1>1, <1>2 DEF NetInv, HoldersOK, RequestsOK
<1>5. Attempts \subseteq Attempts'
  BY <1>2 DEF Attempts
<1>6. SlotsAreKept'
  BY <1>2, <1>3, <1>5, SlotsGrow DEF NetInv, RequestsOK
<1> QED
  BY <1>1, <1>2, <1>3, <1>4, <1>6, ServerRests DEF NetInv

(* The tasks of one request, without one of them.                          *)
LEMMA TaskGone ==
    ASSUME NEW T, NEW id, NEW t \in T, t[2] = id
    PROVE  {u[2] : u \in T} \ {id} \subseteq {u[2] : u \in T \ {t}}
  OBVIOUS

LEMMA handleFailedKeeps ==
    ASSUME NetInv, NEW id \in Reqs, handleFailed(id)
    PROVE  NetInv'
<1> PICK t \in tasks : t[2] = id /\ LET rest == tasks \ {t} IN
         IF id \in pendingReqs THEN handleFailedConn(id, rest)
         ELSE tasks' = rest /\ UNCHANGED newReqs
  BY DEF handleFailed
<1>1. UNCHANGED <<connReqs, pendingReqs, conns, calls>> /\ UNCHANGED serverVars
  BY DEF handleFailed
<1>2. /\ newReqs' \in Nat /\ newReqs' >= newReqs /\ tasks \ {t} \subseteq tasks'
      /\ tasks' \subseteq tasks \cup {<<"dial", id>>}
      /\ <<"dial", id>> \in tasks' => <<"dial", id>> \in tasks \/ connReqs[id].permanent
  BY DEF handleFailedConn, NetInv, RequestsOK
<1>3. RequestsOK'
  <2>1. Reqs' = Reqs
    BY <1>1 DEF Reqs
  <2>2. \A k \in Reqs' :
          connReqs'[k].permanent \/ <<"dial", k>> \in tasks' => connReqs'[k].host \in Hosts
    BY <1>1, <1>2, <2>1 DEF NetInv, RequestsOK
  <2> QED
    BY <1>1, <1>2, <2>1, <2>2 DEF NetInv, RequestsOK
<1>4. conns' \cap pendingReqs' = {} /\ Reqs' = Reqs
  BY <1>1 DEF NetInv, HoldersOK, Reqs
<1>5. SlotsAreKept'
  <2>1. CASE id \notin pendingReqs \/ connReqs[id].permanent
    <3>1. Attempts \ {id} \subseteq Attempts'
      <4>1. {u[2] : u \in tasks \ {t}} \subseteq {u[2] : u \in tasks'}
        BY <1>2
      <4> QED
        BY <1>1, <4>1, TaskGone DEF Attempts
    <3>2. id \in Attempts => id \in Attempts'
      <4> SUFFICES ASSUME id \in pendingReqs PROVE id \in Attempts'
        BY DEF Attempts
      <4>1. <<"dial", id>> \in tasks' /\ <<"dial", id>>[2] = id
        BY <2>1 DEF handleFailedConn
      <4> QED
        BY <1>1, <4>1 DEF Attempts
    <3>3. Attempts \subseteq Attempts'
      BY <3>1, <3>2
    <3> QED
      BY <1>1, <1>2, <1>3, <3>3, SlotsGrow DEF NetInv
  <2>2. CASE id \in pendingReqs /\ ~connReqs[id].permanent
    <3>1. newReqs' = newReqs + 1 /\ tasks' = tasks \ {t}
      BY <2>2 DEF handleFailedConn
    <3>2. Attempts \ {id} \subseteq Attempts'
      BY <1>1, <3>1, TaskGone DEF Attempts
    <3>3. IsFiniteSet(Attempts) /\ IsFiniteSet(conns)
      BY RequestsAreFinite DEF NetInv
    <3>4. (RequestsOK => IsFiniteSet(conns) /\ IsFiniteSet(Attempts))'
      BY RequestsAreFinite, PTL
    <3>5. Cardinality(Attempts \ {id}) <= Cardinality(Attempts')
      BY <1>3, <3>2, <3>4, Sizes
    <3>6. /\ Cardinality(Attempts \ {id}) \in Nat /\ Cardinality(Attempts') \in Nat
          /\ Cardinality(Attempts \ {id}) >= Cardinality(Attempts) - 1
      <4>1. IsFiniteSet(Attempts \ {id})
        BY <3>3, Sizes
      <4>2. Cardinality(Attempts) \in Nat
        BY <3>3, Sizes
      <4>3. Cardinality(Attempts \ {id}) \in Nat /\ Cardinality(Attempts') \in Nat
        BY <1>3, <3>4, <4>1, Sizes
      <4>4. Cardinality(Attempts \ {id}) = IF id \in Attempts THEN Cardinality(Attempts) - 1
                                           ELSE Cardinality(Attempts)
        BY <3>3, Sizes
      <4> QED
        BY <4>2, <4>3, <4>4
    <3>7. Cardinality(Attempts) \in Nat /\ Cardinality(conns) \in Nat /\ newReqs \in Nat
      BY <3>3, Sizes DEF NetInv, RequestsOK
    <3> QED
      BY <1>1, <3>1, <3>5, <3>6, <3>7, ConnectionsConstants DEF SlotsAreKept, NetInv
  <2> QED
    BY <2>1, <2>2
<1> QED
  BY <1>1, <1>3, <1>4, <1>5, ServerRests DEF NetInv

LEMMA handleConnectedKeeps ==
    ASSUME NetInv, NEW id \in Reqs, handleConnected(id)
    PROVE  NetInv'
<1> DEFINE t == <<"dial", id>>
<1>0. t \in tasks /\ t[2] = id /\ connReqs[id].host \in Hosts
  BY DEF handleConnected, NetInv, RequestsOK
<1>1. /\ tasks' = tasks \ {t} /\ UNCHANGED <<connReqs, newReqs, calls, newPeers, donePeers, peerState>>
      /\ Reqs' = Reqs
  BY DEF handleConnected, Reqs
<1>2. CASE id \notin pendingReqs
  <2>1. UNCHANGED <<conns, pendingReqs>> /\ UNCHANGED serverVars
    BY <1>1, <1>2 DEF handleConnected, serverVars
  <2>2. RequestsOK'
    BY <1>1, <2>1 DEF NetInv, RequestsOK
  <2>3. Attempts \subseteq Attempts'
    BY <1>0, <1>1, <1>2, <2>1, TaskGone DEF Attempts
  <2>4. SlotsAreKept'
    BY <1>1, <2>1, <2>2, <2>3, SlotsGrow DEF NetInv, RequestsOK
  <2>5. conns' \cap pendingReqs' = {}
    BY <2>1 DEF NetInv, HoldersOK
  <2> QED
    BY <1>1, <2>1, <2>2, <2>4, <2>5, ServerRests DEF NetInv
<1>3. CASE id \in pendingReqs
  <2> PICK p : p = Len(nodePeers) + 1
    OBVIOUS
  <2>1. /\ conns' = conns \cup {id} /\ pendingReqs' = pendingReqs \ {id}
        /\ nodePeers' = Append(nodePeers, NewPeer(id)) /\ id \notin conns
    BY <1>3 DEF handleConnected, NetInv, HoldersOK
  <2>2. /\ NewPeer(id) \in NodePeer /\ NewPeer(id).req = id /\ id # 0 /\ id \in Nat
        /\ NewPeer(id).up
    <3>1. id \in Nat \ {0} /\ connReqs[id] \in Request
      BY DEF NetInv, RequestsOK, Reqs
    <3>2. connReqs[id].permanent \in BOOLEAN
      BY <3>1 DEF Request
    <3> QED
      BY <1>0, <3>1, <3>2 DEF NewPeer, NodePeer
  <2> DEFINE n == NewPeer(id)
  <2> HIDE DEF n
  <2>3. /\ nodePeers' \in Seq(NodePeer) /\ p \notin Nodes /\ Nodes' = Nodes \cup {p}
        /\ nodePeers'[p] = n /\ \A q \in Nodes : nodePeers'[q] = nodePeers[q]
    BY <2>1, <2>2, NewPeerNumber DEF NetInv, PeersOK, n
  <2>4. RequestsOK'
    BY <1>1, <2>1 DEF NetInv, RequestsOK
  <2>5. SlotsAreKept'
    <3>1. IsFiniteSet(Attempts) /\ IsFiniteSet(conns)
      BY RequestsAreFinite DEF NetInv
    <3>2. (RequestsOK => IsFiniteSet(conns) /\ IsFiniteSet(Attempts))'
      BY RequestsAreFinite, PTL
    <3>3. Attempts \ {id} \subseteq Attempts'
      BY <1>0, <1>1, <2>1, TaskGone DEF Attempts
    <3>4. Cardinality(Attempts \ {id}) <= Cardinality(Attempts')
      BY <2>4, <3>2, <3>3, Sizes
    <3>5. Cardinality(conns') = Cardinality(conns) + 1
      BY <2>1, <3>1, Sizes
    <3>6. /\ Cardinality(Attempts) \in Nat /\ Cardinality(conns) \in Nat /\ newReqs \in Nat
          /\ Cardinality(Attempts') \in Nat
      BY <2>4, <3>1, <3>2, Sizes DEF NetInv, RequestsOK
    <3>7. Cardinality(Attempts \ {id}) = IF id \in Attempts THEN Cardinality(Attempts) - 1
                                         ELSE Cardinality(Attempts)
      BY <3>1, Sizes
    <3> QED
      BY <1>1, <3>4, <3>5, <3>6, <3>7, ConnectionsConstants DEF SlotsAreKept, NetInv
  <2>6. \A q \in Nodes' : q # p => q \in Nodes
    BY <2>3
  <2>7. ~Inbound(p)' /\ nodePeers'[p].req = id /\ nodePeers'[p].up
    BY <2>2, <2>3 DEF Inbound, n
  <2>8. \A q \in Nodes : Inbound(q)' = Inbound(q) /\ Group(q)' = Group(q)
    BY <2>3 DEF Inbound, Group
  <2>9. PeersOK'
    <3>1. /\ newPeers' \in Seq(Nodes') /\ donePeers' \in Seq(Nodes')
          /\ Distinct(newPeers') /\ Distinct(donePeers')
      BY <1>1, <2>3 DEF NetInv, PeersOK, Distinct
    <3>2. \A q \in Nodes' : ~Inbound(q)' => nodePeers'[q].req \in Reqs'
      BY <1>1, <2>3, <2>6, <2>7, <2>8 DEF NetInv, PeersOK
    <3>3. \A q \in Elements(donePeers') : ~nodePeers'[q].up
      <4>1. \A q \in Elements(donePeers) : q \in Nodes
        BY DEF Elements, NetInv, PeersOK
      <4> QED
        BY <1>1, <2>3, <4>1 DEF NetInv, PeersOK, Elements
    <3> QED
      BY <2>3, <3>1, <3>2, <3>3 DEF PeersOK
  <2>10. HoldersOK'
    <3>1. \A q \in Nodes : Holding(q)' = Holding(q)
      BY <1>1, <2>3, <2>8 DEF Holding, Elements
    <3>2. \A q \in Nodes : Holding(q) => nodePeers[q].req # id
      BY <2>1 DEF NetInv, HoldersOK
    <3>3. calls = <<>> \/ \E k \in conns' : calls = <<k>>
      BY <2>1 DEF NetInv, HoldersOK
    <3>4. calls # <<id>>
      BY <2>1, SMTT(60) DEF NetInv, HoldersOK
    <3>5. conns' \cap pendingReqs' = {}
      BY <2>1 DEF NetInv, HoldersOK
    <3>6. ASSUME NEW q \in Nodes', Holding(q)'
          PROVE  /\ nodePeers'[q].req \in conns' /\ calls' # <<nodePeers'[q].req>>
                 /\ \A r \in Nodes' : Holding(r)' /\ nodePeers'[r].req = nodePeers'[q].req => r = q
      <4>1. CASE q = p
        BY <1>1, <2>1, <2>3, <2>6, <2>7, <3>1, <3>2, <3>4, <4>1
      <4>2. CASE q # p
        <5>1. q \in Nodes /\ Holding(q) /\ nodePeers'[q].req = nodePeers[q].req
          BY <2>3, <2>6, <3>1, <3>6, <4>2
        <5>2. nodePeers[q].req \in conns /\ calls # <<nodePeers[q].req>>
          BY <5>1 DEF NetInv, HoldersOK
        <5>3. \A r \in Nodes : Holding(r)' /\ nodePeers'[r].req = nodePeers[q].req => r = q
          BY <2>3, <3>1, <5>1 DEF NetInv, HoldersOK
        <5> QED
          BY <1>1, <2>1, <2>6, <2>7, <3>2, <5>1, <5>2, <5>3
      <4> QED
        BY <4>1, <4>2
    <3> QED
      BY <1>1, <3>3, <3>5, <3>6 DEF HoldersOK
  <2>11. ListsOK' /\ GroupsAreCounted'
    BY <1>1, <2>3, <2>8, ListsStay DEF NetInv
  <2> QED
    BY <2>4, <2>5, <2>9, <2>10, <2>11 DEF NetInv
<1> QED
  BY <1>2, <1>3

LEMMA handleDisconnectedKeeps == NetInv /\ handleDisconnected => NetInv'
<1> SUFFICES ASSUME NetInv, handleDisconnected PROVE NetInv'
  OBVIOUS
<1> PICK id \in conns : calls = <<id>>
  BY DEF handleDisconnected, NetInv, HoldersOK
<1> DEFINE again == Cardinality(conns \ {id}) < TargetOutbound \/ connReqs[id].permanent
<1>1. /\ UNCHANGED connReqs /\ UNCHANGED serverVars /\ calls' = <<>> /\ id \in Reqs /\ Reqs' = Reqs
      /\ Head(calls) = id /\ conns' = conns \ {id}
  BY DEF handleDisconnected, NetInv, RequestsOK, Reqs
<1>2. IF again THEN pendingReqs' = pendingReqs \cup {id} /\ handleFailedConn(id, tasks)
      ELSE UNCHANGED <<pendingReqs, tasks, newReqs>>
  BY <1>1 DEF handleDisconnected
<1> HIDE DEF again
<1>3. /\ tasks \subseteq tasks' /\ tasks' \subseteq tasks \cup {<<"dial", id>>}
      /\ newReqs' \in Nat /\ newReqs' >= newReqs
      /\ pendingReqs \subseteq pendingReqs' /\ pendingReqs' \subseteq pendingReqs \cup {id}
      /\ <<"dial", id>> \in tasks' => <<"dial", id>> \in tasks \/ connReqs[id].permanent
  BY <1>2 DEF handleFailedConn, NetInv, RequestsOK
<1>4. RequestsOK'
  <2>1. \A k \in Reqs' :
          connReqs'[k].permanent \/ <<"dial", k>> \in tasks' => connReqs'[k].host \in Hosts
    BY <1>1, <1>3 DEF NetInv, RequestsOK
  <2> QED
    BY <1>1, <1>3, <2>1 DEF NetInv, RequestsOK
<1>5. IsFiniteSet(Attempts) /\ IsFiniteSet(conns)
  BY RequestsAreFinite DEF NetInv
<1>6. (RequestsOK => IsFiniteSet(conns) /\ IsFiniteSet(Attempts))'
  BY RequestsAreFinite, PTL
<1>7. Attempts \subseteq Attempts' /\ id \notin Attempts
  BY <1>3 DEF Attempts, NetInv, HoldersOK
<1>8. /\ Cardinality(Attempts) \in Nat /\ Cardinality(conns) \in Nat /\ newReqs \in Nat
      /\ Cardinality(Attempts') \in Nat /\ Cardinality(Attempts) <= Cardinality(Attempts')
      /\ Cardinality(conns') = Cardinality(conns) - 1
  BY <1>1, <1>4, <1>5, <1>6, <1>7, Sizes DEF NetInv, RequestsOK
<1>9. SlotsAreKept'
  <2>1. CASE ~again
    <3>1. Cardinality(conns') >= TargetOutbound
      BY <1>1, <1>8, <2>1, ConnectionsConstants DEF again
    <3> QED
      BY <1>3, <1>8, <3>1, ConnectionsConstants DEF SlotsAreKept
  <2>2. CASE again /\ ~connReqs[id].permanent
    <3>1. newReqs' = newReqs + 1
      BY <1>2, <2>2 DEF handleFailedConn
    <3> QED
      BY <1>8, <3>1, ConnectionsConstants DEF SlotsAreKept, NetInv
  <2>3. CASE again /\ connReqs[id].permanent
    <3>1. /\ pendingReqs' = pendingReqs \cup {id} /\ <<"dial", id>> \in tasks'
          /\ newReqs' = newReqs /\ <<"dial", id>>[2] = id
      BY <1>2, <2>3 DEF handleFailedConn
    <3>2. Attempts \cup {id} \subseteq Attempts'
      BY <1>7, <3>1 DEF Attempts
    <3>3. Cardinality(Attempts \cup {id}) = Cardinality(Attempts) + 1
      BY <1>5, <1>7, Sizes
    <3>4. Cardinality(Attempts \cup {id}) <= Cardinality(Attempts')
      BY <1>4, <1>6, <3>2, Sizes
    <3> QED
      BY <1>8, <3>1, <3>3, <3>4, ConnectionsConstants DEF SlotsAreKept, NetInv
  <2> QED
    BY <2>1, <2>2, <2>3
<1>10. PeersOK' /\ ListsOK' /\ GroupsAreCounted'
  <2>1. /\ UNCHANGED <<newPeers, peerState>> /\ Nodes' = Nodes
        /\ \A p \in Nodes : /\ Inbound(p)' = Inbound(p) /\ Group(p)' = Group(p)
                            /\ nodePeers'[p].versionKnown = nodePeers[p].versionKnown
    BY <1>1 DEF serverVars, Nodes, Inbound, Group
  <2>2. PeersOK'
    BY <1>1 DEF NetInv, PeersOK, Nodes, Elements, Distinct, Inbound, serverVars
  <2> QED
    BY <2>1, <2>2, ListsStay DEF NetInv
<1>11. HoldersOK'
  <2>1. \A p \in Nodes : Holding(p) => nodePeers[p].req \in conns \ {id}
    BY DEF NetInv, HoldersOK
  <2>2. conns' \cap pendingReqs' = {}
    BY <1>1, <1>3 DEF NetInv, HoldersOK
  <2> QED
    BY <1>1, <2>1, <2>2 DEF NetInv, HoldersOK, Nodes, Holding, Inbound, Elements, serverVars
<1> QED
  BY <1>4, <1>9, <1>10, <1>11 DEF NetInv

-----------------------------------------------------------------------------
(* The peers.                                                              *)

(* Where the connection manager rests its part of the invariant stays.     *)
LEMMA ManagerRests ==
    ASSUME NetInv, UNCHANGED <<connReqs, pendingReqs, conns, newReqs, tasks>>
    PROVE  RequestsOK' /\ SlotsAreKept'
  BY DEF NetInv, RequestsOK, Reqs, SlotsAreKept, Attempts

LEMMA InboundPeerConnectedKeeps ==
    ASSUME NetInv, NEW h \in Hosts, InboundPeerConnected(h)
    PROVE  NetInv'
<1> DEFINE n == [req |-> 0, host |-> h, persistent |-> FALSE, versionKnown |-> FALSE, up |-> TRUE]
<1> PICK p : p = Len(nodePeers) + 1
  OBVIOUS
<1>1. /\ nodePeers' = Append(nodePeers, n) /\ n \in NodePeer /\ n.req = 0
      /\ UNCHANGED <<connReqs, pendingReqs, conns, newReqs, tasks, calls>>
      /\ UNCHANGED <<newPeers, donePeers, peerState>>
  BY DEF InboundPeerConnected, NodePeer, connVars
<1> HIDE DEF n
<1>2. /\ nodePeers' \in Seq(NodePeer) /\ p \notin Nodes /\ Nodes' = Nodes \cup {p}
      /\ nodePeers'[p] = n /\ \A q \in Nodes : nodePeers'[q] = nodePeers[q]
  BY <1>1, NewPeerNumber DEF NetInv, PeersOK
<1>3. RequestsOK' /\ SlotsAreKept'
  BY <1>1, ManagerRests
<1>4. /\ \A q \in Nodes' : q # p => q \in Nodes
      /\ nodePeers'[p].req = 0 /\ Reqs' = Reqs
      /\ \A q \in Nodes : Inbound(q)' = Inbound(q) /\ Group(q)' = Group(q)
  BY <1>1, <1>2 DEF Inbound, Group, Reqs
<1>5. PeersOK'
  <2>1. /\ newPeers' \in Seq(Nodes') /\ donePeers' \in Seq(Nodes')
        /\ Distinct(newPeers') /\ Distinct(donePeers')
    BY <1>1, <1>2 DEF NetInv, PeersOK, Distinct
  <2>2. \A q \in Nodes' : ~Inbound(q)' => nodePeers'[q].req \in Reqs'
    BY <1>2, <1>4 DEF NetInv, PeersOK, Inbound
  <2>3. \A q \in Elements(donePeers) : q \in Nodes
    BY DEF Elements, NetInv, PeersOK
  <2>4. \A q \in Elements(donePeers') : ~nodePeers'[q].up
    BY <1>1, <1>2, <2>3, ZenonT(60) DEF NetInv, PeersOK, Elements
  <2> QED
    BY <1>2, <2>1, <2>2, <2>4 DEF PeersOK
<1>6. HoldersOK'
  <2>1. \A q \in Nodes' : Holding(q)' => q \in Nodes /\ Holding(q)
    BY <1>1, <1>2, <1>4 DEF Holding, Inbound, Elements
  <2>2. ASSUME NEW q \in Nodes', Holding(q)'
        PROVE  /\ nodePeers'[q].req \in conns' /\ calls' # <<nodePeers'[q].req>>
               /\ \A r \in Nodes' : Holding(r)' /\ nodePeers'[r].req = nodePeers'[q].req => r = q
    <3>1. q \in Nodes /\ Holding(q) /\ nodePeers'[q] = nodePeers[q]
      BY <1>2, <2>1, <2>2
    <3>2. /\ nodePeers[q].req \in conns /\ calls # <<nodePeers[q].req>>
          /\ \A r \in Nodes : Holding(r) /\ nodePeers[r].req = nodePeers[q].req => r = q
      BY <3>1 DEF NetInv, HoldersOK
    <3> QED
      BY <1>1, <1>2, <2>1, <3>1, <3>2
  <2>3. /\ calls' = <<>> \/ \E id \in conns' : calls' = <<id>>
        /\ conns' \cap pendingReqs' = {}
    BY <1>1 DEF NetInv, HoldersOK
  <2> QED
    BY <2>2, <2>3 DEF HoldersOK
<1>7. ListsOK' /\ GroupsAreCounted'
  BY <1>1, <1>2, <1>4, ListsStay DEF NetInv
<1> QED
  BY <1>3, <1>5, <1>6, <1>7 DEF NetInv

(* The peers are the same, but some may be down.                           *)
SamePeers ==
    /\ Nodes' = Nodes
    /\ \A q \in Nodes : /\ nodePeers'[q].req = nodePeers[q].req
                        /\ nodePeers'[q].host = nodePeers[q].host
                        /\ nodePeers'[q].versionKnown = nodePeers[q].versionKnown

(* A peer that goes down holds its request until its end is handled.       *)
LEMMA GoesDownKeeps ==
    ASSUME NetInv, NEW p \in Nodes, GoesDown(p), UNCHANGED connVars,
           newPeers' \in Seq(Nodes), Distinct(newPeers')
    PROVE  SamePeers /\ RequestsOK' /\ SlotsAreKept' /\ PeersOK' /\ HoldersOK'
<1> DEFINE r == [nodePeers[p] EXCEPT !.up = FALSE]
<1>1. /\ nodePeers \in Seq(NodePeer) /\ nodePeers[p] \in NodePeer
      /\ UNCHANGED <<connReqs, pendingReqs, conns, newReqs, tasks, calls>>
  BY DEF NetInv, PeersOK, Nodes, connVars
<1>2. /\ r \in NodePeer /\ r.req = nodePeers[p].req /\ r.host = nodePeers[p].host
      /\ r.versionKnown = nodePeers[p].versionKnown /\ ~r.up
  BY <1>1 DEF NodePeer
<1>3. nodePeers' = [nodePeers EXCEPT ![p] = r]
  BY DEF GoesDown
<1> HIDE DEF r
<1>4. /\ nodePeers' \in Seq(NodePeer) /\ Nodes' = Nodes
      /\ nodePeers'[p] = r /\ \A q \in Nodes \ {p} : nodePeers'[q] = nodePeers[q]
  BY <1>1, <1>2, <1>3, SeqExcept DEF Nodes
<1>5. \A q \in Nodes : /\ nodePeers'[q].req = nodePeers[q].req
                       /\ nodePeers'[q].host = nodePeers[q].host
                       /\ nodePeers'[q].versionKnown = nodePeers[q].versionKnown
  BY <1>2, <1>4
<1>6. RequestsOK' /\ SlotsAreKept'
  BY <1>1, ManagerRests
<1>7. /\ donePeers' \in Seq(Nodes') /\ Distinct(donePeers')
      /\ Elements(donePeers') = IF nodePeers[p].up THEN Elements(donePeers) \cup {p} ELSE Elements(donePeers)
  <2>1. CASE nodePeers[p].up
    <3>1. donePeers' = Append(donePeers, p) /\ p \notin Elements(donePeers)
      BY <2>1 DEF GoesDown, NetInv, PeersOK
    <3> QED
      BY <1>4, <2>1, <3>1, QueueAppend DEF NetInv, PeersOK
  <2>2. CASE ~nodePeers[p].up
    BY <1>4, <2>2 DEF GoesDown, NetInv, PeersOK
  <2> QED
    BY <2>1, <2>2
<1>8. \A q \in Elements(donePeers') : ~nodePeers'[q].up
  <2>1. \A q \in Elements(donePeers) : q \in Nodes /\ ~nodePeers[q].up
    BY DEF Elements, NetInv, PeersOK
  <2> QED
    BY <1>2, <1>4, <1>7, <2>1
<1>9. PeersOK'
  <2>1. \A q \in Nodes' : ~Inbound(q)' => nodePeers'[q].req \in Reqs'
    BY <1>1, <1>4, <1>5 DEF NetInv, PeersOK, Inbound, Reqs
  <2>2. newPeers' \in Seq(Nodes') /\ Distinct(newPeers')
    BY <1>4
  <2> QED
    BY <1>4, <1>7, <1>8, <2>1, <2>2 DEF PeersOK
<1>10. HoldersOK'
  <2>1. \A q \in Nodes : Holding(q)' <=> Holding(q)
    BY <1>2, <1>4, <1>5, <1>7 DEF Holding, Inbound
  <2> HIDE DEF Holding
  <2>2. \A q \in Nodes : Holding(q) =>
          /\ nodePeers[q].req \in conns /\ calls # <<nodePeers[q].req>>
          /\ \A s \in Nodes : Holding(s) /\ nodePeers[s].req = nodePeers[q].req => s = q
    BY DEF NetInv, HoldersOK
  <2>3. \A q \in Nodes' : Holding(q)' =>
          /\ nodePeers'[q].req \in conns' /\ calls' # <<nodePeers'[q].req>>
          /\ \A s \in Nodes' : Holding(s)' /\ nodePeers'[s].req = nodePeers'[q].req => s = q
    BY <1>1, <1>4, <1>5, <2>1, <2>2
  <2>4. /\ calls' = <<>> \/ \E id \in conns' : calls' = <<id>>
        /\ conns' \cap pendingReqs' = {}
    BY <1>1 DEF NetInv, HoldersOK
  <2> QED
    BY <2>3, <2>4 DEF HoldersOK
<1> QED
  BY <1>4, <1>5, <1>6, <1>9, <1>10 DEF SamePeers

LEMMA VersionReceivedKeeps ==
    ASSUME NetInv, NEW p \in Nodes, VersionReceived(p)
    PROVE  NetInv'
<1> DEFINE r == [nodePeers[p] EXCEPT !.versionKnown = TRUE]
<1>1. /\ nodePeers \in Seq(NodePeer) /\ nodePeers[p] \in NodePeer /\ ~nodePeers[p].versionKnown
      /\ UNCHANGED <<connReqs, pendingReqs, conns, newReqs, tasks, calls, donePeers, peerState>>
      /\ newPeers' = Append(newPeers, p) \/ newPeers' = newPeers
  BY DEF NetInv, PeersOK, Nodes, connVars, VersionReceived
<1>2. /\ r \in NodePeer /\ r.req = nodePeers[p].req /\ r.host = nodePeers[p].host
      /\ r.versionKnown
  BY <1>1 DEF NodePeer
<1>3. r.up = nodePeers[p].up
  BY <1>1 DEF NodePeer
<1>4. nodePeers' = [nodePeers EXCEPT ![p] = r]
  BY DEF VersionReceived
<1> HIDE DEF r
<1>5. /\ nodePeers' \in Seq(NodePeer) /\ Nodes' = Nodes
      /\ nodePeers'[p] = r /\ \A q \in Nodes \ {p} : nodePeers'[q] = nodePeers[q]
  BY <1>1, <1>2, <1>4, SeqExcept DEF Nodes
<1>6. \A q \in Nodes : /\ nodePeers'[q].req = nodePeers[q].req
                       /\ nodePeers'[q].host = nodePeers[q].host
                       /\ nodePeers[q].versionKnown => nodePeers'[q].versionKnown
  BY <1>2, <1>5
<1>7. \A q \in Nodes : nodePeers'[q].up = nodePeers[q].up
  BY <1>3, <1>5
<1>8. RequestsOK' /\ SlotsAreKept'
  BY <1>1, ManagerRests
<1>9. p \notin Elements(newPeers) /\ ~Listed(p)
  BY <1>1 DEF NetInv, ListsOK
<1>10. /\ newPeers' \in Seq(Nodes') /\ Distinct(newPeers')
       /\ Elements(newPeers') \subseteq Elements(newPeers) \cup {p}
  <2>1. newPeers \in Seq(Nodes) /\ Distinct(newPeers)
    BY DEF NetInv, PeersOK
  <2>2. CASE newPeers' = newPeers
    BY <1>5, <2>1, <2>2
  <2>3. CASE newPeers' = Append(newPeers, p)
    <3>1. /\ Append(newPeers, p) \in Seq(Nodes) /\ Distinct(Append(newPeers, p))
          /\ Elements(Append(newPeers, p)) = Elements(newPeers) \cup {p}
      BY <1>9, <2>1, QueueAppend
    <3> QED
      BY <1>5, <2>3, <3>1
  <2> QED
    BY <1>1, <2>2, <2>3
<1>11. PeersOK'
  <2>1. \A q \in Nodes' : ~Inbound(q)' => nodePeers'[q].req \in Reqs'
    BY <1>1, <1>5, <1>6 DEF NetInv, PeersOK, Inbound, Reqs
  <2>2. \A q \in Elements(donePeers) : q \in Nodes
    BY DEF Elements, NetInv, PeersOK
  <2>3. \A q \in Elements(donePeers') : ~nodePeers'[q].up
    BY <1>1, <1>7, <2>2 DEF NetInv, PeersOK, Elements
  <2>4. donePeers' \in Seq(Nodes') /\ Distinct(donePeers')
    BY <1>1, <1>5 DEF NetInv, PeersOK
  <2> QED
    BY <1>5, <1>10, <2>1, <2>3, <2>4 DEF PeersOK
<1>12. HoldersOK'
  <2>1. \A q \in Nodes : Holding(q)' <=> Holding(q)
    BY <1>1, <1>5, <1>6, <1>7 DEF Holding, Inbound, Elements
  <2>2. \A q \in Nodes : Holding(q) =>
          /\ nodePeers[q].req \in conns /\ calls # <<nodePeers[q].req>>
          /\ \A s \in Nodes : Holding(s) /\ nodePeers[s].req = nodePeers[q].req => s = q
    BY DEF NetInv, HoldersOK
  <2>3. \A q \in Nodes' : Holding(q)' =>
          /\ nodePeers'[q].req \in conns' /\ calls' # <<nodePeers'[q].req>>
          /\ \A s \in Nodes' : Holding(s)' /\ nodePeers'[s].req = nodePeers'[q].req => s = q
    BY <1>1, <1>5, <1>6, <2>1, <2>2
  <2>4. /\ calls' = <<>> \/ \E id \in conns' : calls' = <<id>>
        /\ conns' \cap pendingReqs' = {}
    BY <1>1 DEF NetInv, HoldersOK
  <2> QED
    BY <2>3, <2>4 DEF HoldersOK
<1>13. peerState' = peerState /\ Outbound' = Outbound /\ \A q : Listed(q)' <=> Listed(q)
  BY <1>1 DEF Outbound, Listed
<1>14. \A q \in Nodes : Inbound(q)' = Inbound(q) /\ Group(q)' = Group(q)
  BY <1>6 DEF Inbound, Group
<1>15. \A q : Listed(q) => q \in Nodes
  BY DEF NetInv, ListsOK, Listed
<1>16. ListsOK'
  <2>1. peerState' \in [inbound : SUBSET Nodes', outbound : SUBSET Nodes', persistent : SUBSET Nodes',
                        groups : [GroupNames -> Int], banned : SUBSET Hosts]
    BY <1>5, <1>13 DEF ListsOK, NetInv
  <2>2. (\A q \in peerState'.inbound : Inbound(q)') /\ (\A q \in Outbound' : ~Inbound(q)')
    BY <1>13, <1>14, <1>15 DEF ListsOK, NetInv, Listed, Outbound
  <2>3. \A q \in Nodes' : Listed(q)' => nodePeers'[q].versionKnown
    BY <1>6, <1>13, <1>15 DEF ListsOK, NetInv
  <2>4. \A q \in Elements(newPeers) : q \in Nodes /\ nodePeers[q].versionKnown /\ ~Listed(q)
    BY DEF NetInv, PeersOK, ListsOK, Elements
  <2>5. \A q \in Elements(newPeers') : nodePeers'[q].versionKnown /\ ~Listed(q)'
    BY <1>2, <1>5, <1>6, <1>9, <1>10, <1>13, <2>4
  <2> QED
    BY <2>1, <2>2, <2>3, <2>5 DEF ListsOK
<1>17. GroupsAreCounted'
  <2>1. \A g : {q \in Outbound : Group(q) = g} = {q \in Outbound' : Group(q)' = g}
    BY <1>13, <1>14, <1>15 DEF Outbound, Listed
  <2> QED
    BY <1>13, <2>1 DEF NetInv, GroupsAreCounted, Outbound
<1> QED
  BY <1>8, <1>11, <1>12, <1>16, <1>17 DEF NetInv

-----------------------------------------------------------------------------
(* PeerHandler.                                                            *)

(* The peers of a group are finitely many.                                 *)
LEMMA GroupIsFinite ==
    ASSUME PeersOK, ListsOK
    PROVE  \A g : IsFiniteSet({q \in Outbound : Group(q) = g})
<1>1. Nodes = 1..Len(nodePeers) /\ Len(nodePeers) \in Nat
  BY DEF PeersOK, Nodes
<1>2. IsFiniteSet(Nodes)
  BY <1>1, FS_Interval
<1>3. Outbound \subseteq Nodes
  BY DEF ListsOK, Outbound
<1> QED
  BY <1>2, <1>3, FS_Subset

(* A listed peer leaves its list.                                          *)
LEMMA WithoutKeeps ==
    ASSUME NetInv, SamePeers, NEW p \in Nodes, Listed(p), peerState' = Without(p),
           Elements(newPeers') \subseteq Elements(newPeers)
    PROVE  ListsOK' /\ GroupsAreCounted'
<1>1. /\ \A q \in Nodes : Inbound(q)' = Inbound(q) /\ Group(q)' = Group(q)
      /\ \A q \in Nodes : Group(q) \in GroupNames
  <2>1. \A q \in Nodes : nodePeers[q].host \in Hosts
    <3>1. \A q \in Nodes : nodePeers[q] \in NodePeer
      BY DEF NetInv, PeersOK, Nodes
    <3> QED
      BY <3>1 DEF NodePeer
  <2> QED
    BY <2>1 DEF SamePeers, Inbound, Group, GroupNames
<1>2. /\ peerState \in [inbound : SUBSET Nodes, outbound : SUBSET Nodes, persistent : SUBSET Nodes,
                        groups : [GroupNames -> Int], banned : SUBSET Hosts]
      /\ Outbound \subseteq Nodes /\ peerState.inbound \subseteq Nodes
      /\ \A q : Listed(q) <=> q \in peerState.inbound \cup Outbound
      /\ \A q : Listed(q)' <=> q \in peerState'.inbound \cup Outbound'
  BY DEF NetInv, ListsOK, Outbound, Listed
<1> DEFINE groups == IF Inbound(p) THEN peerState.groups
                     ELSE RemoveGroup(p)
<1>3. groups \in [GroupNames -> Int]
  BY <1>1, <1>2 DEF RemoveGroup
<1>4. peerState' = [inbound |-> peerState.inbound \ {p}, outbound |-> peerState.outbound \ {p},
                       persistent |-> peerState.persistent \ {p}, groups |-> groups,
                       banned |-> peerState.banned]
  <2>1. peerState' = [peerState EXCEPT !.inbound = @ \ {p}, !.outbound = @ \ {p},
                                       !.persistent = @ \ {p}, !.groups = groups]
    BY DEF Without
  <2> HIDE DEF groups
  <2> QED
    BY <1>2, <2>1
<1> HIDE DEF groups
<1>5. Outbound' = Outbound \ {p}
  BY <1>4 DEF Outbound
<1>6. ListsOK'
  <2>1. peerState' \in [inbound : SUBSET Nodes', outbound : SUBSET Nodes', persistent : SUBSET Nodes',
                        groups : [GroupNames -> Int], banned : SUBSET Hosts]
    BY <1>2, <1>3, <1>4 DEF SamePeers
  <2>2. (\A q \in peerState'.inbound : Inbound(q)') /\ (\A q \in Outbound' : ~Inbound(q)')
    BY <1>1, <1>2, <1>4, <1>5 DEF NetInv, ListsOK
  <2>3. \A q \in Nodes' : Listed(q)' => nodePeers'[q].versionKnown
    BY <1>2, <1>4, <1>5 DEF NetInv, ListsOK, SamePeers
  <2>4. \A q \in Elements(newPeers) : q \in Nodes /\ nodePeers[q].versionKnown /\ ~Listed(q)
    BY DEF NetInv, PeersOK, ListsOK, Elements
  <2>5. \A q \in Elements(newPeers') : nodePeers'[q].versionKnown /\ ~Listed(q)'
    BY <1>2, <1>4, <1>5, <2>4 DEF SamePeers
  <2> QED
    BY <2>1, <2>2, <2>3, <2>5 DEF ListsOK
<1>7. ASSUME NEW g \in GroupNames
      PROVE  peerState'.groups[g] = Cardinality({q \in Outbound' : Group(q)' = g})
  <2> DEFINE C == {q \in Outbound : Group(q) = g}
             D == {q \in Outbound' : Group(q)' = g}
  <2>1. IsFiniteSet(C)
    BY GroupIsFinite DEF NetInv
  <2>2. peerState.groups[g] = Cardinality(C)
    BY <1>2 DEF NetInv, GroupsAreCounted, Outbound
  <2>3. D = C \ {p}
    BY <1>1, <1>2, <1>5
  <2>4. p \in C <=> ~Inbound(p) /\ Group(p) = g
    BY <1>2 DEF NetInv, ListsOK
  <2>5. Cardinality(C \ {p}) = IF p \in C THEN Cardinality(C) - 1 ELSE Cardinality(C)
    BY <2>1, Sizes
  <2>6. groups[g] = IF ~Inbound(p) /\ Group(p) = g THEN peerState.groups[g] - 1
                    ELSE peerState.groups[g]
    BY <1>2 DEF groups, RemoveGroup
  <2> HIDE DEF C, D
  <2>7. peerState'.groups[g] = Cardinality(D)
    BY <1>4, <2>2, <2>3, <2>4, <2>5, <2>6
  <2> QED
    BY <2>7 DEF D
<1>8. GroupsAreCounted'
  BY <1>3, <1>4, <1>7 DEF GroupsAreCounted, Outbound
<1> QED
  BY <1>6, <1>8

(* The lists stay, and who waits to be listed may only become fewer.       *)
LEMMA ListsRest ==
    ASSUME NetInv, SamePeers, Elements(newPeers') \subseteq Elements(newPeers),
           peerState' = peerState \/ \E B \in SUBSET Hosts : peerState' = [peerState EXCEPT !.banned = B]
    PROVE  ListsOK' /\ GroupsAreCounted'
<1>1. \A q \in Nodes : Inbound(q)' = Inbound(q) /\ Group(q)' = Group(q)
  BY DEF SamePeers, Inbound, Group
<1>2. /\ peerState \in [inbound : SUBSET Nodes, outbound : SUBSET Nodes, persistent : SUBSET Nodes,
                        groups : [GroupNames -> Int], banned : SUBSET Hosts]
      /\ Outbound \subseteq Nodes /\ peerState.inbound \subseteq Nodes
      /\ \A q : Listed(q) <=> q \in peerState.inbound \cup Outbound
      /\ \A q : Listed(q)' <=> q \in peerState'.inbound \cup Outbound'
  BY DEF NetInv, ListsOK, Outbound, Listed
<1>3. /\ peerState' \in [inbound : SUBSET Nodes, outbound : SUBSET Nodes, persistent : SUBSET Nodes,
                         groups : [GroupNames -> Int], banned : SUBSET Hosts]
      /\ peerState'.inbound = peerState.inbound /\ peerState'.outbound = peerState.outbound
      /\ peerState'.persistent = peerState.persistent /\ peerState'.groups = peerState.groups
  BY <1>2
<1>4. Outbound' = Outbound
  BY <1>3 DEF Outbound
<1>5. ListsOK'
  <2>1. (\A q \in peerState'.inbound : Inbound(q)') /\ (\A q \in Outbound' : ~Inbound(q)')
    BY <1>1, <1>2, <1>3, <1>4 DEF NetInv, ListsOK
  <2>2. \A q \in Nodes' : Listed(q)' => nodePeers'[q].versionKnown
    BY <1>2, <1>3, <1>4 DEF NetInv, ListsOK, SamePeers
  <2>3. \A q \in Elements(newPeers) : q \in Nodes /\ nodePeers[q].versionKnown /\ ~Listed(q)
    BY DEF NetInv, PeersOK, ListsOK, Elements
  <2>4. \A q \in Elements(newPeers') : nodePeers'[q].versionKnown /\ ~Listed(q)'
    BY <1>2, <1>3, <1>4, <2>3 DEF SamePeers
  <2> QED
    BY <1>3, <2>1, <2>2, <2>4 DEF ListsOK, SamePeers
<1>6. GroupsAreCounted'
  <2>1. \A g : {q \in Outbound : Group(q) = g} = {q \in Outbound' : Group(q)' = g}
    BY <1>1, <1>2, <1>4
  <2> QED
    BY <1>3, <2>1 DEF NetInv, GroupsAreCounted, Outbound
<1> QED
  BY <1>5, <1>6

LEMMA PeerDisconnectsKeeps ==
    ASSUME NetInv, NEW p \in Nodes, PeerDisconnects(p)
    PROVE  NetInv'
<1>1. /\ GoesDown(p) /\ UNCHANGED connVars /\ UNCHANGED peerState
      /\ newPeers' \in Seq(Nodes) /\ Distinct(newPeers') /\ Elements(newPeers') \subseteq Elements(newPeers)
  BY DEF PeerDisconnects, NetInv, PeersOK, Elements
<1>2. SamePeers /\ RequestsOK' /\ SlotsAreKept' /\ PeersOK' /\ HoldersOK'
  BY <1>1, GoesDownKeeps
<1> QED
  BY <1>1, <1>2, ListsRest DEF NetInv

LEMMA HandleBanPeerMsgKeeps ==
    ASSUME NetInv, NEW p \in Nodes, HandleBanPeerMsg(p)
    PROVE  NetInv'
<1>1. /\ GoesDown(p) /\ UNCHANGED connVars
      /\ newPeers' \in Seq(Nodes) /\ Distinct(newPeers') /\ Elements(newPeers') \subseteq Elements(newPeers)
      /\ peerState' = [peerState EXCEPT !.banned = @ \cup {nodePeers[p].host}]
  BY DEF HandleBanPeerMsg, NetInv, PeersOK, Elements
<1>2. SamePeers /\ RequestsOK' /\ SlotsAreKept' /\ PeersOK' /\ HoldersOK'
  BY <1>1, GoesDownKeeps
<1>3. nodePeers[p].host \in Hosts /\ peerState.banned \subseteq Hosts
  <2>1. nodePeers[p] \in NodePeer
    BY DEF NetInv, PeersOK, Nodes
  <2> QED
    BY <2>1 DEF NetInv, NodePeer, ListsOK
<1>4. \E B \in SUBSET Hosts : peerState' = [peerState EXCEPT !.banned = B]
  BY <1>1, <1>3
<1> QED
  BY <1>1, <1>2, <1>4, ListsRest DEF NetInv

LEMMA BanEndsKeeps ==
    ASSUME NetInv, NEW h \in Hosts, BanEnds(h)
    PROVE  NetInv'
<1>1. /\ UNCHANGED <<connReqs, pendingReqs, conns, newReqs, tasks, calls>>
      /\ UNCHANGED <<nodePeers, newPeers, donePeers>>
      /\ peerState' = [peerState EXCEPT !.banned = @ \ {h}]
  BY DEF BanEnds, connVars
<1>2. RequestsOK' /\ SlotsAreKept'
  BY <1>1, ManagerRests
<1>3. PeersOK' /\ HoldersOK' /\ SamePeers /\ Elements(newPeers') \subseteq Elements(newPeers)
  BY <1>1 DEF NetInv, PeersOK, HoldersOK, SamePeers, Nodes, Reqs, Elements, Distinct, Inbound, Holding
<1>4. \E B \in SUBSET Hosts : peerState' = [peerState EXCEPT !.banned = B]
  <2>1. peerState.banned \ {h} \in SUBSET Hosts
    BY DEF NetInv, ListsOK
  <2> QED
    BY <1>1, <2>1
<1> QED
  BY <1>2, <1>3, <1>4, ListsRest DEF NetInv

LEMMA DisconnectPeerKeeps ==
    ASSUME NetInv, NEW p \in Nodes, DisconnectPeer(p)
    PROVE  NetInv'
<1>1. /\ GoesDown(p) /\ UNCHANGED connVars
      /\ newPeers' \in Seq(Nodes) /\ Distinct(newPeers') /\ Elements(newPeers') \subseteq Elements(newPeers)
      /\ peerState' = Without(p) /\ Listed(p)
  BY DEF DisconnectPeer, NetInv, PeersOK, Elements
<1>2. SamePeers /\ RequestsOK' /\ SlotsAreKept' /\ PeersOK' /\ HoldersOK'
  BY <1>1, GoesDownKeeps
<1> QED
  BY <1>1, <1>2, WithoutKeeps DEF NetInv

(* A peer is listed, once, or refused.                                     *)
LEMMA HandleAddPeerMsgKeeps == NetInv /\ HandleAddPeerMsg => NetInv'
<1> SUFFICES ASSUME NetInv, HandleAddPeerMsg PROVE NetInv'
  OBVIOUS
<1> PICK p : p = Head(newPeers)
  OBVIOUS
<1>1. newPeers \in Seq(Nodes) /\ newPeers # <<>> /\ Distinct(newPeers) /\ newPeers' = Tail(newPeers)
  BY DEF HandleAddPeerMsg, NetInv, PeersOK
<1>2. /\ newPeers' \in Seq(Nodes) /\ Distinct(newPeers') /\ p \in Nodes
      /\ p \in Elements(newPeers) /\ Elements(newPeers) = Elements(newPeers') \cup {p}
      /\ p \notin Elements(newPeers') /\ Elements(newPeers') \subseteq Nodes
  BY <1>1, QueueTail
<1>3. nodePeers[p].versionKnown /\ ~Listed(p)
  BY <1>2 DEF NetInv, ListsOK
<1>4. UNCHANGED <<connReqs, pendingReqs, conns, newReqs, tasks, calls>>
  BY DEF HandleAddPeerMsg, connVars
<1>5. RequestsOK' /\ SlotsAreKept'
  BY <1>4, ManagerRests
<1>6. CASE Refuses(p)
  <2>1. GoesDown(p) /\ UNCHANGED peerState
    BY <1>6 DEF HandleAddPeerMsg
  <2>2. SamePeers /\ PeersOK' /\ HoldersOK'
    BY <1>2, <1>4, <2>1, GoesDownKeeps DEF connVars
  <2> QED
    BY <1>2, <1>5, <2>1, <2>2, ListsRest DEF NetInv
<1>7. CASE ~Refuses(p)
  <2>1. UNCHANGED <<nodePeers, donePeers>>
    BY <1>7 DEF HandleAddPeerMsg
  <2>2. PeersOK' /\ HoldersOK' /\ SamePeers
    <3>1. Nodes' = Nodes /\ Elements(donePeers') = Elements(donePeers)
      BY <2>1 DEF Nodes, Elements
    <3>2. \A q : Holding(q)' <=> Holding(q)
      BY <2>1, <3>1 DEF Holding, Inbound
    <3>3. PeersOK'
      BY <1>2, <1>4, <2>1, <3>1 DEF NetInv, PeersOK, Inbound, Reqs, Distinct
    <3>4. HoldersOK'
      BY <1>4, <2>1, <3>1, <3>2 DEF NetInv, HoldersOK
    <3> QED
      BY <2>1, <3>1, <3>3, <3>4 DEF SamePeers
  <2>3. /\ \A q \in Nodes : Inbound(q)' = Inbound(q) /\ Group(q)' = Group(q)
        /\ \A q \in Nodes : Group(q) \in GroupNames
    <3>1. \A q \in Nodes : nodePeers[q] \in NodePeer
      BY DEF NetInv, PeersOK, Nodes
    <3>2. \A q \in Nodes : nodePeers[q].host \in Hosts
      BY <3>1 DEF NodePeer
    <3> QED
      BY <2>1, <3>2 DEF Inbound, Group, GroupNames
  <2>4. /\ peerState \in [inbound : SUBSET Nodes, outbound : SUBSET Nodes, persistent : SUBSET Nodes,
                          groups : [GroupNames -> Int], banned : SUBSET Hosts]
        /\ Outbound \subseteq Nodes /\ peerState.inbound \subseteq Nodes
        /\ \A q : Listed(q) <=> q \in peerState.inbound \cup Outbound
        /\ \A q : Listed(q)' <=> q \in peerState'.inbound \cup Outbound'
    BY DEF NetInv, ListsOK, Outbound, Listed
  <2>5. \A q \in Elements(newPeers) : nodePeers[q].versionKnown /\ ~Listed(q)
    BY DEF NetInv, ListsOK
  <2>6. CASE Inbound(p)
    <3>1. peerState' = [peerState EXCEPT !.inbound = @ \cup {p}]
      BY <1>7, <2>6 DEF HandleAddPeerMsg
    <3>2. /\ peerState' \in [inbound : SUBSET Nodes, outbound : SUBSET Nodes,
                             persistent : SUBSET Nodes, groups : [GroupNames -> Int],
                             banned : SUBSET Hosts]
          /\ peerState'.inbound = peerState.inbound \cup {p}
          /\ peerState'.outbound = peerState.outbound /\ peerState'.persistent = peerState.persistent
          /\ peerState'.groups = peerState.groups
      BY <1>2, <2>4, <3>1
    <3>3. Outbound' = Outbound
      BY <3>2 DEF Outbound
    <3>4. ListsOK'
      <4>1. (\A q \in peerState'.inbound : Inbound(q)') /\ (\A q \in Outbound' : ~Inbound(q)')
        BY <1>2, <2>3, <2>4, <2>6, <3>2, <3>3 DEF NetInv, ListsOK
      <4>2. \A q \in Nodes' : Listed(q)' => nodePeers'[q].versionKnown
        BY <1>3, <2>1, <2>2, <2>4, <3>2, <3>3 DEF NetInv, ListsOK, SamePeers
      <4>3. \A q \in Elements(newPeers') : nodePeers'[q].versionKnown /\ ~Listed(q)'
        BY <1>2, <2>1, <2>4, <2>5, <3>2, <3>3
      <4> QED
        BY <2>2, <3>2, <4>1, <4>2, <4>3 DEF ListsOK, SamePeers
    <3>5. GroupsAreCounted'
      <4>1. \A g : {q \in Outbound : Group(q) = g} = {q \in Outbound' : Group(q)' = g}
        BY <2>3, <2>4, <3>3
      <4> QED
        BY <3>2, <4>1 DEF NetInv, GroupsAreCounted, Outbound
    <3> QED
      BY <1>5, <2>2, <3>4, <3>5 DEF NetInv
  <2>7. CASE ~Inbound(p)
    <3>1. \/ peerState' = [peerState EXCEPT !.persistent = @ \cup {p}, !.groups = AddGroup(p)]
          \/ peerState' = [peerState EXCEPT !.outbound = @ \cup {p}, !.groups = AddGroup(p)]
      BY <1>7, <2>7 DEF HandleAddPeerMsg
    <3>2. AddGroup(p) \in [GroupNames -> Int]
      BY <1>2, <2>3, <2>4 DEF AddGroup
    <3> DEFINE groups == AddGroup(p)
    <3> HIDE DEF groups
    <3>3. /\ peerState' \in [inbound : SUBSET Nodes, outbound : SUBSET Nodes,
                             persistent : SUBSET Nodes, groups : [GroupNames -> Int],
                             banned : SUBSET Hosts]
          /\ peerState'.inbound = peerState.inbound
          /\ peerState'.outbound \cup peerState'.persistent
               = peerState.outbound \cup peerState.persistent \cup {p}
          /\ peerState'.groups = groups
      <4>1. groups \in [GroupNames -> Int]
        BY <3>2 DEF groups
      <4>2. \/ peerState' = [peerState EXCEPT !.persistent = @ \cup {p}, !.groups = groups]
            \/ peerState' = [peerState EXCEPT !.outbound = @ \cup {p}, !.groups = groups]
        BY <3>1 DEF groups
      <4> QED
        BY <1>2, <2>4, <4>1, <4>2, ZenonT(60)
    <3>4. Outbound' = Outbound \cup {p}
      BY <3>3 DEF Outbound
    <3>5. ListsOK'
      <4>1. (\A q \in peerState'.inbound : Inbound(q)') /\ (\A q \in Outbound' : ~Inbound(q)')
        BY <1>2, <2>3, <2>4, <2>7, <3>3, <3>4 DEF NetInv, ListsOK
      <4>2. \A q \in Nodes' : Listed(q)' => nodePeers'[q].versionKnown
        BY <1>3, <2>1, <2>2, <2>4, <3>3, <3>4 DEF NetInv, ListsOK, SamePeers
      <4>3. \A q \in Elements(newPeers') : nodePeers'[q].versionKnown /\ ~Listed(q)'
        BY <1>2, <2>1, <2>4, <2>5, <3>3, <3>4
      <4> QED
        BY <2>2, <3>3, <4>1, <4>2, <4>3 DEF ListsOK, SamePeers
    <3>6. ASSUME NEW g \in GroupNames
          PROVE  peerState'.groups[g] = Cardinality({q \in Outbound' : Group(q)' = g})
      <4> DEFINE C == {q \in Outbound : Group(q) = g}
                 D == {q \in Outbound' : Group(q)' = g}
      <4>1. IsFiniteSet(C)
        BY GroupIsFinite DEF NetInv
      <4>2. peerState.groups[g] = Cardinality(C)
        BY <2>4 DEF NetInv, GroupsAreCounted, Outbound
      <4>3. D = IF Group(p) = g THEN C \cup {p} ELSE C
        BY <1>2, <2>3, <2>4, <3>4
      <4>4. p \notin C
        BY <1>3, <2>4
      <4>5. Cardinality(C \cup {p}) = Cardinality(C) + 1
        BY <4>1, <4>4, Sizes
      <4>6. groups[g] = IF Group(p) = g THEN peerState.groups[g] + 1 ELSE peerState.groups[g]
        BY <2>4 DEF groups, AddGroup
      <4> HIDE DEF C, D
      <4>7. peerState'.groups[g] = Cardinality(D)
        BY <3>3, <4>2, <4>3, <4>5, <4>6
      <4> QED
        BY <4>7 DEF D
    <3>7. GroupsAreCounted'
      BY <3>3, <3>6 DEF GroupsAreCounted, Outbound
    <3> QED
      BY <1>5, <2>2, <3>5, <3>7 DEF NetInv
  <2> QED
    BY <2>6, <2>7
<1> QED
  BY <1>6, <1>7

(* The end of a peer passes from PeerHandler to connHandler.               *)
LEMMA HandleDonePeerMsgKeeps == NetInv /\ HandleDonePeerMsg => NetInv'
<1> SUFFICES ASSUME NetInv, HandleDonePeerMsg PROVE NetInv'
  OBVIOUS
<1> PICK p : p = Head(donePeers)
  OBVIOUS
<1>1. donePeers \in Seq(Nodes) /\ donePeers # <<>> /\ Distinct(donePeers) /\ donePeers' = Tail(donePeers)
  BY DEF HandleDonePeerMsg, NetInv, PeersOK
<1>2. /\ donePeers' \in Seq(Nodes) /\ Distinct(donePeers') /\ p \in Nodes
      /\ p \in Elements(donePeers) /\ Elements(donePeers) = Elements(donePeers') \cup {p}
      /\ p \notin Elements(donePeers') /\ Elements(donePeers) \subseteq Nodes
  BY <1>1, QueueTail
<1>3. /\ UNCHANGED <<connReqs, pendingReqs, conns, newReqs, tasks>> /\ UNCHANGED <<nodePeers, newPeers>>
      /\ calls = <<>> /\ peerState' = IF Listed(p) THEN Without(p) ELSE peerState
      /\ calls' = IF Inbound(p) THEN <<>> ELSE <<nodePeers[p].req>>
  BY DEF HandleDonePeerMsg, HandlerReady
<1>4. RequestsOK' /\ SlotsAreKept'
  BY <1>3, ManagerRests
<1>5. Nodes' = Nodes /\ Reqs' = Reqs /\ Elements(newPeers') = Elements(newPeers) /\ SamePeers
  BY <1>3 DEF Nodes, Reqs, Elements, SamePeers
<1>6. PeersOK'
  <2>1. \A q \in Elements(donePeers') : ~nodePeers'[q].up
    BY <1>2, <1>3 DEF NetInv, PeersOK
  <2> QED
    BY <1>2, <1>3, <1>5, <2>1 DEF NetInv, PeersOK, Inbound
<1>7. HoldersOK'
  <2>1. ~nodePeers[p].up
    BY <1>2 DEF NetInv, PeersOK
  <2>2. \A q \in Nodes : Holding(q)' <=> Holding(q) /\ q # p
    BY <1>2, <1>3, <2>1 DEF Holding, Inbound
  <2>3. ~Inbound(p) => Holding(p)
    BY <1>2 DEF Holding
  <2>4. \A q \in Nodes : Holding(q) =>
          /\ nodePeers[q].req \in conns
          /\ \A s \in Nodes : Holding(s) /\ nodePeers[s].req = nodePeers[q].req => s = q
    BY DEF NetInv, HoldersOK
  <2>5. calls' = <<>> \/ \E id \in conns' : calls' = <<id>>
    BY <1>2, <1>3, <2>3, <2>4
  <2>6. \A q \in Nodes : Holding(q) /\ q # p => calls' # <<nodePeers[q].req>>
    BY <1>2, <1>3, <2>3, <2>4
  <2>7. \A q \in Nodes' : Holding(q)' =>
          /\ nodePeers'[q].req \in conns' /\ calls' # <<nodePeers'[q].req>>
          /\ \A s \in Nodes' : Holding(s)' /\ nodePeers'[s].req = nodePeers'[q].req => s = q
    BY <1>3, <1>5, <2>2, <2>4, <2>6
  <2>8. conns' \cap pendingReqs' = {}
    BY <1>3 DEF NetInv, HoldersOK
  <2> QED
    BY <2>5, <2>7, <2>8 DEF HoldersOK
<1>8. ListsOK' /\ GroupsAreCounted'
  <2>1. CASE Listed(p)
    BY <1>2, <1>3, <1>5, <2>1, WithoutKeeps
  <2>2. CASE ~Listed(p)
    BY <1>3, <1>5, <2>2, ListsRest
  <2> QED
    BY <2>1, <2>2
<1> QED
  BY <1>4, <1>6, <1>7, <1>8 DEF NetInv

-----------------------------------------------------------------------------
(* The steps together.                                                     *)

LEMMA StepNetInv == NetInv /\ [ConnectionsNext]_netVars => NetInv'
<1> SUFFICES ASSUME NetInv, [ConnectionsNext]_netVars PROVE NetInv'
  OBVIOUS
<1>1. CASE UNCHANGED netVars
  <2>1. /\ UNCHANGED <<connReqs, pendingReqs, conns, newReqs, tasks, calls>>
        /\ UNCHANGED serverVars
    BY <1>1 DEF netVars, connVars
  <2>2. RequestsOK' /\ SlotsAreKept'
    BY <2>1, ManagerRests
  <2>3. conns' \cap pendingReqs' = {} /\ Reqs' = Reqs
    BY <2>1 DEF NetInv, HoldersOK, Reqs
  <2> QED
    BY <2>1, <2>2, <2>3, ServerRests DEF NetInv
<1>2. ASSUME NEW id \in Reqs, GetNewAddress(id) \/ handleConnected(id) \/ handleFailed(id)
      PROVE  NetInv'
  BY <1>2, GetNewAddressKeeps, handleConnectedKeeps, handleFailedKeeps
<1>3. ASSUME NEW h \in Hosts, Connect(h) \/ InboundPeerConnected(h) \/ BanEnds(h)
      PROVE  NetInv'
  BY <1>3, ConnectKeeps, InboundPeerConnectedKeeps, BanEndsKeeps
<1>4. ASSUME NEW p \in Nodes, \/ VersionReceived(p) \/ PeerDisconnects(p)
                              \/ HandleBanPeerMsg(p) \/ DisconnectPeer(p)
      PROVE  NetInv'
  BY <1>4, VersionReceivedKeeps, PeerDisconnectsKeeps, HandleBanPeerMsgKeeps, DisconnectPeerKeeps
<1>5. CASE NewConnReq \/ handleDisconnected \/ HandleAddPeerMsg \/ HandleDonePeerMsg
  BY <1>5, NewConnReqKeeps, handleDisconnectedKeeps, HandleAddPeerMsgKeeps, HandleDonePeerMsgKeeps
<1> QED
  BY <1>1, <1>2, <1>3, <1>4, <1>5 DEF ConnectionsNext, Reqs, Nodes

(* What the parts of the invariant say of a run.                           *)
LEMMA InvKeepsConnections == NetInv => ConnectionsAreKept
<1> SUFFICES ASSUME NetInv PROVE OnePeerPerRequest
  BY DEF NetInv, ConnectionsAreKept
<1>1. \A p \in Nodes : nodePeers[p].up /\ ~Inbound(p) => Holding(p)
  BY DEF Holding
<1>2. \A p, q \in Nodes : nodePeers[p].req = nodePeers[q].req => Inbound(p) = Inbound(q)
  BY DEF Inbound
<1> HIDE DEF Holding
<1> QED
  BY <1>1, <1>2 DEF NetInv, HoldersOK, OnePeerPerRequest, Nodes

(* The connection manager and the server agree: whichever dials fail and   *)
(* peers end, are refused, banned or removed, and in whatever order the    *)
(* two goroutines hear of it, no outbound slot is lost (handleFailedConn,  *)
(* handleDisconnected), no request has two peers, and the group counts     *)
(* that GetNewAddress relies on are right.                                 *)
THEOREM ConnectionsAlwaysKept == ConnectionsSpec => []ConnectionsAreKept
<1>1. ConnectionsInit => NetInv
  BY InitNetInv
<1>2. NetInv /\ [ConnectionsNext]_netVars => NetInv'
  BY StepNetInv
<1>3. NetInv => ConnectionsAreKept
  BY InvKeepsConnections
<1> QED
  BY <1>1, <1>2, <1>3, PTL DEF ConnectionsSpec

(* A call of Disconnect that connHandler takes is always for a request     *)
(* that counts as connected: it never cancels one that is still pending,   *)
(* the case handleDisconnected has for it.                                 *)
NeverCancelled == calls # <<>> => Head(calls) \in conns

THEOREM RequestsNeverCancelled == ConnectionsSpec => []NeverCancelled
<1>1. ConnectionsInit => NetInv
  BY InitNetInv
<1>2. NetInv /\ [ConnectionsNext]_netVars => NetInv'
  BY StepNetInv
<1>3. NetInv => NeverCancelled
  BY DEF NetInv, HoldersOK, NeverCancelled
<1> QED
  BY <1>1, <1>2, <1>3, PTL DEF ConnectionsSpec

-----------------------------------------------------------------------------
(* The known addresses.                                                    *)

AmFields == {"index", "key", "nNew", "nTried", "new", "tried"}
Entry == [refs : Nat, tried : BOOLEAN, src : Sources]

InNew(m, a) == {b \in NewBuckets : a \in m.new[b]}
InTried(m, a) == {b \in TriedBuckets : a \in m.tried[b]}
NewOnes(m) == {a \in DOMAIN m.index : ~m.index[a].tried}
TriedOnes(m) == {a \in DOMAIN m.index : m.index[a].tried}

(* A manager, and what its buckets and its counters say of its index.      *)
ManagerTypes(m) ==
    /\ DOMAIN m = AmFields
    /\ m.key \in Keys /\ m.nNew \in Int /\ m.nTried \in Int
    /\ m.new \in [NewBuckets -> SUBSET Addrs] /\ m.tried \in [TriedBuckets -> SUBSET Addrs]
    /\ DOMAIN m.index \subseteq Addrs /\ m.index \in [DOMAIN m.index -> Entry]

InBuckets(m) ==
    /\ \A b \in NewBuckets : m.new[b] \subseteq DOMAIN m.index
    /\ \A b \in TriedBuckets : m.tried[b] \subseteq TriedOnes(m)
    /\ \A a \in TriedOnes(m) : InTried(m, a) = {TriedBucketOf[m.key][a]}

(* The references are the buckets; a new address has one, except the one   *)
(* that updateAddress is about to put in its first.                        *)
RefsOK(m, fresh) ==
    /\ \A a \in DOMAIN m.index : m.index[a].refs = Cardinality(InNew(m, a))
    /\ \A a \in DOMAIN m.index \ fresh : m.index[a].tried <=> InNew(m, a) = {}
    /\ \A a \in fresh : a \in DOMAIN m.index => ~m.index[a].tried

CountsOK(m) == m.nNew = Cardinality(NewOnes(m)) /\ m.nTried = Cardinality(TriedOnes(m))

NewFits(m) ==
    /\ \A b \in NewBuckets : Cardinality(m.new[b]) <= newBucketSize + 1
    /\ \A a \in DOMAIN m.index : m.index[a].refs <= newBucketsPerAddress

TriedFits(m) == \A b \in TriedBuckets : Cardinality(m.tried[b]) <= triedBucketSize

KnownBut(m, fresh) == ManagerTypes(m) /\ InBuckets(m) /\ RefsOK(m, fresh) /\ CountsOK(m) /\ NewFits(m)

KnownOK(m, fresh) == KnownBut(m, fresh) /\ TriedFits(m)

(* A file that parses is one that a sound manager comes back from.         *)
FileOK(f) == f.written = "all" => KnownOK(deserializePeers(f), {})

LocalOK(local) == DOMAIN local \subseteq Kinds /\ \A k \in DOMAIN local : local[k] \in Nat

AddrInv == KnownOK(am, {}) /\ FileOK(peersFile) /\ LocalOK(localAddresses)

(* Sets of addresses and of new buckets are finite.                        *)
LEMMA FewAddresses ==
    ASSUME NEW S, S \subseteq Addrs \/ S \subseteq NewBuckets
    PROVE  IsFiniteSet(S) /\ Cardinality(S) \in Nat
<1>1. IsFiniteSet(S)
  BY FS_Subset, AddrManagerConstants
<1> QED
  BY <1>1, FS_CardinalityType

(* What a larger or a smaller set by one element counts.                   *)
LEMMA OneMore ==
    ASSUME NEW S, S \subseteq Addrs \/ S \subseteq NewBuckets, NEW x
    PROVE  /\ x \notin S => Cardinality(S \cup {x}) = Cardinality(S) + 1
           /\ x \in S => Cardinality(S \ {x}) = Cardinality(S) - 1
           /\ Cardinality(S \ {x}) <= Cardinality(S)
           /\ Cardinality(S) \in Nat
           /\ Cardinality(S) = 0 <=> S = {}
           /\ Cardinality({}) = 0
<1>1. IsFiniteSet(S) /\ Cardinality(S) \in Nat
  BY FewAddresses
<1>2. x \notin S => Cardinality(S \cup {x}) = Cardinality(S) + 1
  BY <1>1, FS_AddElement
<1>3. Cardinality(S \ {x}) = IF x \in S THEN Cardinality(S) - 1 ELSE Cardinality(S)
  BY <1>1, FS_RemoveElement
<1>4. Cardinality({}) = 0 /\ (Cardinality(S) = 0 <=> S = {})
  BY <1>1, FS_EmptySet
<1> QED
  BY <1>1, <1>2, <1>3, <1>4

(* An address that is new is in a bucket, and not tried.                   *)
LEMMA NewIsReferred ==
    ASSUME NEW m, NEW fresh, KnownOK(m, fresh), NEW b \in NewBuckets, NEW a \in m.new[b]
    PROVE  /\ a \in DOMAIN m.index /\ ~m.index[a].tried
           /\ b \in InNew(m, a) /\ InNew(m, a) \subseteq NewBuckets
           /\ m.index[a].refs = Cardinality(InNew(m, a)) /\ m.index[a].refs \in Nat \ {0}
<1>1. a \in DOMAIN m.index /\ b \in InNew(m, a) /\ InNew(m, a) \subseteq NewBuckets
  BY DEF KnownOK, KnownBut, InBuckets, InNew
<1>2. ~m.index[a].tried
  BY <1>1 DEF KnownOK, KnownBut, RefsOK
<1>3. Cardinality(InNew(m, a)) \in Nat /\ Cardinality(InNew(m, a)) # 0
  BY <1>1, OneMore
<1> QED
  BY <1>1, <1>2, <1>3 DEF KnownOK, KnownBut, RefsOK

(* Taking addresses out of a bucket forgets those that are in no other.    *)
LEMMA ExpireKeeps ==
    ASSUME NEW m, NEW fresh, KnownOK(m, fresh), NEW b \in NewBuckets,
           NEW gone \in SUBSET m.new[b], fresh \cap m.new[b] = {}
    PROVE  LET n == Expire(m, b, gone)
           IN  /\ KnownOK(n, fresh)
               /\ n.new = [m.new EXCEPT ![b] = @ \ gone] /\ n.key = m.key
               /\ \A a \in fresh \cap DOMAIN m.index : a \in DOMAIN n.index /\ n.index[a] = m.index[a]
<1>1. PICK n : n = Expire(m, b, gone)
  OBVIOUS
<1>2. PICK last : last = {a \in gone : m.index[a].refs = 1}
  OBVIOUS
<1>3. DOMAIN m = AmFields /\ m.new \in [NewBuckets -> SUBSET Addrs]
  BY DEF KnownOK, KnownBut, ManagerTypes
<1>4. /\ DOMAIN n = AmFields /\ n.key = m.key /\ n.tried = m.tried /\ n.nTried = m.nTried
      /\ n.new = [m.new EXCEPT ![b] = @ \ gone]
      /\ n.nNew = m.nNew - Cardinality(last)
      /\ n.index = [a \in DOMAIN m.index \ last |->
                       IF a \in gone THEN [m.index[a] EXCEPT !.refs = @ - 1] ELSE m.index[a]]
  BY <1>1, <1>2, <1>3 DEF Expire, AmFields
<1>5. \A a \in gone : /\ a \in DOMAIN m.index /\ ~m.index[a].tried /\ a \notin fresh
                      /\ b \in InNew(m, a) /\ InNew(m, a) \subseteq NewBuckets
                      /\ m.index[a].refs = Cardinality(InNew(m, a)) /\ m.index[a].refs \in Nat \ {0}
  BY NewIsReferred
<1>6. /\ n.new \in [NewBuckets -> SUBSET Addrs] /\ n.new[b] = m.new[b] \ gone
      /\ \A c \in NewBuckets \ {b} : n.new[c] = m.new[c]
  BY <1>3, <1>4
<1>7. /\ \A a \in gone : InNew(n, a) = InNew(m, a) \ {b}
      /\ \A a : a \notin gone => InNew(n, a) = InNew(m, a)
  BY <1>6 DEF InNew
<1>8. \A a \in gone : Cardinality(InNew(n, a)) = m.index[a].refs - 1
  BY <1>5, <1>7, OneMore
<1>9. \A a \in gone \ last : InNew(n, a) # {}
  BY <1>2, <1>5, <1>7, <1>8, OneMore
<1>10. \A a \in last : InNew(n, a) = {}
  BY <1>2, <1>5, <1>7, <1>8, OneMore
<1>11. \A a \in DOMAIN m.index : m.index[a] \in Entry
  BY DEF KnownOK, KnownBut, ManagerTypes
<1>12. /\ DOMAIN n.index = DOMAIN m.index \ last
       /\ \A a \in DOMAIN n.index : /\ n.index[a].tried = m.index[a].tried
                                    /\ n.index[a] \in Entry
       /\ \A a \in DOMAIN n.index \ gone : n.index[a] = m.index[a]
       /\ \A a \in gone \ last : n.index[a].refs = m.index[a].refs - 1
  <2>1. DOMAIN n.index = DOMAIN m.index \ last
    BY <1>4
  <2>2. \A a \in DOMAIN n.index \ gone : n.index[a] = m.index[a]
    BY <1>4
  <2>3. ASSUME NEW a \in gone \ last
        PROVE  /\ n.index[a].refs = m.index[a].refs - 1 /\ n.index[a].tried = m.index[a].tried
               /\ n.index[a] \in Entry
    <3>1. n.index[a] = [m.index[a] EXCEPT !.refs = @ - 1]
      BY <1>4, <1>5
    <3>2. m.index[a] \in Entry /\ m.index[a].refs \in Nat \ {0}
      BY <1>5, <1>11
    <3> QED
      BY <3>1, <3>2 DEF Entry
  <2> QED
    BY <2>1, <2>2, <2>3, <1>11
<1>13. ManagerTypes(n)
  <2>1. Cardinality(last) \in Nat
    BY <1>2, <1>5, FewAddresses DEF KnownOK, KnownBut, ManagerTypes
  <2>2. n.index \in [DOMAIN n.index -> Entry]
    BY <1>4, <1>12
  <2> QED
    BY <1>4, <1>6, <1>12, <2>1, <2>2 DEF KnownOK, KnownBut, ManagerTypes
<1>14. TriedOnes(n) = TriedOnes(m) /\ NewOnes(n) = NewOnes(m) \ last /\ last \subseteq NewOnes(m)
  BY <1>2, <1>5, <1>12 DEF TriedOnes, NewOnes
<1>15. CountsOK(n)
  <2>1. NewOnes(m) \subseteq Addrs
    BY DEF KnownOK, KnownBut, ManagerTypes, NewOnes
  <2>2. IsFiniteSet(NewOnes(m))
    BY <2>1, FewAddresses
  <2>3. Cardinality(NewOnes(m) \ last) = Cardinality(NewOnes(m)) - Cardinality(last)
    BY <2>2, <1>14, FS_Difference, NewOnes(m) \cap last = last
  <2> QED
    BY <1>4, <1>14, <2>3 DEF KnownOK, KnownBut, CountsOK
<1>16. InBuckets(n)
  <2>1. \A c \in NewBuckets : n.new[c] \subseteq DOMAIN n.index
    BY <1>6, <1>10, <1>12 DEF KnownOK, KnownBut, InBuckets, InNew
  <2>2. \A a : InTried(n, a) = InTried(m, a)
    BY <1>4 DEF InTried
  <2> QED
    BY <1>4, <1>14, <2>1, <2>2 DEF KnownOK, KnownBut, InBuckets
<1>17. RefsOK(n, fresh)
  <2>1. \A a \in DOMAIN n.index : n.index[a].refs = Cardinality(InNew(n, a))
    BY <1>7, <1>8, <1>12 DEF KnownOK, KnownBut, RefsOK
  <2>2. \A a \in DOMAIN n.index \ fresh : n.index[a].tried <=> InNew(n, a) = {}
    BY <1>5, <1>7, <1>9, <1>12 DEF KnownOK, KnownBut, RefsOK
  <2> QED
    BY <1>12, <2>1, <2>2 DEF KnownOK, KnownBut, RefsOK
<1>18. NewFits(n) /\ TriedFits(n)
  <2>1. Cardinality(n.new[b]) <= Cardinality(m.new[b])
    BY <1>3, <1>6, FewAddresses, FS_Subset
  <2>2. Cardinality(n.new[b]) \in Nat /\ Cardinality(m.new[b]) \in Nat
    BY <1>3, <1>6, FewAddresses
  <2>3. \A c \in NewBuckets : Cardinality(n.new[c]) <= newBucketSize + 1
    <3>1. \A c \in NewBuckets : Cardinality(m.new[c]) <= newBucketSize + 1
      BY DEF KnownOK, KnownBut, NewFits, TriedFits
    <3>2. Cardinality(n.new[b]) <= newBucketSize + 1
      BY <3>1, <2>1, <2>2, AddrManagerConstants
    <3> QED
      BY <1>6, <3>1, <3>2
  <2>4. \A a \in DOMAIN n.index : n.index[a].refs <= newBucketsPerAddress
    BY <1>5, <1>12, AddrManagerConstants DEF KnownOK, KnownBut, NewFits, TriedFits
  <2> QED
    BY <1>4, <2>3, <2>4 DEF KnownOK, KnownBut, NewFits, TriedFits
<1>19. \A a \in fresh \cap DOMAIN m.index : a \in DOMAIN n.index /\ n.index[a] = m.index[a]
  BY <1>2, <1>5, <1>12
<1> QED
  BY <1>1, <1>4, <1>13, <1>15, <1>16, <1>17, <1>18, <1>19 DEF KnownOK, KnownBut

(* The limits are numbers.                                                 *)
LEMMA AddrLimits ==
    newBucketSize \in Nat /\ triedBucketSize \in Nat \ {0} /\ newBucketsPerAddress \in Nat \ {0}
BY AddrManagerConstants

(* A new address in one more bucket, which makes room when it is full.     *)
LEMMA PutKeeps ==
    ASSUME NEW m, NEW a, KnownOK(m, {a}), a \in DOMAIN m.index,
           m.index[a].refs < newBucketsPerAddress,
           NEW b \in NewBuckets, a \notin m.new[b], NEW n \in PutInBucket(m, a, b)
    PROVE  KnownOK(n, {})
<1>1. PICK k \in IF Cardinality(m.new[b]) > newBucketSize THEN expireNew(m, b) ELSE {m} :
             n = [k EXCEPT !.index[a].refs = @ + 1, !.new[b] = @ \cup {a}]
  BY DEF PutInBucket
<1>2. /\ m.new \in [NewBuckets -> SUBSET Addrs] /\ Cardinality(m.new[b]) \in Nat
      /\ Cardinality(m.new[b]) <= newBucketSize + 1
  BY FewAddresses DEF KnownOK, KnownBut, ManagerTypes, NewFits, TriedFits
<1>3. /\ KnownOK(k, {a}) /\ a \in DOMAIN k.index /\ k.index[a] = m.index[a]
      /\ a \notin k.new[b] /\ Cardinality(k.new[b]) <= newBucketSize
  <2>1. CASE Cardinality(m.new[b]) > newBucketSize
    <3>1. PICK gone \in (SUBSET m.new[b]) \ {{}} : k = Expire(m, b, gone)
      BY <1>1, <2>1 DEF expireNew
    <3>2. {a} \cap m.new[b] = {}
      OBVIOUS
    <3>3. /\ KnownOK(k, {a}) /\ k.new = [m.new EXCEPT ![b] = @ \ gone]
          /\ a \in DOMAIN k.index /\ k.index[a] = m.index[a]
      BY <3>1, <3>2, ExpireKeeps
    <3>4. k.new[b] = m.new[b] \ gone
      BY <1>2, <3>3
    <3>7. m.new[b] \subseteq Addrs /\ k.new[b] \subseteq Addrs
      BY <1>2, <3>4
    <3>5. Cardinality(k.new[b]) <= Cardinality(m.new[b]) /\ Cardinality(k.new[b]) # Cardinality(m.new[b])
      <4>1. IsFiniteSet(m.new[b]) /\ k.new[b] \in SUBSET m.new[b] /\ k.new[b] # m.new[b]
        BY <3>1, <3>4, <3>7, FewAddresses
      <4> QED
        BY <4>1, FS_Subset
    <3>6. Cardinality(k.new[b]) \in Nat
      BY <3>7, FewAddresses
    <3>8. Cardinality(k.new[b]) <= newBucketSize
      BY <1>2, <3>5, <3>6, AddrLimits
    <3> QED
      BY <3>3, <3>4, <3>8
  <2>2. CASE ~(Cardinality(m.new[b]) > newBucketSize)
    <3>1. k = m
      BY <1>1, <2>2
    <3> QED
      BY <1>2, <2>2, <3>1, AddrLimits
  <2> QED
    BY <2>1, <2>2
<1>4. /\ DOMAIN k = AmFields /\ k.new \in [NewBuckets -> SUBSET Addrs]
      /\ DOMAIN k.index \subseteq Addrs /\ k.index \in [DOMAIN k.index -> Entry] /\ k.index[a] \in Entry
      /\ ~k.index[a].tried
  BY <1>3 DEF KnownOK, KnownBut, ManagerTypes, RefsOK
<1>5. /\ DOMAIN n = AmFields /\ n.key = k.key /\ n.tried = k.tried
      /\ n.nNew = k.nNew /\ n.nTried = k.nTried
      /\ n.new = [k.new EXCEPT ![b] = @ \cup {a}]
      /\ n.index = [k.index EXCEPT ![a].refs = @ + 1]
  BY <1>1, <1>4 DEF AmFields
<1>6. /\ n.new \in [NewBuckets -> SUBSET Addrs] /\ n.new[b] = k.new[b] \cup {a}
      /\ \A c \in NewBuckets \ {b} : n.new[c] = k.new[c]
  BY <1>3, <1>4, <1>5
<1>7. /\ DOMAIN n.index = DOMAIN k.index /\ n.index \in [DOMAIN k.index -> Entry]
      /\ n.index[a].refs = k.index[a].refs + 1 /\ n.index[a].tried = k.index[a].tried
      /\ \A x \in DOMAIN k.index \ {a} : n.index[x] = k.index[x]
  BY <1>3, <1>4, <1>5 DEF Entry
<1>8. /\ InNew(n, a) = InNew(k, a) \cup {b} /\ b \notin InNew(k, a) /\ InNew(k, a) \subseteq NewBuckets
      /\ \A x : x # a => InNew(n, x) = InNew(k, x)
  BY <1>3, <1>6 DEF InNew
<1>9. Cardinality(InNew(n, a)) = Cardinality(InNew(k, a)) + 1
  BY <1>8, OneMore
<1>10. NewOnes(n) = NewOnes(k) /\ TriedOnes(n) = TriedOnes(k)
  BY <1>3, <1>7 DEF NewOnes, TriedOnes
<1>11. ManagerTypes(n)
  BY <1>3, <1>5, <1>6, <1>7 DEF KnownOK, KnownBut, ManagerTypes
<1>12. InBuckets(n)
  <2>1. \A x : InTried(n, x) = InTried(k, x)
    BY <1>5 DEF InTried
  <2> QED
    BY <1>3, <1>5, <1>6, <1>7, <1>10, <2>1 DEF KnownOK, KnownBut, InBuckets
<1>13. RefsOK(n, {})
  <2>1. \A x \in DOMAIN n.index : n.index[x].refs = Cardinality(InNew(n, x))
    BY <1>3, <1>7, <1>8, <1>9 DEF KnownOK, KnownBut, RefsOK
  <2>2. \A x \in DOMAIN n.index : n.index[x].tried <=> InNew(n, x) = {}
    BY <1>3, <1>4, <1>7, <1>8 DEF KnownOK, KnownBut, RefsOK
  <2> QED
    BY <2>1, <2>2 DEF RefsOK
<1>14. CountsOK(n)
  BY <1>3, <1>5, <1>10 DEF KnownOK, KnownBut, CountsOK
<1>15. NewFits(n) /\ TriedFits(n)
  <2>1. Cardinality(n.new[b]) <= newBucketSize + 1
    <3>1. Cardinality(n.new[b]) = Cardinality(k.new[b]) + 1 /\ Cardinality(k.new[b]) \in Nat
      <4>1. k.new[b] \subseteq Addrs
        BY <1>4
      <4> QED
        BY <1>3, <1>6, <4>1, OneMore, ZenonT(60)
    <3> QED
      BY <1>3, <3>1, AddrLimits
  <2>2. \A c \in NewBuckets : Cardinality(n.new[c]) <= newBucketSize + 1
    BY <1>3, <1>6, <2>1 DEF KnownOK, KnownBut, NewFits, TriedFits
  <2>3. n.index[a].refs <= newBucketsPerAddress
    BY <1>3, <1>4, <1>7, AddrLimits DEF Entry
  <2>4. \A x \in DOMAIN n.index : n.index[x].refs <= newBucketsPerAddress
    BY <1>3, <1>7, <2>3 DEF KnownOK, KnownBut, NewFits, TriedFits
  <2> QED
    BY <1>3, <1>5, <2>2, <2>4 DEF KnownOK, KnownBut, NewFits, TriedFits
<1> QED
  BY <1>11, <1>12, <1>13, <1>14, <1>15 DEF KnownOK, KnownBut

Joined(m, a, s) ==
    [m EXCEPT !.nNew = @ + 1,
              !.index = [x \in DOMAIN m.index \cup {a} |->
                           IF x = a THEN [refs |-> 0, tried |-> FALSE, src |-> s] ELSE m.index[x]]]

(* An address that was not known joins the index.                          *)
LEMMA FreshKeeps ==
    ASSUME NEW m, KnownOK(m, {}), NEW a \in Addrs, NEW s \in Sources, a \notin DOMAIN m.index, NEW n,
           n = Joined(m, a, s), NEW fresh, fresh = {a}
    PROVE  /\ KnownOK(n, fresh) /\ a \in DOMAIN n.index /\ n.index[a].refs = 0
           /\ n.key = m.key /\ n.new = m.new /\ \A b \in NewBuckets : a \notin n.new[b]
<1>1. /\ DOMAIN m = AmFields /\ m.new \in [NewBuckets -> SUBSET Addrs] /\ m.nNew \in Int
      /\ DOMAIN m.index \subseteq Addrs /\ m.index \in [DOMAIN m.index -> Entry]
  BY DEF KnownOK, KnownBut, ManagerTypes
<1>2. /\ DOMAIN n = AmFields /\ n.key = m.key /\ n.tried = m.tried /\ n.new = m.new
      /\ n.nNew = m.nNew + 1 /\ n.nTried = m.nTried
      /\ n.index = [x \in DOMAIN m.index \cup {a} |->
                      IF x = a THEN [refs |-> 0, tried |-> FALSE, src |-> s] ELSE m.index[x]]
  BY <1>1 DEF AmFields, Joined
<1>3. /\ DOMAIN n.index = DOMAIN m.index \cup {a} /\ n.index[a] \in Entry
      /\ n.index[a].refs = 0 /\ n.index[a].tried = FALSE
      /\ \A x \in DOMAIN m.index : n.index[x] = m.index[x]
  BY <1>2 DEF Entry
<1>4. n.index \in [DOMAIN n.index -> Entry]
  BY <1>1, <1>2, <1>3
<1>5. \A x : InNew(n, x) = InNew(m, x) /\ InTried(n, x) = InTried(m, x)
  BY <1>2 DEF InNew, InTried
<1>6. InNew(m, a) = {} /\ \A b \in NewBuckets : a \notin n.new[b]
  BY <1>2 DEF KnownOK, KnownBut, InBuckets, InNew
<1>7. NewOnes(n) = NewOnes(m) \cup {a} /\ a \notin NewOnes(m) /\ TriedOnes(n) = TriedOnes(m)
  BY <1>3 DEF NewOnes, TriedOnes
<1>8. CountsOK(n)
  <2>1. NewOnes(m) \subseteq Addrs
    BY <1>1 DEF NewOnes
  <2>2. Cardinality(NewOnes(n)) = Cardinality(NewOnes(m)) + 1
    BY <1>7, <2>1, OneMore
  <2> QED
    BY <1>2, <1>7, <2>2 DEF KnownOK, KnownBut, CountsOK
<1>9. RefsOK(n, fresh)
  <2>2. Cardinality(InNew(n, a)) = 0
    BY <1>5, <1>6, FS_EmptySet
  <2>1. \A x \in DOMAIN n.index : n.index[x].refs = Cardinality(InNew(n, x))
    BY <1>3, <1>5, <2>2 DEF KnownOK, KnownBut, RefsOK
  <2> QED
    BY <1>3, <1>5, <2>1 DEF KnownOK, KnownBut, RefsOK
<1>10. NewFits(n) /\ TriedFits(n)
  BY <1>2, <1>3, AddrLimits DEF KnownOK, KnownBut, NewFits, TriedFits
<1>11. InBuckets(n)
  BY <1>2, <1>3, <1>5, <1>7 DEF KnownOK, KnownBut, InBuckets
<1>12. ManagerTypes(n)
  BY <1>1, <1>2, <1>3, <1>4 DEF KnownOK, KnownBut, ManagerTypes
<1> QED
  BY <1>2, <1>3, <1>6, <1>8, <1>9, <1>10, <1>11, <1>12 DEF KnownOK, KnownBut

(* updateAddress, whatever chance decides.                                 *)
LEMMA UpdateKeeps ==
    ASSUME KnownOK(am, {}), NEW a \in Addrs, NEW s \in Sources, NEW n \in updateAddress(a, s)
    PROVE  KnownOK(n, {})
<1>0. PICK k : k = am
  OBVIOUS
<1>1. PICK b : b = getNewBucket(a, s)
  OBVIOUS
<1>2. b \in NewBuckets
  BY <1>1, AddrManagerConstants DEF getNewBucket, KnownOK, KnownBut, ManagerTypes
<1>3. CASE Known(a) /\ n # am
  <2>1. /\ ~am.index[a].tried /\ am.index[a].refs # newBucketsPerAddress
        /\ n \in PutInBucket(am, a, b)
    BY <1>1, <1>3 DEF updateAddress
  <2>2. a \notin am.new[b]
    BY <1>3, <2>1 DEF PutInBucket
  <2>3. KnownOK(am, {a})
    BY <2>1 DEF KnownOK, KnownBut, RefsOK
  <2>4. a \in DOMAIN am.index /\ am.index[a].refs < newBucketsPerAddress
    <3>1. a \in DOMAIN am.index /\ am.index[a] \in Entry /\ am.index[a].refs <= newBucketsPerAddress
      BY <1>3 DEF Known, KnownOK, KnownBut, ManagerTypes, NewFits, TriedFits
    <3> QED
      BY <2>1, <3>1, AddrLimits DEF Entry
  <2> QED
    BY <1>2, <2>1, <2>2, <2>3, <2>4, PutKeeps
<1>4. CASE ~Known(a)
  <2>1. PICK m : m = Joined(am, a, s)
    OBVIOUS
  <2>2. n \in PutInBucket(m, a, b)
    BY <1>1, <1>4, <2>1 DEF updateAddress, Joined
  <2>3. a \notin DOMAIN am.index
    BY <1>4 DEF Known
  <2>4. /\ KnownOK(m, {a}) /\ a \in DOMAIN m.index /\ m.index[a].refs = 0
        /\ \A c \in NewBuckets : a \notin m.new[c]
    <3>1. KnownOK(k, {}) /\ a \notin DOMAIN k.index /\ m = Joined(k, a, s)
      BY <1>0, <2>1, <2>3
    <3>2. a \in Addrs /\ s \in Sources
      OBVIOUS
    <3>3. PICK fresh : fresh = {a}
      OBVIOUS
    <3> QED
      BY <3>1, <3>2, <3>3, FreshKeeps
  <2>5. m.index[a].refs < newBucketsPerAddress
    BY <2>4, AddrLimits
  <2> QED
    BY <1>2, <2>2, <2>4, <2>5, PutKeeps
<1> QED
  BY <1>3, <1>4

(* n is k, but address a is in tried bucket t and in no new one.           *)
Settles(k, n, a, t) ==
    /\ DOMAIN n = AmFields /\ n.key = k.key /\ n.nNew = k.nNew - 1 /\ n.nTried = k.nTried + 1
    /\ n.new \in [NewBuckets -> SUBSET Addrs] /\ \A b \in NewBuckets : n.new[b] = k.new[b] \ {a}
    /\ n.tried \in [TriedBuckets -> SUBSET Addrs] /\ n.tried[t] = k.tried[t] \cup {a}
    /\ \A c \in TriedBuckets \ {t} : n.tried[c] = k.tried[c]
    /\ n.index \in [DOMAIN k.index -> Entry] /\ n.index[a].refs = 0 /\ n.index[a].tried = TRUE
    /\ \A x \in DOMAIN k.index \ {a} : n.index[x] = k.index[x]

(* n is k, but address r is in new bucket b and not in tried bucket t.     *)
Evicts(k, n, r, t, b) ==
    /\ DOMAIN n = AmFields /\ n.key = k.key /\ n.nNew = k.nNew + 1 /\ n.nTried = k.nTried - 1
    /\ n.new \in [NewBuckets -> SUBSET Addrs] /\ n.new[b] = k.new[b] \cup {r}
    /\ \A c \in NewBuckets \ {b} : n.new[c] = k.new[c]
    /\ n.tried \in [TriedBuckets -> SUBSET Addrs] /\ n.tried[t] = k.tried[t] \ {r}
    /\ \A c \in TriedBuckets \ {t} : n.tried[c] = k.tried[c]
    /\ n.index \in [DOMAIN k.index -> Entry] /\ n.index[r].refs = 1 /\ n.index[r].tried = FALSE
    /\ \A x \in DOMAIN k.index \ {r} : n.index[x] = k.index[x]

(* An address that leaves every new bucket for its tried one; that bucket  *)
(* may now hold one too many.                                              *)
LEMMA SettleKeeps ==
    ASSUME NEW k, KnownOK(k, {}), NEW a \in DOMAIN k.index, ~k.index[a].tried,
           NEW t, t = TriedBucketOf[k.key][a], NEW n, Settles(k, n, a, t)
    PROVE  /\ KnownBut(n, {}) /\ n.tried[t] = k.tried[t] \cup {a} /\ a \notin k.tried[t]
           /\ t \in TriedBuckets /\ \A c \in TriedBuckets \ {t} : n.tried[c] = k.tried[c]
<1>1. /\ k.new \in [NewBuckets -> SUBSET Addrs] /\ k.tried \in [TriedBuckets -> SUBSET Addrs]
      /\ k.nNew \in Int /\ k.nTried \in Int /\ k.key \in Keys
      /\ DOMAIN k.index \subseteq Addrs /\ k.index \in [DOMAIN k.index -> Entry] /\ k.index[a] \in Entry
  BY DEF KnownOK, KnownBut, ManagerTypes
<1>2. t \in TriedBuckets
  BY <1>1, AddrManagerConstants
<1>3. /\ DOMAIN n.index = DOMAIN k.index /\ n.index[a] \in Entry
      /\ n.index[a].refs = 0 /\ n.index[a].tried = TRUE
      /\ \A x \in DOMAIN k.index \ {a} : n.index[x] = k.index[x]
  BY <1>1 DEF Entry, Settles
<1>4. n.index \in [DOMAIN n.index -> Entry]
  BY <1>1, <1>3 DEF Settles
<1>5. /\ n.tried \in [TriedBuckets -> SUBSET Addrs] /\ n.tried[t] = k.tried[t] \cup {a}
      /\ \A c \in TriedBuckets \ {t} : n.tried[c] = k.tried[c]
  BY <1>1, <1>2 DEF Settles
<1>6. /\ n.new \in [NewBuckets -> SUBSET Addrs]
      /\ \A b \in NewBuckets : n.new[b] = k.new[b] \ {a}
  BY <1>1 DEF Settles
<1>7. ManagerTypes(n)
  BY <1>1, <1>3, <1>4, <1>5, <1>6 DEF ManagerTypes, Settles
<1>8. InTried(k, a) = {} /\ a \notin k.tried[t]
  BY <1>2 DEF KnownOK, KnownBut, InBuckets, TriedOnes, InTried
<1>9. InTried(n, a) = {t} /\ \A x : x # a => InTried(n, x) = InTried(k, x)
  BY <1>2, <1>5, <1>8 DEF InTried
<1>10. InNew(n, a) = {} /\ \A x : x # a => InNew(n, x) = InNew(k, x)
  BY <1>6 DEF InNew
<1>11. /\ TriedOnes(n) = TriedOnes(k) \cup {a} /\ a \notin TriedOnes(k)
       /\ NewOnes(n) = NewOnes(k) \ {a} /\ a \in NewOnes(k)
  BY <1>3 DEF TriedOnes, NewOnes
<1>12. CountsOK(n)
  <2>1. NewOnes(k) \subseteq Addrs /\ TriedOnes(k) \subseteq Addrs
    BY <1>1 DEF NewOnes, TriedOnes
  <2>2. /\ Cardinality(NewOnes(n)) = Cardinality(NewOnes(k)) - 1
        /\ Cardinality(TriedOnes(n)) = Cardinality(TriedOnes(k)) + 1
    BY <1>11, <2>1, OneMore
  <2> QED
    BY <2>2 DEF KnownOK, KnownBut, CountsOK, Settles
<1>13. InBuckets(n)
  <2>1. \A b \in NewBuckets : n.new[b] \subseteq DOMAIN n.index
    BY <1>3, <1>6 DEF KnownOK, KnownBut, InBuckets
  <2>2. \A b \in TriedBuckets : n.tried[b] \subseteq TriedOnes(n)
    BY <1>5, <1>11 DEF KnownOK, KnownBut, InBuckets
  <2>3. \A x \in TriedOnes(n) : InTried(n, x) = {TriedBucketOf[n.key][x]}
    BY <1>9, <1>11 DEF KnownOK, KnownBut, InBuckets, Settles
  <2> QED
    BY <2>1, <2>2, <2>3 DEF InBuckets
<1>14. RefsOK(n, {})
  <2>1. Cardinality(InNew(n, a)) = 0
    <3>1. InNew(n, a) \subseteq NewBuckets
      BY DEF InNew
    <3>2. Cardinality(InNew(n, a)) = 0 <=> InNew(n, a) = {}
      BY <3>1, OneMore
    <3> QED
      BY <1>10, <3>2
  <2>2. \A x \in DOMAIN n.index : n.index[x].refs = Cardinality(InNew(n, x))
    <3>1. \A x \in DOMAIN k.index : k.index[x].refs = Cardinality(InNew(k, x))
      BY DEF KnownOK, KnownBut, RefsOK
    <3>2. ASSUME NEW x \in DOMAIN n.index, x # a
          PROVE  n.index[x].refs = Cardinality(InNew(n, x))
      <4>1. n.index[x] = k.index[x] /\ InNew(n, x) = InNew(k, x) /\ x \in DOMAIN k.index
        BY <1>3, <1>10, <3>2
      <4> QED
        BY <3>1, <4>1
    <3> QED
      BY <1>3, <2>1, <3>2
  <2>3. \A x \in DOMAIN n.index : n.index[x].tried <=> InNew(n, x) = {}
    BY <1>3, <1>10 DEF KnownOK, KnownBut, RefsOK
  <2> QED
    BY <2>2, <2>3 DEF RefsOK
<1>15. NewFits(n)
  <2>1. ASSUME NEW b \in NewBuckets
        PROVE  Cardinality(n.new[b]) <= newBucketSize + 1
    <3>1. k.new[b] \subseteq Addrs /\ k.new[b] \ {a} \subseteq Addrs
      BY <1>1
    <3>2. /\ Cardinality(k.new[b] \ {a}) <= Cardinality(k.new[b])
          /\ Cardinality(k.new[b]) \in Nat /\ Cardinality(k.new[b] \ {a}) \in Nat
      BY <3>1, OneMore
    <3>3. Cardinality(k.new[b]) <= newBucketSize + 1
      BY DEF KnownOK, KnownBut, NewFits
    <3>4. Cardinality(n.new[b]) = Cardinality(k.new[b] \ {a})
      BY <1>6
    <3> HIDE DEF Settles
    <3> QED
      BY ONLY <3>2, <3>3, <3>4, AddrLimits
  <2>2. \A x \in DOMAIN n.index : n.index[x].refs <= newBucketsPerAddress
    BY <1>3, AddrLimits DEF KnownOK, KnownBut, NewFits
  <2> QED
    BY <2>1, <2>2 DEF NewFits
<1> QED
  BY <1>2, <1>5, <1>7, <1>8, <1>12, <1>13, <1>14, <1>15 DEF KnownBut

(* A tried address that goes back to a new bucket with room for it.        *)
LEMMA EvictKeeps ==
    ASSUME NEW k, KnownBut(k, {}), NEW t \in TriedBuckets, NEW r \in k.tried[t],
           NEW b \in NewBuckets, Cardinality(k.new[b]) <= newBucketSize, NEW n,
           Evicts(k, n, r, t, b)
    PROVE  KnownBut(n, {})
<1>1. /\ k.new \in [NewBuckets -> SUBSET Addrs] /\ k.tried \in [TriedBuckets -> SUBSET Addrs]
      /\ k.nNew \in Int /\ k.nTried \in Int /\ k.key \in Keys
      /\ DOMAIN k.index \subseteq Addrs /\ k.index \in [DOMAIN k.index -> Entry]
  BY DEF KnownBut, ManagerTypes
<1>2. /\ r \in TriedOnes(k) /\ r \in DOMAIN k.index /\ k.index[r].tried
      /\ InTried(k, r) = {t} /\ InNew(k, r) = {}
  <2>1. r \in TriedOnes(k) /\ r \in DOMAIN k.index /\ k.index[r].tried
    BY DEF KnownBut, InBuckets, TriedOnes
  <2>2. t \in InTried(k, r)
    BY DEF InTried
  <2> QED
    BY <2>1, <2>2 DEF KnownBut, InBuckets, RefsOK
<1>3. /\ DOMAIN n.index = DOMAIN k.index /\ n.index[r] \in Entry
      /\ n.index[r].refs = 1 /\ n.index[r].tried = FALSE
      /\ \A x \in DOMAIN k.index \ {r} : n.index[x] = k.index[x]
  <2>1. k.index[r] \in Entry
    BY <1>1, <1>2
  <2> QED
    BY <1>2, <2>1 DEF Entry, Evicts
<1>4. n.index \in [DOMAIN n.index -> Entry]
  BY <1>1, <1>3 DEF Evicts
<1>5. /\ n.tried \in [TriedBuckets -> SUBSET Addrs] /\ n.tried[t] = k.tried[t] \ {r}
      /\ \A c \in TriedBuckets \ {t} : n.tried[c] = k.tried[c]
  BY <1>1 DEF Evicts
<1>6. /\ n.new \in [NewBuckets -> SUBSET Addrs] /\ n.new[b] = k.new[b] \cup {r}
      /\ \A c \in NewBuckets \ {b} : n.new[c] = k.new[c]
  BY <1>1, <1>2 DEF Evicts
<1>7. ManagerTypes(n)
  BY <1>1, <1>3, <1>4, <1>5, <1>6 DEF ManagerTypes, Evicts
<1>8. InTried(n, r) = {} /\ \A x : x # r => InTried(n, x) = InTried(k, x)
  BY <1>2, <1>5 DEF InTried
<1>9. InNew(n, r) = {b} /\ r \notin k.new[b] /\ \A x : x # r => InNew(n, x) = InNew(k, x)
  BY <1>2, <1>6 DEF InNew
<1>10. /\ TriedOnes(n) = TriedOnes(k) \ {r} /\ NewOnes(n) = NewOnes(k) \cup {r} /\ r \notin NewOnes(k)
  BY <1>2, <1>3 DEF TriedOnes, NewOnes
<1>11. CountsOK(n)
  <2>1. NewOnes(k) \subseteq Addrs /\ TriedOnes(k) \subseteq Addrs
    BY <1>1 DEF NewOnes, TriedOnes
  <2>2. /\ Cardinality(NewOnes(n)) = Cardinality(NewOnes(k)) + 1
        /\ Cardinality(TriedOnes(n)) = Cardinality(TriedOnes(k)) - 1
    BY <1>2, <1>10, <2>1, OneMore
  <2> QED
    BY <2>2 DEF KnownBut, CountsOK, Evicts
<1>12. InBuckets(n)
  <2>1. \A c \in NewBuckets : n.new[c] \subseteq DOMAIN n.index
    BY <1>2, <1>3, <1>6 DEF KnownBut, InBuckets
  <2>2. \A c \in TriedBuckets : n.tried[c] \subseteq TriedOnes(n)
    BY <1>5, <1>8, <1>10 DEF KnownBut, InBuckets, InTried
  <2>3. \A x \in TriedOnes(n) : InTried(n, x) = {TriedBucketOf[n.key][x]}
    BY <1>8, <1>10 DEF KnownBut, InBuckets, Evicts
  <2> QED
    BY <2>1, <2>2, <2>3 DEF InBuckets
<1>13. RefsOK(n, {})
  <2>1. Cardinality(InNew(n, r)) = 1
    <3>1. InNew(k, r) \subseteq NewBuckets /\ InNew(k, r) = {} /\ b \notin InNew(k, r)
      BY <1>2
    <3>2. Cardinality(InNew(k, r)) = 0 /\ Cardinality(InNew(k, r) \cup {b}) = Cardinality(InNew(k, r)) + 1
      BY <3>1, OneMore
    <3>3. InNew(n, r) = InNew(k, r) \cup {b}
      BY <1>2, <1>9
    <3> QED
      BY <3>2, <3>3
  <2>2. \A x \in DOMAIN n.index : n.index[x].refs = Cardinality(InNew(n, x))
    <3>1. \A x \in DOMAIN k.index : k.index[x].refs = Cardinality(InNew(k, x))
      BY DEF KnownBut, RefsOK
    <3>2. ASSUME NEW x \in DOMAIN n.index, x # r
          PROVE  n.index[x].refs = Cardinality(InNew(n, x))
      <4>1. n.index[x] = k.index[x] /\ InNew(n, x) = InNew(k, x) /\ x \in DOMAIN k.index
        BY <1>3, <1>9, <3>2
      <4> QED
        BY <3>1, <4>1
    <3> QED
      BY <1>3, <2>1, <3>2
  <2>3. \A x \in DOMAIN n.index : n.index[x].tried <=> InNew(n, x) = {}
    BY <1>3, <1>9 DEF KnownBut, RefsOK
  <2> QED
    BY <2>2, <2>3 DEF RefsOK
<1>14. NewFits(n)
  <2>1. k.new[b] \subseteq Addrs
    BY <1>1
  <2>2. Cardinality(n.new[b]) = Cardinality(k.new[b]) + 1 /\ Cardinality(k.new[b]) \in Nat
    <3>1. /\ Cardinality(k.new[b] \cup {r}) = Cardinality(k.new[b]) + 1
          /\ Cardinality(k.new[b]) \in Nat
      BY <1>9, <2>1, OneMore, Zenon
    <3> QED
      BY <1>6, <3>1
  <2>3. Cardinality(n.new[b]) <= newBucketSize + 1
    BY <2>2, AddrLimits
  <2>4. \A c \in NewBuckets : Cardinality(n.new[c]) <= newBucketSize + 1
    BY <1>6, <2>3 DEF KnownBut, NewFits
  <2>5. \A x \in DOMAIN n.index : n.index[x].refs <= newBucketsPerAddress
    BY <1>3, AddrLimits DEF KnownBut, NewFits
  <2> QED
    BY <2>4, <2>5 DEF NewFits
<1> QED
  BY <1>7, <1>11, <1>12, <1>13, <1>14 DEF KnownBut

(* Good, whether or not it has to make room in the tried bucket.           *)
LEMMA GoodKeeps ==
    ASSUME KnownOK(am, {}), NEW a \in Addrs, Good(a)
    PROVE  KnownOK(am', {})
<1>1. PICK k : k = am
  OBVIOUS
<1>2. PICK n : n = am'
  OBVIOUS
<1>3. PICK t : t = TriedBucketOf[k.key][a]
  OBVIOUS
<1>4. PICK m : m = LeavesNew(a)
  OBVIOUS
<1>5. KnownOK(k, {}) /\ a \in DOMAIN k.index
  BY <1>1 DEF Good, Known
<1>6. /\ DOMAIN k = AmFields
      /\ k.new \in [NewBuckets -> SUBSET Addrs] /\ k.tried \in [TriedBuckets -> SUBSET Addrs]
      /\ k.nNew \in Int /\ k.nTried \in Int /\ k.key \in Keys
      /\ DOMAIN k.index \subseteq Addrs /\ k.index \in [DOMAIN k.index -> Entry] /\ k.index[a] \in Entry
  BY <1>5 DEF KnownOK, KnownBut, ManagerTypes
<1>7. t \in TriedBuckets
  BY <1>3, <1>6, AddrManagerConstants
<1>8. CASE k.index[a].tried
  <2>1. n = k
    BY <1>1, <1>2, <1>8 DEF Good
  <2> QED
    BY <1>2, <1>5, <2>1
<1>9. CASE ~k.index[a].tried
  <2>1. PICK first : first = CHOOSE b \in InNew(k, a) : \A c \in InNew(k, a) : b <= c
    OBVIOUS
  <2>2. first \in InNew(k, a)
    <3>1. InNew(k, a) \in SUBSET Nat /\ InNew(k, a) # {}
      BY <1>5, <1>9, AddrManagerConstants DEF KnownOK, KnownBut, RefsOK, InNew
    <3>2. \E b \in InNew(k, a) : \A c \in InNew(k, a) : b <= c
      BY <3>1, LeastNatural
    <3> QED
      BY <2>1, <3>2
  <2>3. first \in NewBuckets /\ a \in k.new[first]
    BY <2>2 DEF InNew
  <2>4. /\ DOMAIN m = AmFields /\ m.key = k.key /\ m.nNew = k.nNew - 1 /\ m.nTried = k.nTried
        /\ m.new = [b \in NewBuckets |-> k.new[b] \ {a}] /\ m.tried = k.tried
        /\ m.index = [k.index EXCEPT ![a].refs = 0]
    BY <1>1, <1>4, <1>6 DEF LeavesNew, AmFields
  <2>5. /\ DOMAIN m.index = DOMAIN k.index
        /\ m.index[a] = [refs |-> 0, tried |-> FALSE, src |-> k.index[a].src]
        /\ \A x \in DOMAIN k.index \ {a} : m.index[x] = k.index[x]
    BY <1>5, <1>6, <1>9, <2>4 DEF Entry
  <2>6. PICK settled : settled =
            [key |-> k.key, nNew |-> k.nNew - 1, nTried |-> k.nTried + 1,
             new |-> m.new, tried |-> [k.tried EXCEPT ![t] = @ \cup {a}],
             index |-> [m.index EXCEPT ![a].tried = TRUE]]
    OBVIOUS
  <2>7. Settles(k, settled, a, t)
    <3>1. DOMAIN settled = AmFields
      BY <2>6 DEF AmFields
    <3>2. /\ settled.key = k.key /\ settled.nNew = k.nNew - 1 /\ settled.nTried = k.nTried + 1
          /\ settled.new = m.new /\ settled.tried = [k.tried EXCEPT ![t] = @ \cup {a}]
          /\ settled.index = [m.index EXCEPT ![a].tried = TRUE]
      BY <2>6
    <3>3. /\ settled.new \in [NewBuckets -> SUBSET Addrs]
          /\ \A b \in NewBuckets : settled.new[b] = k.new[b] \ {a}
      BY <1>6, <2>4, <3>2
    <3>4. /\ settled.tried \in [TriedBuckets -> SUBSET Addrs]
          /\ settled.tried[t] = k.tried[t] \cup {a}
          /\ \A c \in TriedBuckets \ {t} : settled.tried[c] = k.tried[c]
      BY <1>6, <1>7, <3>2
    <3>5. /\ settled.index \in [DOMAIN k.index -> Entry]
          /\ settled.index[a].refs = 0 /\ settled.index[a].tried = TRUE
          /\ \A x \in DOMAIN k.index \ {a} : settled.index[x] = k.index[x]
      BY <1>5, <1>6, <2>4, <2>5, <3>2 DEF Entry
    <3> QED
      BY <3>1, <3>2, <3>3, <3>4, <3>5 DEF Settles
  <2>9. /\ KnownBut(settled, {}) /\ settled.tried[t] = k.tried[t] \cup {a} /\ a \notin k.tried[t]
        /\ \A c \in TriedBuckets \ {t} : settled.tried[c] = k.tried[c]
    BY <1>3, <1>5, <1>9, <2>7, SettleKeeps
  <2>10. \A c \in TriedBuckets : Cardinality(k.tried[c]) <= triedBucketSize
    BY <1>5 DEF KnownOK, TriedFits
  <2>11. k.tried[t] \subseteq Addrs
    BY <1>6, <1>7
  <2>12. CASE Cardinality(m.tried[t]) < triedBucketSize
    <3>1. am' = [m EXCEPT !.tried[t] = @ \cup {a}, !.index[a].tried = TRUE, !.nTried = @ + 1]
      BY <1>1, <1>3, <1>4, <1>9, <2>2, <2>12 DEF Good, getTriedBucket, InNew
    <3>2. /\ DOMAIN n = AmFields /\ n.key = m.key /\ n.nNew = m.nNew /\ n.nTried = m.nTried + 1
          /\ n.new = m.new /\ n.tried = [m.tried EXCEPT ![t] = @ \cup {a}]
          /\ n.index = [m.index EXCEPT ![a].tried = TRUE]
      BY <1>2, <2>4, <3>1 DEF AmFields
    <3>3. Settles(k, n, a, t)
      <4>1. /\ n.key = settled.key /\ n.nNew = settled.nNew /\ n.nTried = settled.nTried
            /\ n.new = settled.new /\ n.tried = settled.tried /\ n.index = settled.index
        BY <2>4, <2>6, <3>2
      <4>2. /\ n.new \in [NewBuckets -> SUBSET Addrs] /\ \A b \in NewBuckets : n.new[b] = k.new[b] \ {a}
            /\ n.tried \in [TriedBuckets -> SUBSET Addrs] /\ n.tried[t] = k.tried[t] \cup {a}
            /\ \A c \in TriedBuckets \ {t} : n.tried[c] = k.tried[c]
        BY <2>7, <4>1 DEF Settles
      <4>3. /\ n.index \in [DOMAIN k.index -> Entry] /\ n.index[a].refs = 0 /\ n.index[a].tried = TRUE
            /\ \A x \in DOMAIN k.index \ {a} : n.index[x] = k.index[x]
        BY <2>7, <4>1 DEF Settles
      <4>4. n.key = k.key /\ n.nNew = k.nNew - 1 /\ n.nTried = k.nTried + 1
        BY <2>7, <4>1 DEF Settles
      <4> QED
        BY <3>2, <4>2, <4>3, <4>4 DEF Settles
    <3>4. KnownBut(n, {}) /\ n.tried[t] = k.tried[t] \cup {a}
          /\ \A c \in TriedBuckets \ {t} : n.tried[c] = k.tried[c]
      BY <1>3, <1>5, <1>9, <3>3, SettleKeeps
    <3>5. Cardinality(k.tried[t] \cup {a}) <= triedBucketSize
      <4>1. Cardinality(k.tried[t] \cup {a}) = Cardinality(k.tried[t]) + 1 /\ Cardinality(k.tried[t]) \in Nat
        BY <2>9, <2>11, OneMore
      <4>2. Cardinality(k.tried[t]) < triedBucketSize
        BY <2>4, <2>12
      <4> QED
        BY <4>1, <4>2, AddrLimits
    <3>6. TriedFits(n)
      BY <2>10, <3>4, <3>5 DEF TriedFits
    <3> QED
      BY <1>2, <3>4, <3>6 DEF KnownOK
  <2>13. CASE ~(Cardinality(m.tried[t]) < triedBucketSize)
    <3>1. PICK r \in m.tried[t] :
            am' = [m EXCEPT !.tried[t] = (@ \ {r}) \cup {a},
                            !.index[a].tried = TRUE,
                            !.index[r] = [refs |-> @.refs + 1, tried |-> FALSE, src |-> @.src],
                            !.nNew = @ + 1,
                            !.new[BucketForEvicted(m, r, first)] = @ \cup {r}]
      <4>1. ~am.index[a].tried /\ {b \in NewBuckets : a \in am.new[b]} # {}
        BY <1>1, <1>9, <2>2 DEF InNew
      <4>2. t = getTriedBucket(a) /\ m = LeavesNew(a)
            /\ first = CHOOSE b \in {d \in NewBuckets : a \in am.new[d]} :
                          \A c \in {d \in NewBuckets : a \in am.new[d]} : b <= c
        BY <1>1, <1>3, <1>4, <2>1 DEF InNew, getTriedBucket
      <4> QED
        BY <2>13, <4>1, <4>2 DEF Good
    <3>2. PICK e : e = BucketForEvicted(m, r, first)
      OBVIOUS
    <3>3. r \in k.tried[t] /\ r \in DOMAIN k.index /\ k.index[r].tried /\ r # a
      BY <1>5, <1>7, <1>9, <2>4, <3>1 DEF KnownOK, KnownBut, InBuckets, TriedOnes
    <3>4. k.index[r].refs = 0 /\ k.index[r] \in Entry
      <4>1. InNew(k, r) = {} /\ k.index[r].refs = Cardinality(InNew(k, r)) /\ InNew(k, r) \subseteq NewBuckets
        BY <1>5, <3>3 DEF KnownOK, KnownBut, RefsOK, InNew
      <4>2. Cardinality(InNew(k, r)) = 0
        BY <4>1, OneMore
      <4> QED
        BY <1>6, <3>3, <4>1, <4>2
    <3>5. e \in NewBuckets /\ Cardinality(settled.new[e]) <= newBucketSize
      <4>1. PICK b : b = NewBucketOf[m.key][r][m.index[r].src]
        OBVIOUS
      <4>2. m.key \in Keys /\ r \in Addrs /\ m.index[r] = k.index[r] /\ k.index[r].src \in Sources
        BY <1>6, <2>4, <2>5, <3>3, <3>4 DEF Entry
      <4>3. b \in NewBuckets
        BY <4>1, <4>2, AddrManagerConstants
      <4>4. e = IF Cardinality(m.new[b]) >= newBucketSize THEN first ELSE b
        BY <3>2, <4>1 DEF BucketForEvicted
      <4>5. settled.new = m.new
        BY <2>6
      <4>6. CASE Cardinality(m.new[b]) >= newBucketSize
        <5>1. m.new[first] = k.new[first] \ {a} /\ k.new[first] \subseteq Addrs
          BY <1>6, <2>3, <2>4
        <5>2. Cardinality(m.new[first]) = Cardinality(k.new[first]) - 1 /\ Cardinality(k.new[first]) \in Nat
          <6>1. Cardinality(k.new[first] \ {a}) = Cardinality(k.new[first]) - 1 /\ Cardinality(k.new[first]) \in Nat
            BY <2>3, <5>1, OneMore
          <6> QED
            BY <5>1, <6>1
        <5>3. Cardinality(k.new[first]) <= newBucketSize + 1
          BY <1>5, <2>3 DEF KnownOK, KnownBut, NewFits
        <5>4. Cardinality(m.new[first]) <= newBucketSize
          BY <5>2, <5>3, AddrLimits
        <5> QED
          BY <2>3, <4>4, <4>5, <4>6, <5>4
      <4>7. CASE ~(Cardinality(m.new[b]) >= newBucketSize)
        <5>1. m.new[b] \subseteq Addrs
          BY <1>6, <2>4, <4>3
        <5>2. Cardinality(m.new[b]) \in Nat
          BY <5>1, FewAddresses
        <5>3. Cardinality(m.new[b]) <= newBucketSize
          BY <4>7, <5>2, AddrLimits
        <5> QED
          BY <4>3, <4>4, <4>5, <4>7, <5>3
      <4> QED
        BY <4>6, <4>7
    <3>8. /\ n.tried = [m.tried EXCEPT ![t] = (@ \ {r}) \cup {a}]
          /\ n.new = [m.new EXCEPT ![e] = @ \cup {r}]
          /\ n.index = [[m.index EXCEPT ![a].tried = TRUE] EXCEPT ![r] =
                             [refs |-> m.index[r].refs + 1, tried |-> FALSE, src |-> m.index[r].src]]
          /\ DOMAIN n = AmFields /\ n.key = m.key /\ n.nNew = m.nNew + 1 /\ n.nTried = m.nTried
      <4>1. n = [m EXCEPT !.tried[t] = (@ \ {r}) \cup {a},
                          !.index[a].tried = TRUE,
                          !.index[r] = [refs |-> @.refs + 1, tried |-> FALSE, src |-> @.src],
                          !.nNew = @ + 1,
                          !.new[e] = @ \cup {r}]
        BY <1>2, <3>1, <3>2
      <4>2. n.tried = [m.tried EXCEPT ![t] = (@ \ {r}) \cup {a}]
        BY <2>4, <4>1 DEF AmFields
      <4>3. n.new = [m.new EXCEPT ![e] = @ \cup {r}]
        BY <2>4, <4>1 DEF AmFields
      <4>4. n.index = [[m.index EXCEPT ![a].tried = TRUE] EXCEPT ![r] =
                             [refs |-> m.index[r].refs + 1, tried |-> FALSE, src |-> m.index[r].src]]
        <5> DEFINE back == [refs |-> m.index[r].refs + 1, tried |-> FALSE, src |-> m.index[r].src]
                   m1 == [m EXCEPT !.tried[t] = (@ \ {r}) \cup {a}, !.index[a].tried = TRUE]
                   m2 == [m1 EXCEPT !.index[r] = back]
        <5>1. n = [m2 EXCEPT !.nNew = m.nNew + 1, !.new[e] = m.new[e] \cup {r}]
          BY <4>1
        <5>2. DOMAIN m1 = AmFields /\ m1.index = [m.index EXCEPT ![a].tried = TRUE]
          BY <2>4 DEF AmFields
        <5> HIDE DEF m1, back
        <5>3. DOMAIN m2 = AmFields /\ m2.index = [m1.index EXCEPT ![r] = back]
          BY <5>2 DEF AmFields
        <5> HIDE DEF m2
        <5>4. n.index = m2.index
          BY <5>1, <5>3 DEF AmFields
        <5> QED
          BY <5>2, <5>3, <5>4 DEF back
      <4>5. DOMAIN n = AmFields /\ n.key = m.key /\ n.nNew = m.nNew + 1 /\ n.nTried = m.nTried
        BY <2>4, <4>1 DEF AmFields
      <4> QED
        BY <4>2, <4>3, <4>4, <4>5
    <3>9. Evicts(settled, n, r, t, e)
      <4>1. /\ settled.key = k.key /\ settled.nNew = k.nNew - 1 /\ settled.nTried = k.nTried + 1
            /\ settled.new = m.new /\ settled.new \in [NewBuckets -> SUBSET Addrs]
            /\ settled.tried \in [TriedBuckets -> SUBSET Addrs]
            /\ settled.index \in [DOMAIN k.index -> Entry]
            /\ settled.index = [m.index EXCEPT ![a].tried = TRUE]
        BY <2>6, <2>7 DEF Settles
      <4>2. r \in Addrs /\ a \in Addrs
        BY <1>6, <3>3
      <4>3. /\ n.new \in [NewBuckets -> SUBSET Addrs] /\ n.new[e] = settled.new[e] \cup {r}
            /\ \A c \in NewBuckets \ {e} : n.new[c] = settled.new[c]
        BY <3>5, <3>8, <4>1, <4>2
      <4>4. /\ n.tried \in [TriedBuckets -> SUBSET Addrs] /\ n.tried[t] = settled.tried[t] \ {r}
            /\ \A c \in TriedBuckets \ {t} : n.tried[c] = settled.tried[c]
        BY <1>6, <1>7, <2>4, <2>9, <3>3, <3>8, <4>1, <4>2
      <4>5. settled.index[r] = k.index[r]
        BY <2>7, <3>3 DEF Settles
      <4>6. /\ n.index \in [DOMAIN settled.index -> Entry]
            /\ n.index[r].refs = 1 /\ n.index[r].tried = FALSE
            /\ \A x \in DOMAIN settled.index \ {r} : n.index[x] = settled.index[x]
        <5>1. PICK f : f = settled.index
          OBVIOUS
        <5>2. PICK back : back = [refs |-> m.index[r].refs + 1, tried |-> FALSE, src |-> m.index[r].src]
          OBVIOUS
        <5>3. n.index = [f EXCEPT ![r] = back]
          BY <3>8, <4>1, <5>1, <5>2
        <5>4. f \in [DOMAIN k.index -> Entry] /\ r \in DOMAIN k.index /\ k.index[r] \in Entry
          BY <3>3, <3>4, <4>1, <5>1
        <5>5. back \in Entry /\ back.refs = 1 /\ back.tried = FALSE
          <6>1. m.index[r].refs + 1 = 1 /\ m.index[r].src \in Sources
            BY <2>5, <3>3, <3>4 DEF Entry
          <6> QED
            BY <5>2, <6>1 DEF Entry
        <5>6. /\ n.index \in [DOMAIN k.index -> Entry] /\ n.index[r] = back
              /\ \A x \in DOMAIN k.index \ {r} : n.index[x] = f[x]
          BY <5>3, <5>4, <5>5
        <5> QED
          BY <5>1, <5>4, <5>5, <5>6
      <4>7. DOMAIN n = AmFields /\ n.key = settled.key /\ n.nNew = settled.nNew + 1 /\ n.nTried = settled.nTried - 1
        BY <1>6, <2>4, <3>8, <4>1
      <4> QED
        BY <4>3, <4>4, <4>6, <4>7 DEF Evicts
    <3>6. KnownBut(n, {})
      BY <1>7, <2>9, <3>3, <3>5, <3>9, EvictKeeps
    <3>7. TriedFits(n)
      <4>1. /\ n.tried[t] = (k.tried[t] \cup {a}) \ {r}
            /\ \A c \in TriedBuckets \ {t} : n.tried[c] = k.tried[c]
        BY <2>9, <3>9 DEF Evicts
      <4>2. k.tried[t] \cup {a} \subseteq Addrs /\ r \in k.tried[t] \cup {a}
        BY <2>11, <3>3
      <4>3. Cardinality(k.tried[t] \cup {a}) = Cardinality(k.tried[t]) + 1 /\ Cardinality(k.tried[t]) \in Nat
        BY <2>9, <2>11, OneMore
      <4>4. Cardinality((k.tried[t] \cup {a}) \ {r}) = Cardinality(k.tried[t] \cup {a}) - 1
        BY <4>2, OneMore
      <4>5. Cardinality(n.tried[t]) = Cardinality(k.tried[t])
        BY <4>1, <4>3, <4>4
      <4> QED
        BY <2>10, <4>1, <4>5 DEF TriedFits
    <3> QED
      BY <1>2, <3>6, <3>7 DEF KnownOK
  <2> QED
    BY <2>12, <2>13
<1> QED
  BY <1>8, <1>9

(* A manager that has counted nothing.                                     *)
LEMMA EmptyKnows == ASSUME NEW k \in Keys PROVE KnownOK(EmptyManager(k), {})
<1>1. PICK m : m = EmptyManager(k)
  OBVIOUS
<1>2. /\ DOMAIN m = AmFields /\ m.key = k /\ m.nNew = 0 /\ m.nTried = 0
      /\ m.new = [b \in NewBuckets |-> {}] /\ m.tried = [b \in TriedBuckets |-> {}]
      /\ m.index = [a \in {} |-> 0] /\ DOMAIN m.index = {}
  BY <1>1 DEF EmptyManager, AmFields
<1>3. NewOnes(m) = {} /\ TriedOnes(m) = {}
  BY <1>2 DEF NewOnes, TriedOnes
<1>4. Cardinality({}) = 0
  BY FS_EmptySet
<1>5. CountsOK(m)
  BY <1>2, <1>3, <1>4 DEF CountsOK
<1>6. ManagerTypes(m)
  BY <1>2 DEF ManagerTypes
<1>7. InBuckets(m)
  BY <1>2, <1>3 DEF InBuckets
<1>8. RefsOK(m, {})
  BY <1>2 DEF RefsOK
<1>9. NewFits(m) /\ TriedFits(m)
  <2>1. \A b \in NewBuckets : Cardinality(m.new[b]) = 0
    BY <1>2, <1>4
  <2>2. \A b \in TriedBuckets : Cardinality(m.tried[b]) = 0
    BY <1>2, <1>4
  <2> QED
    BY <1>2, <2>1, <2>2, AddrLimits DEF NewFits, TriedFits
<1> QED
  BY <1>1, <1>5, <1>6, <1>7, <1>8, <1>9 DEF KnownOK, KnownBut

(* The tried addresses are those of the tried buckets, and the new ones    *)
(* those of the new buckets.                                               *)
LEMMA BucketsAreIndex ==
    ASSUME NEW m, KnownOK(m, {})
    PROVE  /\ TriedOnes(m) = UNION {m.tried[b] : b \in TriedBuckets}
           /\ NewOnes(m) = UNION {m.new[b] : b \in NewBuckets}
           /\ \A a \in DOMAIN m.index : m.index[a].tried <=> InTried(m, a) # {}
           /\ \A a \in DOMAIN m.index : ~m.index[a].tried <=> InNew(m, a) # {}
<1>1. \A a \in DOMAIN m.index : m.index[a].tried => InTried(m, a) # {}
  BY DEF KnownOK, KnownBut, InBuckets, TriedOnes
<1>2. \A b \in TriedBuckets : m.tried[b] \subseteq TriedOnes(m)
  BY DEF KnownOK, KnownBut, InBuckets
<1>3. \A a \in DOMAIN m.index : InTried(m, a) # {} => m.index[a].tried
  BY <1>2 DEF TriedOnes, InTried
<1>4. \A a \in DOMAIN m.index : m.index[a].tried <=> InNew(m, a) = {}
  BY DEF KnownOK, KnownBut, RefsOK
<1>5. \A b \in NewBuckets : m.new[b] \subseteq DOMAIN m.index
  BY DEF KnownOK, KnownBut, InBuckets
<1>6. TriedOnes(m) = UNION {m.tried[b] : b \in TriedBuckets}
  <2>1. \A a \in TriedOnes(m) : \E b \in TriedBuckets : a \in m.tried[b]
    BY <1>1 DEF TriedOnes, InTried
  <2> QED
    BY <1>2, <2>1
<1>7. NewOnes(m) = UNION {m.new[b] : b \in NewBuckets}
  <2>1. \A a \in NewOnes(m) : \E b \in NewBuckets : a \in m.new[b]
    BY <1>4 DEF NewOnes, InNew
  <2>2. \A b \in NewBuckets : m.new[b] \subseteq NewOnes(m)
    BY <1>4, <1>5 DEF NewOnes, InNew
  <2> QED
    BY <2>1, <2>2
<1> QED
  BY <1>1, <1>3, <1>4, <1>6, <1>7

(* What is read back from the file is what was written: the references and *)
(* the counters come out as they were.                                     *)
LEMMA ReadBack ==
    ASSUME NEW m, KnownOK(m, {}), NEW f, f = Serialized(m)
    PROVE  KnownOK(deserializePeers(f), {})
<1>1. PICK d : d = deserializePeers(f)
  OBVIOUS
<1>2. /\ f.key = m.key /\ f.new = m.new /\ f.tried = m.tried
      /\ f.srcs = [a \in DOMAIN m.index |-> m.index[a].src] /\ DOMAIN f.srcs = DOMAIN m.index
  BY DEF Serialized
<1>3. DOMAIN m.index \subseteq Addrs /\ m.index \in [DOMAIN m.index -> Entry]
  BY DEF KnownOK, KnownBut, ManagerTypes
<1>4. \A a : Refs(f, a) = Cardinality(InNew(m, a))
  BY <1>2 DEF Refs, InNew
<1>5. /\ DOMAIN d = AmFields /\ d.key = m.key /\ d.new = m.new /\ d.tried = m.tried
      /\ d.nNew = Cardinality(NewCounts(f))
      /\ d.nTried = Cardinality({a \in DOMAIN m.index : \E b \in TriedBuckets : a \in m.tried[b]})
      /\ d.index = [a \in DOMAIN m.index |->
                      [refs |-> Refs(f, a), tried |-> \E b \in TriedBuckets : a \in m.tried[b],
                       src |-> f.srcs[a]]]
  BY <1>1, <1>2 DEF deserializePeers, AmFields
<1>6. \A a \in DOMAIN m.index : d.index[a] = m.index[a]
  <2>1. TAKE a \in DOMAIN m.index
  <2>2. m.index[a] \in Entry /\ m.index[a].refs = Cardinality(InNew(m, a))
    BY <1>3 DEF KnownOK, KnownBut, RefsOK
  <2>3. (\E b \in TriedBuckets : a \in m.tried[b]) <=> m.index[a].tried
    BY BucketsAreIndex DEF InTried
  <2>4. (\E b \in TriedBuckets : a \in m.tried[b]) = m.index[a].tried
    BY <2>2, <2>3 DEF Entry
  <2>5. d.index[a] = [refs |-> m.index[a].refs, tried |-> m.index[a].tried, src |-> m.index[a].src]
    <3>1. d.index[a] = [refs |-> Refs(f, a), tried |-> \E b \in TriedBuckets : a \in m.tried[b],
                        src |-> f.srcs[a]]
      BY <1>5, Zenon
    <3>2. Refs(f, a) = m.index[a].refs /\ f.srcs[a] = m.index[a].src
      BY <1>2, <1>4, <2>2
    <3> QED
      BY <2>4, <3>1, <3>2, Zenon
  <2> QED
    BY <2>2, <2>5 DEF Entry
<1>7. d.index = m.index
  <2>1. m.index = [a \in DOMAIN m.index |-> m.index[a]]
    BY <1>3
  <2>2. d.index = [a \in DOMAIN m.index |-> d.index[a]]
    BY <1>5, Zenon
  <2> QED
    BY <1>6, <2>1, <2>2, Zenon
<1>8. NewCounts(f) = NewOnes(m)
  <2>1. \A a \in DOMAIN m.index : Cardinality(InNew(m, a)) > 0 <=> InNew(m, a) # {}
    <3>1. TAKE a \in DOMAIN m.index
    <3>2. InNew(m, a) \subseteq NewBuckets
      BY DEF InNew
    <3>3. Cardinality(InNew(m, a)) \in Nat /\ (Cardinality(InNew(m, a)) = 0 <=> InNew(m, a) = {})
      BY <3>2, OneMore
    <3> QED
      BY <3>3
  <2> QED
    BY <1>2, <1>4, <2>1, BucketsAreIndex DEF NewCounts, NewOnes
<1>9. {a \in DOMAIN m.index : \E b \in TriedBuckets : a \in m.tried[b]} = TriedOnes(m)
  BY BucketsAreIndex DEF TriedOnes, InTried
<1>10. d.nNew = m.nNew /\ d.nTried = m.nTried
  BY <1>5, <1>8, <1>9 DEF KnownOK, KnownBut, CountsOK
<1>11. \A a : InNew(d, a) = InNew(m, a) /\ InTried(d, a) = InTried(m, a)
  BY <1>5 DEF InNew, InTried
<1>12. NewOnes(d) = NewOnes(m) /\ TriedOnes(d) = TriedOnes(m)
  BY <1>7 DEF NewOnes, TriedOnes
<1>13. ManagerTypes(d)
  BY <1>5, <1>7, <1>10 DEF KnownOK, KnownBut, ManagerTypes
<1>14. InBuckets(d)
  BY <1>5, <1>7, <1>11, <1>12 DEF KnownOK, KnownBut, InBuckets
<1>15. RefsOK(d, {})
  BY <1>7, <1>11 DEF KnownOK, KnownBut, RefsOK
<1>16. CountsOK(d)
  BY <1>10, <1>12 DEF KnownOK, KnownBut, CountsOK
<1>17. NewFits(d) /\ TriedFits(d)
  BY <1>5, <1>7 DEF KnownOK, KnownBut, NewFits, TriedFits
<1> QED
  BY <1>1, <1>13, <1>14, <1>15, <1>16, <1>17 DEF KnownOK, KnownBut

(* The scores of the local addresses are numbers.                          *)
LEMMA LocalKeeps ==
    ASSUME LocalOK(localAddresses), NEW k \in Kinds, NEW priority \in Priorities,
           AddLocalAddress(k, priority)
    PROVE  LocalOK(localAddresses')
<1>1. priority \in Nat
  BY DEF Priorities
<1>2. CASE k \notin DOMAIN localAddresses
  BY <1>1, <1>2 DEF AddLocalAddress, LocalOK
<1>3. CASE k \in DOMAIN localAddresses
  <2>1. localAddresses' = [localAddresses EXCEPT ![k] = IF @ < priority THEN priority + 1 ELSE @]
    BY <1>3 DEF AddLocalAddress
  <2> QED
    BY <1>1, <1>3, <2>1 DEF LocalOK
<1> QED
  BY <1>2, <1>3

(* The manager of a node that starts for the first time.                   *)
LEMMA AddrInvInit == AddrInit => AddrInv
<1> SUFFICES ASSUME AddrInit PROVE AddrInv
  OBVIOUS
<1>1. KnownOK(am, {})
  BY EmptyKnows DEF AddrInit
<1>2. FileOK(peersFile) /\ LocalOK(localAddresses)
  BY DEF AddrInit, FileOK, LocalOK, NoAddresses
<1> QED
  BY <1>1, <1>2 DEF AddrInv

(* Every step keeps the invariant.                                         *)
LEMMA AddrInvNext == AddrInv /\ [AddrNext]_addrVars => AddrInv'
<1> SUFFICES ASSUME AddrInv, [AddrNext]_addrVars PROVE AddrInv'
  OBVIOUS
<1> USE DEF AddrInv
<1>1. ASSUME NEW a \in Addrs, NEW s \in Sources, AddAddress(a, s) PROVE AddrInv'
  <2>1. KnownOK(am', {})
    BY <1>1, UpdateKeeps DEF AddAddress
  <2> QED
    BY <1>1, <2>1 DEF AddAddress
<1>2. ASSUME NEW a \in Addrs, Good(a) PROVE AddrInv'
  <2>1. KnownOK(am', {})
    BY <1>2, GoodKeeps
  <2> QED
    BY <1>2, <2>1 DEF Good
<1>3. CASE savePeers
  BY <1>3 DEF savePeers, FileOK
<1>4. CASE Saved
  <2>1. PICK m, f : m = am /\ f = peersFile'
    OBVIOUS
  <2>2. f = Serialized(m) /\ KnownOK(m, {})
    BY <1>4, <2>1 DEF Saved
  <2>3. KnownOK(deserializePeers(f), {})
    BY <2>2, ReadBack
  <2> QED
    BY <1>4, <2>1, <2>3 DEF Saved, FileOK
<1>5. CASE AddrCrash
  BY <1>5 DEF AddrCrash, LocalOK, NoAddresses
<1>6. CASE loadPeers
  <2>1. KnownOK(am', {})
    BY <1>6, EmptyKnows DEF loadPeers, FileOK
  <2>2. FileOK(peersFile')
    BY <1>6 DEF loadPeers, FileOK
  <2> QED
    BY <1>6, <2>1, <2>2 DEF loadPeers
<1>7. ASSUME NEW k \in Kinds, NEW priority \in Priorities, AddLocalAddress(k, priority) PROVE AddrInv'
  <2>1. LocalOK(localAddresses')
    BY <1>7, LocalKeeps
  <2> QED
    BY <1>7, <2>1 DEF AddLocalAddress
<1>8. CASE UNCHANGED addrVars
  BY <1>8 DEF addrVars
<1> QED
  BY <1>1, <1>2, <1>3, <1>4, <1>5, <1>6, <1>7, <1>8 DEF AddrNext

(* So it holds in every state.                                             *)
LEMMA AddrInvAlways == AddrSpec => []AddrInv
  BY AddrInvInit, AddrInvNext, PTL DEF AddrSpec

(* What the invariant says of buckets, references and counters.            *)
LEMMA Accounted == AddrInv => AddressesAreAccounted
<1> SUFFICES ASSUME AddrInv PROVE AddressesAreAccounted
  OBVIOUS
<1> DEFINE triedAddrs == UNION {am.tried[b] : b \in TriedBuckets}
           newAddrs == UNION {am.new[b] : b \in NewBuckets}
<1>1. KnownOK(am, {})
  BY DEF AddrInv
<1>2. triedAddrs = TriedOnes(am) /\ newAddrs = NewOnes(am)
  BY <1>1, BucketsAreIndex
<1> HIDE DEF triedAddrs, newAddrs
<1>3. DOMAIN am.index = triedAddrs \cup newAddrs /\ triedAddrs \cap newAddrs = {}
  BY <1>2 DEF TriedOnes, NewOnes
<1>4. \A a \in DOMAIN am.index : am.index[a].tried <=> a \in triedAddrs
  BY <1>2 DEF TriedOnes
<1>5. \A a \in DOMAIN am.index : am.index[a].refs = Refs(am, a)
  BY <1>1 DEF KnownOK, KnownBut, RefsOK, Refs, InNew
<1>6. am.nNew = Cardinality(newAddrs) /\ am.nTried = Cardinality(triedAddrs)
  BY <1>1, <1>2 DEF KnownOK, KnownBut, CountsOK
<1> QED
  BY <1>3, <1>4, <1>5, <1>6 DEF AddressesAreAccounted, triedAddrs, newAddrs

(* And of the sizes.                                                       *)
LEMMA Bounded == AddrInv => BucketsAreBounded
  BY DEF AddrInv, KnownOK, KnownBut, NewFits, TriedFits, BucketsAreBounded

-----------------------------------------------------------------------------
(* The best local address.                                                 *)

(* How reachable one address is from another is a number.                  *)
LEMMA ReachIsNumber == \A k, viewer : getReachabilityFrom(k, viewer) \in Nat
  BY DEF getReachabilityFrom, IsRoutable

(* The walk over the local addresses, in some order.                       *)
IsWalk(pick, order, viewer) ==
    pick = [n \in 0 .. Len(order) |->
              IF n = 0 THEN NoBest ELSE BetterOf(pick[n - 1], order[n], viewer)]

(* The recursion is well founded: there is such a walk.                    *)
LEMMA WalkExists ==
    ASSUME NEW order, Len(order) \in Nat, NEW viewer
    PROVE  \E pick : IsWalk(pick, order, viewer)
<1> DEFINE Part(f, n) == f = [i \in 0..n |->
                IF i = 0 THEN NoBest ELSE BetterOf(f[i - 1], order[i], viewer)]
           Walks == {n \in Nat : \E f : Part(f, n)}
<1>1. 0 \in Walks
  <2> DEFINE f == [i \in 0..0 |-> NoBest]
  <2>1. Part(f, 0)
    OBVIOUS
  <2> QED
    BY <2>1
<1>2. ASSUME NEW n \in Nat, n \in Walks PROVE n + 1 \in Walks
  <2>1. PICK f : Part(f, n)
    BY <1>2
  <2> DEFINE g == [i \in 0..(n + 1) |->
                     IF i <= n THEN f[i] ELSE BetterOf(f[i - 1], order[i], viewer)]
  <2>2. \A i \in 0..n : f[i] = IF i = 0 THEN NoBest ELSE BetterOf(f[i - 1], order[i], viewer)
    BY <2>1
  <2>3. \A i \in 0..n : g[i] = f[i]
    OBVIOUS
  <2>4. \A i \in 0..(n + 1) : g[i] = IF i = 0 THEN NoBest ELSE BetterOf(g[i - 1], order[i], viewer)
    BY <2>2, <2>3
  <2>5. Part(g, n + 1)
    BY <2>4
  <2> HIDE DEF g, Part
  <2>6. n + 1 \in Nat /\ \E h : Part(h, n + 1)
    BY <2>5
  <2> QED
    BY <2>6
<1> HIDE DEF Walks
<1>3. Len(order) \in Walks
  BY <1>1, <1>2, NaturalsByInduction
<1> QED
  BY <1>3 DEF Walks, IsWalk

(* b is none when nothing in S is worth more, or else the best of S.       *)
IsBest(b, S, viewer) ==
    /\ b.reach \in Nat /\ b.score \in Nat
    /\ \/ b = NoBest
       \/ b.addr \in S /\ b.reach = getReachabilityFrom(b.addr, viewer) /\ b.score = localAddresses[b.addr]
    /\ \A k \in S : ~Prefers(b, getReachabilityFrom(k, viewer), localAddresses[k])

(* One step of the walk goes from the best of some to the best of one more. *)
LEMMA BetterIsBest ==
    ASSUME NEW S, NEW k, NEW viewer, NEW b, IsBest(b, S, viewer),
           \A x \in S \cup {k} : localAddresses[x] \in Nat
    PROVE  IsBest(BetterOf(b, k, viewer), S \cup {k}, viewer)
<1>1. PICK n : n = BetterOf(b, k, viewer)
  OBVIOUS
<1>2. PICK r : r = getReachabilityFrom(k, viewer) /\ r \in Nat
  BY ReachIsNumber
<1>3. CASE Prefers(b, r, localAddresses[k])
  <2>1. n.addr = k /\ n.reach = r /\ n.score = localAddresses[k]
    BY <1>1, <1>2, <1>3 DEF BetterOf
  <2>2. ASSUME NEW x \in S
        PROVE  ~Prefers(n, getReachabilityFrom(x, viewer), localAddresses[x])
    <3>1. PICK q : q = getReachabilityFrom(x, viewer) /\ q \in Nat
      BY ReachIsNumber
    <3>2. ~Prefers(b, q, localAddresses[x])
      BY <3>1 DEF IsBest
    <3>3. localAddresses[x] \in Nat /\ localAddresses[k] \in Nat /\ b.reach \in Nat /\ b.score \in Nat
      BY DEF IsBest
    <3>4. ~Prefers(n, q, localAddresses[x])
      BY <1>2, <1>3, <2>1, <3>1, <3>2, <3>3 DEF Prefers
    <3> QED
      BY <3>1, <3>4
  <2>3. ~Prefers(n, r, localAddresses[k])
    BY <1>2, <2>1 DEF Prefers
  <2> QED
    BY <1>1, <1>2, <2>1, <2>2, <2>3 DEF IsBest
<1>4. CASE ~Prefers(b, r, localAddresses[k])
  <2>1. n = b
    BY <1>1, <1>2, <1>4 DEF BetterOf
  <2> QED
    BY <1>1, <1>2, <1>4, <2>1 DEF IsBest
<1> QED
  BY <1>3, <1>4

(* The walk ends at the best of all.                                       *)
LEMMA WalkIsBest ==
    ASSUME LocalOK(localAddresses), NEW order, Len(order) \in Nat, NEW viewer,
           \A i \in 1..Len(order) : order[i] \in DOMAIN localAddresses,
           NEW pick, IsWalk(pick, order, viewer)
    PROVE  IsBest(pick[Len(order)], {order[i] : i \in 1..Len(order)}, viewer)
<1> DEFINE Seen(n) == {order[i] : i \in 1..n}
           Holds(n) == IsBest(pick[n], Seen(n), viewer)
           Ns == {n \in Nat : n <= Len(order) => Holds(n)}
<1>1. pick[0] = NoBest /\ \A n \in 1..Len(order) : pick[n] = BetterOf(pick[n - 1], order[n], viewer)
  BY DEF IsWalk
<1>2. 0 \in Ns
  <2>1. Seen(0) = {}
    OBVIOUS
  <2>2. IsBest(NoBest, {}, viewer)
    BY DEF IsBest, NoBest
  <2> QED
    BY <1>1, <2>1, <2>2
<1>3. ASSUME NEW n \in Nat, n \in Ns PROVE n + 1 \in Ns
  <2>1. SUFFICES ASSUME n + 1 <= Len(order) PROVE Holds(n + 1)
    OBVIOUS
  <2>2. Holds(n)
    BY <1>3, <2>1
  <2>3. Seen(n + 1) = Seen(n) \cup {order[n + 1]}
    OBVIOUS
  <2>4. pick[n + 1] = BetterOf(pick[n], order[n + 1], viewer)
    BY <1>1, <2>1
  <2>5. \A x \in Seen(n) \cup {order[n + 1]} : localAddresses[x] \in Nat
    BY <2>1 DEF LocalOK
  <2>6. IsBest(BetterOf(pick[n], order[n + 1], viewer), Seen(n) \cup {order[n + 1]}, viewer)
    BY <2>2, <2>5, BetterIsBest
  <2> QED
    BY <2>3, <2>4, <2>6
<1> HIDE DEF Holds
<1>4. Len(order) \in Ns
  <2> HIDE DEF Ns
  <2> QED
    BY <1>2, <1>3, NaturalsByInduction
<1>5. Holds(Len(order))
  BY <1>4
<1> QED
  BY <1>5 DEF Holds

(* An order of a finite set goes through all of it.                        *)
LEMMA OrderCovers ==
    ASSUME NEW S, IsFiniteSet(S), NEW order \in SetToSeqs(S)
    PROVE  Len(order) \in Nat /\ {order[i] : i \in 1..Len(order)} = S
<1>1. PICK n : n = Cardinality(S) /\ n \in Nat
  BY FS_CardinalityType
<1>2. order \in [1..n -> S] /\ \A i, j \in 1..n : i # j => order[i] # order[j]
  BY <1>1 DEF SetToSeqs
<1>3. order \in Seq(S) /\ Len(order) = n
  BY <1>1, <1>2
<1>4. order \in Injection(1..n, S)
  BY <1>2 DEF Injection, IsInjective
<1>5. IsFiniteSet(1..n) /\ Cardinality(1..n) = n
  BY <1>1, FS_Interval
<1>6. order \in Surjection(1..n, S)
  BY <1>1, <1>4, <1>5, FS_Injection
<1> QED
  BY <1>1, <1>2, <1>3, <1>6 DEF Surjection

(* Whatever the order, GetBestLocalAddress returns the best.               *)
LEMMA Suggests == AddrInv => SuggestsTheBest
<1> SUFFICES ASSUME AddrInv, NEW viewer \in Kinds, NEW order \in SetToSeqs(DOMAIN localAddresses)
             PROVE  LET pick == GetBestLocalAddress(viewer, order)
                        Rank(k) == <<getReachabilityFrom(k, viewer), localAddresses[k]>>
                        Above(r, q) == r[1] > q[1] \/ (r[1] = q[1] /\ r[2] > q[2])
                    IN  IF pick = "none" THEN \A k \in DOMAIN localAddresses : ~Above(Rank(k), <<0, 0>>)
                        ELSE \A k \in DOMAIN localAddresses : ~Above(Rank(k), Rank(pick))
  BY DEF SuggestsTheBest
<1>1. LocalOK(localAddresses) /\ IsFiniteSet(DOMAIN localAddresses)
  <2>1. IsFiniteSet(Kinds)
    <3>1. \A S, x : IsFiniteSet(S) => IsFiniteSet(S \cup {x})
      BY FS_AddElement
    <3>2. IsFiniteSet(((((({} \cup {"ipv4"}) \cup {"reserved"}) \cup {"tor"}) \cup {"teredo"})
                        \cup {"tunnelled"}) \cup {"ipv6"})
      BY <3>1, FS_EmptySet
    <3>3. Kinds = ((((({} \cup {"ipv4"}) \cup {"reserved"}) \cup {"tor"}) \cup {"teredo"})
                        \cup {"tunnelled"}) \cup {"ipv6"}
      BY DEF Kinds
    <3> QED
      BY <3>2, <3>3, Zenon
  <2> QED
    BY <2>1, FS_Subset DEF AddrInv, LocalOK
<1>2. Len(order) \in Nat /\ {order[i] : i \in 1..Len(order)} = DOMAIN localAddresses
  BY <1>1, OrderCovers
<1> DEFINE walk == CHOOSE pick : IsWalk(pick, order, viewer)
<1>3. IsWalk(walk, order, viewer)
  BY <1>2, WalkExists
<1>4. GetBestLocalAddress(viewer, order) = walk[Len(order)].addr
  BY DEF GetBestLocalAddress, IsWalk
<1> HIDE DEF walk
<1>5. PICK b : b = walk[Len(order)]
  OBVIOUS
<1>6. IsBest(b, DOMAIN localAddresses, viewer)
  BY <1>1, <1>2, <1>3, <1>5, WalkIsBest
<1>7. PICK pick : pick = GetBestLocalAddress(viewer, order) /\ pick = b.addr
  BY <1>4, <1>5
<1>8. \A k \in DOMAIN localAddresses : getReachabilityFrom(k, viewer) \in Nat /\ localAddresses[k] \in Nat
  BY <1>1, ReachIsNumber DEF LocalOK
<1>9. CASE pick = "none"
  <2>1. b = NoBest
    BY <1>1, <1>6, <1>7, <1>9 DEF IsBest, LocalOK, Kinds
  <2>2. b.reach = 0 /\ b.score = 0
    BY <2>1 DEF NoBest
  <2> QED
    BY <1>6, <1>7, <1>8, <1>9, <2>2 DEF IsBest, Prefers
<1>10. CASE pick # "none"
  <2>1. b # NoBest
    BY <1>7, <1>10 DEF NoBest
  <2>2. b.reach = getReachabilityFrom(pick, viewer) /\ b.score = localAddresses[pick]
    BY <1>6, <1>7, <2>1 DEF IsBest
  <2> QED
    BY <1>6, <1>7, <1>8, <1>10, <2>2 DEF IsBest, Prefers
<1> QED
  BY <1>9, <1>10

(* The index, the buckets and the counters of the address manager agree    *)
(* and stay within their bounds, and the best local address is announced,  *)
(* for any number of addresses, buckets and keys and any sizes, whatever   *)
(* is added, expired, marked good, saved and read back.                    *)
THEOREM AddressesAlwaysKept == AddrSpec => []AddressesAreKept
<1>1. AddrInv => AddressesAreKept
  BY Accounted, Bounded, Suggests DEF AddressesAreKept
<1> QED
  BY <1>1, AddrInvAlways, PTL

(* loadPeers never throws away what savePeers has finished: the checks at  *)
(* the end of deserializePeers succeed on it.                              *)
THEOREM SavedPeersAlwaysLoad ==
    AddrSpec => [](peersFile.written = "all" => Loadable(deserializePeers(peersFile)))
<1>1. AddrInv => (peersFile.written = "all" => Loadable(deserializePeers(peersFile)))
  <2> SUFFICES ASSUME AddrInv, peersFile.written = "all" PROVE Loadable(deserializePeers(peersFile))
    OBVIOUS
  <2>1. PICK d : d = deserializePeers(peersFile)
    OBVIOUS
  <2>2. KnownOK(d, {})
    BY <2>1 DEF AddrInv, FileOK
  <2>3. ASSUME NEW a \in DOMAIN d.index PROVE d.index[a].tried <=> d.index[a].refs = 0
    <3>1. InNew(d, a) \subseteq NewBuckets
      BY DEF InNew
    <3>2. Cardinality(InNew(d, a)) = 0 <=> InNew(d, a) = {}
      BY <3>1, OneMore
    <3> QED
      BY <2>2, <3>2 DEF KnownOK, KnownBut, RefsOK
  <2> QED
    BY <2>1, <2>3 DEF Loadable
<1> QED
  BY <1>1, AddrInvAlways, PTL

-----------------------------------------------------------------------------
(* The goroutines of a peer.                                               *)

(* The message outHandler holds, and the one it has not written yet.       *)
InHand == IF outPc \in {"control", "write", "signal", "failed"} THEN {outMsg} ELSE {}
Unwritten == IF outPc \in {"control", "write"} THEN <<outMsg>> ELSE <<>>

(* Types.                                                                  *)
QueueTypes ==
    /\ outputQueue \in Seq(Msgs) /\ pendingMsgs \in Seq(Msgs) /\ sendQueue \in Seq(Msgs)
    /\ queued \in Seq(Msgs) /\ written \in Seq(Msgs)

StateTypes ==
    /\ sendDoneQueue \in Nat /\ answers \in Nat
    /\ signalled \in [Msgs -> Nat] /\ callers \subseteq Msgs
    /\ quit \in BOOLEAN /\ waiting \in BOOLEAN /\ pendingResponse \in BOOLEAN
    /\ outPc \in {"run", "control", "write", "signal", "failed", "drain", "done"}
    /\ queuePc \in {"run", "drain", "done"}
    /\ inPc \in {"read", "received", "start", "handled", "wait", "end", "done"}
    /\ InHand \subseteq Msgs

ControlTypes == stallControl \in Seq({"sent", "received", "other"}) /\ Len(stallControl) <= 1

PeerTypes == QueueTypes /\ StateTypes /\ ControlTypes

(* The messages that queueHandler gave to outHandler and that it has not   *)
(* been told are done.                                                     *)
Busy == Len(sendQueue) + (IF outPc \in {"control", "write", "signal"} THEN 1 ELSE 0) + sendDoneQueue

(* queueHandler waits whenever outHandler has a message.                   *)
WaitingOK ==
    /\ Busy <= 1
    /\ ~waiting => Busy = 0 /\ pendingMsgs = <<>>

(* Handlers end, and drop messages, only after Disconnect.                 *)
QuitOK ==
    /\ queuePc # "run" => quit /\ pendingMsgs = <<>>
    /\ outPc \in {"failed", "drain", "done"} => quit
    /\ inPc = "done" => quit

(* The line from what was written to what was queued last.                 *)
LineOK ==
    /\ IsPrefix(written, queued)
    /\ ~quit => queued = written \o (Unwritten \o (sendQueue \o (pendingMsgs \o outputQueue)))

(* Each message that was queued and is not done with is in one place, and  *)
(* a caller has not queued its message yet.                                *)
OnTheWay == Elements(outputQueue) \cup Elements(pendingMsgs) \cup Elements(sendQueue) \cup InHand

PlacesOK ==
    /\ Distinct(outputQueue) /\ Distinct(pendingMsgs)
    /\ Elements(outputQueue) \cap Elements(pendingMsgs) = {}
    /\ (Elements(outputQueue) \cup Elements(pendingMsgs)) \cap (Elements(sendQueue) \cup InHand) = {}
    /\ Elements(sendQueue) \cap InHand = {}
    /\ OnTheWay \subseteq Elements(queued) /\ callers \cap Elements(queued) = {}

(* Nobody is signalled twice, and who is on the way not yet.               *)
SignalsOK ==
    /\ \A m \in Msgs : signalled[m] <= 1
    /\ \A m \in callers \cup OnTheWay : signalled[m] = 0
    /\ \A m \in Rejects : m \in Elements(queued) /\ signalled[m] = 0 => m \in OnTheWay

(* An answer is due: the request is with the remote peer or about to be    *)
(* written, the answer is on its way, or the peer is being disconnected.   *)
AnswerDue ==
    \/ asked # {} \/ answers > 0 \/ inPc = "received" \/ "received" \in Elements(stallControl)
    \/ outPc = "write" /\ outMsg \in Requests
    \/ quit

DeadlineOK == pendingResponse \/ "sent" \in Elements(stallControl) => AnswerDue

(* The inductive invariant of a peer.                                      *)
PeerConnInv == PeerTypes /\ WaitingOK /\ QuitOK /\ LineOK /\ PlacesOK /\ SignalsOK /\ DeadlineOK

(* Concatenation, as the queues of a peer use it.                          *)
LEMMA JoinEmpty ==
    ASSUME NEW S, NEW s \in Seq(S)
    PROVE  <<>> \o s = s
  OBVIOUS

LEMMA JoinTail ==
    ASSUME NEW S, NEW s \in Seq(S), NEW t \in Seq(S), s # <<>>
    PROVE  s = <<Head(s)>> \o Tail(s) /\ s \o t = <<Head(s)>> \o (Tail(s) \o t)
  OBVIOUS

(* A sequence is a prefix of what is added to it.                          *)
LEMMA PrefixGrows ==
    ASSUME NEW S, NEW s \in Seq(S), NEW t \in Seq(S), NEW x \in S
    PROVE  /\ IsPrefix(s, s \o t)
           /\ IsPrefix(s, t) => IsPrefix(s, Append(t, x))
<1>1. IsPrefix(s, s \o t)
  BY DEF IsPrefix
<1>2. IsPrefix(s, t) => IsPrefix(s, Append(t, x))
  BY DEF IsPrefix
<1> QED
  BY <1>1, <1>2

(* One more goes to the end, or comes before what follows.                 *)
LEMMA JoinEnd ==
    \A S : \A s, t \in Seq(S) : \A x \in S : s \o Append(t, x) = Append(s \o t, x)
  OBVIOUS

LEMMA JoinFirst ==
    \A S : \A s, t \in Seq(S) : \A x \in S : Append(s, x) \o t = s \o (<<x>> \o t)
  OBVIOUS

(* ToSet, as the model has it, and Elements, as the queue lemmas have it.  *)
LEMMA SameElements == \A s : ToSet(s) = Elements(s)
  BY DEF ToSet, Elements

(* An empty queue.                                                        *)
LEMMA NothingQueued == ASSUME NEW S PROVE <<>> \in Seq(S) /\ Elements(<<>>) = {}
  BY DEF Elements

(* The types of the queues, of the handlers' state and of stallControl.   *)
LEMMA QueueTypesKept == ASSUME PeerTypes, [PeerNext]_peerVars PROVE QueueTypes'
<1> USE DEF PeerTypes, QueueTypes
<1>1. CASE UNCHANGED <<outputQueue, pendingMsgs, sendQueue, queued, written>>
  BY <1>1
<1>2. ASSUME NEW m \in Msgs, QueueMessage(m) PROVE QueueTypes'
  BY <1>2 DEF QueueMessage, ioVars
<1>3. CASE queuePacket
  <2>1. Head(outputQueue) \in Msgs /\ Tail(outputQueue) \in Seq(Msgs)
    BY <1>3 DEF queuePacket
  <2>2. /\ Append(pendingMsgs, Head(outputQueue)) \in Seq(Msgs)
        /\ Append(sendQueue, Head(outputQueue)) \in Seq(Msgs)
    BY <2>1
  <2>3. /\ outputQueue' = Tail(outputQueue) /\ queued' = queued /\ written' = written
        /\ pendingMsgs' \in {pendingMsgs, Append(pendingMsgs, Head(outputQueue))}
        /\ sendQueue' \in {sendQueue, Append(sendQueue, Head(outputQueue))}
    BY <1>3 DEF queuePacket, qRest
  <2> QED
    BY <2>1, <2>2, <2>3
<1>4. CASE SendNext
  <2>1. CASE pendingMsgs = <<>>
    BY <1>4, <2>1 DEF SendNext, qRest
  <2>2. CASE pendingMsgs # <<>>
    <3>1. Head(pendingMsgs) \in Msgs /\ Tail(pendingMsgs) \in Seq(Msgs)
      BY <2>2
    <3>2. Append(sendQueue, Head(pendingMsgs)) \in Seq(Msgs)
      BY <3>1
    <3>3. /\ outputQueue' = outputQueue /\ queued' = queued /\ written' = written
          /\ pendingMsgs' = Tail(pendingMsgs) /\ sendQueue' = Append(sendQueue, Head(pendingMsgs))
      BY <1>4, <2>2 DEF SendNext, qRest
    <3> QED
      BY <3>1, <3>2, <3>3
  <2> QED
    BY <2>1, <2>2
<1>5. CASE QueueQuits
  BY <1>5, NothingQueued DEF QueueQuits, qRest
<1>6. CASE QueueDrains
  <2>1. outputQueue # <<>> => Tail(outputQueue) \in Seq(Msgs)
    OBVIOUS
  <2> QED
    BY <1>6, <2>1 DEF QueueDrains, qRest
<1>7. CASE TakeMsg
  BY <1>7 DEF TakeMsg, oRest
<1>8. CASE outPc = "write" /\ WriteMessage("signal")
  <2>1. outMsg \in Msgs
    BY <1>8 DEF StateTypes, InHand
  <2>2. Append(written, outMsg) \in Seq(Msgs)
    BY <2>1
  <2>3. /\ outputQueue' = outputQueue /\ queued' = queued /\ pendingMsgs' = pendingMsgs /\ sendQueue' = sendQueue
        /\ written' \in {written, Append(written, outMsg)}
    BY <1>8 DEF WriteMessage, oRest
  <2> QED
    BY <2>2, <2>3
<1>9. CASE OutDrains
  BY <1>9, NothingQueued DEF OutDrains, oRest
<1>10. ASSUME PeerNext,
              ~queuePacket, ~SendNext, ~QueueQuits, ~QueueDrains, ~TakeMsg, ~OutDrains,
              ~(outPc = "write" /\ WriteMessage("signal")),
              \A m \in Msgs : ~QueueMessage(m)
       PROVE  UNCHANGED <<outputQueue, pendingMsgs, sendQueue, queued, written>>
  <2>1. CASE (outPc = "control" /\ SendControl("write")) \/ WriteDone \/ WriteFailed \/ OutQuits
    BY <2>1 DEF SendControl, WriteDone, WriteFailed, OutQuits, oRest
  <2>2. CASE \E pc, what, next : Tell(pc, what, next)
    BY <2>2 DEF Tell, iRest
  <2>3. CASE Woken \/ InEnds \/ ReadAnswer \/ ReadFails \/ \E m \in Rejects : PushRejectMsg(m)
    BY <2>3 DEF Woken, InEnds, ReadAnswer, ReadFails, PushRejectMsg, iRest
  <2>4. CASE ControlMsg \/ StallTick \/ StallQuits
    BY <2>4 DEF ControlMsg, StallTick, StallQuits, sRest
  <2>5. CASE Disconnect \/ \E m \in Msgs : CallerFindsConnected(m) \/ Answers(m)
    BY <2>5 DEF Disconnect, CallerFindsConnected, Answers, ioVars
  <2> QED
    BY <1>10, <2>1, <2>2, <2>3, <2>4, <2>5 DEF PeerNext, HandlerSteps, ControlThenWrite
<1> QED
  BY <1>1, <1>2, <1>3, <1>4, <1>5, <1>6, <1>7, <1>8, <1>9, <1>10 DEF peerVars

(* stallControl has room for one.                                          *)
LEMMA ControlTypesKept == ASSUME PeerTypes, [PeerNext]_peerVars PROVE ControlTypes'
<1> USE DEF PeerTypes, ControlTypes
<1>1. CASE UNCHANGED stallControl
  BY <1>1
<1>2. ASSUME NEW what \in {"sent", "received", "other"}, Len(stallControl) < 1, stallControl' = Append(stallControl, what)
      PROVE  ControlTypes'
  BY <1>2
<1>3. CASE outPc = "control" /\ SendControl("write")
  BY <1>2, <1>3 DEF SendControl
<1>4. CASE \/ Tell("received", "received", "start")
           \/ Tell("start", "other", "handled")
           \/ Tell("handled", "other", "read")
  BY <1>2, <1>4 DEF Tell
<1>5. CASE ControlMsg
  BY <1>5 DEF ControlMsg
<1>6. CASE StallQuits
  BY <1>6 DEF StallQuits
<1>7. ASSUME PeerNext,
              ~(outPc = "control" /\ SendControl("write")), ~ControlMsg, ~StallQuits,
              ~Tell("received", "received", "start"), ~Tell("start", "other", "handled"),
              ~Tell("handled", "other", "read")
       PROVE  UNCHANGED stallControl
  <2>1. CASE queuePacket \/ SendNext \/ QueueQuits \/ QueueDrains
    BY <2>1 DEF queuePacket, SendNext, QueueQuits, QueueDrains, qRest
  <2>2. CASE TakeMsg \/ WriteMessage("signal") \/ WriteDone \/ WriteFailed \/ OutQuits \/ OutDrains
    BY <2>2 DEF TakeMsg, WriteMessage, WriteDone, WriteFailed, OutQuits, OutDrains, oRest
  <2>3. CASE Woken \/ InEnds \/ ReadAnswer \/ ReadFails \/ \E m \in Rejects : PushRejectMsg(m)
    BY <2>3 DEF Woken, InEnds, ReadAnswer, ReadFails, PushRejectMsg, iRest
  <2>4. CASE StallTick \/ Disconnect \/ \E m \in Msgs : CallerFindsConnected(m) \/ Answers(m) \/ QueueMessage(m)
    BY <2>4 DEF StallTick, Disconnect, CallerFindsConnected, Answers, QueueMessage
  <2> QED
    BY <1>7, <2>1, <2>2, <2>3, <2>4 DEF PeerNext, HandlerSteps, ControlThenWrite
<1> QED
  BY <1>1, <1>3, <1>4, <1>5, <1>6, <1>7 DEF peerVars

(* What outHandler has in its hands is a message.                          *)
LEMMA StateTypesKept == ASSUME PeerTypes, [PeerNext]_peerVars PROVE StateTypes'
<1> USE DEF PeerTypes, StateTypes
<1>1. CASE UNCHANGED peerVars
  BY <1>1 DEF peerVars, InHand
<1>2. ASSUME NEW m \in Msgs, QueueMessage(m) PROVE StateTypes'
  BY <1>2 DEF QueueMessage, ioVars, remoteVars, InHand
<1>3. CASE queuePacket
  BY <1>3 DEF queuePacket, qRest, remoteVars, InHand
<1>4. CASE SendNext
  <2>1. /\ sendDoneQueue' \in Nat /\ waiting' \in BOOLEAN
        /\ UNCHANGED <<queuePc, signalled, qRest>>
    <3>1. sendDoneQueue - 1 \in Nat
      BY <1>4 DEF SendNext
    <3> QED
      BY <1>4, <3>1 DEF SendNext
  <2> QED
    BY <2>1 DEF qRest, remoteVars, InHand
<1>5. CASE QueueQuits
  BY <1>5 DEF QueueQuits, Signal, qRest, remoteVars, InHand
<1>6. CASE QueueDrains
  <2>1. /\ signalled' \in [Msgs -> Nat] /\ queuePc' \in {"drain", "done"}
        /\ UNCHANGED <<sendDoneQueue, waiting, qRest>>
    BY <1>6 DEF QueueDrains, Signal
  <2> QED
    BY <2>1 DEF qRest, remoteVars, InHand
<1>7. CASE TakeMsg
  <2>1. Head(sendQueue) \in Msgs
    BY <1>7 DEF TakeMsg, QueueTypes
  <2> QED
    BY <1>7, <2>1 DEF TakeMsg, oRest, remoteVars, InHand
<1>8. CASE outPc = "control" /\ SendControl("write")
  BY <1>8 DEF SendControl, oRest, remoteVars, InHand
<1>9. CASE outPc = "write" /\ WriteMessage("signal")
  <2>1. /\ quit' \in BOOLEAN /\ outPc' \in {"signal", "failed"}
        /\ UNCHANGED <<sendDoneQueue, outMsg, signalled, pendingResponse, answers, oRest>>
    BY <1>9 DEF WriteMessage
  <2> QED
    BY <1>9, <2>1 DEF oRest, InHand
<1>10. CASE WriteDone
  BY <1>10 DEF WriteDone, Signal, oRest, remoteVars, InHand
<1>11. CASE WriteFailed
  BY <1>11 DEF WriteFailed, Signal, oRest, remoteVars, InHand
<1>12. CASE OutQuits
  BY <1>12 DEF OutQuits, oRest, remoteVars, InHand
<1>13. CASE OutDrains
  BY <1>13 DEF OutDrains, Signal, oRest, remoteVars, InHand
<1>14. CASE \/ Tell("received", "received", "start")
            \/ Tell("start", "other", "handled")
            \/ Tell("handled", "other", "read")
  <2>1. inPc' \in {"read", "start", "handled"} /\ UNCHANGED <<quit, callers, signalled, answers, iRest>>
    BY <1>14 DEF Tell
  <2> QED
    BY <2>1 DEF iRest, InHand
<1>15. CASE Woken \/ ReadFails
  BY <1>15 DEF Woken, ReadFails, iRest, InHand
<1>16. CASE InEnds
  BY <1>16 DEF InEnds, iRest, InHand
<1>17. CASE ReadAnswer
  BY <1>17 DEF ReadAnswer, iRest, InHand
<1>18. ASSUME NEW m \in Rejects, PushRejectMsg(m) PROVE StateTypes'
  BY <1>18 DEF PushRejectMsg, Signal, Msgs, iRest, InHand
<1>19. CASE ControlMsg
  <2>1. pendingResponse' \in BOOLEAN /\ UNCHANGED <<quit, stallPc, sRest>>
    BY <1>19 DEF ControlMsg, Deadline
  <2> QED
    BY <2>1 DEF sRest, InHand
<1>20. CASE StallTick
  BY <1>20 DEF StallTick, sRest, InHand
<1>21. CASE StallQuits
  <2>1. UNCHANGED <<quit, pendingResponse, sRest>>
    BY <1>21 DEF StallQuits
  <2> QED
    BY <2>1 DEF sRest, InHand
<1>22. ASSUME NEW m \in Msgs, CallerFindsConnected(m) PROVE StateTypes'
  BY <1>22 DEF CallerFindsConnected, FindsConnected, ioVars, remoteVars, InHand
<1>23. ASSUME NEW m \in Msgs, Answers(m) PROVE StateTypes'
  BY <1>23 DEF Answers, ioVars, InHand
<1>24. CASE Disconnect
  BY <1>24 DEF Disconnect, ioVars, remoteVars, InHand
<1> QED
  BY <1>1, <1>2, <1>3, <1>4, <1>5, <1>6, <1>7, <1>8, <1>9, <1>10, <1>11, <1>12, <1>13, <1>14, <1>15,
     <1>16, <1>17, <1>18, <1>19, <1>20, <1>21, <1>22, <1>23, <1>24
  DEF PeerNext, HandlerSteps, ControlThenWrite

(* The steps of queueHandler and of outHandler, and what the others leave  *)
(* alone.                                                                  *)
QueueSteps == queuePacket \/ SendNext \/ QueueQuits \/ QueueDrains
OutSteps == TakeMsg \/ ControlThenWrite \/ WriteDone \/ WriteFailed \/ OutQuits \/ OutDrains
betweenHandlers == <<sendQueue, sendDoneQueue, pendingMsgs, waiting, queuePc, outPc, outMsg, written>>

(* Whatever queueHandler and outHandler do not do.                         *)
LEMMA OtherPeerSteps ==
    ASSUME [PeerNext]_peerVars, ~QueueSteps, ~OutSteps
    PROVE  UNCHANGED betweenHandlers
<1> USE DEF betweenHandlers
<1>1. CASE UNCHANGED peerVars
  BY <1>1 DEF peerVars
<1>2. CASE Disconnect \/ \E m \in Msgs : QueueMessage(m) \/ CallerFindsConnected(m) \/ Answers(m)
  BY <1>2 DEF Disconnect, QueueMessage, CallerFindsConnected, Answers, ioVars
<1>3. CASE \/ Tell("received", "received", "start")
           \/ Tell("start", "other", "handled")
           \/ Tell("handled", "other", "read")
  BY <1>3 DEF Tell, iRest
<1>4. CASE Woken \/ InEnds \/ ReadAnswer \/ ReadFails \/ \E m \in Rejects : PushRejectMsg(m)
  BY <1>4 DEF Woken, InEnds, ReadAnswer, ReadFails, PushRejectMsg, iRest
<1>5. CASE ControlMsg \/ StallTick \/ StallQuits
  BY <1>5 DEF ControlMsg, StallTick, StallQuits, sRest
<1> QED
  BY <1>1, <1>2, <1>3, <1>4, <1>5 DEF PeerNext, HandlerSteps, QueueSteps, OutSteps

(* outHandler has at most one message at a time, and queueHandler waits    *)
(* while it has one.                                                       *)
LEMMA WaitingKept == ASSUME PeerConnInv, [PeerNext]_peerVars PROVE WaitingOK'
<1>1. /\ Len(sendQueue) \in Nat /\ sendDoneQueue \in Nat
      /\ sendQueue \in Seq(Msgs) /\ pendingMsgs \in Seq(Msgs)
      /\ WaitingOK
  BY DEF PeerConnInv, PeerTypes, QueueTypes, StateTypes
<1>2. CASE queuePacket
  <2>1. CASE waiting
    BY <1>1, <1>2, <2>1 DEF queuePacket, IsWaiting, qRest, WaitingOK, Busy
  <2>2. CASE ~waiting
    <3>1. Len(Append(sendQueue, Head(outputQueue))) = Len(sendQueue) + 1
      BY <1>1
    <3>2. /\ sendQueue' = Append(sendQueue, Head(outputQueue)) /\ waiting' = TRUE
          /\ outPc' = outPc /\ sendDoneQueue' = sendDoneQueue
      BY <1>2, <2>2 DEF queuePacket, IsWaiting, qRest
    <3> QED
      BY <1>1, <2>2, <3>1, <3>2 DEF WaitingOK, Busy
  <2> QED
    BY <2>1, <2>2
<1>3. CASE SendNext
  <2>1. Busy = 1 /\ sendDoneQueue = 1 /\ waiting
    BY <1>1, <1>3 DEF SendNext, WaitingOK, Busy
  <2>2. CASE pendingMsgs = <<>>
    BY <1>1, <1>3, <2>1, <2>2 DEF SendNext, qRest, WaitingOK, Busy
  <2>3. CASE pendingMsgs # <<>>
    <3>1. Len(Append(sendQueue, Head(pendingMsgs))) = Len(sendQueue) + 1
      BY <1>1
    <3>2. /\ sendQueue' = Append(sendQueue, Head(pendingMsgs)) /\ waiting' = waiting
          /\ outPc' = outPc /\ sendDoneQueue' = sendDoneQueue - 1
      BY <1>3, <2>3 DEF SendNext, qRest
    <3> QED
      BY <1>1, <2>1, <3>1, <3>2 DEF WaitingOK, Busy
  <2> QED
    BY <2>2, <2>3
<1>4. CASE QueueQuits \/ QueueDrains
  BY <1>1, <1>4 DEF QueueQuits, QueueDrains, qRest, WaitingOK, Busy
<1>5. CASE TakeMsg
  <2>1. Len(Tail(sendQueue)) = Len(sendQueue) - 1
    BY <1>1, <1>5 DEF TakeMsg
  <2>2. /\ sendQueue' = Tail(sendQueue) /\ outPc = "run" /\ outPc' = "control"
        /\ UNCHANGED <<sendDoneQueue, waiting, pendingMsgs>>
    BY <1>5 DEF TakeMsg, oRest
  <2>3. Busy' = Busy /\ Busy >= 1
    <3>1. Len(sendQueue') = Len(sendQueue) - 1 /\ Len(sendQueue) >= 1
      BY <1>1, <1>5, <2>1, <2>2 DEF TakeMsg
    <3> QED
      BY <1>1, <2>2, <3>1 DEF Busy
  <2> QED
    BY <1>1, <2>2, <2>3 DEF WaitingOK
<1>6. CASE ControlThenWrite
  <2>1. /\ outPc \in {"control", "write"} /\ outPc' \in {"write", "signal", "failed"}
        /\ UNCHANGED <<sendQueue, sendDoneQueue, waiting, pendingMsgs>>
    BY <1>6 DEF ControlThenWrite, SendControl, WriteMessage, oRest
  <2> QED
    BY <1>1, <2>1 DEF WaitingOK, Busy
<1>7. CASE WriteDone
  BY <1>1, <1>7 DEF WriteDone, oRest, WaitingOK, Busy
<1>8. CASE WriteFailed \/ OutQuits
  BY <1>1, <1>8 DEF WriteFailed, OutQuits, oRest, WaitingOK, Busy
<1>9. CASE OutDrains
  BY <1>1, <1>9 DEF OutDrains, oRest, WaitingOK, Busy
<1>10. CASE ~QueueSteps /\ ~OutSteps
  <2>1. UNCHANGED betweenHandlers
    BY <1>10, OtherPeerSteps
  <2> QED
    BY <1>1, <2>1 DEF betweenHandlers, WaitingOK, Busy
<1> QED
  BY <1>2, <1>3, <1>4, <1>5, <1>6, <1>7, <1>8, <1>9, <1>10 DEF QueueSteps, OutSteps

(* A handler ends only after the peer was disconnected.                    *)
LEMMA QuitKept == ASSUME PeerConnInv, [PeerNext]_peerVars PROVE QuitOK'
<1> USE DEF PeerConnInv, PeerTypes, StateTypes, QuitOK
<1>1. quit => quit'
  <2>1. CASE UNCHANGED quit
    BY <2>1
  <2>2. CASE Disconnect \/ InEnds \/ StallTick
    BY <2>2 DEF Disconnect, InEnds, StallTick
  <2>3. CASE WriteMessage("signal")
    BY <2>3 DEF WriteMessage
  <2>4. ASSUME ~(Disconnect \/ InEnds \/ StallTick), ~WriteMessage("signal") PROVE UNCHANGED quit
    <3>1. CASE QueueSteps
      BY <3>1 DEF QueueSteps, queuePacket, SendNext, QueueQuits, QueueDrains, qRest
    <3>2. CASE TakeMsg \/ SendControl("write") \/ WriteDone \/ WriteFailed \/ OutQuits \/ OutDrains
      BY <3>2 DEF TakeMsg, SendControl, WriteDone, WriteFailed, OutQuits, OutDrains
    <3>3. CASE \/ Tell("received", "received", "start")
               \/ Tell("start", "other", "handled")
               \/ Tell("handled", "other", "read")
      BY <3>3 DEF Tell
    <3>4. CASE Woken \/ ReadAnswer \/ ReadFails \/ \E m \in Rejects : PushRejectMsg(m)
      BY <3>4 DEF Woken, ReadAnswer, ReadFails, PushRejectMsg
    <3>5. CASE \/ ControlMsg \/ StallQuits \/ UNCHANGED peerVars
               \/ \E m \in Msgs : QueueMessage(m) \/ CallerFindsConnected(m) \/ Answers(m)
      BY <3>5 DEF ControlMsg, StallQuits, QueueMessage, CallerFindsConnected, Answers, peerVars
    <3> QED
      BY <2>4, <3>1, <3>2, <3>3, <3>4, <3>5 DEF PeerNext, HandlerSteps, ControlThenWrite, QueueSteps
  <2> QED
    BY <2>1, <2>2, <2>3, <2>4
<1>2. queuePc' # "run" => quit' /\ pendingMsgs' = <<>>
  <2>1. CASE queuePacket \/ SendNext
    BY <2>1 DEF queuePacket, SendNext
  <2>2. CASE QueueQuits \/ QueueDrains
    BY <2>2 DEF QueueQuits, QueueDrains, qRest
  <2>3. CASE ~QueueSteps
    <3>1. UNCHANGED <<queuePc, pendingMsgs>>
      <4>1. CASE OutSteps
        BY <4>1 DEF OutSteps, TakeMsg, ControlThenWrite, SendControl, WriteMessage, WriteDone, WriteFailed,
                    OutQuits, OutDrains, oRest
      <4>2. CASE ~OutSteps
        BY <2>3, <4>2, OtherPeerSteps DEF betweenHandlers
      <4> QED
        BY <4>1, <4>2
    <3> QED
      BY <1>1, <3>1
  <2> QED
    BY <2>1, <2>2, <2>3 DEF QueueSteps
<1>3. outPc' \in {"failed", "drain", "done"} => quit'
  <2>1. CASE TakeMsg \/ SendControl("write") \/ WriteDone \/ WriteFailed
    BY <2>1 DEF TakeMsg, SendControl, WriteDone, WriteFailed
  <2>2. CASE WriteMessage("signal")
    BY <2>2 DEF WriteMessage
  <2>3. CASE OutQuits \/ OutDrains
    BY <2>3 DEF OutQuits, OutDrains
  <2>4. CASE ~OutSteps
    <3>1. UNCHANGED outPc
      <4>1. CASE QueueSteps
        BY <4>1 DEF QueueSteps, queuePacket, SendNext, QueueQuits, QueueDrains, qRest
      <4>2. CASE ~QueueSteps
        BY <2>4, <4>2, OtherPeerSteps DEF betweenHandlers
      <4> QED
        BY <4>1, <4>2
    <3> QED
      BY <1>1, <3>1
  <2> QED
    BY <2>1, <2>2, <2>3, <2>4 DEF OutSteps, ControlThenWrite
<1>4. inPc' = "done" => quit'
  <2>1. CASE InEnds
    BY <2>1 DEF InEnds
  <2>2. CASE \/ Tell("received", "received", "start")
             \/ Tell("start", "other", "handled")
             \/ Tell("handled", "other", "read")
    BY <2>2 DEF Tell
  <2>3. CASE Woken \/ ReadAnswer \/ ReadFails \/ \E m \in Rejects : PushRejectMsg(m)
    BY <2>3 DEF Woken, ReadAnswer, ReadFails, PushRejectMsg
  <2>4. CASE QueueSteps
    BY <1>1, <2>4 DEF QueueSteps, queuePacket, SendNext, QueueQuits, QueueDrains, qRest
  <2>5. CASE OutSteps
    BY <1>1, <2>5 DEF OutSteps, TakeMsg, ControlThenWrite, SendControl, WriteMessage, WriteDone, WriteFailed,
                      OutQuits, OutDrains, oRest
  <2>6. CASE \/ ControlMsg \/ StallQuits \/ StallTick \/ Disconnect \/ UNCHANGED peerVars
             \/ \E m \in Msgs : QueueMessage(m) \/ CallerFindsConnected(m) \/ Answers(m)
    BY <1>1, <2>6 DEF ControlMsg, StallQuits, StallTick, Disconnect, QueueMessage, CallerFindsConnected,
                      Answers, peerVars, ioVars, sRest
  <2> QED
    BY <2>1, <2>2, <2>3, <2>4, <2>5, <2>6 DEF PeerNext, HandlerSteps, QueueSteps, OutSteps
<1> QED
  BY <1>2, <1>3, <1>4

(* Until the peer is disconnected the messages that were written and those *)
(* that are on the way make up what was queued.                            *)
LEMMA LineKept == ASSUME PeerConnInv, [PeerNext]_peerVars PROVE LineOK'
<1> DEFINE Rest == sendQueue \o (pendingMsgs \o outputQueue)
<1>1. /\ outputQueue \in Seq(Msgs) /\ pendingMsgs \in Seq(Msgs) /\ sendQueue \in Seq(Msgs)
      /\ queued \in Seq(Msgs) /\ written \in Seq(Msgs)
      /\ LineOK /\ WaitingOK
  BY DEF PeerConnInv, PeerTypes, QueueTypes
<1>2. Unwritten \in Seq(Msgs)
  BY DEF Unwritten, PeerConnInv, PeerTypes, StateTypes, InHand
<1>3. pendingMsgs \o outputQueue \in Seq(Msgs) /\ Rest \in Seq(Msgs)
  BY <1>1
<1>4. /\ queued \in Seq(Msgs) /\ Unwritten \o Rest \in Seq(Msgs) /\ written \o (Unwritten \o Rest) \in Seq(Msgs)
  BY <1>1, <1>2, <1>3
<1>5. ASSUME NEW m \in Msgs, QueueMessage(m) PROVE LineOK'
  <2>1. /\ outputQueue' = Append(outputQueue, m) /\ queued' = Append(queued, m)
        /\ UNCHANGED <<quit, sendQueue, pendingMsgs, outPc, outMsg, written>>
    BY <1>5 DEF QueueMessage, ioVars
  <2>2. IsPrefix(written, queued')
    BY <1>1, <2>1, PrefixGrows DEF LineOK
  <2>3. ASSUME queued = written \o (Unwritten \o Rest)
        PROVE  queued' = written \o (Unwritten \o (sendQueue \o (pendingMsgs \o Append(outputQueue, m))))
    <3>1. written \o (Unwritten \o (sendQueue \o (pendingMsgs \o Append(outputQueue, m))))
            = Append(written \o (Unwritten \o (sendQueue \o (pendingMsgs \o outputQueue))), m)
      <4>1. pendingMsgs \o Append(outputQueue, m) = Append(pendingMsgs \o outputQueue, m)
        BY <1>1, <1>5, JoinEnd
      <4>2. sendQueue \o Append(pendingMsgs \o outputQueue, m) = Append(sendQueue \o (pendingMsgs \o outputQueue), m)
        BY <1>1, <1>3, <1>5, JoinEnd, SMTT(60)
      <4> HIDE DEF Rest
      <4>3. Unwritten \o Append(Rest, m) = Append(Unwritten \o Rest, m)
        BY <1>2, <1>3, <1>5, JoinEnd
      <4>4. written \o Append(Unwritten \o Rest, m) = Append(written \o (Unwritten \o Rest), m)
        BY <1>1, <1>4, <1>5, JoinEnd, SMTT(60)
      <4> USE DEF Rest
      <4> QED
        BY <4>1, <4>2, <4>3, <4>4, Zenon
    <3> QED
      BY <2>1, <2>3, <3>1
  <2> QED
    BY <1>1, <2>1, <2>2, <2>3 DEF LineOK, Unwritten
<1>6. ASSUME UNCHANGED <<quit, outPc, outMsg, written, queued>>,
             sendQueue' \o (pendingMsgs' \o outputQueue') = Rest
      PROVE  LineOK'
  BY <1>1, <1>6 DEF LineOK, Unwritten
<1>7. CASE queuePacket
  <2>1. outputQueue # <<>> /\ outputQueue' = Tail(outputQueue) /\ UNCHANGED <<quit, outPc, outMsg, written, queued>>
    BY <1>7 DEF queuePacket, qRest
  <2>2. Head(outputQueue) \in Msgs /\ Tail(outputQueue) \in Seq(Msgs)
    BY <1>1, <2>1
  <2>3. outputQueue = <<Head(outputQueue)>> \o Tail(outputQueue)
    BY <1>1, <2>1, JoinTail
  <2>4. CASE waiting
    <3>1. pendingMsgs' = Append(pendingMsgs, Head(outputQueue)) /\ sendQueue' = sendQueue
      BY <1>7, <2>4 DEF queuePacket, IsWaiting
    <3>2. Append(pendingMsgs, Head(outputQueue)) \o Tail(outputQueue) = pendingMsgs \o outputQueue
      BY <1>1, <2>2, <2>3, JoinFirst, SMTT(60)
    <3> QED
      BY <1>6, <2>1, <3>1, <3>2
  <2>5. CASE ~waiting
    <3>1. /\ pendingMsgs' = <<>> /\ pendingMsgs = <<>> /\ sendQueue = <<>>
          /\ sendQueue' = Append(sendQueue, Head(outputQueue))
      BY <1>1, <1>7, <2>5 DEF queuePacket, IsWaiting, WaitingOK
    <3>2. sendQueue' = <<Head(outputQueue)>>
      BY <3>1
    <3>3. <<>> \o Tail(outputQueue) = Tail(outputQueue) /\ <<>> \o outputQueue = outputQueue
      BY <1>1, <2>2, JoinEmpty
    <3> QED
      BY <1>6, <2>1, <2>3, <3>1, <3>2, <3>3
  <2> QED
    BY <2>4, <2>5
<1>8. CASE SendNext
  <2>1. UNCHANGED <<quit, outPc, outMsg, written, queued, outputQueue>>
    BY <1>8 DEF SendNext, qRest
  <2>2. CASE pendingMsgs = <<>>
    <3>1. UNCHANGED <<sendQueue, pendingMsgs>>
      BY <1>8, <2>2 DEF SendNext
    <3> QED
      BY <1>6, <2>1, <3>1
  <2>3. CASE pendingMsgs # <<>>
    <3>1. /\ sendQueue' = Append(sendQueue, Head(pendingMsgs)) /\ pendingMsgs' = Tail(pendingMsgs)
          /\ Len(sendQueue) < 1
      BY <1>8, <2>3 DEF SendNext
    <3>2. sendQueue = <<>>
      BY <1>1, <3>1
    <3>5. sendQueue' = <<Head(pendingMsgs)>>
      BY <3>1, <3>2
    <3>3. <<Head(pendingMsgs)>> \o (Tail(pendingMsgs) \o outputQueue) = pendingMsgs \o outputQueue
      BY <1>1, <2>3, JoinTail
    <3>4. <<>> \o (pendingMsgs \o outputQueue) = pendingMsgs \o outputQueue
      BY <1>3, JoinEmpty
    <3> QED
      BY <1>6, <2>1, <3>1, <3>2, <3>3, <3>4, <3>5
  <2> QED
    BY <2>2, <2>3
<1>9. CASE TakeMsg
  <2>1. /\ sendQueue # <<>> /\ sendQueue' = Tail(sendQueue) /\ outMsg' = Head(sendQueue)
        /\ outPc = "run" /\ outPc' = "control"
        /\ UNCHANGED <<quit, written, queued, pendingMsgs, outputQueue>>
    BY <1>9 DEF TakeMsg, oRest
  <2>2. Unwritten = <<>> /\ Unwritten' = <<Head(sendQueue)>>
    BY <2>1 DEF Unwritten
  <2>3. <<Head(sendQueue)>> \o (Tail(sendQueue) \o (pendingMsgs \o outputQueue)) = Rest
    BY <1>1, <1>3, <2>1, JoinTail
  <2>4. <<>> \o Rest = Rest
    BY <1>3, JoinEmpty
  <2> QED
    BY <1>1, <2>1, <2>2, <2>3, <2>4 DEF LineOK
<1>10. CASE outPc = "write" /\ WriteMessage("signal")
  <2>1. UNCHANGED <<sendQueue, queued, pendingMsgs, outputQueue, outMsg>>
    BY <1>10 DEF WriteMessage, oRest
  <2>2. CASE quit' /\ written' = written
    BY <1>1, <2>1, <2>2 DEF LineOK
  <2>3. CASE ~quit /\ ~quit' /\ outPc' = "signal" /\ written' = Append(written, outMsg)
    <3>1. Unwritten = <<outMsg>> /\ Unwritten' = <<>> /\ outMsg \in Msgs
      BY <1>10, <2>3 DEF Unwritten, PeerConnInv, PeerTypes, StateTypes, InHand
    <3>2. <<>> \o Rest = Rest /\ written' \o Rest = written \o (<<outMsg>> \o Rest)
      <4> HIDE DEF Rest
      <4>1. <<>> \o Rest = Rest
        BY <1>3, JoinEmpty
      <4>2. Append(written, outMsg) \o Rest = written \o (<<outMsg>> \o Rest)
        <5>1. written \in Seq(Msgs) /\ Rest \in Seq(Msgs) /\ outMsg \in Msgs
          BY <1>1, <1>3, <3>1
        <5> QED
          BY <5>1, JoinFirst, ZenonT(40)
      <4> QED
        BY <2>3, <4>1, <4>2
    <3>3. queued' = written' \o (Unwritten' \o (sendQueue' \o (pendingMsgs' \o outputQueue')))
      BY <1>1, <2>1, <2>3, <3>1, <3>2 DEF LineOK
    <3>4. queued' = written' \o Rest /\ written' \in Seq(Msgs)
      BY <1>1, <2>1, <2>3, <3>1, <3>2, <3>3, SMTT(60)
    <3>5. IsPrefix(written', queued')
      BY <1>3, <3>1, <3>4, PrefixGrows
    <3> QED
      BY <3>3, <3>5 DEF LineOK
  <2> QED
    BY <1>10, <2>2, <2>3 DEF WriteMessage
<1>11. ASSUME quit', UNCHANGED <<written, queued>> PROVE LineOK'
  BY <1>1, <1>11 DEF LineOK
<1>12. CASE QueueQuits \/ QueueDrains
  BY <1>11, <1>12 DEF QueueQuits, QueueDrains, qRest, PeerConnInv, QuitOK
<1>13. CASE (outPc = "control" /\ SendControl("write")) \/ WriteDone \/ WriteFailed \/ OutQuits
  <2>1. UNCHANGED <<quit, written, queued, sendQueue, pendingMsgs, outputQueue>>
    BY <1>13 DEF SendControl, WriteDone, WriteFailed, OutQuits, oRest
  <2>2. Unwritten' = Unwritten
    BY <1>13 DEF SendControl, WriteDone, WriteFailed, OutQuits, oRest, Unwritten
  <2> QED
    BY <1>1, <2>1, <2>2 DEF LineOK
<1>14. CASE OutDrains
  BY <1>11, <1>14 DEF OutDrains, oRest, PeerConnInv, QuitOK
<1>15. CASE InEnds \/ StallTick \/ Disconnect
  BY <1>11, <1>15 DEF InEnds, StallTick, Disconnect, iRest, sRest
<1>16. CASE \/ Tell("received", "received", "start")
            \/ Tell("start", "other", "handled")
            \/ Tell("handled", "other", "read")
            \/ Woken \/ ReadAnswer \/ ReadFails \/ \E m \in Rejects : PushRejectMsg(m)
  <2>1. UNCHANGED <<quit, iRest>>
    BY <1>16 DEF Tell, Woken, ReadAnswer, ReadFails, PushRejectMsg
  <2> QED
    BY <1>6, <2>1 DEF iRest
<1>17. CASE \/ ControlMsg \/ StallQuits \/ UNCHANGED peerVars
            \/ \E m \in Msgs : CallerFindsConnected(m) \/ Answers(m)
  BY <1>6, <1>17 DEF ControlMsg, StallQuits, peerVars, sRest, CallerFindsConnected, Answers, ioVars
<1> QED
  BY <1>5, <1>7, <1>8, <1>9, <1>10, <1>12, <1>13, <1>14, <1>15, <1>16, <1>17
  DEF PeerNext, HandlerSteps, ControlThenWrite

(* Messages leave the way as they are signalled.                           *)
LEMMA SignalledAsTheyLeave ==
    ASSUME PeerConnInv, NEW G, Signal(G), G \subseteq OnTheWay, OnTheWay' = OnTheWay \ G,
           UNCHANGED <<callers, queued>>
    PROVE  SignalsOK'
<1>1. /\ signalled \in [Msgs -> Nat] /\ SignalsOK /\ OnTheWay \subseteq Elements(queued)
      /\ callers \cap Elements(queued) = {} /\ Rejects \subseteq Msgs
      /\ Elements(queued)' = Elements(queued) /\ callers \subseteq Msgs
  BY DEF PeerConnInv, PeerTypes, StateTypes, PlacesOK, Elements, Msgs
<1>2. \A m \in Msgs : signalled'[m] = IF m \in G \cap Rejects THEN signalled[m] + 1 ELSE signalled[m]
  BY DEF Signal
<1>3. OnTheWay \subseteq Msgs
  <2>1. Elements(outputQueue) \subseteq Msgs /\ Elements(pendingMsgs) \subseteq Msgs /\ Elements(sendQueue) \subseteq Msgs
    BY DEF PeerConnInv, PeerTypes, QueueTypes, Elements
  <2> QED
    BY <2>1 DEF OnTheWay, PeerConnInv, PeerTypes, StateTypes
<1>4. \A m \in Msgs : signalled'[m] <= 1
  BY <1>1, <1>2 DEF SignalsOK
<1>5. \A m \in callers \cup OnTheWay' : signalled'[m] = 0
  BY <1>1, <1>2, <1>3 DEF SignalsOK
<1>6. ASSUME NEW m \in Rejects, m \in Elements(queued), signalled'[m] = 0 PROVE m \in OnTheWay'
  BY <1>1, <1>2, <1>6 DEF SignalsOK
<1> QED
  BY <1>1, <1>4, <1>5, <1>6 DEF SignalsOK

(* Messages move on without a signal.                                      *)
LEMMA WayMoved ==
    ASSUME PeerConnInv, UNCHANGED <<callers, queued, signalled>>, OnTheWay' = OnTheWay
    PROVE  SignalsOK'
<1>1. Elements(queued)' = Elements(queued)
  BY DEF Elements
<1> QED
  BY <1>1 DEF PeerConnInv, SignalsOK

(* A message is in one place, and is signalled when it leaves the last.    *)
LEMMA PlacesKept == ASSUME PeerConnInv, [PeerNext]_peerVars PROVE (PlacesOK /\ SignalsOK)'
<1>1. /\ outputQueue \in Seq(Msgs) /\ pendingMsgs \in Seq(Msgs) /\ sendQueue \in Seq(Msgs) /\ queued \in Seq(Msgs)
      /\ signalled \in [Msgs -> Nat] /\ callers \subseteq Msgs
      /\ PlacesOK /\ SignalsOK /\ WaitingOK /\ QuitOK
  BY DEF PeerConnInv, PeerTypes, QueueTypes, StateTypes
<1>2. ASSUME UNCHANGED <<outputQueue, pendingMsgs, sendQueue, outPc, outMsg, callers, queued, signalled>>
      PROVE  (PlacesOK /\ SignalsOK)'
  <2>1. InHand' = InHand /\ OnTheWay' = OnTheWay /\ Elements(queued)' = Elements(queued)
    BY <1>2 DEF InHand, OnTheWay, Elements
  <2> QED
    BY <1>1, <1>2, <2>1 DEF PlacesOK, SignalsOK
<1>3. ASSUME NEW m \in Msgs, QueueMessage(m) PROVE (PlacesOK /\ SignalsOK)'
  <2>1. /\ m \in callers /\ callers' = callers \ {m}
        /\ outputQueue' = Append(outputQueue, m) /\ queued' = Append(queued, m)
        /\ UNCHANGED <<sendQueue, pendingMsgs, outPc, outMsg, signalled>>
    BY <1>3 DEF QueueMessage, ioVars
  <2>2. /\ Elements(Append(outputQueue, m)) = Elements(outputQueue) \cup {m}
        /\ Distinct(outputQueue) /\ m \notin Elements(outputQueue) => Distinct(Append(outputQueue, m))
        /\ Elements(Append(queued, m)) = Elements(queued) \cup {m}
    BY <1>1, QueueAppend
  <2>3. InHand' = InHand /\ OnTheWay' = OnTheWay \cup {m}
    BY <2>1, <2>2 DEF InHand, OnTheWay, Elements
  <2>4. m \notin Elements(queued) /\ m \notin OnTheWay /\ signalled[m] = 0
    BY <1>1, <2>1 DEF PlacesOK, SignalsOK
  <2>5. m \notin Elements(outputQueue) \cup Elements(pendingMsgs) \cup Elements(sendQueue) \cup InHand
    BY <2>4 DEF OnTheWay
  <2>6. PlacesOK'
    BY <1>1, <2>1, <2>2, <2>3, <2>4, <2>5 DEF PlacesOK
  <2>7. SignalsOK'
    BY <1>1, <2>1, <2>2, <2>3, <2>4 DEF SignalsOK
  <2> QED
    BY <2>6, <2>7
<1>4. CASE queuePacket
  <2>1. outputQueue # <<>> /\ outputQueue' = Tail(outputQueue) /\ UNCHANGED <<outPc, outMsg, callers, queued, signalled>>
    BY <1>4 DEF queuePacket, qRest
  <2> DEFINE h == Head(outputQueue)
  <2>2. /\ h \in Msgs /\ Elements(outputQueue) = Elements(Tail(outputQueue)) \cup {h}
        /\ Distinct(Tail(outputQueue)) /\ h \notin Elements(Tail(outputQueue))
    BY <1>1, <2>1, QueueTail DEF PlacesOK
  <2>3. InHand' = InHand /\ Elements(queued)' = Elements(queued)
    BY <2>1 DEF InHand, Elements
  <2> HIDE DEF h
  <2>4. CASE waiting
    <3>1. pendingMsgs' = Append(pendingMsgs, h) /\ sendQueue' = sendQueue
      BY <1>4, <2>4 DEF queuePacket, IsWaiting, h
    <3>2. /\ Elements(Append(pendingMsgs, h)) = Elements(pendingMsgs) \cup {h}
          /\ Distinct(pendingMsgs) /\ h \notin Elements(pendingMsgs) => Distinct(Append(pendingMsgs, h))
      BY <1>1, <2>2, QueueAppend
    <3>3. /\ Elements(outputQueue)' = Elements(outputQueue) \ {h} /\ Elements(pendingMsgs)' = Elements(pendingMsgs) \cup {h}
          /\ Elements(sendQueue)' = Elements(sendQueue)
      BY <2>1, <2>2, <3>1, <3>2 DEF Elements
    <3>4. OnTheWay' = OnTheWay
      BY <2>2, <2>3, <3>3 DEF OnTheWay
    <3>5. PlacesOK'
      BY <1>1, <2>1, <2>2, <2>3, <3>1, <3>2, <3>3, <3>4 DEF PlacesOK
    <3> QED
      BY <2>1, <3>4, <3>5, WayMoved
  <2>5. CASE ~waiting
    <3>1. pendingMsgs' = pendingMsgs /\ sendQueue' = Append(sendQueue, h) /\ sendQueue = <<>>
      BY <1>1, <1>4, <2>5 DEF queuePacket, IsWaiting, WaitingOK, Busy, h
    <3>2. Elements(Append(sendQueue, h)) = Elements(sendQueue) \cup {h}
      BY <1>1, <2>2, QueueAppend
    <3>3. /\ Elements(outputQueue)' = Elements(outputQueue) \ {h} /\ Elements(sendQueue)' = Elements(sendQueue) \cup {h}
          /\ Elements(pendingMsgs)' = Elements(pendingMsgs)
      BY <2>1, <2>2, <3>1, <3>2 DEF Elements
    <3>4. OnTheWay' = OnTheWay
      BY <2>2, <2>3, <3>3 DEF OnTheWay
    <3>5. PlacesOK'
      BY <1>1, <2>1, <2>2, <2>3, <3>1, <3>2, <3>3, <3>4 DEF PlacesOK
    <3> QED
      BY <2>1, <3>4, <3>5, WayMoved
  <2> QED
    BY <2>4, <2>5
<1>5. CASE SendNext
  <2>1. UNCHANGED <<outPc, outMsg, callers, queued, outputQueue, signalled>>
    BY <1>5 DEF SendNext, qRest
  <2>2. CASE pendingMsgs = <<>>
    <3>1. UNCHANGED <<sendQueue, pendingMsgs>>
      BY <1>5, <2>2 DEF SendNext
    <3> QED
      BY <1>2, <2>1, <3>1
  <2>3. CASE pendingMsgs # <<>>
    <3> DEFINE h == Head(pendingMsgs)
    <3>1. sendQueue' = Append(sendQueue, h) /\ pendingMsgs' = Tail(pendingMsgs)
      BY <1>5, <2>3 DEF SendNext
    <3>2. /\ h \in Msgs /\ Elements(pendingMsgs) = Elements(Tail(pendingMsgs)) \cup {h}
          /\ Distinct(Tail(pendingMsgs)) /\ h \notin Elements(Tail(pendingMsgs))
      BY <1>1, <2>3, QueueTail DEF PlacesOK
    <3> HIDE DEF h
    <3>3. Elements(Append(sendQueue, h)) = Elements(sendQueue) \cup {h}
      BY <1>1, <3>2, QueueAppend
    <3>4. /\ Elements(pendingMsgs)' = Elements(pendingMsgs) \ {h} /\ Elements(sendQueue)' = Elements(sendQueue) \cup {h}
          /\ Elements(outputQueue)' = Elements(outputQueue) /\ Elements(queued)' = Elements(queued) /\ InHand' = InHand
      BY <2>1, <3>1, <3>2, <3>3 DEF Elements, InHand
    <3>5. OnTheWay' = OnTheWay
      BY <3>2, <3>4 DEF OnTheWay
    <3>6. PlacesOK'
      BY <1>1, <2>1, <3>1, <3>2, <3>4, <3>5 DEF PlacesOK
    <3> QED
      BY <2>1, <3>5, <3>6, WayMoved
  <2> QED
    BY <2>2, <2>3
<1>6. CASE TakeMsg
  <2> DEFINE h == Head(sendQueue)
  <2>1. /\ sendQueue # <<>> /\ sendQueue' = Tail(sendQueue) /\ outMsg' = h /\ outPc = "run" /\ outPc' = "control"
        /\ UNCHANGED <<outputQueue, pendingMsgs, callers, queued, signalled>>
    BY <1>6 DEF TakeMsg, oRest
  <2>2. Len(sendQueue) \in Nat /\ Len(sendQueue) <= 1
    BY <1>1 DEF WaitingOK, Busy, PeerConnInv, PeerTypes, StateTypes
  <2>3. Elements(sendQueue) = {h} /\ Elements(Tail(sendQueue)) = {}
    BY <1>1, <2>1, <2>2 DEF Elements
  <2>4. /\ InHand = {} /\ InHand' = {h} /\ Elements(sendQueue)' = {}
        /\ Elements(outputQueue)' = Elements(outputQueue) /\ Elements(pendingMsgs)' = Elements(pendingMsgs)
        /\ Elements(queued)' = Elements(queued)
    BY <2>1, <2>3 DEF InHand, Elements
  <2> HIDE DEF h
  <2>5. OnTheWay' = OnTheWay
    BY <2>3, <2>4 DEF OnTheWay
  <2>6. PlacesOK'
    BY <1>1, <2>1, <2>3, <2>4, <2>5 DEF PlacesOK
  <2> QED
    BY <2>1, <2>5, <2>6, WayMoved
<1>7. CASE ControlThenWrite
  <2>1. /\ UNCHANGED <<outputQueue, pendingMsgs, sendQueue, callers, queued, signalled, outMsg>>
        /\ outPc \in {"control", "write"} /\ outPc' \in {"write", "signal", "failed"}
    BY <1>7 DEF ControlThenWrite, SendControl, WriteMessage, oRest
  <2>2. InHand' = InHand /\ Elements(queued)' = Elements(queued)
    BY <2>1 DEF InHand, Elements
  <2>3. OnTheWay' = OnTheWay
    BY <2>1, <2>2 DEF OnTheWay, Elements
  <2>4. PlacesOK'
    BY <1>1, <2>1, <2>2, <2>3 DEF PlacesOK
  <2> QED
    BY <2>1, <2>3, <2>4, WayMoved
<1>8. CASE WriteDone \/ WriteFailed
  <2>1. /\ UNCHANGED <<outputQueue, pendingMsgs, sendQueue, callers, queued>>
        /\ outPc \in {"signal", "failed"} /\ outPc' = "run" /\ Signal({outMsg})
    BY <1>8 DEF WriteDone, WriteFailed, Wakes, oRest
  <2>2. /\ InHand = {outMsg} /\ InHand' = {} /\ Elements(queued)' = Elements(queued)
        /\ Elements(outputQueue)' = Elements(outputQueue) /\ Elements(pendingMsgs)' = Elements(pendingMsgs)
        /\ Elements(sendQueue)' = Elements(sendQueue)
    BY <2>1 DEF InHand, Elements
  <2>3. OnTheWay' = OnTheWay \ {outMsg} /\ {outMsg} \subseteq OnTheWay
    BY <1>1, <2>2 DEF OnTheWay, PlacesOK
  <2>4. PlacesOK'
    BY <1>1, <2>1, <2>2, <2>3 DEF PlacesOK
  <2> QED
    BY <2>1, <2>3, <2>4, SignalledAsTheyLeave
<1>9. CASE OutQuits
  <2>1. /\ UNCHANGED <<outputQueue, pendingMsgs, sendQueue, callers, queued, signalled, outMsg>>
        /\ outPc = "run" /\ outPc' = "drain"
    BY <1>9 DEF OutQuits, oRest
  <2>2. InHand' = InHand /\ Elements(queued)' = Elements(queued)
    BY <2>1 DEF InHand, Elements
  <2>3. OnTheWay' = OnTheWay
    BY <2>1, <2>2 DEF OnTheWay, Elements
  <2>4. PlacesOK'
    BY <1>1, <2>1, <2>2, <2>3 DEF PlacesOK
  <2> QED
    BY <2>1, <2>3, <2>4, WayMoved
<1>10. CASE OutDrains
  <2>1. /\ UNCHANGED <<outputQueue, pendingMsgs, callers, queued>>
        /\ sendQueue' = <<>> /\ outPc = "drain" /\ outPc' = "done" /\ Signal(Elements(sendQueue))
    BY <1>10, SameElements DEF OutDrains, oRest
  <2>2. /\ InHand = {} /\ InHand' = {} /\ Elements(queued)' = Elements(queued) /\ Elements(sendQueue)' = {}
        /\ Elements(outputQueue)' = Elements(outputQueue) /\ Elements(pendingMsgs)' = Elements(pendingMsgs)
    BY <2>1, NothingQueued DEF InHand, Elements
  <2>3. OnTheWay' = OnTheWay \ Elements(sendQueue) /\ Elements(sendQueue) \subseteq OnTheWay
    BY <1>1, <2>2 DEF OnTheWay, PlacesOK
  <2>4. PlacesOK'
    BY <1>1, <2>1, <2>2, <2>3 DEF PlacesOK
  <2> QED
    BY <2>1, <2>3, <2>4, SignalledAsTheyLeave
<1>11. CASE QueueQuits
  <2>1. /\ UNCHANGED <<outputQueue, sendQueue, callers, queued, outPc, outMsg>>
        /\ pendingMsgs' = <<>> /\ Signal(Elements(pendingMsgs))
    BY <1>11, SameElements DEF QueueQuits, qRest
  <2>2. /\ InHand' = InHand /\ Elements(queued)' = Elements(queued) /\ Elements(pendingMsgs)' = {} /\ Distinct(pendingMsgs')
        /\ Elements(outputQueue)' = Elements(outputQueue) /\ Elements(sendQueue)' = Elements(sendQueue)
    BY <2>1, NothingQueued DEF InHand, Elements, Distinct
  <2>3. OnTheWay' = OnTheWay \ Elements(pendingMsgs) /\ Elements(pendingMsgs) \subseteq OnTheWay
    BY <1>1, <2>2 DEF OnTheWay, PlacesOK
  <2>4. PlacesOK'
    BY <1>1, <2>1, <2>2, <2>3 DEF PlacesOK
  <2> QED
    BY <2>1, <2>3, <2>4, SignalledAsTheyLeave
<1>12. CASE QueueDrains
  <2>1. UNCHANGED <<pendingMsgs, sendQueue, callers, queued, outPc, outMsg>>
    BY <1>12 DEF QueueDrains, qRest
  <2>2. CASE outputQueue = <<>>
    <3>1. UNCHANGED <<outputQueue, signalled>>
      BY <1>12, <2>2 DEF QueueDrains
    <3> QED
      BY <1>2, <2>1, <3>1
  <2>3. CASE outputQueue # <<>>
    <3> DEFINE h == Head(outputQueue)
    <3>1. outputQueue' = Tail(outputQueue) /\ Signal({h})
      BY <1>12, <2>3 DEF QueueDrains
    <3>2. /\ Elements(outputQueue) = Elements(Tail(outputQueue)) \cup {h}
          /\ Distinct(Tail(outputQueue)) /\ h \notin Elements(Tail(outputQueue))
      BY <1>1, <2>3, QueueTail DEF PlacesOK
    <3> HIDE DEF h
    <3>3. /\ InHand' = InHand /\ Elements(queued)' = Elements(queued) /\ Elements(pendingMsgs)' = Elements(pendingMsgs)
          /\ Elements(sendQueue)' = Elements(sendQueue) /\ Elements(outputQueue)' = Elements(outputQueue) \ {h}
      BY <2>1, <3>1, <3>2 DEF InHand, Elements
    <3>4. OnTheWay' = OnTheWay \ {h} /\ {h} \subseteq OnTheWay
      BY <1>1, <3>2, <3>3 DEF OnTheWay, PlacesOK
    <3>5. PlacesOK'
      BY <1>1, <2>1, <3>1, <3>2, <3>3, <3>4 DEF PlacesOK
    <3> QED
      BY <2>1, <3>1, <3>4, <3>5, SignalledAsTheyLeave
  <2> QED
    BY <2>2, <2>3
<1>13. ASSUME NEW m \in Msgs, FindsConnected(m),
              UNCHANGED <<outputQueue, pendingMsgs, sendQueue, outPc, outMsg, queued, signalled>>
       PROVE  (PlacesOK /\ SignalsOK)'
  <2>1. m \notin Elements(queued) /\ signalled[m] = 0 /\ callers' = callers \cup {m}
    BY <1>1, <1>13, SameElements DEF FindsConnected, Sent
  <2>2. InHand' = InHand /\ OnTheWay' = OnTheWay /\ Elements(queued)' = Elements(queued)
    BY <1>13 DEF InHand, OnTheWay, Elements
  <2> QED
    BY <1>1, <1>13, <2>1, <2>2 DEF PlacesOK, SignalsOK
<1>14. ASSUME NEW m \in Msgs, CallerFindsConnected(m) PROVE (PlacesOK /\ SignalsOK)'
  <2>1. FindsConnected(m) /\ UNCHANGED <<outputQueue, pendingMsgs, sendQueue, outPc, outMsg, queued, signalled>>
    BY <1>14 DEF CallerFindsConnected, ioVars
  <2> QED
    BY <1>13, <2>1
<1>15. ASSUME NEW m \in Rejects, PushRejectMsg(m) PROVE (PlacesOK /\ SignalsOK)'
  <2>1. m \in Msgs /\ UNCHANGED <<outputQueue, pendingMsgs, sendQueue, outPc, outMsg, queued>> /\ ~Sent(m)
    BY <1>15 DEF PushRejectMsg, iRest, Msgs
  <2>2. CASE ~quit
    <3>1. FindsConnected(m) /\ UNCHANGED signalled
      BY <1>15, <2>2 DEF PushRejectMsg, FindsConnected
    <3> QED
      BY <1>13, <2>1, <3>1
  <2>3. CASE quit
    <3>1. Signal({m}) /\ callers' = callers
      BY <1>15, <2>3 DEF PushRejectMsg
    <3>2. InHand' = InHand /\ OnTheWay' = OnTheWay /\ Elements(queued)' = Elements(queued)
      BY <2>1 DEF InHand, OnTheWay, Elements
    <3>3. PlacesOK'
      BY <1>1, <2>1, <3>1, <3>2 DEF PlacesOK
    <3>4. m \notin Elements(queued) /\ m \notin callers /\ signalled[m] = 0 /\ m \notin OnTheWay
      BY <1>1, <2>1, SameElements DEF Sent, PlacesOK
    <3>5. \A k \in Msgs : signalled'[k] = IF k = m THEN 1 ELSE signalled[k]
      BY <1>1, <3>1, <3>4 DEF Signal
    <3>6. OnTheWay \subseteq Msgs
      <4>1. OnTheWay \subseteq Elements(queued) /\ Elements(queued) \subseteq Msgs
        BY <1>1 DEF PlacesOK, Elements
      <4> QED
        BY <4>1
    <3>7. \A k \in Msgs : signalled'[k] <= 1
      <4>1. \A k \in Msgs : signalled[k] <= 1
        BY <1>1 DEF SignalsOK
      <4> QED
        BY <3>5, <4>1
    <3>8. \A k \in callers \cup OnTheWay : signalled'[k] = 0
      BY <1>1, <3>4, <3>5, <3>6 DEF SignalsOK
    <3>9. \A k \in Rejects : k \in Elements(queued) /\ signalled'[k] = 0 => k \in OnTheWay
      <4>1. Rejects \subseteq Msgs
        BY DEF Msgs
      <4> QED
        BY <1>1, <3>4, <3>5, <4>1 DEF SignalsOK
    <3>10. SignalsOK'
      BY <3>1, <3>2, <3>7, <3>8, <3>9 DEF SignalsOK
    <3> QED
      BY <3>3, <3>10
  <2> QED
    BY <2>2, <2>3
<1>16. CASE \/ Tell("received", "received", "start")
            \/ Tell("start", "other", "handled")
            \/ Tell("handled", "other", "read")
            \/ Woken \/ InEnds \/ ReadAnswer \/ ReadFails
  <2>1. UNCHANGED <<callers, signalled, iRest>>
    BY <1>16 DEF Tell, Woken, InEnds, ReadAnswer, ReadFails
  <2> QED
    BY <1>2, <2>1 DEF iRest
<1>17. CASE ControlMsg \/ StallTick \/ StallQuits
  BY <1>2, <1>17 DEF ControlMsg, StallTick, StallQuits, sRest
<1>18. CASE Disconnect \/ UNCHANGED peerVars \/ \E m \in Msgs : Answers(m)
  BY <1>2, <1>18 DEF Disconnect, peerVars, Answers, ioVars
<1> QED
  BY <1>3, <1>4, <1>5, <1>6, <1>7, <1>8, <1>9, <1>10, <1>11, <1>12, <1>14, <1>15, <1>16, <1>17, <1>18
  DEF PeerNext, HandlerSteps

(* stallHandler keeps a deadline only while an answer is due.              *)
LEMMA DeadlineKept == ASSUME PeerConnInv, [PeerNext]_peerVars PROVE DeadlineOK'
<1>1. /\ stallControl \in Seq({"sent", "received", "other"}) /\ Len(stallControl) <= 1
      /\ answers \in Nat /\ quit \in BOOLEAN /\ DeadlineOK /\ QuitOK /\ QuitOK'
      /\ outMsg \in Msgs \/ outPc \notin {"control", "write", "signal", "failed"}
  BY QuitKept DEF PeerConnInv, PeerTypes, ControlTypes, StateTypes, InHand
<1> DEFINE Has(what) == what \in Elements(stallControl)
<1>2. /\ DeadlineOK <=> (pendingResponse \/ Has("sent") => AnswerDue)
      /\ AnswerDue <=> \/ asked # {} \/ answers > 0 \/ inPc = "received" \/ Has("received")
                       \/ outPc = "write" /\ outMsg \in Requests
                       \/ quit
  BY DEF DeadlineOK, AnswerDue
<1>3. Has("sent")' <=> "sent" \in Elements(stallControl')
  BY DEF Elements
<1>4. /\ DeadlineOK' <=> (pendingResponse' \/ Has("sent")' => AnswerDue')
      /\ AnswerDue' <=> \/ asked' # {} \/ answers' > 0 \/ inPc' = "received" \/ Has("received")'
                        \/ outPc' = "write" /\ outMsg' \in Requests
                        \/ quit'
  BY DEF DeadlineOK, AnswerDue
<1>5. ASSUME NEW what \in {"sent", "received", "other"}, Len(stallControl) < 1, stallControl' = Append(stallControl, what)
      PROVE  /\ ~Has("sent") /\ ~Has("received")
             /\ Has("sent")' <=> (what = "sent")
             /\ Has("received")' <=> (what = "received")
  <2>1. stallControl = <<>>
    BY <1>1, <1>5
  <2>2. Elements(stallControl) = {} /\ Elements(Append(stallControl, what)) = {what}
    <3>1. Elements(Append(stallControl, what)) = Elements(stallControl) \cup {what}
      BY <1>1, QueueAppend
    <3>2. Elements(stallControl) = {}
      BY <2>1, NothingQueued
    <3> QED
      BY <3>1, <3>2
  <2>3. Elements(stallControl') = {what}
    BY <1>5, <2>2
  <2> QED
    BY <2>2, <2>3, <1>3 DEF Elements
<1> HIDE DEF Has
<1>6. ASSUME quit' PROVE DeadlineOK'
  BY <1>4, <1>6
<1>7. ASSUME stallControl' = stallControl, pendingResponse' = pendingResponse, AnswerDue => AnswerDue' PROVE DeadlineOK'
  <2>1. Has("sent")' <=> Has("sent")
    BY <1>7 DEF Has, Elements
  <2> QED
    BY <1>1, <1>2, <1>4, <1>7, <2>1
<1>8. ASSUME stallControl' = stallControl PROVE Has("received")' <=> Has("received")
  BY <1>8 DEF Has, Elements
<1>9. ASSUME UNCHANGED <<stallControl, asked, answers, inPc, outPc, outMsg, quit, pendingResponse>> PROVE DeadlineOK'
  BY <1>2, <1>4, <1>7, <1>8, <1>9
<1>10. CASE QueueSteps
  BY <1>9, <1>10 DEF QueueSteps, queuePacket, SendNext, QueueQuits, QueueDrains, qRest, remoteVars
<1>11. CASE TakeMsg \/ WriteDone \/ WriteFailed \/ OutQuits \/ OutDrains
  <2>1. UNCHANGED <<stallControl, asked, answers, inPc, quit, pendingResponse>> /\ outPc # "write"
    BY <1>11 DEF TakeMsg, WriteDone, WriteFailed, OutQuits, OutDrains, oRest, remoteVars
  <2>2. Has("received")' <=> Has("received")
    BY <1>8, <2>1
  <2> QED
    BY <1>2, <1>4, <1>7, <2>1, <2>2
<1>12. CASE outPc = "control" /\ SendControl("write")
  <2>1. /\ UNCHANGED <<asked, answers, inPc, quit, pendingResponse, outMsg>> /\ outPc' = "write"
        /\ Len(stallControl) < 1
        /\ stallControl' = Append(stallControl, IF outMsg \in Requests THEN "sent" ELSE "other")
    BY <1>12 DEF SendControl, oRest, remoteVars
  <2>2. /\ ~Has("sent") /\ ~Has("received") /\ (Has("sent")' <=> outMsg \in Requests)
    BY <1>5, <2>1
  <2> QED
    BY <1>1, <1>2, <1>4, <1>12, <2>1, <2>2
<1>13. CASE outPc = "write" /\ WriteMessage("signal")
  <2>1. UNCHANGED <<stallControl, answers, inPc, pendingResponse, outMsg>>
    BY <1>13 DEF WriteMessage, oRest
  <2>2. ASSUME ~quit'
        PROVE  ~quit /\ asked' = IF outMsg \in Requests THEN asked \cup {outMsg} ELSE asked
    <3>1. \/ quit /\ UNCHANGED quit
          \/ /\ ~quit
             /\ asked' = IF outMsg \in Requests THEN asked \cup {outMsg} ELSE asked
          \/ quit' = TRUE
      BY <1>13 DEF WriteMessage
    <3> QED
      BY <1>1, <2>2, <3>1, StateTypesKept DEF PeerConnInv, StateTypes
  <2>3. Has("received")' <=> Has("received")
    BY <1>8, <2>1
  <2>4. CASE ~quit'
    <3>1. AnswerDue => AnswerDue'
      <4>1. CASE outMsg \in Requests
        BY <1>4, <2>2, <2>4, <4>1
      <4>2. CASE outMsg \notin Requests
        BY <1>2, <1>4, <2>1, <2>2, <2>3, <2>4, <4>2
      <4> QED
        BY <4>1, <4>2
    <3> QED
      BY <1>7, <2>1, <3>1
  <2> QED
    BY <1>6, <2>4
<1>14. CASE Tell("received", "received", "start")
  <2>1. Len(stallControl) < 1 /\ stallControl' = Append(stallControl, "received")
    BY <1>14 DEF Tell
  <2> QED
    BY <1>4, <1>5, <2>1
<1>15. CASE Tell("start", "other", "handled") \/ Tell("handled", "other", "read")
  <2>1. /\ Len(stallControl) < 1 /\ stallControl' = Append(stallControl, "other")
        /\ inPc # "received" /\ UNCHANGED <<quit, answers, asked, outPc, outMsg, pendingResponse>>
    BY <1>15 DEF Tell, iRest
  <2>2. ~Has("received") /\ ~Has("sent")'
    BY <1>5, <2>1
  <2> QED
    BY <1>1, <1>2, <1>4, <2>1, <2>2
<1>16. CASE InEnds \/ StallTick \/ Disconnect
  BY <1>6, <1>16 DEF InEnds, StallTick, Disconnect
<1>17. CASE Woken \/ ReadFails \/ \E m \in Rejects : PushRejectMsg(m)
  <2>1. UNCHANGED <<stallControl, asked, answers, outPc, outMsg, quit, pendingResponse>> /\ inPc # "received"
    BY <1>17 DEF Woken, ReadFails, PushRejectMsg, iRest
  <2> QED
    BY <1>2, <1>4, <1>7, <1>8, <2>1
<1>18. CASE ReadAnswer
  BY <1>4, <1>18 DEF ReadAnswer
<1>19. CASE ControlMsg
  <2>1. /\ stallControl # <<>> /\ stallControl' = Tail(stallControl) /\ pendingResponse' = Deadline(Head(stallControl))
        /\ UNCHANGED <<quit, asked, answers, inPc, outPc, outMsg>>
    BY <1>19 DEF ControlMsg, sRest
  <2>2. Elements(stallControl) = {Head(stallControl)} /\ Elements(Tail(stallControl)) = {}
    BY <1>1, <2>1 DEF Elements
  <2>3. /\ ~Has("sent")' /\ (Has("sent") <=> Head(stallControl) = "sent")
        /\ (Has("received") <=> Head(stallControl) = "received") /\ ~Has("received")'
    BY <2>1, <2>2 DEF Has, Elements
  <2>4. pendingResponse' => (pendingResponse \/ Has("sent")) /\ ~Has("received")
    BY <2>1, <2>3 DEF Deadline
  <2> QED
    BY <1>1, <1>2, <1>4, <2>1, <2>3, <2>4
<1>20. CASE StallQuits
  BY <1>1, <1>6, <1>20 DEF StallQuits, QuitOK
<1>21. ASSUME NEW m \in Msgs, Answers(m) PROVE DeadlineOK'
  <2>1. answers' > 0
    BY <1>1, <1>21 DEF Answers
  <2> QED
    BY <1>4, <2>1
<1>22. CASE UNCHANGED peerVars \/ \E m \in Msgs : QueueMessage(m) \/ CallerFindsConnected(m)
  BY <1>9, <1>22 DEF peerVars, QueueMessage, CallerFindsConnected, ioVars, remoteVars
<1> QED
  BY <1>10, <1>11, <1>12, <1>13, <1>14, <1>15, <1>16, <1>17, <1>18, <1>19, <1>20, <1>21, <1>22
  DEF PeerNext, HandlerSteps, ControlThenWrite, QueueSteps

(* A step of a peer, its start, and what follows from the invariant.       *)
LEMMA PeerStep == ASSUME PeerConnInv, [PeerNext]_peerVars PROVE PeerConnInv'
<1>1. PeerTypes'
  BY QueueTypesKept, StateTypesKept, ControlTypesKept DEF PeerConnInv, PeerTypes
<1> QED
  BY <1>1, WaitingKept, QuitKept, LineKept, PlacesKept, DeadlineKept DEF PeerConnInv

(* A peer starts with nothing queued.                                      *)
LEMMA PeerStart == PeerInit => PeerConnInv
<1> SUFFICES ASSUME PeerInit PROVE PeerConnInv
  OBVIOUS
<1> USE DEF PeerInit
<1>1. /\ <<>> \in Seq(Msgs) /\ Elements(<<>>) = {} /\ Distinct(<<>>)
      /\ <<>> \in Seq({"sent", "received", "other"}) /\ Len(<<>>) = 0
  BY NothingQueued DEF Distinct
<1>2. InHand = {} /\ Unwritten = <<>>
  BY DEF InHand, Unwritten
<1>3. PeerTypes
  <2>1. QueueTypes
    BY <1>1 DEF QueueTypes
  <2>2. StateTypes
    BY <1>2 DEF StateTypes
  <2>3. ControlTypes
    BY <1>1 DEF ControlTypes
  <2> QED
    BY <2>1, <2>2, <2>3 DEF PeerTypes
<1>4. WaitingOK /\ QuitOK
  BY <1>1 DEF WaitingOK, Busy, QuitOK
<1>5. LineOK
  <2>1. <<>> \o (<<>> \o (<<>> \o (<<>> \o <<>>))) = <<>> /\ IsPrefix(<<>>, <<>>)
    BY DEF IsPrefix
  <2> QED
    BY <1>2, <2>1 DEF LineOK
<1>6. OnTheWay = {}
  BY <1>1, <1>2 DEF OnTheWay
<1>7. PlacesOK
  BY <1>1, <1>2, <1>6 DEF PlacesOK
<1>8. SignalsOK
  BY <1>1, <1>6 DEF SignalsOK
<1>9. DeadlineOK
  BY <1>1 DEF DeadlineOK
<1> QED
  BY <1>3, <1>4, <1>5, <1>7, <1>8, <1>9 DEF PeerConnInv

(* One message at a time in order, signalled once, deadlines owed.         *)
LEMMA PeerSafe == PeerConnInv => OneInFlight /\ SignalledOnce /\ DeadlinesAreOwed
<1> SUFFICES ASSUME PeerConnInv PROVE OneInFlight /\ SignalledOnce /\ DeadlinesAreOwed
  OBVIOUS
<1>1. OneInFlight
  BY DEF PeerConnInv, WaitingOK, Busy, LineOK, OneInFlight
<1>2. SignalledOnce
  <2> SUFFICES ASSUME NEW m \in Rejects
               PROVE  /\ signalled[m] <= 1
                      /\ Sent(m) /\ signalled[m] = 0 =>
                           m \in callers \cup ToSet(outputQueue) \cup ToSet(pendingMsgs) \cup ToSet(sendQueue) \cup {outMsg}
    BY DEF SignalledOnce
  <2>1. m \in Msgs /\ SignalsOK
    BY DEF Msgs, PeerConnInv
  <2>2. signalled[m] <= 1
    BY <2>1 DEF SignalsOK
  <2>3. ASSUME Sent(m), signalled[m] = 0
        PROVE  m \in callers \cup ToSet(outputQueue) \cup ToSet(pendingMsgs) \cup ToSet(sendQueue) \cup {outMsg}
    <3>1. m \in callers \/ m \in Elements(queued)
      BY <2>3, SameElements DEF Sent
    <3>2. m \in callers \/ m \in OnTheWay
      BY <2>1, <2>3, <3>1 DEF SignalsOK
    <3> QED
      BY <3>2, SameElements DEF OnTheWay, InHand
  <2> QED
    BY <2>2, <2>3
<1>3. DeadlinesAreOwed
  BY SameElements DEF PeerConnInv, DeadlineOK, AnswerDue, DeadlinesAreOwed
<1> QED
  BY <1>1, <1>2, <1>3

-----------------------------------------------------------------------------
(* A getdata.                                                              *)

Channels == 1..DoneChan

(* Whether the signal of a channel has been given away: that of an entry   *)
(* once the loop has passed it, that of the last message when the loop     *)
(* ends or, if something was not found, after it.                          *)
Given(c) == IF c = DoneChan THEN at > Len(items) /\ (notFound = 0 \/ step = "end") ELSE c < at

(* No message but those that signal nobody is on the way twice.            *)
OnceEach(s) == \A i, j \in DOMAIN s : s[i] = s[j] /\ s[i] # 0 => i = j

(* A channel has a signal, or a message on the way will give it one, or    *)
(* neither, and neither before it was given away.                          *)
TokensOK ==
    /\ tokens \in [Channels -> Nat] /\ outgoing \in Seq(Channels \cup {0})
    /\ \A c \in Channels : tokens[c] <= 1
    /\ \A c \in Channels : tokens[c] > 0 \/ c \in Elements(outgoing) => Given(c)
    /\ \A c \in Channels : c \in Elements(outgoing) => tokens[c] = 0
    /\ OnceEach(outgoing)

(* The loop over the entries.                                              *)
LoopOK ==
    /\ items \in Seq(ItemKinds) /\ Len(items) <= MaxItems
    /\ at \in Nat \ {0} /\ at <= Returned /\ notFound \in Nat /\ waitChan \in Channels \cup {0}
    /\ step \in {"push", "end"} /\ (step = "push" => at <= Len(items) + 1)

(* The inductive invariant of a getdata, and of both.                      *)
GetDataInv == LoopOK /\ TokensOK
GoroutinesInv == PeerConnInv /\ GetDataInv

(* The channels: one for each entry, and doneChan.                         *)
LEMMA ChannelNumbers ==
    /\ MaxItems \in Nat /\ Channels \subseteq Nat \ {0}
    /\ DoneChan \in Channels /\ DoneChan \in Nat /\ 0 \notin Channels
    /\ \A i \in 1..MaxItems : i \in Channels /\ i # DoneChan
  BY ServerPeerConstants DEF Channels, DoneChan

(* What was given away stays so.                                           *)
LEMMA GivenStays ==
    ASSUME GetDataInv, items' = items, at' >= at, at' \in Nat,
           at > Len(items) /\ notFound = 0 => notFound' = 0,
           step = "end" => step' = "end"
    PROVE  \A c \in Channels : Given(c) => Given(c)'
<1>1. at \in Nat /\ Len(items) \in Nat
  BY DEF GetDataInv, LoopOK
<1> QED
  BY <1>1, ChannelNumbers DEF Given

(* A getdata starts with no signal anywhere.                               *)
LEMMA GetDataStart == ServerPeerInit => GetDataInv
<1> SUFFICES ASSUME ServerPeerInit PROVE GetDataInv
  OBVIOUS
<1>1. PICK n \in 0..MaxItems : items \in [1..n -> ItemKinds]
  BY DEF ServerPeerInit
<1>2. items \in Seq(ItemKinds) /\ Len(items) = n
  BY <1>1
<1>3. at = (IF items = <<>> THEN Returned ELSE 1) /\ step = (IF items = <<>> THEN "end" ELSE "push")
  BY DEF ServerPeerInit
<1>4. LoopOK
  <2>1. MaxItems \in Nat /\ n <= MaxItems
    BY ChannelNumbers
  <2>2. notFound = 0 /\ waitChan = 0
    BY DEF ServerPeerInit
  <2> QED
    BY <1>2, <1>3, <2>1, <2>2 DEF LoopOK, Returned
<1>5. TokensOK
  <2>1. tokens = [c \in Channels |-> 0] /\ outgoing = <<>>
    BY DEF ServerPeerInit, Channels
  <2>2. tokens \in [Channels -> Nat] /\ \A c \in Channels : tokens[c] = 0
    BY <2>1
  <2> QED
    BY <2>1, <2>2, NothingQueued DEF TokensOK, OnceEach
<1> QED
  BY <1>4, <1>5 DEF GetDataInv

(* The channel an entry signals is not given away before the loop is at it.*)
LEMMA ChanOfEntry ==
    ASSUME GetDataInv, NEW i \in DOMAIN items, at = i, step = "push"
    PROVE  /\ i \in 1..Len(items) /\ Len(items) <= MaxItems /\ Len(items) \in Nat
           /\ ChanOf(i) \in Channels \cup {0}
           /\ ChanOf(i) # 0 => ~Given(ChanOf(i))
           /\ ChanOf(i) = DoneChan => i = Len(items) /\ notFound = 0
           /\ ChanOf(i) \in {0, i, DoneChan}
<1>1. i \in 1..Len(items) /\ Len(items) <= MaxItems /\ Len(items) \in Nat /\ i \in 1..MaxItems
  BY ChannelNumbers DEF GetDataInv, LoopOK
<1>2. i \in Channels /\ i # DoneChan /\ DoneChan \in Channels
  BY <1>1, ChannelNumbers
<1>3. CASE i = Len(items) /\ notFound = 0
  BY <1>1, <1>2, <1>3 DEF ChanOf, Given
<1>4. CASE ~(i = Len(items) /\ notFound = 0) /\ i % 3 = 0
  BY <1>1, <1>2, <1>4 DEF ChanOf, Given
<1>5. CASE ~(i = Len(items) /\ notFound = 0) /\ ~(i % 3 = 0)
  BY <1>1, <1>5, ChannelNumbers DEF ChanOf
<1> QED
  BY <1>3, <1>4, <1>5

(* Nothing is signalled or sent; a signal may have been received.          *)
LEMMA TokensStay ==
    ASSUME GetDataInv, UNCHANGED outgoing, tokens' \in [Channels -> Nat],
           \A c \in Channels : tokens'[c] <= tokens[c],
           \A c \in Channels : Given(c) => Given(c)'
    PROVE  TokensOK'
<1>1. tokens \in [Channels -> Nat] /\ TokensOK /\ Elements(outgoing)' = Elements(outgoing)
  BY DEF GetDataInv, TokensOK, Elements
<1>2. \A c \in Channels : tokens[c] \in Nat /\ tokens'[c] \in Nat
  BY <1>1
<1> QED
  BY <1>1, <1>2 DEF TokensOK

(* A signal is put in a channel.                                           *)
LEMMA TokenGiven ==
    ASSUME GetDataInv, UNCHANGED outgoing, NEW c \in Channels, ~Given(c), Given(c)',
           tokens' = [tokens EXCEPT ![c] = @ + 1],
           \A k \in Channels : Given(k) => Given(k)'
    PROVE  TokensOK'
<1>1. tokens \in [Channels -> Nat] /\ TokensOK /\ Elements(outgoing)' = Elements(outgoing)
  BY DEF GetDataInv, TokensOK, Elements
<1>2. tokens[c] = 0 /\ c \notin Elements(outgoing)
  BY <1>1 DEF TokensOK
<1>3. /\ tokens' \in [Channels -> Nat]
      /\ \A k \in Channels : tokens'[k] = IF k = c THEN 1 ELSE tokens[k]
  BY <1>1, <1>2
<1> QED
  BY <1>1, <1>2, <1>3 DEF TokensOK

(* A message is queued that will signal a channel, or nobody.              *)
LEMMA OnceEachAppend ==
    ASSUME NEW S, NEW s \in Seq(S), NEW c \in S, OnceEach(s), c = 0 \/ c \notin Elements(s)
    PROVE  OnceEach(Append(s, c))
<1>1. /\ Len(s) \in Nat /\ DOMAIN s = 1..Len(s) /\ DOMAIN Append(s, c) = 1..Len(s) + 1
      /\ \A i \in 1..Len(s) : Append(s, c)[i] = s[i]
      /\ Append(s, c)[Len(s) + 1] = c
  OBVIOUS
<1> SUFFICES ASSUME NEW i \in 1..Len(s) + 1, NEW j \in 1..Len(s) + 1,
                    Append(s, c)[i] = Append(s, c)[j], Append(s, c)[i] # 0
             PROVE  i = j
  BY <1>1 DEF OnceEach
<1>2. CASE i \in 1..Len(s) /\ j \in 1..Len(s)
  BY <1>1, <1>2 DEF OnceEach
<1>3. CASE i = Len(s) + 1 \/ j = Len(s) + 1
  BY <1>1, <1>3 DEF Elements
<1> QED
  BY <1>1, <1>2, <1>3

(* Only a channel that was not given away gets a message.                  *)
LEMMA MessageQueued ==
    ASSUME GetDataInv, NEW c \in Channels \cup {0}, c # 0 => ~Given(c) /\ Given(c)',
           outgoing' = Append(outgoing, c) \/ outgoing' = Append(Append(outgoing, 0), c),
           tokens' \in [Channels -> Nat], \A k \in Channels : tokens'[k] <= tokens[k],
           \A k \in Channels : Given(k) => Given(k)'
    PROVE  TokensOK'
<1>1. tokens \in [Channels -> Nat] /\ TokensOK /\ outgoing \in Seq(Channels \cup {0}) /\ 0 \notin Channels
  BY ChannelNumbers DEF GetDataInv, TokensOK
<1>2. /\ Append(outgoing, 0) \in Seq(Channels \cup {0}) /\ OnceEach(Append(outgoing, 0))
      /\ Elements(Append(outgoing, 0)) = Elements(outgoing) \cup {0}
  BY <1>1, QueueAppend, OnceEachAppend DEF TokensOK
<1>3. PICK s \in {outgoing, Append(outgoing, 0)} : outgoing' = Append(s, c)
  OBVIOUS
<1>4. s \in Seq(Channels \cup {0}) /\ OnceEach(s) /\ \A k \in Channels : k \in Elements(s) <=> k \in Elements(outgoing)
  BY <1>1, <1>2, <1>3 DEF TokensOK
<1>5. c # 0 => c \notin Elements(s) /\ tokens[c] = 0
  BY <1>1, <1>4 DEF TokensOK
<1>6. Append(s, c) \in Seq(Channels \cup {0}) /\ Elements(Append(s, c)) = Elements(s) \cup {c}
  BY <1>4, QueueAppend
<1>7. OnceEach(Append(s, c))
  BY <1>4, <1>5, OnceEachAppend
<1>8. Elements(outgoing)' = Elements(s) \cup {c}
  BY <1>3, <1>6 DEF Elements
<1>9. \A k \in Channels : tokens[k] \in Nat /\ tokens'[k] \in Nat
  BY <1>1
<1>10. \A k \in Channels : tokens'[k] <= 1 /\ (tokens'[k] > 0 \/ k \in Elements(outgoing)' => Given(k)')
  BY <1>1, <1>4, <1>8, <1>9 DEF TokensOK
<1>11. \A k \in Channels : k \in Elements(outgoing)' => tokens'[k] = 0
  BY <1>1, <1>4, <1>5, <1>8, <1>9 DEF TokensOK
<1> QED
  BY <1>3, <1>6, <1>7, <1>10, <1>11 DEF TokensOK

(* The first message leaves.                                               *)
LEMMA OnceEachTail ==
    ASSUME NEW S, NEW s \in Seq(S), s # <<>>, OnceEach(s)
    PROVE  OnceEach(Tail(s)) /\ (Head(s) # 0 => Head(s) \notin Elements(Tail(s)))
<1>1. /\ Len(s) \in Nat /\ Len(s) >= 1 /\ Len(Tail(s)) = Len(s) - 1 /\ Head(s) = s[1]
      /\ DOMAIN s = 1..Len(s) /\ DOMAIN Tail(s) = 1..Len(Tail(s))
      /\ \A i \in 1..Len(Tail(s)) : i + 1 \in 1..Len(s) /\ Tail(s)[i] = s[i + 1]
  OBVIOUS
<1>2. ASSUME NEW i \in 1..Len(Tail(s)), NEW j \in 1..Len(Tail(s)), Tail(s)[i] = Tail(s)[j], Tail(s)[i] # 0 PROVE i = j
  <2>1. i + 1 = j + 1
    BY <1>1, <1>2 DEF OnceEach
  <2> QED
    BY <2>1
<1>3. ASSUME NEW i \in 1..Len(Tail(s)), Tail(s)[i] = Head(s), Head(s) # 0 PROVE FALSE
  <2>1. i + 1 = 1
    BY <1>1, <1>3 DEF OnceEach
  <2> QED
    BY <2>1
<1> QED
  BY <1>1, <1>2, <1>3 DEF OnceEach, Elements

(* A step of a getdata.                                                    *)
LEMMA GetDataStep == ASSUME GetDataInv, [GetDataNext]_getDataVars PROVE GetDataInv'
<1>1. /\ tokens \in [Channels -> Nat] /\ \A c \in Channels : tokens[c] \in Nat
      /\ items \in Seq(ItemKinds) /\ at \in Nat \ {0} /\ notFound \in Nat
      /\ Len(items) \in Nat /\ Len(items) <= MaxItems /\ LoopOK /\ TokensOK
      /\ waitChan \in Channels \cup {0} /\ MaxItems \in Nat /\ Returned = MaxItems + 2 /\ at <= Returned
      /\ \A c \in Channels : tokens[c] <= tokens[c]
  BY ChannelNumbers DEF GetDataInv, LoopOK, TokensOK, Returned
<1>2. CASE UNCHANGED getDataVars
  BY <1>2 DEF getDataVars, GetDataInv, LoopOK, TokensOK, Given, Elements, OnceEach
<1>3. ASSUME NEW i \in DOMAIN items, PushFails(i) PROVE GetDataInv'
  <2>1. PICK c : c = ChanOf(i)
    OBVIOUS
  <2>2. /\ at = i /\ step = "push" /\ at' = i + 1 /\ notFound' \in {notFound, notFound + 1}
        /\ UNCHANGED <<items, step, outgoing>> /\ waitChan' = c
    BY <1>1, <1>3, <2>1 DEF PushFails
  <2>3. /\ i \in 1..Len(items) /\ c \in Channels \cup {0} /\ (c # 0 => ~Given(c))
        /\ (c = DoneChan => i = Len(items) /\ notFound = 0) /\ c \in {0, i, DoneChan}
    BY <2>1, <2>2, ChanOfEntry
  <2>4. LoopOK'
    BY <1>1, <2>2, <2>3 DEF LoopOK
  <2>5. \A k \in Channels : Given(k) => Given(k)'
    BY <1>1, <2>2, <2>3, GivenStays
  <2>6. CASE tokens' = tokens
    <3>1. tokens' \in [Channels -> Nat] /\ \A k \in Channels : tokens'[k] <= tokens[k]
      BY <1>1, <2>6
    <3> QED
      BY <2>2, <2>4, <2>5, <3>1, TokensStay DEF GetDataInv
  <2>7. CASE c # 0 /\ tokens' = [tokens EXCEPT ![c] = @ + 1] /\ ~(items[i] = "missing" /\ ConsumesOwn(i, c))
    <3>1. c = DoneChan => notFound' = notFound
      BY <1>3, <2>1, <2>3, <2>7 DEF PushFails, ConsumesOwn
    <3>2. Given(c)'
      BY <1>1, <2>2, <2>3, <2>7, <3>1, ChannelNumbers DEF Given
    <3>3. c \in Channels /\ ~Given(c)
      BY <2>3, <2>7
    <3> QED
      BY <2>2, <2>4, <2>5, <2>7, <3>2, <3>3, TokenGiven DEF GetDataInv
  <2> QED
    BY <1>3, <2>1, <2>6, <2>7 DEF PushFails, Give
<1>4. ASSUME NEW i \in DOMAIN items, SkipUnknown(i) PROVE GetDataInv'
  <2>1. /\ at = i /\ step = "push" /\ at' = i + 1
        /\ UNCHANGED <<items, step, notFound, waitChan, tokens, outgoing>>
    BY <1>4 DEF SkipUnknown
  <2>2. i \in 1..Len(items)
    BY <1>1
  <2>3. LoopOK'
    BY <1>1, <2>1, <2>2 DEF LoopOK
  <2>4. \A c \in Channels : Given(c) => Given(c)'
    BY <1>1, <2>1, <2>2, GivenStays
  <2> QED
    BY <1>1, <2>1, <2>3, <2>4, TokensStay DEF GetDataInv
<1>5. ASSUME NEW i \in DOMAIN items, PushMsg(i) PROVE GetDataInv'
  <2>1. PICK c : c = ChanOf(i)
    OBVIOUS
  <2>2. /\ at = i /\ step = "push" /\ at' = i + 1 /\ UNCHANGED <<items, step, notFound>> /\ waitChan' = c
        /\ waitChan # 0 => tokens[waitChan] > 0
        /\ tokens' = IF waitChan = 0 THEN tokens ELSE [tokens EXCEPT ![waitChan] = @ - 1]
        /\ outgoing' = outgoing \o MessagesFor(items[i], c)
    BY <1>5, <2>1 DEF PushMsg
  <2>3. /\ i \in 1..Len(items) /\ c \in Channels \cup {0} /\ (c # 0 => ~Given(c))
        /\ (c = DoneChan => i = Len(items) /\ notFound = 0) /\ c \in {0, i, DoneChan}
    BY <2>1, <2>2, ChanOfEntry
  <2>4. LoopOK'
    BY <1>1, <2>2, <2>3 DEF LoopOK
  <2>5. \A k \in Channels : Given(k) => Given(k)'
    BY <1>1, <2>2, <2>3, GivenStays, SMTT(60)
  <2>6. tokens' \in [Channels -> Nat] /\ \A k \in Channels : tokens'[k] <= tokens[k]
    BY <1>1, <2>2
  <2>7. c # 0 => Given(c)'
    BY <1>1, <2>2, <2>3, ChannelNumbers, SMTT(60) DEF Given
  <2>8. outgoing' = Append(outgoing, c) \/ outgoing' = Append(Append(outgoing, 0), c)
    BY <1>1, <2>2, <2>3, SMTT(60) DEF MessagesFor, TokensOK
  <2>9. TokensOK'
    BY <2>3, <2>5, <2>6, <2>7, <2>8, MessageQueued
  <2> QED
    BY <2>4, <2>9 DEF GetDataInv
<1>6. CASE LoopEnds
  <2>1. /\ at = Len(items) + 1 /\ step = "push" /\ step' = "end"
        /\ UNCHANGED <<items, at, notFound, waitChan, tokens>>
        /\ outgoing' = IF notFound # 0 THEN Append(outgoing, DoneChan) ELSE outgoing
    BY <1>6 DEF LoopEnds
  <2>2. LoopOK'
    BY <1>1, <2>1 DEF LoopOK
  <2>3. \A c \in Channels : Given(c) => Given(c)'
    BY <1>1, <2>1, GivenStays
  <2>6. tokens' \in [Channels -> Nat] /\ \A k \in Channels : tokens'[k] <= tokens[k]
    BY <1>1, <2>1
  <2>4. CASE notFound = 0
    BY <2>1, <2>2, <2>3, <2>4, <2>6, TokensStay DEF GetDataInv
  <2>5. CASE notFound # 0
    <3>1. DoneChan \in Channels /\ ~Given(DoneChan) /\ Given(DoneChan)'
      BY <1>1, <2>1, <2>5, ChannelNumbers DEF Given
    <3> QED
      BY <2>1, <2>2, <2>3, <2>5, <2>6, <3>1, MessageQueued DEF GetDataInv
  <2> QED
    BY <2>4, <2>5
<1>7. CASE OnGetDataReturns
  <2>1. /\ step = "end" /\ at' = Returned /\ UNCHANGED <<items, step, notFound, waitChan, outgoing>>
        /\ \/ tokens' = tokens
           \/ tokens[DoneChan] > 0 /\ tokens' = [tokens EXCEPT ![DoneChan] = @ - 1]
    <3>1. CASE numAdded > 0
      BY <1>7, <3>1 DEF OnGetDataReturns
    <3>2. CASE ~(numAdded > 0)
      BY <1>7, <3>2 DEF OnGetDataReturns
    <3> QED
      BY <3>1, <3>2
  <2>2. Returned \in Nat \ {0} /\ at <= Returned
    BY <1>1
  <2>3. LoopOK'
    BY <1>1, <2>1, <2>2 DEF LoopOK
  <2>4. \A c \in Channels : Given(c) => Given(c)'
    BY <1>1, <2>1, <2>2, GivenStays
  <2>5. tokens' \in [Channels -> Nat] /\ \A k \in Channels : tokens'[k] <= tokens[k]
    BY <1>1, <2>1, ChannelNumbers
  <2> QED
    BY <2>1, <2>3, <2>4, <2>5, TokensStay DEF GetDataInv
<1>8. CASE PeerSends
  <2> DEFINE c == Head(outgoing)
  <2>1. /\ outgoing # <<>> /\ outgoing' = Tail(outgoing) /\ tokens' = Give(c)
        /\ UNCHANGED <<items, at, step, notFound, waitChan>>
    BY <1>8 DEF PeerSends
  <2>2. /\ Tail(outgoing) \in Seq(Channels \cup {0}) /\ c \in Elements(outgoing) /\ c \in Channels \cup {0}
        /\ Elements(outgoing) = Elements(Tail(outgoing)) \cup {c}
    BY <1>1, <2>1, QueueTail DEF TokensOK
  <2>3. OnceEach(Tail(outgoing)) /\ (c # 0 => c \notin Elements(Tail(outgoing)))
    BY <1>1, <2>1, OnceEachTail DEF TokensOK
  <2> HIDE DEF c
  <2>4. LoopOK'
    BY <1>1, <2>1 DEF LoopOK
  <2>5. \A k \in Channels : Given(k)' <=> Given(k)
    BY <2>1 DEF Given
  <2>6. Elements(outgoing)' = Elements(Tail(outgoing))
    BY <2>1 DEF Elements
  <2>7. /\ tokens' \in [Channels -> Nat]
        /\ \A k \in Channels : tokens'[k] = IF k = c THEN tokens[k] + 1 ELSE tokens[k]
    BY <1>1, <2>1, <2>2, ChannelNumbers DEF Give
  <2>8. c # 0 => tokens[c] = 0
    BY <1>1, <2>2 DEF TokensOK
  <2>9. \A k \in Channels : tokens'[k] <= 1
    <3>1. \A k \in Channels : tokens[k] <= 1
      BY <1>1 DEF TokensOK
    <3> QED
      BY <2>7, <2>8, <3>1, ChannelNumbers
  <2>10. \A k \in Channels : tokens'[k] > 0 \/ k \in Elements(outgoing)' => Given(k)'
    BY <1>1, <2>2, <2>5, <2>6, <2>7 DEF TokensOK
  <2>11. \A k \in Channels : k \in Elements(outgoing)' => tokens'[k] = 0
    BY <1>1, <2>2, <2>3, <2>6, <2>7, ChannelNumbers DEF TokensOK
  <2>12. TokensOK'
    BY <2>1, <2>2, <2>3, <2>7, <2>9, <2>10, <2>11 DEF TokensOK
  <2> QED
    BY <2>4, <2>12 DEF GetDataInv
<1> QED
  BY <1>2, <1>3, <1>4, <1>5, <1>6, <1>7, <1>8 DEF GetDataNext

(* A step of something else.                                               *)
LEMMA PeerRests == ASSUME PeerConnInv, UNCHANGED peerVars PROVE PeerConnInv'
  BY PeerStep

(* Likewise.                                                               *)
LEMMA GetDataRests == ASSUME GetDataInv, UNCHANGED getDataVars PROVE GetDataInv'
  BY GetDataStep

(* The start of all of them, and a step of any.                            *)
LEMMA GoroutinesStart == GoroutinesInit => GoroutinesInv
  BY PeerStart, GetDataStart DEF GoroutinesInit, GoroutinesInv

(* Each takes its own steps.                                               *)
LEMMA GoroutinesStep == GoroutinesInv /\ [GoroutinesNext]_goroutineVars => GoroutinesInv'
<1> SUFFICES ASSUME GoroutinesInv, [GoroutinesNext]_goroutineVars PROVE GoroutinesInv'
  OBVIOUS
<1> USE DEF GoroutinesInv
<1>1. CASE PeerNext /\ UNCHANGED <<part, getDataVars, stopVars>>
  BY <1>1, PeerStep, GetDataRests
<1>2. CASE GetDataNext /\ UNCHANGED <<part, peerVars, stopVars>>
  BY <1>2, PeerRests, GetDataStep
<1>3. CASE UNCHANGED <<peerVars, getDataVars>>
  BY <1>3, PeerRests, GetDataRests
<1>4. CASE UNCHANGED goroutineVars
  BY <1>4, <1>3 DEF goroutineVars
<1> QED
  BY <1>1, <1>2, <1>3, <1>4 DEF GoroutinesNext

(* What the runs check of a peer and of a getdata.                         *)
LEMMA InvKeepsOrder == GoroutinesInv => MessagesKeepOrder
<1> SUFFICES ASSUME PeerConnInv, GetDataInv PROVE MessagesKeepOrder
  BY DEF GoroutinesInv
<1>1. ChannelsHoldOne
  BY DEF GetDataInv, TokensOK, Channels, ChannelsHoldOne
<1> QED
  BY <1>1, PeerSafe DEF MessagesKeepOrder

(* For any requests, pings and rejects, any size of the output queue and   *)
(* any getdata: a peer's messages are written one at a time, in the order  *)
(* they were queued; who waits for one is signalled once, unless it is     *)
(* still on its way; a deadline is kept only while an answer is due; and   *)
(* no completion channel of OnGetData is ever given a second signal.       *)
THEOREM MessagesAlwaysKeepOrder == GoroutinesSpec => []MessagesKeepOrder
<1>1. GoroutinesInit => GoroutinesInv
  BY GoroutinesStart
<1>2. GoroutinesInv /\ [GoroutinesNext]_goroutineVars => GoroutinesInv'
  BY GoroutinesStep
<1>3. GoroutinesInv => MessagesKeepOrder
  BY InvKeepsOrder
<1> QED
  BY <1>1, <1>2, <1>3, PTL DEF GoroutinesSpec

=============================================================================
