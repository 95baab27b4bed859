----------------------------- MODULE SyncProofs -----------------------------
(***************************************************************************)
(* For any block tree, checkpoints and peers, and any limits: a block that *)
(* the sync manager marks as requested is on its way, headers-first mode   *)
(* has its sync peer and its checkpoint, and only a block at or under a    *)
(* checkpoint is processed with BFFastAdd.                                 *)
(*                                                                         *)
(* The first invariant, SyncInv, is about marks.  A peer is known after    *)
(* its newpeer message, which is the first it sends (NewcomersOK); a       *)
(* marked block is marked with a peer that has the getdata, has answered   *)
(* it, or is closed, in which case the end of that peer clears the mark    *)
(* (MarksOK).                                                              *)
(*                                                                         *)
(* The second, FirstInv, is about headers.  They are asked of the sync     *)
(* peer only, one request at a time (FlightOK), so an answer always meets  *)
(* the list it was asked for.  The list is linked, and either headers are  *)
(* still collected and no block is asked for yet, or it ends in the next   *)
(* checkpoint and what is asked for comes before startHeader (ListOK).     *)
(* Below that checkpoint nothing but the list says what to ask for         *)
(* (OnlyListed), and a block of the list is no higher than its end: that   *)
(* is why a block added fast is an ancestor of a checkpoint, or one.       *)
(***************************************************************************)
EXTENDS SyncManager, FiniteSetTheorems, SliceLemmas, TLAPS

-----------------------------------------------------------------------------

(* Two names for what is in a queue; nothing is in an empty one.           *)
LEMMA SameElements == \A s : ToSet(s) = Elements(s)
  BY DEF ToSet, Elements

LEMMA NothingQueued == ASSUME NEW S PROVE <<>> \in Seq(S) /\ Elements(<<>>) = {}
  BY DEF Elements

InvVect == Blocks \cup Txs

(* A sequence of anything.                                                 *)
IsSeq(s) == s \in Seq(Elements(s))

LinkFields == {"conn", "in", "out", "lastBlock", "announced", "prevGetBlocks", "prevGetHdrs"}
Connection == {"none", "up", "closed", "gone"}

(* A message of a peer, or one to it, carries what it says.                *)
Incoming(m) ==
    /\ m.type = "inv" => m.inv \in Seq(InvVect)
    /\ m.type = "headers" => m.headers \in Seq(Blocks)
    /\ m.type = "block" => m.block \in Blocks
    /\ m.type = "tx" => m.tx \in Txs
Outgoing(m) == m.type = "getdata" => m.inv \in Seq(InvVect)

LinkOK(l) ==
    /\ DOMAIN l = Peers
    /\ \A p \in Peers :
         /\ DOMAIN l[p] = LinkFields
         /\ l[p].conn \in Connection /\ l[p].lastBlock \in 0 .. Depth
         /\ IsSeq(l[p].in) /\ \A m \in Elements(l[p].in) : Incoming(m)
         /\ IsSeq(l[p].out) /\ \A m \in Elements(l[p].out) : Outgoing(m)

(* A peer is known only after its newpeer message, which comes first.      *)
NewcomersOK(l, states) ==
    \A p \in Peers :
        /\ l[p].conn = "none" => p \notin DOMAIN states /\ l[p].in = <<>>
        /\ \A i \in DOMAIN l[p].in : l[p].in[i].type = "newpeer" => i = 1 /\ p \notin DOMAIN states

StatesOK(states) ==
    /\ DOMAIN states \subseteq Peers
    /\ states \in [DOMAIN states -> PeerStateType]

(* What is marked as requested is on its way from a peer that has the mark.*)
Coming(l, p, b) ==
    \/ l[p].conn = "closed"
    \/ \E m \in Elements(l[p].out) : m.type = "getdata" /\ b \in Elements(m.inv)
    \/ \E m \in Elements(l[p].in) : m.type = "block" /\ m.block = b

MarksOK(requested, states, l) ==
    \A b \in requested : \E p \in DOMAIN states : b \in states[p].requestedBlocks /\ Coming(l, p, b)

RemoteOK ==
    /\ DOMAIN remote = Peers
    /\ \A p \in Peers : DOMAIN remote[p] = {"tip", "continueHash", "relayed", "wasCurrent"} /\ remote[p].tip \in Blocks

ManagerOK ==
    /\ StatesOK(peerStates)
    /\ requestedBlocks \subseteq Blocks /\ requestedTxns \subseteq Txs /\ rejectedTxns \subseteq Txs
    /\ syncPeer \in Peers \cup {Nil} /\ headersFirstMode \in BOOLEAN
    /\ headerList \in Seq(Blocks) /\ startHeader \in Blocks \cup {Nil}
    /\ nextCheckpoint \in Blocks \cup {Nil}
    /\ \A u \in updates : u.height \in 0 .. Depth

ChainOK == have \subseteq Blocks /\ orphans \subseteq Blocks /\ best \in have

SyncInv ==
    /\ ManagerOK /\ ChainOK /\ RemoteOK /\ HeadersFirstHasSyncPeer
    /\ LinkOK(link) /\ NewcomersOK(link, peerStates)
    /\ MarksOK(requestedBlocks, peerStates, link)

(* The requests for headers of a peer and their answers, one at most.      *)
None(s, type) == \A i \in DOMAIN s : s[i].type # type
Sole(s, type) == \A i, j \in DOMAIN s : s[i].type = type /\ s[j].type = type => i = j

Quiet(l, p) == None(l[p].out, "getheaders") /\ None(l[p].in, "headers")
AtMostOne(l, p) ==
    /\ Sole(l[p].out, "getheaders") /\ Sole(l[p].in, "headers")
    /\ None(l[p].out, "getheaders") \/ None(l[p].in, "headers")

(* The manager has not heard of p yet, and will.                           *)
Waits(l, p) == l[p].conn = "none" \/ \E i \in DOMAIN l[p].in : l[p].in[i].type = "newpeer"

(* Headers are asked of the sync peer only, and once at a time.            *)
FlightOK(l, states, sync) ==
    \A p \in Peers : /\ p \notin DOMAIN states => (Waits(l, p) => Quiet(l, p))
                     /\ p \in DOMAIN states => (p # sync => Quiet(l, p)) /\ AtMostOne(l, p)

(* A list of headers, each with its parent before it.                      *)
Linked(list) == \A i \in DOMAIN list : i # 1 => list[i] # Genesis /\ Prev[list[i]] = list[i - 1]

(* Headers are collected: nothing is asked for yet, and what will be asked *)
(* for first is on the list, behind the block the list starts from.        *)
CollectingOK(list, start, asked) ==
    /\ asked = {}
    /\ start = Nil \/ \E i \in DOMAIN list : i # 1 /\ list[i] = start

(* The list ends in the checkpoint: what is asked for comes before what    *)
(* will be asked for next, and no more headers come.                       *)
FetchingOK(list, start, asked, checkpoint) ==
    /\ list # <<>> /\ list[Len(list)] = checkpoint
    /\ \E s \in 1 .. Len(list) + 1 :
         /\ start = IF s = Len(list) + 1 THEN Nil ELSE list[s]
         /\ \A b \in asked : \E i \in 1 .. s - 1 : list[i] = b

(* Headers-first mode is on, or will be as soon as there is a sync peer.   *)
Below == nextCheckpoint # Nil /\ Height[best] < Height[nextCheckpoint]

(* The tip does not fall below the checkpoint that is next.                *)
StaysAbove == nextCheckpoint # Nil /\ Height[best'] < Height[nextCheckpoint] => Height[best] < Height[nextCheckpoint]

ListOK ==
    /\ nextCheckpoint \in Elements(Checkpoints) \cup {Nil}
    /\ ~headersFirstMode => headerList \in {<<>>} \cup {<<b>> : b \in Blocks} /\ startHeader = Nil
    /\ headersFirstMode =>
         /\ Linked(headerList)
         /\ \/ CollectingOK(headerList, startHeader, peerStates[syncPeer].requestedBlocks)
            \/ /\ FetchingOK(headerList, startHeader, peerStates[syncPeer].requestedBlocks, nextCheckpoint)
               /\ Quiet(link, syncPeer)

(* Until then nothing but the header list tells what to ask for.           *)
OnlyListed(states, sync) ==
    \A q \in DOMAIN states : /\ states[q].requestQueue \in Seq(Txs)
                             /\ q # sync => states[q].requestedBlocks = {}

FirstInv ==
    /\ FlightOK(link, peerStates, syncPeer)
    /\ ListOK
    /\ Below /\ ~headersFirstMode => syncPeer = Nil
    /\ Below \/ headersFirstMode => OnlyListed(peerStates, syncPeer)
    /\ \A b \in fastAdded : \E c \in Elements(Checkpoints) : b \in Ancestors[c]
-----------------------------------------------------------------------------
(* Sequences of anything.                                                  *)

(* A sequence over a set, and its elements.                                *)
LEMMA SeqOver ==
    ASSUME NEW S, NEW s
    PROVE  s \in Seq(S) <=> IsSeq(s) /\ Elements(s) \subseteq S
<1>1. ASSUME s \in Seq(S) PROVE IsSeq(s) /\ Elements(s) \subseteq S
  <2>1. Len(s) \in Nat /\ DOMAIN s = 1 .. Len(s) /\ \A i \in 1 .. Len(s) : s[i] \in S
    BY <1>1
  <2>2. s = [i \in 1 .. Len(s) |-> s[i]]
    BY <1>1
  <2>3. \A i \in 1 .. Len(s) : s[i] \in Elements(s)
    BY <2>1 DEF Elements
  <2>4. s \in Seq(Elements(s))
    BY <2>1, <2>2, <2>3
  <2> QED
    BY <2>1, <2>4 DEF IsSeq, Elements
<1>2. ASSUME IsSeq(s), Elements(s) \subseteq S PROVE s \in Seq(S)
  <2>1. s \in Seq(Elements(s))
    BY <1>2 DEF IsSeq
  <2> QED
    BY <1>2, <2>1
<1> QED
  BY <1>1, <1>2

(* Something is put at the end of one.                                     *)
LEMMA SeqEnd ==
    ASSUME NEW s, IsSeq(s), NEW x
    PROVE  /\ IsSeq(Append(s, x)) /\ Elements(Append(s, x)) = Elements(s) \cup {x}
           /\ DOMAIN Append(s, x) = 1 .. Len(s) + 1 /\ DOMAIN s = 1 .. Len(s) /\ Len(s) \in Nat
           /\ \A i \in DOMAIN s : Append(s, x)[i] = s[i]
           /\ Append(s, x)[Len(s) + 1] = x
<1> DEFINE S == Elements(s) \cup {x}
<1>1. s \in Seq(S) /\ x \in S
  BY SeqOver
<1> HIDE DEF S
<1>2. /\ Append(s, x) \in Seq(S)
      /\ DOMAIN Append(s, x) = 1 .. Len(s) + 1 /\ DOMAIN s = 1 .. Len(s) /\ Len(s) \in Nat
      /\ \A i \in DOMAIN s : Append(s, x)[i] = s[i]
      /\ Append(s, x)[Len(s) + 1] = x
  BY <1>1
<1>3. Elements(Append(s, x)) = Elements(s) \cup {x}
  BY <1>1, QueueAppend
<1> QED
  BY <1>2, <1>3, SeqOver

(* Two are joined.                                                         *)
LEMMA SeqJoin ==
    ASSUME NEW s, NEW t, IsSeq(s), IsSeq(t)
    PROVE  /\ IsSeq(s \o t) /\ Elements(s \o t) = Elements(s) \cup Elements(t)
           /\ DOMAIN s = 1 .. Len(s) /\ DOMAIN t = 1 .. Len(t) /\ Len(s) \in Nat /\ Len(t) \in Nat
           /\ DOMAIN (s \o t) = 1 .. Len(s) + Len(t)
           /\ \A i \in 1 .. Len(s) + Len(t) : (s \o t)[i] = IF i <= Len(s) THEN s[i] ELSE t[i - Len(s)]
<1> DEFINE S == Elements(s) \cup Elements(t)
<1>1. s \in Seq(S) /\ t \in Seq(S)
  BY SeqOver
<1> HIDE DEF S
<1>2. /\ s \o t \in Seq(S) /\ DOMAIN (s \o t) = 1 .. Len(s) + Len(t)
      /\ DOMAIN s = 1 .. Len(s) /\ DOMAIN t = 1 .. Len(t) /\ Len(s) \in Nat /\ Len(t) \in Nat
      /\ \A i \in 1 .. Len(s) + Len(t) : (s \o t)[i] = IF i <= Len(s) THEN s[i] ELSE t[i - Len(s)]
  BY <1>1
<1>3. \A i \in 1 .. Len(s) : i \in 1 .. Len(s) + Len(t) /\ (s \o t)[i] = s[i]
  BY <1>2
<1>4. \A i \in 1 .. Len(t) : i + Len(s) \in 1 .. Len(s) + Len(t) /\ (s \o t)[i + Len(s)] = t[i]
  BY <1>2
<1>5. \A i \in 1 .. Len(s) + Len(t) : i \in 1 .. Len(s) \/ i - Len(s) \in 1 .. Len(t)
  BY <1>2
<1>6. ASSUME NEW x PROVE x \in Elements(s \o t) <=> x \in Elements(s) \cup Elements(t)
  <2>1. x \in Elements(s) => x \in Elements(s \o t)
    BY <1>2, <1>3 DEF Elements
  <2>2. x \in Elements(t) => x \in Elements(s \o t)
    BY <1>2, <1>4, ZenonT(60) DEF Elements
  <2>3. ASSUME NEW i \in 1 .. Len(s) + Len(t), x = (s \o t)[i] PROVE x \in Elements(s) \cup Elements(t)
    BY <1>2, <1>5, <2>3 DEF Elements
  <2> QED
    BY <1>2, <2>1, <2>2, <2>3 DEF Elements
<1> QED
  BY <1>2, <1>6, SeqOver

(* The first one leaves.                                                   *)
LEMMA SeqTail ==
    ASSUME NEW s, IsSeq(s), s # <<>>
    PROVE  /\ IsSeq(Tail(s)) /\ Elements(s) = Elements(Tail(s)) \cup {Head(s)}
           /\ Head(s) \in Elements(s) /\ 1 \in DOMAIN s /\ Head(s) = s[1]
           /\ \A i \in DOMAIN Tail(s) : i \in Nat /\ i >= 1 /\ i + 1 \in DOMAIN s /\ Tail(s)[i] = s[i + 1]
<1>1. s \in Seq(Elements(s))
  BY DEF IsSeq
<1>2. /\ Tail(s) \in Seq(Elements(s)) /\ Len(s) \in Nat /\ Len(s) >= 1 /\ DOMAIN s = 1 .. Len(s)
      /\ Head(s) = s[1] /\ Len(Tail(s)) = Len(s) - 1 /\ DOMAIN Tail(s) = 1 .. Len(Tail(s))
      /\ \A i \in 1 .. Len(Tail(s)) : Tail(s)[i] = s[i + 1]
  BY <1>1
<1>3. \A i \in DOMAIN Tail(s) : i \in Nat /\ i >= 1 /\ i + 1 \in DOMAIN s /\ Tail(s)[i] = s[i + 1]
  BY <1>2
<1>4. IsSeq(Tail(s))
  BY <1>2, SeqOver
<1> QED
  BY <1>1, <1>2, <1>3, <1>4, QueueTail

(* The empty one, and one of a single thing.                               *)
LEMMA SeqSmall ==
    /\ IsSeq(<<>>) /\ Elements(<<>>) = {}
    /\ \A x : IsSeq(<<x>>) /\ Elements(<<x>>) = {x} /\ DOMAIN <<x>> = {1} /\ <<x>>[1] = x
<1>1. \A x : <<x>> \in Seq({x}) /\ DOMAIN <<x>> = {1} /\ <<x>>[1] = x
  OBVIOUS
<1>2. \A x : Elements(<<x>>) = {x}
  BY <1>1 DEF Elements
<1>3. <<>> \in Seq({}) /\ Elements(<<>>) = {}
  BY NothingQueued
<1> QED
  BY <1>1, <1>2, <1>3 DEF IsSeq
-----------------------------------------------------------------------------
(* Messages of one type in a queue.                                        *)

LEMMA NoneSole == \A s, type : None(s, type) => Sole(s, type)
  BY DEF None, Sole

(* The first one is taken.                                                 *)
LEMMA TailCalm ==
    ASSUME NEW s, IsSeq(s), s # <<>>, NEW type
    PROVE  /\ None(s, type) => None(Tail(s), type) /\ Head(s).type # type
           /\ Sole(s, type) => Sole(Tail(s), type)
           /\ Sole(s, type) /\ Head(s).type = type => None(Tail(s), type)
<1>1. /\ 1 \in DOMAIN s /\ Head(s) = s[1]
      /\ \A i \in DOMAIN Tail(s) : i \in Nat /\ i >= 1 /\ i + 1 \in DOMAIN s /\ Tail(s)[i] = s[i + 1]
  BY SeqTail
<1>2. None(s, type) => None(Tail(s), type) /\ Head(s).type # type
  BY <1>1 DEF None
<1>3. ASSUME Sole(s, type) PROVE Sole(Tail(s), type)
  <2> SUFFICES ASSUME NEW i \in DOMAIN Tail(s), NEW j \in DOMAIN Tail(s),
                      Tail(s)[i].type = type, Tail(s)[j].type = type
               PROVE  i = j
    BY DEF Sole
  <2>1. i + 1 = j + 1
    BY <1>1, <1>3 DEF Sole
  <2> QED
    BY <1>1, <2>1
<1>4. ASSUME Sole(s, type), Head(s).type = type PROVE None(Tail(s), type)
  <2> SUFFICES ASSUME NEW i \in DOMAIN Tail(s), Tail(s)[i].type = type PROVE FALSE
    BY DEF None
  <2>1. i + 1 = 1
    BY <1>1, <1>4 DEF Sole
  <2> QED
    BY <1>1, <2>1
<1> QED
  BY <1>2, <1>3, <1>4

(* Others are put behind them.                                             *)
LEMMA JoinCalm ==
    ASSUME NEW s, NEW t, IsSeq(s), IsSeq(t), NEW type, None(t, type)
    PROVE  /\ None(s, type) => None(s \o t, type)
           /\ Sole(s, type) => Sole(s \o t, type)
<1>1. /\ DOMAIN s = 1 .. Len(s) /\ DOMAIN t = 1 .. Len(t) /\ Len(s) \in Nat /\ Len(t) \in Nat
      /\ DOMAIN (s \o t) = 1 .. Len(s) + Len(t)
      /\ \A i \in 1 .. Len(s) + Len(t) : (s \o t)[i] = IF i <= Len(s) THEN s[i] ELSE t[i - Len(s)]
  BY SeqJoin
<1>2. ASSUME NEW i \in DOMAIN (s \o t), (s \o t)[i].type = type PROVE i \in DOMAIN s /\ (s \o t)[i] = s[i]
  <2>1. CASE i <= Len(s)
    BY <1>1, <2>1
  <2>2. CASE ~(i <= Len(s))
    <3>1. i - Len(s) \in DOMAIN t /\ (s \o t)[i] = t[i - Len(s)]
      BY <1>1, <2>2
    <3> QED
      BY <1>2, <3>1 DEF None
  <2> QED
    BY <2>1, <2>2
<1>3. None(s, type) => None(s \o t, type)
  BY <1>2 DEF None
<1>4. Sole(s, type) => Sole(s \o t, type)
  BY <1>2 DEF Sole
<1> QED
  BY <1>3, <1>4

LEMMA AppendCalm ==
    ASSUME NEW s, IsSeq(s), NEW m, NEW type
    PROVE  /\ m.type # type => /\ None(s, type) => None(Append(s, m), type)
                               /\ Sole(s, type) => Sole(Append(s, m), type)
           /\ None(s, type) => Sole(Append(s, m), type)
<1>1. /\ DOMAIN Append(s, m) = 1 .. Len(s) + 1 /\ DOMAIN s = 1 .. Len(s) /\ Len(s) \in Nat
      /\ \A i \in DOMAIN s : Append(s, m)[i] = s[i]
      /\ Append(s, m)[Len(s) + 1] = m
  BY SeqEnd
<1>2. \A i \in DOMAIN Append(s, m) : i \in DOMAIN s \/ i = Len(s) + 1
  BY <1>1
<1>3. m.type # type => /\ None(s, type) => None(Append(s, m), type)
                       /\ Sole(s, type) => Sole(Append(s, m), type)
  BY <1>1, <1>2 DEF None, Sole
<1>4. None(s, type) => Sole(Append(s, m), type)
  BY <1>1, <1>2 DEF None, Sole
<1> QED
  BY <1>3, <1>4

(* What is done to the Peer objects asks for no headers, and brings none.  *)
Calms(l, m) ==
    \A q \in Peers :
        /\ None(l[q].out, "getheaders") => None(m[q].out, "getheaders")
        /\ Sole(l[q].out, "getheaders") => Sole(m[q].out, "getheaders")
        /\ None(l[q].in, "headers") => None(m[q].in, "headers")
        /\ Sole(l[q].in, "headers") => Sole(m[q].in, "headers")
        /\ Waits(m, q) => Waits(l, q)

LEMMA CalmsOn ==
    /\ \A l : Calms(l, l)
    /\ \A l, m, n : Calms(l, m) /\ Calms(m, n) => Calms(l, n)
<1>1. \A l : Calms(l, l)
  BY DEF Calms
<1>2. ASSUME NEW l, NEW m, NEW n, Calms(l, m), Calms(m, n) PROVE Calms(l, n)
  <2> SUFFICES ASSUME NEW q \in Peers
      PROVE  /\ None(l[q].out, "getheaders") => None(n[q].out, "getheaders")
             /\ Sole(l[q].out, "getheaders") => Sole(n[q].out, "getheaders")
             /\ None(l[q].in, "headers") => None(n[q].in, "headers")
             /\ Sole(l[q].in, "headers") => Sole(n[q].in, "headers")
             /\ Waits(n, q) => Waits(l, q)
    BY DEF Calms
  <2> QED
    BY <1>2 DEF Calms
<1> QED
  BY <1>1, <1>2

(* The queues stay as they are.                                            *)
LEMMA SameCalms ==
    ASSUME NEW l, NEW m, \A q \in Peers : /\ m[q].in = l[q].in /\ m[q].out = l[q].out
                                          /\ m[q].conn = "none" => l[q].conn = "none"
    PROVE  Calms(l, m)
  BY DEF Calms, Waits

(* One peer's queues change.                                               *)
LEMMA OneCalms ==
    ASSUME NEW l, NEW m, NEW p \in Peers, \A q \in Peers \ {p} : m[q] = l[q],
           None(l[p].out, "getheaders") => None(m[p].out, "getheaders"),
           Sole(l[p].out, "getheaders") => Sole(m[p].out, "getheaders"),
           None(l[p].in, "headers") => None(m[p].in, "headers"),
           Sole(l[p].in, "headers") => Sole(m[p].in, "headers"),
           Waits(m, p) => Waits(l, p)
    PROVE  Calms(l, m)
<1> SUFFICES ASSUME NEW q \in Peers
      PROVE  /\ None(l[q].out, "getheaders") => None(m[q].out, "getheaders")
             /\ Sole(l[q].out, "getheaders") => Sole(m[q].out, "getheaders")
             /\ None(l[q].in, "headers") => None(m[q].in, "headers")
             /\ Sole(l[q].in, "headers") => Sole(m[q].in, "headers")
             /\ Waits(m, q) => Waits(l, q)
  BY DEF Calms
<1>1. CASE q = p
  BY <1>1
<1>2. CASE q # p
  BY <1>2 DEF Waits
<1> QED
  BY <1>1, <1>2

(* So it keeps who is asked for headers.                                   *)
LEMMA CalmKeeps ==
    ASSUME NEW l, NEW m, Calms(l, m)
    PROVE  /\ \A states, sync : FlightOK(l, states, sync) => FlightOK(m, states, sync)
           /\ \A p \in Peers : Quiet(l, p) => Quiet(m, p)
<1>1. \A p \in Peers : /\ Quiet(l, p) => Quiet(m, p)
                       /\ AtMostOne(l, p) => AtMostOne(m, p)
                       /\ Waits(m, p) => Waits(l, p)
  BY DEF Calms, Quiet, AtMostOne
<1> QED
  BY <1>1 DEF FlightOK

(* Headers are asked of p, from which none are to come.                    *)
AsksOnce(l, m, p) ==
    /\ \A q \in Peers : Waits(m, q) => Waits(l, q)
    /\ \A q \in Peers \ {p} : Quiet(l, q) => Quiet(m, q)
    /\ Quiet(l, p) => AtMostOne(m, p)

LEMMA QuietOnce == \A l, p : Quiet(l, p) => AtMostOne(l, p)
  BY NoneSole DEF Quiet, AtMostOne

LEMMA AsksOnceOn ==
    /\ \A l, p : AsksOnce(l, l, p)
    /\ \A l, m, n : \A p \in Peers : AsksOnce(l, m, p) /\ Calms(m, n) => AsksOnce(l, n, p)
    /\ \A l, m, n : \A p \in Peers : Calms(l, m) /\ AsksOnce(m, n, p) => AsksOnce(l, n, p)
<1>1. \A l, p : AsksOnce(l, l, p)
  BY QuietOnce DEF AsksOnce
<1>3. ASSUME NEW l, NEW m, NEW n, NEW p \in Peers, AsksOnce(l, m, p), Calms(m, n) PROVE AsksOnce(l, n, p)
  <2>1. \A q \in Peers : /\ Waits(n, q) => Waits(m, q)
                         /\ Quiet(m, q) => Quiet(n, q)
                         /\ AtMostOne(m, q) => AtMostOne(n, q)
    BY <1>3 DEF Calms, Quiet, AtMostOne
  <2>2. \A q \in Peers : Waits(n, q) => Waits(l, q)
    BY <1>3, <2>1 DEF AsksOnce
  <2>3. \A q \in Peers \ {p} : Quiet(l, q) => Quiet(n, q)
    BY <1>3, <2>1 DEF AsksOnce
  <2>4. Quiet(l, p) => AtMostOne(n, p)
    BY <1>3, <2>1 DEF AsksOnce
  <2> QED
    BY <2>2, <2>3, <2>4 DEF AsksOnce
<1>4. ASSUME NEW l, NEW m, NEW n, NEW p \in Peers, Calms(l, m), AsksOnce(m, n, p) PROVE AsksOnce(l, n, p)
  <2>1. \A q \in Peers : /\ Waits(m, q) => Waits(l, q)
                         /\ Quiet(l, q) => Quiet(m, q)
    BY <1>4 DEF Calms, Quiet, AtMostOne
  <2>2. \A q \in Peers : Waits(n, q) => Waits(l, q)
    BY <1>4, <2>1 DEF AsksOnce
  <2>3. \A q \in Peers \ {p} : Quiet(l, q) => Quiet(n, q)
    BY <1>4, <2>1 DEF AsksOnce
  <2>4. Quiet(l, p) => AtMostOne(n, p)
    BY <1>4, <2>1 DEF AsksOnce
  <2> QED
    BY <2>2, <2>3, <2>4 DEF AsksOnce
<1> QED
  BY <1>1, <1>3, <1>4

(* So it is when they are asked of the sync peer.                          *)
LEMMA AskKeeps ==
    ASSUME NEW l, NEW m, NEW states, NEW sync \in Peers, sync \in DOMAIN states,
           FlightOK(l, states, sync), Quiet(l, sync), AsksOnce(l, m, sync)
    PROVE  FlightOK(m, states, sync)
<1> SUFFICES ASSUME NEW q \in Peers
             PROVE  /\ q \notin DOMAIN states => (Waits(m, q) => Quiet(m, q))
                    /\ q \in DOMAIN states => (q # sync => Quiet(m, q)) /\ AtMostOne(m, q)
  BY DEF FlightOK
<1>1. CASE q = sync
  BY <1>1 DEF AsksOnce
<1>2. CASE q # sync
  BY <1>2, QuietOnce DEF AsksOnce, FlightOK
<1> QED
  BY <1>1, <1>2
-----------------------------------------------------------------------------
(* The Peer objects.                                                       *)

(* What is done to one takes nothing from its queues.                      *)
Grows(l, m) ==
    \A q \in Peers : /\ m[q].conn \in {l[q].conn, "closed"}
                     /\ m[q].in = l[q].in
                     /\ Elements(l[q].out) \subseteq Elements(m[q].out)

LEMMA GrowsOn ==
    ASSUME NEW l, NEW m, NEW n, Grows(l, m), Grows(m, n)
    PROVE  Grows(l, n)
<1> SUFFICES ASSUME NEW q \in Peers
             PROVE  /\ n[q].conn \in {l[q].conn, "closed"}
                    /\ n[q].in = l[q].in
                    /\ Elements(l[q].out) \subseteq Elements(n[q].out)
  BY DEF Grows
<1> QED
  BY DEF Grows

(* So nothing that is on its way is lost.                                  *)
LEMMA GrowthKeeps ==
    ASSUME NEW l, NEW m, Grows(l, m), NEW states, DOMAIN states \subseteq Peers
    PROVE  /\ NewcomersOK(l, states) => NewcomersOK(m, states)
           /\ \A p \in Peers : \A b : Coming(l, p, b) => Coming(m, p, b)
           /\ \A requested : MarksOK(requested, states, l) => MarksOK(requested, states, m)
<1>1. \A p \in Peers : \A b : Coming(l, p, b) => Coming(m, p, b)
  BY DEF Coming, Grows
<1>2. \A q \in Peers : m[q].in = l[q].in /\ (m[q].conn = "none" => l[q].conn = "none")
  BY DEF Grows
<1>3. NewcomersOK(l, states) => NewcomersOK(m, states)
  BY <1>2 DEF NewcomersOK
<1>4. \A requested : MarksOK(requested, states, l) => MarksOK(requested, states, m)
  BY <1>1 DEF MarksOK
<1> QED
  BY <1>1, <1>3, <1>4

(* A message is queued.                                                    *)
LEMMA QueueToKeeps ==
    ASSUME NEW l, LinkOK(l), NEW p \in Peers, NEW m, Outgoing(m)
    PROVE  /\ LinkOK(QueueTo(l, p, m)) /\ Grows(l, QueueTo(l, p, m))
           /\ m \in Elements(QueueTo(l, p, m)[p].out)
           /\ m.type # "getheaders" => Calms(l, QueueTo(l, p, m))
           /\ AsksOnce(l, QueueTo(l, p, m), p)
<1> DEFINE n == QueueTo(l, p, m)
<1>1. DOMAIN l = Peers /\ DOMAIN l[p] = LinkFields
  BY DEF LinkOK
<1>2. /\ DOMAIN n = Peers /\ \A q \in Peers \ {p} : n[q] = l[q]
      /\ DOMAIN n[p] = LinkFields /\ n[p].out = Append(l[p].out, m)
      /\ \A f \in LinkFields \ {"out"} : n[p][f] = l[p][f]
  BY <1>1 DEF QueueTo, LinkFields
<1>3. /\ n[p].conn = l[p].conn /\ n[p].in = l[p].in /\ n[p].lastBlock = l[p].lastBlock
  BY <1>2 DEF LinkFields
<1> HIDE DEF n
<1>4. IsSeq(n[p].out) /\ Elements(n[p].out) = Elements(l[p].out) \cup {m}
  BY <1>2, SeqEnd DEF LinkOK
<1>5. LinkOK(n)
  BY <1>2, <1>3, <1>4 DEF LinkOK
<1>6. Grows(l, n)
  BY <1>2, <1>3, <1>4 DEF Grows
<1>7. IsSeq(l[p].out)
  BY DEF LinkOK
<1>8. \A q \in Peers : Waits(n, q) => Waits(l, q)
  BY <1>2, <1>3 DEF Waits
<1>9. ASSUME m.type # "getheaders" PROVE Calms(l, n)
  <2>1. /\ None(l[p].out, "getheaders") => None(n[p].out, "getheaders")
        /\ Sole(l[p].out, "getheaders") => Sole(n[p].out, "getheaders")
    BY <1>2, <1>7, <1>9, AppendCalm
  <2>2. n[p].in = l[p].in /\ (Waits(n, p) => Waits(l, p)) /\ \A q \in Peers \ {p} : n[q] = l[q]
    BY <1>2, <1>3, <1>8
  <2>3. /\ None(l[p].in, "headers") => None(n[p].in, "headers")
        /\ Sole(l[p].in, "headers") => Sole(n[p].in, "headers")
    BY <2>2
  <2> QED
    BY <2>1, <2>2, <2>3, OneCalms
<1>10. AsksOnce(l, n, p)
  <2>1. \A q \in Peers \ {p} : Quiet(l, q) => Quiet(n, q)
    BY <1>2 DEF Quiet
  <2>2. Quiet(l, p) => AtMostOne(n, p)
    BY <1>2, <1>3, <1>7, AppendCalm, NoneSole DEF Quiet, AtMostOne
  <2> QED
    BY <1>8, <2>1, <2>2 DEF AsksOnce
<1> QED
  BY <1>4, <1>5, <1>6, <1>9, <1>10 DEF n

(* What the object remembers is set, or the connection is closed.          *)
LEMMA SetKeeps ==
    ASSUME NEW l, LinkOK(l), NEW p \in Peers, NEW x
    PROVE  /\ LinkOK([l EXCEPT ![p].prevGetBlocks = x]) /\ Grows(l, [l EXCEPT ![p].prevGetBlocks = x])
           /\ LinkOK([l EXCEPT ![p].prevGetHdrs = x]) /\ Grows(l, [l EXCEPT ![p].prevGetHdrs = x])
           /\ LinkOK([l EXCEPT ![p].announced = x]) /\ Grows(l, [l EXCEPT ![p].announced = x])
           /\ Calms(l, [l EXCEPT ![p].prevGetBlocks = x]) /\ Calms(l, [l EXCEPT ![p].prevGetHdrs = x])
           /\ Calms(l, [l EXCEPT ![p].announced = x]) /\ Calms(l, HangUp(l, p))
           /\ LinkOK(HangUp(l, p)) /\ Grows(l, HangUp(l, p)) /\ HangUp(l, p)[p].conn = "closed"
           /\ x \in 0 .. Depth => /\ LinkOK(UpdateLastBlockHeight(l, p, x))
                                /\ Grows(l, UpdateLastBlockHeight(l, p, x))
                                /\ Calms(l, UpdateLastBlockHeight(l, p, x))
<1>1. DOMAIN l = Peers /\ DOMAIN l[p] = LinkFields
  BY DEF LinkOK
<1>2. ASSUME NEW n, DOMAIN n = Peers, \A q \in Peers \ {p} : n[q] = l[q], DOMAIN n[p] = LinkFields,
             n[p].in = l[p].in, n[p].out = l[p].out, n[p].conn \in {l[p].conn, "closed"}, n[p].lastBlock \in 0 .. Depth
      PROVE  LinkOK(n) /\ Grows(l, n) /\ Calms(l, n)
  <2>1. LinkOK(n)
    BY <1>2 DEF LinkOK, Connection
  <2>2. Grows(l, n)
    BY <1>2 DEF Grows
  <2>3. Calms(l, n)
    <3>1. \A q \in Peers : /\ n[q].in = l[q].in /\ n[q].out = l[q].out
                           /\ n[q].conn = "none" => l[q].conn = "none"
      BY <1>2
    <3> QED
      BY <3>1, SameCalms
  <2> QED
    BY <2>1, <2>2, <2>3
<1>3. l[p].lastBlock \in 0 .. Depth
  BY DEF LinkOK
<1> DEFINE n1 == [l EXCEPT ![p].prevGetBlocks = x]
           n2 == [l EXCEPT ![p].prevGetHdrs = x]
           n3 == [l EXCEPT ![p].announced = x]
           n4 == [l EXCEPT ![p].conn = "closed"]
           n5 == [l EXCEPT ![p].lastBlock = x]
<1>4. LinkOK(n1) /\ Grows(l, n1) /\ Calms(l, n1)
  <2>1. /\ DOMAIN n1 = Peers /\ \A q \in Peers \ {p} : n1[q] = l[q] /\ DOMAIN n1[p] = LinkFields
        /\ n1[p].in = l[p].in /\ n1[p].out = l[p].out /\ n1[p].conn = l[p].conn /\ n1[p].lastBlock = l[p].lastBlock
        /\ DOMAIN n1[p] = LinkFields
    BY <1>1 DEF LinkFields
  <2> HIDE DEF n1
  <2> QED
    BY <1>2, <1>3, <2>1
<1>5. LinkOK(n2) /\ Grows(l, n2) /\ Calms(l, n2)
  <2>1. /\ DOMAIN n2 = Peers /\ \A q \in Peers \ {p} : n2[q] = l[q] /\ DOMAIN n2[p] = LinkFields
        /\ n2[p].in = l[p].in /\ n2[p].out = l[p].out /\ n2[p].conn = l[p].conn /\ n2[p].lastBlock = l[p].lastBlock
        /\ DOMAIN n2[p] = LinkFields
    BY <1>1 DEF LinkFields
  <2> HIDE DEF n2
  <2> QED
    BY <1>2, <1>3, <2>1
<1>6. LinkOK(n3) /\ Grows(l, n3) /\ Calms(l, n3)
  <2>1. /\ DOMAIN n3 = Peers /\ \A q \in Peers \ {p} : n3[q] = l[q] /\ DOMAIN n3[p] = LinkFields
        /\ n3[p].in = l[p].in /\ n3[p].out = l[p].out /\ n3[p].conn = l[p].conn /\ n3[p].lastBlock = l[p].lastBlock
        /\ DOMAIN n3[p] = LinkFields
    BY <1>1 DEF LinkFields
  <2> HIDE DEF n3
  <2> QED
    BY <1>2, <1>3, <2>1
<1>7. LinkOK(n4) /\ Grows(l, n4) /\ Calms(l, n4) /\ n4[p].conn = "closed"
  <2>1. /\ DOMAIN n4 = Peers /\ \A q \in Peers \ {p} : n4[q] = l[q] /\ DOMAIN n4[p] = LinkFields
        /\ n4[p].in = l[p].in /\ n4[p].out = l[p].out /\ n4[p].conn = "closed" /\ n4[p].lastBlock = l[p].lastBlock
        /\ DOMAIN n4[p] = LinkFields
    BY <1>1 DEF LinkFields
  <2> HIDE DEF n4
  <2> QED
    BY <1>2, <1>3, <2>1
<1>8. ASSUME x \in 0 .. Depth PROVE LinkOK(n5) /\ Grows(l, n5) /\ Calms(l, n5)
  <2>1. /\ DOMAIN n5 = Peers /\ \A q \in Peers \ {p} : n5[q] = l[q] /\ DOMAIN n5[p] = LinkFields
        /\ n5[p].in = l[p].in /\ n5[p].out = l[p].out /\ n5[p].conn = l[p].conn /\ n5[p].lastBlock = x
        /\ DOMAIN n5[p] = LinkFields
    BY <1>1 DEF LinkFields
  <2> HIDE DEF n5
  <2> QED
    BY <1>2, <1>8, <2>1
<1> HIDE DEF n1, n2, n3, n4, n5
<1> QED
  BY <1>4, <1>5, <1>6, <1>7, <1>8 DEF n1, n2, n3, n4, n5, HangUp, UpdateLastBlockHeight

LEMMA GrowsNot == \A l : Grows(l, l)
  BY DEF Grows

(* The requests, which are queued unless they repeat the last.             *)
LEMMA PushKeeps ==
    ASSUME NEW l, LinkOK(l), NEW p \in Peers, NEW locator, NEW begin, NEW stop
    PROVE  /\ LinkOK(PushGetBlocksMsg(l, p, locator, begin, stop))
           /\ Grows(l, PushGetBlocksMsg(l, p, locator, begin, stop))
           /\ LinkOK(PushGetHeadersMsg(l, p, locator, begin, stop))
           /\ Grows(l, PushGetHeadersMsg(l, p, locator, begin, stop))
           /\ Calms(l, PushGetBlocksMsg(l, p, locator, begin, stop))
           /\ AsksOnce(l, PushGetHeadersMsg(l, p, locator, begin, stop), p)
<1> DEFINE g == [type |-> "getblocks", locator |-> locator, stop |-> stop]
           h == [type |-> "getheaders", locator |-> locator, stop |-> stop]
<1>1. Outgoing(g) /\ Outgoing(h) /\ g.type # "getheaders"
  BY DEF Outgoing
<1> HIDE DEF g, h
<1> DEFINE lg == QueueTo(l, p, g)
           lh == QueueTo(l, p, h)
<1>2. LinkOK(lg) /\ Grows(l, lg) /\ LinkOK(lh) /\ Grows(l, lh)
      /\ Calms(l, lg) /\ AsksOnce(l, lh, p)
  BY <1>1, QueueToKeeps
<1> HIDE DEF lg, lh
<1> DEFINE mg == [lg EXCEPT ![p].prevGetBlocks = <<begin, stop>>]
           mh == [lh EXCEPT ![p].prevGetHdrs = <<begin, stop>>]
<1>3. LinkOK(mg) /\ Grows(lg, mg) /\ LinkOK(mh) /\ Grows(lh, mh)
      /\ Calms(lg, mg) /\ Calms(lh, mh)
  BY <1>2, SetKeeps
<1>4. Grows(l, mg) /\ Grows(l, mh) /\ Grows(l, l)
  BY <1>2, <1>3, GrowsOn, GrowsNot
<1>7. Calms(l, mg) /\ Calms(l, l)
  BY <1>2, <1>3, CalmsOn
<1>8. AsksOnce(l, mh, p) /\ AsksOnce(l, l, p)
  BY <1>2, <1>3, AsksOnceOn
<1>5. PushGetBlocksMsg(l, p, locator, begin, stop) \in {l, mg}
  BY DEF PushGetBlocksMsg, mg, lg, g
<1>6. PushGetHeadersMsg(l, p, locator, begin, stop) \in {l, mh}
  BY DEF PushGetHeadersMsg, mh, lh, h
<1> HIDE DEF mg, mh
<1> QED
  BY <1>3, <1>4, <1>5, <1>6, <1>7, <1>8

LEMMA QueueGetDataKeeps ==
    ASSUME NEW l, LinkOK(l), NEW p \in Peers, NEW invs \in Seq(InvVect)
    PROVE  /\ LinkOK(QueueGetData(l, p, invs)) /\ Grows(l, QueueGetData(l, p, invs))
           /\ Calms(l, QueueGetData(l, p, invs))
           /\ \A b \in Elements(invs) : Coming(QueueGetData(l, p, invs), p, b)
<1>1. CASE invs = <<>>
  BY <1>1, NothingQueued, GrowsNot, CalmsOn DEF QueueGetData
<1>2. CASE invs # <<>>
  <2> DEFINE m == [type |-> "getdata", inv |-> invs]
  <2>1. Outgoing(m) /\ m.type = "getdata" /\ m.inv = invs
    BY DEF Outgoing
  <2>2. QueueGetData(l, p, invs) = QueueTo(l, p, m)
    BY <1>2 DEF QueueGetData
  <2> HIDE DEF m
  <2> QED
    BY <2>1, <2>2, QueueToKeeps DEF Coming
<1> QED
  BY <1>1, <1>2
-----------------------------------------------------------------------------
(* The block tree.                                                         *)

(* The recursion of Up is well founded, and stays in the tree.             *)
IsUp(f, n) == f = [k \in 0 .. n |-> [b \in Blocks |-> IF k = 0 THEN b ELSE Prev[f[k - 1][b]]]]

LEMMA DepthNumber == Depth \in Nat
  BY SyncAssumption, FS_CardinalityType DEF Depth

LEMMA UpInTree ==
    /\ \A n \in 0 .. Depth, b \in Blocks : Up[n][b] \in Blocks
    /\ \A b \in Blocks : Up[0][b] = b
<1> DEFINE Reached == {n \in Nat : \E f : IsUp(f, n)}
<1>1. 0 \in Reached
  <2> DEFINE f == [k \in 0 .. 0 |-> [b \in Blocks |-> b]]
  <2>1. IsUp(f, 0)
    BY DEF IsUp
  <2> QED
    BY <2>1
<1>2. ASSUME NEW n \in Nat, n \in Reached PROVE n + 1 \in Reached
  <2>1. PICK f : IsUp(f, n)
    BY <1>2
  <2> DEFINE g == [k \in 0 .. (n + 1) |->
                      IF k <= n THEN f[k] ELSE [b \in Blocks |-> Prev[f[k - 1][b]]]]
  <2>2. \A k \in 0 .. n : f[k] = [b \in Blocks |-> IF k = 0 THEN b ELSE Prev[f[k - 1][b]]]
    BY <2>1 DEF IsUp
  <2>3. \A k \in 0 .. n : g[k] = f[k]
    OBVIOUS
  <2>4. ASSUME NEW k \in 0 .. n PROVE g[k] = [b \in Blocks |-> IF k = 0 THEN b ELSE Prev[g[k - 1][b]]]
    <3>1. CASE k = 0
      BY <2>2, <2>3, <3>1
    <3>2. CASE k # 0
      <4>1. k - 1 \in 0 .. n
        BY <3>2
      <4> QED
        BY <2>2, <2>3, <3>2, <4>1
    <3> QED
      BY <3>1, <3>2
  <2>5. g[n + 1] = [b \in Blocks |-> IF n + 1 = 0 THEN b ELSE Prev[g[n + 1 - 1][b]]]
    <3>1. g[n + 1] = [b \in Blocks |-> Prev[f[n][b]]] /\ g[n] = f[n] /\ n + 1 # 0 /\ n + 1 - 1 = n
      OBVIOUS
    <3> QED
      BY <3>1
  <2>6. \A k \in 0 .. (n + 1) : k \in 0 .. n \/ k = n + 1
    OBVIOUS
  <2>8. DOMAIN g = 0 .. (n + 1) /\ g = [k \in 0 .. (n + 1) |-> g[k]]
    OBVIOUS
  <2> HIDE DEF g
  <2>7. \A k \in 0 .. (n + 1) : g[k] = [b \in Blocks |-> IF k = 0 THEN b ELSE Prev[g[k - 1][b]]]
    BY <2>4, <2>5, <2>6
  <2>9. g = [k \in 0 .. (n + 1) |-> [b \in Blocks |-> IF k = 0 THEN b ELSE Prev[g[k - 1][b]]]]
    BY <2>7, <2>8
  <2> QED
    BY <2>9 DEF IsUp
<1> HIDE DEF Reached
<1>3. Depth \in Reached
  BY <1>1, <1>2, DepthNumber, NaturalsByInduction
<1>4. PICK f : IsUp(f, Depth)
  BY <1>3 DEF Reached
<1>5. IsUp(Up, Depth)
  <2>1. Up = CHOOSE g : IsUp(g, Depth)
    BY DEF Up, IsUp
  <2> QED
    BY <1>4, <2>1
<1>6. \A n \in 0 .. Depth, b \in Blocks : Up[n][b] = IF n = 0 THEN b ELSE Prev[Up[n - 1][b]]
  <2>1. ASSUME NEW g, IsUp(g, Depth), NEW n \in 0 .. Depth, NEW b \in Blocks
        PROVE  g[n][b] = IF n = 0 THEN b ELSE Prev[g[n - 1][b]]
    <3>1. g[n] = [c \in Blocks |-> IF n = 0 THEN c ELSE Prev[g[n - 1][c]]]
      BY <2>1 DEF IsUp
    <3> QED
      BY <3>1
  <2> QED
    BY <1>5, <2>1
<1> DEFINE In == {n \in Nat : n <= Depth => \A b \in Blocks : Up[n][b] \in Blocks}
<1>7. 0 \in In
  BY <1>6, DepthNumber
<1>8. ASSUME NEW n \in Nat, n \in In PROVE n + 1 \in In
  <2> SUFFICES ASSUME n + 1 <= Depth, NEW b \in Blocks PROVE Up[n + 1][b] \in Blocks
    OBVIOUS
  <2>1. n <= Depth /\ n + 1 \in 0 .. Depth /\ n + 1 # 0 /\ n + 1 - 1 = n
    BY DepthNumber
  <2>2. Up[n][b] \in Blocks
    BY <1>8, <2>1
  <2> QED
    BY <1>6, <2>1, <2>2, SyncAssumption
<1> HIDE DEF In
<1>9. \A n \in Nat : n \in In
  BY <1>7, <1>8, NaturalsByInduction
<1> QED
  BY <1>6, <1>9, DepthNumber DEF In

(* Heights are numbers, at most the size of the tree.                      *)
LEMMA Heights ==
    \A b \in Blocks : Ancestors[b] \subseteq Blocks /\ b \in Ancestors[b] /\ Height[b] \in 0 .. Depth
<1> TAKE b \in Blocks
<1>1. Ancestors[b] = {Up[n][b] : n \in 0 .. Depth} /\ Height[b] = Cardinality(Ancestors[b]) - 1
  BY DEF Ancestors, Height
<1>2. Ancestors[b] \subseteq Blocks
  BY <1>1, UpInTree
<1>3. 0 \in 0 .. Depth
  BY DepthNumber
<1>4. b \in Ancestors[b]
  BY <1>1, <1>3, UpInTree
<1>5. IsFiniteSet(Ancestors[b]) /\ Cardinality(Ancestors[b]) <= Depth /\ Cardinality(Ancestors[b]) \in Nat
  BY <1>2, SyncAssumption, FS_Subset, FS_CardinalityType DEF Depth
<1>6. Cardinality(Ancestors[b]) # 0
  BY <1>4, <1>5, FS_EmptySet
<1> QED
  BY <1>1, <1>2, <1>4, <1>5, <1>6, DepthNumber

(* The greatest and the least of some numbers are among them.              *)
LEMMA Extremes ==
    ASSUME NEW T, T # {}, NEW n \in Nat
    PROVE  /\ T \subseteq Nat => Min(T) \in T /\ \A x \in T : Min(T) <= x
           /\ T \subseteq 0 .. n => Max(T) \in T
<1>1. ASSUME T \subseteq Nat PROVE Min(T) \in T /\ \A x \in T : Min(T) <= x
  <2>1. \E x \in T : \A y \in T : x <= y
    BY <1>1, LeastNatural
  <2> QED
    BY <2>1 DEF Min
<1>2. ASSUME T \subseteq 0 .. n PROVE Max(T) \in T
  <2> DEFINE S == {n - x : x \in T}
  <2>1. S \in SUBSET Nat /\ S # {}
    BY <1>2
  <2> HIDE DEF S
  <2>2. PICK s \in S : \A y \in S : s <= y
    BY <2>1, LeastNatural
  <2>3. PICK x \in T : s = n - x
    BY <2>2 DEF S
  <2>4. \A y \in T : n - x <= n - y
    BY <2>2, <2>3 DEF S
  <2>5. \A y \in T : x >= y
    BY <1>2, <2>4
  <2>6. \E z \in T : \A y \in T : z >= y
    BY <2>5
  <2> QED
    BY <2>6 DEF Max
<1> QED
  BY <1>1, <1>2

LEMMA ConnectedInTree ==
    ASSUME ChainOK, NEW b \in Blocks
    PROVE  Connected(b) \in SUBSET Blocks /\ b \in Connected(b)
<1>1. b \in Ancestors[b]
  BY Heights
<1> QED
  BY <1>1 DEF ChainOK, Connected

(* Every tip that a block may leave is a block of the tree.                *)
LEMMA TipsInTree ==
    ASSUME ChainOK, NEW b \in Blocks, NEW t \in TipsAfter(b)
    PROVE  t \in Connected(b) \cup {best}
  BY DEF TipsAfter
-----------------------------------------------------------------------------
(* Lists of blocks.                                                        *)

(* What is wanted of a list.                                               *)
LEMMA WantedIs ==
    ASSUME NEW S, NEW seq \in Seq(S), NEW unwanted
    PROVE  /\ Wanted(seq, unwanted) \in Seq(S) /\ Elements(Wanted(seq, unwanted)) = Elements(seq) \ unwanted
           /\ InOrder(Wanted(seq, unwanted), seq)
<1> DEFINE f == CHOOSE g : IsFilter(g, seq, unwanted)
<1>1. IsFilter(f, seq, unwanted)
  BY FilterExists
<1>2. Wanted(seq, unwanted) = f[Len(seq)]
  BY DEF Wanted, IsFilter
<1> HIDE DEF f
<1> QED
  BY <1>1, <1>2, FilterProperties

(* A part of a list.                                                       *)
LEMMA PartIs ==
    ASSUME NEW S, NEW s \in Seq(S), NEW i \in Nat, NEW j \in Nat, i >= 1, j <= Len(s)
    PROVE  SubSeq(s, i, j) \in Seq(S)
  OBVIOUS

LEMMA ListFromIs ==
    ASSUME NEW list \in Seq(Blocks), NEW e \in Blocks
    PROVE  ListFrom(list, e) \in Seq(Blocks)
<1>1. CASE e \in ToSet(list)
  <2> DEFINE i == CHOOSE k \in DOMAIN list : list[k] = e
  <2>1. i \in DOMAIN list
    BY <1>1 DEF ToSet
  <2>2. ListFrom(list, e) = SubSeq(list, i, Len(list))
    BY <1>1 DEF ListFrom
  <2> HIDE DEF i
  <2>3. i \in Nat /\ i >= 1 /\ Len(list) \in Nat
    BY <2>1
  <2> QED
    BY <2>2, <2>3, PartIs
<1>2. CASE e \notin ToSet(list)
  BY <1>2 DEF ListFrom
<1> QED
  BY <1>1, <1>2

(* What fetchHeaderBlocks asks for, and where it goes on.                  *)
LEMMA NextBlocksIs ==
    ASSUME NEW walk \in Seq(Blocks), NEW known
    PROVE  /\ NextBlocks(walk, known).ask \in Seq(Blocks)
           /\ NextBlocks(walk, known).start \in Blocks \cup {Nil}
<1> DEFINE missing == Wanted(walk, known)
           full == Len(missing) >= MaxInvPerMsg
           ask == IF full THEN SubSeq(missing, 1, MaxInvPerMsg) ELSE missing
           n == IF full THEN CHOOSE i \in DOMAIN walk : walk[i] = Last(ask) ELSE Len(walk)
<1>1. missing \in Seq(Blocks) /\ Elements(missing) \subseteq Elements(walk)
  BY WantedIs
<1>2. /\ NextBlocks(walk, known).ask = ask
      /\ NextBlocks(walk, known).start = IF n < Len(walk) THEN walk[n + 1] ELSE Nil
  BY DEF NextBlocks
<1>3. MaxInvPerMsg \in Nat /\ MaxInvPerMsg >= 1
  BY SyncAssumption
<1> HIDE DEF missing
<1>4. ask \in Seq(Blocks)
  BY <1>1, <1>3, PartIs
<1>5. n < Len(walk) => n + 1 \in DOMAIN walk
  <2>1. CASE full
    <3>1. Len(ask) = MaxInvPerMsg /\ Last(ask) = missing[MaxInvPerMsg] /\ MaxInvPerMsg \in DOMAIN missing
      BY <1>1, <1>3, <2>1 DEF Last
    <3>2. Last(ask) \in Elements(walk)
      BY <1>1, <3>1 DEF Elements
    <3> HIDE DEF ask
    <3>3. \E i \in DOMAIN walk : walk[i] = Last(ask)
      BY <3>2 DEF Elements
    <3>4. n \in DOMAIN walk
      BY <2>1, <3>3
    <3> HIDE DEF n
    <3> QED
      BY <3>4
  <2>2. CASE ~full
    <3>1. n = Len(walk) /\ Len(walk) \in Nat
      BY <2>2
    <3> HIDE DEF n
    <3> QED
      BY <3>1
  <2> QED
    BY <2>1, <2>2
<1> HIDE DEF ask, n
<1> QED
  BY <1>2, <1>4, <1>5

(* The headers that are taken, and the checkpoint to come.                 *)
LEMMA LinkedHeadersIs ==
    ASSUME NEW list, NEW headers \in Seq(Blocks)
    PROVE  LET taken == LinkedHeaders(list, headers).taken
           IN  /\ taken \in Seq(Blocks)
               /\ list \in Seq(Blocks) /\ list # <<>> /\ Linked(list) => Linked(list \o taken)
<1> DEFINE links(i) == /\ headers[i] # Genesis
                       /\ Prev[headers[i]] = IF i = 1 THEN Last(list) ELSE headers[i - 1]
           stop == {i \in DOMAIN headers : \/ ~links(i)
                                           \/ Height[headers[i]] = Height[nextCheckpoint]}
           n == IF stop = {} THEN Len(headers) ELSE Min(stop)
<1>1. LinkedHeaders(list, headers).taken = SubSeq(headers, 1, IF n > 0 /\ ~links(n) THEN n - 1 ELSE n)
  BY DEF LinkedHeaders
<1>2. stop \subseteq 1 .. Len(headers) /\ Len(headers) \in Nat
  OBVIOUS
<1>6. \A i \in DOMAIN headers \ stop : links(i)
  OBVIOUS
<1> HIDE DEF stop
<1>3. stop # {} => Min(stop) \in stop /\ \A i \in stop : Min(stop) <= i
  <2>1. stop \subseteq Nat
    BY <1>2
  <2> QED
    BY <2>1, Extremes
<1>4. n \in 0 .. Len(headers)
  <2>1. CASE stop = {}
    BY <1>2, <2>1
  <2>2. CASE stop # {}
    <3>1. n = Min(stop)
      BY <2>2
    <3> HIDE DEF n
    <3>2. n \in 1 .. Len(headers)
      BY <1>2, <1>3, <2>2, <3>1
    <3> QED
      BY <3>2
  <2> QED
    BY <2>1, <2>2
<1> HIDE DEF n
<1> DEFINE k == IF n > 0 /\ ~links(n) THEN n - 1 ELSE n
<1>5. k \in Nat /\ k <= Len(headers)
  BY <1>2, <1>4
<1>7. ASSUME NEW i \in 1 .. k PROVE links(i) /\ i \in DOMAIN headers
  <2>1. i \in 1 .. n /\ i \in DOMAIN headers
    BY <1>2, <1>4
  <2>2. CASE i = n
    BY <1>4, <2>1, <2>2
  <2>3. CASE i # n
    <3>1. i \notin stop
      <4>1. stop # {} => n = Min(stop)
        BY DEF n
      <4> QED
        BY <1>2, <1>3, <1>4, <2>1, <2>3, <4>1
    <3> QED
      BY <1>6, <2>1, <3>1
  <2> QED
    BY <2>1, <2>2, <2>3
<1> DEFINE taken == LinkedHeaders(list, headers).taken
<1>8. taken = SubSeq(headers, 1, k)
  BY <1>1 DEF k
<1> HIDE DEF k, taken
<1>9. taken \in Seq(Blocks) /\ Len(taken) = k /\ \A i \in 1 .. k : taken[i] = headers[i]
  BY <1>5, <1>8
<1>10. ASSUME list \in Seq(Blocks), list # <<>>, Linked(list) PROVE Linked(list \o taken)
  <2>1. /\ DOMAIN (list \o taken) = 1 .. Len(list) + k /\ Len(list) \in Nat /\ Len(list) >= 1
        /\ \A i \in 1 .. Len(list) : (list \o taken)[i] = list[i]
        /\ \A i \in 1 .. k : i + Len(list) \in Nat /\ (list \o taken)[i + Len(list)] = headers[i]
        /\ Last(list) = list[Len(list)] /\ DOMAIN list = 1 .. Len(list)
    BY <1>5, <1>9, <1>10 DEF Last
  <2> SUFFICES ASSUME NEW j \in DOMAIN (list \o taken), j # 1
               PROVE  (list \o taken)[j] # Genesis /\ Prev[(list \o taken)[j]] = (list \o taken)[j - 1]
    BY DEF Linked
  <2>2. CASE j <= Len(list)
    <3>1. j \in 1 .. Len(list) /\ j - 1 \in 1 .. Len(list)
      BY <1>5, <2>1, <2>2
    <3> QED
      BY <1>10, <2>1, <3>1 DEF Linked
  <2>3. CASE ~(j <= Len(list))
    <3> DEFINE i == j - Len(list)
    <3>4. j \in Nat /\ j > Len(list) /\ j <= Len(list) + k
      BY <1>5, <2>1, <2>3
    <3>1. i \in 1 .. k /\ i + Len(list) = j /\ i - 1 + Len(list) = j - 1 /\ (i # 1 => i - 1 \in 1 .. k)
      BY <1>5, <2>1, <3>4
    <3> HIDE DEF i
    <3>2. (list \o taken)[j] = headers[i] /\ links(i)
      BY <1>7, <2>1, <3>1
    <3>3. (list \o taken)[j - 1] = IF i = 1 THEN Last(list) ELSE headers[i - 1]
      <4>1. CASE i = 1
        <5>1. j - 1 = Len(list) /\ Len(list) \in 1 .. Len(list)
          BY <2>1, <3>1, <4>1
        <5> QED
          BY <2>1, <4>1, <5>1
      <4>2. CASE i # 1
        <5>1. (list \o taken)[(i - 1) + Len(list)] = headers[i - 1]
          BY <2>1, <3>1, <4>2
        <5> QED
          BY <3>1, <4>2, <5>1
      <4> QED
        BY <4>1, <4>2
    <3> QED
      BY <3>2, <3>3 DEF links
  <2> QED
    BY <2>2, <2>3
<1> QED
  BY <1>9, <1>10 DEF taken

LEMMA NextCheckpointIs ==
    ASSUME NEW height
    PROVE  /\ findNextHeaderCheckpoint(height) \in Elements(Checkpoints) \cup {Nil}
           /\ findNextHeaderCheckpoint(height) \in Blocks \cup {Nil}
<1> DEFINE later == {i \in DOMAIN Checkpoints : Height[Checkpoints[i]] > height}
<1>1. Checkpoints \in Seq(Blocks)
  BY SyncAssumption
<1>2. later \subseteq DOMAIN Checkpoints /\ later \subseteq Nat
  BY <1>1
<1>3. findNextHeaderCheckpoint(height) = IF later = {} THEN Nil ELSE Checkpoints[Min(later)]
  BY DEF findNextHeaderCheckpoint
<1> HIDE DEF later
<1>4. later # {} => Min(later) \in DOMAIN Checkpoints
  BY <1>2, Extremes
<1> QED
  BY <1>1, <1>3, <1>4 DEF Elements

(* What a peer answers from its chain.                                     *)
LEMMA PathIs ==
    ASSUME NEW tip \in Blocks
    PROVE  Path[tip] \in Seq(Blocks)
<1>1. Height[tip] \in Nat /\ Height[tip] <= Depth
  BY Heights, DepthNumber
<1>2. Path[tip] = [i \in 1 .. Height[tip] + 1 |-> Up[Height[tip] + 1 - i][tip]]
  BY DEF Path
<1>3. ASSUME NEW i \in 1 .. Height[tip] + 1 PROVE Up[Height[tip] + 1 - i][tip] \in Blocks
  <2>1. Height[tip] + 1 - i \in 0 .. Depth
    BY <1>1, DepthNumber
  <2> QED
    BY <2>1, UpInTree
<1>4. Height[tip] + 1 \in Nat
  BY <1>1
<1>5. ASSUME NEW h \in Nat, NEW f, \A i \in 1 .. h : f[i] \in Blocks
      PROVE  [i \in 1 .. h |-> f[i]] \in Seq(Blocks)
  BY <1>5
<1>6. Path[tip] = [i \in 1 .. Height[tip] + 1 |-> Path[tip][i]]
  BY <1>2
<1>7. \A i \in 1 .. Height[tip] + 1 : Path[tip][i] \in Blocks
  BY <1>2, <1>3
<1> QED
  BY <1>4, <1>5, <1>6, <1>7

LEMMA InventoryIs ==
    ASSUME NEW tip \in Blocks, NEW locator, NEW stop, NEW max \in Nat
    PROVE  locateInventory(tip, locator, stop, max) \in Seq(Blocks)
<1> DEFINE T == {Height[b] : b \in (Ancestors[tip] \cap locator) \cup {Genesis}}
           known == Max(T)
<1>1. PathAbove(tip, locator) = SubSeq(Path[tip], known + 2, Len(Path[tip]))
  BY DEF PathAbove
<1>2. known \in Nat
  <2>1. T \subseteq 0 .. Depth /\ T # {}
    BY Heights, SyncAssumption
  <2> HIDE DEF T
  <2>2. known \in T
    BY <2>1, DepthNumber, Extremes
  <2> HIDE DEF known
  <2> QED
    BY <2>1, <2>2, DepthNumber
<1> HIDE DEF known
<1> DEFINE path == PathAbove(tip, locator)
           upTo == IF stop \in ToSet(path)
                   THEN SubSeq(path, 1, CHOOSE i \in DOMAIN path : path[i] = stop)
                   ELSE path
           n == IF Len(upTo) < max THEN Len(upTo) ELSE max
<1>3. path \in Seq(Blocks)
  <2>1. Path[tip] \in Seq(Blocks) /\ Len(Path[tip]) \in Nat
    BY PathIs
  <2> QED
    BY <1>1, <1>2, <2>1, PartIs
<1> HIDE DEF path
<1>4. upTo \in Seq(Blocks)
  <2>1. CASE stop \in ToSet(path)
    <3> DEFINE i == CHOOSE k \in DOMAIN path : path[k] = stop
    <3>1. i \in DOMAIN path
      BY <2>1 DEF ToSet
    <3>2. upTo = SubSeq(path, 1, i)
      BY <2>1
    <3> HIDE DEF i, upTo
    <3>3. i \in Nat /\ i <= Len(path)
      BY <1>3, <3>1
    <3> QED
      BY <1>3, <3>2, <3>3, PartIs
  <2>2. CASE stop \notin ToSet(path)
    BY <1>3, <2>2
  <2> QED
    BY <2>1, <2>2
<1>5. locateInventory(tip, locator, stop, max) = SubSeq(upTo, 1, n)
  BY DEF locateInventory, path
<1> HIDE DEF upTo
<1>6. n \in Nat /\ n <= Len(upTo)
  BY <1>4
<1> QED
  BY <1>4, <1>5, <1>6, PartIs
-----------------------------------------------------------------------------
(* The answers to an inventory.                                            *)

LEMMA AskAfterKeeps ==
    ASSUME NEW l, LinkOK(l), NEW p \in Peers, NEW iv, NEW last
    PROVE  /\ LinkOK(AskAfter(p, iv, last, l)) /\ Grows(l, AskAfter(p, iv, last, l))
           /\ Calms(l, AskAfter(p, iv, last, l))
<1>1. \/ AskAfter(p, iv, last, l) = l
      \/ AskAfter(p, iv, last, l) = PushGetBlocksMsg(l, p, LatestBlockLocator, best, GetOrphanRoot(iv))
      \/ AskAfter(p, iv, last, l) = PushGetBlocksMsg(l, p, Ancestors[iv], iv, Nil)
  BY DEF AskAfter
<1> QED
  BY <1>1, PushKeeps, GrowsNot, CalmsOn

(* One inventory vector after the other.                                   *)
IsAsking(f, n, p, invs, last, l) ==
    f = [k \in 0 .. n |-> IF k = 0 THEN l ELSE AskAfter(p, invs[k], last, f[k - 1])]

LEMMA AskForMoreKeeps ==
    ASSUME NEW l, LinkOK(l), NEW p \in Peers, NEW invs \in Seq(InvVect), NEW last
    PROVE  /\ LinkOK(AskForMore(p, invs, last, l)) /\ Grows(l, AskForMore(p, invs, last, l))
           /\ Calms(l, AskForMore(p, invs, last, l))
<1> DEFINE Reached == {n \in Nat : \E f : IsAsking(f, n, p, invs, last, l)}
<1>1. 0 \in Reached
  <2> DEFINE f == [k \in 0 .. 0 |-> l]
  <2>1. IsAsking(f, 0, p, invs, last, l)
    BY DEF IsAsking
  <2> QED
    BY <2>1
<1>2. ASSUME NEW n \in Nat, n \in Reached PROVE n + 1 \in Reached
  <2>1. PICK f : IsAsking(f, n, p, invs, last, l)
    BY <1>2
  <2> DEFINE g == [k \in 0 .. (n + 1) |-> IF k <= n THEN f[k] ELSE AskAfter(p, invs[k], last, f[k - 1])]
  <2>2. \A k \in 0 .. n : f[k] = IF k = 0 THEN l ELSE AskAfter(p, invs[k], last, f[k - 1])
    BY <2>1 DEF IsAsking
  <2>3. \A k \in 0 .. n : g[k] = f[k]
    OBVIOUS
  <2>4. ASSUME NEW k \in 0 .. n PROVE g[k] = IF k = 0 THEN l ELSE AskAfter(p, invs[k], last, g[k - 1])
    <3>1. CASE k = 0
      BY <2>2, <2>3, <3>1
    <3>2. CASE k # 0
      <4>1. k - 1 \in 0 .. n
        BY <3>2
      <4>2. g[k] = f[k] /\ g[k - 1] = f[k - 1] /\ f[k] = AskAfter(p, invs[k], last, f[k - 1])
        BY <2>2, <2>3, <3>2, <4>1
      <4> HIDE DEF g
      <4> QED
        BY <3>2, <4>2
    <3> QED
      BY <3>1, <3>2
  <2>5. ASSUME NEW k, k = n + 1 PROVE g[k] = IF k = 0 THEN l ELSE AskAfter(p, invs[k], last, g[k - 1])
    <3>1. k \in 0 .. (n + 1) /\ ~(k <= n) /\ k # 0 /\ k - 1 = n /\ n \in 0 .. n
      BY <2>5
    <3>2. g[k - 1] = f[k - 1]
      BY <2>3, <3>1
    <3>3. g[k] = IF k <= n THEN f[k] ELSE AskAfter(p, invs[k], last, f[k - 1])
      BY <3>1
    <3>4. g[k] = AskAfter(p, invs[k], last, f[k - 1])
      BY <3>1, <3>3
    <3> HIDE DEF g
    <3> QED
      BY <3>1, <3>2, <3>4
  <2>6. \A k \in 0 .. (n + 1) : k \in 0 .. n \/ k = n + 1
    OBVIOUS
  <2>7. g = [k \in 0 .. (n + 1) |-> g[k]]
    OBVIOUS
  <2> HIDE DEF g
  <2>8. \A k \in 0 .. (n + 1) : g[k] = IF k = 0 THEN l ELSE AskAfter(p, invs[k], last, g[k - 1])
    BY <2>4, <2>5, <2>6
  <2>9. g = [k \in 0 .. (n + 1) |-> IF k = 0 THEN l ELSE AskAfter(p, invs[k], last, g[k - 1])]
    BY <2>7, <2>8
  <2>10. IsAsking(g, n + 1, p, invs, last, l)
    BY <2>9 DEF IsAsking
  <2> QED
    BY <2>10
<1> HIDE DEF Reached
<1>3. Len(invs) \in Reached /\ Len(invs) \in Nat
  BY <1>1, <1>2, NaturalsByInduction
<1> DEFINE pushed == CHOOSE f : IsAsking(f, Len(invs), p, invs, last, l)
<1>4. IsAsking(pushed, Len(invs), p, invs, last, l)
  BY <1>3 DEF Reached
<1>5. AskForMore(p, invs, last, l) = pushed[Len(invs)]
  BY DEF AskForMore, IsAsking
<1> HIDE DEF pushed
<1>6. \A k \in 0 .. Len(invs) : pushed[k] = IF k = 0 THEN l ELSE AskAfter(p, invs[k], last, pushed[k - 1])
  BY <1>4 DEF IsAsking
<1> DEFINE Holds == {n \in Nat : n <= Len(invs) => LinkOK(pushed[n]) /\ Grows(l, pushed[n]) /\ Calms(l, pushed[n])}
<1>7. 0 \in Holds
  BY <1>3, <1>6, GrowsNot, CalmsOn
<1>8. ASSUME NEW n \in Nat, n \in Holds PROVE n + 1 \in Holds
  <2> SUFFICES ASSUME n + 1 <= Len(invs)
                PROVE  LinkOK(pushed[n + 1]) /\ Grows(l, pushed[n + 1]) /\ Calms(l, pushed[n + 1])
    OBVIOUS
  <2>1. n <= Len(invs) /\ n + 1 \in 0 .. Len(invs) /\ n + 1 # 0 /\ n + 1 - 1 = n
    BY <1>3
  <2>2. LinkOK(pushed[n]) /\ Grows(l, pushed[n]) /\ Calms(l, pushed[n])
    BY <1>8, <2>1
  <2>3. pushed[n + 1] = AskAfter(p, invs[n + 1], last, pushed[n])
    BY <1>6, <2>1
  <2> QED
    BY <2>2, <2>3, AskAfterKeeps, GrowsOn, CalmsOn
<1> HIDE DEF Holds
<1>9. Len(invs) \in Holds
  BY <1>3, <1>7, <1>8, NaturalsByInduction
<1> QED
  BY <1>5, <1>9 DEF Holds

(* A way to turn the request queue into one getdata: what becomes pending  *)
(* is asked for.                                                           *)
WayOK(o, S) ==
    /\ DOMAIN o = {"blocks", "txns", "ask", "rest"}
    /\ o.blocks \subseteq requestedBlocks \cup (Elements(o.ask) \cap Blocks)
    /\ o.txns \subseteq Txs /\ o.ask \in Seq(S) /\ o.rest \in Seq(S)

LEMMA LimitIs == \A m, limit : \A n \in limitMap(m, limit) : n \subseteq m
  BY DEF limitMap

LEMMA DrainedKeeps ==
    ASSUME NEW S \in SUBSET InvVect, NEW o, WayOK(o, S), NEW iv \in S, NEW q \in Drained(o, iv)
    PROVE  WayOK(q, S)
<1>1. o.ask \in Seq(S) /\ o.rest \in Seq(S)
  BY DEF WayOK
<1>2. /\ Append(o.ask, iv) \in Seq(S) /\ Elements(Append(o.ask, iv)) = Elements(o.ask) \cup {iv}
      /\ Append(o.rest, iv) \in Seq(S)
  BY <1>1, QueueAppend
<1> DEFINE ask == Append(o.ask, iv)
           rest == Append(o.rest, iv)
<1> HIDE DEF ask, rest
<1>3. CASE Len(o.ask) >= MaxInvPerMsg
  <2>1. q = [o EXCEPT !.rest = rest]
    BY <1>3 DEF Drained, rest
  <2>2. DOMAIN q = DOMAIN o /\ q.rest = rest /\ q.blocks = o.blocks /\ q.txns = o.txns /\ q.ask = o.ask
    BY <2>1 DEF WayOK
  <2> QED
    BY <1>2, <2>2 DEF WayOK, rest
<1>4. CASE q = o
  BY <1>4
<1>5. CASE ~(Len(o.ask) >= MaxInvPerMsg) /\ ~IsPending(o, iv) /\ iv \in Blocks
  <2>1. PICK m \in limitMap(o.blocks \cup {iv}, maxRequestedBlocks) : q = [o EXCEPT !.blocks = m, !.ask = ask]
    BY <1>5 DEF Drained, ask
  <2>2. DOMAIN q = DOMAIN o /\ q.rest = o.rest /\ q.blocks = m /\ q.txns = o.txns /\ q.ask = ask
    BY <2>1 DEF WayOK
  <2>3. m \subseteq o.blocks \cup {iv}
    BY <2>1, LimitIs
  <2> QED
    BY <1>2, <1>5, <2>2, <2>3 DEF WayOK, ask
<1>6. CASE ~(Len(o.ask) >= MaxInvPerMsg) /\ ~IsPending(o, iv) /\ iv \notin Blocks
  <2>1. PICK m \in limitMap(o.txns \cup {iv}, maxRequestedTxns) : q = [o EXCEPT !.txns = m, !.ask = ask]
    BY <1>6 DEF Drained, ask
  <2>2. DOMAIN q = DOMAIN o /\ q.rest = o.rest /\ q.blocks = o.blocks /\ q.txns = m /\ q.ask = ask
    BY <2>1 DEF WayOK
  <2>3. m \subseteq o.txns \cup {iv} /\ iv \in Txs
    BY <1>6, <2>1, LimitIs DEF InvVect
  <2> QED
    BY <1>2, <2>2, <2>3 DEF WayOK, ask
<1>7. IsPending(o, iv) /\ ~(Len(o.ask) >= MaxInvPerMsg) => q = o
  BY DEF Drained
<1> QED
  BY <1>3, <1>4, <1>5, <1>6, <1>7

(* One entry of the queue after the other.                                 *)
Undrained == [blocks |-> requestedBlocks, txns |-> requestedTxns, ask |-> <<>>, rest |-> <<>>]
IsDraining(f, n, queue) ==
    f = [k \in 0 .. n |-> IF k = 0 THEN {Undrained} ELSE UNION {Drained(o, queue[k]) : o \in f[k - 1]}]

LEMMA DrainQueueKeeps ==
    ASSUME ManagerOK, NEW S \in SUBSET InvVect, NEW queue \in Seq(S), NEW o \in DrainQueue(queue)
    PROVE  WayOK(o, S)
<1> DEFINE Reached == {n \in Nat : \E f : IsDraining(f, n, queue)}
<1>1. 0 \in Reached
  <2> DEFINE f == [k \in 0 .. 0 |-> {Undrained}]
  <2>1. IsDraining(f, 0, queue)
    BY DEF IsDraining
  <2> QED
    BY <2>1
<1>2. ASSUME NEW n \in Nat, n \in Reached PROVE n + 1 \in Reached
  <2>1. PICK f : IsDraining(f, n, queue)
    BY <1>2
  <2> DEFINE g == [k \in 0 .. (n + 1) |-> IF k <= n THEN f[k] ELSE UNION {Drained(q, queue[k]) : q \in f[k - 1]}]
  <2>2. \A k \in 0 .. n : f[k] = IF k = 0 THEN {Undrained} ELSE UNION {Drained(q, queue[k]) : q \in f[k - 1]}
    BY <2>1 DEF IsDraining
  <2>3. \A k \in 0 .. n : g[k] = f[k]
    OBVIOUS
  <2>4. ASSUME NEW k \in 0 .. n PROVE g[k] = IF k = 0 THEN {Undrained} ELSE UNION {Drained(q, queue[k]) : q \in g[k - 1]}
    <3>1. CASE k = 0
      BY <2>2, <2>3, <3>1
    <3>2. CASE k # 0
      <4>1. k - 1 \in 0 .. n
        BY <3>2
      <4>2. g[k] = f[k] /\ g[k - 1] = f[k - 1] /\ f[k] = UNION {Drained(q, queue[k]) : q \in f[k - 1]}
        BY <2>2, <2>3, <3>2, <4>1
      <4> HIDE DEF g
      <4> QED
        BY <3>2, <4>2
    <3> QED
      BY <3>1, <3>2
  <2>5. ASSUME NEW k, k = n + 1 PROVE g[k] = IF k = 0 THEN {Undrained} ELSE UNION {Drained(q, queue[k]) : q \in g[k - 1]}
    <3>1. k \in 0 .. (n + 1) /\ ~(k <= n) /\ k # 0 /\ k - 1 = n /\ n \in 0 .. n
      BY <2>5
    <3>2. g[k - 1] = f[k - 1]
      BY <2>3, <3>1
    <3>3. g[k] = IF k <= n THEN f[k] ELSE UNION {Drained(q, queue[k]) : q \in f[k - 1]}
      BY <3>1
    <3>4. g[k] = UNION {Drained(q, queue[k]) : q \in f[k - 1]}
      BY <3>1, <3>3
    <3> HIDE DEF g
    <3> QED
      BY <3>1, <3>2, <3>4
  <2>6. \A k \in 0 .. (n + 1) : k \in 0 .. n \/ k = n + 1
    OBVIOUS
  <2>7. g = [k \in 0 .. (n + 1) |-> g[k]]
    OBVIOUS
  <2> HIDE DEF g
  <2>8. \A k \in 0 .. (n + 1) : g[k] = IF k = 0 THEN {Undrained} ELSE UNION {Drained(q, queue[k]) : q \in g[k - 1]}
    BY <2>4, <2>5, <2>6
  <2>9. g = [k \in 0 .. (n + 1) |-> IF k = 0 THEN {Undrained} ELSE UNION {Drained(q, queue[k]) : q \in g[k - 1]}]
    BY <2>7, <2>8
  <2>10. IsDraining(g, n + 1, queue)
    BY <2>9 DEF IsDraining
  <2> QED
    BY <2>10
<1> HIDE DEF Reached
<1>3. Len(queue) \in Reached /\ Len(queue) \in Nat
  BY <1>1, <1>2, NaturalsByInduction
<1> DEFINE ways == CHOOSE f : IsDraining(f, Len(queue), queue)
<1>4. IsDraining(ways, Len(queue), queue)
  BY <1>3 DEF Reached
<1>5. DrainQueue(queue) = ways[Len(queue)]
  BY DEF DrainQueue, IsDraining, Undrained
<1> HIDE DEF ways
<1>6. \A k \in 0 .. Len(queue) :
        ways[k] = IF k = 0 THEN {Undrained} ELSE UNION {Drained(q, queue[k]) : q \in ways[k - 1]}
  BY <1>4 DEF IsDraining
<1> DEFINE Holds == {n \in Nat : n <= Len(queue) => \A q \in ways[n] : WayOK(q, S)}
<1>7. 0 \in Holds
  <2>1. WayOK(Undrained, S)
    BY NothingQueued DEF WayOK, Undrained, ManagerOK
  <2>2. 0 \in 0 .. Len(queue)
    BY <1>3
  <2>3. ways[0] = {Undrained}
    BY <1>6, <2>2
  <2> QED
    BY <2>1, <2>3
<1>8. ASSUME NEW n \in Nat, n \in Holds PROVE n + 1 \in Holds
  <2> SUFFICES ASSUME n + 1 <= Len(queue), NEW q \in ways[n + 1] PROVE WayOK(q, S)
    OBVIOUS
  <2>1. n <= Len(queue) /\ n + 1 \in 0 .. Len(queue) /\ n + 1 # 0 /\ n + 1 - 1 = n /\ queue[n + 1] \in S
    BY <1>3
  <2>4. ASSUME NEW k \in 0 .. Len(queue), k # 0, NEW d \in ways[k]
        PROVE  \E r \in ways[k - 1] : d \in Drained(r, queue[k])
    <3>1. ways[k] = UNION {Drained(r, queue[k]) : r \in ways[k - 1]}
      BY <1>6, <2>4
    <3> QED
      BY <2>4, <3>1
  <2>5. \E r \in ways[n + 1 - 1] : q \in Drained(r, queue[n + 1])
    BY <2>1, <2>4
  <2>2. PICK r \in ways[n] : q \in Drained(r, queue[n + 1])
    BY <2>1, <2>5
  <2>3. WayOK(r, S)
    BY <1>8, <2>1, <2>2
  <2> QED
    BY <2>1, <2>2, <2>3, DrainedKeeps
<1> HIDE DEF Holds
<1>9. Len(queue) \in Holds
  BY <1>3, <1>7, <1>8, NaturalsByInduction
<1> QED
  BY <1>5, <1>9 DEF Holds

(* What OnGetData sends: the blocks asked for, and inventory.              *)
DataFor(p, iv) == IF iv \in Txs THEN <<[type |-> "tx", tx |-> iv]>> ELSE PushBlockMsg(p, iv)
IsSending(f, n, p, invs) == f = [k \in 0 .. n |-> IF k = 0 THEN <<>> ELSE f[k - 1] \o DataFor(p, invs[k])]

LEMMA SentIs ==
    ASSUME RemoteOK, NEW p \in Peers, NEW iv \in InvVect
    PROVE  /\ IsSeq(DataFor(p, iv))
           /\ \A m \in Elements(DataFor(p, iv)) : Incoming(m) /\ m.type \notin {"newpeer", "headers"}
           /\ iv \in Blocks => \E m \in Elements(DataFor(p, iv)) : m.type = "block" /\ m.block = iv
<1>1. CASE iv \in Txs
  <2> DEFINE m == [type |-> "tx", tx |-> iv]
  <2>1. Incoming(m) /\ m.type \notin {"newpeer", "headers"} /\ DataFor(p, iv) = <<m>>
    BY <1>1 DEF Incoming, DataFor
  <2> HIDE DEF m
  <2> QED
    BY <1>1, <2>1, SeqSmall, SyncAssumption
<1>2. CASE iv \notin Txs
  <2> DEFINE m == [type |-> "block", block |-> iv]
             tip == <<remote[p].tip>>
             n == [type |-> "inv", inv |-> tip]
             more == IF iv = remote[p].continueHash THEN <<n>> ELSE <<>>
  <2>1. Incoming(m) /\ m.type = "block" /\ m.block = iv /\ DataFor(p, iv) = <<m>> \o more
    BY <1>2 DEF Incoming, DataFor, InvVect, PushBlockMsg
  <2>2. tip \in Seq(InvVect)
    BY DEF RemoteOK, InvVect
  <2> HIDE DEF m, tip
  <2>3. Incoming(n) /\ n.type = "inv"
    BY <2>2 DEF Incoming
  <2> HIDE DEF n
  <2>4. IsSeq(more) /\ Elements(more) \subseteq {n} /\ IsSeq(<<m>>) /\ Elements(<<m>>) = {m}
    BY SeqSmall
  <2> HIDE DEF more
  <2>5. IsSeq(<<m>> \o more) /\ Elements(<<m>> \o more) = {m} \cup Elements(more)
    BY <2>4, SeqJoin
  <2> QED
    BY <2>1, <2>3, <2>4, <2>5
<1> QED
  BY <1>1, <1>2

LEMMA DataIs ==
    ASSUME RemoteOK, NEW p \in Peers, NEW invs \in Seq(InvVect)
    PROVE  /\ IsSeq(Data(p, invs))
           /\ \A m \in Elements(Data(p, invs)) : Incoming(m) /\ m.type \notin {"newpeer", "headers"}
           /\ \A b \in Elements(invs) \cap Blocks :
                \E m \in Elements(Data(p, invs)) : m.type = "block" /\ m.block = b
<1> DEFINE Reached == {n \in Nat : \E f : IsSending(f, n, p, invs)}
<1>1. 0 \in Reached
  <2> DEFINE f == [k \in 0 .. 0 |-> <<>>]
  <2>1. IsSending(f, 0, p, invs)
    BY DEF IsSending
  <2> QED
    BY <2>1
<1>2. ASSUME NEW n \in Nat, n \in Reached PROVE n + 1 \in Reached
  <2>1. PICK f : IsSending(f, n, p, invs)
    BY <1>2
  <2> DEFINE g == [k \in 0 .. (n + 1) |-> IF k <= n THEN f[k] ELSE f[k - 1] \o DataFor(p, invs[k])]
  <2>2. \A k \in 0 .. n : f[k] = IF k = 0 THEN <<>> ELSE f[k - 1] \o DataFor(p, invs[k])
    BY <2>1 DEF IsSending
  <2>3. \A k \in 0 .. n : g[k] = f[k]
    OBVIOUS
  <2>4. ASSUME NEW k \in 0 .. n PROVE g[k] = IF k = 0 THEN <<>> ELSE g[k - 1] \o DataFor(p, invs[k])
    <3>1. CASE k = 0
      BY <2>2, <2>3, <3>1
    <3>2. CASE k # 0
      <4>1. k - 1 \in 0 .. n
        BY <3>2
      <4>2. g[k] = f[k] /\ g[k - 1] = f[k - 1] /\ f[k] = f[k - 1] \o DataFor(p, invs[k])
        BY <2>2, <2>3, <3>2, <4>1
      <4> HIDE DEF g
      <4> QED
        BY <3>2, <4>2
    <3> QED
      BY <3>1, <3>2
  <2>5. ASSUME NEW k, k = n + 1 PROVE g[k] = IF k = 0 THEN <<>> ELSE g[k - 1] \o DataFor(p, invs[k])
    <3>1. k \in 0 .. (n + 1) /\ ~(k <= n) /\ k # 0 /\ k - 1 = n /\ n \in 0 .. n
      BY <2>5
    <3>2. g[k - 1] = f[k - 1]
      BY <2>3, <3>1
    <3>3. g[k] = IF k <= n THEN f[k] ELSE f[k - 1] \o DataFor(p, invs[k])
      BY <3>1
    <3>4. g[k] = f[k - 1] \o DataFor(p, invs[k])
      BY <3>1, <3>3
    <3> HIDE DEF g
    <3> QED
      BY <3>1, <3>2, <3>4
  <2>6. \A k \in 0 .. (n + 1) : k \in 0 .. n \/ k = n + 1
    OBVIOUS
  <2>7. g = [k \in 0 .. (n + 1) |-> g[k]]
    OBVIOUS
  <2> HIDE DEF g
  <2>8. \A k \in 0 .. (n + 1) : g[k] = IF k = 0 THEN <<>> ELSE g[k - 1] \o DataFor(p, invs[k])
    BY <2>4, <2>5, <2>6
  <2>9. g = [k \in 0 .. (n + 1) |-> IF k = 0 THEN <<>> ELSE g[k - 1] \o DataFor(p, invs[k])]
    BY <2>7, <2>8
  <2>10. IsSending(g, n + 1, p, invs)
    BY <2>9 DEF IsSending
  <2> QED
    BY <2>10
<1> HIDE DEF Reached
<1>3. Len(invs) \in Reached /\ Len(invs) \in Nat /\ DOMAIN invs = 1 .. Len(invs)
  BY <1>1, <1>2, NaturalsByInduction
<1> DEFINE sent == CHOOSE f : IsSending(f, Len(invs), p, invs)
<1>4. IsSending(sent, Len(invs), p, invs)
  BY <1>3 DEF Reached
<1>5. Data(p, invs) = sent[Len(invs)]
  BY DEF Data, IsSending, DataFor
<1> HIDE DEF sent
<1>6. \A k \in 0 .. Len(invs) : sent[k] = IF k = 0 THEN <<>> ELSE sent[k - 1] \o DataFor(p, invs[k])
  BY <1>4 DEF IsSending
<1> DEFINE Here(n) == /\ IsSeq(sent[n])
                      /\ \A m \in Elements(sent[n]) : Incoming(m) /\ m.type \notin {"newpeer", "headers"}
                      /\ \A i \in 1 .. n : invs[i] \in Blocks =>
                           \E m \in Elements(sent[n]) : m.type = "block" /\ m.block = invs[i]
           Holds == {n \in Nat : n <= Len(invs) => Here(n)}
<1>7. 0 \in Holds
  <2>1. sent[0] = <<>>
    BY <1>3, <1>6
  <2> QED
    BY <2>1, SeqSmall
<1>8. ASSUME NEW n \in Nat, n \in Holds PROVE n + 1 \in Holds
  <2> SUFFICES ASSUME n + 1 <= Len(invs) PROVE Here(n + 1)
    OBVIOUS
  <2>1. /\ n <= Len(invs) /\ n + 1 \in 0 .. Len(invs) /\ n + 1 # 0 /\ n + 1 - 1 = n
        /\ invs[n + 1] \in InvVect
    BY <1>3
  <2>2. Here(n)
    BY <1>8, <2>1
  <2>7. ASSUME NEW k \in 0 .. Len(invs), NEW i \in Nat, k = i + 1
        PROVE  sent[k] = sent[i] \o DataFor(p, invs[k])
    <3>1. k # 0 /\ k - 1 = i
      BY <2>7
    <3> QED
      BY <1>6, <3>1
  <2>3. sent[n + 1] = sent[n] \o DataFor(p, invs[n + 1])
    BY <2>1, <2>7
  <2> DEFINE now == DataFor(p, invs[n + 1])
  <2>4. /\ IsSeq(now) /\ \A m \in Elements(now) : Incoming(m) /\ m.type \notin {"newpeer", "headers"}
        /\ invs[n + 1] \in Blocks => \E m \in Elements(now) : m.type = "block" /\ m.block = invs[n + 1]
    BY <2>1, SentIs
  <2> HIDE DEF now
  <2>5. IsSeq(sent[n + 1]) /\ Elements(sent[n + 1]) = Elements(sent[n]) \cup Elements(now)
    BY <2>2, <2>3, <2>4, SeqJoin DEF now
  <2>6. \A i \in 1 .. n + 1 : i \in 1 .. n \/ i = n + 1
    OBVIOUS
  <2> QED
    BY <2>2, <2>4, <2>5, <2>6
<1> HIDE DEF Holds
<1>9. Len(invs) \in Holds
  BY <1>3, <1>7, <1>8, NaturalsByInduction
<1>10. Here(Len(invs))
  BY <1>3, <1>9 DEF Holds
<1> QED
  BY <1>3, <1>5, <1>10 DEF Elements
-----------------------------------------------------------------------------
(* The steps of the manager.                                               *)

(* The oldest message of a peer is taken: what else is on its way stays.   *)
LEMMA Receiving ==
    ASSUME SyncInv, NEW p \in Peers, NEW type, Receives(p, type)
    PROVE  /\ LinkOK(Received(p)) /\ NewcomersOK(Received(p), peerStates)
           /\ Received(p)[p].conn # "none"
           /\ \A q \in Peers : Received(p)[q].conn = link[q].conn
           /\ \A i \in DOMAIN Received(p)[p].in : Received(p)[p].in[i].type # "newpeer"
           /\ Incoming(Head(link[p].in)) /\ Head(link[p].in).type = type
           /\ \A q \in Peers : \A b : Coming(link, q, b) =>
                Coming(Received(p), q, b) \/ (q = p /\ type = "block" /\ Head(link[p].in).block = b)
           /\ type # "block" \/ p \notin DOMAIN peerStates => MarksOK(requestedBlocks, peerStates, Received(p))
           /\ type = "newpeer" => p \notin DOMAIN peerStates
<1> DEFINE l == Received(p)
           s == link[p].in
<1>1. LinkOK(link) /\ NewcomersOK(link, peerStates) /\ MarksOK(requestedBlocks, peerStates, link)
  BY DEF SyncInv
<1>2. /\ DOMAIN link = Peers /\ DOMAIN link[p] = LinkFields
      /\ link[p].conn # "none" /\ s # <<>> /\ Head(s).type = type /\ IsSeq(s)
      /\ \A m \in Elements(s) : Incoming(m)
  BY <1>1 DEF LinkOK, Receives
<1>3. /\ DOMAIN l = Peers /\ \A q \in Peers \ {p} : l[q] = link[q]
      /\ DOMAIN l[p] = LinkFields /\ l[p].in = Tail(s)
      /\ l[p].conn = link[p].conn /\ l[p].out = link[p].out /\ l[p].lastBlock = link[p].lastBlock
  BY <1>2 DEF Received, LinkFields
<1> HIDE DEF l
<1>4. /\ IsSeq(Tail(s)) /\ Elements(s) = Elements(Tail(s)) \cup {Head(s)}
      /\ 1 \in DOMAIN s /\ Head(s) = s[1]
      /\ \A i \in DOMAIN Tail(s) : i \in Nat /\ i >= 1 /\ i + 1 \in DOMAIN s /\ Tail(s)[i] = s[i + 1]
  BY <1>2, SeqTail
<1>5. LinkOK(l)
  BY <1>1, <1>2, <1>3, <1>4 DEF LinkOK
<1>6. \A i \in DOMAIN Tail(s) : Tail(s)[i].type # "newpeer"
  <2> SUFFICES ASSUME NEW i \in DOMAIN Tail(s), Tail(s)[i].type = "newpeer" PROVE FALSE
    OBVIOUS
  <2>1. i + 1 \in DOMAIN s /\ s[i + 1].type = "newpeer" /\ i + 1 # 1
    BY <1>4
  <2> QED
    BY <1>1, <2>1 DEF NewcomersOK
<1>7. NewcomersOK(l, peerStates)
  BY <1>1, <1>2, <1>3, <1>6 DEF NewcomersOK
<1>8. ASSUME NEW q \in Peers, NEW b, Coming(link, q, b)
      PROVE  Coming(l, q, b) \/ (q = p /\ type = "block" /\ Head(s).block = b)
  <2>1. CASE q # p
    BY <1>3, <1>8, <2>1 DEF Coming
  <2>2. CASE q = p
    BY <1>2, <1>3, <1>4, <1>8, <2>2 DEF Coming
  <2> QED
    BY <2>1, <2>2
<1>9. ASSUME type # "block" \/ p \notin DOMAIN peerStates PROVE MarksOK(requestedBlocks, peerStates, l)
  <2>1. DOMAIN peerStates \subseteq Peers
    BY DEF SyncInv, ManagerOK, StatesOK
  <2> QED
    BY <1>1, <1>8, <1>9, <2>1 DEF MarksOK
<1>10. type = "newpeer" => p \notin DOMAIN peerStates
  BY <1>1, <1>2, <1>4 DEF NewcomersOK
<1>11. Incoming(Head(s)) /\ l[p].conn # "none"
  BY <1>2, <1>3, <1>4
<1>12. \A q \in Peers : l[q].conn = link[q].conn
  BY <1>3
<1>13. \A i \in DOMAIN l[p].in : l[p].in[i].type # "newpeer"
  BY <1>3, <1>6
<1> QED
  BY <1>2, <1>5, <1>7, <1>8, <1>9, <1>10, <1>11, <1>12, <1>13 DEF l

(* What is true of the Peer objects stays true as they grow.               *)
LEMMA Onward ==
    ASSUME NEW states, StatesOK(states), NEW requested, NEW l, NEW m, Grows(l, m), LinkOK(m),
           NewcomersOK(l, states), MarksOK(requested, states, l)
    PROVE  LinkOK(m) /\ NewcomersOK(m, states) /\ MarksOK(requested, states, m)
<1>1. DOMAIN states \subseteq Peers
  BY DEF StatesOK
<1> QED
  BY <1>1, GrowthKeeps

(* A new sync peer, or none.                                               *)
LEMMA StartSyncKeeps ==
    ASSUME NEW states, NEW requested, NEW l, StatesOK(states), requested \subseteq Blocks,
           LinkOK(l), NewcomersOK(l, states), MarksOK(requested, states, l), Nil \notin Peers,
           startSync(states, requested, FALSE, l)
    PROVE  /\ StatesOK(peerStates') /\ requestedBlocks' \subseteq Blocks
           /\ syncPeer' \in Peers \cup {Nil} /\ headersFirstMode' \in BOOLEAN
           /\ syncPeer' # Nil => syncPeer' \in DOMAIN peerStates'
           /\ headersFirstMode' => syncPeer' # Nil /\ nextCheckpoint # Nil
           /\ LinkOK(link') /\ NewcomersOK(link', peerStates') /\ MarksOK(requestedBlocks', peerStates', link')
<1> DEFINE able == {p \in DOMAIN states : /\ states[p].syncCandidate
                                          /\ SegwitActive => p \in Witness}
           tall(p) == l[p].lastBlock >= Height[best]
           below == nextCheckpoint # Nil /\ Height[best] < Height[nextCheckpoint]
<1>1. /\ peerStates' = [p \in DOMAIN states |->
              IF p \in able /\ ~tall(p)
              THEN [states[p] EXCEPT !.syncCandidate = FALSE] ELSE states[p]]
      /\ \/ /\ syncPeer' = Nil /\ requestedBlocks' = requested
            /\ headersFirstMode' = FALSE /\ link' = l
         \/ \E p \in able :
            /\ syncPeer' = p /\ requestedBlocks' = {}
            /\ headersFirstMode' = (below \/ FALSE)
            /\ link' = IF below
                       THEN PushGetHeadersMsg(l, p, LatestBlockLocator, best, nextCheckpoint)
                       ELSE PushGetBlocksMsg(l, p, LatestBlockLocator, best, Nil)
  BY DEF startSync
<1>2. able \subseteq DOMAIN states /\ DOMAIN states \subseteq Peers
  BY DEF StatesOK
<1> HIDE DEF able, tall
<1>3. /\ DOMAIN peerStates' = DOMAIN states
      /\ \A p \in DOMAIN states : /\ peerStates'[p] \in PeerStateType
                                  /\ peerStates'[p].requestedBlocks = states[p].requestedBlocks
  <2> SUFFICES ASSUME NEW p \in DOMAIN states
               PROVE  /\ peerStates'[p] \in PeerStateType
                      /\ peerStates'[p].requestedBlocks = states[p].requestedBlocks
    BY <1>1
  <2>1. states[p] \in PeerStateType
    BY DEF StatesOK
  <2>2. peerStates'[p] = states[p] \/ peerStates'[p] = [states[p] EXCEPT !.syncCandidate = FALSE]
    BY <1>1
  <2> QED
    BY <2>1, <2>2 DEF PeerStateType
<1>4. StatesOK(peerStates')
  <2>1. peerStates' = [p \in DOMAIN peerStates' |-> peerStates'[p]]
    BY <1>1
  <2> QED
    BY <1>2, <1>3, <2>1 DEF StatesOK
<1>5. NewcomersOK(l, peerStates') /\ MarksOK(requested, peerStates', l)
  BY <1>3 DEF NewcomersOK, MarksOK
<1>6. CASE /\ syncPeer' = Nil /\ requestedBlocks' = requested
           /\ headersFirstMode' = FALSE /\ link' = l
  BY <1>4, <1>5, <1>6
<1>7. ASSUME NEW p \in able, syncPeer' = p, requestedBlocks' = {}, headersFirstMode' = (below \/ FALSE),
             link' = IF below
                     THEN PushGetHeadersMsg(l, p, LatestBlockLocator, best, nextCheckpoint)
                     ELSE PushGetBlocksMsg(l, p, LatestBlockLocator, best, Nil)
      PROVE  /\ requestedBlocks' \subseteq Blocks
             /\ syncPeer' \in Peers \cup {Nil} /\ headersFirstMode' \in BOOLEAN
             /\ syncPeer' # Nil => syncPeer' \in DOMAIN peerStates'
             /\ headersFirstMode' => syncPeer' # Nil /\ nextCheckpoint # Nil
             /\ LinkOK(link') /\ NewcomersOK(link', peerStates') /\ MarksOK(requestedBlocks', peerStates', link')
  <2>1. p \in Peers /\ p \in DOMAIN states
    BY <1>2
  <2>2. LinkOK(link') /\ Grows(l, link')
    BY <1>7, <2>1, PushKeeps
  <2>3. MarksOK(requestedBlocks', peerStates', l)
    BY <1>7 DEF MarksOK
  <2>4. LinkOK(link') /\ NewcomersOK(link', peerStates') /\ MarksOK(requestedBlocks', peerStates', link')
    BY <1>4, <1>5, <2>2, <2>3, Onward
  <2>5. headersFirstMode' \in BOOLEAN /\ (headersFirstMode' => nextCheckpoint # Nil)
    BY <1>7
  <2>6. syncPeer' \in Peers /\ syncPeer' \in DOMAIN peerStates' /\ syncPeer' # Nil
    BY <1>3, <1>7, <2>1
  <2>7. requestedBlocks' \subseteq Blocks
    BY <1>7
  <2> QED
    BY <2>4, <2>5, <2>6, <2>7
<1> QED
  BY <1>1, <1>4, <1>6, <1>7

(* handleNewPeerMsg.                                                       *)
LEMMA handleNewPeerMsgKeeps ==
    ASSUME SyncInv, NEW p \in Peers, handleNewPeerMsg(p)
    PROVE  SyncInv'
<1> DEFINE new == [syncCandidate |-> isSyncCandidate(p), requestQueue |-> <<>>,
                   requestedTxns |-> {}, requestedBlocks |-> {}]
           states == [q \in DOMAIN peerStates \cup {p} |-> IF q = p THEN new ELSE peerStates[q]]
           l == Received(p)
<1>1. /\ Receives(p, "newpeer")
      /\ \/ /\ syncPeer = Nil /\ startSync(states, requestedBlocks, headersFirstMode, l)
         \/ /\ peerStates' = states /\ link' = l
            /\ UNCHANGED <<syncPeer, requestedBlocks, headersFirstMode>>
      /\ UNCHANGED <<requestedTxns, rejectedTxns, headerList, startHeader,
                     nextCheckpoint, chainVars, remote, updates, history, leaves>>
  BY DEF handleNewPeerMsg
<1>2. /\ ManagerOK /\ ChainOK /\ RemoteOK /\ HeadersFirstHasSyncPeer /\ StatesOK(peerStates)
      /\ DOMAIN peerStates \subseteq Peers
  BY DEF SyncInv, ManagerOK, StatesOK
<1>3. /\ LinkOK(l) /\ NewcomersOK(l, peerStates) /\ l[p].conn # "none"
      /\ \A i \in DOMAIN l[p].in : l[p].in[i].type # "newpeer"
      /\ MarksOK(requestedBlocks, peerStates, l) /\ p \notin DOMAIN peerStates
  BY <1>1, Receiving
<1> HIDE DEF l
<1>4. new \in PeerStateType /\ new.requestedBlocks = {}
  <2>1. isSyncCandidate(p) \in BOOLEAN
    BY DEF isSyncCandidate
  <2>2. <<>> \in Seq(Blocks \cup Txs)
    BY NothingQueued
  <2> QED
    BY <2>1, <2>2 DEF PeerStateType
<1> HIDE DEF new
<1>5. /\ DOMAIN states = DOMAIN peerStates \cup {p} /\ states[p] = new
      /\ \A q \in DOMAIN peerStates : states[q] = peerStates[q]
      /\ states = [q \in DOMAIN states |-> states[q]]
  BY <1>3
<1> HIDE DEF states
<1>6. StatesOK(states)
  BY <1>2, <1>4, <1>5 DEF StatesOK
<1>7. NewcomersOK(l, states)
  BY <1>3, <1>5 DEF NewcomersOK
<1>8. MarksOK(requestedBlocks, states, l)
  BY <1>3, <1>5 DEF MarksOK
<1>9. ChainOK' /\ RemoteOK'
  BY <1>1, <1>2 DEF ChainOK, RemoteOK, chainVars
<1>10. CASE syncPeer = Nil /\ startSync(states, requestedBlocks, headersFirstMode, l)
  <2>1. headersFirstMode = FALSE
    BY <1>2, <1>10 DEF HeadersFirstHasSyncPeer, ManagerOK
  <2>2. startSync(states, requestedBlocks, FALSE, l) /\ requestedBlocks \subseteq Blocks /\ Nil \notin Peers
    BY <1>2, <1>10, <2>1, SyncAssumption DEF ManagerOK
  <2>3. /\ StatesOK(peerStates') /\ requestedBlocks' \subseteq Blocks
        /\ syncPeer' \in Peers \cup {Nil} /\ headersFirstMode' \in BOOLEAN
        /\ syncPeer' # Nil => syncPeer' \in DOMAIN peerStates'
        /\ headersFirstMode' => syncPeer' # Nil /\ nextCheckpoint # Nil
        /\ LinkOK(link') /\ NewcomersOK(link', peerStates') /\ MarksOK(requestedBlocks', peerStates', link')
    BY <1>3, <1>6, <1>7, <1>8, <2>2, StartSyncKeeps
  <2>4. ManagerOK' /\ HeadersFirstHasSyncPeer'
    BY <1>1, <1>2, <2>3 DEF ManagerOK, HeadersFirstHasSyncPeer
  <2> QED
    BY <1>9, <2>3, <2>4 DEF SyncInv
<1>11. CASE /\ peerStates' = states /\ link' = l
            /\ UNCHANGED <<syncPeer, requestedBlocks, headersFirstMode>>
  <2>1. ManagerOK' /\ HeadersFirstHasSyncPeer'
    BY <1>1, <1>2, <1>5, <1>6, <1>11 DEF ManagerOK, HeadersFirstHasSyncPeer
  <2>2. LinkOK(link') /\ NewcomersOK(link', peerStates') /\ MarksOK(requestedBlocks', peerStates', link')
    BY <1>3, <1>7, <1>8, <1>11
  <2> QED
    BY <1>9, <2>1, <2>2 DEF SyncInv
<1> QED
  BY <1>1, <1>10, <1>11

(* handleDonePeerMsg: the marks of a peer go with it.                      *)
LEMMA handleDonePeerMsgKeeps ==
    ASSUME SyncInv, NEW p \in Peers, handleDonePeerMsg(p)
    PROVE  SyncInv'
<1> DEFINE gone == [link EXCEPT ![p].conn = "gone",
                                ![p].in = IF @ = <<>> THEN @ ELSE <<Head(@)>>,
                                ![p].out = <<>>]
           states == [q \in DOMAIN peerStates \ {p} |-> peerStates[q]]
           blocks == PendingWithout(p)
<1>1. /\ link[p].conn = "closed"
      /\ UNCHANGED <<chainVars, remote, updates, history, leaves>>
      /\ \/ p \notin DOMAIN peerStates /\ link' = gone /\ UNCHANGED <<syncVars, headerVars>>
         \/ /\ p \in DOMAIN peerStates
            /\ requestedTxns' = requestedTxns \ peerStates[p].requestedTxns
            /\ \/ /\ startSync(states, blocks, FALSE, gone)
                  /\ headerList' \in {headerList, <<best>>, <<>>} /\ startHeader' \in {startHeader, Nil}
               \/ /\ syncPeer # p /\ peerStates' = states
                  /\ requestedBlocks' = blocks
                  /\ link' = gone
                  /\ UNCHANGED <<syncPeer, headersFirstMode, headerList, startHeader>>
            /\ UNCHANGED <<rejectedTxns, nextCheckpoint>>
  BY DEF handleDonePeerMsg, resetHeaderState, ModeWithoutSyncPeer
<1>2. /\ ManagerOK /\ ChainOK /\ RemoteOK /\ HeadersFirstHasSyncPeer /\ StatesOK(peerStates)
      /\ LinkOK(link) /\ NewcomersOK(link, peerStates) /\ MarksOK(requestedBlocks, peerStates, link)
      /\ DOMAIN peerStates \subseteq Peers
  BY DEF SyncInv, ManagerOK, StatesOK
<1>3. DOMAIN link = Peers /\ DOMAIN link[p] = LinkFields
  BY <1>2 DEF LinkOK
<1>4. /\ DOMAIN gone = Peers /\ \A q \in Peers \ {p} : gone[q] = link[q]
      /\ DOMAIN gone[p] = LinkFields /\ gone[p].conn = "gone" /\ gone[p].out = <<>>
      /\ gone[p].in = IF link[p].in = <<>> THEN link[p].in ELSE <<Head(link[p].in)>>
      /\ gone[p].lastBlock = link[p].lastBlock
  BY <1>3 DEF LinkFields
<1> HIDE DEF gone
<1>5. /\ IsSeq(gone[p].in) /\ Elements(gone[p].in) \subseteq Elements(link[p].in)
      /\ \A i \in DOMAIN gone[p].in : i \in DOMAIN link[p].in /\ gone[p].in[i] = link[p].in[i]
  <2>1. CASE link[p].in = <<>>
    BY <1>2, <1>4, <2>1 DEF LinkOK
  <2>2. CASE link[p].in # <<>>
    <3>1. gone[p].in = <<Head(link[p].in)>>
      BY <1>4, <2>2
    <3>2. IsSeq(link[p].in)
      BY <1>2 DEF LinkOK
    <3>3. Head(link[p].in) \in Elements(link[p].in) /\ 1 \in DOMAIN link[p].in /\ Head(link[p].in) = link[p].in[1]
      BY <2>2, <3>2, SeqTail
    <3> QED
      BY <3>1, <3>3, SeqSmall
  <2> QED
    BY <2>1, <2>2
<1>6. LinkOK(gone)
  BY <1>2, <1>4, <1>5, SeqSmall DEF LinkOK, Connection
<1>7. NewcomersOK(gone, peerStates)
  BY <1>2, <1>4, <1>5 DEF NewcomersOK
<1>8. ChainOK' /\ RemoteOK'
  BY <1>1, <1>2 DEF ChainOK, RemoteOK, chainVars
<1>9. \A q \in Peers \ {p} : \A b : Coming(link, q, b) => Coming(gone, q, b)
  BY <1>4 DEF Coming
<1>10. CASE p \notin DOMAIN peerStates /\ link' = gone /\ UNCHANGED <<syncVars, headerVars>>
  <2>1. MarksOK(requestedBlocks', peerStates', link')
    BY <1>2, <1>9, <1>10 DEF MarksOK, syncVars
  <2>2. ManagerOK' /\ HeadersFirstHasSyncPeer'
    BY <1>1, <1>2, <1>10 DEF ManagerOK, HeadersFirstHasSyncPeer, syncVars, headerVars
  <2>3. LinkOK(link') /\ NewcomersOK(link', peerStates')
    BY <1>6, <1>7, <1>10 DEF syncVars
  <2> QED
    BY <1>8, <2>1, <2>2, <2>3 DEF SyncInv
<1>11. CASE p \in DOMAIN peerStates
  <2>1. /\ DOMAIN states = DOMAIN peerStates \ {p} /\ \A q \in DOMAIN states : states[q] = peerStates[q]
        /\ states = [q \in DOMAIN states |-> states[q]]
    OBVIOUS
  <2>2. blocks = requestedBlocks \ peerStates[p].requestedBlocks
    BY DEF PendingWithout
  <2> HIDE DEF states, blocks
  <2>3. StatesOK(states)
    BY <1>2, <2>1 DEF StatesOK
  <2>4. NewcomersOK(gone, states)
    BY <1>7, <2>1 DEF NewcomersOK
  <2>5. MarksOK(blocks, states, gone)
    BY <1>2, <1>9, <2>1, <2>2 DEF MarksOK
  <2>6. blocks \subseteq Blocks /\ requestedTxns' \subseteq Txs /\ Nil \notin Peers
    BY <1>1, <1>2, <1>11, <2>2, SyncAssumption DEF ManagerOK, syncVars
  <2>7. CASE /\ startSync(states, blocks, FALSE, gone)
             /\ headerList' \in {headerList, <<best>>, <<>>} /\ startHeader' \in {startHeader, Nil}
             /\ UNCHANGED <<rejectedTxns, nextCheckpoint>>
    <3>1. /\ StatesOK(peerStates') /\ requestedBlocks' \subseteq Blocks
          /\ syncPeer' \in Peers \cup {Nil} /\ headersFirstMode' \in BOOLEAN
          /\ syncPeer' # Nil => syncPeer' \in DOMAIN peerStates'
          /\ headersFirstMode' => syncPeer' # Nil /\ nextCheckpoint # Nil
          /\ LinkOK(link') /\ NewcomersOK(link', peerStates') /\ MarksOK(requestedBlocks', peerStates', link')
      BY <1>6, <2>3, <2>4, <2>5, <2>6, <2>7, StartSyncKeeps
    <3>2. headerList' \in Seq(Blocks) /\ startHeader' \in Blocks \cup {Nil}
      <4>1. <<best>> \in Seq(Blocks) /\ <<>> \in Seq(Blocks)
        BY <1>2, NothingQueued DEF ChainOK
      <4> QED
        BY <1>2, <2>7, <4>1 DEF ManagerOK
    <3>3. ManagerOK' /\ HeadersFirstHasSyncPeer'
      BY <1>1, <1>2, <2>6, <2>7, <3>1, <3>2 DEF ManagerOK, HeadersFirstHasSyncPeer
    <3> QED
      BY <1>8, <3>1, <3>3 DEF SyncInv
  <2>8. CASE /\ syncPeer # p /\ peerStates' = states /\ requestedBlocks' = blocks /\ link' = gone
             /\ UNCHANGED <<syncPeer, headersFirstMode, headerList, startHeader>>
             /\ UNCHANGED <<rejectedTxns, nextCheckpoint>>
    <3>1. ManagerOK' /\ HeadersFirstHasSyncPeer'
      BY <1>1, <1>2, <2>1, <2>3, <2>6, <2>8 DEF ManagerOK, HeadersFirstHasSyncPeer
    <3>2. LinkOK(link') /\ NewcomersOK(link', peerStates') /\ MarksOK(requestedBlocks', peerStates', link')
      BY <1>6, <2>4, <2>5, <2>8
    <3> QED
      BY <1>8, <3>1, <3>2 DEF SyncInv
  <2> QED
    BY <1>1, <1>11, <2>7, <2>8 DEF states, blocks
<1> QED
  BY <1>1, <1>10, <1>11
(* fetchHeaderBlocks: what it marks, it asks of the sync peer.             *)
LEMMA fetchHeaderBlocksKeeps ==
    ASSUME NEW walk \in Seq(Blocks), NEW known, NEW states, NEW requested, NEW l,
           StatesOK(states), requested \subseteq Blocks, syncPeer \in DOMAIN states,
           LinkOK(l), NewcomersOK(l, states), MarksOK(requested, states, l),
           fetchHeaderBlocks(walk, known, states, requested, l)
    PROVE  /\ StatesOK(peerStates') /\ requestedBlocks' \subseteq Blocks
           /\ startHeader' \in Blocks \cup {Nil} /\ DOMAIN peerStates' = DOMAIN states
           /\ LinkOK(link') /\ NewcomersOK(link', peerStates') /\ MarksOK(requestedBlocks', peerStates', link')
<1> DEFINE ask == NextBlocks(walk, known).ask
           start == NextBlocks(walk, known).start
<1>1. /\ startHeader' = start
      /\ requestedBlocks' = requested \cup ToSet(ask)
      /\ peerStates' = [states EXCEPT ![syncPeer].requestedBlocks = @ \cup ToSet(ask)]
      /\ link' = QueueGetData(l, syncPeer, ask)
  BY DEF fetchHeaderBlocks
<1>2. ask \in Seq(Blocks) /\ start \in Blocks \cup {Nil}
  BY NextBlocksIs
<1> HIDE DEF ask, start
<1>3. Elements(ask) \subseteq Blocks /\ ToSet(ask) = Elements(ask) /\ ask \in Seq(InvVect)
  BY <1>2, SameElements, SeqOver DEF InvVect
<1>4. syncPeer \in Peers /\ states[syncPeer] \in PeerStateType /\ states = [q \in DOMAIN states |-> states[q]]
  BY DEF StatesOK
<1>5. /\ DOMAIN peerStates' = DOMAIN states
      /\ peerStates'[syncPeer].requestedBlocks = states[syncPeer].requestedBlocks \cup Elements(ask)
      /\ peerStates'[syncPeer] \in PeerStateType
      /\ \A q \in DOMAIN states \ {syncPeer} : peerStates'[q] = states[q]
      /\ peerStates' = [q \in DOMAIN peerStates' |-> peerStates'[q]]
  BY <1>1, <1>3, <1>4 DEF PeerStateType
<1>6. StatesOK(peerStates')
  BY <1>5 DEF StatesOK
<1>7. /\ LinkOK(link') /\ Grows(l, link')
      /\ \A b \in Elements(ask) : Coming(link', syncPeer, b)
  BY <1>1, <1>3, <1>4, QueueGetDataKeeps
<1>8. NewcomersOK(l, peerStates') /\ MarksOK(requested, peerStates', l)
  BY <1>5 DEF NewcomersOK, MarksOK
<1>9. NewcomersOK(link', peerStates') /\ MarksOK(requested, peerStates', link')
  BY <1>6, <1>7, <1>8, Onward
<1>10. MarksOK(requestedBlocks', peerStates', link')
  BY <1>1, <1>3, <1>5, <1>7, <1>9 DEF MarksOK
<1>11. requestedBlocks' \subseteq Blocks /\ startHeader' \in Blocks \cup {Nil}
  BY <1>1, <1>2, <1>3
<1> QED
  BY <1>5, <1>6, <1>7, <1>9, <1>10, <1>11

(* The oldest message of a peer that is not known is dropped.              *)
LEMMA UnknownKeeps ==
    ASSUME SyncInv, NEW p \in Peers, NEW type, Receives(p, type), FromUnknownPeer(p), UNCHANGED <<remote, leaves>>
    PROVE  SyncInv'
<1>1. /\ p \notin DOMAIN peerStates /\ link' = Received(p)
      /\ UNCHANGED <<syncVars, headerVars, chainVars, updates, history>>
  BY DEF FromUnknownPeer
<1>2. LinkOK(link') /\ NewcomersOK(link', peerStates) /\ MarksOK(requestedBlocks, peerStates, link')
  BY <1>1, Receiving
<1>3. ManagerOK' /\ ChainOK' /\ RemoteOK' /\ HeadersFirstHasSyncPeer'
  BY <1>1 DEF SyncInv, ManagerOK, ChainOK, RemoteOK, HeadersFirstHasSyncPeer, syncVars, headerVars, chainVars
<1> QED
  BY <1>1, <1>2, <1>3 DEF SyncInv, syncVars

(* handleHeadersMsg.                                                       *)
LEMMA handleHeadersMsgKeeps ==
    ASSUME SyncInv, NEW p \in Peers, handleHeadersMsg(p)
    PROVE  SyncInv'
<1> DEFINE headers == Head(link[p].in).headers
           read == LinkedHeaders(headerList, headers)
           list == headerList \o read.taken
           start == IF startHeader = Nil /\ read.taken # <<>> THEN Head(read.taken) ELSE startHeader
           l == Received(p)
<1>1. /\ Receives(p, "headers") /\ UNCHANGED <<remote, leaves>>
      /\ \/ FromUnknownPeer(p)
         \/ /\ p \in DOMAIN peerStates
            /\ UNCHANGED <<chainVars, updates, fastAdded>>
            /\ \/ /\ link' \in {l, HangUp(l, p)}
                  /\ UNCHANGED <<syncVars, headerVars>>
               \/ /\ headersFirstMode /\ headers # <<>>
                  /\ headerList' = list /\ startHeader' = start
                  /\ link' \in {HangUp(l, p), PushGetHeadersMsg(l, p, {Last(headers)}, Last(headers), nextCheckpoint)}
                  /\ UNCHANGED <<syncVars, headersFirstMode, nextCheckpoint>>
               \/ /\ headersFirstMode /\ read.taken # <<>>
                  /\ headerList' = Tail(list)
                  /\ fetchHeaderBlocks(ListFrom(Tail(list), start), have \cup orphans,
                                       peerStates, requestedBlocks, l)
                  /\ UNCHANGED <<requestedTxns, rejectedTxns, syncPeer, headersFirstMode, nextCheckpoint>>
  BY DEF handleHeadersMsg
<1>2. /\ ManagerOK /\ ChainOK /\ RemoteOK /\ HeadersFirstHasSyncPeer /\ StatesOK(peerStates)
  BY DEF SyncInv, ManagerOK
<1>3. /\ LinkOK(l) /\ NewcomersOK(l, peerStates) /\ MarksOK(requestedBlocks, peerStates, l)
      /\ headers \in Seq(Blocks)
  <2>1. Receives(p, "headers")
    BY <1>1
  <2>2. /\ LinkOK(l) /\ NewcomersOK(l, peerStates) /\ MarksOK(requestedBlocks, peerStates, l)
        /\ Incoming(Head(link[p].in)) /\ Head(link[p].in).type = "headers"
    BY <2>1, Receiving
  <2> QED
    BY <2>2 DEF Incoming
<1>4. read.taken \in Seq(Blocks)
  BY <1>3, LinkedHeadersIs
<1> HIDE DEF headers, read, l
<1>5. list \in Seq(Blocks) /\ start \in Blocks \cup {Nil} /\ (read.taken # <<>> => start \in Blocks /\ Tail(list) \in Seq(Blocks))
  <2>1. headerList \in Seq(Blocks) /\ startHeader \in Blocks \cup {Nil}
    BY <1>2 DEF ManagerOK
  <2>2. list \in Seq(Blocks)
    BY <1>4, <2>1
  <2>3. read.taken # <<>> => Head(read.taken) \in Blocks
    BY <1>4
  <2>4. read.taken # <<>> => list # <<>>
    BY <1>4, <2>1
  <2>5. read.taken # <<>> => Tail(list) \in Seq(Blocks)
    BY <2>2, <2>4
  <2> QED
    BY <2>1, <2>2, <2>3, <2>5
<1> HIDE DEF list, start
<1>6. LinkOK(HangUp(l, p)) /\ Grows(l, HangUp(l, p)) /\ Grows(l, l)
  BY <1>3, SetKeeps, GrowsNot
<1>7. CASE FromUnknownPeer(p)
  BY <1>1, <1>7, UnknownKeeps
<1>8. CASE UNCHANGED <<syncVars, headerVars, chainVars, updates>> /\ link' \in {l, HangUp(l, p)}
  <2>1. LinkOK(link') /\ NewcomersOK(link', peerStates) /\ MarksOK(requestedBlocks, peerStates, link')
    BY <1>2, <1>3, <1>6, <1>8, Onward
  <2>2. ManagerOK' /\ ChainOK' /\ RemoteOK' /\ HeadersFirstHasSyncPeer'
    BY <1>1, <1>2, <1>8 DEF ManagerOK, ChainOK, RemoteOK, HeadersFirstHasSyncPeer, syncVars, headerVars, chainVars
  <2> QED
    BY <1>8, <2>1, <2>2 DEF SyncInv, syncVars
<1>9. CASE /\ headerList' = list /\ startHeader' = start
           /\ link' \in {HangUp(l, p), PushGetHeadersMsg(l, p, {Last(headers)}, Last(headers), nextCheckpoint)}
           /\ UNCHANGED <<syncVars, headersFirstMode, nextCheckpoint, chainVars, updates>>
  <2>1. LinkOK(link') /\ Grows(l, link')
    BY <1>3, <1>6, <1>9, PushKeeps
  <2>2. LinkOK(link') /\ NewcomersOK(link', peerStates) /\ MarksOK(requestedBlocks, peerStates, link')
    BY <1>2, <1>3, <2>1, Onward
  <2>3. ManagerOK' /\ ChainOK' /\ RemoteOK' /\ HeadersFirstHasSyncPeer'
    BY <1>1, <1>2, <1>5, <1>9 DEF ManagerOK, ChainOK, RemoteOK, HeadersFirstHasSyncPeer, syncVars, chainVars
  <2> QED
    BY <1>9, <2>2, <2>3 DEF SyncInv, syncVars
<1>10. CASE /\ headersFirstMode /\ read.taken # <<>>
            /\ headerList' = Tail(list)
            /\ fetchHeaderBlocks(ListFrom(Tail(list), start), have \cup orphans,
                                 peerStates, requestedBlocks, l)
            /\ UNCHANGED <<requestedTxns, rejectedTxns, syncPeer, headersFirstMode, nextCheckpoint>>
            /\ UNCHANGED <<chainVars, updates>>
  <2>1. ListFrom(Tail(list), start) \in Seq(Blocks) /\ syncPeer \in DOMAIN peerStates /\ requestedBlocks \subseteq Blocks
    BY <1>2, <1>5, <1>10, ListFromIs DEF HeadersFirstHasSyncPeer, ManagerOK
  <2>2. /\ StatesOK(peerStates') /\ requestedBlocks' \subseteq Blocks
        /\ startHeader' \in Blocks \cup {Nil} /\ DOMAIN peerStates' = DOMAIN peerStates
        /\ LinkOK(link') /\ NewcomersOK(link', peerStates') /\ MarksOK(requestedBlocks', peerStates', link')
    BY <1>2, <1>3, <1>10, <2>1, fetchHeaderBlocksKeeps
  <2>3. ManagerOK' /\ ChainOK' /\ RemoteOK' /\ HeadersFirstHasSyncPeer'
    BY <1>1, <1>2, <1>5, <1>10, <2>2 DEF ManagerOK, ChainOK, RemoteOK, HeadersFirstHasSyncPeer, chainVars
  <2> QED
    BY <2>2, <2>3 DEF SyncInv
<1> QED
  BY <1>1, <1>7, <1>8, <1>9, <1>10

(* The chain takes a block.                                                *)
LEMMA ChainTakes ==
    ASSUME ChainOK, NEW b \in Blocks, chainTakes(b)
    PROVE  ChainOK'
<1>1. Connected(b) \in SUBSET Blocks /\ b \in Connected(b)
  BY ConnectedInTree
<1>2. Prev[b] \in have => best' \in Connected(b) \cup {best}
  BY TipsInTree DEF chainTakes
<1> QED
  BY <1>1, <1>2 DEF ChainOK, chainTakes, NowHave

LEMMA AfterBlockKeeps ==
    ASSUME ChainOK', NEW l, LinkOK(l), NEW p \in Peers, NEW b \in Blocks
    PROVE  /\ LinkOK(AfterBlock(p, b, l)) /\ Grows(l, AfterBlock(p, b, l))
           /\ Calms(l, AfterBlock(p, b, l))
<1> DEFINE pushed == IF Prev[b] \notin have
                    THEN PushGetBlocksMsg(l, p, LatestBlockLocator, best, GetOrphanRoot(b))
                    ELSE l
           height == IF Prev[b] \notin have THEN Height[b] ELSE Height[best']
<1>1. AfterBlock(p, b, l) = IF height = 0 THEN pushed ELSE UpdateLastBlockHeight(pushed, p, height)
  BY DEF AfterBlock
<1>2. LinkOK(pushed) /\ Grows(l, pushed) /\ Calms(l, pushed)
  BY PushKeeps, GrowsNot, CalmsOn
<1>3. height \in 0 .. Depth
  <2>1. best' \in Blocks
    BY DEF ChainOK
  <2> QED
    BY <2>1, Heights
<1> HIDE DEF pushed, height
<1>4. /\ LinkOK(UpdateLastBlockHeight(pushed, p, height))
      /\ Grows(pushed, UpdateLastBlockHeight(pushed, p, height))
      /\ Calms(pushed, UpdateLastBlockHeight(pushed, p, height))
  BY <1>2, <1>3, SetKeeps
<1> QED
  BY <1>1, <1>2, <1>4, GrowsOn, CalmsOn

(* Headers-first mode goes on.                                             *)
LEMMA ContinueKeeps ==
    ASSUME ManagerOK, HeadersFirstHasSyncPeer, NEW p \in Peers, NEW b \in Blocks,
           NEW states, NEW requested, NEW l, StatesOK(states), DOMAIN states = DOMAIN peerStates,
           requested \subseteq Blocks,
           LinkOK(l), NewcomersOK(l, states), MarksOK(requested, states, l), syncPeer' = syncPeer,
           ContinueHeadersFirst(p, b, states, requested, l)
    PROVE  /\ StatesOK(peerStates') /\ requestedBlocks' \subseteq Blocks /\ DOMAIN peerStates' = DOMAIN peerStates
           /\ headersFirstMode' \in BOOLEAN
           /\ headerList' \in Seq(Blocks) /\ startHeader' \in Blocks \cup {Nil} /\ nextCheckpoint' \in Blocks \cup {Nil}
           /\ headersFirstMode' => syncPeer # Nil /\ nextCheckpoint' # Nil
           /\ LinkOK(link') /\ NewcomersOK(link', peerStates') /\ MarksOK(requestedBlocks', peerStates', link')
<1> DEFINE isCheckpoint == IsFirstHeader(b) /\ b = nextCheckpoint
           list == IF IsFirstHeader(b) /\ ~isCheckpoint THEN Tail(headerList) ELSE headerList
           next == findNextHeaderCheckpoint(Height[b])
<1>1. \/ /\ headerList' = list
         /\ peerStates' = states /\ requestedBlocks' = requested /\ link' = l
         /\ UNCHANGED <<headersFirstMode, startHeader, nextCheckpoint>>
      \/ /\ headersFirstMode /\ startHeader # Nil
         /\ headerList' = list
         /\ fetchHeaderBlocks(ListFrom(list, startHeader), have' \cup orphans', states, requested, l)
         /\ UNCHANGED <<headersFirstMode, nextCheckpoint>>
      \/ /\ isCheckpoint /\ next # Nil
         /\ nextCheckpoint' = next
         /\ peerStates' = states /\ requestedBlocks' = requested
         /\ link' = PushGetHeadersMsg(l, p, {b}, b, next)
         /\ UNCHANGED <<headersFirstMode, headerList, startHeader>>
      \/ /\ isCheckpoint /\ next = Nil
         /\ nextCheckpoint' = Nil
         /\ headersFirstMode' = FALSE
         /\ headerList' = <<>>
         /\ peerStates' = states /\ requestedBlocks' = requested
         /\ link' = PushGetBlocksMsg(l, p, {b}, b, Nil)
         /\ UNCHANGED startHeader
  BY DEF ContinueHeadersFirst
<1>2. /\ headerList \in Seq(Blocks) /\ startHeader \in Blocks \cup {Nil} /\ nextCheckpoint \in Blocks \cup {Nil}
      /\ headersFirstMode \in BOOLEAN /\ (headersFirstMode => syncPeer # Nil /\ nextCheckpoint # Nil)
      /\ (headersFirstMode => syncPeer \in DOMAIN peerStates)
      /\ <<>> \in Seq(Blocks)
  BY NothingQueued DEF ManagerOK, HeadersFirstHasSyncPeer
<1>3. list \in Seq(Blocks)
  <2>1. IsFirstHeader(b) => headerList # <<>>
    BY DEF IsFirstHeader
  <2>2. headerList # <<>> => Tail(headerList) \in Seq(Blocks)
    BY <1>2
  <2> QED
    BY <1>2, <2>1, <2>2
<1>4. next \in Blocks \cup {Nil}
  BY NextCheckpointIs
<1>5. isCheckpoint => headersFirstMode
  BY DEF IsFirstHeader
<1> HIDE DEF isCheckpoint, list, next
<1>6. CASE /\ headerList' = list
           /\ peerStates' = states /\ requestedBlocks' = requested /\ link' = l
           /\ UNCHANGED <<headersFirstMode, startHeader, nextCheckpoint>>
  BY <1>2, <1>3, <1>6
<1>7. CASE /\ headersFirstMode /\ startHeader # Nil
           /\ headerList' = list
           /\ fetchHeaderBlocks(ListFrom(list, startHeader), have' \cup orphans', states, requested, l)
           /\ UNCHANGED <<headersFirstMode, nextCheckpoint>>
  <2>1. ListFrom(list, startHeader) \in Seq(Blocks) /\ syncPeer \in DOMAIN states
    BY <1>2, <1>3, <1>7, ListFromIs
  <2>2. /\ StatesOK(peerStates') /\ requestedBlocks' \subseteq Blocks
        /\ startHeader' \in Blocks \cup {Nil} /\ DOMAIN peerStates' = DOMAIN states
        /\ LinkOK(link') /\ NewcomersOK(link', peerStates') /\ MarksOK(requestedBlocks', peerStates', link')
    BY <1>7, <2>1, fetchHeaderBlocksKeeps
  <2> QED
    BY <1>2, <1>3, <1>7, <2>2
<1>8. CASE /\ isCheckpoint /\ next # Nil
           /\ nextCheckpoint' = next
           /\ peerStates' = states /\ requestedBlocks' = requested
           /\ link' = PushGetHeadersMsg(l, p, {b}, b, next)
           /\ UNCHANGED <<headersFirstMode, headerList, startHeader>>
  <2>1. LinkOK(link') /\ Grows(l, link')
    BY <1>8, PushKeeps
  <2>2. LinkOK(link') /\ NewcomersOK(link', states) /\ MarksOK(requested, states, link')
    BY <2>1, Onward
  <2> QED
    BY <1>2, <1>4, <1>5, <1>8, <2>2
<1>9. CASE /\ isCheckpoint /\ next = Nil
           /\ nextCheckpoint' = Nil
           /\ headersFirstMode' = FALSE
           /\ headerList' = <<>>
           /\ peerStates' = states /\ requestedBlocks' = requested
           /\ link' = PushGetBlocksMsg(l, p, {b}, b, Nil)
           /\ UNCHANGED startHeader
  <2>1. LinkOK(link') /\ Grows(l, link')
    BY <1>9, PushKeeps
  <2>2. LinkOK(link') /\ NewcomersOK(link', states) /\ MarksOK(requested, states, link')
    BY <2>1, Onward
  <2> QED
    BY <1>2, <1>9, <2>2
<1> QED
  BY <1>1, <1>6, <1>7, <1>8, <1>9
(* handleBlockMsg: the mark goes with the block, and only this mark.       *)
LEMMA handleBlockMsgKeeps ==
    ASSUME SyncInv, NEW p \in Peers, handleBlockMsg(p)
    PROVE  SyncInv'
<1> DEFINE b == Head(link[p].in).block
           states == [peerStates EXCEPT ![p].requestedBlocks = @ \ {b}]
           got == Received(p)
           l == AfterBlock(p, b, got)
<1>1. /\ Receives(p, "block") /\ UNCHANGED <<remote, leaves>>
      /\ \/ FromUnknownPeer(p)
         \/ /\ p \in DOMAIN peerStates
            /\ b \notin peerStates[p].requestedBlocks
            /\ link' = HangUp(got, p)
            /\ UNCHANGED <<syncVars, headerVars, chainVars, updates>>
         \/ /\ p \in DOMAIN peerStates
            /\ peerStates' = states
            /\ requestedBlocks' = requestedBlocks \ {b}
            /\ headerList' \in {headerList} \cup (IF headerList # <<>> THEN {Tail(headerList)} ELSE {})
            /\ link' = got
            /\ UNCHANGED <<requestedTxns, rejectedTxns, syncPeer,
                           headersFirstMode, startHeader, nextCheckpoint, chainVars, updates>>
         \/ /\ p \in DOMAIN peerStates
            /\ chainTakes(b)
            /\ rejectedTxns' \in {rejectedTxns, {}}
            /\ \/ updates' = updates
               \/ updates' = updates \cup {[hash |-> b, height |-> Height[b], origin |-> p]}
               \/ /\ Prev[b] \in have
                  /\ updates' = updates \cup {[hash |-> best', origin |-> p, height |-> Height[best']]}
            /\ ContinueHeadersFirst(p, b, states, requestedBlocks \ {b}, l)
            /\ UNCHANGED <<requestedTxns, syncPeer>>
  BY DEF handleBlockMsg, IsFirstHeader
<1>2. /\ ManagerOK /\ ChainOK /\ RemoteOK /\ HeadersFirstHasSyncPeer /\ StatesOK(peerStates)
      /\ MarksOK(requestedBlocks, peerStates, link) /\ DOMAIN peerStates \subseteq Peers
  BY DEF SyncInv, ManagerOK, StatesOK
<1>3. Receives(p, "block")
  BY <1>1
<1>4. /\ LinkOK(got) /\ NewcomersOK(got, peerStates) /\ b \in Blocks
      /\ \A q \in Peers : \A c : Coming(link, q, c) => Coming(got, q, c) \/ (q = p /\ c = b)
  <2>1. /\ LinkOK(got) /\ NewcomersOK(got, peerStates)
        /\ Incoming(Head(link[p].in)) /\ Head(link[p].in).type = "block"
        /\ \A q \in Peers : \A c : Coming(link, q, c) =>
             Coming(got, q, c) \/ (q = p /\ "block" = "block" /\ Head(link[p].in).block = c)
    BY <1>3, Receiving
  <2> QED
    BY <2>1 DEF Incoming
<1> HIDE DEF got, b
<1>5. ASSUME ChainOK' PROVE LinkOK(l) /\ Grows(got, l)
  BY <1>4, <1>5, AfterBlockKeeps
<1>6. CASE FromUnknownPeer(p)
  BY <1>1, <1>3, <1>6, UnknownKeeps
<1>7. CASE /\ link' = HangUp(got, p)
           /\ UNCHANGED <<syncVars, headerVars, chainVars, updates>>
  <2>1. LinkOK(link') /\ Grows(got, link') /\ link'[p].conn = "closed"
    BY <1>4, <1>7, SetKeeps
  <2>2. NewcomersOK(link', peerStates) /\ \A q \in Peers : \A c : Coming(got, q, c) => Coming(link', q, c)
    BY <1>2, <1>4, <2>1, GrowthKeeps
  <2>3. \A c : Coming(link', p, c)
    BY <2>1 DEF Coming
  <2>4. MarksOK(requestedBlocks, peerStates, link')
    BY <1>2, <1>4, <2>2, <2>3 DEF MarksOK
  <2>5. ManagerOK' /\ ChainOK' /\ RemoteOK' /\ HeadersFirstHasSyncPeer'
    BY <1>1, <1>2, <1>7 DEF ManagerOK, ChainOK, RemoteOK, HeadersFirstHasSyncPeer, syncVars, headerVars, chainVars
  <2> QED
    BY <1>7, <2>1, <2>2, <2>4, <2>5 DEF SyncInv, syncVars
<1>8. ASSUME p \in DOMAIN peerStates
      PROVE  /\ StatesOK(states) /\ DOMAIN states = DOMAIN peerStates
             /\ NewcomersOK(got, states) /\ MarksOK(requestedBlocks \ {b}, states, got)
  <2>1. peerStates[p] \in PeerStateType /\ peerStates = [q \in DOMAIN peerStates |-> peerStates[q]]
    BY <1>2, <1>8 DEF StatesOK
  <2>2. /\ DOMAIN states = DOMAIN peerStates
        /\ states[p].requestedBlocks = peerStates[p].requestedBlocks \ {b}
        /\ states[p] \in PeerStateType
        /\ \A q \in DOMAIN peerStates \ {p} : states[q] = peerStates[q]
        /\ states = [q \in DOMAIN states |-> states[q]]
    BY <1>8, <2>1 DEF PeerStateType
  <2> HIDE DEF states
  <2>3. StatesOK(states)
    BY <1>2, <2>2 DEF StatesOK
  <2>4. NewcomersOK(got, states)
    BY <1>4, <2>2 DEF NewcomersOK
  <2>5. MarksOK(requestedBlocks \ {b}, states, got)
    <3> SUFFICES ASSUME NEW c \in requestedBlocks \ {b}
                 PROVE  \E q \in DOMAIN states : c \in states[q].requestedBlocks /\ Coming(got, q, c)
      BY DEF MarksOK
    <3>1. PICK q \in DOMAIN peerStates : c \in peerStates[q].requestedBlocks /\ Coming(link, q, c)
      BY <1>2 DEF MarksOK
    <3>2. c \in states[q].requestedBlocks /\ Coming(got, q, c)
      BY <1>2, <1>4, <2>2, <3>1
    <3> QED
      BY <2>2, <3>1, <3>2
  <2> QED
    BY <2>2, <2>3, <2>4, <2>5
<1> HIDE DEF states, l
<1>9. CASE /\ p \in DOMAIN peerStates
           /\ peerStates' = states
           /\ requestedBlocks' = requestedBlocks \ {b}
           /\ headerList' \in {headerList} \cup (IF headerList # <<>> THEN {Tail(headerList)} ELSE {})
           /\ link' = got
           /\ UNCHANGED <<requestedTxns, rejectedTxns, syncPeer,
                          headersFirstMode, startHeader, nextCheckpoint, chainVars, updates>>
  <2>1. headerList' \in Seq(Blocks)
    <3>1. headerList \in Seq(Blocks) /\ (headerList # <<>> => Tail(headerList) \in Seq(Blocks))
      BY <1>2 DEF ManagerOK
    <3> QED
      BY <1>9, <3>1
  <2>2. ManagerOK' /\ ChainOK' /\ RemoteOK' /\ HeadersFirstHasSyncPeer'
    BY <1>1, <1>2, <1>8, <1>9, <2>1 DEF ManagerOK, ChainOK, RemoteOK, HeadersFirstHasSyncPeer, chainVars
  <2> QED
    BY <1>4, <1>8, <1>9, <2>2 DEF SyncInv
<1>10. CASE /\ p \in DOMAIN peerStates
            /\ chainTakes(b)
            /\ rejectedTxns' \in {rejectedTxns, {}}
            /\ \/ updates' = updates
               \/ updates' = updates \cup {[hash |-> b, height |-> Height[b], origin |-> p]}
               \/ /\ Prev[b] \in have
                  /\ updates' = updates \cup {[hash |-> best', origin |-> p, height |-> Height[best']]}
            /\ ContinueHeadersFirst(p, b, states, requestedBlocks \ {b}, l)
            /\ UNCHANGED <<requestedTxns, syncPeer>>
  <2>1. ChainOK'
    BY <1>2, <1>4, <1>10, ChainTakes
  <2>2. LinkOK(l) /\ NewcomersOK(l, states) /\ MarksOK(requestedBlocks \ {b}, states, l)
    BY <1>5, <1>8, <1>10, <2>1, Onward
  <2>3. requestedBlocks \ {b} \subseteq Blocks /\ DOMAIN states = DOMAIN peerStates /\ StatesOK(states) /\ syncPeer' = syncPeer
    BY <1>2, <1>8, <1>10 DEF ManagerOK
  <2>4. /\ StatesOK(peerStates') /\ requestedBlocks' \subseteq Blocks /\ DOMAIN peerStates' = DOMAIN peerStates
        /\ headersFirstMode' \in BOOLEAN
        /\ headerList' \in Seq(Blocks) /\ startHeader' \in Blocks \cup {Nil} /\ nextCheckpoint' \in Blocks \cup {Nil}
        /\ headersFirstMode' => syncPeer # Nil /\ nextCheckpoint' # Nil
        /\ LinkOK(link') /\ NewcomersOK(link', peerStates') /\ MarksOK(requestedBlocks', peerStates', link')
    BY <1>2, <1>4, <1>10, <2>2, <2>3, ContinueKeeps
  <2>5. \A u \in updates' : u.height \in 0 .. Depth
    <3>1. Height[b] \in 0 .. Depth
      BY <1>4, Heights
    <3>2. Height[best'] \in 0 .. Depth
      BY <2>1, Heights DEF ChainOK
    <3> QED
      BY <1>2, <1>10, <3>1, <3>2 DEF ManagerOK
  <2>6. ManagerOK' /\ RemoteOK' /\ HeadersFirstHasSyncPeer'
    BY <1>1, <1>2, <1>10, <2>4, <2>5 DEF ManagerOK, RemoteOK, HeadersFirstHasSyncPeer
  <2> QED
    BY <2>1, <2>4, <2>6 DEF SyncInv
<1> QED
  BY <1>1, <1>6, <1>7, <1>9, <1>10

(* handleInvMsg: what becomes pending is asked of the peer.                *)
LEMMA handleInvMsgKeeps ==
    ASSUME SyncInv, NEW p \in Peers, handleInvMsg(p)
    PROVE  SyncInv'
<1> DEFINE invs == Head(link[p].in).inv
           blocks == {i \in DOMAIN invs : invs[i] \in Blocks}
           last == IF blocks = {} THEN Nil ELSE invs[Max(blocks)]
           now == current(best, link)
           got == Received(p)
           told == IF last # Nil /\ (p # syncPeer \/ now)
                   THEN [got EXCEPT ![p].announced = last]
                   ELSE got
           known == IF last \in Ancestors[best] /\ now
                    THEN UpdateLastBlockHeight(told, p, Height[last])
                    ELSE told
           unwanted == {iv \in ToSet(invs) : haveInventory(iv) \/ iv \in rejectedTxns}
           queue == peerStates[p].requestQueue \o
                       IF headersFirstMode THEN <<>> ELSE Wanted(invs, unwanted)
<1>1. Receives(p, "inv") /\ UNCHANGED <<remote, leaves>>
  BY DEF handleInvMsg
<1>2. \/ FromUnknownPeer(p)
      \/ /\ p \in DOMAIN peerStates
         /\ UNCHANGED <<headerVars, chainVars, updates, history>>
         /\ \/ link' = told /\ UNCHANGED syncVars
            \/ /\ \E o \in DrainQueue(queue) :
                    /\ requestedBlocks' = o.blocks
                    /\ requestedTxns' = o.txns
                    /\ peerStates' = [peerStates EXCEPT
                          ![p].requestQueue = o.rest,
                          ![p].requestedBlocks = @ \cup (ToSet(o.ask) \cap Blocks),
                          ![p].requestedTxns = @ \cup (ToSet(o.ask) \cap Txs)]
                    /\ link' = QueueGetData(
                          IF headersFirstMode THEN known ELSE AskForMore(p, invs, last, known), p, o.ask)
               /\ UNCHANGED <<rejectedTxns, syncPeer>>
  BY DEF handleInvMsg
<1>3. /\ ManagerOK /\ ChainOK /\ RemoteOK /\ HeadersFirstHasSyncPeer /\ StatesOK(peerStates)
      /\ DOMAIN peerStates \subseteq Peers
  BY DEF SyncInv, ManagerOK, StatesOK
<1>4. /\ LinkOK(got) /\ NewcomersOK(got, peerStates) /\ MarksOK(requestedBlocks, peerStates, got)
      /\ invs \in Seq(InvVect)
  <2>1. /\ LinkOK(got) /\ NewcomersOK(got, peerStates) /\ MarksOK(requestedBlocks, peerStates, got)
        /\ Incoming(Head(link[p].in)) /\ Head(link[p].in).type = "inv"
    BY <1>1, Receiving
  <2> QED
    BY <2>1 DEF Incoming
<1> HIDE DEF invs, got, last, now
<1>5. LinkOK(told) /\ Grows(got, told)
  BY <1>4, SetKeeps, GrowsNot
<1> HIDE DEF told
<1>6. LinkOK(known) /\ Grows(got, known)
  <2>1. CASE last \in Ancestors[best] /\ now
    <3>1. Height[last] \in 0 .. Depth
      BY <1>3, <2>1, Heights DEF ChainOK
    <3>2. known = UpdateLastBlockHeight(told, p, Height[last])
      BY <2>1
    <3> HIDE DEF known
    <3>3. LinkOK(known) /\ Grows(told, known)
      BY <1>5, <3>1, <3>2, SetKeeps
    <3> QED
      BY <1>5, <3>3, GrowsOn
  <2>2. CASE ~(last \in Ancestors[best] /\ now)
    BY <1>5, <2>2
  <2> QED
    BY <2>1, <2>2
<1> HIDE DEF known
<1> DEFINE m == IF headersFirstMode THEN known ELSE AskForMore(p, invs, last, known)
<1>7. LinkOK(m) /\ Grows(got, m)
  <2>1. LinkOK(AskForMore(p, invs, last, known)) /\ Grows(known, AskForMore(p, invs, last, known))
    BY <1>4, <1>6, AskForMoreKeeps
  <2> QED
    BY <1>6, <2>1, GrowsOn
<1> HIDE DEF m
<1>8. ASSUME p \in DOMAIN peerStates PROVE queue \in Seq(InvVect)
  <2>1. peerStates[p].requestQueue \in Seq(InvVect)
    BY <1>3, <1>8 DEF StatesOK, PeerStateType, InvVect
  <2>2. Wanted(invs, unwanted) \in Seq(InvVect) /\ <<>> \in Seq(InvVect)
    BY <1>4, WantedIs, NothingQueued
  <2> HIDE DEF unwanted
  <2> QED
    BY <2>1, <2>2
<1> HIDE DEF queue
<1>9. CASE FromUnknownPeer(p)
  BY <1>1, <1>9, UnknownKeeps
<1>10. CASE link' = told /\ UNCHANGED syncVars /\ UNCHANGED <<headerVars, chainVars, updates>>
  <2>1. LinkOK(link') /\ NewcomersOK(link', peerStates) /\ MarksOK(requestedBlocks, peerStates, link')
    BY <1>3, <1>4, <1>5, <1>10, Onward
  <2>2. ManagerOK' /\ ChainOK' /\ RemoteOK' /\ HeadersFirstHasSyncPeer'
    BY <1>1, <1>3, <1>10 DEF ManagerOK, ChainOK, RemoteOK, HeadersFirstHasSyncPeer, syncVars, headerVars, chainVars
  <2> QED
    BY <1>10, <2>1, <2>2 DEF SyncInv, syncVars
<1>11. ASSUME p \in DOMAIN peerStates, NEW o \in DrainQueue(queue),
              requestedBlocks' = o.blocks, requestedTxns' = o.txns,
              peerStates' = [peerStates EXCEPT
                          ![p].requestQueue = o.rest,
                          ![p].requestedBlocks = @ \cup (ToSet(o.ask) \cap Blocks),
                          ![p].requestedTxns = @ \cup (ToSet(o.ask) \cap Txs)],
              link' = QueueGetData(m, p, o.ask),
              UNCHANGED <<rejectedTxns, syncPeer, headerVars, chainVars, updates>>
       PROVE  SyncInv'
  <2>1. WayOK(o, InvVect)
    BY <1>3, <1>8, <1>11, DrainQueueKeeps
  <2>2. ToSet(o.ask) = Elements(o.ask)
    BY SameElements
  <2>3. peerStates[p] \in PeerStateType /\ peerStates = [q \in DOMAIN peerStates |-> peerStates[q]]
    BY <1>3, <1>11 DEF StatesOK
  <2>4. /\ DOMAIN peerStates' = DOMAIN peerStates
        /\ peerStates'[p].requestQueue = o.rest
        /\ peerStates'[p].requestedBlocks = peerStates[p].requestedBlocks \cup (Elements(o.ask) \cap Blocks)
        /\ peerStates'[p] \in PeerStateType
        /\ \A q \in DOMAIN peerStates \ {p} : peerStates'[q] = peerStates[q]
        /\ peerStates' = [q \in DOMAIN peerStates' |-> peerStates'[q]]
    BY <1>11, <2>1, <2>2, <2>3 DEF PeerStateType, WayOK, InvVect
  <2>5. StatesOK(peerStates')
    BY <1>3, <2>4 DEF StatesOK
  <2>6. /\ LinkOK(link') /\ Grows(m, link') /\ \A b \in Elements(o.ask) : Coming(link', p, b)
    BY <1>3, <1>7, <1>11, <2>1, QueueGetDataKeeps DEF WayOK
  <2>7. Grows(got, link')
    BY <1>7, <2>6, GrowsOn
  <2>8. NewcomersOK(got, peerStates') /\ MarksOK(requestedBlocks, peerStates', got)
    BY <1>4, <2>4 DEF NewcomersOK, MarksOK
  <2>9. NewcomersOK(link', peerStates') /\ MarksOK(requestedBlocks, peerStates', link')
    BY <2>5, <2>6, <2>7, <2>8, Onward
  <2>10. MarksOK(requestedBlocks', peerStates', link')
    BY <1>11, <2>1, <2>4, <2>6, <2>9 DEF MarksOK, WayOK
  <2>11. requestedBlocks' \subseteq Blocks /\ requestedTxns' \subseteq Txs
    BY <1>3, <1>11, <2>1 DEF ManagerOK, WayOK
  <2>12. ManagerOK' /\ ChainOK' /\ RemoteOK' /\ HeadersFirstHasSyncPeer'
    BY <1>1, <1>3, <1>11, <2>4, <2>5, <2>11 DEF ManagerOK, ChainOK, RemoteOK, HeadersFirstHasSyncPeer, headerVars, chainVars
  <2> QED
    BY <2>6, <2>9, <2>10, <2>12 DEF SyncInv
<1> QED
  BY <1>2, <1>9, <1>10, <1>11 DEF m

(* handleTxMsg.                                                            *)
LEMMA handleTxMsgKeeps ==
    ASSUME SyncInv, NEW p \in Peers, handleTxMsg(p)
    PROVE  SyncInv'
<1> DEFINE t == Head(link[p].in).tx
           got == Received(p)
<1>1. /\ Receives(p, "tx") /\ UNCHANGED <<remote, leaves>>
      /\ \/ FromUnknownPeer(p)
         \/ /\ link' = got
            /\ UNCHANGED <<syncVars, headerVars, chainVars, updates, history>>
         \/ /\ p \in DOMAIN peerStates
            /\ peerStates' = [peerStates EXCEPT ![p].requestedTxns = @ \ {t}]
            /\ requestedTxns' = requestedTxns \ {t}
            /\ link' = got
            /\ rejectedTxns' = rejectedTxns \/ rejectedTxns' \in limitMap(rejectedTxns \cup {t}, maxRejectedTxns)
            /\ UNCHANGED <<requestedBlocks, syncPeer, headerVars, have, orphans, best, updates, history>>
  BY DEF handleTxMsg
<1>2. /\ ManagerOK /\ ChainOK /\ RemoteOK /\ HeadersFirstHasSyncPeer /\ StatesOK(peerStates)
  BY DEF SyncInv, ManagerOK
<1>3. Receives(p, "tx")
  BY <1>1
<1>4. /\ LinkOK(got) /\ NewcomersOK(got, peerStates) /\ MarksOK(requestedBlocks, peerStates, got) /\ t \in Txs
  <2>1. /\ LinkOK(got) /\ NewcomersOK(got, peerStates) /\ MarksOK(requestedBlocks, peerStates, got)
        /\ Incoming(Head(link[p].in)) /\ Head(link[p].in).type = "tx"
    BY <1>3, Receiving
  <2> QED
    BY <2>1 DEF Incoming
<1> HIDE DEF t, got
<1>5. CASE FromUnknownPeer(p)
  BY <1>1, <1>3, <1>5, UnknownKeeps
<1>6. CASE link' = got /\ UNCHANGED <<syncVars, headerVars, chainVars, updates, history>>
  <2>1. ManagerOK' /\ ChainOK' /\ RemoteOK' /\ HeadersFirstHasSyncPeer'
    BY <1>1, <1>2, <1>6 DEF ManagerOK, ChainOK, RemoteOK, HeadersFirstHasSyncPeer, syncVars, headerVars, chainVars
  <2> QED
    BY <1>4, <1>6, <2>1 DEF SyncInv, syncVars
<1>7. CASE /\ p \in DOMAIN peerStates
           /\ peerStates' = [peerStates EXCEPT ![p].requestedTxns = @ \ {t}]
           /\ requestedTxns' = requestedTxns \ {t}
           /\ link' = got
           /\ rejectedTxns' = rejectedTxns \/ rejectedTxns' \in limitMap(rejectedTxns \cup {t}, maxRejectedTxns)
           /\ UNCHANGED <<requestedBlocks, syncPeer, headerVars, have, orphans, best, updates, history>>
  <2>1. peerStates[p] \in PeerStateType /\ peerStates = [q \in DOMAIN peerStates |-> peerStates[q]]
    BY <1>2, <1>7 DEF StatesOK
  <2>2. /\ DOMAIN peerStates' = DOMAIN peerStates
        /\ \A q \in DOMAIN peerStates : /\ peerStates'[q].requestedBlocks = peerStates[q].requestedBlocks
                                        /\ peerStates'[q] \in PeerStateType
        /\ peerStates' = [q \in DOMAIN peerStates' |-> peerStates'[q]]
    <3>1. \A q \in DOMAIN peerStates : peerStates[q] \in PeerStateType
      BY <1>2 DEF StatesOK
    <3> QED
      BY <1>7, <2>1, <3>1 DEF PeerStateType
  <2>3. StatesOK(peerStates')
    BY <1>2, <2>2 DEF StatesOK
  <2>4. NewcomersOK(link', peerStates') /\ MarksOK(requestedBlocks', peerStates', link')
    BY <1>4, <1>7, <2>2 DEF NewcomersOK, MarksOK
  <2>5. rejectedTxns' \subseteq Txs /\ requestedTxns' \subseteq Txs
    BY <1>2, <1>4, <1>7, LimitIs DEF ManagerOK
  <2>6. ManagerOK' /\ ChainOK' /\ RemoteOK' /\ HeadersFirstHasSyncPeer'
    BY <1>1, <1>2, <1>7, <2>2, <2>3, <2>5 DEF ManagerOK, ChainOK, RemoteOK, HeadersFirstHasSyncPeer, headerVars
  <2> QED
    BY <1>4, <1>7, <2>4, <2>6 DEF SyncInv
<1> QED
  BY <1>1, <1>5, <1>6, <1>7
(* The steps of the others.                                                *)

(* Messages of a peer come in, perhaps for the request it takes.           *)
LEMMA ArrivalKeeps ==
    ASSUME SyncInv, NEW p \in Peers, NEW msgs, IsSeq(msgs), link[p].conn = "up",
           \A m \in Elements(msgs) : Incoming(m) /\ m.type # "newpeer",
           DOMAIN link' = Peers, \A q \in Peers \ {p} : link'[q] = link[q], DOMAIN link'[p] = LinkFields,
           link'[p].conn = "up", link'[p].lastBlock = link[p].lastBlock, link'[p].in = link[p].in \o msgs,
           \/ link'[p].out = link[p].out
           \/ /\ link[p].out # <<>> /\ link'[p].out = Tail(link[p].out)
              /\ Head(link[p].out).type = "getdata" =>
                   \A b \in Elements(Head(link[p].out).inv) \cap Blocks :
                       \E m \in Elements(msgs) : m.type = "block" /\ m.block = b,
           ManagerOK', ChainOK', RemoteOK', UNCHANGED <<syncVars, headersFirstMode, nextCheckpoint>>
    PROVE  SyncInv'
<1>1. /\ LinkOK(link) /\ NewcomersOK(link, peerStates) /\ MarksOK(requestedBlocks, peerStates, link)
      /\ DOMAIN peerStates \subseteq Peers /\ requestedBlocks \subseteq Blocks
  BY DEF SyncInv, ManagerOK, StatesOK
<1>2. /\ IsSeq(link[p].in) /\ IsSeq(link[p].out)
      /\ \A m \in Elements(link[p].in) : Incoming(m)
      /\ \A m \in Elements(link[p].out) : Outgoing(m)
  BY <1>1 DEF LinkOK
<1>3. /\ IsSeq(link'[p].in) /\ Elements(link'[p].in) = Elements(link[p].in) \cup Elements(msgs)
      /\ DOMAIN link[p].in = 1 .. Len(link[p].in) /\ DOMAIN msgs = 1 .. Len(msgs)
      /\ Len(link[p].in) \in Nat /\ Len(msgs) \in Nat
      /\ DOMAIN link'[p].in = 1 .. Len(link[p].in) + Len(msgs)
      /\ \A i \in 1 .. Len(link[p].in) + Len(msgs) :
            link'[p].in[i] = IF i <= Len(link[p].in) THEN link[p].in[i] ELSE msgs[i - Len(link[p].in)]
  BY <1>2, SeqJoin
<1>4. /\ IsSeq(link'[p].out) /\ Elements(link'[p].out) \subseteq Elements(link[p].out)
  <2>1. link[p].out # <<>> => /\ IsSeq(Tail(link[p].out))
                              /\ Elements(Tail(link[p].out)) \subseteq Elements(link[p].out)
    BY <1>2, SeqTail
  <2> QED
    BY <1>2, <2>1
<1>5. LinkOK(link')
  <2>1. link'[p].conn \in Connection /\ link'[p].lastBlock \in 0 .. Depth
    BY <1>1 DEF LinkOK, Connection
  <2>2. \A m \in Elements(link'[p].in) : Incoming(m)
    BY <1>2, <1>3
  <2>3. \A m \in Elements(link'[p].out) : Outgoing(m)
    BY <1>2, <1>4
  <2> QED
    BY <1>1, <1>3, <1>4, <2>1, <2>2, <2>3 DEF LinkOK
<1>6. NewcomersOK(link', peerStates)
  <2>1. ASSUME NEW i \in DOMAIN link'[p].in, link'[p].in[i].type = "newpeer" PROVE i = 1 /\ p \notin DOMAIN peerStates
    <3>1. CASE i <= Len(link[p].in)
      <4>1. i \in DOMAIN link[p].in /\ link'[p].in[i] = link[p].in[i]
        BY <1>3, <2>1, <3>1
      <4> QED
        BY <1>1, <2>1, <4>1 DEF NewcomersOK
    <3>2. CASE ~(i <= Len(link[p].in))
      <4>1. i - Len(link[p].in) \in DOMAIN msgs /\ link'[p].in[i] = msgs[i - Len(link[p].in)]
        BY <1>3, <2>1, <3>2
      <4> QED
        BY <2>1, <4>1 DEF Elements
    <3> QED
      BY <3>1, <3>2
  <2> QED
    BY <1>1, <2>1, ZenonT(60) DEF NewcomersOK
<1>7. ASSUME NEW q \in Peers, NEW b \in Blocks, Coming(link, q, b) PROVE Coming(link', q, b)
  <2>1. CASE q # p
    BY <1>7, <2>1 DEF Coming
  <2>2. CASE q = p
    <3>1. CASE \E m \in Elements(link[p].in) : m.type = "block" /\ m.block = b
      BY <1>3, <2>2, <3>1 DEF Coming
    <3>2. ASSUME NEW m \in Elements(link[p].out), m.type = "getdata", b \in Elements(m.inv)
          PROVE  Coming(link', p, b)
      <4>1. CASE m \in Elements(link'[p].out)
        BY <3>2, <4>1 DEF Coming
      <4>2. CASE m \notin Elements(link'[p].out)
        <5>1. link[p].out # <<>> /\ link'[p].out = Tail(link[p].out)
          BY <3>2, <4>2
        <5>2. Elements(link[p].out) = Elements(Tail(link[p].out)) \cup {Head(link[p].out)}
          BY <1>2, <5>1, SeqTail
        <5>3. m = Head(link[p].out)
          BY <3>2, <4>2, <5>1, <5>2
        <5>4. \E n \in Elements(msgs) : n.type = "block" /\ n.block = b
          BY <3>2, <4>2, <5>1, <5>3
        <5> QED
          BY <1>3, <5>4 DEF Coming
      <4> QED
        BY <4>1, <4>2
    <3> QED
      BY <1>7, <2>2, <3>1, <3>2 DEF Coming
  <2> QED
    BY <2>1, <2>2
<1>8. MarksOK(requestedBlocks, peerStates, link')
  BY <1>1, <1>7 DEF MarksOK
<1>9. HeadersFirstHasSyncPeer'
  BY DEF SyncInv, HeadersFirstHasSyncPeer, syncVars
<1> QED
  BY <1>5, <1>6, <1>8, <1>9 DEF SyncInv, syncVars

(* A peer answers, and goes on with its own state.                         *)
LEMMA AnswerKeeps ==
    ASSUME SyncInv, NEW p \in Peers, NEW msgs, IsSeq(msgs), link[p].conn = "up", link[p].out # <<>>,
           \A m \in Elements(msgs) : Incoming(m) /\ m.type # "newpeer",
           Head(link[p].out).type = "getdata" =>
                   \A b \in Elements(Head(link[p].out).inv) \cap Blocks :
                       \E m \in Elements(msgs) : m.type = "block" /\ m.block = b,
           Answer(p, msgs), RemoteOK', UNCHANGED <<syncVars, headerVars, chainVars, updates>>
    PROVE  SyncInv'
<1>1. DOMAIN link = Peers /\ DOMAIN link[p] = LinkFields
  BY DEF SyncInv, LinkOK
<1>2. /\ DOMAIN link' = Peers /\ \A q \in Peers \ {p} : link'[q] = link[q]
      /\ DOMAIN link'[p] = LinkFields
      /\ link'[p].conn = link[p].conn /\ link'[p].lastBlock = link[p].lastBlock
      /\ link'[p].in = link[p].in \o msgs /\ link'[p].out = Tail(link[p].out)
  BY <1>1 DEF Answer, LinkFields
<1>3. ManagerOK' /\ ChainOK' /\ UNCHANGED <<syncVars, headersFirstMode, nextCheckpoint>>
  BY DEF SyncInv, ManagerOK, ChainOK, syncVars, headerVars, chainVars
<1> QED
  BY <1>2, <1>3, ArrivalKeeps

LEMMA OnGetBlocksKeeps ==
    ASSUME SyncInv, NEW p \in Peers, OnGetBlocks(p)
    PROVE  SyncInv'
<1> DEFINE m == Head(link[p].out)
           list == locateInventory(remote[p].tip, m.locator, m.stop, MaxBlocksPerMsg)
           msgs == IF list = <<>> THEN <<>> ELSE <<[type |-> "inv", inv |-> list]>>
<1>1. /\ link[p].conn = "up" /\ link[p].out # <<>> /\ m.type = "getblocks"
      /\ Answer(p, msgs) /\ remote' \in {remote, [remote EXCEPT ![p].continueHash = Last(list)]}
      /\ UNCHANGED <<syncVars, headerVars, chainVars, updates>>
  BY DEF OnGetBlocks, Asked
<1>2. RemoteOK /\ remote[p].tip \in Blocks
  BY DEF SyncInv, RemoteOK
<1>3. list \in Seq(InvVect)
  <2>1. list \in Seq(Blocks)
    BY <1>2, InventoryIs, SyncAssumption
  <2> HIDE DEF list
  <2> QED
    BY <2>1 DEF InvVect
<1> HIDE DEF list
<1>4. IsSeq(msgs) /\ \A n \in Elements(msgs) : Incoming(n) /\ n.type # "newpeer"
  <2> DEFINE n == [type |-> "inv", inv |-> list]
  <2>1. Incoming(n) /\ n.type # "newpeer"
    BY <1>3 DEF Incoming
  <2> HIDE DEF n
  <2>2. msgs \in {<<>>, <<n>>}
    BY DEF n
  <2> HIDE DEF msgs
  <2> QED
    BY <2>1, <2>2, SeqSmall
<1> HIDE DEF msgs
<1>5. RemoteOK'
  BY <1>1, <1>2 DEF RemoteOK
<1> QED
  BY <1>1, <1>4, <1>5, AnswerKeeps

LEMMA OnGetHeadersKeeps ==
    ASSUME SyncInv, NEW p \in Peers, OnGetHeaders(p)
    PROVE  SyncInv'
<1> DEFINE m == Head(link[p].out)
           list == locateInventory(remote[p].tip, m.locator, m.stop, MaxBlockHeadersPerMsg)
           n == [type |-> "headers", headers |-> list]
<1>1. /\ link[p].conn = "up" /\ link[p].out # <<>> /\ m.type = "getheaders"
      /\ \/ Answer(p, <<n>>) /\ remote' = remote
         \/ Answer(p, <<>>) /\ remote' = [remote EXCEPT ![p].wasCurrent = FALSE]
      /\ UNCHANGED <<syncVars, headerVars, chainVars, updates>>
  BY DEF OnGetHeaders, Asked
<1>2. RemoteOK /\ remote[p].tip \in Blocks
  BY DEF SyncInv, RemoteOK
<1>3. list \in Seq(Blocks)
  BY <1>2, InventoryIs, SyncAssumption
<1> HIDE DEF list
<1>4. Incoming(n) /\ n.type # "newpeer"
  BY <1>3 DEF Incoming
<1> HIDE DEF n
<1>5. /\ IsSeq(<<n>>) /\ Elements(<<n>>) = {n}
      /\ IsSeq(<<>>) /\ Elements(<<>>) = {}
  BY SeqSmall, NothingQueued DEF IsSeq
<1>6. RemoteOK'
  BY <1>1, <1>2 DEF RemoteOK
<1>7. CASE Answer(p, <<n>>)
  BY <1>1, <1>4, <1>5, <1>6, <1>7, AnswerKeeps
<1>8. CASE Answer(p, <<>>)
  BY <1>1, <1>5, <1>6, <1>8, AnswerKeeps
<1> QED
  BY <1>1, <1>7, <1>8

LEMMA OnGetDataKeeps ==
    ASSUME SyncInv, NEW p \in Peers, OnGetData(p)
    PROVE  SyncInv'
<1> DEFINE invs == Head(link[p].out).inv
           msgs == Data(p, invs)
<1>1. /\ link[p].conn = "up" /\ link[p].out # <<>> /\ Head(link[p].out).type = "getdata"
      /\ Answer(p, msgs) /\ remote' \in {remote, [remote EXCEPT ![p].continueHash = Nil]}
      /\ UNCHANGED <<syncVars, headerVars, chainVars, updates>>
  BY DEF OnGetData, Asked
<1>2. RemoteOK /\ IsSeq(link[p].out) /\ \A m \in Elements(link[p].out) : Outgoing(m)
  BY DEF SyncInv, LinkOK
<1>3. Head(link[p].out) \in Elements(link[p].out)
  BY <1>1, <1>2, SeqTail
<1>4. invs \in Seq(InvVect)
  BY <1>1, <1>2, <1>3 DEF Outgoing
<1>5. /\ IsSeq(msgs)
      /\ \A m \in Elements(msgs) : Incoming(m) /\ m.type # "newpeer"
      /\ \A b \in Elements(invs) \cap Blocks : \E m \in Elements(msgs) : m.type = "block" /\ m.block = b
  BY <1>2, <1>4, DataIs
<1> HIDE DEF msgs
<1>6. RemoteOK'
  BY <1>1, <1>2 DEF RemoteOK
<1> QED
  BY <1>1, <1>5, <1>6, AnswerKeeps

(* A peer announces something.                                             *)
LEMMA AnnounceKeeps ==
    ASSUME SyncInv, NEW p \in Peers, NEW iv \in InvVect, link[p].conn = "up",
           link' = [link EXCEPT ![p].in = Append(@, [type |-> "inv", inv |-> <<iv>>])],
           RemoteOK', UNCHANGED <<syncVars, headerVars, chainVars, updates>>
    PROVE  SyncInv'
<1> DEFINE n == [type |-> "inv", inv |-> <<iv>>]
<1>1. Incoming(n) /\ n.type # "newpeer"
  <2>1. <<iv>> \in Seq(InvVect)
    OBVIOUS
  <2> QED
    BY <2>1 DEF Incoming
<1>2. DOMAIN link = Peers /\ DOMAIN link[p] = LinkFields /\ IsSeq(link[p].in)
  BY DEF SyncInv, LinkOK
<1>3. /\ DOMAIN link' = Peers /\ \A q \in Peers \ {p} : link'[q] = link[q]
      /\ DOMAIN link'[p] = LinkFields
      /\ link'[p].conn = link[p].conn /\ link'[p].lastBlock = link[p].lastBlock
      /\ link'[p].in = Append(link[p].in, n) /\ link'[p].out = link[p].out
  BY <1>2 DEF LinkFields
<1> HIDE DEF n
<1>4. Append(link[p].in, n) = link[p].in \o <<n>>
  <2>1. link[p].in \in Seq(Elements(link[p].in) \cup {n})
    BY <1>2, SeqOver
  <2> QED
    BY <2>1
<1>5. IsSeq(<<n>>) /\ Elements(<<n>>) = {n}
  BY SeqSmall
<1>6. ManagerOK' /\ ChainOK' /\ UNCHANGED <<syncVars, headersFirstMode, nextCheckpoint>>
  BY DEF SyncInv, ManagerOK, ChainOK, syncVars, headerVars, chainVars
<1> QED
  BY <1>1, <1>3, <1>4, <1>5, <1>6, ArrivalKeeps

LEMMA PeerFindsKeeps ==
    ASSUME SyncInv, NEW p \in Peers, NEW b \in Mined[p], PeerFinds(p, b)
    PROVE  SyncInv'
<1>1. b \in Blocks /\ b \in InvVect
  BY SyncAssumption DEF InvVect
<1>2. RemoteOK'
  BY <1>1 DEF PeerFinds, SyncInv, RemoteOK
<1> QED
  BY <1>1, <1>2, AnnounceKeeps DEF PeerFinds

LEMMA PeerRelaysKeeps ==
    ASSUME SyncInv, NEW p \in Peers, NEW t \in Txs, PeerRelays(p, t)
    PROVE  SyncInv'
<1>1. t \in InvVect
  BY DEF InvVect
<1>2. RemoteOK'
  BY DEF PeerRelays, SyncInv, RemoteOK
<1> QED
  BY <1>1, <1>2, AnnounceKeeps DEF PeerRelays

(* A peer connects: its newpeer message is the first.                      *)
LEMMA OnVersionKeeps ==
    ASSUME SyncInv, NEW p \in Peers, OnVersion(p)
    PROVE  SyncInv'
<1> DEFINE n == [type |-> "newpeer"]
<1>1. /\ LinkOK(link) /\ NewcomersOK(link, peerStates) /\ MarksOK(requestedBlocks, peerStates, link)
      /\ RemoteOK /\ DOMAIN peerStates \subseteq Peers
  BY DEF SyncInv, ManagerOK, StatesOK
<1>2. DOMAIN link = Peers /\ DOMAIN link[p] = LinkFields /\ link[p].conn = "none"
  BY <1>1 DEF LinkOK, OnVersion
<1>3. /\ DOMAIN link' = Peers /\ \A q \in Peers \ {p} : link'[q] = link[q]
      /\ DOMAIN link'[p] = LinkFields /\ link'[p].conn = "up" /\ link'[p].lastBlock = Height[remote[p].tip]
      /\ link'[p].in = <<n>> /\ link'[p].out = link[p].out
  BY <1>2 DEF OnVersion, LinkFields
<1>4. Incoming(n) /\ n.type = "newpeer"
  BY DEF Incoming
<1> HIDE DEF n
<1>5. IsSeq(<<n>>) /\ Elements(<<n>>) = {n} /\ DOMAIN <<n>> = {1} /\ <<n>>[1] = n
  BY SeqSmall
<1>6. p \notin DOMAIN peerStates
  BY <1>1, <1>2 DEF NewcomersOK
<1>7. link'[p].lastBlock \in 0 .. Depth
  BY <1>1, <1>3, Heights DEF RemoteOK
<1>8. LinkOK(link')
  BY <1>1, <1>3, <1>4, <1>5, <1>7 DEF LinkOK, Connection
<1>9. NewcomersOK(link', peerStates)
  BY <1>1, <1>3, <1>5, <1>6 DEF NewcomersOK
<1>10. \A q \in DOMAIN peerStates : \A b : Coming(link, q, b) => Coming(link', q, b)
  BY <1>1, <1>3, <1>6 DEF Coming
<1>11. MarksOK(requestedBlocks, peerStates, link')
  BY <1>1, <1>10 DEF MarksOK
<1>12. ManagerOK' /\ ChainOK' /\ RemoteOK' /\ HeadersFirstHasSyncPeer'
  BY DEF OnVersion, SyncInv, ManagerOK, ChainOK, RemoteOK, HeadersFirstHasSyncPeer, syncVars, headerVars, chainVars
<1> QED
  BY <1>8, <1>9, <1>11, <1>12 DEF OnVersion, SyncInv, syncVars

LEMMA PeerLeavesKeeps ==
    ASSUME SyncInv, NEW p \in Peers, PeerLeaves(p)
    PROVE  SyncInv'
<1>1. /\ LinkOK(link) /\ NewcomersOK(link, peerStates) /\ MarksOK(requestedBlocks, peerStates, link)
      /\ StatesOK(peerStates)
  BY DEF SyncInv, ManagerOK
<1>2. LinkOK(link') /\ Grows(link, link')
  BY <1>1, SetKeeps DEF PeerLeaves
<1>3. NewcomersOK(link', peerStates) /\ MarksOK(requestedBlocks, peerStates, link')
  BY <1>1, <1>2, Onward
<1>4. ManagerOK' /\ ChainOK' /\ RemoteOK' /\ HeadersFirstHasSyncPeer'
  BY DEF PeerLeaves, SyncInv, ManagerOK, ChainOK, RemoteOK, HeadersFirstHasSyncPeer, syncVars, headerVars, chainVars
<1> QED
  BY <1>2, <1>3, <1>4 DEF PeerLeaves, SyncInv, syncVars

(* The server's heights, and a block handed in locally.                    *)
LEMMA HandleUpdatePeerHeightsKeeps ==
    ASSUME SyncInv, HandleUpdatePeerHeights
    PROVE  SyncInv'
<1>1. PICK u \in updates :
        /\ updates' = updates \ {u}
        /\ link' = [p \in Peers |->
              IF p # u.origin /\ link[p].announced = u.hash
              THEN [link[p] EXCEPT !.lastBlock = u.height, !.announced = Nil]
              ELSE link[p]]
        /\ UNCHANGED <<syncVars, headerVars, chainVars, remote, history, leaves>>
  BY DEF HandleUpdatePeerHeights
<1>2. /\ LinkOK(link) /\ NewcomersOK(link, peerStates) /\ MarksOK(requestedBlocks, peerStates, link)
      /\ StatesOK(peerStates) /\ u.height \in 0 .. Depth
  BY DEF SyncInv, ManagerOK
<1>3. DOMAIN link' = Peers
  BY <1>1
<1>4. ASSUME NEW q \in Peers
      PROVE  /\ DOMAIN link'[q] = LinkFields /\ link'[q].conn = link[q].conn
             /\ link'[q].in = link[q].in /\ link'[q].out = link[q].out /\ link'[q].lastBlock \in 0 .. Depth
  <2>1. DOMAIN link[q] = LinkFields /\ link[q].lastBlock \in 0 .. Depth
    BY <1>2 DEF LinkOK
  <2>2. link'[q] = link[q] \/ link'[q] = [link[q] EXCEPT !.lastBlock = u.height, !.announced = Nil]
    BY <1>1
  <2> QED
    BY <1>2, <2>1, <2>2 DEF LinkFields
<1>5. LinkOK(link') /\ Grows(link, link')
  <2>1. LinkOK(link')
    BY <1>2, <1>3, <1>4 DEF LinkOK
  <2>2. Grows(link, link')
    BY <1>4 DEF Grows
  <2> QED
    BY <2>1, <2>2
<1>6. NewcomersOK(link', peerStates) /\ MarksOK(requestedBlocks, peerStates, link')
  BY <1>2, <1>5, Onward
<1>7. ManagerOK' /\ ChainOK' /\ RemoteOK' /\ HeadersFirstHasSyncPeer'
  BY <1>1 DEF SyncInv, ManagerOK, ChainOK, RemoteOK, HeadersFirstHasSyncPeer, syncVars, headerVars, chainVars
<1> QED
  BY <1>1, <1>5, <1>6, <1>7 DEF SyncInv, syncVars

LEMMA ProcessBlockKeeps ==
    ASSUME SyncInv, NEW b \in Submitted, ProcessBlock(b)
    PROVE  SyncInv'
<1>1. /\ b \in Blocks /\ chainTakes(b)
      /\ UNCHANGED <<syncVars, headerVars, pool, link, remote, updates, leaves>>
  BY SyncAssumption DEF ProcessBlock
<1>2. ChainOK'
  BY <1>1, ChainTakes DEF SyncInv
<1>3. ManagerOK' /\ RemoteOK' /\ HeadersFirstHasSyncPeer'
  BY <1>1 DEF SyncInv, ManagerOK, RemoteOK, HeadersFirstHasSyncPeer, syncVars, headerVars
<1> QED
  BY <1>1, <1>2, <1>3 DEF SyncInv, syncVars

-----------------------------------------------------------------------------
LEMMA SyncStart == Init => SyncInv
<1> SUFFICES ASSUME Init PROVE SyncInv
  OBVIOUS
<1>1. /\ peerStates = <<>> /\ requestedBlocks = {} /\ requestedTxns = {} /\ rejectedTxns = {}
      /\ syncPeer = Nil /\ headersFirstMode = FALSE /\ startHeader = Nil
      /\ nextCheckpoint = findNextHeaderCheckpoint(0)
      /\ headerList = IF nextCheckpoint = Nil THEN <<>> ELSE <<Genesis>>
      /\ have = {Genesis} /\ orphans = {} /\ best = Genesis /\ updates = {}
      /\ link = [p \in Peers |->
          [conn |-> "none", in |-> <<>>, out |-> <<>>, lastBlock |-> 0,
           announced |-> Nil, prevGetBlocks |-> <<>>, prevGetHdrs |-> <<>>]]
  BY DEF Init
<1>2. PICK tips \in [Peers -> Blocks] :
        remote = [p \in Peers |-> [tip |-> tips[p], continueHash |-> Nil, relayed |-> {}, wasCurrent |-> TRUE]]
  BY DEF Init
<1>3. DOMAIN peerStates = {}
  BY <1>1
<1>4. StatesOK(peerStates)
  BY <1>1, <1>3 DEF StatesOK
<1>5. headerList \in Seq(Blocks)
  BY <1>1, NothingQueued, SyncAssumption
<1>6. ManagerOK
  BY <1>1, <1>4, <1>5, NextCheckpointIs DEF ManagerOK
<1>7. ChainOK /\ RemoteOK /\ HeadersFirstHasSyncPeer
  BY <1>1, <1>2, SyncAssumption DEF ChainOK, RemoteOK, HeadersFirstHasSyncPeer
<1>8. LinkOK(link)
  <2>1. 0 \in 0 .. Depth
    BY DepthNumber
  <2> QED
    BY <1>1, <2>1, SeqSmall DEF LinkOK, LinkFields, Connection
<1>9. NewcomersOK(link, peerStates) /\ MarksOK(requestedBlocks, peerStates, link)
  BY <1>1, <1>3 DEF NewcomersOK, MarksOK
<1> QED
  BY <1>6, <1>7, <1>8, <1>9 DEF SyncInv

LEMMA SyncStep == SyncInv /\ [Next]_vars => SyncInv'
<1> SUFFICES ASSUME SyncInv, [Next]_vars PROVE SyncInv'
  OBVIOUS
<1>1. CASE UNCHANGED vars
  BY <1>1 DEF SyncInv, ManagerOK, ChainOK, RemoteOK, HeadersFirstHasSyncPeer, vars, syncVars, headerVars, chainVars
<1>2. ASSUME NEW p \in Peers, Handle(p) \/ Remote(p) \/ OnVersion(p) \/ PeerLeaves(p) PROVE SyncInv'
  BY <1>2, handleNewPeerMsgKeeps, handleDonePeerMsgKeeps, handleHeadersMsgKeeps, handleBlockMsgKeeps,
     handleInvMsgKeeps, handleTxMsgKeeps, OnGetBlocksKeeps, OnGetHeadersKeeps, OnGetDataKeeps,
     OnVersionKeeps, PeerLeavesKeeps DEF Handle, Remote
<1>3. ASSUME NEW p \in Peers, NEW b \in Mined[p], PeerFinds(p, b) PROVE SyncInv'
  BY <1>3, PeerFindsKeeps
<1>4. ASSUME NEW p \in Peers, NEW t \in Txs, PeerRelays(p, t) PROVE SyncInv'
  BY <1>4, PeerRelaysKeeps
<1>5. ASSUME NEW b \in Submitted, ProcessBlock(b) PROVE SyncInv'
  BY <1>5, ProcessBlockKeeps
<1>6. CASE HandleUpdatePeerHeights
  BY <1>6, HandleUpdatePeerHeightsKeeps
<1> QED
  BY <1>1, <1>2, <1>3, <1>4, <1>5, <1>6 DEF Next

LEMMA InvKeepsMarks == SyncInv => TypeOK /\ HeadersFirstHasSyncPeer /\ RequestedIsOnItsWay
<1> SUFFICES ASSUME SyncInv PROVE TypeOK /\ HeadersFirstHasSyncPeer /\ RequestedIsOnItsWay
  OBVIOUS
<1>1. ManagerOK /\ ChainOK /\ HeadersFirstHasSyncPeer /\ LinkOK(link) /\ MarksOK(requestedBlocks, peerStates, link)
  BY DEF SyncInv
<1>2. DOMAIN peerStates \subseteq Peers /\ \A p \in DOMAIN peerStates : peerStates[p] \in PeerStateType
  BY <1>1 DEF ManagerOK, StatesOK
<1>3. TypeOK
  BY <1>1, <1>2 DEF TypeOK, ManagerOK, ChainOK, LinkOK
<1>4. ASSUME NEW p \in Peers, NEW b, Coming(link, p, b) PROVE link[p].conn = "closed" \/ OnItsWay(p, b)
  BY <1>4, SameElements DEF Coming, OnItsWay, Elements
<1>5. RequestedIsOnItsWay
  BY <1>1, <1>2, <1>4 DEF MarksOK, RequestedIsOnItsWay
<1> QED
  BY <1>1, <1>3, <1>5

(* A block is marked as requested only as long as it is on its way, from a *)
(* peer that has the mark, or that peer's end is still to be handled       *)
(* (handleBlockMsg, handleInvMsg, fetchHeaderBlocks, handleDonePeerMsg).   *)
THEOREM RequestedAlwaysOnItsWay == Spec => []RequestedIsOnItsWay
<1>1. Init => SyncInv
  BY SyncStart
<1>2. SyncInv /\ [Next]_vars => SyncInv'
  BY SyncStep
<1>3. SyncInv => RequestedIsOnItsWay
  BY InvKeepsMarks
<1> QED
  BY <1>1, <1>2, <1>3, PTL DEF Spec

-----------------------------------------------------------------------------
(* The list of headers.                                                    *)

(* It climbs the tree: no block is on it twice.                            *)
LEMMA LinkedClimbs ==
    ASSUME NEW list \in Seq(Blocks), Linked(list)
    PROVE  \A i, j \in DOMAIN list : i < j => /\ Height[list[i]] < Height[list[j]]
                                              /\ list[i] \in Ancestors[list[j]]
<1> DEFINE Climbs(i, j) == Height[list[i]] < Height[list[j]] /\ list[i] \in Ancestors[list[j]]
           Holds == {n \in Nat : \A i, j \in DOMAIN list : j = i + (n + 1) => Climbs(i, j)}
<1>1. DOMAIN list = 1 .. Len(list) /\ Len(list) \in Nat /\ \A i \in DOMAIN list : list[i] \in Blocks
  OBVIOUS
<1>2. \A b \in Blocks : Height[b] \in Nat /\ b \in Ancestors[b]
  BY Heights, DepthNumber
<1>3. ASSUME NEW i \in DOMAIN list, NEW j \in DOMAIN list, j = i + 1 PROVE Climbs(i, j)
  <2>1. list[j] \in Blocks \ {Genesis} /\ Prev[list[j]] = list[i]
    <3>1. j # 1 /\ j - 1 = i
      BY <1>1, <1>3
    <3> QED
      BY <1>1, <3>1 DEF Linked
  <2>2. Height[list[j]] = Height[list[i]] + 1 /\ Ancestors[list[j]] = {list[j]} \cup Ancestors[list[i]]
    BY <2>1, SyncTreeAssumption
  <2> QED
    BY <1>1, <1>2, <2>2
<1>4. 0 \in Holds
  BY <1>1, <1>3
<1>5. ASSUME NEW n \in Nat, n \in Holds PROVE n + 1 \in Holds
  <2> SUFFICES ASSUME NEW i \in DOMAIN list, NEW j \in DOMAIN list, j = i + ((n + 1) + 1) PROVE Climbs(i, j)
    OBVIOUS
  <2>1. j - 1 \in DOMAIN list /\ j - 1 = i + (n + 1) /\ j = (j - 1) + 1
    BY <1>1
  <2>2. Climbs(i, j - 1) /\ Climbs(j - 1, j)
    BY <1>3, <1>5, <2>1
  <2>3. list[j] \in Blocks \ {Genesis} /\ Prev[list[j]] = list[j - 1]
    <3>1. j # 1
      BY <1>1
    <3> QED
      BY <1>1, <3>1 DEF Linked
  <2>4. Ancestors[list[j]] = {list[j]} \cup Ancestors[list[j - 1]]
    BY <2>3, SyncTreeAssumption
  <2> QED
    BY <1>1, <1>2, <2>1, <2>2, <2>4
<1> HIDE DEF Holds, Climbs
<1>6. ASSUME NEW i \in DOMAIN list, NEW j \in DOMAIN list, i < j PROVE Climbs(i, j)
  <2>1. j - i - 1 \in Nat /\ j = i + ((j - i - 1) + 1)
    BY <1>1, <1>6
  <2>2. j - i - 1 \in Holds
    BY <1>4, <1>5, <2>1, NaturalsByInduction
  <2> QED
    BY <2>1, <2>2 DEF Holds
<1> QED
  BY <1>6 DEF Climbs

LEMMA LinkedOnce ==
    ASSUME NEW list \in Seq(Blocks), Linked(list)
    PROVE  \A i, j \in DOMAIN list : list[i] = list[j] => i = j
<1> SUFFICES ASSUME NEW i \in DOMAIN list, NEW j \in DOMAIN list, list[i] = list[j], i # j PROVE FALSE
  OBVIOUS
<1>1. i < j \/ j < i
  OBVIOUS
<1>2. Height[list[i]] \in Nat /\ list[i] \in Blocks
  BY Heights, DepthNumber
<1> QED
  BY <1>1, <1>2, LinkedClimbs

(* All of it is at or under its last block.                                *)
LEMMA LinkedUnder ==
    ASSUME NEW list \in Seq(Blocks), Linked(list)
    PROVE  \A i \in DOMAIN list : list[i] \in Ancestors[list[Len(list)]]
<1>1. ASSUME NEW i \in DOMAIN list PROVE list[i] \in Ancestors[list[Len(list)]]
  <2>1. Len(list) \in DOMAIN list /\ (i = Len(list) \/ i < Len(list)) /\ list[i] \in Blocks
    OBVIOUS
  <2>2. CASE i = Len(list)
    BY <2>1, <2>2, Heights
  <2>3. CASE i < Len(list)
    BY <2>1, <2>3, LinkedClimbs
  <2> QED
    BY <2>1, <2>2, <2>3
<1> QED
  BY <1>1

(* A part of it, and the list without its first.                           *)
LEMMA LinkedPart ==
    ASSUME NEW list \in Seq(Blocks), Linked(list), NEW s \in DOMAIN list
    PROVE  LET part == SubSeq(list, s, Len(list))
           IN  /\ part \in Seq(Blocks) /\ Linked(part) /\ Len(part) = Len(list) - (s - 1)
               /\ DOMAIN part = 1 .. Len(list) - (s - 1)
               /\ \A i \in DOMAIN part : i + (s - 1) \in DOMAIN list /\ part[i] = list[i + (s - 1)]
<1> DEFINE part == SubSeq(list, s, Len(list))
<1>1. DOMAIN list = 1 .. Len(list) /\ Len(list) \in Nat /\ s \in Nat /\ s >= 1 /\ s <= Len(list)
  OBVIOUS
<1>2. /\ part \in Seq(Blocks) /\ Len(part) = Len(list) - (s - 1)
      /\ DOMAIN part = 1 .. Len(list) - (s - 1)
      /\ \A i \in DOMAIN part : i + (s - 1) \in DOMAIN list /\ part[i] = list[i + (s - 1)]
  BY <1>1
<1> HIDE DEF part
<1>3. Linked(part)
  <2> SUFFICES ASSUME NEW i \in DOMAIN part, i # 1 PROVE part[i] # Genesis /\ Prev[part[i]] = part[i - 1]
    BY DEF Linked
  <2>1. i - 1 \in DOMAIN part /\ i + (s - 1) # 1 /\ (i - 1) + (s - 1) = (i + (s - 1)) - 1
    BY <1>1, <1>2
  <2>2. part[i] = list[i + (s - 1)] /\ part[i - 1] = list[(i + (s - 1)) - 1] /\ i + (s - 1) \in DOMAIN list
    BY <1>2, <2>1
  <2> QED
    BY <2>1, <2>2 DEF Linked
<1> QED
  BY <1>2, <1>3 DEF part

LEMMA ListFromAt ==
    ASSUME NEW list \in Seq(Blocks), Linked(list), NEW s \in DOMAIN list
    PROVE  ListFrom(list, list[s]) = SubSeq(list, s, Len(list))
<1> DEFINE at == CHOOSE i \in DOMAIN list : list[i] = list[s]
<1>1. at \in DOMAIN list /\ list[at] = list[s]
  OBVIOUS
<1>2. ListFrom(list, list[s]) = SubSeq(list, at, Len(list))
  BY DEF ListFrom, ToSet
<1> HIDE DEF at
<1>3. at = s
  BY <1>1, LinkedOnce
<1> QED
  BY <1>2, <1>3

(* What is asked for next comes before the block to go on from.            *)
Splits(walk, next) ==
    \E n \in 0 .. Len(walk) :
        /\ next.start = IF n < Len(walk) THEN walk[n + 1] ELSE Nil
        /\ \A b \in Elements(next.ask) : \E i \in 1 .. n : walk[i] = b

LEMMA NextBlocksSplit ==
    ASSUME NEW walk \in Seq(Blocks), Linked(walk), NEW known
    PROVE  Splits(walk, NextBlocks(walk, known))
<1> DEFINE missing == Wanted(walk, known)
           full == Len(missing) >= MaxInvPerMsg
           ask == IF full THEN SubSeq(missing, 1, MaxInvPerMsg) ELSE missing
           n == IF full THEN CHOOSE i \in DOMAIN walk : walk[i] = Last(ask) ELSE Len(walk)
<1>1. missing \in Seq(Blocks) /\ Elements(missing) \subseteq Elements(walk) /\ InOrder(missing, walk)
  BY WantedIs
<1>2. /\ NextBlocks(walk, known).ask = ask
      /\ NextBlocks(walk, known).start = IF n < Len(walk) THEN walk[n + 1] ELSE Nil
  BY DEF NextBlocks
<1>3. MaxInvPerMsg \in Nat /\ MaxInvPerMsg >= 1
  BY SyncAssumption
<1>4. DOMAIN walk = 1 .. Len(walk) /\ Len(walk) \in Nat
  OBVIOUS
<1> HIDE DEF missing
<1>5. CASE full
  <2> DEFINE M == MaxInvPerMsg
  <2>1. /\ Len(ask) = M /\ DOMAIN ask = 1 .. M /\ M \in DOMAIN missing /\ DOMAIN missing = 1 .. Len(missing)
        /\ Len(missing) \in Nat /\ M <= Len(missing)
        /\ \A i \in 1 .. M : ask[i] = missing[i]
    BY <1>1, <1>3, <1>5
  <2>6. missing[M] \in Elements(walk)
    BY <1>1, <2>1 DEF Elements
  <2>7. Last(ask) = ask[Len(ask)]
    BY DEF Last
  <2>8. ask[Len(ask)] = missing[M]
    BY <1>3, <2>1
  <2>2. Last(ask) = missing[M] /\ missing[M] \in Elements(walk)
    BY <2>6, <2>7, <2>8
  <2>3. n \in DOMAIN walk /\ walk[n] = missing[M]
    BY <1>5, <2>2 DEF Elements
  <2> HIDE DEF n, ask
  <2>4. ASSUME NEW i \in 1 .. M PROVE \E k \in 1 .. n : walk[k] = ask[i]
    <3>1. CASE i = M
      BY <1>4, <2>1, <2>3, <3>1
    <3>2. CASE i # M
      <4>1. i \in DOMAIN missing /\ M \in DOMAIN missing /\ i < M
        BY <1>3, <2>1, <3>2
      <4>2. PICK k \in DOMAIN walk, l \in DOMAIN walk : k < l /\ missing[i] = walk[k] /\ missing[M] = walk[l]
        BY <1>1, <4>1 DEF InOrder
      <4>3. l = n
        BY <2>3, <4>2, LinkedOnce
      <4> QED
        BY <1>4, <2>1, <2>3, <4>2, <4>3
    <3> QED
      BY <3>1, <3>2
  <2>5. \A b \in Elements(ask) : \E i \in 1 .. n : walk[i] = b
    BY <2>1, <2>4 DEF Elements
  <2>9. n \in 0 .. Len(walk)
    BY <1>4, <2>3
  <2> QED
    BY <1>2, <2>5, <2>9 DEF Splits
<1>6. CASE ~full
  <2>1. n = Len(walk) /\ ask = missing
    BY <1>6
  <2> HIDE DEF n, ask
  <2>2. \A b \in Elements(ask) : \E i \in 1 .. n : walk[i] = b
    BY <1>1, <1>4, <2>1 DEF Elements
  <2>3. n \in 0 .. Len(walk)
    BY <1>4, <2>1
  <2> QED
    BY <1>2, <2>2, <2>3 DEF Splits
<1> QED
  BY <1>5, <1>6

(* fetchHeaderBlocks: the block to go on from moves up the list, behind    *)
(* all that is asked for.                                                  *)
LEMMA FetchingGoesOn ==
    ASSUME NEW list \in Seq(Blocks), Linked(list), NEW s \in DOMAIN list, NEW held, NEW asked,
           \A b \in asked : \E i \in 1 .. s - 1 : list[i] = b
    PROVE  LET next == NextBlocks(ListFrom(list, list[s]), held)
           IN  FetchingOK(list, next.start, asked \cup ToSet(next.ask), list[Len(list)])
<1> DEFINE walk == SubSeq(list, s, Len(list))
           next == NextBlocks(walk, held)
<1>1. ListFrom(list, list[s]) = walk
  BY ListFromAt
<1>2. /\ walk \in Seq(Blocks) /\ Linked(walk) /\ Len(walk) = Len(list) - (s - 1)
      /\ DOMAIN walk = 1 .. Len(list) - (s - 1)
      /\ \A i \in DOMAIN walk : i + (s - 1) \in DOMAIN list /\ walk[i] = list[i + (s - 1)]
  BY LinkedPart
<1> HIDE DEF walk
<1>11. Splits(walk, next)
  BY <1>2, NextBlocksSplit
<1> HIDE DEF next
<1>3. PICK n \in 0 .. Len(walk) : /\ next.start = IF n < Len(walk) THEN walk[n + 1] ELSE Nil
                                  /\ \A b \in Elements(next.ask) : \E i \in 1 .. n : walk[i] = b
  BY <1>11 DEF Splits
<1>4. DOMAIN list = 1 .. Len(list) /\ Len(list) \in Nat /\ s \in Nat /\ s >= 1 /\ s <= Len(list) /\ n \in Nat
  BY <1>2, <1>3
<1>5. ToSet(next.ask) = Elements(next.ask)
  BY SameElements
<1> DEFINE t == n + s
<1>6. t \in 1 .. Len(list) + 1
  BY <1>2, <1>3, <1>4
<1>7. next.start = IF t = Len(list) + 1 THEN Nil ELSE list[t]
  <2>1. CASE n < Len(walk)
    <3>1. n + 1 \in DOMAIN walk /\ (n + 1) + (s - 1) = t /\ t # Len(list) + 1
      BY <1>2, <1>3, <1>4, <2>1
    <3>2. walk[n + 1] = list[t]
      BY <1>2, <3>1
    <3> HIDE DEF t
    <3> QED
      BY <1>3, <2>1, <3>1, <3>2
  <2>2. CASE ~(n < Len(walk))
    <3>1. t = Len(list) + 1
      BY <1>2, <1>3, <1>4, <2>2
    <3> QED
      BY <1>3, <2>2, <3>1
  <2> QED
    BY <2>1, <2>2
<1>8. ASSUME NEW b \in asked \cup Elements(next.ask) PROVE \E i \in 1 .. t - 1 : list[i] = b
  <2>1. CASE b \in asked
    <3>1. PICK i \in 1 .. s - 1 : list[i] = b
      BY <2>1
    <3>2. i \in 1 .. t - 1
      BY <1>4, <3>1
    <3> QED
      BY <3>1, <3>2
  <2>2. CASE b \in Elements(next.ask)
    <3>1. PICK i \in 1 .. n : walk[i] = b
      BY <1>3, <2>2
    <3>2. i \in DOMAIN walk /\ i + (s - 1) \in 1 .. t - 1
      BY <1>2, <1>3, <1>4
    <3>3. list[i + (s - 1)] = b
      BY <1>2, <3>1, <3>2
    <3> QED
      BY <3>2, <3>3
  <2> QED
    BY <1>8, <2>1, <2>2
<1> HIDE DEF t
<1>9. list # <<>>
  BY <1>4
<1>10. FetchingOK(list, next.start, asked \cup ToSet(next.ask), list[Len(list)])
  BY <1>5, <1>6, <1>7, <1>8, <1>9 DEF FetchingOK
<1> QED
  BY <1>1, <1>10 DEF next
-----------------------------------------------------------------------------
(* Headers-first mode, step by step.                                       *)

(* The oldest message of a peer is taken.                                  *)
LEMMA ReceivingCalms ==
    ASSUME SyncInv, NEW p \in Peers, NEW type, Receives(p, type)
    PROVE  /\ Calms(link, Received(p))
           /\ type = "headers" => ~Quiet(link, p) /\ (AtMostOne(link, p) => Quiet(Received(p), p))
           /\ type = "newpeer" => Waits(link, p)
<1> DEFINE l == Received(p)
           s == link[p].in
<1>1. /\ DOMAIN link = Peers /\ DOMAIN link[p] = LinkFields
      /\ link[p].conn # "none" /\ s # <<>> /\ Head(s).type = type /\ IsSeq(s)
  BY DEF SyncInv, LinkOK, Receives
<1>2. /\ \A q \in Peers \ {p} : l[q] = link[q]
      /\ l[p].in = Tail(s) /\ l[p].conn = link[p].conn /\ l[p].out = link[p].out
  BY <1>1 DEF Received, LinkFields
<1> HIDE DEF l
<1>3. /\ 1 \in DOMAIN s /\ Head(s) = s[1]
      /\ \A i \in DOMAIN Tail(s) : i + 1 \in DOMAIN s /\ Tail(s)[i] = s[i + 1]
  BY <1>1, SeqTail
<1>4. /\ None(s, "headers") => None(Tail(s), "headers")
      /\ Sole(s, "headers") => Sole(Tail(s), "headers")
      /\ Sole(s, "headers") /\ Head(s).type = "headers" => None(Tail(s), "headers")
  BY <1>1, TailCalm
<1>5. Waits(l, p) => Waits(link, p)
  BY <1>1, <1>2, <1>3 DEF Waits
<1>6. Calms(link, l)
  BY <1>2, <1>4, <1>5, OneCalms
<1>7. ASSUME type = "headers" PROVE ~Quiet(link, p) /\ (AtMostOne(link, p) => Quiet(l, p))
  <2>1. ~None(s, "headers")
    BY <1>1, <1>3, <1>7 DEF None
  <2> QED
    BY <1>1, <1>2, <1>4, <1>7, <2>1 DEF Quiet, AtMostOne
<1>8. type = "newpeer" => Waits(link, p)
  BY <1>1, <1>3 DEF Waits
<1> QED
  BY <1>6, <1>7, <1>8 DEF l

(* Messages of a peer come in.                                             *)
LEMMA ArrivalCalms ==
    ASSUME SyncInv, NEW p \in Peers, NEW msgs, IsSeq(msgs), NEW m,
           \A x \in Elements(msgs) : x.type \notin {"newpeer", "headers"},
           \A q \in Peers \ {p} : m[q] = link[q], m[p].conn = link[p].conn, m[p].in = link[p].in \o msgs,
           \/ m[p].out = link[p].out
           \/ link[p].out # <<>> /\ m[p].out = Tail(link[p].out)
    PROVE  Calms(link, m)
<1>1. IsSeq(link[p].in) /\ IsSeq(link[p].out)
  BY DEF SyncInv, LinkOK
<1>2. \A i \in DOMAIN msgs : msgs[i].type \notin {"newpeer", "headers"}
  BY DEF Elements
<1>3. None(msgs, "headers")
  BY <1>2 DEF None
<1>4. /\ None(link[p].in, "headers") => None(m[p].in, "headers")
      /\ Sole(link[p].in, "headers") => Sole(m[p].in, "headers")
  BY <1>1, <1>3, JoinCalm
<1>5. /\ None(link[p].out, "getheaders") => None(m[p].out, "getheaders")
      /\ Sole(link[p].out, "getheaders") => Sole(m[p].out, "getheaders")
  BY <1>1, TailCalm
<1>6. ASSUME NEW i \in DOMAIN m[p].in, m[p].in[i].type = "newpeer" PROVE Waits(link, p)
  <2> DEFINE s == link[p].in
  <2>1. /\ DOMAIN s = 1 .. Len(s) /\ DOMAIN msgs = 1 .. Len(msgs) /\ Len(s) \in Nat /\ Len(msgs) \in Nat
        /\ DOMAIN (s \o msgs) = 1 .. Len(s) + Len(msgs)
        /\ \A k \in 1 .. Len(s) + Len(msgs) : (s \o msgs)[k] = IF k <= Len(s) THEN s[k] ELSE msgs[k - Len(s)]
    BY <1>1, SeqJoin
  <2>2. i \in 1 .. Len(s) + Len(msgs) /\ (s \o msgs)[i].type = "newpeer"
    BY <1>6, <2>1
  <2>3. CASE i <= Len(s)
    <3>1. i \in DOMAIN s /\ s[i].type = "newpeer"
      BY <2>1, <2>2, <2>3
    <3> QED
      BY <3>1 DEF Waits
  <2>4. CASE ~(i <= Len(s))
    <3>1. i - Len(s) \in DOMAIN msgs
      BY <2>1, <2>2, <2>4
    <3>2. msgs[i - Len(s)].type = "newpeer"
      BY <2>1, <2>2, <2>4
    <3> QED
      BY <1>2, <3>1, <3>2
  <2> QED
    BY <2>3, <2>4
<1>7. Waits(m, p) => Waits(link, p)
  BY <1>6 DEF Waits
<1> SUFFICES ASSUME NEW q \in Peers
      PROVE  /\ None(link[q].out, "getheaders") => None(m[q].out, "getheaders")
             /\ Sole(link[q].out, "getheaders") => Sole(m[q].out, "getheaders")
             /\ None(link[q].in, "headers") => None(m[q].in, "headers")
             /\ Sole(link[q].in, "headers") => Sole(m[q].in, "headers")
             /\ Waits(m, q) => Waits(link, q)
  BY DEF Calms
<1>8. CASE q = p
  BY <1>4, <1>5, <1>7, <1>8
<1>9. CASE q # p
  BY <1>9 DEF Waits
<1> QED
  BY <1>8, <1>9

(* A step that asks for no headers, and below the checkpoint for no block. *)
LEMMA CalmStep ==
    ASSUME SyncInv, FirstInv, Calms(link, link'), DOMAIN peerStates' = DOMAIN peerStates,
           UNCHANGED <<syncPeer, headersFirstMode, headerList, startHeader, nextCheckpoint, fastAdded>>,
           StaysAbove,
           Below \/ headersFirstMode =>
               \A q \in DOMAIN peerStates : /\ peerStates'[q].requestedBlocks = peerStates[q].requestedBlocks
                                            /\ peerStates'[q].requestQueue \in Seq(Txs)
    PROVE  FirstInv'
<1>1. FlightOK(link', peerStates, syncPeer)
  BY CalmKeeps DEF FirstInv
<1>2. FlightOK(link, peerStates, syncPeer)'
  BY <1>1 DEF FlightOK
<1>3. Below' => Below
  BY DEF Below, StaysAbove
<1>4. headersFirstMode => syncPeer \in DOMAIN peerStates /\ syncPeer \in Peers
  BY DEF SyncInv, HeadersFirstHasSyncPeer, ManagerOK, StatesOK
<1>5. headersFirstMode => peerStates'[syncPeer].requestedBlocks = peerStates[syncPeer].requestedBlocks
  BY <1>4
<1>6. headersFirstMode /\ Quiet(link, syncPeer) => Quiet(link', syncPeer)
  BY <1>4, CalmKeeps
<1>7. ListOK'
  BY <1>5, <1>6 DEF FirstInv, ListOK, Quiet, FetchingOK, CollectingOK
<1>8. Below' \/ headersFirstMode' => OnlyListed(peerStates, syncPeer)'
  BY <1>3 DEF FirstInv, OnlyListed
<1>9. (Below /\ ~headersFirstMode => syncPeer = Nil)'
  BY <1>3 DEF FirstInv
<1> QED
  BY <1>2, <1>7, <1>8, <1>9 DEF FirstInv

(* One that changes nothing of the manager.                                *)
LEMMA SameStep ==
    ASSUME SyncInv, FirstInv, Calms(link, link'),
           UNCHANGED <<peerStates, syncPeer, headerVars, best, fastAdded>>
    PROVE  FirstInv'
<1>1. StaysAbove
  BY DEF StaysAbove
<1>2. Below \/ headersFirstMode => \A q \in DOMAIN peerStates : peerStates[q].requestQueue \in Seq(Txs)
  BY DEF FirstInv, OnlyListed
<1> QED
  BY <1>1, <1>2, CalmStep DEF headerVars

(* The steps of the others.                                                *)
LEMMA AnswerFirst ==
    ASSUME SyncInv, FirstInv, NEW p \in Peers, NEW msgs, IsSeq(msgs), link[p].out # <<>>,
           \A m \in Elements(msgs) : m.type \notin {"newpeer", "headers"},
           Answer(p, msgs), UNCHANGED <<syncVars, headerVars, chainVars, history>>
    PROVE  FirstInv'
<1>1. DOMAIN link = Peers /\ DOMAIN link[p] = LinkFields
  BY DEF SyncInv, LinkOK
<1>2. /\ \A q \in Peers \ {p} : link'[q] = link[q]
      /\ link'[p].conn = link[p].conn
      /\ link'[p].in = link[p].in \o msgs /\ link'[p].out = Tail(link[p].out)
  BY <1>1 DEF Answer, LinkFields
<1>3. Calms(link, link')
  BY <1>2, ArrivalCalms
<1> QED
  BY <1>3, SameStep DEF syncVars, chainVars, history

LEMMA OnGetBlocksFirst ==
    ASSUME SyncInv, FirstInv, NEW p \in Peers, OnGetBlocks(p)
    PROVE  FirstInv'
<1> DEFINE m == Head(link[p].out)
           list == locateInventory(remote[p].tip, m.locator, m.stop, MaxBlocksPerMsg)
           msgs == IF list = <<>> THEN <<>> ELSE <<[type |-> "inv", inv |-> list]>>
<1>1. /\ link[p].out # <<>> /\ Answer(p, msgs)
      /\ UNCHANGED <<syncVars, headerVars, chainVars, history>>
  BY DEF OnGetBlocks, Asked
<1> HIDE DEF list
<1>2. IsSeq(msgs) /\ \A n \in Elements(msgs) : n.type \notin {"newpeer", "headers"}
  <2> DEFINE n == [type |-> "inv", inv |-> list]
  <2>1. n.type \notin {"newpeer", "headers"}
    OBVIOUS
  <2> HIDE DEF n
  <2>2. msgs \in {<<>>, <<n>>}
    BY DEF n
  <2> HIDE DEF msgs
  <2> QED
    BY <2>1, <2>2, SeqSmall
<1> HIDE DEF msgs
<1> QED
  BY <1>1, <1>2, AnswerFirst

LEMMA OnGetDataFirst ==
    ASSUME SyncInv, FirstInv, NEW p \in Peers, OnGetData(p)
    PROVE  FirstInv'
<1> DEFINE invs == Head(link[p].out).inv
           msgs == Data(p, invs)
<1>1. /\ link[p].out # <<>> /\ Head(link[p].out).type = "getdata"
      /\ Answer(p, msgs) /\ UNCHANGED <<syncVars, headerVars, chainVars, history>>
  BY DEF OnGetData, Asked
<1>2. RemoteOK /\ IsSeq(link[p].out) /\ \A m \in Elements(link[p].out) : Outgoing(m)
  BY DEF SyncInv, LinkOK
<1>3. Head(link[p].out) \in Elements(link[p].out)
  BY <1>1, <1>2, SeqTail
<1>4. invs \in Seq(InvVect)
  BY <1>1, <1>2, <1>3 DEF Outgoing
<1>5. IsSeq(msgs) /\ \A m \in Elements(msgs) : m.type \notin {"newpeer", "headers"}
  BY <1>2, <1>4, DataIs
<1> HIDE DEF msgs
<1> QED
  BY <1>1, <1>5, AnswerFirst

LEMMA AnnounceFirst ==
    ASSUME SyncInv, FirstInv, NEW p \in Peers, NEW iv,
           link' = [link EXCEPT ![p].in = Append(@, [type |-> "inv", inv |-> <<iv>>])],
           UNCHANGED <<syncVars, headerVars, chainVars, history>>
    PROVE  FirstInv'
<1> DEFINE n == [type |-> "inv", inv |-> <<iv>>]
<1>1. n.type \notin {"newpeer", "headers"}
  OBVIOUS
<1>2. DOMAIN link = Peers /\ DOMAIN link[p] = LinkFields /\ IsSeq(link[p].in)
  BY DEF SyncInv, LinkOK
<1>3. /\ \A q \in Peers \ {p} : link'[q] = link[q]
      /\ link'[p].conn = link[p].conn
      /\ link'[p].in = Append(link[p].in, n) /\ link'[p].out = link[p].out
  BY <1>2 DEF LinkFields
<1> HIDE DEF n
<1>4. Append(link[p].in, n) = link[p].in \o <<n>>
  <2>1. link[p].in \in Seq(Elements(link[p].in) \cup {n})
    BY <1>2, SeqOver
  <2> QED
    BY <2>1
<1>5. IsSeq(<<n>>) /\ \A x \in Elements(<<n>>) : x.type \notin {"newpeer", "headers"}
  <2>1. IsSeq(<<n>>) /\ Elements(<<n>>) = {n}
    BY SeqSmall
  <2> QED
    BY <1>1, <2>1
<1>6. link'[p].in = link[p].in \o <<n>>
  BY <1>3, <1>4
<1>7. Calms(link, link')
  BY <1>3, <1>5, <1>6, ArrivalCalms
<1> QED
  BY <1>7, SameStep DEF syncVars, chainVars, history

LEMMA OnVersionFirst ==
    ASSUME SyncInv, FirstInv, NEW p \in Peers, OnVersion(p)
    PROVE  FirstInv'
<1> DEFINE n == [type |-> "newpeer"]
<1>1. DOMAIN link = Peers /\ DOMAIN link[p] = LinkFields /\ link[p].conn = "none"
  BY DEF SyncInv, LinkOK, OnVersion
<1>2. /\ \A q \in Peers \ {p} : link'[q] = link[q]
      /\ link'[p].in = <<n>> /\ link'[p].out = link[p].out
  BY <1>1 DEF OnVersion, LinkFields
<1>3. n.type # "headers"
  OBVIOUS
<1> HIDE DEF n
<1>4. None(<<n>>, "headers") /\ Sole(<<n>>, "headers")
  BY <1>3, SeqSmall DEF None, Sole
<1>5. Waits(link, p)
  BY <1>1 DEF Waits
<1>6. Calms(link, link')
  BY <1>2, <1>4, <1>5, OneCalms
<1> QED
  BY <1>6, SameStep DEF OnVersion, syncVars, chainVars, history

LEMMA PeerLeavesFirst ==
    ASSUME SyncInv, FirstInv, NEW p \in Peers, PeerLeaves(p)
    PROVE  FirstInv'
<1>1. LinkOK(link)
  BY DEF SyncInv
<1>2. Calms(link, link')
  BY <1>1, SetKeeps DEF PeerLeaves
<1> QED
  BY <1>2, SameStep DEF PeerLeaves, syncVars, chainVars, history

LEMMA HandleUpdatePeerHeightsFirst ==
    ASSUME SyncInv, FirstInv, HandleUpdatePeerHeights
    PROVE  FirstInv'
<1>1. PICK u \in updates :
        /\ link' = [p \in Peers |->
              IF p # u.origin /\ link[p].announced = u.hash
              THEN [link[p] EXCEPT !.lastBlock = u.height, !.announced = Nil]
              ELSE link[p]]
        /\ UNCHANGED <<syncVars, headerVars, chainVars, remote, history, leaves>>
  BY DEF HandleUpdatePeerHeights
<1>2. ASSUME NEW q \in Peers
      PROVE  /\ link'[q].in = link[q].in /\ link'[q].out = link[q].out
             /\ link'[q].conn = "none" => link[q].conn = "none"
  <2>1. DOMAIN link[q] = LinkFields
    BY DEF SyncInv, LinkOK
  <2>2. link'[q] = link[q] \/ link'[q] = [link[q] EXCEPT !.lastBlock = u.height, !.announced = Nil]
    BY <1>1
  <2> QED
    BY <2>1, <2>2 DEF LinkFields
<1>3. Calms(link, link')
  BY <1>2, SameCalms
<1> QED
  BY <1>1, <1>3, SameStep DEF syncVars, chainVars, history

(* The chain takes a block: nothing fell back.                             *)
LEMMA ChainStaysAbove ==
    ASSUME ManagerOK, ChainOK, NEW b \in Blocks, chainTakes(b), ~fellBack'
    PROVE  StaysAbove
<1>1. CASE Prev[b] \notin have
  BY <1>1 DEF chainTakes, StaysAbove
<1>2. CASE Prev[b] \in have
  <2>1. ~FallsBack
    BY <1>2 DEF chainTakes
  <2>2. ChainOK'
    BY ChainTakes
  <2>3. Height[best] \in Int /\ Height[best'] \in Int
    BY <2>2, Heights DEF ChainOK
  <2>4. nextCheckpoint # Nil => Height[nextCheckpoint] \in Int
    BY Heights DEF ManagerOK
  <2> QED
    BY <2>1, <2>3, <2>4 DEF FallsBack, StaysAbove
<1> QED
  BY <1>1, <1>2

LEMMA ProcessBlockFirst ==
    ASSUME SyncInv, FirstInv, NEW b \in Submitted, ProcessBlock(b), ~fellBack'
    PROVE  FirstInv'
<1>1. /\ b \in Blocks /\ chainTakes(b)
      /\ UNCHANGED <<syncVars, headerVars, link, fastAdded>>
  BY SyncAssumption DEF ProcessBlock
<1>2. StaysAbove
  BY <1>1, ChainStaysAbove DEF SyncInv
<1>3. Calms(link, link')
  BY <1>1, CalmsOn
<1>4. Below \/ headersFirstMode => \A q \in DOMAIN peerStates : peerStates[q].requestQueue \in Seq(Txs)
  BY DEF FirstInv, OnlyListed
<1> QED
  BY <1>1, <1>2, <1>3, <1>4, CalmStep DEF syncVars, headerVars

(* The oldest message of a peer is dropped, or the peer with it.           *)
LEMMA DroppedFirst ==
    ASSUME SyncInv, FirstInv, NEW p \in Peers, NEW type, Receives(p, type),
           link' \in {Received(p), HangUp(Received(p), p)},
           UNCHANGED <<peerStates, syncPeer, headerVars, best, fastAdded>>
    PROVE  FirstInv'
<1>1. LinkOK(Received(p)) /\ Calms(link, Received(p))
  BY Receiving, ReceivingCalms
<1>2. Calms(Received(p), HangUp(Received(p), p))
  BY <1>1, SetKeeps
<1>3. Calms(link, link')
  BY <1>1, <1>2, CalmsOn
<1> QED
  BY <1>3, SameStep

(* A peer answers with headers: it is the sync peer, or nobody's.          *)
LEMMA OnGetHeadersFirst ==
    ASSUME SyncInv, FirstInv, NEW p \in Peers, OnGetHeaders(p)
    PROVE  FirstInv'
<1> DEFINE m == Head(link[p].out)
           n == [type |-> "headers",
                 headers |-> locateInventory(remote[p].tip, m.locator, m.stop, MaxBlockHeadersPerMsg)]
<1>0. CASE Answer(p, <<>>)
  BY <1>0, NothingQueued, AnswerFirst DEF OnGetHeaders, Asked, IsSeq
<1> SUFFICES ASSUME ~Answer(p, <<>>) PROVE FirstInv'
  BY <1>0
<1>1. /\ link[p].out # <<>> /\ m.type = "getheaders" /\ Answer(p, <<n>>) /\ link[p].conn = "up"
      /\ UNCHANGED <<syncVars, headerVars, chainVars, history>>
  BY DEF OnGetHeaders, Asked
<1>2. /\ DOMAIN link = Peers /\ DOMAIN link[p] = LinkFields /\ IsSeq(link[p].in) /\ IsSeq(link[p].out)
  BY DEF SyncInv, LinkOK
<1>3. n.type = "headers"
  OBVIOUS
<1> HIDE DEF n
<1>4. link[p].in \o <<n>> = Append(link[p].in, n)
  <2>1. link[p].in \in Seq(Elements(link[p].in) \cup {n})
    BY <1>2, SeqOver
  <2> QED
    BY <2>1
<1>5. /\ \A q \in Peers \ {p} : link'[q] = link[q]
      /\ link'[p].conn = link[p].conn
      /\ link'[p].in = Append(link[p].in, n) /\ link'[p].out = Tail(link[p].out)
  BY <1>1, <1>2, <1>4 DEF Answer, LinkFields
<1>6. ~None(link[p].out, "getheaders")
  BY <1>1, <1>2, SeqTail DEF None
<1>7. ~Quiet(link, p)
  BY <1>6 DEF Quiet
<1>8. Waits(link', p) => Waits(link, p)
  <2>1. /\ DOMAIN Append(link[p].in, n) = 1 .. Len(link[p].in) + 1
        /\ DOMAIN link[p].in = 1 .. Len(link[p].in) /\ Len(link[p].in) \in Nat
        /\ \A i \in DOMAIN link[p].in : Append(link[p].in, n)[i] = link[p].in[i]
        /\ Append(link[p].in, n)[Len(link[p].in) + 1] = n
    BY <1>2, SeqEnd
  <2>2. ASSUME NEW i \in DOMAIN link'[p].in, link'[p].in[i].type = "newpeer"
        PROVE  i \in DOMAIN link[p].in /\ link[p].in[i].type = "newpeer"
    <3>1. i \in 1 .. Len(link[p].in) + 1
      BY <1>5, <2>1, <2>2
    <3>2. i # Len(link[p].in) + 1
      BY <1>3, <1>5, <2>1, <2>2
    <3>3. i \in 1 .. Len(link[p].in)
      BY <2>1, <3>1, <3>2
    <3> QED
      BY <1>5, <2>1, <2>2, <3>3
  <2> QED
    BY <1>5, <2>2 DEF Waits
<1>9. AtMostOne(link, p) => AtMostOne(link', p)
  <2> SUFFICES ASSUME AtMostOne(link, p) PROVE AtMostOne(link', p)
    OBVIOUS
  <2>1. Sole(link[p].out, "getheaders") /\ None(link[p].in, "headers")
    BY <1>6 DEF AtMostOne
  <2>2. None(Tail(link[p].out), "getheaders")
    BY <1>1, <1>2, <2>1, TailCalm
  <2>3. Sole(Append(link[p].in, n), "headers")
    BY <1>2, <2>1, AppendCalm
  <2>4. Sole(Tail(link[p].out), "getheaders")
    BY <2>2, NoneSole
  <2> QED
    BY <1>5, <2>2, <2>3, <2>4 DEF AtMostOne
<1>10. FlightOK(link', peerStates, syncPeer)
  <2>1. FlightOK(link, peerStates, syncPeer)
    BY DEF FirstInv
  <2> SUFFICES ASSUME NEW q \in Peers
               PROVE  /\ q \notin DOMAIN peerStates => (Waits(link', q) => Quiet(link', q))
                      /\ q \in DOMAIN peerStates => (q # syncPeer => Quiet(link', q)) /\ AtMostOne(link', q)
    BY DEF FlightOK
  <2>2. CASE q = p
    BY <1>7, <1>8, <1>9, <2>1, <2>2 DEF FlightOK
  <2>3. CASE q # p
    BY <1>5, <2>1, <2>3 DEF FlightOK, Waits, Quiet, AtMostOne
  <2> QED
    BY <2>2, <2>3
<1>11. FlightOK(link, peerStates, syncPeer)'
  BY <1>1, <1>10 DEF FlightOK, syncVars
<1>12. headersFirstMode => syncPeer \in Peers
  BY DEF SyncInv, HeadersFirstHasSyncPeer, ManagerOK
<1>13. headersFirstMode /\ Quiet(link, syncPeer) => Quiet(link', syncPeer)
  <2> SUFFICES ASSUME headersFirstMode, Quiet(link, syncPeer) PROVE Quiet(link', syncPeer)
    OBVIOUS
  <2>1. syncPeer # p
    BY <1>7
  <2> QED
    BY <1>5, <1>12, <2>1 DEF Quiet
<1>14. UNCHANGED <<peerStates, syncPeer, headersFirstMode, headerList, startHeader, nextCheckpoint, best, fastAdded>>
  BY <1>1 DEF syncVars, headerVars, chainVars, history
<1>15. ListOK'
  BY <1>13, <1>14 DEF FirstInv, ListOK, Quiet
<1> QED
  BY <1>11, <1>14, <1>15 DEF FirstInv, OnlyListed, Below

LEMMA UnknownFirst ==
    ASSUME SyncInv, FirstInv, NEW p \in Peers, NEW type, Receives(p, type), FromUnknownPeer(p)
    PROVE  FirstInv'
BY DroppedFirst DEF FromUnknownPeer, syncVars, chainVars, history

LEMMA handleTxMsgFirst ==
    ASSUME SyncInv, FirstInv, NEW p \in Peers, handleTxMsg(p)
    PROVE  FirstInv'
<1> DEFINE t == Head(link[p].in).tx
           got == Received(p)
<1>1. Receives(p, "tx")
  BY DEF handleTxMsg
<1>2. \/ FromUnknownPeer(p)
      \/ /\ link' = got
         /\ UNCHANGED <<syncVars, headerVars, chainVars, updates, history>>
      \/ /\ p \in DOMAIN peerStates
         /\ peerStates' = [peerStates EXCEPT ![p].requestedTxns = @ \ {t}]
         /\ link' = got
         /\ UNCHANGED <<requestedBlocks, syncPeer, headerVars, have, orphans, best, updates, history>>
  BY DEF handleTxMsg
<1>3. CASE FromUnknownPeer(p)
  BY <1>1, <1>3, UnknownFirst
<1>4. CASE link' = got /\ UNCHANGED <<syncVars, headerVars, chainVars, updates, history>>
  BY <1>1, <1>4, DroppedFirst DEF syncVars, chainVars, history
<1>5. CASE /\ p \in DOMAIN peerStates
           /\ peerStates' = [peerStates EXCEPT ![p].requestedTxns = @ \ {t}]
           /\ link' = got
           /\ UNCHANGED <<requestedBlocks, syncPeer, headerVars, have, orphans, best, updates, history>>
  <2> HIDE DEF t, got
  <2>1. peerStates[p] \in PeerStateType /\ peerStates = [q \in DOMAIN peerStates |-> peerStates[q]]
    BY <1>5 DEF SyncInv, ManagerOK, StatesOK
  <2>2. /\ DOMAIN peerStates' = DOMAIN peerStates
        /\ \A q \in DOMAIN peerStates : /\ peerStates'[q].requestedBlocks = peerStates[q].requestedBlocks
                                        /\ peerStates'[q].requestQueue = peerStates[q].requestQueue
    BY <1>5, <2>1 DEF PeerStateType
  <2>3. StaysAbove
    BY <1>5 DEF StaysAbove, headerVars
  <2>4. Below \/ headersFirstMode => \A q \in DOMAIN peerStates : peerStates'[q].requestQueue \in Seq(Txs)
    BY <2>2 DEF FirstInv, OnlyListed
  <2>5. Calms(link, link')
    BY <1>1, <1>5, ReceivingCalms DEF got
  <2> QED
    BY <1>5, <2>2, <2>3, <2>4, <2>5, CalmStep DEF headerVars, history
<1> QED
  BY <1>2, <1>3, <1>4, <1>5

(* A new sync peer, or none: nothing is asked for below the checkpoint.    *)
LEMMA StartSyncFirst ==
    ASSUME NEW states, NEW requested, NEW l, StatesOK(states), LinkOK(l), Nil \notin Peers,
           FlightOK(l, states, Nil), Below => OnlyListed(states, Nil),
           startSync(states, requested, FALSE, l),
           nextCheckpoint \in Elements(Checkpoints) \cup {Nil},
           headerList' \in {<<>>} \cup {<<b>> : b \in Blocks}, startHeader' = Nil,
           \A b \in fastAdded : \E c \in Elements(Checkpoints) : b \in Ancestors[c],
           UNCHANGED <<nextCheckpoint, best, fastAdded>>
    PROVE  FirstInv'
<1> DEFINE able == {p \in DOMAIN states : /\ states[p].syncCandidate
                                          /\ SegwitActive => p \in Witness}
           tall(p) == l[p].lastBlock >= Height[best]
<1>1. /\ peerStates' = [p \in DOMAIN states |->
              IF p \in able /\ ~tall(p)
              THEN [states[p] EXCEPT !.syncCandidate = FALSE] ELSE states[p]]
      /\ \/ syncPeer' = Nil /\ headersFirstMode' = FALSE /\ link' = l
         \/ \E p \in able :
            /\ syncPeer' = p
            /\ headersFirstMode' = (Below \/ FALSE)
            /\ link' = IF Below
                       THEN PushGetHeadersMsg(l, p, LatestBlockLocator, best, nextCheckpoint)
                       ELSE PushGetBlocksMsg(l, p, LatestBlockLocator, best, Nil)
  BY DEF startSync, Below
<1>2. able \subseteq DOMAIN states /\ DOMAIN states \subseteq Peers
  BY DEF StatesOK
<1> HIDE DEF able, tall
<1>3. /\ DOMAIN peerStates' = DOMAIN states
      /\ \A p \in DOMAIN states : /\ peerStates'[p].requestedBlocks = states[p].requestedBlocks
                                  /\ peerStates'[p].requestQueue = states[p].requestQueue
  <2> SUFFICES ASSUME NEW p \in DOMAIN states
               PROVE  /\ peerStates'[p].requestedBlocks = states[p].requestedBlocks
                      /\ peerStates'[p].requestQueue = states[p].requestQueue
    BY <1>1
  <2>1. states[p] \in PeerStateType
    BY DEF StatesOK
  <2>2. peerStates'[p] = states[p] \/ peerStates'[p] = [states[p] EXCEPT !.syncCandidate = FALSE]
    BY <1>1
  <2> QED
    BY <2>1, <2>2 DEF PeerStateType
<1>4. Below' = Below
  BY DEF Below
<1>5. \A sync : Below => OnlyListed(peerStates', sync)
  <2>1. \A q \in DOMAIN states : q # Nil
    BY <1>2
  <2> QED
    BY <1>3, <2>1 DEF OnlyListed
<1>6. Linked(headerList')
  BY DEF Linked
<1>7. CASE syncPeer' = Nil /\ headersFirstMode' = FALSE /\ link' = l
  <2>1. FlightOK(link, peerStates, syncPeer)'
    BY <1>3, <1>7 DEF FlightOK
  <2>2. ListOK'
    BY <1>7 DEF ListOK
  <2>3. OnlyListed(peerStates, syncPeer)' \/ ~Below'
    BY <1>4, <1>5 DEF OnlyListed
  <2> QED
    BY <1>4, <1>7, <2>1, <2>2, <2>3 DEF FirstInv
<1>8. ASSUME NEW p \in able, syncPeer' = p, headersFirstMode' = (Below \/ FALSE),
             link' = IF Below
                     THEN PushGetHeadersMsg(l, p, LatestBlockLocator, best, nextCheckpoint)
                     ELSE PushGetBlocksMsg(l, p, LatestBlockLocator, best, Nil)
      PROVE  FirstInv'
  <2>1. p \in Peers /\ p \in DOMAIN states /\ p # Nil
    BY <1>2
  <2>2. FlightOK(l, states, p) /\ Quiet(l, p)
    BY <2>1 DEF FlightOK
  <2>3. FlightOK(link', states, p)
    <3>1. CASE Below
      <4>1. AsksOnce(l, link', p)
        BY <1>8, <2>1, <3>1, PushKeeps
      <4> QED
        BY <2>1, <2>2, <4>1, AskKeeps
    <3>2. CASE ~Below
      <4>1. Calms(l, link')
        BY <1>8, <2>1, <3>2, PushKeeps
      <4> QED
        BY <2>2, <4>1, CalmKeeps
    <3> QED
      BY <3>1, <3>2
  <2>4. FlightOK(link, peerStates, syncPeer)'
    BY <1>3, <1>8, <2>3 DEF FlightOK
  <2>5. headersFirstMode' => peerStates'[syncPeer'].requestedBlocks = {}
    BY <1>3, <1>8, <2>1 DEF OnlyListed
  <2>6. ListOK'
    BY <1>6, <2>5 DEF ListOK, CollectingOK
  <2>7. OnlyListed(peerStates, syncPeer)' \/ ~Below'
    BY <1>4, <1>5 DEF OnlyListed
  <2> QED
    BY <1>4, <1>8, <2>4, <2>6, <2>7 DEF FirstInv
<1> QED
  BY <1>1, <1>7, <1>8

(* handleNewPeerMsg.                                                       *)
LEMMA handleNewPeerMsgFirst ==
    ASSUME SyncInv, FirstInv, NEW p \in Peers, handleNewPeerMsg(p)
    PROVE  FirstInv'
<1> DEFINE new == [syncCandidate |-> isSyncCandidate(p), requestQueue |-> <<>>,
                   requestedTxns |-> {}, requestedBlocks |-> {}]
           states == [q \in DOMAIN peerStates \cup {p} |-> IF q = p THEN new ELSE peerStates[q]]
           l == Received(p)
<1>1. /\ Receives(p, "newpeer")
      /\ \/ /\ syncPeer = Nil /\ startSync(states, requestedBlocks, headersFirstMode, l)
         \/ /\ peerStates' = states /\ link' = l
            /\ UNCHANGED <<syncPeer, headersFirstMode>>
      /\ UNCHANGED <<headerList, startHeader, nextCheckpoint, best, fastAdded>>
  BY DEF handleNewPeerMsg, chainVars, history
<1>2. /\ HeadersFirstHasSyncPeer /\ StatesOK(peerStates) /\ headersFirstMode \in BOOLEAN
      /\ DOMAIN peerStates \subseteq Peers /\ Nil \notin Peers
  BY SyncAssumption DEF SyncInv, ManagerOK, StatesOK
<1>3. LinkOK(l) /\ p \notin DOMAIN peerStates
  BY <1>1, Receiving
<1>4. Calms(link, l) /\ Waits(link, p)
  BY <1>1, ReceivingCalms
<1> HIDE DEF l
<1>5. new \in PeerStateType /\ new.requestedBlocks = {} /\ new.requestQueue \in Seq(Txs)
  <2>1. isSyncCandidate(p) \in BOOLEAN
    BY DEF isSyncCandidate
  <2>2. <<>> \in Seq(Blocks \cup Txs) /\ <<>> \in Seq(Txs)
    BY NothingQueued
  <2> QED
    BY <2>1, <2>2 DEF PeerStateType
<1> HIDE DEF new
<1>6. /\ DOMAIN states = DOMAIN peerStates \cup {p} /\ states[p] = new
      /\ \A q \in DOMAIN peerStates : states[q] = peerStates[q]
      /\ states = [q \in DOMAIN states |-> states[q]]
  BY <1>3
<1> HIDE DEF states
<1>7. StatesOK(states)
  BY <1>2, <1>5, <1>6 DEF StatesOK
<1>8. FlightOK(link, peerStates, syncPeer)
  BY DEF FirstInv
<1>9. Quiet(link, p) /\ AtMostOne(link, p)
  BY <1>3, <1>4, <1>8, QuietOnce DEF FlightOK
<1>10. FlightOK(link, states, syncPeer)
  BY <1>6, <1>8, <1>9 DEF FlightOK
<1>11. FlightOK(l, states, syncPeer)
  BY <1>4, <1>10, CalmKeeps
<1>12. Below \/ headersFirstMode => OnlyListed(states, syncPeer)
  BY <1>5, <1>6 DEF FirstInv, OnlyListed
<1>13. CASE syncPeer = Nil /\ startSync(states, requestedBlocks, headersFirstMode, l)
  <2>1. headersFirstMode = FALSE
    BY <1>2, <1>13 DEF HeadersFirstHasSyncPeer
  <2>2. startSync(states, requestedBlocks, FALSE, l)
    BY <1>13, <2>1
  <2>3. FlightOK(l, states, Nil) /\ (Below => OnlyListed(states, Nil))
    BY <1>11, <1>12, <1>13
  <2>4. /\ nextCheckpoint \in Elements(Checkpoints) \cup {Nil}
        /\ headerList' \in {<<>>} \cup {<<b>> : b \in Blocks} /\ startHeader' = Nil
        /\ \A b \in fastAdded : \E c \in Elements(Checkpoints) : b \in Ancestors[c]
    BY <1>1, <2>1 DEF FirstInv, ListOK
  <2> QED
    BY <1>1, <1>2, <1>3, <1>7, <2>2, <2>3, <2>4, StartSyncFirst
<1>14. CASE /\ peerStates' = states /\ link' = l
            /\ UNCHANGED <<syncPeer, headersFirstMode>>
  <2>1. FlightOK(link, peerStates, syncPeer)'
    BY <1>11, <1>14 DEF FlightOK
  <2>2. headersFirstMode => syncPeer \in DOMAIN peerStates /\ syncPeer \in Peers
    BY <1>2 DEF HeadersFirstHasSyncPeer
  <2>3. headersFirstMode => peerStates'[syncPeer].requestedBlocks = peerStates[syncPeer].requestedBlocks
    BY <1>6, <1>14, <2>2
  <2>4. headersFirstMode /\ Quiet(link, syncPeer) => Quiet(link', syncPeer)
    BY <1>4, <1>14, <2>2, CalmKeeps
  <2>5. ListOK'
    BY <1>1, <1>14, <2>3, <2>4 DEF FirstInv, ListOK, Quiet, FetchingOK, CollectingOK
  <2>6. (Below \/ headersFirstMode => OnlyListed(peerStates, syncPeer))'
    BY <1>1, <1>12, <1>14 DEF OnlyListed, Below
  <2> QED
    BY <1>1, <1>14, <2>1, <2>5, <2>6 DEF FirstInv, Below
<1> QED
  BY <1>1, <1>13, <1>14

(* handleDonePeerMsg: what was asked of the sync peer goes with it.        *)
LEMMA handleDonePeerMsgFirst ==
    ASSUME SyncInv, FirstInv, NEW p \in Peers, handleDonePeerMsg(p)
    PROVE  FirstInv'
<1> DEFINE gone == [link EXCEPT ![p].conn = "gone",
                                ![p].in = IF @ = <<>> THEN @ ELSE <<Head(@)>>,
                                ![p].out = <<>>]
           states == [q \in DOMAIN peerStates \ {p} |-> peerStates[q]]
           blocks == PendingWithout(p)
<1>1. /\ UNCHANGED <<chainVars, fastAdded>>
      /\ \/ p \notin DOMAIN peerStates /\ link' = gone /\ UNCHANGED <<syncVars, headerVars>>
         \/ /\ p \in DOMAIN peerStates
            /\ \/ /\ syncPeer = p
                  /\ startSync(states, blocks, FALSE, gone)
                  /\ headersFirstMode => headerList' \in {<<best>>, <<>>} /\ startHeader' = Nil
                  /\ ~headersFirstMode => UNCHANGED <<headerList, startHeader>>
               \/ /\ syncPeer # p /\ peerStates' = states
                  /\ link' = gone
                  /\ UNCHANGED <<syncPeer, headersFirstMode, headerList, startHeader>>
            /\ UNCHANGED nextCheckpoint
  BY DEF handleDonePeerMsg, resetHeaderState, ModeWithoutSyncPeer, history
<1>2. /\ ManagerOK /\ best \in Blocks /\ HeadersFirstHasSyncPeer /\ StatesOK(peerStates)
      /\ LinkOK(link) /\ NewcomersOK(link, peerStates)
      /\ DOMAIN peerStates \subseteq Peers /\ Nil \notin Peers
  BY SyncAssumption DEF SyncInv, ManagerOK, StatesOK, ChainOK
<1>3. DOMAIN link = Peers /\ DOMAIN link[p] = LinkFields
  BY <1>2 DEF LinkOK
<1>4. /\ DOMAIN gone = Peers /\ \A q \in Peers \ {p} : gone[q] = link[q]
      /\ DOMAIN gone[p] = LinkFields /\ gone[p].conn = "gone" /\ gone[p].out = <<>>
      /\ gone[p].in = IF link[p].in = <<>> THEN link[p].in ELSE <<Head(link[p].in)>>
      /\ gone[p].lastBlock = link[p].lastBlock
  BY <1>3 DEF LinkFields
<1> HIDE DEF gone
<1>5. /\ IsSeq(gone[p].in) /\ Elements(gone[p].in) \subseteq Elements(link[p].in)
      /\ \A i \in DOMAIN gone[p].in : i \in DOMAIN link[p].in /\ gone[p].in[i] = link[p].in[i]
  <2>1. CASE link[p].in = <<>>
    BY <1>2, <1>4, <2>1 DEF LinkOK
  <2>2. CASE link[p].in # <<>>
    <3>1. gone[p].in = <<Head(link[p].in)>>
      BY <1>4, <2>2
    <3>2. IsSeq(link[p].in)
      BY <1>2 DEF LinkOK
    <3>3. Head(link[p].in) \in Elements(link[p].in) /\ 1 \in DOMAIN link[p].in /\ Head(link[p].in) = link[p].in[1]
      BY <2>2, <3>2, SeqTail
    <3> QED
      BY <3>1, <3>3, SeqSmall
  <2> QED
    BY <2>1, <2>2
<1>6. LinkOK(gone)
  BY <1>2, <1>4, <1>5, SeqSmall DEF LinkOK, Connection
<1>7. Calms(link, gone)
  <2>1. /\ None(link[p].out, "getheaders") => None(gone[p].out, "getheaders")
        /\ Sole(link[p].out, "getheaders") => Sole(gone[p].out, "getheaders")
    BY <1>4 DEF None, Sole
  <2>2. None(link[p].in, "headers") => None(gone[p].in, "headers")
    BY <1>5 DEF None
  <2>3. Sole(link[p].in, "headers") => Sole(gone[p].in, "headers")
    BY <1>5 DEF Sole
  <2>4. Waits(gone, p) => Waits(link, p)
    BY <1>4, <1>5 DEF Waits
  <2> SUFFICES ASSUME NEW q \in Peers
        PROVE  /\ None(link[q].out, "getheaders") => None(gone[q].out, "getheaders")
               /\ Sole(link[q].out, "getheaders") => Sole(gone[q].out, "getheaders")
               /\ None(link[q].in, "headers") => None(gone[q].in, "headers")
               /\ Sole(link[q].in, "headers") => Sole(gone[q].in, "headers")
               /\ Waits(gone, q) => Waits(link, q)
    BY DEF Calms
  <2>5. CASE q = p
    BY <2>1, <2>2, <2>3, <2>4, <2>5
  <2>6. CASE q # p
    BY <1>4, <2>6 DEF Waits
  <2> QED
    BY <2>5, <2>6
<1>8. FlightOK(link, peerStates, syncPeer)
  BY DEF FirstInv
<1>9. FlightOK(gone, peerStates, syncPeer)
  BY <1>7, <1>8, CalmKeeps
<1>10. p \in DOMAIN peerStates => ~Waits(gone, p)
  BY <1>2, <1>4, <1>5 DEF Waits, NewcomersOK
<1>11. CASE p \notin DOMAIN peerStates /\ link' = gone /\ UNCHANGED <<syncVars, headerVars>>
  BY <1>1, <1>7, <1>11, SameStep DEF syncVars, chainVars
<1>12. CASE p \in DOMAIN peerStates /\ UNCHANGED nextCheckpoint
  <2>1. /\ DOMAIN states = DOMAIN peerStates \ {p} /\ \A q \in DOMAIN states : states[q] = peerStates[q]
        /\ states = [q \in DOMAIN states |-> states[q]]
    OBVIOUS
  <2> HIDE DEF states, blocks
  <2>2. StatesOK(states)
    BY <1>2, <2>1 DEF StatesOK
  <2>3. FlightOK(gone, states, syncPeer)
    BY <1>9, <1>10, <1>12, <2>1 DEF FlightOK
  <2>4. Below \/ headersFirstMode => OnlyListed(states, syncPeer)
    BY <2>1 DEF FirstInv, OnlyListed
  <2>5. UNCHANGED <<best, fastAdded>>
    BY <1>1 DEF chainVars
  <2>6. CASE /\ syncPeer = p
             /\ startSync(states, blocks, FALSE, gone)
             /\ headersFirstMode => headerList' \in {<<best>>, <<>>} /\ startHeader' = Nil
             /\ ~headersFirstMode => UNCHANGED <<headerList, startHeader>>
    <3>1. FlightOK(gone, states, Nil)
      BY <2>1, <2>3, <2>6 DEF FlightOK
    <3>2. Below => OnlyListed(states, Nil)
      BY <2>1, <2>4, <2>6 DEF OnlyListed
    <3>3. headerList' \in {<<>>} \cup {<<b>> : b \in Blocks} /\ startHeader' = Nil
      <4>1. CASE headersFirstMode
        BY <1>2, <2>6, <4>1
      <4>2. CASE ~headersFirstMode
        BY <2>6, <4>2 DEF FirstInv, ListOK
      <4> QED
        BY <4>1, <4>2
    <3>4. /\ nextCheckpoint \in Elements(Checkpoints) \cup {Nil}
          /\ \A b \in fastAdded : \E c \in Elements(Checkpoints) : b \in Ancestors[c]
      BY DEF FirstInv, ListOK
    <3> QED
      BY <1>2, <1>6, <1>12, <2>2, <2>5, <2>6, <3>1, <3>2, <3>3, <3>4, StartSyncFirst
  <2>7. CASE /\ syncPeer # p /\ peerStates' = states /\ link' = gone
             /\ UNCHANGED <<syncPeer, headersFirstMode, headerList, startHeader>>
    <3>1. FlightOK(link, peerStates, syncPeer)'
      BY <2>3, <2>7 DEF FlightOK
    <3>2. headersFirstMode => syncPeer \in DOMAIN states /\ syncPeer \in Peers
      BY <1>2, <2>1, <2>7 DEF HeadersFirstHasSyncPeer
    <3>3. headersFirstMode => peerStates'[syncPeer].requestedBlocks = peerStates[syncPeer].requestedBlocks
      BY <2>1, <2>7, <3>2
    <3>4. headersFirstMode /\ Quiet(link, syncPeer) => Quiet(link', syncPeer)
      BY <1>7, <2>7, <3>2, CalmKeeps
    <3>5. ListOK'
      BY <1>12, <2>7, <3>3, <3>4 DEF FirstInv, ListOK, Quiet, FetchingOK, CollectingOK
    <3>6. (Below \/ headersFirstMode => OnlyListed(peerStates, syncPeer))'
      BY <1>12, <2>4, <2>5, <2>7 DEF OnlyListed, Below
    <3> QED
      BY <1>12, <2>5, <2>7, <3>1, <3>5, <3>6 DEF FirstInv, Below
  <2> QED
    BY <1>1, <1>12, <2>6, <2>7 DEF states, blocks
<1> QED
  BY <1>1, <1>11, <1>12

(* A current chain is not below a checkpoint.                              *)
LEMMA CurrentIsAbove ==
    ASSUME NEW heights, ChainOK, current(best, heights), nextCheckpoint \in Elements(Checkpoints) \cup {Nil}
    PROVE  ~Below
<1> SUFFICES ASSUME Below PROVE FALSE
  OBVIOUS
<1>1. PICK i \in DOMAIN Checkpoints : nextCheckpoint = Checkpoints[i]
  BY DEF Elements, Below
<1>2. Height[best] >= Height[FinalCheckpoint] /\ Height[nextCheckpoint] <= Height[FinalCheckpoint]
  BY <1>1, SyncTreeAssumption DEF current, IsCurrent
<1>3. FinalCheckpoint \in Blocks /\ nextCheckpoint \in Blocks /\ best \in Blocks
  <2>1. Checkpoints \in Seq(Blocks)
    BY SyncAssumption
  <2>2. Checkpoints # <<>> => Last(Checkpoints) \in Blocks
    BY <2>1 DEF Last
  <2>3. Checkpoints[i] \in Blocks
    BY <2>1
  <2> QED
    BY <1>1, <2>2, <2>3, SyncAssumption DEF FinalCheckpoint, ChainOK
<1>4. Height[best] \in Int /\ Height[FinalCheckpoint] \in Int /\ Height[nextCheckpoint] \in Int
  BY <1>3, Heights
<1> QED
  BY <1>2, <1>4 DEF Below

(* handleInvMsg: below the checkpoint no block is asked for.               *)
LEMMA handleInvMsgFirst ==
    ASSUME SyncInv, FirstInv, NEW p \in Peers, handleInvMsg(p)
    PROVE  FirstInv'
<1> DEFINE invs == Head(link[p].in).inv
           blocks == {i \in DOMAIN invs : invs[i] \in Blocks}
           last == IF blocks = {} THEN Nil ELSE invs[Max(blocks)]
           now == current(best, link)
           got == Received(p)
           told == IF last # Nil /\ (p # syncPeer \/ now)
                   THEN [got EXCEPT ![p].announced = last]
                   ELSE got
           known == IF last \in Ancestors[best] /\ now
                    THEN UpdateLastBlockHeight(told, p, Height[last])
                    ELSE told
           unwanted == {iv \in ToSet(invs) : haveInventory(iv) \/ iv \in rejectedTxns}
           queue == peerStates[p].requestQueue \o
                       IF headersFirstMode THEN <<>> ELSE Wanted(invs, unwanted)
<1>1. Receives(p, "inv") /\ UNCHANGED <<remote, leaves>>
  BY DEF handleInvMsg
<1>2. \/ FromUnknownPeer(p)
      \/ /\ p \in DOMAIN peerStates
         /\ UNCHANGED <<headerVars, chainVars, updates, history>>
         /\ \/ link' = told /\ UNCHANGED syncVars
            \/ /\ p = syncPeer \/ now
               /\ \E o \in DrainQueue(queue) :
                    /\ peerStates' = [peerStates EXCEPT
                          ![p].requestQueue = o.rest,
                          ![p].requestedBlocks = @ \cup (ToSet(o.ask) \cap Blocks),
                          ![p].requestedTxns = @ \cup (ToSet(o.ask) \cap Txs)]
                    /\ link' = QueueGetData(
                          IF headersFirstMode THEN known ELSE AskForMore(p, invs, last, known), p, o.ask)
               /\ UNCHANGED syncPeer
  BY DEF handleInvMsg
<1>3. /\ ManagerOK /\ ChainOK /\ StatesOK(peerStates) /\ best \in Blocks /\ Nil \notin Peers
      /\ DOMAIN peerStates \subseteq Peers
  BY SyncAssumption DEF SyncInv, ManagerOK, StatesOK, ChainOK
<1>4. LinkOK(got) /\ Calms(link, got) /\ invs \in Seq(InvVect)
  <2>1. LinkOK(got) /\ Incoming(Head(link[p].in)) /\ Head(link[p].in).type = "inv"
    BY <1>1, Receiving
  <2>2. Calms(link, got)
    BY <1>1, ReceivingCalms
  <2> QED
    BY <2>1, <2>2 DEF Incoming
<1> HIDE DEF invs, got, last, now
<1>5. LinkOK(told) /\ Calms(link, told)
  <2>1. LinkOK([got EXCEPT ![p].announced = last]) /\ Calms(got, [got EXCEPT ![p].announced = last])
    BY <1>4, SetKeeps
  <2> QED
    BY <1>4, <2>1, CalmsOn
<1> HIDE DEF told
<1>6. LinkOK(known) /\ Calms(link, known)
  <2>1. CASE last \in Ancestors[best] /\ now
    <3>1. Height[last] \in 0 .. Depth
      BY <1>3, <2>1, Heights DEF ChainOK
    <3>2. known = UpdateLastBlockHeight(told, p, Height[last])
      BY <2>1
    <3> HIDE DEF known
    <3>3. LinkOK(known) /\ Calms(told, known)
      BY <1>5, <3>1, <3>2, SetKeeps
    <3> QED
      BY <1>5, <3>3, CalmsOn
  <2>2. CASE ~(last \in Ancestors[best] /\ now)
    BY <1>5, <2>2
  <2> QED
    BY <2>1, <2>2
<1> HIDE DEF known
<1> DEFINE m == IF headersFirstMode THEN known ELSE AskForMore(p, invs, last, known)
<1>7. LinkOK(m) /\ Calms(link, m)
  <2>1. LinkOK(AskForMore(p, invs, last, known)) /\ Calms(known, AskForMore(p, invs, last, known))
    BY <1>4, <1>6, AskForMoreKeeps
  <2>2. Calms(link, AskForMore(p, invs, last, known))
    BY <1>6, <2>1, CalmsOn
  <2> QED
    BY <1>6, <2>1, <2>2
<1> HIDE DEF m
<1>8. p \in DOMAIN peerStates => queue \in Seq(InvVect)
  <2> SUFFICES ASSUME p \in DOMAIN peerStates PROVE queue \in Seq(InvVect)
    OBVIOUS
  <2>1. peerStates[p].requestQueue \in Seq(InvVect)
    BY <1>3 DEF StatesOK, PeerStateType, InvVect
  <2>2. Wanted(invs, unwanted) \in Seq(InvVect) /\ <<>> \in Seq(InvVect)
    BY <1>4, WantedIs, NothingQueued
  <2> HIDE DEF unwanted
  <2> QED
    BY <2>1, <2>2
<1>9. p \in DOMAIN peerStates /\ headersFirstMode => queue \in Seq(Txs)
  <2> SUFFICES ASSUME p \in DOMAIN peerStates, headersFirstMode PROVE queue \in Seq(Txs)
    OBVIOUS
  <2>1. peerStates[p].requestQueue \in Seq(Txs)
    BY DEF FirstInv, OnlyListed
  <2>2. <<>> \in Seq(Txs)
    BY NothingQueued
  <2> HIDE DEF unwanted
  <2> QED
    BY <2>1, <2>2
<1> HIDE DEF queue
<1>10. CASE FromUnknownPeer(p)
  BY <1>1, <1>10, UnknownFirst
<1>11. CASE link' = told /\ UNCHANGED syncVars /\ UNCHANGED <<headerVars, chainVars, updates, history>>
  BY <1>5, <1>11, SameStep DEF syncVars, chainVars, history
<1>12. ASSUME p \in DOMAIN peerStates, NEW o \in DrainQueue(queue), p = syncPeer \/ now,
              peerStates' = [peerStates EXCEPT
                          ![p].requestQueue = o.rest,
                          ![p].requestedBlocks = @ \cup (ToSet(o.ask) \cap Blocks),
                          ![p].requestedTxns = @ \cup (ToSet(o.ask) \cap Txs)],
              link' = QueueGetData(m, p, o.ask),
              UNCHANGED syncPeer, UNCHANGED <<headerVars, chainVars, updates, history>>
       PROVE  FirstInv'
  <2>1. WayOK(o, InvVect)
    BY <1>3, <1>8, <1>12, DrainQueueKeeps
  <2>2. ToSet(o.ask) = Elements(o.ask)
    BY SameElements
  <2>3. peerStates[p] \in PeerStateType /\ peerStates = [q \in DOMAIN peerStates |-> peerStates[q]]
    BY <1>3, <1>12 DEF StatesOK
  <2>4. /\ DOMAIN peerStates' = DOMAIN peerStates
        /\ peerStates'[p].requestQueue = o.rest
        /\ peerStates'[p].requestedBlocks = peerStates[p].requestedBlocks \cup (Elements(o.ask) \cap Blocks)
        /\ \A q \in DOMAIN peerStates \ {p} : peerStates'[q] = peerStates[q]
    BY <1>12, <2>2, <2>3 DEF PeerStateType
  <2>5. Calms(link, link')
    <3>1. Calms(m, link')
      BY <1>7, <1>12, <2>1, QueueGetDataKeeps DEF WayOK
    <3> QED
      BY <1>7, <3>1, CalmsOn
  <2>6. Below \/ headersFirstMode => headersFirstMode
    <3> SUFFICES ASSUME Below, ~headersFirstMode PROVE FALSE
      OBVIOUS
    <3>1. syncPeer = Nil
      BY DEF FirstInv
    <3>2. now
      BY <1>3, <1>12, <3>1
    <3>3. nextCheckpoint \in Elements(Checkpoints) \cup {Nil}
      BY DEF FirstInv, ListOK
    <3> QED
      BY <1>3, <3>2, <3>3, CurrentIsAbove DEF now
  <2>7. headersFirstMode =>
          \A q \in DOMAIN peerStates : /\ peerStates'[q].requestedBlocks = peerStates[q].requestedBlocks
                                       /\ peerStates'[q].requestQueue \in Seq(Txs)
    <3> SUFFICES ASSUME headersFirstMode, NEW q \in DOMAIN peerStates
                 PROVE  /\ peerStates'[q].requestedBlocks = peerStates[q].requestedBlocks
                        /\ peerStates'[q].requestQueue \in Seq(Txs)
      OBVIOUS
    <3>1. Txs \in SUBSET InvVect
      BY DEF InvVect
    <3>2. WayOK(o, Txs)
      BY <1>3, <1>9, <1>12, <3>1, DrainQueueKeeps
    <3>3. Elements(o.ask) \subseteq Txs /\ o.rest \in Seq(Txs)
      BY <3>2, SeqOver DEF WayOK
    <3>4. Elements(o.ask) \cap Blocks = {}
      BY <3>3, SyncAssumption
    <3>5. CASE q = p
      BY <2>4, <3>3, <3>4, <3>5
    <3>6. CASE q # p
      BY <2>4, <3>6 DEF FirstInv, OnlyListed
    <3> QED
      BY <3>5, <3>6
  <2>9. UNCHANGED <<syncPeer, headersFirstMode, headerList, startHeader, nextCheckpoint, fastAdded, best>>
    BY <1>12 DEF headerVars, chainVars, history
  <2>8. StaysAbove
    BY <2>9 DEF StaysAbove
  <2> QED
    BY <2>4, <2>5, <2>6, <2>7, <2>8, <2>9, CalmStep
<1> QED
  BY <1>2, <1>10, <1>11, <1>12 DEF m

(* The list without its first.                                             *)
LEMMA LinkedTail ==
    ASSUME NEW list \in Seq(Blocks), list # <<>>, Linked(list)
    PROVE  /\ Tail(list) \in Seq(Blocks) /\ Linked(Tail(list))
           /\ Len(list) \in Nat /\ Len(list) >= 1 /\ DOMAIN list = 1 .. Len(list)
           /\ DOMAIN Tail(list) = 1 .. Len(list) - 1 /\ Len(Tail(list)) = Len(list) - 1
           /\ \A j \in 1 .. Len(list) - 1 : Tail(list)[j] = list[j + 1]
<1> DEFINE rest == Tail(list)
<1>1. /\ Len(list) \in Nat /\ Len(list) >= 1 /\ DOMAIN list = 1 .. Len(list)
      /\ rest \in Seq(Blocks) /\ DOMAIN rest = 1 .. Len(list) - 1 /\ Len(rest) = Len(list) - 1
      /\ \A j \in 1 .. Len(list) - 1 : rest[j] = list[j + 1]
  OBVIOUS
<1> HIDE DEF rest
<1>2. Linked(rest)
  <2> SUFFICES ASSUME NEW j \in DOMAIN rest, j # 1
               PROVE  rest[j] # Genesis /\ Prev[rest[j]] = rest[j - 1]
    BY DEF Linked
  <2>1. j + 1 \in DOMAIN list /\ j + 1 # 1 /\ rest[j] = list[j + 1]
    BY <1>1
  <2>2. j - 1 \in 1 .. Len(list) - 1
    BY <1>1
  <2>3. rest[j - 1] = list[(j - 1) + 1] /\ (j - 1) + 1 = (j + 1) - 1
    BY <1>1, <2>2
  <2> QED
    BY <2>1, <2>3 DEF Linked
<1> QED
  BY <1>1, <1>2 DEF rest

(* More headers are collected.                                             *)
LEMMA CollectingGoesOn ==
    ASSUME NEW list \in Seq(Blocks), list # <<>>, NEW taken \in Seq(Blocks), NEW start, NEW asked,
           CollectingOK(list, start, asked)
    PROVE  LET next == IF start = Nil /\ taken # <<>> THEN Head(taken) ELSE start
           IN  /\ CollectingOK(list \o taken, next, asked)
               /\ taken # <<>> => next # Nil
<1> DEFINE next == IF start = Nil /\ taken # <<>> THEN Head(taken) ELSE start
<1>1. /\ Len(list) \in Nat /\ Len(list) >= 1 /\ DOMAIN list = 1 .. Len(list)
      /\ DOMAIN (list \o taken) = 1 .. Len(list) + Len(taken) /\ Len(taken) \in Nat
      /\ \A i \in 1 .. Len(list) : (list \o taken)[i] = list[i]
      /\ taken # <<>> => /\ Len(taken) >= 1 /\ Head(taken) = taken[1] /\ Head(taken) \in Blocks
                         /\ (list \o taken)[Len(list) + 1] = taken[1]
  OBVIOUS
<1>2. CASE start = Nil /\ taken # <<>>
  <2>1. Len(list) + 1 \in DOMAIN (list \o taken) /\ Len(list) + 1 # 1
    BY <1>1, <1>2
  <2>2. next = (list \o taken)[Len(list) + 1] /\ next \in Blocks
    BY <1>1, <1>2
  <2>3. next # Nil
    BY <2>2, SyncAssumption
  <2> QED
    BY <2>1, <2>2, <2>3 DEF CollectingOK
<1>3. CASE ~(start = Nil /\ taken # <<>>)
  <2>1. next = start
    BY <1>3
  <2>2. \A i \in DOMAIN list : i \in DOMAIN (list \o taken)
    BY <1>1
  <2> HIDE DEF next
  <2>3. CollectingOK(list \o taken, next, asked)
    BY <1>1, <2>1, <2>2 DEF CollectingOK
  <2> QED
    BY <1>3, <2>1, <2>3 DEF next
<1> QED
  BY <1>2, <1>3

(* fetchHeaderBlocks: the blocks of the list are asked for, up to the next.*)
LEMMA fetchHeaderBlocksFirst ==
    ASSUME NEW list \in Seq(Blocks), Linked(list), NEW s \in DOMAIN list, list[Len(list)] = nextCheckpoint,
           NEW held, NEW states, StatesOK(states), syncPeer \in DOMAIN states, NEW requested,
           NEW l, LinkOK(l), FlightOK(l, states, syncPeer), Quiet(l, syncPeer), OnlyListed(states, syncPeer),
           \A b \in states[syncPeer].requestedBlocks : \E i \in 1 .. s - 1 : list[i] = b,
           fetchHeaderBlocks(ListFrom(list, list[s]), held, states, requested, l),
           UNCHANGED <<syncPeer, nextCheckpoint>>
    PROVE  /\ FlightOK(link, peerStates, syncPeer)' /\ OnlyListed(peerStates, syncPeer)'
           /\ FetchingOK(list, startHeader', peerStates'[syncPeer].requestedBlocks, nextCheckpoint)
           /\ Quiet(link', syncPeer)
<1> DEFINE next == NextBlocks(ListFrom(list, list[s]), held)
           asked == states[syncPeer].requestedBlocks
<1>1. /\ startHeader' = next.start
      /\ peerStates' = [states EXCEPT ![syncPeer].requestedBlocks = @ \cup ToSet(next.ask)]
      /\ link' = QueueGetData(l, syncPeer, next.ask)
  BY DEF fetchHeaderBlocks
<1>2. list[s] \in Blocks
  OBVIOUS
<1>3. ListFrom(list, list[s]) \in Seq(Blocks)
  BY <1>2, ListFromIs
<1>4. next.ask \in Seq(InvVect)
  <2>1. next.ask \in Seq(Blocks)
    BY <1>3, NextBlocksIs
  <2> HIDE DEF next
  <2> QED
    BY <2>1 DEF InvVect
<1>5. FetchingOK(list, next.start, asked \cup ToSet(next.ask), list[Len(list)])
  <2>1. \A b \in asked : \E i \in 1 .. s - 1 : list[i] = b
    OBVIOUS
  <2> HIDE DEF asked
  <2> QED
    BY <2>1, FetchingGoesOn
<1> HIDE DEF next
<1>6. syncPeer \in Peers /\ states[syncPeer] \in PeerStateType /\ states = [q \in DOMAIN states |-> states[q]]
  BY DEF StatesOK
<1>7. /\ DOMAIN peerStates' = DOMAIN states
      /\ peerStates'[syncPeer].requestedBlocks = asked \cup ToSet(next.ask)
      /\ peerStates'[syncPeer].requestQueue = states[syncPeer].requestQueue
      /\ \A q \in DOMAIN states \ {syncPeer} : peerStates'[q] = states[q]
  BY <1>1, <1>6 DEF PeerStateType
<1>8. Calms(l, link')
  BY <1>1, <1>4, <1>6, QueueGetDataKeeps
<1>9. FlightOK(link', states, syncPeer) /\ Quiet(link', syncPeer)
  BY <1>6, <1>8, CalmKeeps
<1>10. FlightOK(link, peerStates, syncPeer)'
  BY <1>7, <1>9 DEF FlightOK
<1>11. OnlyListed(peerStates', syncPeer)
  <2> SUFFICES ASSUME NEW q \in DOMAIN states
               PROVE  /\ peerStates'[q].requestQueue \in Seq(Txs)
                      /\ q # syncPeer => peerStates'[q].requestedBlocks = {}
    BY <1>7 DEF OnlyListed
  <2>1. CASE q = syncPeer
    BY <1>7, <2>1 DEF OnlyListed
  <2>2. CASE q # syncPeer
    BY <1>7, <2>2 DEF OnlyListed
  <2> QED
    BY <2>1, <2>2
<1>12. OnlyListed(peerStates, syncPeer)'
  BY <1>11 DEF OnlyListed
<1> QED
  BY <1>1, <1>5, <1>7, <1>9, <1>10, <1>12

(* handleHeadersMsg: the list grows, or is complete.                       *)
LEMMA handleHeadersMsgFirst ==
    ASSUME SyncInv, FirstInv, NEW p \in Peers, handleHeadersMsg(p)
    PROVE  FirstInv'
<1> DEFINE headers == Head(link[p].in).headers
           read == LinkedHeaders(headerList, headers)
           list == headerList \o read.taken
           start == IF startHeader = Nil /\ read.taken # <<>> THEN Head(read.taken) ELSE startHeader
           got == Received(p)
<1>1. Receives(p, "headers")
  BY DEF handleHeadersMsg
<1>2. \/ FromUnknownPeer(p)
      \/ /\ p \in DOMAIN peerStates
         /\ UNCHANGED <<chainVars, fastAdded>>
         /\ \/ /\ link' \in {got, HangUp(got, p)}
               /\ UNCHANGED <<syncVars, headerVars>>
            \/ /\ headersFirstMode /\ headerList # <<>>
               /\ headerList' = list /\ startHeader' = start
               /\ link' \in {HangUp(got, p), PushGetHeadersMsg(got, p, {Last(headers)}, Last(headers), nextCheckpoint)}
               /\ UNCHANGED <<syncVars, headersFirstMode, nextCheckpoint>>
            \/ /\ headersFirstMode /\ headerList # <<>> /\ read.taken # <<>>
               /\ Last(list) = nextCheckpoint
               /\ headerList' = Tail(list)
               /\ fetchHeaderBlocks(ListFrom(Tail(list), start), have \cup orphans,
                                    peerStates, requestedBlocks, got)
               /\ UNCHANGED <<syncPeer, headersFirstMode, nextCheckpoint>>
  BY DEF handleHeadersMsg, MatchesCheckpoint
<1>3. /\ ManagerOK /\ HeadersFirstHasSyncPeer /\ StatesOK(peerStates) /\ headerList \in Seq(Blocks)
      /\ FlightOK(link, peerStates, syncPeer) /\ ListOK
  BY DEF SyncInv, ManagerOK, FirstInv
<1>4. LinkOK(got) /\ headers \in Seq(Blocks)
  <2>1. LinkOK(got) /\ Incoming(Head(link[p].in)) /\ Head(link[p].in).type = "headers"
    BY <1>1, Receiving
  <2> QED
    BY <2>1 DEF Incoming
<1>5. Calms(link, got) /\ ~Quiet(link, p) /\ (AtMostOne(link, p) => Quiet(got, p))
  BY <1>1, ReceivingCalms
<1>6. FlightOK(got, peerStates, syncPeer)
  BY <1>3, <1>5, CalmKeeps
<1>7. read.taken \in Seq(Blocks) /\ (headerList # <<>> /\ Linked(headerList) => Linked(list))
  BY <1>3, <1>4, LinkedHeadersIs
<1> HIDE DEF headers, read, got
<1>8. CASE FromUnknownPeer(p)
  BY <1>1, <1>8, UnknownFirst
<1>9. CASE link' \in {got, HangUp(got, p)} /\ UNCHANGED <<syncVars, headerVars, chainVars, fastAdded>>
  BY <1>1, <1>9, DroppedFirst DEF syncVars, chainVars, got
<1>10. ASSUME p \in DOMAIN peerStates, headersFirstMode, headerList # <<>>
       PROVE  /\ p = syncPeer /\ Quiet(got, p) /\ Linked(list) /\ list \in Seq(Blocks)
              /\ CollectingOK(list, start, peerStates[p].requestedBlocks)
              /\ CollectingOK(headerList, startHeader, peerStates[p].requestedBlocks)
              /\ read.taken # <<>> => start # Nil
  <2>1. p = syncPeer /\ AtMostOne(link, p)
    BY <1>3, <1>5, <1>10 DEF FlightOK
  <2>2. Linked(headerList) /\ CollectingOK(headerList, startHeader, peerStates[p].requestedBlocks)
    BY <1>3, <1>5, <1>10, <2>1 DEF ListOK
  <2>3. list \in Seq(Blocks)
    BY <1>3, <1>7
  <2>4. /\ CollectingOK(list, start, peerStates[p].requestedBlocks)
        /\ read.taken # <<>> => start # Nil
    BY <1>3, <1>7, <1>10, <2>2, CollectingGoesOn
  <2> QED
    BY <1>5, <1>7, <1>10, <2>1, <2>2, <2>3, <2>4
<1> HIDE DEF list, start
<1>11. CASE /\ p \in DOMAIN peerStates /\ headersFirstMode /\ headerList # <<>>
            /\ headerList' = list /\ startHeader' = start
            /\ link' \in {HangUp(got, p), PushGetHeadersMsg(got, p, {Last(headers)}, Last(headers), nextCheckpoint)}
            /\ UNCHANGED <<syncVars, headersFirstMode, nextCheckpoint, chainVars, fastAdded>>
  <2>1. /\ p = syncPeer /\ Quiet(got, p) /\ Linked(list)
        /\ CollectingOK(list, start, peerStates[p].requestedBlocks)
    BY <1>10, <1>11
  <2>2. FlightOK(link', peerStates, syncPeer)
    <3>1. CASE link' = HangUp(got, p)
      BY <1>4, <1>6, <3>1, SetKeeps, CalmKeeps
    <3>2. CASE link' = PushGetHeadersMsg(got, p, {Last(headers)}, Last(headers), nextCheckpoint)
      <4>1. AsksOnce(got, link', p)
        BY <1>4, <3>2, PushKeeps
      <4> QED
        BY <1>6, <1>11, <2>1, <4>1, AskKeeps
    <3> QED
      BY <1>11, <3>1, <3>2
  <2>3. FlightOK(link, peerStates, syncPeer)'
    BY <1>11, <2>2 DEF FlightOK, syncVars
  <2>4. ListOK'
    BY <1>3, <1>11, <2>1 DEF ListOK, syncVars, CollectingOK
  <2>5. UNCHANGED <<peerStates, syncPeer, headersFirstMode, nextCheckpoint, best, fastAdded>>
    BY <1>11 DEF syncVars, chainVars
  <2> QED
    BY <2>3, <2>4, <2>5 DEF FirstInv, OnlyListed, Below
<1>12. CASE /\ p \in DOMAIN peerStates /\ headersFirstMode /\ headerList # <<>> /\ read.taken # <<>>
            /\ Last(list) = nextCheckpoint
            /\ headerList' = Tail(list)
            /\ fetchHeaderBlocks(ListFrom(Tail(list), start), have \cup orphans,
                                 peerStates, requestedBlocks, got)
            /\ UNCHANGED <<syncPeer, headersFirstMode, nextCheckpoint, chainVars, fastAdded>>
  <2>1. /\ p = syncPeer /\ Quiet(got, p) /\ Linked(list) /\ list \in Seq(Blocks)
        /\ peerStates[p].requestedBlocks = {} /\ start # Nil
        /\ \E i \in DOMAIN list : i # 1 /\ list[i] = start
    BY <1>10, <1>12 DEF CollectingOK
  <2>2. PICK i \in DOMAIN list : i # 1 /\ list[i] = start
    BY <2>1
  <2> DEFINE rest == Tail(list)
  <2>3. /\ Len(list) \in Nat /\ DOMAIN list = 1 .. Len(list) /\ i \in 2 .. Len(list) /\ list # <<>>
        /\ rest \in Seq(Blocks) /\ DOMAIN rest = 1 .. Len(list) - 1 /\ Len(rest) = Len(list) - 1
        /\ \A j \in 1 .. Len(list) - 1 : rest[j] = list[j + 1]
    <3>1. Len(list) \in Nat /\ DOMAIN list = 1 .. Len(list) /\ i \in 2 .. Len(list)
      BY <2>1, <2>2
    <3>2. list # <<>>
      BY <2>1, <3>1
    <3> QED
      BY <2>1, <3>1, <3>2, LinkedTail
  <2>4. i - 1 \in DOMAIN rest /\ rest[i - 1] = start /\ rest[Len(rest)] = nextCheckpoint
    <3>1. i - 1 \in DOMAIN rest /\ rest[i - 1] = list[(i - 1) + 1]
      BY <2>3
    <3>2. (i - 1) + 1 = i
      BY <2>3
    <3>3. Len(rest) \in 1 .. Len(list) - 1 /\ Len(rest) + 1 = Len(list)
      BY <2>3
    <3>4. rest[Len(rest)] = list[Len(list)]
      BY <2>3, <3>3
    <3> QED
      BY <1>12, <2>2, <3>1, <3>2, <3>4 DEF Last
  <2>5. Linked(rest)
    BY <2>1, <2>3, LinkedTail
  <2> HIDE DEF rest
  <2>6. syncPeer \in DOMAIN peerStates /\ OnlyListed(peerStates, syncPeer)
    BY <1>12, <2>1 DEF FirstInv
  <2>7. /\ fetchHeaderBlocks(ListFrom(rest, rest[i - 1]), have \cup orphans, peerStates, requestedBlocks, got)
        /\ headerList' = rest
    BY <1>12, <2>4 DEF rest
  <2>8. \A b \in peerStates[syncPeer].requestedBlocks : \E j \in 1 .. (i - 1) - 1 : rest[j] = b
    BY <2>1
  <2>9. /\ FlightOK(link, peerStates, syncPeer)' /\ OnlyListed(peerStates, syncPeer)'
        /\ FetchingOK(rest, startHeader', peerStates'[syncPeer].requestedBlocks, nextCheckpoint)
        /\ Quiet(link', syncPeer)
    BY <1>3, <1>4, <1>6, <1>12, <2>1, <2>3, <2>4, <2>5, <2>6, <2>7, <2>8, fetchHeaderBlocksFirst
  <2>10. ListOK'
    <3>1. /\ FetchingOK(headerList', startHeader', peerStates'[syncPeer'].requestedBlocks, nextCheckpoint')
          /\ Quiet(link', syncPeer') /\ Linked(headerList')
      BY <1>12, <2>5, <2>7, <2>9
    <3>2. headersFirstMode' /\ nextCheckpoint' \in Elements(Checkpoints) \cup {Nil}
      BY <1>3, <1>12 DEF ListOK
    <3> QED
      BY <3>1, <3>2 DEF ListOK, FetchingOK, Quiet, Linked
  <2> QED
    BY <1>12, <2>9, <2>10 DEF FirstInv, Below, chainVars
<1> QED
  BY <1>2, <1>8, <1>9, <1>11, <1>12

(* A block of the list comes: the list goes on without it, if it is first. *)
Without(list, b, checkpoint) == IF list # <<>> /\ Head(list) = b /\ b # checkpoint THEN Tail(list) ELSE list

LEMMA FetchingWithout ==
    ASSUME NEW list \in Seq(Blocks), Linked(list), NEW start, NEW asked, NEW checkpoint, NEW b \in asked,
           FetchingOK(list, start, asked, checkpoint)
    PROVE  /\ Without(list, b, checkpoint) \in Seq(Blocks) /\ Linked(Without(list, b, checkpoint))
           /\ FetchingOK(Without(list, b, checkpoint), start, asked \ {b}, checkpoint)
<1>1. list # <<>> /\ list[Len(list)] = checkpoint
  BY DEF FetchingOK
<1>2. PICK s \in 1 .. Len(list) + 1 :
         /\ start = IF s = Len(list) + 1 THEN Nil ELSE list[s]
         /\ \A c \in asked : \E i \in 1 .. s - 1 : list[i] = c
  BY DEF FetchingOK
<1>3. CASE Head(list) = b /\ b # checkpoint
  <2> DEFINE rest == Tail(list)
  <2>1. Without(list, b, checkpoint) = rest
    BY <1>1, <1>3 DEF Without
  <2>2. /\ rest \in Seq(Blocks) /\ Linked(rest)
        /\ Len(list) \in Nat /\ Len(list) >= 1 /\ DOMAIN list = 1 .. Len(list)
        /\ DOMAIN rest = 1 .. Len(list) - 1 /\ Len(rest) = Len(list) - 1
        /\ \A j \in 1 .. Len(list) - 1 : rest[j] = list[j + 1]
    BY <1>1, LinkedTail
  <2> HIDE DEF rest
  <2>3. list[1] = b
    BY <1>1, <1>3
  <2>4. Len(list) # 1
    BY <1>1, <1>3, <2>3
  <2>5. PICK k \in 1 .. s - 1 : list[k] = b
    BY <1>2
  <2>6. s - 1 \in 1 .. Len(rest) + 1 /\ s >= 2 /\ s - 1 \in Nat
    BY <2>2, <2>5
  <2>7. rest # <<>>
    BY <2>2, <2>4
  <2>8. rest[Len(rest)] = checkpoint
    <3>1. Len(rest) \in 1 .. Len(list) - 1 /\ Len(rest) + 1 = Len(list)
      BY <2>2, <2>4
    <3> QED
      BY <1>1, <2>2, <3>1
  <2>9. start = IF s - 1 = Len(rest) + 1 THEN Nil ELSE rest[s - 1]
    <3>1. CASE s = Len(list) + 1
      BY <1>2, <2>2, <3>1
    <3>2. CASE s # Len(list) + 1
      <4>1. s - 1 \in 1 .. Len(list) - 1 /\ (s - 1) + 1 = s /\ s - 1 # Len(rest) + 1
        BY <2>2, <2>6, <3>2
      <4>2. rest[s - 1] = list[(s - 1) + 1]
        BY <2>2, <4>1
      <4> QED
        BY <1>2, <3>2, <4>1, <4>2
    <3> QED
      BY <3>1, <3>2
  <2>10. ASSUME NEW c \in asked \ {b} PROVE \E i \in 1 .. (s - 1) - 1 : rest[i] = c
    <3>1. PICK i \in 1 .. s - 1 : list[i] = c
      BY <1>2
    <3>2. i # 1
      BY <2>3, <3>1
    <3>3. i - 1 \in 1 .. Len(list) - 1 /\ i - 1 \in 1 .. (s - 1) - 1 /\ (i - 1) + 1 = i
      BY <2>2, <3>1, <3>2
    <3>4. rest[i - 1] = list[(i - 1) + 1]
      BY <2>2, <3>3
    <3> QED
      BY <3>1, <3>3, <3>4
  <2>11. FetchingOK(rest, start, asked \ {b}, checkpoint)
    BY <2>6, <2>7, <2>8, <2>9, <2>10 DEF FetchingOK
  <2> QED
    BY <2>1, <2>2, <2>11
<1>4. CASE ~(Head(list) = b /\ b # checkpoint)
  <2>1. Without(list, b, checkpoint) = list
    BY <1>4 DEF Without
  <2>2. \A c \in asked \ {b} : \E i \in 1 .. s - 1 : list[i] = c
    BY <1>2
  <2>3. FetchingOK(list, start, asked \ {b}, checkpoint)
    BY <1>1, <1>2, <2>2 DEF FetchingOK
  <2> QED
    BY <2>1, <2>3
<1> QED
  BY <1>3, <1>4

(* The checkpoint is the last block of its list to come.                   *)
LEMMA CheckpointIsLast ==
    ASSUME NEW list \in Seq(Blocks), Linked(list), NEW start, NEW asked, NEW b \in asked,
           FetchingOK(list, start, asked, b), Head(list) = b
    PROVE  asked \ {b} = {} /\ start = Nil
<1>1. list # <<>> /\ list[Len(list)] = b
  BY DEF FetchingOK
<1>2. PICK s \in 1 .. Len(list) + 1 :
         /\ start = IF s = Len(list) + 1 THEN Nil ELSE list[s]
         /\ \A c \in asked : \E i \in 1 .. s - 1 : list[i] = c
  BY DEF FetchingOK
<1>3. Len(list) \in Nat /\ DOMAIN list = 1 .. Len(list) /\ 1 \in DOMAIN list /\ Len(list) \in DOMAIN list /\ list[1] = b
  BY <1>1
<1>4. Len(list) = 1
  BY <1>1, <1>3, LinkedOnce
<1>5. PICK k \in 1 .. s - 1 : list[k] = b
  BY <1>2
<1>6. s = 2
  BY <1>4, <1>5
<1>7. start = Nil
  BY <1>2, <1>4, <1>6
<1>8. ASSUME NEW c \in asked PROVE c = b
  <2>1. PICK i \in 1 .. s - 1 : list[i] = c
    BY <1>2
  <2>2. i = 1
    BY <1>6, <2>1
  <2> QED
    BY <1>3, <2>1, <2>2
<1> QED
  BY <1>7, <1>8

(* A block below the checkpoint is asked of the sync peer, from the list.  *)
LEMMA MarkedOnList ==
    ASSUME SyncInv, FirstInv, NEW p \in DOMAIN peerStates, NEW b \in peerStates[p].requestedBlocks
    PROVE  /\ Below => headersFirstMode
           /\ headersFirstMode =>
                /\ p = syncPeer /\ Linked(headerList) /\ headerList # <<>> /\ Quiet(link, p)
                /\ FetchingOK(headerList, startHeader, peerStates[p].requestedBlocks, nextCheckpoint)
                /\ OnlyListed(peerStates, syncPeer)
<1>1. p # Nil
  BY SyncAssumption DEF SyncInv, ManagerOK, StatesOK
<1>2. Below => headersFirstMode
  BY <1>1 DEF FirstInv, OnlyListed
<1>3. ASSUME headersFirstMode
      PROVE  /\ p = syncPeer /\ Linked(headerList) /\ headerList # <<>> /\ Quiet(link, p)
             /\ FetchingOK(headerList, startHeader, peerStates[p].requestedBlocks, nextCheckpoint)
             /\ OnlyListed(peerStates, syncPeer)
  <2>1. OnlyListed(peerStates, syncPeer)
    BY <1>3 DEF FirstInv
  <2>2. p = syncPeer
    BY <2>1 DEF OnlyListed
  <2>3. ~CollectingOK(headerList, startHeader, peerStates[p].requestedBlocks)
    BY DEF CollectingOK
  <2>4. Linked(headerList) /\ FetchingOK(headerList, startHeader, peerStates[p].requestedBlocks, nextCheckpoint)
        /\ Quiet(link, p)
    BY <1>3, <2>2, <2>3 DEF FirstInv, ListOK
  <2>5. headerList # <<>>
    BY <2>4 DEF FetchingOK
  <2> QED
    BY <2>1, <2>2, <2>4, <2>5
<1> QED
  BY <1>2, <1>3

(* The mark goes with the block.                                           *)
LEMMA MarkGoes ==
    ASSUME StatesOK(peerStates), NEW p \in DOMAIN peerStates, NEW b
    PROVE  LET states == [peerStates EXCEPT ![p].requestedBlocks = @ \ {b}]
           IN  /\ DOMAIN states = DOMAIN peerStates /\ StatesOK(states)
               /\ states[p].requestedBlocks = peerStates[p].requestedBlocks \ {b}
               /\ \A q \in DOMAIN peerStates : states[q].requestQueue = peerStates[q].requestQueue
               /\ \A q \in DOMAIN peerStates \ {p} : states[q] = peerStates[q]
               /\ \A sync : OnlyListed(peerStates, sync) => OnlyListed(states, sync)
               /\ \A l, sync : FlightOK(l, peerStates, sync) => FlightOK(l, states, sync)
<1> DEFINE states == [peerStates EXCEPT ![p].requestedBlocks = @ \ {b}]
<1>1. peerStates[p] \in PeerStateType /\ peerStates = [q \in DOMAIN peerStates |-> peerStates[q]]
  BY DEF StatesOK
<1>2. /\ DOMAIN states = DOMAIN peerStates
      /\ states[p].requestedBlocks = peerStates[p].requestedBlocks \ {b}
      /\ states[p].requestQueue = peerStates[p].requestQueue
      /\ states[p] \in PeerStateType
      /\ \A q \in DOMAIN peerStates \ {p} : states[q] = peerStates[q]
      /\ states = [q \in DOMAIN states |-> states[q]]
  BY <1>1 DEF PeerStateType
<1> HIDE DEF states
<1>3. StatesOK(states)
  BY <1>2 DEF StatesOK
<1>4. \A q \in DOMAIN peerStates : states[q].requestQueue = peerStates[q].requestQueue
  BY <1>2
<1>5. ASSUME NEW sync, OnlyListed(peerStates, sync) PROVE OnlyListed(states, sync)
  <2> SUFFICES ASSUME NEW q \in DOMAIN peerStates
               PROVE  /\ states[q].requestQueue \in Seq(Txs)
                      /\ q # sync => states[q].requestedBlocks = {}
    BY <1>2 DEF OnlyListed
  <2>1. CASE q = p
    BY <1>2, <1>5, <2>1 DEF OnlyListed
  <2>2. CASE q # p
    BY <1>2, <1>5, <2>2 DEF OnlyListed
  <2> QED
    BY <2>1, <2>2
<1>6. ASSUME NEW l, NEW sync, FlightOK(l, peerStates, sync) PROVE FlightOK(l, states, sync)
  BY <1>2, <1>6 DEF FlightOK
<1> QED
  BY <1>2, <1>3, <1>4, <1>5, <1>6 DEF states

(* Headers-first mode goes on: the list without the block, more of it, or  *)
(* the next checkpoint.                                                    *)
LEMMA ContinueFirst ==
    ASSUME SyncInv, FirstInv, headersFirstMode, NEW b \in peerStates[syncPeer].requestedBlocks, b \in Blocks,
           syncPeer \in DOMAIN peerStates, NEW requested, NEW l, LinkOK(l), Calms(link, l),
           ContinueHeadersFirst(syncPeer, b, [peerStates EXCEPT ![syncPeer].requestedBlocks = @ \ {b}], requested, l),
           UNCHANGED syncPeer
    PROVE  /\ FlightOK(link, peerStates, syncPeer)' /\ OnlyListed(peerStates, syncPeer)' /\ ListOK'
           /\ Below' => headersFirstMode'
<1> DEFINE states == [peerStates EXCEPT ![syncPeer].requestedBlocks = @ \ {b}]
           list == Without(headerList, b, nextCheckpoint)
           next == findNextHeaderCheckpoint(Height[b])
<1>1. /\ Linked(headerList) /\ headerList # <<>> /\ Quiet(link, syncPeer) /\ headerList \in Seq(Blocks)
      /\ FetchingOK(headerList, startHeader, peerStates[syncPeer].requestedBlocks, nextCheckpoint)
      /\ OnlyListed(peerStates, syncPeer) /\ FlightOK(link, peerStates, syncPeer)
      /\ nextCheckpoint \in Elements(Checkpoints) \cup {Nil}
      /\ headersFirstMode = TRUE
  BY MarkedOnList DEF FirstInv, ListOK, SyncInv, ManagerOK
<1>2. /\ DOMAIN states = DOMAIN peerStates /\ StatesOK(states)
      /\ states[syncPeer].requestedBlocks = peerStates[syncPeer].requestedBlocks \ {b}
      /\ OnlyListed(states, syncPeer) /\ FlightOK(link, states, syncPeer)
  BY <1>1, MarkGoes DEF SyncInv, ManagerOK
<1>3. syncPeer \in Peers
  BY DEF SyncInv, ManagerOK, StatesOK
<1>4. FlightOK(l, states, syncPeer) /\ Quiet(l, syncPeer)
  BY <1>1, <1>2, <1>3, CalmKeeps
<1>5. /\ list \in Seq(Blocks) /\ Linked(list)
      /\ FetchingOK(list, startHeader, states[syncPeer].requestedBlocks, nextCheckpoint)
  <2> DEFINE asked == peerStates[syncPeer].requestedBlocks
  <2>1. /\ headerList \in Seq(Blocks) /\ Linked(headerList) /\ b \in asked
        /\ FetchingOK(headerList, startHeader, asked, nextCheckpoint)
    BY <1>1
  <2>2. states[syncPeer].requestedBlocks = asked \ {b}
    BY <1>2
  <2> HIDE DEF asked, states
  <2>3. /\ list \in Seq(Blocks) /\ Linked(list)
        /\ FetchingOK(list, startHeader, asked \ {b}, nextCheckpoint)
    BY <2>1, FetchingWithout
  <2> QED
    BY <2>2, <2>3
<1>6. \/ /\ headerList' = list
         /\ peerStates' = states /\ link' = l
         /\ UNCHANGED <<headersFirstMode, startHeader, nextCheckpoint>>
      \/ /\ startHeader # Nil
         /\ headerList' = list
         /\ fetchHeaderBlocks(ListFrom(list, startHeader), have' \cup orphans', states, requested, l)
         /\ UNCHANGED <<headersFirstMode, nextCheckpoint>>
      \/ /\ Head(headerList) = b /\ b = nextCheckpoint
         /\ nextCheckpoint' = next
         /\ peerStates' = states
         /\ link' = PushGetHeadersMsg(l, syncPeer, {b}, b, next)
         /\ UNCHANGED <<headersFirstMode, headerList, startHeader>>
      \/ /\ Head(headerList) = b /\ b = nextCheckpoint
         /\ nextCheckpoint' = Nil
         /\ headersFirstMode' = FALSE
         /\ headerList' = <<>>
         /\ peerStates' = states
         /\ link' = PushGetBlocksMsg(l, syncPeer, {b}, b, Nil)
         /\ UNCHANGED startHeader
  BY <1>1 DEF ContinueHeadersFirst, IsFirstHeader, Without
<1> HIDE DEF states, list, next
<1>7. CASE /\ headerList' = list
           /\ peerStates' = states /\ link' = l
           /\ UNCHANGED <<headersFirstMode, startHeader, nextCheckpoint>>
  <2>1. FlightOK(link, peerStates, syncPeer)'
    BY <1>4, <1>7 DEF FlightOK
  <2>2. OnlyListed(peerStates, syncPeer)'
    BY <1>2, <1>7 DEF OnlyListed
  <2>3. ListOK'
    <3>1. /\ FetchingOK(headerList', startHeader', peerStates'[syncPeer'].requestedBlocks, nextCheckpoint')
          /\ Quiet(link', syncPeer') /\ Linked(headerList')
      BY <1>4, <1>5, <1>7
    <3>2. headersFirstMode' /\ nextCheckpoint' \in Elements(Checkpoints) \cup {Nil}
      BY <1>1, <1>7
    <3> QED
      BY <3>1, <3>2 DEF ListOK, FetchingOK, Quiet, Linked
  <2> QED
    BY <1>1, <1>7, <2>1, <2>2, <2>3
<1>8. CASE /\ startHeader # Nil
           /\ headerList' = list
           /\ fetchHeaderBlocks(ListFrom(list, startHeader), have' \cup orphans', states, requested, l)
           /\ UNCHANGED <<headersFirstMode, nextCheckpoint>>
  <2>1. PICK s \in 1 .. Len(list) + 1 :
           /\ startHeader = IF s = Len(list) + 1 THEN Nil ELSE list[s]
           /\ \A c \in states[syncPeer].requestedBlocks : \E i \in 1 .. s - 1 : list[i] = c
    BY <1>5 DEF FetchingOK
  <2>2. s \in DOMAIN list /\ startHeader = list[s] /\ list[Len(list)] = nextCheckpoint
    <3>1. s # Len(list) + 1
      BY <1>8, <2>1
    <3>2. Len(list) \in Nat /\ DOMAIN list = 1 .. Len(list)
      BY <1>5
    <3>3. s \in DOMAIN list
      BY <2>1, <3>1, <3>2
    <3> QED
      BY <1>5, <2>1, <3>1, <3>3 DEF FetchingOK
  <2>3. fetchHeaderBlocks(ListFrom(list, list[s]), have' \cup orphans', states, requested, l)
    BY <1>8, <2>2
  <2>4. /\ FlightOK(link, peerStates, syncPeer)' /\ OnlyListed(peerStates, syncPeer)'
        /\ FetchingOK(list, startHeader', peerStates'[syncPeer].requestedBlocks, nextCheckpoint)
        /\ Quiet(link', syncPeer)
    BY <1>2, <1>4, <1>5, <1>8, <2>1, <2>2, <2>3, fetchHeaderBlocksFirst
  <2>5. ListOK'
    <3>1. /\ FetchingOK(headerList', startHeader', peerStates'[syncPeer'].requestedBlocks, nextCheckpoint')
          /\ Quiet(link', syncPeer') /\ Linked(headerList')
      BY <1>5, <1>8, <2>4
    <3>2. headersFirstMode' /\ nextCheckpoint' \in Elements(Checkpoints) \cup {Nil}
      BY <1>1, <1>8
    <3> QED
      BY <3>1, <3>2 DEF ListOK, FetchingOK, Quiet, Linked
  <2> QED
    BY <1>1, <1>8, <2>4, <2>5
<1>9. ASSUME Head(headerList) = b, b = nextCheckpoint
      PROVE  states[syncPeer].requestedBlocks = {} /\ startHeader = Nil
  <2> DEFINE asked == peerStates[syncPeer].requestedBlocks
  <2>1. /\ headerList \in Seq(Blocks) /\ Linked(headerList) /\ b \in asked
        /\ FetchingOK(headerList, startHeader, asked, b) /\ Head(headerList) = b
    BY <1>1, <1>9
  <2>2. states[syncPeer].requestedBlocks = asked \ {b}
    BY <1>2
  <2> HIDE DEF asked
  <2>3. asked \ {b} = {} /\ startHeader = Nil
    BY <2>1, CheckpointIsLast
  <2> QED
    BY <2>2, <2>3
<1>10. next \in Elements(Checkpoints) \cup {Nil}
  BY NextCheckpointIs DEF next
<1>11. CASE /\ Head(headerList) = b /\ b = nextCheckpoint
            /\ nextCheckpoint' = next
            /\ peerStates' = states
            /\ link' = PushGetHeadersMsg(l, syncPeer, {b}, b, next)
            /\ UNCHANGED <<headersFirstMode, headerList, startHeader>>
  <2>1. AsksOnce(l, link', syncPeer)
    BY <1>3, <1>11, PushKeeps
  <2>2. FlightOK(link', states, syncPeer)
    BY <1>2, <1>3, <1>4, <2>1, AskKeeps
  <2>3. FlightOK(link, peerStates, syncPeer)'
    BY <1>11, <2>2 DEF FlightOK
  <2>4. OnlyListed(peerStates, syncPeer)'
    BY <1>2, <1>11 DEF OnlyListed
  <2>5. ListOK'
    <3>1. CollectingOK(headerList', startHeader', peerStates'[syncPeer'].requestedBlocks) /\ Linked(headerList')
      BY <1>1, <1>9, <1>11 DEF CollectingOK
    <3>2. headersFirstMode' /\ nextCheckpoint' \in Elements(Checkpoints) \cup {Nil}
      BY <1>1, <1>10, <1>11
    <3> QED
      BY <3>1, <3>2 DEF ListOK, CollectingOK, Linked
  <2> QED
    BY <1>1, <1>11, <2>3, <2>4, <2>5
<1>12. CASE /\ Head(headerList) = b /\ b = nextCheckpoint
            /\ nextCheckpoint' = Nil
            /\ headersFirstMode' = FALSE
            /\ headerList' = <<>>
            /\ peerStates' = states
            /\ link' = PushGetBlocksMsg(l, syncPeer, {b}, b, Nil)
            /\ UNCHANGED startHeader
  <2>1. Calms(l, link')
    BY <1>3, <1>12, PushKeeps
  <2>2. FlightOK(link', states, syncPeer)
    BY <1>4, <2>1, CalmKeeps
  <2>3. FlightOK(link, peerStates, syncPeer)'
    BY <1>12, <2>2 DEF FlightOK
  <2>4. OnlyListed(peerStates, syncPeer)'
    BY <1>2, <1>12 DEF OnlyListed
  <2>5. ListOK'
    BY <1>9, <1>12 DEF ListOK
  <2> QED
    BY <1>12, <2>3, <2>4, <2>5 DEF Below
<1> QED
  BY <1>6, <1>7, <1>8, <1>11, <1>12

(* handleBlockMsg: a block of the list is under the checkpoint it ends in. *)
LEMMA handleBlockMsgFirst ==
    ASSUME SyncInv, FirstInv, NEW p \in Peers, handleBlockMsg(p), ~fellBack'
    PROVE  FirstInv'
<1> DEFINE b == Head(link[p].in).block
           states == [peerStates EXCEPT ![p].requestedBlocks = @ \ {b}]
           got == Received(p)
           l == AfterBlock(p, b, got)
<1>1. Receives(p, "block")
  BY DEF handleBlockMsg
<1>2. \/ FromUnknownPeer(p)
      \/ /\ link' = HangUp(got, p)
         /\ UNCHANGED <<syncVars, headerVars, chainVars, updates, fastAdded>>
      \/ /\ p \in DOMAIN peerStates /\ b \in peerStates[p].requestedBlocks
         /\ peerStates' = states
         /\ headerList' = IF IsFirstHeader(b) /\ b # nextCheckpoint THEN Tail(headerList) ELSE headerList
         /\ link' = got
         /\ UNCHANGED <<syncPeer, headersFirstMode, startHeader, nextCheckpoint, chainVars, history>>
      \/ /\ p \in DOMAIN peerStates /\ b \in peerStates[p].requestedBlocks
         /\ chainTakes(b)
         /\ fastAdded' = IF IsFirstHeader(b) THEN fastAdded \cup {b} ELSE fastAdded
         /\ ContinueHeadersFirst(p, b, states, requestedBlocks \ {b}, l)
         /\ UNCHANGED syncPeer
  BY DEF handleBlockMsg
<1>3. /\ ManagerOK /\ ChainOK /\ HeadersFirstHasSyncPeer /\ StatesOK(peerStates) /\ headerList \in Seq(Blocks)
      /\ FlightOK(link, peerStates, syncPeer) /\ ListOK /\ headersFirstMode \in BOOLEAN
      /\ DOMAIN peerStates \subseteq Peers
  BY DEF SyncInv, ManagerOK, FirstInv, StatesOK
<1>4. LinkOK(got) /\ Calms(link, got) /\ b \in Blocks
  <2>1. LinkOK(got) /\ Incoming(Head(link[p].in)) /\ Head(link[p].in).type = "block" /\ Calms(link, got)
    BY <1>1, Receiving, ReceivingCalms
  <2> QED
    BY <2>1 DEF Incoming
<1> HIDE DEF b, got
<1>5. ASSUME ChainOK' PROVE LinkOK(l) /\ Calms(link, l)
  <2>1. LinkOK(l) /\ Calms(got, l)
    BY <1>4, <1>5, AfterBlockKeeps
  <2> QED
    BY <1>4, <2>1, CalmsOn
<1> HIDE DEF l
<1>6. CASE FromUnknownPeer(p)
  BY <1>1, <1>6, UnknownFirst
<1>7. CASE link' = HangUp(got, p) /\ UNCHANGED <<syncVars, headerVars, chainVars, updates, fastAdded>>
  BY <1>1, <1>7, DroppedFirst DEF syncVars, chainVars, got
<1>8. ASSUME p \in DOMAIN peerStates, b \in peerStates[p].requestedBlocks
      PROVE  /\ DOMAIN states = DOMAIN peerStates
             /\ states[p].requestedBlocks = peerStates[p].requestedBlocks \ {b}
             /\ \A sync : OnlyListed(peerStates, sync) => OnlyListed(states, sync)
             /\ FlightOK(got, states, syncPeer) /\ (ChainOK' => FlightOK(l, states, syncPeer))
             /\ Below => headersFirstMode
             /\ headersFirstMode =>
                /\ p = syncPeer /\ Linked(headerList) /\ headerList # <<>> /\ Quiet(link, p)
                /\ FetchingOK(headerList, startHeader, peerStates[p].requestedBlocks, nextCheckpoint)
                /\ OnlyListed(peerStates, syncPeer)
  <2>1. /\ DOMAIN states = DOMAIN peerStates
        /\ states[p].requestedBlocks = peerStates[p].requestedBlocks \ {b}
        /\ \A sync : OnlyListed(peerStates, sync) => OnlyListed(states, sync)
        /\ \A m, sync : FlightOK(m, peerStates, sync) => FlightOK(m, states, sync)
    BY <1>3, <1>8, MarkGoes
  <2> HIDE DEF states
  <2>2. FlightOK(got, states, syncPeer) /\ (ChainOK' => FlightOK(l, states, syncPeer))
    BY <1>3, <1>4, <1>5, <2>1, CalmKeeps
  <2>3. /\ Below => headersFirstMode
        /\ headersFirstMode =>
                /\ p = syncPeer /\ Linked(headerList) /\ headerList # <<>> /\ Quiet(link, p)
                /\ FetchingOK(headerList, startHeader, peerStates[p].requestedBlocks, nextCheckpoint)
                /\ OnlyListed(peerStates, syncPeer)
    BY <1>8, MarkedOnList
  <2> QED
    BY <2>1, <2>2, <2>3
<1>9. CASE /\ p \in DOMAIN peerStates /\ b \in peerStates[p].requestedBlocks
           /\ peerStates' = states
           /\ headerList' = IF IsFirstHeader(b) /\ b # nextCheckpoint THEN Tail(headerList) ELSE headerList
           /\ link' = got
           /\ UNCHANGED <<syncPeer, headersFirstMode, startHeader, nextCheckpoint, chainVars, history>>
  <2> HIDE DEF states
  <2>1. FlightOK(link, peerStates, syncPeer)'
    BY <1>8, <1>9 DEF FlightOK
  <2>2. UNCHANGED <<best, fastAdded>>
    BY <1>9 DEF chainVars, history
  <2>3. Below' => headersFirstMode'
    BY <1>8, <1>9, <2>2 DEF Below
  <2>4. CASE headersFirstMode
    <3>1. headerList' = Without(headerList, b, nextCheckpoint)
      BY <1>8, <1>9, <2>4 DEF Without, IsFirstHeader
    <3> DEFINE asked == peerStates[p].requestedBlocks
    <3>2. /\ headerList \in Seq(Blocks) /\ Linked(headerList) /\ b \in asked
          /\ FetchingOK(headerList, startHeader, asked, nextCheckpoint)
      BY <1>3, <1>8, <1>9, <2>4
    <3>3. states[p].requestedBlocks = asked \ {b} /\ p = syncPeer /\ Quiet(link, p)
      BY <1>8, <1>9, <2>4
    <3> HIDE DEF asked
    <3>4. Linked(headerList') /\ FetchingOK(headerList', startHeader, asked \ {b}, nextCheckpoint)
      BY <3>1, <3>2, FetchingWithout
    <3>5. Quiet(got, p)
      BY <1>4, <3>3, CalmKeeps
    <3>6. ListOK'
      <4>1. /\ FetchingOK(headerList', startHeader', peerStates'[syncPeer'].requestedBlocks, nextCheckpoint')
            /\ Quiet(link', syncPeer') /\ Linked(headerList')
        BY <1>9, <3>3, <3>4, <3>5
      <4>2. headersFirstMode' /\ nextCheckpoint' \in Elements(Checkpoints) \cup {Nil}
        BY <1>3, <1>9, <2>4 DEF ListOK
      <4> QED
        BY <4>1, <4>2 DEF ListOK, FetchingOK, Quiet, Linked
    <3>7. OnlyListed(states, syncPeer)
      BY <1>8, <1>9, <2>4
    <3>8. OnlyListed(peerStates, syncPeer)'
      BY <1>9, <3>7 DEF OnlyListed
    <3> QED
      BY <1>9, <2>1, <2>2, <2>3, <2>4, <3>6, <3>8 DEF FirstInv
  <2>5. CASE ~headersFirstMode
    <3>1. headerList' = headerList
      BY <1>9, <2>5 DEF IsFirstHeader
    <3>2. ListOK'
      BY <1>3, <1>9, <2>5, <3>1 DEF ListOK
    <3> QED
      BY <1>9, <2>1, <2>2, <2>3, <2>5, <3>2 DEF FirstInv
  <2> QED
    BY <2>4, <2>5
<1>10. CASE /\ p \in DOMAIN peerStates /\ b \in peerStates[p].requestedBlocks
            /\ chainTakes(b)
            /\ fastAdded' = IF IsFirstHeader(b) THEN fastAdded \cup {b} ELSE fastAdded
            /\ ContinueHeadersFirst(p, b, states, requestedBlocks \ {b}, l)
            /\ UNCHANGED syncPeer
  <2>1. \A c \in fastAdded' : \E d \in Elements(Checkpoints) : c \in Ancestors[d]
    <3>1. ASSUME IsFirstHeader(b) PROVE \E d \in Elements(Checkpoints) : b \in Ancestors[d]
      <4>1. headersFirstMode /\ Head(headerList) = b
        BY <3>1 DEF IsFirstHeader
      <4>2. /\ Linked(headerList) /\ headerList # <<>> /\ headerList[Len(headerList)] = nextCheckpoint
        BY <1>8, <1>10, <4>1 DEF FetchingOK
      <4>3. 1 \in DOMAIN headerList /\ headerList[1] = b
        BY <1>3, <4>1, <4>2
      <4>4. b \in Ancestors[nextCheckpoint]
        BY <1>3, <4>2, <4>3, LinkedUnder
      <4>5. nextCheckpoint \in Elements(Checkpoints)
        BY <1>3, <4>1 DEF ListOK, HeadersFirstHasSyncPeer
      <4> QED
        BY <4>4, <4>5
    <3>2. \A c \in fastAdded : \E d \in Elements(Checkpoints) : c \in Ancestors[d]
      BY DEF FirstInv
    <3> QED
      BY <1>10, <3>1, <3>2
  <2>4. ChainOK'
    BY <1>3, <1>4, <1>10, ChainTakes
  <2>2. CASE headersFirstMode
    <3>1. /\ p = syncPeer /\ syncPeer \in DOMAIN peerStates /\ b \in peerStates[syncPeer].requestedBlocks
      BY <1>8, <1>10, <2>2
    <3>2. ContinueHeadersFirst(syncPeer, b, [peerStates EXCEPT ![syncPeer].requestedBlocks = @ \ {b}],
                               requestedBlocks \ {b}, l)
      BY <1>10, <3>1
    <3>3. /\ FlightOK(link, peerStates, syncPeer)' /\ OnlyListed(peerStates, syncPeer)' /\ ListOK'
          /\ Below' => headersFirstMode'
      BY <1>4, <1>5, <1>10, <2>2, <2>4, <3>1, <3>2, ContinueFirst
    <3> QED
      BY <2>1, <3>3 DEF FirstInv
  <2>3. CASE ~headersFirstMode
    <3>1. /\ peerStates' = states /\ link' = l /\ headerList' = headerList
          /\ UNCHANGED <<headersFirstMode, startHeader, nextCheckpoint>>
      BY <1>10, <2>3 DEF ContinueHeadersFirst, IsFirstHeader
    <3> HIDE DEF states
    <3>2. FlightOK(link, peerStates, syncPeer)'
      BY <1>8, <1>10, <2>4, <3>1 DEF FlightOK
    <3>3. ListOK'
      BY <1>3, <2>3, <3>1 DEF ListOK
    <3>4. ~Below
      BY <1>8, <1>10, <2>3
    <3>5. StaysAbove
      BY <1>3, <1>4, <1>10, ChainStaysAbove
    <3>6. ~Below'
      BY <3>1, <3>4, <3>5 DEF Below, StaysAbove
    <3> QED
      BY <2>1, <2>3, <3>1, <3>2, <3>3, <3>6 DEF FirstInv
  <2> QED
    BY <2>2, <2>3
<1> QED
  BY <1>2, <1>6, <1>7, <1>9, <1>10
-----------------------------------------------------------------------------
LEMMA FirstStart == Init => FirstInv
<1> SUFFICES ASSUME Init PROVE FirstInv
  OBVIOUS
<1>1. /\ peerStates = <<>> /\ syncPeer = Nil /\ headersFirstMode = FALSE /\ startHeader = Nil
      /\ nextCheckpoint = findNextHeaderCheckpoint(0) /\ fastAdded = {}
      /\ headerList = IF nextCheckpoint = Nil THEN <<>> ELSE <<Genesis>>
      /\ link = [p \in Peers |->
          [conn |-> "none", in |-> <<>>, out |-> <<>>, lastBlock |-> 0,
           announced |-> Nil, prevGetBlocks |-> <<>>, prevGetHdrs |-> <<>>]]
  BY DEF Init
<1>2. DOMAIN peerStates = {}
  BY <1>1
<1>3. FlightOK(link, peerStates, syncPeer)
  BY <1>1, <1>2 DEF FlightOK, Quiet, None
<1>4. ListOK
  <2>1. headerList \in {<<>>} \cup {<<b>> : b \in Blocks}
    BY <1>1, SyncAssumption
  <2> QED
    BY <1>1, <2>1, NextCheckpointIs DEF ListOK
<1>5. OnlyListed(peerStates, syncPeer)
  BY <1>2 DEF OnlyListed
<1> QED
  BY <1>1, <1>3, <1>4, <1>5 DEF FirstInv

LEMMA FirstStep == SyncInv /\ FirstInv /\ [Next]_vars /\ ~fellBack' => FirstInv'
<1> SUFFICES ASSUME SyncInv, FirstInv, [Next]_vars, ~fellBack' PROVE FirstInv'
  OBVIOUS
<1>1. CASE UNCHANGED vars
  <2>1. Calms(link, link')
    BY <1>1, CalmsOn DEF vars
  <2> QED
    BY <1>1, <2>1, SameStep DEF vars, syncVars, headerVars, chainVars, history
<1>2. ASSUME NEW p \in Peers, Handle(p) \/ Remote(p) \/ OnVersion(p) \/ PeerLeaves(p) PROVE FirstInv'
  BY <1>2, handleNewPeerMsgFirst, handleDonePeerMsgFirst, handleHeadersMsgFirst, handleBlockMsgFirst,
     handleInvMsgFirst, handleTxMsgFirst, OnGetBlocksFirst, OnGetHeadersFirst, OnGetDataFirst,
     OnVersionFirst, PeerLeavesFirst DEF Handle, Remote
<1>3. ASSUME NEW p \in Peers, NEW b \in Mined[p], PeerFinds(p, b) PROVE FirstInv'
  BY <1>3, AnnounceFirst DEF PeerFinds
<1>4. ASSUME NEW p \in Peers, NEW t \in Txs, PeerRelays(p, t) PROVE FirstInv'
  BY <1>4, AnnounceFirst DEF PeerRelays
<1>5. ASSUME NEW b \in Submitted, ProcessBlock(b) PROVE FirstInv'
  BY <1>5, ProcessBlockFirst
<1>6. CASE HandleUpdatePeerHeights
  BY <1>6, HandleUpdatePeerHeightsFirst
<1> QED
  BY <1>1, <1>2, <1>3, <1>4, <1>5, <1>6 DEF Next

(* What fell back once is never forgotten.                                 *)
LEMMA FellBackStays == [Next]_vars /\ fellBack => fellBack'
<1> SUFFICES ASSUME [Next]_vars, fellBack PROVE fellBack'
  OBVIOUS
<1>1. CASE UNCHANGED vars
  BY <1>1 DEF vars, chainVars
<1>2. ASSUME NEW b, chainTakes(b) PROVE fellBack'
  BY <1>2 DEF chainTakes
<1>3. ASSUME NEW p \in Peers, Handle(p) PROVE fellBack'
  <2>1. handleBlockMsg(p) => fellBack'
    BY <1>2 DEF handleBlockMsg, FromUnknownPeer, chainVars
  <2>2. handleTxMsg(p) => fellBack'
    BY DEF handleTxMsg, FromUnknownPeer, chainVars
  <2>3. handleHeadersMsg(p) => fellBack'
    BY DEF handleHeadersMsg, FromUnknownPeer, chainVars
  <2>4. handleInvMsg(p) => fellBack'
    BY DEF handleInvMsg, FromUnknownPeer, chainVars
  <2>5. handleNewPeerMsg(p) \/ handleDonePeerMsg(p) => fellBack'
    BY DEF handleNewPeerMsg, handleDonePeerMsg, chainVars
  <2> QED
    BY <1>3, <2>1, <2>2, <2>3, <2>4, <2>5 DEF Handle
<1>4. ASSUME NEW p \in Peers, Remote(p) PROVE fellBack'
  BY <1>4 DEF Remote, OnGetBlocks, OnGetHeaders, OnGetData, chainVars
<1>5. ASSUME NEW p \in Peers, NEW b, PeerFinds(p, b) \/ PeerRelays(p, b) PROVE fellBack'
  BY <1>5 DEF PeerFinds, PeerRelays, chainVars
<1>6. ASSUME NEW p \in Peers, OnVersion(p) \/ PeerLeaves(p) PROVE fellBack'
  BY <1>6 DEF OnVersion, PeerLeaves, chainVars
<1>7. ASSUME NEW b, ProcessBlock(b) PROVE fellBack'
  BY <1>2, <1>7 DEF ProcessBlock
<1>8. HandleUpdatePeerHeights => fellBack'
  BY DEF HandleUpdatePeerHeights, chainVars
<1> QED
  BY <1>1, <1>3, <1>4, <1>5, <1>6, <1>7, <1>8 DEF Next

(* Headers-first mode never outlives its peer or its checkpoint, and only  *)
(* a block at or under a checkpoint is processed with BFFastAdd, whatever  *)
(* the peers announce, send or leave unanswered (handleHeadersMsg,         *)
(* handleBlockMsg, handleInvMsg, handleDonePeerMsg), as long as the tip    *)
(* does not fall below the height of a checkpoint that it had passed.      *)
THEOREM HeadersFirstStaysSafe == Spec => []HeadersFirstIsSafe
<1>1. Init => SyncInv /\ (~fellBack => FirstInv)
  BY SyncStart, FirstStart
<1>2. SyncInv /\ (~fellBack => FirstInv) /\ [Next]_vars => (SyncInv /\ (~fellBack => FirstInv))'
  BY SyncStep, FirstStep, FellBackStays
<1>3. SyncInv /\ (~fellBack => FirstInv) => HeadersFirstIsSafe
  <2> SUFFICES ASSUME SyncInv, ~fellBack => FirstInv PROVE HeadersFirstIsSafe
    OBVIOUS
  <2>1. FastAddedUnderCheckpoint
    BY SameElements DEF FirstInv, FastAddedUnderCheckpoint
  <2> QED
    BY <2>1, InvKeepsMarks DEF HeadersFirstIsSafe
<1> QED
  BY <1>1, <1>2, <1>3, PTL DEF Spec

=============================================================================
