---------------------------- MODULE SyncManager ----------------------------
(***************************************************************************)
(* The sync manager (pkg/chain/sync/manager.go): one goroutine that takes  *)
(* the messages of all peers, decides which blocks and transactions to     *)
(* fetch and from whom, and feeds them to the chain.                       *)
(*                                                                         *)
(* A remote peer is a node that runs the same program and follows the      *)
(* protocol: it answers getblocks, getheaders and getdata from its own     *)
(* chain in the order asked (cmd/node/rpc/server.go), announces the blocks *)
(* it finds, and may leave at any time.  Messages of one peer stay in      *)
(* order; messages of different peers interleave, which is all that the    *)
(* shared msgChan adds.  The chain below is the interface of BlockChain:   *)
(* a block is a duplicate, an orphan, or is accepted with the orphans that *)
(* were waiting for it.                                                    *)
(***************************************************************************)
EXTENDS Integers, FiniteSets, Sequences, SequencesExt, FiniteSetsExt

CONSTANTS
    Peers, Nil,
    Blocks,             \* every block of the network, genesis included
    Genesis,
    Prev,               \* Prev[b]: the parent of b (Genesis for Genesis)
    Checkpoints,        \* the checkpoints of the chain, by rising height
    Txs,                \* transactions the peers announce
    FirstTips,          \* FirstTips[p]: the tips p's chain may have at first
    Mined,              \* Mined[p]: the blocks p may find after connecting
    Submitted,          \* blocks handed in locally (submitblock)
    FullNodes,          \* peers with SFNodeNetwork
    Witness,            \* peers with SFNodeWitness
    SegwitActive,
    RecentHeight,       \* blocks from this height on are less than a day old
    MaxInvPerMsg, MaxBlocksPerMsg, MaxBlockHeadersPerMsg,
    minInFlightBlocks, maxRequestedBlocks, maxRequestedTxns, maxRejectedTxns,
    MaxLeaves           \* bound: how many peers may leave

ASSUME SyncAssumption ==
    /\ IsFiniteSet(Blocks) /\ Genesis \in Blocks
    /\ Prev \in [Blocks -> Blocks] /\ Prev[Genesis] = Genesis
    /\ Checkpoints \in Seq(Blocks)
    /\ Blocks \cap Txs = {} /\ Nil \notin Peers \cup Blocks \cup Txs
    /\ FirstTips \in [Peers -> SUBSET Blocks] /\ Mined \in [Peers -> SUBSET Blocks]
    /\ Submitted \subseteq Blocks
    /\ MaxInvPerMsg \in Nat \ {0} /\ MaxBlocksPerMsg \in Nat /\ MaxBlockHeadersPerMsg \in Nat

VARIABLES
    peerStates, requestedBlocks, requestedTxns, rejectedTxns, syncPeer,
    headersFirstMode, headerList, startHeader, nextCheckpoint,
    have, orphans, best,        \* the chain: accepted blocks, orphans, tip
    fellBack,                   \* history: the tip was at the height of nextCheckpoint, and fell below
    pool,                       \* transactions known to the mempool
    link,                       \* link[p]: our Peer object and its queues
    remote,                     \* remote[p]: the node at the other end
    updates,                    \* UpdatePeerHeights messages on their way
    fastAdded,                  \* history: blocks processed with BFFastAdd
    blamed,                     \* history: peers disconnected by a handler, and for what
    handedIn,                   \* history: a block was handed in while a checkpoint was ahead
    leaves

syncVars == <<peerStates, requestedBlocks, requestedTxns, rejectedTxns,
              syncPeer>>

headerVars == <<headersFirstMode, headerList, startHeader, nextCheckpoint>>
chainVars == <<have, orphans, best, fellBack, pool>>
history == <<fastAdded, blamed, handedIn>>
vars == <<syncVars, headerVars, chainVars, link, remote, updates, history,
          leaves>>
----------------------------------------------------------------------------
(* The block tree. *)

Depth == Cardinality(Blocks)

Up[n \in 0 .. Depth] ==
    [b \in Blocks |-> IF n = 0 THEN b ELSE Prev[Up[n - 1][b]]]

Ancestors == [b \in Blocks |-> {Up[n][b] : n \in 0 .. Depth}]

Height == [b \in Blocks |-> Cardinality(Ancestors[b]) - 1]

FinalCheckpoint == IF Checkpoints = <<>> THEN Genesis ELSE Last(Checkpoints)

(* Every block descends from genesis, and the last checkpoint is the highest. *)
ASSUME SyncTreeAssumption ==
    /\ \A b \in Blocks \ {Genesis} : /\ Height[b] = Height[Prev[b]] + 1
                                    /\ Ancestors[b] = {b} \cup Ancestors[Prev[b]]
    /\ \A i \in DOMAIN Checkpoints : Height[Checkpoints[i]] <= Height[FinalCheckpoint]

(* The path to tip, from low to high. *)
Path == [tip \in Blocks |-> [i \in 1 .. Height[tip] + 1 |-> Up[Height[tip] + 1 - i][tip]]]

(* What of it is above the blocks of a locator. *)
PathAbove(tip, locator) ==
    LET known == Max({Height[b] : b \in (Ancestors[tip] \cap locator)
                                            \cup {Genesis}})
    IN  SubSeq(Path[tip], known + 2, Len(Path[tip]))

(* LocateBlocks, LocateHeaders: at most max blocks, none after stop. *)
locateInventory(tip, locator, stop, max) ==
    LET path == PathAbove(tip, locator)
        upTo == IF stop \in ToSet(path)
                THEN SubSeq(path, 1, CHOOSE i \in DOMAIN path : path[i] = stop)
                ELSE path
    IN  SubSeq(upTo, 1, IF Len(upTo) < max THEN Len(upTo) ELSE max)

(* The locators the manager sends: from its best block, or from one hash. *)
LatestBlockLocator == Ancestors[best]

(* maybeAcceptBlock and processOrphans: b and the orphans waiting for it. *)
Connected(b) ==
    {o \in orphans \cup {b} : b \in Ancestors[o]
        /\ (Ancestors[o] \ Ancestors[b]) \subseteq orphans}

HaveBlock(b) == b \in have \cup orphans

GetOrphanRoot(b) ==
    CHOOSE r \in Ancestors[b] \cap (orphans \cup {b}) :
        Prev[r] \notin orphans

(* The tips that b and the orphans after it may leave: a block that extends *)
(* the tip becomes the tip; one of a side chain does when its work is more  *)
(* than that of the tip, which says nothing of the heights.                 *)
TipsAfter(b) ==
    LET new == Connected(b)
        ends == {t \in new : \A c \in new : c # Genesis => Prev[c] # t}
    IN  IF Prev[b] = best THEN ends ELSE ends \cup {best}

(* chain.IsCurrent: past the last checkpoint, and a recent tip. *)
IsCurrent(tip) == /\ Height[tip] >= Height[FinalCheckpoint]
                  /\ Height[tip] >= RecentHeight

current(tip, heights) ==
    /\ IsCurrent(tip)
    /\ syncPeer # Nil => Height[tip] >= heights[syncPeer].lastBlock

findNextHeaderCheckpoint(height) ==
    LET later == {i \in DOMAIN Checkpoints : Height[Checkpoints[i]] > height}
    IN  IF later = {} THEN Nil ELSE Checkpoints[Min(later)]
----------------------------------------------------------------------------
(* The Peer object: what is queued to it and what it remembers. *)

QueueTo(l, p, m) == [l EXCEPT ![p].out = Append(@, m)]

SameGetBlocksBegin(prev, begin, stop) == prev # <<>> /\ prev[1] = begin

SameGetBlocks(prev, begin, stop) == prev = <<begin, stop>>

(* Back-to-back duplicates of a getblocks request are not sent. *)
PushGetBlocksMsg(l, p, locator, begin, stop) ==
    IF SameGetBlocks(l[p].prevGetBlocks, begin, stop) THEN l
    ELSE [QueueTo(l, p, [type |-> "getblocks", locator |-> locator,
                              stop |-> stop])
             EXCEPT ![p].prevGetBlocks = <<begin, stop>>]

PushGetHeadersMsg(l, p, locator, begin, stop) ==
    IF l[p].prevGetHdrs = <<begin, stop>> THEN l
    ELSE [QueueTo(l, p, [type |-> "getheaders", locator |-> locator,
                              stop |-> stop])
             EXCEPT ![p].prevGetHdrs = <<begin, stop>>]

QueueGetData(l, p, invs) ==
    IF invs = <<>> THEN l
    ELSE QueueTo(l, p, [type |-> "getdata", inv |-> invs])

UpdateLastBlockHeight(l, p, height) == [l EXCEPT ![p].lastBlock = height]

HangUp(l, p) == [l EXCEPT ![p].conn = "closed"]

(* The handler takes the oldest message of p, of the given type. *)
Receives(p, type) ==
    /\ link[p].conn # "none"
    /\ link[p].in # <<>>
    /\ Head(link[p].in).type = type

Received(p) == [link EXCEPT ![p].in = Tail(@)]

(* A message of a peer the manager does not know is dropped. *)
FromUnknownPeer(p) ==
    /\ p \notin DOMAIN peerStates
    /\ link' = Received(p)
    /\ UNCHANGED <<syncVars, headerVars, chainVars, updates, history>>
----------------------------------------------------------------------------
isSyncCandidate(p) == p \in FullNodes /\ (SegwitActive => p \in Witness)

(* limitMap evicts an arbitrary entry, perhaps the one just added. *)
limitMap(m, limit) ==
    IF Cardinality(m) + 1 > limit THEN {m \ {x} : x \in m} ELSE {m}

(* resetHeaderState leaves headers-first mode and starts a new list. *)
ModeWithoutSyncPeer == FALSE

resetHeaderState ==
    /\ startHeader' = Nil
    /\ headerList' = IF nextCheckpoint # Nil THEN <<best>> ELSE <<>>

(* startSync, called when there is no sync peer: states are the peers as    *)
(* its caller leaves them, requested and mode the values it leaves alone    *)
(* when no peer qualifies.                                                  *)
startSync(states, requested, mode, l) ==
    LET tall(p) == l[p].lastBlock >= Height[best]
        able == {p \in DOMAIN states : /\ states[p].syncCandidate
                                       /\ SegwitActive => p \in Witness}
        below == nextCheckpoint # Nil /\ Height[best] < Height[nextCheckpoint]
    IN  /\ peerStates' = [p \in DOMAIN states |->
              IF p \in able /\ ~tall(p)
              THEN [states[p] EXCEPT !.syncCandidate = FALSE] ELSE states[p]]
        /\ \/ /\ \A p \in able : ~tall(p)
              /\ syncPeer' = Nil
              /\ requestedBlocks' = requested
              /\ headersFirstMode' = mode
              /\ link' = l
           \/ \E p \in able :
              /\ tall(p)
              /\ syncPeer' = p
              /\ requestedBlocks' = {}
              /\ headersFirstMode' = (below \/ mode)
              /\ link' = IF below
                   THEN PushGetHeadersMsg(l, p, LatestBlockLocator, best,
                                          nextCheckpoint)
                   ELSE PushGetBlocksMsg(l, p, LatestBlockLocator, best, Nil)

handleNewPeerMsg(p) ==
    /\ Receives(p, "newpeer")
    /\ LET states == [q \in DOMAIN peerStates \cup {p} |->
                         IF q = p THEN [syncCandidate |-> isSyncCandidate(p),
                                        requestQueue |-> <<>>,
                                        requestedTxns |-> {},
                                        requestedBlocks |-> {}]
                         ELSE peerStates[q]]
       IN  IF isSyncCandidate(p) /\ syncPeer = Nil
           THEN startSync(states, requestedBlocks, headersFirstMode,
                          Received(p))
           ELSE /\ peerStates' = states
                /\ link' = Received(p)
                /\ UNCHANGED <<syncPeer, requestedBlocks, headersFirstMode>>
    /\ UNCHANGED <<requestedTxns, rejectedTxns, headerList, startHeader,
                   nextCheckpoint, chainVars, remote, updates, history,
                   leaves>>

(* The blocks asked of a peer that is gone are no longer pending. *)
PendingWithoutForgets(p) == requestedBlocks

PendingWithout(p) == requestedBlocks \ peerStates[p].requestedBlocks

(* A peer that is gone: what was asked of it may be asked of others.  The   *)
(* message that the peer's reader is handing over when the connection ends, *)
(* and the NewPeer of a peer that is dropped while it negotiates, may reach *)
(* the manager after this one.                                              *)
handleDonePeerMsg(p) ==
    /\ link[p].conn = "closed"
    /\ LET gone == [link EXCEPT ![p].conn = "gone",
                                ![p].in = IF @ = <<>> THEN @ ELSE <<Head(@)>>,
                                ![p].out = <<>>]
           states == [q \in DOMAIN peerStates \ {p} |-> peerStates[q]]
           blocks == PendingWithout(p)
       IN  IF p \notin DOMAIN peerStates
           THEN link' = gone /\ UNCHANGED <<syncVars, headerVars>>
           ELSE /\ requestedTxns' = requestedTxns \ peerStates[p].requestedTxns
                /\ IF syncPeer = p
                   THEN /\ startSync(states, blocks, ModeWithoutSyncPeer, gone)
                        /\ IF headersFirstMode THEN resetHeaderState
                           ELSE UNCHANGED <<headerList, startHeader>>
                   ELSE /\ peerStates' = states
                        /\ requestedBlocks' = blocks
                        /\ link' = gone
                        /\ UNCHANGED <<syncPeer, headersFirstMode, headerList,
                                       startHeader>>
                /\ UNCHANGED <<rejectedTxns, nextCheckpoint>>
    /\ UNCHANGED <<chainVars, remote, updates, history, leaves>>
----------------------------------------------------------------------------
(* What is left of a sequence without the elements nobody wants. *)
Wanted(seq, unwanted) ==
    LET kept[i \in 0 .. Len(seq)] ==
            IF i = 0 THEN <<>>
            ELSE IF seq[i] \in unwanted THEN kept[i - 1] ELSE Append(kept[i - 1], seq[i])
    IN  kept[Len(seq)]

(* The part of the header list that fetchHeaderBlocks still has to walk: an *)
(* element that was removed from the list has no successor.                 *)
ListFrom(list, e) ==
    IF e \in ToSet(list)
    THEN SubSeq(list, CHOOSE i \in DOMAIN list : list[i] = e, Len(list))
    ELSE <<e>>

(* The getdata for the next headers: the blocks that are not known, at most *)
(* MaxInvPerMsg of them, and the header to start from next time.            *)
NextBlocks(walk, known) ==
    LET missing == Wanted(walk, known)
        full == Len(missing) >= MaxInvPerMsg
        ask == IF full THEN SubSeq(missing, 1, MaxInvPerMsg) ELSE missing
        n == IF full THEN CHOOSE i \in DOMAIN walk : walk[i] = Last(ask) ELSE Len(walk)
    IN  [ask |-> ask,
         start |-> IF n < Len(walk) THEN walk[n + 1] ELSE Nil]

fetchHeaderBlocks(walk, known, states, requested, l) ==
    \E next \in {NextBlocks(walk, known)} :
        /\ startHeader' = next.start
        /\ requestedBlocks' = requested \cup ToSet(next.ask)
        /\ peerStates' = [states EXCEPT
              ![syncPeer].requestedBlocks = @ \cup ToSet(next.ask)]
        /\ link' = QueueGetData(l, syncPeer, next.ask)

(* The headers of the message that link to the list, up to the first that   *)
(* does not or that stands at the height of the next checkpoint.            *)
LinkedHeaders(list, headers) ==
    LET links(i) == /\ headers[i] # Genesis
                    /\ Prev[headers[i]] = IF i = 1 THEN Last(list)
                                          ELSE headers[i - 1]
        stop == {i \in DOMAIN headers :
                    \/ ~links(i)
                    \/ Height[headers[i]] = Height[nextCheckpoint]}
        n == IF stop = {} THEN Len(headers) ELSE Min(stop)
    IN  [taken |-> SubSeq(headers, 1, IF n > 0 /\ ~links(n) THEN n - 1 ELSE n),
         broken |-> n > 0 /\ ~links(n)]

(* The last header taken stands at the height of the next checkpoint. *)
MatchesCheckpointByHeight(b) == TRUE

MatchesCheckpoint(b) == b = nextCheckpoint

handleHeadersMsg(p) ==
    /\ Receives(p, "headers")
    /\ \/ FromUnknownPeer(p)
       \/ /\ p \in DOMAIN peerStates
          /\ LET headers == Head(link[p].in).headers
                 read == LinkedHeaders(headerList, headers)
                 list == headerList \o read.taken
                 start == IF startHeader = Nil /\ read.taken # <<>>
                          THEN Head(read.taken) ELSE startHeader
                 atCheckpoint == /\ read.taken # <<>>
                                 /\ Height[Last(list)] = Height[nextCheckpoint]
                 blame == /\ link' = HangUp(Received(p), p)
                          /\ blamed' = blamed \cup {[peer |-> p, sent |-> "headers"]}
                          /\ UNCHANGED handedIn
             IN \/ /\ ~headersFirstMode
                   /\ blame
                   /\ UNCHANGED <<syncVars, headerVars>>
                \/ /\ headersFirstMode /\ headers = <<>>
                   /\ link' = Received(p)
                   /\ UNCHANGED <<syncVars, headerVars, blamed, handedIn>>
                \/ /\ headersFirstMode /\ headers # <<>>
                   /\ headerList = <<>>
                   /\ blame
                   /\ UNCHANGED <<syncVars, headerVars>>
                \/ /\ headersFirstMode /\ headers # <<>>
                   /\ headerList # <<>>
                   /\ read.broken \/ (atCheckpoint /\ ~MatchesCheckpoint(Last(list)))
                   /\ headerList' = list
                   /\ startHeader' = start
                   /\ blame
                   /\ UNCHANGED <<syncVars, headersFirstMode, nextCheckpoint>>
                \/ /\ headersFirstMode /\ headers # <<>>
                   /\ headerList # <<>> /\ ~read.broken
                   /\ atCheckpoint /\ MatchesCheckpoint(Last(list))
                   /\ headerList' = Tail(list)
                   /\ fetchHeaderBlocks(ListFrom(Tail(list), start), have \cup orphans,
                                        peerStates, requestedBlocks, Received(p))
                   /\ UNCHANGED <<requestedTxns, rejectedTxns, syncPeer,
                                  headersFirstMode, nextCheckpoint, blamed, handedIn>>
                \/ /\ headersFirstMode /\ headers # <<>>
                   /\ headerList # <<>> /\ ~read.broken /\ ~atCheckpoint
                   /\ headerList' = list
                   /\ startHeader' = start
                   /\ link' = PushGetHeadersMsg(Received(p), p, {Last(headers)},
                                                Last(headers), nextCheckpoint)
                   /\ UNCHANGED <<syncVars, headersFirstMode, nextCheckpoint,
                                  blamed, handedIn>>
          /\ UNCHANGED <<chainVars, updates, fastAdded>>
    /\ UNCHANGED <<remote, leaves>>
----------------------------------------------------------------------------

NowHave(b) == have \cup Connected(b)

FallsBack == nextCheckpoint # Nil /\ Height[best] >= Height[nextCheckpoint] /\ Height[best'] < Height[nextCheckpoint]

(* ProcessBlock, as the manager sees it: a duplicate is refused, a block    *)
(* without a parent is kept as an orphan, any other block is accepted.      *)
chainTakes(b) ==
    IF Prev[b] \in have
    THEN /\ have' = NowHave(b)
         /\ orphans' = orphans \ Connected(b)
         /\ best' \in TipsAfter(b)
         /\ fellBack' = (fellBack \/ FallsBack)
    ELSE /\ orphans' = orphans \cup {b}
         /\ UNCHANGED <<have, best, fellBack>>

(* Whether b is the header the list waits for, in headers-first mode. *)
IsFirstHeader(b) == headersFirstMode /\ headerList # <<>> /\ Head(headerList) = b

(* The peer's queue and heights after ProcessBlock took b. *)
AfterBlock(p, b, l) ==
    LET isOrphan == Prev[b] \notin have
        asked == IF isOrphan
                 THEN PushGetBlocksMsg(l, p, LatestBlockLocator, best,
                                       GetOrphanRoot(b))
                 ELSE l
        height == IF isOrphan THEN Height[b] ELSE Height[best']
    IN  IF height = 0 THEN asked ELSE UpdateLastBlockHeight(asked, p, height)

(* Headers-first mode after a block: more blocks of the list, the next      *)
(* round of headers, or normal mode behind the last checkpoint.             *)
ContinueHeadersFirst(p, b, states, requested, l) ==
    LET isCheckpoint == IsFirstHeader(b) /\ b = nextCheckpoint
        list == IF IsFirstHeader(b) /\ ~isCheckpoint THEN Tail(headerList)
                ELSE headerList
        next == findNextHeaderCheckpoint(Height[b])
        short == /\ startHeader # Nil
                 /\ Cardinality(states[p].requestedBlocks) < minInFlightBlocks
    IN  \/ /\ ~headersFirstMode \/ (~isCheckpoint /\ ~short)
           /\ headerList' = list
           /\ peerStates' = states /\ requestedBlocks' = requested /\ link' = l
           /\ UNCHANGED <<headersFirstMode, startHeader, nextCheckpoint>>
        \/ /\ headersFirstMode /\ ~isCheckpoint /\ short
           /\ headerList' = list
           /\ fetchHeaderBlocks(ListFrom(list, startHeader), have' \cup orphans',
                                states, requested, l)
           /\ UNCHANGED <<headersFirstMode, nextCheckpoint>>
        \/ /\ isCheckpoint /\ next # Nil
           /\ nextCheckpoint' = next
           /\ peerStates' = states /\ requestedBlocks' = requested
           /\ link' = PushGetHeadersMsg(l, p, {b}, b, next)
           /\ UNCHANGED <<headersFirstMode, headerList, startHeader>>
        \/ /\ isCheckpoint /\ next = Nil
           /\ nextCheckpoint' = Nil
           /\ headersFirstMode' = FALSE
           /\ headerList' = <<>>
           /\ peerStates' = states /\ requestedBlocks' = requested
           /\ link' = PushGetBlocksMsg(l, p, {b}, b, Nil)
           /\ UNCHANGED startHeader

handleBlockMsg(p) ==
    /\ Receives(p, "block")
    /\ LET b == Head(link[p].in).block
           states == [peerStates EXCEPT ![p].requestedBlocks = @ \ {b}]
           l == AfterBlock(p, b, Received(p))
       IN \/ FromUnknownPeer(p)
          \/ /\ p \in DOMAIN peerStates
             /\ b \notin peerStates[p].requestedBlocks
             /\ link' = HangUp(Received(p), p)
             /\ blamed' = blamed \cup {[peer |-> p, sent |-> "block"]}
             /\ UNCHANGED <<syncVars, headerVars, chainVars, updates, fastAdded, handedIn>>
          \/ /\ p \in DOMAIN peerStates
             /\ b \in peerStates[p].requestedBlocks
             /\ HaveBlock(b)                      \* refused as a duplicate
             /\ peerStates' = states
             /\ requestedBlocks' = requestedBlocks \ {b}
             /\ headerList' = IF IsFirstHeader(b) /\ b # nextCheckpoint
                              THEN Tail(headerList) ELSE headerList
             /\ link' = Received(p)
             /\ UNCHANGED <<requestedTxns, rejectedTxns, syncPeer,
                            headersFirstMode, startHeader, nextCheckpoint,
                            chainVars, updates, history>>
          \/ /\ p \in DOMAIN peerStates
             /\ b \in peerStates[p].requestedBlocks
             /\ ~HaveBlock(b)
             /\ chainTakes(b)
             /\ fastAdded' = IF IsFirstHeader(b) THEN fastAdded \cup {b}
                             ELSE fastAdded
             /\ rejectedTxns' = IF Prev[b] \in have THEN {} ELSE rejectedTxns
             /\ updates' = IF Prev[b] \notin have
                           THEN updates \cup {[hash |-> b, height |-> Height[b],
                                               origin |-> p]}
                           ELSE IF current(best', l)
                           THEN updates \cup {[hash |-> best', origin |-> p,
                                               height |-> Height[best']]}
                           ELSE updates
             /\ ContinueHeadersFirst(p, b, states, requestedBlocks \ {b}, l)
             /\ UNCHANGED <<requestedTxns, syncPeer, pool, blamed, handedIn>>
    /\ UNCHANGED <<remote, leaves>>

(* handleUpdatePeerHeights of the server, for a message sent above. *)
HandleUpdatePeerHeights ==
    \E u \in updates :
        /\ updates' = updates \ {u}
        /\ link' = [p \in Peers |->
              IF p # u.origin /\ link[p].announced = u.hash
              THEN [link[p] EXCEPT !.lastBlock = u.height, !.announced = Nil]
              ELSE link[p]]
        /\ UNCHANGED <<syncVars, headerVars, chainVars, remote, history, leaves>>
----------------------------------------------------------------------------
haveInventory(iv) == HaveBlock(iv) \/ iv \in pool

(* What the inventory makes the manager ask of p at once: the parents of an *)
(* orphan it already has, or more after a final block it already has.       *)
AskAfter(p, iv, last, l) ==
    IF iv \notin Blocks \/ ~HaveBlock(iv) THEN l
    ELSE IF iv \in orphans
    THEN PushGetBlocksMsg(l, p, LatestBlockLocator, best, GetOrphanRoot(iv))
    ELSE IF iv = last THEN PushGetBlocksMsg(l, p, Ancestors[iv], iv, Nil)
    ELSE l

AskForMore(p, invs, last, l) ==
    LET asked[n \in 0 .. Len(invs)] ==
            IF n = 0 THEN l ELSE AskAfter(p, invs[n], last, asked[n - 1])
    IN  asked[Len(invs)]

IsPendingNever(o, iv) == FALSE

IsPending(o, iv) == iv \in o.blocks \cup o.txns

(* The ways to turn a request queue into one getdata: every entry that is   *)
(* not pending with some peer, until the message is full.                   *)
Drained(o, iv) ==
    IF Len(o.ask) >= MaxInvPerMsg
    THEN {[o EXCEPT !.rest = Append(@, iv)]}
    ELSE IF IsPending(o, iv) THEN {o}
    ELSE IF iv \in Blocks
    THEN {[o EXCEPT !.blocks = m, !.ask = Append(@, iv)] :
              m \in limitMap(o.blocks \cup {iv}, maxRequestedBlocks)}
    ELSE {[o EXCEPT !.txns = m, !.ask = Append(@, iv)] :
              m \in limitMap(o.txns \cup {iv}, maxRequestedTxns)}

DrainQueue(queue) ==
    LET ways[n \in 0 .. Len(queue)] ==
            IF n = 0 THEN {[blocks |-> requestedBlocks, txns |-> requestedTxns,
                            ask |-> <<>>, rest |-> <<>>]}
            ELSE UNION {Drained(o, queue[n]) : o \in ways[n - 1]}
    IN  ways[Len(queue)]

handleInvMsg(p) ==
    /\ Receives(p, "inv")
    /\ \/ FromUnknownPeer(p)
       \/ /\ p \in DOMAIN peerStates
          /\ LET invs == Head(link[p].in).inv
                 blocks == {i \in DOMAIN invs : invs[i] \in Blocks}
                 last == IF blocks = {} THEN Nil ELSE invs[Max(blocks)]
                 now == current(best, link)
                 told == IF last # Nil /\ (p # syncPeer \/ now)
                         THEN [Received(p) EXCEPT ![p].announced = last]
                         ELSE Received(p)
                 known == IF last \in Ancestors[best] /\ now
                          THEN UpdateLastBlockHeight(told, p, Height[last])
                          ELSE told
                 unwanted == {iv \in ToSet(invs) : haveInventory(iv) \/ iv \in rejectedTxns}
             IN \/ /\ p # syncPeer /\ ~now
                   /\ link' = told
                   /\ UNCHANGED syncVars
                \/ /\ p = syncPeer \/ now
                   /\ \E o \in DrainQueue(peerStates[p].requestQueue \o
                               IF headersFirstMode THEN <<>>
                               ELSE Wanted(invs, unwanted)) :
                        /\ requestedBlocks' = o.blocks
                        /\ requestedTxns' = o.txns
                        /\ peerStates' = [peerStates EXCEPT
                              ![p].requestQueue = o.rest,
                              ![p].requestedBlocks =
                                    @ \cup (ToSet(o.ask) \cap Blocks),
                              ![p].requestedTxns =
                                    @ \cup (ToSet(o.ask) \cap Txs)]
                        /\ link' = QueueGetData(
                              IF headersFirstMode THEN known
                              ELSE AskForMore(p, invs, last, known), p, o.ask)
                   /\ UNCHANGED <<rejectedTxns, syncPeer>>
          /\ UNCHANGED <<headerVars, chainVars, updates, history>>
    /\ UNCHANGED <<remote, leaves>>

(* handleTxMsg: the mempool accepts the transaction or refuses it. *)
handleTxMsg(p) ==
    /\ Receives(p, "tx")
    /\ LET t == Head(link[p].in).tx
       IN \/ FromUnknownPeer(p)
          \/ /\ p \in DOMAIN peerStates /\ t \in rejectedTxns
             /\ link' = Received(p)
             /\ UNCHANGED <<syncVars, headerVars, chainVars, updates, history>>
          \/ /\ p \in DOMAIN peerStates /\ t \notin rejectedTxns
             /\ peerStates' = [peerStates EXCEPT ![p].requestedTxns = @ \ {t}]
             /\ requestedTxns' = requestedTxns \ {t}
             /\ link' = Received(p)
             /\ \/ /\ t \notin pool
                   /\ pool' = pool \cup {t}
                   /\ UNCHANGED rejectedTxns
                \/ /\ rejectedTxns' \in limitMap(rejectedTxns \cup {t},
                                                 maxRejectedTxns)
                   /\ UNCHANGED pool
             /\ UNCHANGED <<requestedBlocks, syncPeer, headerVars, have, orphans,
                            best, fellBack, updates, history>>
    /\ UNCHANGED <<remote, leaves>>

(* processBlockMsg: a block handed in by the RPC server or the miner. *)
ProcessBlock(b) ==
    /\ ~HaveBlock(b)
    /\ chainTakes(b)
    /\ handedIn' = (handedIn \/ nextCheckpoint # Nil)
    /\ UNCHANGED <<syncVars, headerVars, pool, link, remote, updates, fastAdded,
                   blamed, leaves>>
----------------------------------------------------------------------------
(* The remote peers. *)

(* OnVersion: the connection is up and the manager is told of the peer. *)
OnVersion(p) ==
    /\ link[p].conn = "none"
    /\ link' = [link EXCEPT ![p].conn = "up",
                            ![p].lastBlock = Height[remote[p].tip],
                            ![p].in = <<[type |-> "newpeer"]>>]
    /\ UNCHANGED <<syncVars, headerVars, chainVars, remote, updates, history,
                   leaves>>

Answer(p, msgs) == link' = [link EXCEPT ![p].out = Tail(@), ![p].in = @ \o msgs]

Asked(p, type) == /\ link[p].conn = "up"
                  /\ link[p].out # <<>>
                  /\ Head(link[p].out).type = type

OnGetBlocks(p) ==
    /\ Asked(p, "getblocks")
    /\ LET m == Head(link[p].out)
           list == locateInventory(remote[p].tip, m.locator, m.stop,
                                   MaxBlocksPerMsg)
       IN  /\ Answer(p, IF list = <<>> THEN <<>>
                        ELSE <<[type |-> "inv", inv |-> list]>>)
           /\ remote' = IF Len(list) = MaxBlocksPerMsg
                        THEN [remote EXCEPT ![p].continueHash = Last(list)]
                        ELSE remote
    /\ UNCHANGED <<syncVars, headerVars, chainVars, updates, history, leaves>>

(* A node that is not current does not answer: its tip is old, or its own   *)
(* sync peer, which is not modelled, is ahead of it.                        *)
OnGetHeaders(p) ==
    /\ Asked(p, "getheaders")
    /\ \/ /\ IsCurrent(remote[p].tip)
          /\ LET m == Head(link[p].out)
             IN  Answer(p, <<[type |-> "headers",
                              headers |-> locateInventory(remote[p].tip, m.locator,
                                              m.stop, MaxBlockHeadersPerMsg)]>>)
          /\ UNCHANGED remote
       \/ /\ Answer(p, <<>>)
          /\ remote' = [remote EXCEPT ![p].wasCurrent = FALSE]
    /\ UNCHANGED <<syncVars, headerVars, chainVars, updates, history, leaves>>

(* OnGetData and PushBlockMsg: every entry in turn; after the last block of *)
(* a full inventory the tip is announced, so that more is asked for.        *)
PushBlockMsg(p, b) ==
    <<[type |-> "block", block |-> b]>> \o
        IF b = remote[p].continueHash
        THEN <<[type |-> "inv", inv |-> <<remote[p].tip>>]>> ELSE <<>>

Data(p, invs) ==
    LET sent[n \in 0 .. Len(invs)] ==
            IF n = 0 THEN <<>>
            ELSE sent[n - 1] \o IF invs[n] \in Txs THEN <<[type |-> "tx", tx |-> invs[n]]>>
                                ELSE PushBlockMsg(p, invs[n])
    IN  sent[Len(invs)]

OnGetData(p) ==
    /\ Asked(p, "getdata")
    /\ LET invs == Head(link[p].out).inv
       IN  /\ Answer(p, Data(p, invs))
           /\ remote' = IF remote[p].continueHash \in ToSet(invs)
                        THEN [remote EXCEPT ![p].continueHash = Nil] ELSE remote
    /\ UNCHANGED <<syncVars, headerVars, chainVars, updates, history, leaves>>

(* The peer extends its chain and announces the new tip. *)
PeerFinds(p, b) ==
    /\ link[p].conn = "up"
    /\ Prev[b] = remote[p].tip
    /\ remote' = [remote EXCEPT ![p].tip = b]
    /\ link' = [link EXCEPT ![p].in =
                    Append(@, [type |-> "inv", inv |-> <<b>>])]
    /\ UNCHANGED <<syncVars, headerVars, chainVars, updates, history, leaves>>

(* The peer announces a transaction, once. *)
PeerRelays(p, t) ==
    /\ link[p].conn = "up"
    /\ t \notin remote[p].relayed
    /\ remote' = [remote EXCEPT ![p].relayed = @ \cup {t}]
    /\ link' = [link EXCEPT ![p].in =
                    Append(@, [type |-> "inv", inv |-> <<t>>])]
    /\ UNCHANGED <<syncVars, headerVars, chainVars, updates, history, leaves>>

PeerLeaves(p) ==
    /\ link[p].conn = "up"
    /\ leaves < MaxLeaves
    /\ leaves' = leaves + 1
    /\ link' = HangUp(link, p)
    /\ UNCHANGED <<syncVars, headerVars, chainVars, remote, updates, history>>
----------------------------------------------------------------------------
(* New: the manager at startup, on a chain that holds only genesis. *)
Init ==
    /\ peerStates = <<>>
    /\ requestedBlocks = {} /\ requestedTxns = {} /\ rejectedTxns = {}
    /\ syncPeer = Nil
    /\ headersFirstMode = FALSE
    /\ nextCheckpoint = findNextHeaderCheckpoint(0)
    /\ headerList = IF nextCheckpoint = Nil THEN <<>> ELSE <<Genesis>>
    /\ startHeader = Nil
    /\ have = {Genesis} /\ orphans = {} /\ best = Genesis /\ pool = {}
    /\ link = [p \in Peers |->
          [conn |-> "none", in |-> <<>>, out |-> <<>>, lastBlock |-> 0,
           announced |-> Nil, prevGetBlocks |-> <<>>, prevGetHdrs |-> <<>>]]
    /\ \E tips \in [Peers -> Blocks] :
          /\ \A p \in Peers : tips[p] \in FirstTips[p]
          /\ remote = [p \in Peers |->
                [tip |-> tips[p], continueHash |-> Nil, relayed |-> {}, wasCurrent |-> TRUE]]
    /\ updates = {} /\ fastAdded = {} /\ blamed = {} /\ leaves = 0
    /\ fellBack = FALSE /\ handedIn = FALSE

(* The manager's goroutine and the server's take every message in time. *)
Handle(p) == \/ handleNewPeerMsg(p) \/ handleDonePeerMsg(p)
             \/ handleHeadersMsg(p) \/ handleBlockMsg(p)
             \/ handleInvMsg(p) \/ handleTxMsg(p)

Remote(p) == OnGetBlocks(p) \/ OnGetHeaders(p) \/ OnGetData(p)

Next ==
    \/ \E p \in Peers : Handle(p) \/ Remote(p) \/ OnVersion(p) \/ PeerLeaves(p)
    \/ \E p \in Peers : \E b \in Mined[p] : PeerFinds(p, b)
    \/ \E p \in Peers, t \in Txs : PeerRelays(p, t)
    \/ \E b \in Submitted : ProcessBlock(b)
    \/ HandleUpdatePeerHeights

Spec == Init /\ [][Next]_vars

Fairness == \A p \in Peers : /\ WF_vars(Handle(p))
                             /\ WF_vars(Remote(p))
                             /\ WF_vars(OnVersion(p))

FairSpec == Spec /\ Fairness
----------------------------------------------------------------------------
PeerStateType ==
    [syncCandidate : BOOLEAN, requestQueue : Seq(Blocks \cup Txs),
     requestedTxns : SUBSET Txs, requestedBlocks : SUBSET Blocks]

TypeOK ==
    /\ DOMAIN peerStates \subseteq Peers
    /\ \A p \in DOMAIN peerStates : peerStates[p] \in PeerStateType
    /\ requestedBlocks \subseteq Blocks
    /\ requestedTxns \subseteq Txs /\ rejectedTxns \subseteq Txs
    /\ syncPeer \in Peers \cup {Nil}
    /\ headersFirstMode \in BOOLEAN
    /\ headerList \in Seq(Blocks)
    /\ startHeader \in Blocks \cup {Nil}
    /\ nextCheckpoint \in Blocks \cup {Nil}
    /\ have \subseteq Blocks /\ orphans \subseteq Blocks /\ best \in have
    /\ \A p \in Peers : link[p].lastBlock \in 0 .. Depth

(* fetchHeaderBlocks and both header handlers use the sync peer's state and *)
(* the next checkpoint without a test: headers-first mode must never        *)
(* outlive either of them, whatever peer leaves or is disconnected when.    *)
HeadersFirstHasSyncPeer ==
    /\ syncPeer # Nil => syncPeer \in DOMAIN peerStates
    /\ headersFirstMode => syncPeer # Nil /\ nextCheckpoint # Nil

OnItsWay(p, b) ==
    \/ \E i \in DOMAIN link[p].out : /\ link[p].out[i].type = "getdata"
                                     /\ b \in ToSet(link[p].out[i].inv)
    \/ \E i \in DOMAIN link[p].in : /\ link[p].in[i].type = "block"
                                    /\ link[p].in[i].block = b

(* A block marked as requested is not requested again (handleInvMsg), so    *)
(* the mark must never outlive the request: some connected peer still has   *)
(* to send it, or has left and its DonePeer message clears the mark.        *)
RequestedIsOnItsWay ==
    \A b \in requestedBlocks : \E p \in DOMAIN peerStates :
        /\ b \in peerStates[p].requestedBlocks
        /\ link[p].conn = "closed" \/ OnItsWay(p, b)

(* Less validation is only for blocks under a checkpoint: a block processed *)
(* with BFFastAdd is a checkpoint or an ancestor of one.  Blocks asked for  *)
(* by inventory would mix with those of the header list if the tip fell     *)
(* below a checkpoint that it had passed without the list.                  *)
FastAddedUnderCheckpoint ==
    ~fellBack => \A b \in fastAdded : \E c \in ToSet(Checkpoints) : b \in Ancestors[c]

OnCheckpoints(p) ==
    \A c \in ToSet(Checkpoints) :
        Height[c] <= Height[remote[p].tip] => c \in Ancestors[remote[p].tip]

HasCheckpoints(p) == ToSet(Checkpoints) \subseteq Ancestors[remote[p].tip]

(* A peer that follows the protocol, and whose chain holds the checkpoints, *)
(* is never disconnected for a block or for headers it was asked for.  Only *)
(* after a block was handed in below a checkpoint may its headers not link. *)
ProtocolPeersAreKept ==
    \A was \in blamed : OnCheckpoints(was.peer) => was.sent = "headers" /\ handedIn

(* A block that is pending with one peer is not asked of another; when that *)
(* peer leaves, the block waits for the next announcement.                  *)
OnlySyncPeersLeave ==
    \A p \in Peers : link[p].conn = "closed" => p = syncPeer

(* An orphan at the end of a batch of inventory is not asked for, and the   *)
(* peer that waits for that request does not offer the next batch.          *)
OrphansAreTips(p) == syncPeer = p => orphans \subseteq {remote[p].tip}

(* The chain of the sync peer is downloaded to its tip, through every round *)
(* of headers and every batch of inventory, whoever was the sync peer       *)
(* before and whatever the other peers announce meanwhile, if it was        *)
(* current whenever it was asked for headers and no block was handed in     *)
(* below a checkpoint.                                                      *)
SyncCompletes ==
    \A p \in Peers :
        /\ [](OnlySyncPeersLeave /\ OrphansAreTips(p) /\ ~handedIn)
        /\ <>[](syncPeer = p /\ link[p].conn = "up" /\ HasCheckpoints(p) /\ remote[p].wasCurrent)
        => <>(remote[p].tip \in have)

(* Headers-first mode never works with a peer, a checkpoint or a block it   *)
(* has no business with.                                                    *)
HeadersFirstIsSafe == TypeOK /\ HeadersFirstHasSyncPeer /\ FastAddedUnderCheckpoint

=============================================================================
