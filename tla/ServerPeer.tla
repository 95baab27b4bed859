----------------------------- MODULE ServerPeer -----------------------------
(***************************************************************************)
(* How the server answers getdata (NodePeer.OnGetData and the Push*Msg     *)
(* methods of cmd/node/rpc/server.go), which runs on the peer's input      *)
(* goroutine and waits for its output goroutine, and how the server stops  *)
(* while the block handler still has inventory to relay.                   *)
(***************************************************************************)
EXTENDS Naturals, Sequences, SequencesExt, FiniteSets

CONSTANTS MaxItems,        \* bound on the inventory of a getdata
          RelayCap,        \* capacity of RelayInv
          MaxRelays        \* relays the block handler has left to make

ASSUME ServerPeerConstants == MaxItems \in Nat /\ RelayCap \in Nat /\ MaxRelays \in Nat

(* What an entry of a getdata leads to: the data, the data and an inv that *)
(* continues a getblocks, a merkle block and its transactions, nothing     *)
(* because no filter is loaded, an error, or a type that is not known.     *)
ItemKinds == {"found", "continue", "merkle", "noFilter", "missing", "unknown"}

VARIABLES items,      \* msg.InvList
          at,         \* the entry the loop is at; MaxItems + 2 when it has returned
          step,       \* "push", "wait" or "end" within it
          notFound,   \* entries that were not found
          numAdded,
          waitChan,   \* the channel the next push waits for, 0 for none
          tokens,     \* signals in each channel; doneChan is the last one
          outgoing,   \* messages on the way to the peer: the channel each signals
          relayInv, relaysLeft, serverQuit, peerHandler, blockHandler

getDataVars == <<items, at, step, notFound, numAdded, waitChan, tokens, outgoing>>
stopVars == <<relayInv, relaysLeft, serverQuit, peerHandler, blockHandler>>

DoneChan == MaxItems + 1
Returned == MaxItems + 2

ServerPeerInit ==
    /\ items \in UNION {[1..n -> ItemKinds] : n \in 0..MaxItems}
    /\ at = (IF items = <<>> THEN Returned ELSE 1) /\ step = (IF items = <<>> THEN "end" ELSE "push")
    /\ notFound = 0 /\ numAdded = 0 /\ waitChan = 0
    /\ tokens = [c \in 1..DoneChan |-> 0] /\ outgoing = <<>>
    /\ relayInv = 0 /\ relaysLeft \in 0..MaxRelays /\ serverQuit = FALSE
    /\ peerHandler = "run" /\ blockHandler = "run"

-----------------------------------------------------------------------------

(* The channel that entry i signals: doneChan for the last message, and a  *)
(* channel of its own for every third.                                     *)
ChanOf(i) ==
    IF i = Len(items) /\ notFound = 0 THEN DoneChan ELSE IF i % 3 = 0 THEN i ELSE 0

Give(c) == IF c = 0 THEN tokens ELSE [tokens EXCEPT ![c] = @ + 1]

(* What is queued for an entry: only the last message signals.             *)
MessagesFor(kind, c) == IF kind = "found" THEN <<c>> ELSE <<0, c>>

(* Fetching fails, or there is nothing to send.  The last entry takes back *)
(* the signal that notFound will give again.                               *)
ConsumesAlways(i, c) == c # 0
ConsumesOwn(i, c) == i = Len(items) /\ c # 0

PushFails(i) ==
    /\ at = i /\ step = "push" /\ items[i] \in {"missing", "noFilter"}
    /\ LET c == ChanOf(i)
           missing == items[i] = "missing"
       IN  /\ tokens' = IF missing /\ ConsumesOwn(i, c) THEN tokens ELSE Give(c)
           /\ notFound' = IF missing THEN notFound + 1 ELSE notFound
           /\ waitChan' = c
    /\ numAdded' = numAdded + 1 /\ at' = i + 1
    /\ UNCHANGED <<items, step, outgoing>>

SkipUnknown(i) ==
    /\ at = i /\ step = "push" /\ items[i] = "unknown"
    /\ at' = i + 1
    /\ UNCHANGED <<items, step, notFound, numAdded, waitChan, tokens, outgoing>>

(* The data is there: wait for the earlier entry, then queue.              *)
PushMsg(i) ==
    /\ at = i /\ step = "push" /\ items[i] \in {"found", "continue", "merkle"}
    /\ waitChan # 0 => tokens[waitChan] > 0
    /\ tokens' = IF waitChan = 0 THEN tokens ELSE [tokens EXCEPT ![waitChan] = @ - 1]
    /\ outgoing' = outgoing \o MessagesFor(items[i], ChanOf(i))
    /\ waitChan' = ChanOf(i)
    /\ numAdded' = numAdded + 1 /\ at' = i + 1
    /\ UNCHANGED <<items, step, notFound>>

LoopEnds ==
    /\ at = Len(items) + 1 /\ step = "push"
    /\ outgoing' = IF notFound # 0 THEN Append(outgoing, DoneChan) ELSE outgoing
    /\ step' = "end"
    /\ UNCHANGED <<items, at, notFound, numAdded, waitChan, tokens>>

OnGetDataReturns ==
    /\ step = "end" /\ at # Returned
    /\ numAdded > 0 => tokens[DoneChan] > 0
    /\ tokens' = IF numAdded > 0 THEN [tokens EXCEPT ![DoneChan] = @ - 1] ELSE tokens
    /\ at' = Returned
    /\ UNCHANGED <<items, step, notFound, numAdded, waitChan, outgoing>>

(* The peer's output goroutine sends a message and signals.                *)
PeerSends ==
    /\ outgoing # <<>>
    /\ outgoing' = Tail(outgoing) /\ tokens' = Give(Head(outgoing))
    /\ UNCHANGED <<items, at, step, notFound, numAdded, waitChan>>

GetDataNext ==
    \/ \E i \in DOMAIN items : PushFails(i)
    \/ \E i \in DOMAIN items : SkipUnknown(i)
    \/ \E i \in DOMAIN items : PushMsg(i)
    \/ LoopEnds
    \/ OnGetDataReturns
    \/ PeerSends

-----------------------------------------------------------------------------
(* Stop: PeerHandler takes quit, stops the sync manager and waits for its  *)
(* block handler, and only then drains the channels.                       *)
RelayInventory ==
    /\ blockHandler = "run" /\ relaysLeft > 0 /\ relayInv < RelayCap
    /\ relayInv' = relayInv + 1 /\ relaysLeft' = relaysLeft - 1
    /\ UNCHANGED <<serverQuit, peerHandler, blockHandler>>

HandleRelay ==
    /\ peerHandler = "run" /\ relayInv > 0
    /\ relayInv' = relayInv - 1
    /\ UNCHANGED <<relaysLeft, serverQuit, peerHandler, blockHandler>>

Stop ==
    /\ ~serverQuit /\ serverQuit' = TRUE
    /\ UNCHANGED <<relayInv, relaysLeft, peerHandler, blockHandler>>

TakesQuit ==
    /\ peerHandler = "run" /\ serverQuit
    /\ peerHandler' = "stopping"
    /\ UNCHANGED <<relayInv, relaysLeft, serverQuit, blockHandler>>

BlockHandlerEnds ==
    /\ blockHandler = "run" /\ peerHandler = "stopping" /\ relaysLeft = 0
    /\ blockHandler' = "done"
    /\ UNCHANGED <<relayInv, relaysLeft, serverQuit, peerHandler>>

Cleanup ==
    /\ peerHandler = "stopping" /\ blockHandler = "done"
    /\ peerHandler' = "done" /\ relayInv' = 0
    /\ UNCHANGED <<relaysLeft, serverQuit, blockHandler>>

StopNext == RelayInventory \/ HandleRelay \/ Stop \/ TakesQuit \/ BlockHandlerEnds \/ Cleanup

GetDataFairness == WF_getDataVars(GetDataNext)

StopFairness ==
    /\ WF_stopVars(RelayInventory \/ HandleRelay \/ BlockHandlerEnds \/ Cleanup) /\ SF_stopVars(TakesQuit)

-----------------------------------------------------------------------------
(* No channel is ever signalled beyond the one signal it has room for: the *)
(* goroutine that sends to the peer never blocks on a getdata that has     *)
(* gone on, whatever is found, missing or skipped, in whatever order.      *)
ChannelsHoldOne == \A c \in 1..DoneChan : tokens[c] <= 1

(* Getdata ends: the input goroutine of the peer comes back from waiting   *)
(* for the last message.  It does not when the last entry has an unknown   *)
(* type and every entry before it that counts was found: then nobody       *)
(* signals doneChan.                                                       *)
LastIsKnown == items # <<>> /\ items[Len(items)] # "unknown"
GetDataReturns == LastIsKnown ~> at = Returned

(* Stopping ends when the channel has room for what the block handler      *)
(* still relays: PeerHandler waits for it before it drains the channel.    *)
StopsWithRoom == (serverQuit /\ relayInv + relaysLeft <= RelayCap) ~> peerHandler = "done"

=============================================================================
