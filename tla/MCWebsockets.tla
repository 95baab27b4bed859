---------------------------- MODULE MCWebsockets ----------------------------
(***************************************************************************)
(* Three machines of the websocket server, one of which runs in each       *)
(* behaviour (`part`): the goroutines of one client, the notification      *)
(* manager with two clients, and a rescan against a chain that moves.      *)
(***************************************************************************)
EXTENDS WsClient, WsNotify, TLC

CONSTANTS c1, c2

VARIABLE part

allVars == <<wsVars, notifyVars, part>>

ManagerTells == [p \in {"manager"} \cup Servers |-> IF p = "manager" THEN 2 ELSE 1]

\* Two branches after b1; addresses of one key in both forms, and a script.
A == [kind |-> "pkh", key |-> 1]
K == [kind |-> "pk", key |-> 1]
S == [kind |-> "sh", key |-> 2]
BlockSet == {"b1", "b2", "b3", "s2", "s3"}
Parents == "b1" :> "genesis" @@ "b2" :> "b1" @@ "b3" :> "b2" @@ "s2" :> "b1" @@ "s3" :> "s2"
BlockTxs == "b1" :> <<"t1">> @@ "b2" :> <<"t2", "t3">> @@ "b3" :> <<"t4">> @@ "s2" :> <<"u2">> @@ "s3" :> <<"t2">>
TxSet == {"t1", "t2", "t3", "t4", "u2"}
TxIns == "t1" :> << >> @@ "t2" :> <<<<"t1", 1>>>> @@ "t3" :> <<<<"t2", 1>>, <<"t1", 2>>>>
         @@ "t4" :> <<<<"t3", 1>>>> @@ "u2" :> <<<<"t1", 2>>>>

TxOuts == "t1" :> <<A, S>> @@ "t2" :> <<K, S>> @@ "t3" :> <<S>> @@ "t4" :> <<A>> @@ "u2" :> <<A, K>>
Branches == {<<"b1", "b2", "b3">>, <<"b1", "s2", "s3">>}

Requests(c) ==
    {[type |-> "notifyblocks", c |-> c], [type |-> "stopnotifyblocks", c |-> c],
     [type |-> "notifynewtransactions", c |-> c, verbose |-> c = c2], [type |-> "stopnotifynewtransactions", c |-> c],
     [type |-> "notifyspent", c |-> c, ops |-> {<<"t1", 1>>}], [type |-> "stopnotifyspent", c |-> c, ops |-> {<<"t1", 1>>}],
     [type |-> "notifyreceived", c |-> c, as |-> {A}], [type |-> "stopnotifyreceived", c |-> c, as |-> {A}]}

MCInit ==
    /\ part \in {"websocket", "manager", "rescan"}
    /\ NewWebsocketClient
    /\ NewWSNotificationManager
    /\ chain \in (IF part = "rescan" THEN {<<"b1">>, <<"b1", "b2">>} ELSE {<<"b1">>})

WebsocketNext ==
    \/ WSLose \/ TakeNtfn \/ TakeSent \/ SendNtfn \/ QuitNtfns
    \/ TakeMessage \/ WSWrite \/ QuitOut \/ WSRead \/ ReplyAtOnce \/ QuitIn \/ WebsocketHandler
    \/ \E p \in Notifiers : QueueNotification(p) \/ PushNtfn(p)
    \/ \E s \in Servers : Acquire(s) \/ ServiceRequest(s)

ManagerNext ==
    \/ \E tx \in {"t2"}, isNew \in BOOLEAN : AcceptTx(tx, isNew)
    \/ \E c \in Clients : RemoveClient(c) \/ \E msg \in Requests(c) : Request(c, msg)
    \/ \E c \in Clients, reload \in BOOLEAN : handled < 2 /\ HandleLoadTxFilter(c, {A}, {}, reload)

RescanNext ==
    \/ \E b \in ToSet(chain), max \in {Inf} \cup DOMAIN chain, as \in {{A}, {S}, {A, S}}, ops \in {{}, {<<"t1", 2>>}} :
         StartRescan(c1, b, max, as, ops)
    \/ FetchRange \/ ScanBlock \/ Pause \/ LookAtBest \/ RegisterRescanned \/ RescanFinished

ChainNext ==
    \/ \E b \in Blocks, direct \in BOOLEAN : ConnectBlock(b, direct)
    \/ \E b \in Blocks : Reorganize(b)
    \/ NotificationHandler

MCNext ==
    \/ part = "websocket" /\ WebsocketNext /\ UNCHANGED <<notifyVars, part>>
    \/ part = "manager" /\ ManagerNext /\ UNCHANGED <<wsVars, part>>
    \/ part = "rescan" /\ RescanNext /\ UNCHANGED <<wsVars, part>>
    \/ part \in {"manager", "rescan"} /\ ChainNext /\ UNCHANGED <<wsVars, part>>

\* The goroutines of a client go on when they can; clients and the network
\* need not.
WebsocketFair ==
    /\ WF_wsVars(TakeNtfn) /\ WF_wsVars(TakeSent) /\ WF_wsVars(SendNtfn) /\ WF_wsVars(QuitNtfns)
    /\ WF_wsVars(TakeMessage) /\ WF_wsVars(WSWrite) /\ WF_wsVars(QuitOut)
    /\ WF_wsVars(ReplyAtOnce \/ QuitIn \/ \E s \in Servers : Acquire(s))
    /\ \A p \in Notifiers : WF_wsVars(PushNtfn(p))
    /\ \A t \in Servers : WF_wsVars(ServiceRequest(t))
    /\ WF_wsVars(WebsocketHandler)

Spec == MCInit /\ [][MCNext]_allVars /\ WebsocketFair

-----------------------------------------------------------------------------
Ntfns(q) == [i \in DOMAIN SelectSeq(q, LAMBDA r : r.DoneChan) |-> SelectSeq(q, LAMBDA r : r.DoneChan)[i].Msg]

OnTheWay ==
    Ntfns((IF outHandler.st = "write" THEN <<outHandler.r>> ELSE << >>) \o SendChan)
      \o (IF ntfnQueue.st \in {"check", "send"} THEN <<ntfnQueue.msg>> ELSE << >>)
      \o ntfnQueue.pendingNtfns \o NtfnChan

\* While a websocket client is connected, what QueueNotification took is
\* what was written to it and what is on the way, in order, through the
\* channel, the pending list and the send channel.
NtfnsKeepOrder == ~Disconnected => queued = received \o OnTheWay

\* A notifier that had seen the client before it went, and finds the channel
\* filled by another.
Stuck(p) == notifier[p].st = "push" /\ ntfnQueue.st = "done" /\ NtfnChan # << >> /\ NtfnChan[1][1] # p

\* QueueNotification returns, so that the manager goes on, unless the client
\* has gone and another notifier's message is left in its channel.
NotifierGoesOn == \A p \in Notifiers : notifier[p].st = "push" ~> (notifier[p].st # "push" \/ Stuck(p))

\* A client whose connection is gone is removed from the manager, unless a
\* rescan it had asked for is stuck and holds its place.
GoneIsRemoved == (Disconnected \/ lost) ~> (removed \/ \E s \in Servers : Stuck(s))

-----------------------------------------------------------------------------
\* What the manager's maps say of a client is what the client keeps for its
\* removal, through registrations, spends in blocks and outputs paid.
MapsAgree ==
    \A c \in Clients : /\ requested[c].ops = {op \in {p[1] : p \in maps.ops} : <<op, c>> \in maps.ops}
                       /\ requested[c].addrs = {a \in {p[1] : p \in maps.addrs} : <<a, c>> \in maps.addrs}

\* When a client is removed nothing of it stays with the manager, unless a
\* request it had made was served after that.
GoneAreForgotten ==
    \A c \in Clients : (c \notin maps.clients /\ left[c] = "queued") =>
        c \notin maps.blocks \cup maps.txs \cup {p[2] : p \in maps.ops} \cup {p[2] : p \in maps.addrs}

Scan(as, ops, bs) == FoldLeft(RescanBlock, [addrs |-> as, Unspent |-> ops, out |-> << >>], bs).out

Watch(as, ops, bs) ==
    FoldLeft(LAMBDA s, b : FoldLeft(LAMBDA t, tx : NotifyForTx(t, {}, tx, b), s, txsOf[b]),
             [ops |-> ops \X {c1}, addrs |-> as \X {c1}, told |-> [c \in Clients |-> << >>],
              requests |-> [c \in Clients |-> [ops |-> ops, addrs |-> as]]], bs).told[c1]

Filter(as, ops, bs) ==
    FoldLeft(LAMBDA s, b : LET r == RescanBlockFilter(s.f, b) IN [f |-> r.f, txs |-> s.txs \o r.txs],
             [f |-> [addrs |-> as, Unspent |-> ops], txs |-> << >>], bs).txs

\* A rescan, the requests registered with the manager and a transaction
\* filter find the same transactions of a chain for the same hashes and
\* outpoints.
ScansAgree ==
    (part = "rescan" /\ rescan.pc = "idle" /\ handled = 0) =>
        \A bs \in Branches, as \in SUBSET {A, S}, ops \in SUBSET {<<"t1", 1>>, <<"t1", 2>>} :
            /\ Watch(as, ops, bs) = Scan(as, ops, bs)
            /\ ToSet(Filter(as, ops, bs)) = {n.tx : n \in ToSet(Scan(as, ops, bs))}

\* The client of a rescan through the best block has been told, by the
\* rescan or by the requests it left, of every payment in the main chain
\* and of a spend of every output spent there, once the queue is empty:
\* unless a block came between the last look at the best block and the
\* registration.
Covered ==
    (rescan.pc = "done" /\ rescan.max = Inf /\ queue = << >>) =>
        LET said == ToSet(told[rescan.c])
        IN  \A n \in ToSet(Scan(rescan.keys.addrs, {}, SubSeq(chain, rescan.begin, Len(chain)))) :
              IF n.kind = "recvtx" THEN n \in said
              ELSE \E m \in said : m.kind = "redeemingtx" /\ Ins(m.tx) \cap Ins(n.tx) # {}

RescanIsComplete == ~raced => Covered

\* What a client is told is right and in order: through its own queues,
\* by the requests that the manager keeps for it, and by a rescan.
NotificationsAreRight == NtfnsKeepOrder /\ MapsAgree /\ GoneAreForgotten /\ ScansAgree /\ RescanIsComplete

\* A client that goes neither stops the manager nor stays in it.
ClientsComeAndGo == NotifierGoesOn /\ GoneIsRemoved

=============================================================================
