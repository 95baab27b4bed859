------------------------------ MODULE WsNotify ------------------------------
(***************************************************************************)
(* Who is told of which transaction (cmd/node/rpc/rpcwebsocket.go): the    *)
(* notification manager, which handles one message of its queue at a time, *)
(* the filters of clients, and the rescan of one client against a chain    *)
(* that moves.  What a client is told is the sequence of notifications its *)
(* QueueNotification takes (module WsClient has the way from there).       *)
(* An address is a record of its kind and key; an output is paid to one    *)
(* address; an outpoint is <<transaction, index>>.                         *)
(***************************************************************************)
EXTENDS Integers, Sequences, SequencesExt, FiniteSets

CONSTANTS
    Clients,
    Blocks, parentOf,   \* a tree of blocks; the parent of a first block is "genesis"
    txsOf,              \* per block, the sequence of its transactions
    Txs, insOf, outsOf, \* per transaction, its outpoints spent and the addresses it pays
    MaxInvPerMsg,
    MaxQueued           \* bound: messages the manager handles

ASSUME NotifyAssumption ==
    /\ parentOf \in [Blocks -> Blocks \cup {"genesis"}] /\ DOMAIN txsOf = Blocks
    /\ DOMAIN insOf = Txs /\ DOMAIN outsOf = Txs
    /\ MaxInvPerMsg \in Nat \ {0} /\ MaxQueued \in Nat

VARIABLES
    chain,          \* the main chain, from the first block on
    queue, handled, \* the manager's queue, and how many messages were put there
    pool,           \* the transactions of the memory pool
    maps,           \* what NotificationHandler keeps
    requested,      \* SpentRequests and AddrRequests of each client
    filters,        \* FilterData of each client
    told,           \* what each client was told
    left,           \* per client: "no", "queued" (RemoveClient), or "late" when a
                    \* request it still served was queued after that
    rescan,         \* the state of HandleRescan
    pause,          \* the block handler is not asked, "asked", or "held"
    raced           \* a block was connected between the last look and the registration

notifyVars == <<chain, queue, handled, pool, maps, requested, filters, told, left, rescan, pause, raced>>

-----------------------------------------------------------------------------
\* Addresses.  The string of a public key is that of its hash.
EncodeAddress(a) == IF a.kind = "pk" THEN [a EXCEPT !.kind = "pkh"] ELSE a

\* WSClientFilter.ExistsAddress, and the lookups of a rescan: a key is found
\* by its hash too.
ExistsAddress(addrs, a) == a \in addrs \/ EncodeAddress(a) \in addrs

Ntfn(k, tx, b) == [kind |-> k, tx |-> tx, block |-> b]
Matches(addrs, tx) == {<<tx, i>> : i \in {j \in DOMAIN outsOf[tx] : ExistsAddress(addrs, outsOf[tx][j])}}
Ins(tx) == ToSet(insOf[tx])
None == "none"

\* RescanBlock on one transaction, for the lookups [addrs, Unspent].
RescanTx(b, s, tx) ==
    LET spent == Ins(tx) \cap s.Unspent
        paid  == Matches(s.addrs, tx)
    IN  [s EXCEPT !.Unspent = (@ \ spent) \cup paid,
                  !.out = @ \o (IF spent # {} THEN <<Ntfn("redeemingtx", tx, b)>> ELSE << >>)
                            \o (IF paid # {} THEN <<Ntfn("recvtx", tx, b)>> ELSE << >>)]

RescanBlock(s, b) == FoldLeft(LAMBDA t, tx : RescanTx(b, t, tx), s, txsOf[b])

\* RescanBlockFilter, and GetSubscribedClients, which does the same for a
\* transaction and the filter of a client: [addrs, Unspent].
FilterTx(f, tx) ==
    [f EXCEPT !.Unspent = @ \cup Matches(f.addrs, tx)]

Subscribed(f, tx) == Ins(tx) \cap f.Unspent # {} \/ Matches(f.addrs, tx) # {}

RescanBlockFilter(f, b) ==
    FoldLeft(LAMBDA s, tx : [f |-> FilterTx(s.f, tx), txs |-> IF Subscribed(s.f, tx) THEN Append(s.txs, tx) ELSE s.txs],
             [f |-> f, txs |-> << >>], txsOf[b])

-----------------------------------------------------------------------------
\* The maps of the manager, with what is kept by the client and what it is
\* told: s is [ops, addrs, requests, told].
AddSpent(s, c, ops) ==
    [s EXCEPT !.ops = @ \cup (ops \X {c}), !.requests[c].ops = @ \cup ops]

RemoveSpentRequest(s, c, ops) ==
    [s EXCEPT !.ops = @ \ (ops \X {c}), !.requests[c].ops = @ \ ops]

RemoveAddrRequest(s, c, addrs) ==
    [s EXCEPT !.addrs = @ \ (addrs \X {c}), !.requests[c].addrs = @ \ addrs]

Tell(s, cs, n) == [s EXCEPT !.told = [c \in Clients |-> IF c \in cs THEN Append(@[c], n) ELSE @[c]]]

\* Watchers of what a transaction spends are told; in a block, the requests
\* are done with.
NotifyForTxIns(s, tx, b) ==
    LET cs == {c \in Clients : \E op \in Ins(tx) : <<op, c>> \in s.ops}
        t  == Tell(s, cs, Ntfn("redeemingtx", tx, b))
    IN  IF b = None THEN t ELSE FoldSet(LAMBDA c, u : RemoveSpentRequest(u, c, Ins(tx)), t, cs)

\* AddSpentRequests: transactions of the pool that spend them are told of at
\* once, to all who watch.
AddSpentRequests(s, mp, c, ops) ==
    FoldSet(LAMBDA tx, u : NotifyForTxIns(u, tx, None), AddSpent(s, c, ops),
            {tx \in mp : Ins(tx) \cap ops # {}})

\* Output by output and watcher by watcher (in one of the orders of a map),
\* the output is watched, and the watcher told of the transaction once.
NotifyForTxOuts(s, mp, tx, b) ==
    LET watch(i, c, u) ==
          LET t == AddSpentRequests(u.s, mp, c, {<<tx, i>>})
          IN  [s |-> IF c \in u.notified THEN t ELSE Tell(t, {c}, Ntfn("recvtx", tx, b)), notified |-> u.notified \cup {c}]
        output(u, i) ==
          FoldSet(LAMBDA c, v : watch(i, c, v), u, {c \in Clients : <<EncodeAddress(outsOf[tx][i]), c>> \in s.addrs})
    IN  FoldLeft(output, [s |-> s, notified |-> {}], [i \in DOMAIN outsOf[tx] |-> i]).s

NotifyForTx(s, mp, tx, b) == NotifyForTxOuts(NotifyForTxIns(s, tx, b), mp, tx, b)

\* NotifyRelevantTxAccepted, by the filters of the clients that have one.
WithFilter(cs, fs, tx) == {c \in cs : fs[c] # << >> /\ Subscribed(fs[c][1], tx)}

UpdatedFilters(cs, fs, tx) ==
    [c \in Clients |-> IF c \in cs /\ fs[c] # << >> THEN <<FilterTx(fs[c][1], tx)>> ELSE fs[c]]

\* NotifyBlockConnected and NotifyFilteredBlockConnected.
NotifyBlock(s, cs, fs, kind, b) ==
    LET relevant == FoldLeft(LAMBDA t, tx : [fs |-> UpdatedFilters(cs, t.fs, tx),
                                             txs |-> [c \in Clients |-> IF c \in WithFilter(cs, t.fs, tx)
                                                                        THEN Append(t.txs[c], tx) ELSE t.txs[c]]],
                             [fs |-> fs, txs |-> [c \in Clients |-> << >>]], txsOf[b])
        plain    == Tell(s, cs, Ntfn(kind, << >>, b))
    IN  IF kind = "blockdisconnected"
        THEN [s |-> Tell(plain, cs, Ntfn("filteredblockdisconnected", << >>, b)), fs |-> fs]
        ELSE [s |-> FoldSet(LAMBDA c, u : Tell(u, {c}, Ntfn("filteredblockconnected", relevant.txs[c], b)), plain, cs),
              fs |-> relevant.fs]

\* NotifyForNewTx goes through the clients in any order and leaves at the
\* first that wants the verbose form, telling neither it nor those after it.
\* The others are told twice, first with an empty message.
Reached(cs, verbose) == IF cs \cap verbose = {} THEN {cs} ELSE SUBSET (cs \ verbose)
NotifyForNewTx(s, cs, tx) == Tell(Tell(s, cs, Ntfn("empty", tx, None)), cs, Ntfn("txaccepted", tx, None))

-----------------------------------------------------------------------------
NewWSNotificationManager ==
    /\ queue = << >> /\ handled = 0 /\ pool = {}
    /\ maps = [clients |-> Clients, blocks |-> {}, txs |-> {}, verbose |-> {}, ops |-> {}, addrs |-> {}]
    /\ requested = [c \in Clients |-> [ops |-> {}, addrs |-> {}]]
    /\ filters = [c \in Clients |-> << >>] /\ told = [c \in Clients |-> << >>]
    /\ left = [c \in Clients |-> "no"]
    /\ rescan = [pc |-> "idle"] /\ pause = "no" /\ raced = FALSE

\* QueueHandler keeps the order.
Enqueue(msg) == queue' = Append(queue, msg) /\ handled' = handled + 1

Height(b) == CHOOSE i \in DOMAIN chain : chain[i] = b
Tip == IF chain = << >> THEN "genesis" ELSE chain[Len(chain)]

\* SendNotifyBlockConnected and SendNotifyBlockDisconnected.  While the
\* block handler is held only a block of getwork is connected.
ConnectBlock(b, direct) ==
    /\ parentOf[b] = Tip /\ handled < MaxQueued
    /\ pause = "held" => direct
    /\ chain' = Append(chain, b) /\ pool' = pool \ ToSet(txsOf[b])
    /\ Enqueue([type |-> "connected", b |-> b])
    /\ raced' = (raced \/ rescan.pc \in {"spent", "addrs"})
    /\ UNCHANGED <<maps, requested, filters, told, left, rescan, pause>>

\* A reorganization to b, one block after the fork.
Reorganize(b) ==
    /\ chain # << >> /\ b # Tip /\ parentOf[b] = parentOf[Tip] /\ pause # "held" /\ handled + 1 < MaxQueued
    /\ chain' = [chain EXCEPT ![Len(chain)] = b] /\ pool' = pool \ ToSet(txsOf[b])
    /\ queue' = queue \o <<[type |-> "disconnected", b |-> Tip], [type |-> "connected", b |-> b]>>
    /\ handled' = handled + 2
    /\ raced' = (raced \/ rescan.pc \in {"spent", "addrs"})
    /\ UNCHANGED <<maps, requested, filters, told, left, rescan, pause>>

\* SendNotifyMempoolTx.
AcceptTx(tx, isNew) ==
    /\ handled < MaxQueued /\ tx \notin pool
    /\ \A i \in DOMAIN chain : tx \notin ToSet(txsOf[chain[i]])
    /\ pool' = pool \cup {tx}
    /\ Enqueue([type |-> "tx", tx |-> tx, isNew |-> isNew])
    /\ UNCHANGED <<chain, maps, requested, filters, told, left, rescan, pause, raced>>

\* The handlers of requests each put one message in the queue.  A goroutine
\* that serves a request may do so after the client has left.  The flag of a
\* client for verbose notifications is set before.
Request(c, msg) ==
    /\ handled < MaxQueued
    /\ msg.c = c /\ Enqueue(msg)
    /\ maps' = IF msg.type # "notifynewtransactions" THEN maps
               ELSE [maps EXCEPT !.verbose = IF msg.verbose THEN @ \cup {c} ELSE @ \ {c}]
    /\ left' = IF left[c] = "no" THEN left ELSE [left EXCEPT ![c] = "late"]
    /\ UNCHANGED <<chain, pool, requested, filters, told, rescan, pause, raced>>

RemoveClient(c) ==
    /\ left[c] = "no" /\ handled < MaxQueued
    /\ left' = [left EXCEPT ![c] = "queued"]
    /\ Enqueue([type |-> "unregister", c |-> c])
    /\ UNCHANGED <<chain, pool, maps, requested, filters, told, rescan, pause, raced>>

\* HandleLoadTxFilter does not go through the queue.
HandleLoadTxFilter(c, addrs, ops, reload) ==
    /\ left[c] = "no"
    /\ filters' = [filters EXCEPT ![c] =
           <<IF reload \/ @ = << >> THEN [addrs |-> addrs, Unspent |-> ops]
             ELSE [addrs |-> @[1].addrs \cup addrs, Unspent |-> @[1].Unspent \cup ops]>>]
    /\ UNCHANGED <<chain, queue, handled, pool, maps, requested, told, left, rescan, pause, raced>>

-----------------------------------------------------------------------------
\* NotificationHandler.  QueueNotification tells nobody who has left; here
\* that is what is cut off at the end.
State == [ops |-> maps.ops, addrs |-> maps.addrs, requests |-> requested, told |-> told]

Result(s, more) ==
    /\ maps' = [more EXCEPT !.ops = s.ops, !.addrs = s.addrs] /\ requested' = s.requests
    /\ told' = [c \in Clients |-> IF left[c] = "no" THEN s.told[c] ELSE told[c]]

HandleBlock(msg) ==
    LET s == IF msg.type = "disconnected" \/ (maps.ops = {} /\ maps.addrs = {}) THEN State
             ELSE FoldLeft(LAMBDA t, tx : NotifyForTx(t, pool, tx, msg.b), State, txsOf[msg.b])
        n == NotifyBlock(s, maps.blocks, filters,
                         IF msg.type = "connected" THEN "blockconnected" ELSE "blockdisconnected", msg.b)
    IN  IF maps.blocks = {} THEN Result(s, maps) /\ UNCHANGED filters ELSE Result(n.s, maps) /\ filters' = n.fs

HandleTx(msg) ==
    \E cs \in (IF msg.isNew THEN Reached(maps.txs, maps.verbose) ELSE {{}}) :
      LET s == NotifyForTx(NotifyForNewTx(State, cs, msg.tx), pool, msg.tx, None)
      IN  /\ Result(Tell(s, WithFilter(maps.clients, filters, msg.tx), Ntfn("relevanttxaccepted", msg.tx, None)), maps)
          /\ filters' = UpdatedFilters(maps.clients, filters, msg.tx)

UnregisterClient(c) ==
    Result(RemoveAddrRequest(RemoveSpentRequest(State, c, requested[c].ops), c, requested[c].addrs),
           [maps EXCEPT !.clients = @ \ {c}, !.blocks = @ \ {c}, !.txs = @ \ {c}])

HandleRequest(msg) ==
    CASE msg.type = "notifyblocks"     -> Result(State, [maps EXCEPT !.blocks = @ \cup {msg.c}])
      [] msg.type = "stopnotifyblocks" -> Result(State, [maps EXCEPT !.blocks = @ \ {msg.c}])
      [] msg.type = "notifynewtransactions" -> Result(State, [maps EXCEPT !.txs = @ \cup {msg.c}])
      [] msg.type = "stopnotifynewtransactions" -> Result(State, [maps EXCEPT !.txs = @ \ {msg.c}])
      [] msg.type = "notifyspent"      -> Result(AddSpentRequests(State, pool, msg.c, msg.ops), maps)
      [] msg.type = "stopnotifyspent"  -> Result(RemoveSpentRequest(State, msg.c, msg.ops), maps)
      [] msg.type = "notifyreceived"   ->
           Result([State EXCEPT !.addrs = @ \cup (msg.as \X {msg.c}), !.requests[msg.c].addrs = @ \cup msg.as], maps)
      [] msg.type = "stopnotifyreceived" -> Result(RemoveAddrRequest(State, msg.c, msg.as), maps)
      [] msg.type = "unregister"       -> UnregisterClient(msg.c)

NotificationHandler ==
    /\ queue # << >>
    /\ LET msg == Head(queue)
       IN  CASE msg.type \in {"connected", "disconnected"} -> HandleBlock(msg)
             [] msg.type = "tx" -> HandleTx(msg)
             [] OTHER -> HandleRequest(msg) /\ UNCHANGED filters
    /\ queue' = Tail(queue)
    /\ UNCHANGED <<chain, handled, pool, left, rescan, pause, raced>>

-----------------------------------------------------------------------------
\* HandleRescan, from a block of the main chain to the one of height `max`,
\* which it does not include, or through the best block (Inf).
Inf == 1000
others == <<pool, maps, requested, filters, left>>

StartRescan(c, begin, max, addrs, ops) ==
    /\ rescan.pc = "idle"
    /\ rescan' = [pc |-> "fetch", c |-> c, begin |-> Height(begin), min |-> Height(begin), max |-> max, last |-> None,
                  list |-> << >>, i |-> 1, keys |-> [addrs |-> addrs, Unspent |-> ops, out |-> << >>]]
    /\ UNCHANGED <<chain, queue, handled, told, others, pause, raced>>

\* HeightRange: the end is not included.
HeightRange(a, b) == SubSeq(chain, a, IF b > Len(chain) + 1 THEN Len(chain) ELSE b - 1)

FetchRange ==
    /\ rescan.pc = "fetch"
    /\ LET max  == IF rescan.max - rescan.min > MaxInvPerMsg THEN rescan.min + MaxInvPerMsg ELSE rescan.max
           list == HeightRange(rescan.min, max)
           pc   == IF rescan.min >= rescan.max \/ (list = << >> /\ rescan.max # Inf) THEN "finish"
                   ELSE IF list = << >> THEN "pause" ELSE "loop"
       IN  rescan' = [rescan EXCEPT !.pc = pc, !.list = list, !.i = 1]
    /\ UNCHANGED <<chain, queue, handled, told, others, pause, raced>>

DescendantBlock(prev, b) == parentOf[b] = prev

\* One block.  That it is no longer in the main chain is no error of the
\* database, so the rescan ends with it.
ScanBlock ==
    /\ rescan.pc = "loop"
    /\ LET b == rescan.list[rescan.i]
           s == RescanBlock([rescan.keys EXCEPT !.out = << >>], b)
       IN  IF rescan.i > Len(rescan.list)
           THEN /\ rescan' = [rescan EXCEPT !.pc = "fetch", !.min = @ + Len(rescan.list)]
                /\ UNCHANGED told
           ELSE IF b \notin ToSet(chain) \/ (rescan.i = 1 /\ rescan.last # None /\ ~DescendantBlock(rescan.last, b))
           THEN rescan' = [rescan EXCEPT !.pc = "error"] /\ UNCHANGED told
           ELSE /\ rescan' = [rescan EXCEPT !.keys = s, !.last = b, !.i = @ + 1]
                /\ told' = [told EXCEPT ![rescan.c] = @ \o s.out]
    /\ UNCHANGED <<chain, queue, handled, others, pause, raced>>

\* Pause puts its message in the channel of the block handler and returns;
\* the handler is held when it comes to it.
Pause ==
    /\ \/ rescan.pc = "pause" /\ pause' = "asked" /\ rescan' = [rescan EXCEPT !.pc = "best"]
       \/ pause = "asked" /\ pause' = "held" /\ UNCHANGED rescan
    /\ UNCHANGED <<chain, queue, handled, told, others, raced>>

\* A mutant: whatever the best block is, the rescan is through.
AnyBest ==
    /\ rescan.pc = "best"
    /\ rescan' = [rescan EXCEPT !.pc = "spent"] /\ UNCHANGED pause
    /\ UNCHANGED <<chain, queue, handled, told, others, raced>>

LookAtBest ==
    /\ rescan.pc = "best"
    /\ IF rescan.last \in {None, Tip}
       THEN rescan' = [rescan EXCEPT !.pc = "spent"] /\ UNCHANGED pause
       ELSE rescan' = [rescan EXCEPT !.pc = "fetch"] /\ pause' = "no"
    /\ UNCHANGED <<chain, queue, handled, told, others, raced>>

\* The two registrations; after them the handler is let go.
RegisterRescanned ==
    /\ \/ /\ rescan.pc = "spent" /\ Enqueue([type |-> "notifyspent", c |-> rescan.c, ops |-> rescan.keys.Unspent])
          /\ rescan' = [rescan EXCEPT !.pc = "addrs"] /\ UNCHANGED pause
       \/ /\ rescan.pc = "addrs" /\ Enqueue([type |-> "notifyreceived", c |-> rescan.c, as |-> rescan.keys.addrs])
          /\ rescan' = [rescan EXCEPT !.pc = "finish"] /\ pause' = "no"
    /\ UNCHANGED <<chain, told, others, raced>>

\* The notification names the last block; there is none when nothing was
\* scanned.
RescanFinished ==
    /\ rescan.pc = "finish"
    /\ rescan' = [rescan EXCEPT !.pc = IF rescan.last = None THEN "nothing" ELSE "done"]
    /\ UNCHANGED <<chain, queue, handled, told, others, pause, raced>>

=============================================================================
