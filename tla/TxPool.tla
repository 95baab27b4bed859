------------------------------- MODULE TxPool -------------------------------
(***************************************************************************)
(* TxPool of cmd/node/mempool on top of a main chain that moves under it.  *)
(*                                                                         *)
(* The chain is the Ledger that BlockChain implements; it stops where      *)
(* Ledger promises nothing any more, at a block that repeats a coinbase of *)
(* the chain it extends.  Three goroutines use the pool: the block handler *)
(* of the sync manager, which processes the transactions of peers and, in  *)
(* between, blocks, whose notifications it handles one pool call at a      *)
(* time; the RPC server (sendrawtransaction) and the server's peer handler *)
(* (RemoveOrphansByTag).  Every call of the pool holds mp.mtx, so it is    *)
(* one step, except processOrphans: that holds mp.mtx too, but reads the   *)
(* chain once per output, so it is one step per output, and the chain may  *)
(* move in between.                                                        *)
(*                                                                         *)
(* No transaction is too large for the orphan pool, every one pays the     *)
(* relay fee, and the rest of policy, sanity and scripts is a property of  *)
(* a transaction: Clean for the checks before its inputs are fetched,      *)
(* ScriptsOK for those after.  How old an orphan is, is left open.         *)
(***************************************************************************)
EXTENDS Ledger

CONSTANTS
    Txs,            \* the transactions that can be submitted
    Clean,          \* ... that pass the checks that need no inputs
    ScriptsOK,      \* ... that pass those that do
    Peers,          \* the tags of orphans
    MaxOrphanTxs,   \* Policy.MaxOrphanTxs
    NoTx

(* A transaction without inputs, as a coinbase is, is turned away before   *)
(* its inputs are looked at (CheckTransactionSanity, IsCoinBase).          *)
ASSUME TxPoolAssumption ==
    /\ Txs \subseteq DOMAIN TxIn /\ IsFiniteSet(Txs)
    /\ \A b \in Blocks : \A i \in Positions(b) : i > 1 => BlockTxs[b][i] \in Txs
    /\ \A t \in Clean : TxIn[t] # {}
    /\ MaxOrphanTxs \in Nat
    /\ NoTx \notin Txs

VARIABLES
    pool,           \* mp.pool
    outpoints,      \* mp.outpoints: the pool transaction that spends an output
    txOrphans,      \* mp.orphans
    tag,            \* orphanTx.tag
    orphansByPrev,  \* mp.orphansByPrev
    mtx,            \* who is inside processOrphans: "free", "handler" or "rpc"
    processList,    \* processOrphans: the transactions to process,
    outsLeft,       \*   the outputs of the first one still to look at,
    acceptedTxns,   \*   and the accepted ones
    step,           \* the next pool call of the notification being handled
    todo            \* the transactions it still has to handle

poolStateVars == <<pool, outpoints, txOrphans, tag, orphansByPrev>>
loopVars == <<mtx, processList, outsLeft, acceptedTxns>>
handlerVars == <<step, todo>>
txPoolVars == <<ledgerVars, poolStateVars, loopVars, handlerVars>>

TxPoolInit ==
    /\ LedgerInit
    /\ pool = {} /\ outpoints = [o \in Outputs |-> NoTx]
    /\ txOrphans = {} /\ tag = [t \in Txs |-> NoTx]
    /\ orphansByPrev = [o \in Outputs |-> {}]
    /\ mtx = "free" /\ processList = <<>> /\ outsLeft = {} /\ acceptedTxns = {}
    /\ step = "idle" /\ todo = <<>>

-----------------------------------------------------------------------------
(* What maybeAcceptTransaction makes of a transaction.                     *)

isOrphanInPool(t) == t \in txOrphans
isTransactionInPool(t) == t \in pool

checkPoolDoubleSpend(t) == \A o \in TxIn[t] : outpoints[o] = NoTx

(* fetchInputUtxos: the chain first, then the outputs of the pool.         *)
InputFound(o) == Unspent(coins, o) \/ \E s \in pool : o \in TxOut[s]

AlreadyExists(t) == \E o \in TxOut[t] : Unspent(coins, o)

MatureInputs(t) ==
    \A o \in TxIn[t] : Unspent(coins, o) /\ coins[o].coinbase =>
        Height[best] + 1 - coins[o].height >= CoinbaseMaturity

maybeAcceptTransaction(t, rejectDupOrphans) ==
    IF \/ isTransactionInPool(t) \/ (rejectDupOrphans /\ isOrphanInPool(t))
       \/ t \notin Clean \/ ~checkPoolDoubleSpend(t) \/ AlreadyExists(t)
    THEN "error"
    ELSE IF \E o \in TxIn[t] : ~InputFound(o) THEN "missing"
    ELSE IF MatureInputs(t) /\ t \in ScriptsOK THEN "accept" ELSE "error"

-----------------------------------------------------------------------------
(* The two pools and their indexes.  A transaction is removed with all     *)
(* that redeem its outputs, and so on: one level per transaction at most.  *)

Closure(RedeemersOf(_), txs) ==
    LET below[n \in 0..Cardinality(Txs)] ==
            IF n = 0 THEN {} ELSE UNION {RedeemersOf(t) : t \in txs \cup below[n - 1]}
    IN  txs \cup below[Cardinality(Txs)]

Spends(t, o) == o \in TxIn[t]

addTransaction(t) ==
    /\ pool' = pool \cup {t}
    /\ outpoints' = [o \in Outputs |-> IF Spends(t, o) THEN t ELSE outpoints[o]]

(* removeTransaction on each of txs.                                       *)
RemoveKeepsOutpoints(txs) == pool' = pool \ txs /\ UNCHANGED outpoints   \* mutant

RemoveTxs(txs) ==
    /\ pool' = pool \ txs
    /\ outpoints' = [o \in Outputs |->
                        IF \E t \in txs \cap pool : Spends(t, o) THEN NoTx ELSE outpoints[o]]

(* removeTransaction(t, removeRedeemers) follows mp.outpoints from t,      *)
(* whether t itself is in the pool or not.                                 *)
SpentBy(outs) == {outpoints[o] : o \in outs} \ {NoTx}

WithRedeemers(txs) == Closure(LAMBDA t : SpentBy(TxOut[t]), txs)

Dependents(t, removeRedeemers) == IF removeRedeemers THEN WithRedeemers({t}) ELSE {t}

(* The orphan pool without the orphans in gone and with those in added,    *)
(* and removeOrphan with its redeemers: nothing unless it is an orphan.    *)
OrphansSpending(outs) == UNION {orphansByPrev[o] : o \in outs}

OrphanRedeemers(txs) ==
    Closure(LAMBDA t : OrphansSpending(TxOut[t]), txs \cap txOrphans)

SetOrphansKeepsIndex(gone, added, from) ==   \* mutant: orphansByPrev is not cleaned up
    /\ txOrphans' = (txOrphans \ gone) \cup added
    /\ tag' = [t \in Txs |-> IF t \in added THEN from ELSE IF t \in gone THEN NoTx ELSE tag[t]]
    /\ orphansByPrev' = [o \in Outputs |-> orphansByPrev[o] \cup {t \in added : Spends(t, o)}]

SetOrphans(gone, added, from) ==
    /\ txOrphans' = (txOrphans \ gone) \cup added
    /\ tag' = [t \in Txs |-> IF t \in added THEN from ELSE IF t \in gone THEN NoTx ELSE tag[t]]
    /\ orphansByPrev' = [o \in Outputs |->
          (orphansByPrev[o] \ gone) \cup {t \in added : Spends(t, o)}]

(* limitNumOrphans: the scan drops expired orphans with their redeemers;   *)
(* if there is still no room, any one goes, without its redeemers.         *)
limitNumOrphans(kept, evicted) ==
    IF Cardinality(kept) + 1 <= MaxOrphanTxs THEN evicted = {}
    ELSE \E t \in kept : evicted = {t}

addOrphan(t, from) ==
    IF MaxOrphanTxs = 0 THEN UNCHANGED <<txOrphans, tag, orphansByPrev>>
    ELSE \E expired \in SUBSET txOrphans : \E evicted \in SUBSET txOrphans :
            LET gone == OrphanRedeemers(expired)
            IN  /\ limitNumOrphans(txOrphans \ gone, evicted)
                /\ SetOrphans(gone \cup evicted, {t}, from)

-----------------------------------------------------------------------------
(* The calls of the pool.                                                  *)

(* processOrphans begins on t; who holds mp.mtx until it is done.          *)
BeginProcessOrphans(t, who) ==
    /\ mtx' = who /\ processList' = <<t>> /\ outsLeft' = TxOut[t] /\ acceptedTxns' = {t}

(* ProcessTransaction.  The block handler allows orphans, the RPC server   *)
(* does not; a transaction that is turned away changes nothing.            *)
ProcessTransaction(t, who) ==
    /\ mtx = "free"
    /\ maybeAcceptTransaction(t, TRUE) = "accept"
    /\ addTransaction(t)
    /\ BeginProcessOrphans(t, who)
    /\ UNCHANGED <<ledgerVars, txOrphans, tag, orphansByPrev, handlerVars>>

handleTxMsg(t) == step = "idle" /\ ProcessTransaction(t, "handler")

handleSendRawTransaction(t) == ProcessTransaction(t, "rpc")

handleOrphanTx(t, p) ==
    /\ step = "idle" /\ mtx = "free"
    /\ maybeAcceptTransaction(t, TRUE) = "missing"
    /\ addOrphan(t, p)
    /\ UNCHANGED <<ledgerVars, pool, outpoints, loopVars, handlerVars>>

(* processOrphans on one output: of the orphans that spend it, in any      *)
(* order, those that still miss an input are passed over, and the first    *)
(* other one ends the search: it is accepted, or it is removed.            *)
OrphanResult(t) == maybeAcceptTransaction(t, FALSE)

OrphanAcceptedKept(o) ==   \* mutant: the orphan stays in the orphan pool
    \E t \in orphansByPrev[o] :
        /\ OrphanResult(t) = "accept"
        /\ addTransaction(t)
        /\ UNCHANGED <<txOrphans, tag, orphansByPrev>>
        /\ processList' = Append(processList, t)
        /\ acceptedTxns' = acceptedTxns \cup {t}

OrphanAccepted(o) ==
    \E t \in orphansByPrev[o] :
        /\ OrphanResult(t) = "accept"
        /\ addTransaction(t)
        /\ SetOrphans({t}, {}, NoTx)
        /\ processList' = Append(processList, t)
        /\ acceptedTxns' = acceptedTxns \cup {t}

OrphanRefused(o) ==
    \E t \in orphansByPrev[o] :
        /\ OrphanResult(t) = "error"
        /\ SetOrphans(OrphanRedeemers({t}), {}, NoTx)
        /\ UNCHANGED <<pool, outpoints, processList, acceptedTxns>>

NoOrphanReady(o) ==
    /\ \A t \in orphansByPrev[o] : OrphanResult(t) = "missing"
    /\ UNCHANGED <<poolStateVars, processList, acceptedTxns>>

ProcessOutput ==
    /\ mtx # "free"
    /\ \E o \in outsLeft :
          /\ OrphanAccepted(o) \/ OrphanRefused(o) \/ NoOrphanReady(o)
          /\ outsLeft' = outsLeft \ {o}
    /\ UNCHANGED <<ledgerVars, mtx, handlerVars>>

NextProcessItem ==
    /\ mtx # "free"
    /\ outsLeft = {} /\ Len(processList) > 1
    /\ processList' = Tail(processList)
    /\ outsLeft' = TxOut[processList[2]]
    /\ UNCHANGED <<ledgerVars, poolStateVars, mtx, acceptedTxns, handlerVars>>

(* ... and at its end removeOrphanDoubleSpends.                            *)
EndProcessOrphans ==
    /\ mtx # "free"
    /\ outsLeft = {} /\ Len(processList) = 1
    /\ SetOrphans(OrphanRedeemers(OrphansSpending(UNION {TxIn[t] : t \in acceptedTxns})),
                  {}, NoTx)
    /\ mtx' = "free" /\ processList' = <<>> /\ acceptedTxns' = {}
    /\ UNCHANGED <<ledgerVars, pool, outpoints, outsLeft, handlerVars>>

RemoveOrphansByTag(p) ==
    /\ mtx = "free"
    /\ SetOrphans(OrphanRedeemers({t \in txOrphans : tag[t] = p}), {}, NoTx)
    /\ UNCHANGED <<ledgerVars, pool, outpoints, loopVars, handlerVars>>

-----------------------------------------------------------------------------
(* The chain moves, and handleBlockchainNotification goes through the      *)
(* transactions of the block, the coinbase excepted.                       *)

Notify(b, first) ==
    /\ todo' = Tail(BlockTxs[b])
    /\ step' = IF Tail(BlockTxs[b]) = <<>> THEN "idle" ELSE first

NextTx(first) ==
    /\ todo' = Tail(todo)
    /\ step' = IF Tail(todo) = <<>> THEN "idle" ELSE first

BlockConnected ==
    /\ step = "idle" /\ mtx # "handler" /\ ~repeated
    /\ Extend
    /\ repeated' = ~CoinbasesDiffer(Ancestors[best'])
    /\ Notify(best', "remove")
    /\ UNCHANGED <<poolStateVars, loopVars>>

BlockDisconnected ==
    /\ step = "idle" /\ mtx # "handler" /\ ~repeated
    /\ Rewind
    /\ UNCHANGED repeated
    /\ Notify(best, "reinsert")
    /\ UNCHANGED <<poolStateVars, loopVars>>

RemoveTransaction ==
    /\ step = "remove" /\ mtx = "free"
    /\ RemoveTxs(Dependents(Head(todo), FALSE))
    /\ step' = "doubleSpends"
    /\ UNCHANGED <<ledgerVars, txOrphans, tag, orphansByPrev, loopVars, todo>>

NoRemoveDoubleSpends ==   \* mutant: RemoveDoubleSpends is not called
    /\ step = "doubleSpends" /\ mtx = "free"
    /\ step' = "removeOrphan"
    /\ UNCHANGED <<ledgerVars, poolStateVars, loopVars, todo>>

RemoveDoubleSpends ==
    /\ step = "doubleSpends" /\ mtx = "free"
    /\ RemoveTxs(WithRedeemers(SpentBy(TxIn[Head(todo)]) \ {Head(todo)}))
    /\ step' = "removeOrphan"
    /\ UNCHANGED <<ledgerVars, txOrphans, tag, orphansByPrev, loopVars, todo>>

RemoveOrphan ==
    /\ step = "removeOrphan" /\ mtx = "free"
    /\ SetOrphans({Head(todo)}, {}, NoTx)
    /\ step' = "process"
    /\ UNCHANGED <<ledgerVars, pool, outpoints, loopVars, todo>>

NeverDone ==   \* mutant: the handler starts over with the same transaction
    /\ step = "process" /\ mtx = "free"
    /\ BeginProcessOrphans(Head(todo), "handler")
    /\ step' = "remove"
    /\ UNCHANGED <<ledgerVars, poolStateVars, todo>>

ProcessOrphans ==
    /\ step = "process" /\ mtx = "free"
    /\ BeginProcessOrphans(Head(todo), "handler")
    /\ NextTx("remove")
    /\ UNCHANGED <<ledgerVars, poolStateVars>>

(* A transaction of a disconnected block goes back into the pool.  If it   *)
(* is refused with an error, those that depend on it are removed; nothing  *)
(* happens if one of its inputs is missing.                                *)
Reinsert ==
    /\ step = "reinsert" /\ mtx = "free"
    /\ LET t == Head(todo)
           result == maybeAcceptTransaction(t, TRUE)
       IN  \/ result = "accept" /\ addTransaction(t)
           \/ result = "missing" /\ UNCHANGED <<pool, outpoints>>
           \/ result = "error" /\ RemoveTxs(Dependents(t, TRUE))
    /\ NextTx("reinsert")
    /\ UNCHANGED <<ledgerVars, txOrphans, tag, orphansByPrev, loopVars>>

-----------------------------------------------------------------------------

Handler == RemoveTransaction \/ RemoveDoubleSpends \/ RemoveOrphan \/ ProcessOrphans \/ Reinsert

Loop == ProcessOutput \/ NextProcessItem \/ EndProcessOrphans

TxPoolNext ==
    \/ \E t \in Txs : handleTxMsg(t) \/ handleSendRawTransaction(t)
                      \/ \E p \in Peers : handleOrphanTx(t, p)
    \/ \E p \in Peers : RemoveOrphansByTag(p)
    \/ BlockConnected \/ BlockDisconnected
    \/ Handler \/ Loop

(* A goroutine that has begun a call or a notification goes on with it.    *)
TxPoolSpec ==
    /\ TxPoolInit /\ [][TxPoolNext]_txPoolVars
    /\ WF_txPoolVars(Handler) /\ WF_txPoolVars(Loop)

-----------------------------------------------------------------------------

(* The types of the fields of TxPool and of the handler's locals.          *)
TxPoolTypeOK ==
    /\ pool \subseteq Txs
    /\ outpoints \in [Outputs -> Txs \cup {NoTx}]
    /\ txOrphans \subseteq Txs
    /\ tag \in [Txs -> Peers \cup {NoTx}]
    /\ orphansByPrev \in [Outputs -> SUBSET Txs]
    /\ mtx \in {"free", "handler", "rpc"}
    /\ processList \in Seq(Txs) /\ outsLeft \subseteq Outputs /\ acceptedTxns \subseteq Txs
    /\ step \in {"idle", "remove", "doubleSpends", "removeOrphan", "process", "reinsert"}
    /\ todo \in Seq(Txs)
    /\ best \in Blocks

(* The pool never holds a double spend: mp.outpoints names the one pool    *)
(* transaction that spends an output, whichever way transactions came in   *)
(* and went out.                                                           *)
OutpointsMatchPool ==
    /\ \A t \in pool : \A o \in TxIn[t] : outpoints[o] = t
    /\ \A o \in Outputs : outpoints[o] # NoTx => outpoints[o] \in pool /\ Spends(outpoints[o], o)

(* mp.orphansByPrev lists exactly the orphans that spend an output, after  *)
(* expiry, eviction, recursive removal and acceptance.                     *)
OrphanIndexMatches ==
    \A o \in Outputs : orphansByPrev[o] = {t \in txOrphans : Spends(t, o)}

(* The orphan pool respects Policy.MaxOrphanTxs (limitNumOrphans).         *)
OrphansBounded == Cardinality(txOrphans) <= MaxOrphanTxs

(* No transaction is in both pools (processOrphans moves, never copies).   *)
PoolsDisjoint == pool \cap txOrphans = {}

(* The pool does not contradict the chain: a pool transaction is in the    *)
(* main chain, or spends what a transaction of the main chain spends, only *)
(* as long as the notification for that transaction is still to be         *)
(* handled.  The RPC server may add to the pool at any moment in between.  *)
(* A coinbase that is repeated makes outputs of the chain that are spent   *)
(* unspent once more: then the pool may hold what spends them again.       *)
ChainTxs ==
    UNION {{BlockTxs[b][i] : i \in Positions(b) \ {1}} : b \in Ancestors[best] \ {Genesis}}

PendingTxs ==
    CASE step \in {"remove", "doubleSpends"} -> {todo[i] : i \in DOMAIN todo}
      [] step \in {"removeOrphan", "process"} -> {todo[i] : i \in DOMAIN todo \ {1}}
      [] OTHER -> {}

AgreesWithChain ==
    ~repeated =>
        \A u \in ChainTxs \ PendingTxs : \A t \in pool : t # u /\ TxIn[t] \cap TxIn[u] = {}

(* A notification is handled to its end, although the RPC server competes  *)
(* for the lock of the pool.                                               *)
NotificationHandled == step # "idle" ~> step = "idle"

=============================================================================
