----------------------------- MODULE PoolProofs -----------------------------
(***************************************************************************)
(* The memory pool and the pool of orphan blocks, each on its own.         *)
(*                                                                         *)
(* For every block tree, every set of transactions and peers and every     *)
(* limit on orphans: the maps of TxPool stay consistent.  The pool holds   *)
(* no double spend, mp.outpoints and mp.orphansByPrev are exact indexes of *)
(* the two pools, no transaction is in both, and the orphan pool respects  *)
(* Policy.MaxOrphanTxs, whichever way the three goroutines interleave and  *)
(* however the main chain moves.                                           *)
(*                                                                         *)
(* Removal is proved for an arbitrary set of transactions, so nothing      *)
(* depends on how far removeTransaction and removeOrphan recurse.  And     *)
(* between two notifications the pool and the chain agree: no transaction  *)
(* of the pool spends what the main chain has spent.                       *)
(*                                                                         *)
(* For every set of orphans, every limit and every lifetime: the pool of   *)
(* orphan blocks exceeds maxOrphanBlocks by one at most, its two maps hold *)
(* the same orphans, in the order they arrived, and the pointer to the     *)
(* oldest orphan, stale or not, is never younger than a pooled one.        *)
(*                                                                         *)
(* Neither bound is inductive alone.  The eviction by addOrphanBlock can   *)
(* be a no-op only while the pointer is stale, and then the pool is not    *)
(* over the limit yet (OvershootClearsPointer); the pointer stays the      *)
(* oldest, and the slices of prevOrphans sorted, because no expiration is  *)
(* later than one hour from now.                                           *)
(***************************************************************************)
EXTENDS TxPool, OrphanPool, UtxoProofs, SequenceTheorems

(* The handler has a transaction in its hands whenever it is not idle.     *)
HandlerBusy == step # "idle" => todo # <<>>

(* The parts of the invariant: the pool, the orphan pool, the locals of    *)
(* processOrphans and those of the handler.                                *)
PoolOK ==
    /\ pool \subseteq Txs
    /\ outpoints \in [Outputs -> Txs \cup {NoTx}]
    /\ OutpointsMatchPool

OrphansOK ==
    /\ txOrphans \subseteq Txs
    /\ tag \in [Txs -> Peers \cup {NoTx}]
    /\ orphansByPrev \in [Outputs -> SUBSET Txs]
    /\ OrphanIndexMatches
    /\ OrphansBounded

LoopOK ==
    /\ mtx \in {"free", "handler", "rpc"}
    /\ processList \in Seq(Txs) /\ outsLeft \subseteq Outputs /\ acceptedTxns \subseteq Txs

HandlerOK ==
    /\ step \in {"idle", "remove", "doubleSpends", "removeOrphan", "process", "reinsert"}
    /\ todo \in Seq(Txs)
    /\ HandlerBusy

(* The inductive invariant.                                                *)
TxPoolInv ==
    PoolOK /\ OrphansOK /\ LoopOK /\ HandlerOK /\ best \in Blocks /\ PoolsDisjoint

(* Every transaction that can be submitted has its inputs and outputs      *)
(* among Outputs, and is not NoTx.                                         *)
LEMMA TxFacts ==
    ASSUME NEW t \in Txs
    PROVE  TxIn[t] \subseteq Outputs /\ TxOut[t] \subseteq Outputs /\ t # NoTx
  BY TxPoolAssumption, TxAssumption

(* A step that leaves the pool alone.                                      *)
LEMMA PoolStutters ==
    ASSUME PoolOK, UNCHANGED <<pool, outpoints>>
    PROVE  PoolOK'
  BY DEF PoolOK, OutpointsMatchPool

(* A step that leaves the orphan pool alone.                               *)
LEMMA OrphansStutter ==
    ASSUME OrphansOK, UNCHANGED <<txOrphans, tag, orphansByPrev>>
    PROVE  OrphansOK'
  BY DEF OrphansOK, OrphanIndexMatches, OrphansBounded

-----------------------------------------------------------------------------
(* The pool.                                                               *)

(* addTransaction of a transaction that maybeAcceptTransaction found to    *)
(* spend nothing the pool spends.                                          *)
LEMMA AddKeepsPool ==
    ASSUME PoolOK, NEW t \in Txs, checkPoolDoubleSpend(t), addTransaction(t)
    PROVE  PoolOK'
<1> USE DEF PoolOK, Spends
<1>1. pool' \subseteq Txs /\ outpoints' \in [Outputs -> Txs \cup {NoTx}]
  BY DEF addTransaction
<1>2. ASSUME NEW u \in pool', NEW o \in TxIn[u] PROVE outpoints'[o] = u
  <2>1. u \in Txs /\ o \in Outputs
    BY <1>1, <1>2, TxFacts
  <2>2. CASE u = t
    BY <2>1, <2>2, <1>2 DEF addTransaction
  <2>3. CASE u # t
    <3>1. u \in pool /\ outpoints[o] = u
      BY <2>3, <1>2 DEF addTransaction, OutpointsMatchPool
    <3>2. o \notin TxIn[t]
      BY <3>1, <2>1, TxFacts DEF checkPoolDoubleSpend
    <3> QED
      BY <3>1, <3>2, <2>1 DEF addTransaction
  <2> QED
    BY <2>2, <2>3
<1>3. ASSUME NEW o \in Outputs, outpoints'[o] # NoTx
      PROVE  outpoints'[o] \in pool' /\ Spends(outpoints'[o], o)
  BY <1>3 DEF addTransaction, OutpointsMatchPool
<1> QED
  BY <1>1, <1>2, <1>3 DEF OutpointsMatchPool

(* removeTransaction, of whatever set of transactions.                     *)
LEMMA RemoveKeepsPool ==
    ASSUME PoolOK, NEW txs, RemoveTxs(txs)
    PROVE  PoolOK' /\ pool' \subseteq pool
<1> USE DEF PoolOK, Spends
<1>1. pool' \subseteq pool /\ outpoints' \in [Outputs -> Txs \cup {NoTx}]
  BY DEF RemoveTxs
<1>2. ASSUME NEW u \in pool', NEW o \in TxIn[u] PROVE outpoints'[o] = u
  <2>1. u \in pool /\ u \notin txs /\ u \in Txs /\ o \in Outputs /\ outpoints[o] = u
    BY <1>1, <1>2, TxFacts DEF RemoveTxs, OutpointsMatchPool
  <2>2. \A t \in txs \cap pool : ~Spends(t, o)
    BY <2>1 DEF OutpointsMatchPool
  <2> QED
    BY <2>1, <2>2 DEF RemoveTxs
<1>3. ASSUME NEW o \in Outputs, outpoints'[o] # NoTx
      PROVE  outpoints'[o] \in pool' /\ Spends(outpoints'[o], o)
  <2>1. outpoints'[o] = outpoints[o] /\ \A t \in txs \cap pool : ~Spends(t, o)
    BY <1>3 DEF RemoveTxs
  <2>2. outpoints[o] \in pool /\ Spends(outpoints[o], o)
    BY <2>1, <1>3 DEF OutpointsMatchPool
  <2> QED
    BY <2>1, <2>2 DEF RemoveTxs
<1> QED
  BY <1>1, <1>2, <1>3 DEF OutpointsMatchPool

-----------------------------------------------------------------------------
(* The orphan pool.                                                        *)

(* SetOrphans keeps the types and the exactness of orphansByPrev.          *)
LEMMA SetOrphansKeepsTypes ==
    ASSUME OrphansOK, NEW gone, NEW added \in SUBSET Txs, NEW from \in Peers \cup {NoTx},
           SetOrphans(gone, added, from)
    PROVE  /\ txOrphans' \subseteq Txs
           /\ tag' \in [Txs -> Peers \cup {NoTx}]
           /\ orphansByPrev' \in [Outputs -> SUBSET Txs]
           /\ OrphanIndexMatches'
<1> USE DEF OrphansOK, SetOrphans
<1>1. txOrphans' \subseteq Txs
  OBVIOUS
<1>2. tag' \in [Txs -> Peers \cup {NoTx}]
  OBVIOUS
<1>3. orphansByPrev' \in [Outputs -> SUBSET Txs]
  OBVIOUS
<1>4. OrphanIndexMatches'
  BY DEF OrphanIndexMatches
<1> QED
  BY <1>1, <1>2, <1>3, <1>4

(* The orphan pool is finite, and so is every part of it.                  *)
LEMMA OrphansFinite ==
    ASSUME OrphansOK, NEW S \in SUBSET txOrphans
    PROVE  IsFiniteSet(S) /\ Cardinality(S) \in Nat /\ Cardinality(S) <= MaxOrphanTxs
<1>1. IsFiniteSet(txOrphans)
  BY TxPoolAssumption, FS_Subset DEF OrphansOK
<1>2. IsFiniteSet(S) /\ Cardinality(S) <= Cardinality(txOrphans)
  BY <1>1, FS_Subset
<1>3. Cardinality(S) \in Nat /\ Cardinality(txOrphans) \in Nat
  BY <1>1, <1>2, FS_CardinalityType
<1> QED
  BY <1>2, <1>3, TxPoolAssumption DEF OrphansOK, OrphansBounded

(* removeOrphan, of whatever set of orphans.                               *)
LEMMA RemoveKeepsOrphans ==
    ASSUME OrphansOK, NEW gone, SetOrphans(gone, {}, NoTx)
    PROVE  OrphansOK' /\ txOrphans' \subseteq txOrphans
<1>1. txOrphans' \in SUBSET txOrphans
  BY DEF SetOrphans
<1>2. OrphansBounded'
  BY <1>1, OrphansFinite DEF OrphansBounded
<1> QED
  BY <1>1, <1>2, SetOrphansKeepsTypes DEF OrphansOK

(* addOrphan makes room first.                                             *)
LEMMA AddKeepsOrphans ==
    ASSUME OrphansOK, NEW t \in Txs, NEW p \in Peers, addOrphan(t, p)
    PROVE  OrphansOK' /\ txOrphans' \subseteq txOrphans \cup {t}
<1>1. CASE MaxOrphanTxs = 0
  BY <1>1, OrphansStutter DEF addOrphan
<1>2. CASE MaxOrphanTxs # 0
  <2>1. PICK expired \in SUBSET txOrphans, evicted \in SUBSET txOrphans :
            /\ limitNumOrphans(txOrphans \ OrphanRedeemers(expired), evicted)
            /\ SetOrphans(OrphanRedeemers(expired) \cup evicted, {t}, p)
    BY <1>2 DEF addOrphan
  <2> DEFINE gone == OrphanRedeemers(expired)
             kept == txOrphans \ gone
             left == kept \ evicted
  <2>2. txOrphans' = left \cup {t}
    BY <2>1 DEF SetOrphans
  <2>3. /\ IsFiniteSet(kept) /\ Cardinality(kept) \in Nat /\ Cardinality(kept) <= MaxOrphanTxs
        /\ IsFiniteSet(left) /\ Cardinality(left) \in Nat
    BY OrphansFinite
  <2>4. Cardinality(left) + 1 <= MaxOrphanTxs
    <3>1. CASE Cardinality(kept) + 1 <= MaxOrphanTxs
      <4>1. left = kept
        BY <2>1, <3>1 DEF limitNumOrphans
      <4> QED
        BY <4>1, <3>1
    <3>2. CASE ~(Cardinality(kept) + 1 <= MaxOrphanTxs)
      <4>1. PICK x \in kept : evicted = {x}
        BY <2>1, <3>2 DEF limitNumOrphans
      <4>2. Cardinality(kept \ {x}) = Cardinality(kept) - 1
        BY <4>1, <2>3, FS_RemoveElement
      <4> QED
        BY <4>1, <4>2, <2>3, TxPoolAssumption
    <3> QED
      BY <3>1, <3>2
  <2>5. Cardinality(left \cup {t}) <= MaxOrphanTxs
    <3> HIDE DEF left
    <3>1. Cardinality(left \cup {t}) = IF t \in left THEN Cardinality(left)
                                       ELSE Cardinality(left) + 1
      BY <2>3, FS_AddElement
    <3> QED
      BY <3>1, <2>3, <2>4, TxPoolAssumption
  <2>6. OrphansBounded'
    BY <2>2, <2>5 DEF OrphansBounded
  <2>7. {t} \in SUBSET Txs /\ p \in Peers \cup {NoTx}
    OBVIOUS
  <2> QED
    BY <2>1, <2>2, <2>6, <2>7, SetOrphansKeepsTypes DEF OrphansOK
<1> QED
  BY <1>1, <1>2

-----------------------------------------------------------------------------
(* What maybeAcceptTransaction has looked at.                              *)

(* An accepted transaction spends nothing that the pool spends, and is no  *)
(* orphan where orphans are rejected as duplicates.                        *)
LEMMA AcceptFacts ==
    ASSUME NEW t, NEW dup \in BOOLEAN, maybeAcceptTransaction(t, dup) = "accept"
    PROVE  checkPoolDoubleSpend(t) /\ (dup => t \notin txOrphans)
  BY DEF maybeAcceptTransaction, isOrphanInPool

(* A transaction that misses inputs is not in the pool.                    *)
LEMMA MissingFacts ==
    ASSUME NEW t, NEW dup \in BOOLEAN, maybeAcceptTransaction(t, dup) = "missing"
    PROVE  t \notin pool
  BY DEF maybeAcceptTransaction, isTransactionInPool

-----------------------------------------------------------------------------
(* The handler.                                                            *)

(* The handler goes on to the next transaction.                            *)
LEMMA NextTxKeeps ==
    ASSUME HandlerOK, step # "idle", NEW first \in {"remove", "reinsert"}, NextTx(first)
    PROVE  HandlerOK'
  BY DEF HandlerOK, HandlerBusy, NextTx

(* The handler begins with the transactions of a block, none of them a     *)
(* coinbase.                                                               *)
LEMMA NotifyKeeps ==
    ASSUME HandlerOK, NEW b \in Blocks, NEW first \in {"remove", "reinsert"}, Notify(b, first)
    PROVE  HandlerOK'
<1>1. BlockTxs[b] \in Seq(DOMAIN TxIn) /\ Len(BlockTxs[b]) > 0
  BY TxAssumption
<1>2. \A i \in 2..Len(BlockTxs[b]) : BlockTxs[b][i] \in Txs
  BY <1>1, TxPoolAssumption DEF Positions
<1>3. Tail(BlockTxs[b]) \in Seq(Txs)
  <2>1. BlockTxs[b] # <<>> /\ Len(BlockTxs[b]) \in Int
    BY <1>1
  <2>2. Tail(BlockTxs[b]) = SubSeq(BlockTxs[b], 2, Len(BlockTxs[b]))
    BY <1>1, <2>1, TailIsSubSeq
  <2>3. SubSeq(BlockTxs[b], 2, Len(BlockTxs[b])) \in Seq(Txs)
    BY <1>2, <2>1, SubSeqProperties
  <2> QED
    BY <2>2, <2>3
<1> QED
  BY <1>3 DEF HandlerOK, HandlerBusy, Notify

(* The transaction the handler is working on can be submitted.             *)
LEMMA HandledIsTx ==
    ASSUME HandlerOK, step # "idle"
    PROVE  Head(todo) \in Txs
  BY DEF HandlerOK, HandlerBusy

(* A step that leaves the handler alone.                                   *)
LEMMA HandlerStutters ==
    ASSUME HandlerOK, UNCHANGED handlerVars
    PROVE  HandlerOK'
  BY DEF HandlerOK, HandlerBusy, handlerVars

(* A step that leaves the locals of processOrphans alone.                  *)
LEMMA LoopStutters ==
    ASSUME LoopOK, UNCHANGED loopVars
    PROVE  LoopOK'
  BY DEF LoopOK, loopVars

(* processOrphans begins on a transaction.                                 *)
LEMMA BeginKeepsLoop ==
    ASSUME NEW t \in Txs, NEW who \in {"handler", "rpc"}, BeginProcessOrphans(t, who)
    PROVE  LoopOK'
  BY TxFacts DEF LoopOK, BeginProcessOrphans

-----------------------------------------------------------------------------
(* One lemma per action of TxPoolNext.                                     *)

(* ProcessTransaction accepts a transaction.                               *)
LEMMA ProcessTransactionPreserves ==
    ASSUME TxPoolInv, NEW t \in Txs, NEW who \in {"handler", "rpc"}, ProcessTransaction(t, who)
    PROVE  TxPoolInv'
<1> USE DEF TxPoolInv
<1>1. checkPoolDoubleSpend(t) /\ t \notin txOrphans
  BY AcceptFacts DEF ProcessTransaction
<1>2. PoolOK'
  BY <1>1, AddKeepsPool DEF ProcessTransaction
<1>3. OrphansOK' /\ HandlerOK' /\ best' \in Blocks
  BY OrphansStutter, HandlerStutters DEF ProcessTransaction, ledgerVars
<1>4. LoopOK'
  BY BeginKeepsLoop DEF ProcessTransaction
<1>5. PoolsDisjoint'
  BY <1>1 DEF ProcessTransaction, addTransaction, PoolsDisjoint
<1> QED
  BY <1>2, <1>3, <1>4, <1>5

(* ProcessTransaction pools an orphan.                                     *)
LEMMA OrphanTxPreserves ==
    ASSUME TxPoolInv, NEW t \in Txs, NEW p \in Peers, handleOrphanTx(t, p)
    PROVE  TxPoolInv'
<1> USE DEF TxPoolInv
<1>1. t \notin pool
  BY MissingFacts DEF handleOrphanTx
<1>2. OrphansOK' /\ txOrphans' \subseteq txOrphans \cup {t}
  BY AddKeepsOrphans DEF handleOrphanTx
<1>3. PoolOK' /\ LoopOK' /\ HandlerOK' /\ best' \in Blocks
  BY PoolStutters, LoopStutters, HandlerStutters DEF handleOrphanTx, ledgerVars
<1>4. PoolsDisjoint'
  BY <1>1, <1>2 DEF handleOrphanTx, PoolsDisjoint
<1> QED
  BY <1>2, <1>3, <1>4

(* RemoveOrphansByTag only removes.                                        *)
LEMMA RemoveOrphansByTagPreserves ==
    ASSUME TxPoolInv, NEW p \in Peers, RemoveOrphansByTag(p)
    PROVE  TxPoolInv'
<1> USE DEF TxPoolInv
<1>1. OrphansOK' /\ txOrphans' \subseteq txOrphans
  BY RemoveKeepsOrphans DEF RemoveOrphansByTag
<1>2. PoolOK' /\ LoopOK' /\ HandlerOK' /\ best' \in Blocks
  BY PoolStutters, LoopStutters, HandlerStutters DEF RemoveOrphansByTag, ledgerVars
<1>3. PoolsDisjoint'
  BY <1>1 DEF RemoveOrphansByTag, PoolsDisjoint
<1> QED
  BY <1>1, <1>2, <1>3

(* A block is connected or disconnected, and the handler begins.           *)
LEMMA BlockPreserves ==
    ASSUME TxPoolInv, BlockConnected \/ BlockDisconnected
    PROVE  TxPoolInv'
<1> USE DEF TxPoolInv
<1>1. PoolOK' /\ OrphansOK' /\ LoopOK' /\ PoolsDisjoint'
  BY PoolStutters, OrphansStutter, LoopStutters
  DEF BlockConnected, BlockDisconnected, poolStateVars, PoolsDisjoint
<1>2. CASE BlockConnected
  <2>1. best' \in Blocks
    BY <1>2, TxAssumption DEF BlockConnected, Extend
  <2>2. HandlerOK'
    BY <2>1, <1>2, NotifyKeeps DEF BlockConnected
  <2> QED
    BY <1>1, <2>1, <2>2
<1>3. CASE BlockDisconnected
  <2>1. best' \in Blocks
    BY <1>3, TreeAssumption DEF BlockDisconnected, Rewind
  <2>2. HandlerOK'
    BY <1>3, NotifyKeeps DEF BlockDisconnected
  <2> QED
    BY <1>1, <2>1, <2>2
<1> QED
  BY <1>2, <1>3

(* The pool calls of the handler.                                          *)
LEMMA HandlerPreserves ==
    ASSUME TxPoolInv, Handler
    PROVE  TxPoolInv'
<1> USE DEF TxPoolInv
<1>1. CASE RemoveTransaction
  <2>1. PoolOK' /\ pool' \subseteq pool
    BY <1>1, RemoveKeepsPool DEF RemoveTransaction
  <2>2. OrphansOK' /\ LoopOK' /\ best' \in Blocks
    BY <1>1, OrphansStutter, LoopStutters DEF RemoveTransaction, ledgerVars
  <2>3. HandlerOK'
    BY <1>1 DEF RemoveTransaction, HandlerOK, HandlerBusy
  <2>4. PoolsDisjoint'
    BY <1>1, <2>1 DEF RemoveTransaction, PoolsDisjoint
  <2> QED
    BY <2>1, <2>2, <2>3, <2>4
<1>2. CASE RemoveDoubleSpends
  <2>1. PoolOK' /\ pool' \subseteq pool
    BY <1>2, RemoveKeepsPool DEF RemoveDoubleSpends
  <2>2. OrphansOK' /\ LoopOK' /\ best' \in Blocks
    BY <1>2, OrphansStutter, LoopStutters DEF RemoveDoubleSpends, ledgerVars
  <2>3. HandlerOK'
    BY <1>2 DEF RemoveDoubleSpends, HandlerOK, HandlerBusy
  <2>4. PoolsDisjoint'
    BY <1>2, <2>1 DEF RemoveDoubleSpends, PoolsDisjoint
  <2> QED
    BY <2>1, <2>2, <2>3, <2>4
<1>3. CASE RemoveOrphan
  <2>1. OrphansOK' /\ txOrphans' \subseteq txOrphans
    BY <1>3, RemoveKeepsOrphans DEF RemoveOrphan
  <2>2. PoolOK' /\ LoopOK' /\ best' \in Blocks
    BY <1>3, PoolStutters, LoopStutters DEF RemoveOrphan, ledgerVars
  <2>3. HandlerOK'
    BY <1>3 DEF RemoveOrphan, HandlerOK, HandlerBusy
  <2>4. PoolsDisjoint'
    BY <1>3, <2>1 DEF RemoveOrphan, PoolsDisjoint
  <2> QED
    BY <2>1, <2>2, <2>3, <2>4
<1>4. CASE ProcessOrphans
  <2>1. PoolOK' /\ OrphansOK' /\ best' \in Blocks /\ PoolsDisjoint'
    BY <1>4, PoolStutters, OrphansStutter
    DEF ProcessOrphans, ledgerVars, poolStateVars, PoolsDisjoint
  <2>2. LoopOK'
    BY <1>4, HandledIsTx, BeginKeepsLoop DEF ProcessOrphans
  <2>3. HandlerOK'
    BY <1>4, NextTxKeeps DEF ProcessOrphans
  <2> QED
    BY <2>1, <2>2, <2>3
<1>5. CASE Reinsert
  <2> DEFINE t == Head(todo)
             result == maybeAcceptTransaction(t, TRUE)
  <2>1. OrphansOK' /\ LoopOK' /\ best' \in Blocks /\ UNCHANGED txOrphans
    BY <1>5, OrphansStutter, LoopStutters DEF Reinsert, ledgerVars
  <2>2. HandlerOK'
    BY <1>5, NextTxKeeps DEF Reinsert
  <2>3. t \in Txs
    BY <1>5, HandledIsTx DEF Reinsert
  <2>4. PoolOK' /\ PoolsDisjoint'
    <3>1. CASE result = "accept" /\ addTransaction(t)
      <4>1. checkPoolDoubleSpend(t) /\ t \notin txOrphans
        BY <3>1, AcceptFacts
      <4>2. PoolOK'
        BY <4>1, <3>1, <2>3, AddKeepsPool
      <4> QED
        BY <4>1, <4>2, <3>1, <2>1 DEF addTransaction, PoolsDisjoint
    <3>2. CASE UNCHANGED <<pool, outpoints>>
      BY <3>2, <2>1, PoolStutters DEF PoolsDisjoint
    <3>3. CASE RemoveTxs(Dependents(t, TRUE))
      <4>1. PoolOK' /\ pool' \subseteq pool
        BY <3>3, RemoveKeepsPool
      <4> QED
        BY <4>1, <2>1 DEF PoolsDisjoint
    <3> QED
      BY <1>5, <3>1, <3>2, <3>3 DEF Reinsert
  <2> QED
    BY <2>1, <2>2, <2>4
<1> QED
  BY <1>1, <1>2, <1>3, <1>4, <1>5 DEF Handler

(* processOrphans on one output.                                           *)
LEMMA OutputPreserves ==
    ASSUME TxPoolInv, ProcessOutput
    PROVE  TxPoolInv'
<1> USE DEF TxPoolInv
<1>1. PICK o \in outsLeft :
          /\ OrphanAccepted(o) \/ OrphanRefused(o) \/ NoOrphanReady(o)
          /\ outsLeft' = outsLeft \ {o}
  BY DEF ProcessOutput
<1>2. HandlerOK' /\ best' \in Blocks /\ mtx' = mtx /\ o \in Outputs
  BY <1>1, HandlerStutters DEF ProcessOutput, ledgerVars, LoopOK
<1>3. CASE OrphanAccepted(o)
  <2>1. PICK t \in orphansByPrev[o] :
            /\ OrphanResult(t) = "accept"
            /\ addTransaction(t)
            /\ SetOrphans({t}, {}, NoTx)
            /\ processList' = Append(processList, t)
            /\ acceptedTxns' = acceptedTxns \cup {t}
    BY <1>3 DEF OrphanAccepted
  <2>2. t \in Txs
    BY <2>1, <1>2 DEF OrphansOK
  <2>3. checkPoolDoubleSpend(t)
    BY <2>1, AcceptFacts DEF OrphanResult
  <2>4. PoolOK'
    BY <2>1, <2>2, <2>3, AddKeepsPool
  <2>5. OrphansOK'
    BY <2>1, RemoveKeepsOrphans
  <2>6. LoopOK'
    BY <1>1, <1>2, <2>1, <2>2 DEF LoopOK
  <2>7. PoolsDisjoint'
    BY <2>1 DEF addTransaction, SetOrphans, PoolsDisjoint
  <2> QED
    BY <1>2, <2>4, <2>5, <2>6, <2>7
<1>4. CASE OrphanRefused(o)
  <2>1. PICK t \in orphansByPrev[o] : SetOrphans(OrphanRedeemers({t}), {}, NoTx)
    BY <1>4 DEF OrphanRefused
  <2>2. OrphansOK' /\ txOrphans' \subseteq txOrphans
    BY <2>1, RemoveKeepsOrphans
  <2>3. PoolOK' /\ LoopOK'
    BY <1>1, <1>2, <1>4, PoolStutters DEF OrphanRefused, LoopOK
  <2>4. PoolsDisjoint'
    BY <1>4, <2>2 DEF OrphanRefused, PoolsDisjoint
  <2> QED
    BY <1>2, <2>2, <2>3, <2>4
<1>5. CASE NoOrphanReady(o)
  <2>1. PoolOK' /\ OrphansOK' /\ PoolsDisjoint'
    BY <1>5, PoolStutters, OrphansStutter DEF NoOrphanReady, poolStateVars, PoolsDisjoint
  <2>2. LoopOK'
    BY <1>1, <1>2, <1>5 DEF NoOrphanReady, LoopOK
  <2> QED
    BY <1>2, <2>1, <2>2
<1> QED
  BY <1>1, <1>3, <1>4, <1>5

(* The steps of processOrphans.                                            *)
LEMMA LoopPreserves ==
    ASSUME TxPoolInv, Loop
    PROVE  TxPoolInv'
<1> USE DEF TxPoolInv
<1>1. CASE NextProcessItem
  <2>1. PoolOK' /\ OrphansOK' /\ HandlerOK' /\ best' \in Blocks /\ PoolsDisjoint'
    BY <1>1, PoolStutters, OrphansStutter, HandlerStutters
    DEF NextProcessItem, ledgerVars, poolStateVars, PoolsDisjoint
  <2>2. processList[2] \in Txs /\ Tail(processList) \in Seq(Txs)
    BY <1>1 DEF NextProcessItem, LoopOK
  <2>3. LoopOK'
    BY <1>1, <2>2, TxFacts DEF NextProcessItem, LoopOK
  <2> QED
    BY <2>1, <2>3
<1>2. CASE EndProcessOrphans
  <2>1. OrphansOK' /\ txOrphans' \subseteq txOrphans
    BY <1>2, RemoveKeepsOrphans DEF EndProcessOrphans
  <2>2. PoolOK' /\ HandlerOK' /\ best' \in Blocks
    BY <1>2, PoolStutters, HandlerStutters DEF EndProcessOrphans, ledgerVars
  <2>3. LoopOK'
    BY <1>2 DEF EndProcessOrphans, LoopOK
  <2>4. PoolsDisjoint'
    BY <1>2, <2>1 DEF EndProcessOrphans, PoolsDisjoint
  <2> QED
    BY <2>1, <2>2, <2>3, <2>4
<1> QED
  BY <1>1, <1>2, OutputPreserves DEF Loop

-----------------------------------------------------------------------------

(* New establishes the invariant.                                          *)
LEMMA InitTxPool ==
    TxPoolInit => TxPoolInv
<1> SUFFICES ASSUME TxPoolInit PROVE TxPoolInv
  OBVIOUS
<1>1. PoolOK
  BY DEF TxPoolInit, PoolOK, OutpointsMatchPool
<1>2. OrphansBounded
  BY FS_EmptySet, TxPoolAssumption DEF TxPoolInit, OrphansBounded
<1>3. OrphansOK
  BY <1>2 DEF TxPoolInit, OrphansOK, OrphanIndexMatches
<1>4. LoopOK /\ HandlerOK /\ PoolsDisjoint
  BY DEF TxPoolInit, LoopOK, HandlerOK, HandlerBusy, PoolsDisjoint
<1>5. best \in Blocks
  BY TreeAssumption DEF TxPoolInit, LedgerInit
<1> QED
  BY <1>1, <1>3, <1>4, <1>5 DEF TxPoolInv

(* Every step keeps the invariant.                                         *)
LEMMA NextTxPool ==
    TxPoolInv /\ [TxPoolNext]_txPoolVars => TxPoolInv'
<1> SUFFICES ASSUME TxPoolInv, [TxPoolNext]_txPoolVars PROVE TxPoolInv'
  OBVIOUS
<1>1. ASSUME NEW t \in Txs, handleTxMsg(t) \/ handleSendRawTransaction(t) PROVE TxPoolInv'
  BY <1>1, ProcessTransactionPreserves DEF handleTxMsg, handleSendRawTransaction
<1>2. ASSUME NEW t \in Txs, NEW p \in Peers, handleOrphanTx(t, p) PROVE TxPoolInv'
  BY <1>2, OrphanTxPreserves
<1>3. ASSUME NEW p \in Peers, RemoveOrphansByTag(p) PROVE TxPoolInv'
  BY <1>3, RemoveOrphansByTagPreserves
<1>4. CASE UNCHANGED txPoolVars
  <2>1. UNCHANGED <<ledgerVars, poolStateVars, loopVars, handlerVars>>
    BY <1>4 DEF txPoolVars
  <2>2. PoolOK' /\ OrphansOK' /\ LoopOK' /\ HandlerOK'
    BY <2>1, PoolStutters, OrphansStutter, LoopStutters, HandlerStutters
    DEF poolStateVars, TxPoolInv
  <2>3. best' \in Blocks /\ PoolsDisjoint'
    BY <2>1 DEF ledgerVars, poolStateVars, PoolsDisjoint, TxPoolInv
  <2> QED
    BY <2>2, <2>3 DEF TxPoolInv
<1> QED
  BY <1>1, <1>2, <1>3, <1>4, BlockPreserves, HandlerPreserves, LoopPreserves DEF TxPoolNext

(* The inductive invariant holds in every state of every mempool.          *)
THEOREM TxPoolInvariance == TxPoolSpec => []TxPoolInv
<1> QED
  BY InitTxPool, NextTxPool, PTL DEF TxPoolSpec

(* The fields of TxPool and the handler's locals keep their types.         *)
THEOREM TxPoolTypes == TxPoolSpec => []TxPoolTypeOK
<1>1. TxPoolInv => TxPoolTypeOK
  BY DEF TxPoolInv, TxPoolTypeOK, PoolOK, OrphansOK, LoopOK, HandlerOK
<1> QED
  BY <1>1, TxPoolInvariance, PTL

(* The pool never holds a double spend, and mp.outpoints is its index.     *)
THEOREM NoDoubleSpendInPool == TxPoolSpec => []OutpointsMatchPool
<1>1. TxPoolInv => OutpointsMatchPool
  BY DEF TxPoolInv, PoolOK
<1> QED
  BY <1>1, TxPoolInvariance, PTL

(* mp.orphansByPrev indexes exactly the orphans.                           *)
THEOREM OrphanIndexIsExact == TxPoolSpec => []OrphanIndexMatches
<1>1. TxPoolInv => OrphanIndexMatches
  BY DEF TxPoolInv, OrphansOK
<1> QED
  BY <1>1, TxPoolInvariance, PTL

(* limitNumOrphans keeps the orphan pool within Policy.MaxOrphanTxs.       *)
THEOREM OrphanTxsAreBounded == TxPoolSpec => []OrphansBounded
<1>1. TxPoolInv => OrphansBounded
  BY DEF TxPoolInv, OrphansOK
<1> QED
  BY <1>1, TxPoolInvariance, PTL

(* No transaction is in the pool and in the orphan pool.                   *)
THEOREM PoolsStayDisjoint == TxPoolSpec => []PoolsDisjoint
<1>1. TxPoolInv => PoolsDisjoint
  BY DEF TxPoolInv
<1> QED
  BY <1>1, TxPoolInvariance, PTL


-----------------------------------------------------------------------------
(* The pool and the chain.                                                 *)

(* The main chain is a good one, and the unspent outputs are its.          *)
GoodLedger ==
    /\ best \in Blocks
    /\ GoodChain(Ancestors[best])
    /\ coins = UtxoOf(Ancestors[best])
    /\ \A b \in Ancestors[best] \ {Genesis} : Ordered(b)

(* While a connected block is handled, what is left to do are its last     *)
(* transactions, all but the first k.                                      *)
Connecting == {"remove", "doubleSpends", "removeOrphan", "process"}

LeftToDo(k) ==
    /\ k \in 1..(Len(BlockTxs[best]) - 1)
    /\ Len(todo) = Len(BlockTxs[best]) - k
    /\ \A i \in 1..Len(todo) : todo[i] = BlockTxs[best][k + i]

TodoOK == step \in Connecting => best # Genesis /\ \E k : LeftToDo(k)

(* The transaction just removed does not come back before its double       *)
(* spends are gone: nothing it spends can be found any more.               *)
HeadGone == step = "doubleSpends" => Head(todo) \notin pool

AgreeInv ==
    /\ TxPoolInv /\ GoodLedger /\ TodoOK /\ pool \subseteq Clean /\ HeadGone
    /\ AgreesWithChain /\ ~repeated

(* What is pending, by index.                                              *)
LEMMA PendingFacts ==
    ASSUME HandlerOK
    PROVE  /\ todo \in Seq(Txs) /\ Len(todo) \in Nat /\ DOMAIN todo = 1..Len(todo)
           /\ step \in {"remove", "doubleSpends"} => PendingTxs = {todo[i] : i \in 1..Len(todo)}
           /\ step \in {"removeOrphan", "process"} =>
                 PendingTxs = {todo[i] : i \in (1..Len(todo)) \ {1}}
           /\ step \in {"idle", "reinsert"} => PendingTxs = {}
<1>1. todo \in Seq(Txs) /\ Len(todo) \in Nat /\ DOMAIN todo = 1..Len(todo)
  BY DEF HandlerOK
<1>2. step \in {"remove", "doubleSpends"} => PendingTxs = {todo[i] : i \in 1..Len(todo)}
  BY <1>1 DEF PendingTxs
<1>3. step \in {"removeOrphan", "process"} =>
         PendingTxs = {todo[i] : i \in (1..Len(todo)) \ {1}}
  BY <1>1 DEF PendingTxs
<1>4. step \in {"idle", "reinsert"} => PendingTxs = {}
  BY DEF PendingTxs
<1> QED
  BY <1>1, <1>2, <1>3, <1>4

(* The transactions of the chain, by position.                             *)
LEMMA ChainTxFacts ==
    \A u : u \in ChainTxs <=>
        \E b \in Ancestors[best] \ {Genesis} : \E i \in Positions(b) \ {1} : u = BlockTxs[b][i]
  BY DEF ChainTxs

(* What a transaction of the chain spends is found, by a new transaction,  *)
(* only among the outputs of a pool transaction whose notification is yet  *)
(* to be handled, and then so is that of the one in the chain, later.      *)
LEMMA InputGone ==
    ASSUME AgreeInv, NEW b \in Ancestors[best] \ {Genesis}, NEW i \in Positions(b) \ {1},
           NEW o \in TxIn[BlockTxs[b][i]], InputFound(o)
    PROVE  /\ step \in Connecting /\ b = best
           /\ \E j \in 1..Len(todo), m \in 1..Len(todo) :
                 /\ j < m /\ todo[j] \in pool /\ todo[m] = BlockTxs[b][i]
                 /\ step \in {"removeOrphan", "process"} => j # 1
<1> DEFINE S == Ancestors[best]
<1>1. /\ best \in Blocks /\ GoodChain(S) /\ coins = UtxoOf(S) /\ HandlerOK
      /\ pool \subseteq Txs /\ pool \subseteq Clean
      /\ \A c \in S \ {Genesis} : Ordered(c)
  BY DEF AgreeInv, GoodLedger, TxPoolInv, PoolOK
<1> HIDE DEF S
<1>2. /\ b \in S \ {Genesis} /\ b \in Blocks /\ b \in Sane /\ o \in Ins(b)
      /\ Ancestors[b] \subseteq S /\ Ordered(b)
  <2>1. b \in S \ {Genesis}
    BY DEF S
  <2> QED
    BY <1>1, <2>1 DEF GoodChain, Ins
<1>3. ~Unspent(coins, o)
  BY <1>1, <1>2, SpentInChain
<1>4. PICK s \in pool : o \in TxOut[s]
  BY <1>3 DEF InputFound
<1>5. PICK c \in Ancestors[b] \ {Genesis} : \E j \in Positions(c) :
          o \in TxOut[BlockTxs[c][j]] /\ (c = b => j < i)
  BY <1>1, <1>2, CreatedEarlier
<1>6. c \in S \ {Genesis} /\ c \in Blocks /\ c \in Sane /\ Ordered(c)
  BY <1>1, <1>2 DEF GoodChain
<1>7. PICK j \in Positions(c) : o \in TxOut[BlockTxs[c][j]] /\ (c = b => j < i)
  BY <1>5
<1>8. /\ s = BlockTxs[c][j]
      /\ s \in DOMAIN TxIn
  <2>1. s \in DOMAIN TxIn /\ BlockTxs[c][j] \in DOMAIN TxIn
    BY <1>1, <1>6, BlockTransactions, TxPoolAssumption
  <2> QED
    BY <2>1, <1>4, <1>7, OneCreator
<1>9. j # 1
  <2>1. TxIn[s] # {}
    BY <1>1, TxPoolAssumption
  <2> QED
    BY <2>1, <1>6, <1>8, TxAssumption DEF Positions
<1>10. s \in ChainTxs
  BY <1>6, <1>8, <1>9, ChainTxFacts DEF S
<1>11. s \in PendingTxs
  BY <1>10 DEF AgreeInv, AgreesWithChain
<1>12. step \in Connecting
  BY <1>1, <1>11, PendingFacts DEF HandlerOK, Connecting
<1>13. PICK q \in 1..Len(todo) :
          s = todo[q] /\ (step \in {"removeOrphan", "process"} => q # 1)
  BY <1>1, <1>11, <1>12, PendingFacts DEF Connecting
<1>14. PICK k : LeftToDo(k)
  BY <1>12 DEF AgreeInv, TodoOK
<1>15. best # Genesis /\ Len(BlockTxs[best]) \in Nat /\ Len(todo) \in Nat
  BY <1>1, <1>12, BlockTransactions, PendingFacts DEF AgreeInv, TodoOK
<1>16. /\ k \in Nat /\ q \in Nat /\ s = BlockTxs[best][k + q] /\ k + q \in Positions(best)
       /\ best \in S \ {Genesis}
  BY <1>1, <1>13, <1>14, <1>15, OwnAncestor DEF LeftToDo, Positions, S
<1>17. c = best
  <2>1. s \in TxsOf(c) /\ s \in TxsOf(best)
    BY <1>8, <1>16 DEF TxsOf
  <2> QED
    BY <2>1, <1>1, <1>6, <1>16 DEF GoodChain, NoReplay
<1>18. b = best
  <2>1. SUFFICES ASSUME b # best PROVE FALSE
    OBVIOUS
  <2>2. b \in Ancestors[Parent[best]] /\ Parent[best] \in Blocks
        /\ Height[best] = Height[Parent[best]] + 1
    BY <2>1, <1>1, <1>2, <1>15, TreeAssumption DEF S
  <2>3. Height[b] <= Height[Parent[best]] /\ Height[best] <= Height[b]
    BY <2>2, <1>2, <1>5, <1>17, AncestorsLower
  <2> QED
    BY <2>2, <2>3, <1>1, <1>2, TreeAssumption
<1>19. j = k + q
  BY <1>6, <1>8, <1>16, <1>17, OnePosition
<1>20. i \in Nat /\ i <= Len(BlockTxs[best]) /\ k + q < i
  BY <1>7, <1>15, <1>17, <1>18, <1>19 DEF Positions
<1>21. i - k \in 1..Len(todo) /\ q < i - k
  BY <1>14, <1>15, <1>16, <1>20 DEF LeftToDo
<1>22. todo[i - k] = BlockTxs[best][i]
  <2>1. todo[i - k] = BlockTxs[best][k + (i - k)]
    BY <1>14, <1>21 DEF LeftToDo
  <2>2. k + (i - k) = i
    BY <1>16, <1>20
  <2> QED
    BY <2>1, <2>2
<1> QED
  BY <1>4, <1>12, <1>13, <1>18, <1>21, <1>22

(* So what maybeAcceptTransaction accepts agrees with the chain.           *)
LEMMA NewcomerAgrees ==
    ASSUME AgreeInv, NEW t \in Clean, \A o \in TxIn[t] : InputFound(o),
           NEW u \in ChainTxs, u \notin PendingTxs
    PROVE  t # u /\ TxIn[t] \cap TxIn[u] = {}
<1>1. PICK b \in Ancestors[best] \ {Genesis} : \E i \in Positions(b) \ {1} : u = BlockTxs[b][i]
  BY ChainTxFacts
<1>2. PICK i \in Positions(b) \ {1} : u = BlockTxs[b][i]
  BY <1>1
<1>3. ASSUME NEW o \in TxIn[u], o \in TxIn[t] PROVE FALSE
  <2>1. InputFound(o)
    BY <1>3
  <2>2. /\ step \in Connecting
        /\ \E j \in 1..Len(todo), m \in 1..Len(todo) : j < m /\ todo[m] = u
    BY <2>1, <1>3, <1>2, InputGone
  <2>3. PICK m \in 1..Len(todo) : m # 1 /\ todo[m] = u
    BY <2>2
  <2> QED
    BY <2>2, <2>3, PendingFacts DEF AgreeInv, TxPoolInv, Connecting
<1>4. TxIn[t] # {}
  BY TxPoolAssumption
<1> QED
  BY <1>3, <1>4

(* And it is not the transaction whose double spends are about to go.      *)
LEMMA NewcomerIsNotHead ==
    ASSUME AgreeInv, NEW t \in Clean, \A o \in TxIn[t] : InputFound(o), step = "doubleSpends"
    PROVE  t # Head(todo)
<1>1. SUFFICES ASSUME t = Head(todo) PROVE FALSE
  OBVIOUS
<1>2. /\ best \in Blocks /\ best # Genesis /\ best \in Ancestors[best] \ {Genesis}
      /\ best \in Sane /\ Ordered(best) /\ HandlerOK
      /\ \E k : LeftToDo(k)
  <2>1. best \in Blocks /\ best # Genesis /\ HandlerOK /\ \E k : LeftToDo(k)
    BY DEF AgreeInv, GoodLedger, TodoOK, Connecting, TxPoolInv
  <2>2. best \in Ancestors[best] \ {Genesis}
    BY <2>1, OwnAncestor
  <2> QED
    BY <2>1, <2>2 DEF AgreeInv, GoodLedger, GoodChain
<1>3. PICK k : LeftToDo(k)
  BY <1>2
<1>4. Len(BlockTxs[best]) \in Nat /\ Len(todo) \in Nat \ {0} /\ Head(todo) = todo[1]
  BY <1>2, BlockTransactions DEF HandlerOK, HandlerBusy
<1>5. k \in Nat /\ k + 1 \in Positions(best) \ {1} /\ t = BlockTxs[best][k + 1]
  BY <1>1, <1>3, <1>4 DEF LeftToDo, Positions
<1>6. PICK o \in TxIn[t] : InputFound(o)
  BY TxPoolAssumption
<1>7. PICK j \in 1..Len(todo), m \in 1..Len(todo) :
          j < m /\ todo[m] = BlockTxs[best][k + 1]
  BY <1>2, <1>5, <1>6, InputGone
<1>8. /\ m \in Nat /\ j \in Nat /\ 0 < j /\ j < m
      /\ todo[m] = BlockTxs[best][k + m] /\ k + m \in Positions(best)
  BY <1>3, <1>4, <1>7 DEF LeftToDo, Positions
<1>9. k + m = k + 1
  BY <1>2, <1>5, <1>7, <1>8, OnePosition
<1> QED
  BY <1>5, <1>8, <1>9


-----------------------------------------------------------------------------
(* How a step keeps the agreement.                                         *)

(* What maybeAcceptTransaction accepts is clean, and its inputs are found. *)
LEMMA AcceptFinds ==
    ASSUME NEW t, NEW dup \in BOOLEAN, maybeAcceptTransaction(t, dup) = "accept"
    PROVE  t \in Clean /\ \A o \in TxIn[t] : InputFound(o)
  BY DEF maybeAcceptTransaction

(* The handler's place in the block, when neither moves.                   *)
LEMMA TodoStutters ==
    ASSUME TodoOK, best' = best, todo' = todo, step' \in Connecting => step \in Connecting
    PROVE  TodoOK'
<1>1. ASSUME NEW k, LeftToDo(k) PROVE LeftToDo(k)'
  BY <1>1 DEF LeftToDo
<1> QED
  BY <1>1 DEF TodoOK

(* The chain, when it does not move.                                       *)
LEMMA LedgerStutters ==
    ASSUME GoodLedger, UNCHANGED ledgerVars
    PROVE  GoodLedger'
  BY DEF GoodLedger, ledgerVars

(* The pool loses transactions, and nothing ceases to be pending.          *)
LEMMA ShrinkingAgrees ==
    ASSUME AgreesWithChain, ~repeated, best' = best, pool' \subseteq pool,
           PendingTxs \subseteq PendingTxs'
    PROVE  AgreesWithChain'
  BY DEF AgreesWithChain, ChainTxs

(* The handler stands still.                                               *)
LEMMA PendingStutters ==
    ASSUME UNCHANGED handlerVars
    PROVE  PendingTxs' = PendingTxs
  BY DEF PendingTxs, handlerVars

(* A transaction is accepted while the chain and the handler stand still.  *)
LEMMA AcceptedAgrees ==
    ASSUME AgreeInv, NEW t, NEW dup \in BOOLEAN, maybeAcceptTransaction(t, dup) = "accept",
           addTransaction(t), UNCHANGED <<ledgerVars, handlerVars>>
    PROVE  GoodLedger' /\ TodoOK' /\ pool' \subseteq Clean /\ HeadGone' /\ AgreesWithChain'
<1>1. t \in Clean /\ \A o \in TxIn[t] : InputFound(o)
  BY AcceptFinds
<1>2. /\ best' = best /\ step' = step /\ todo' = todo /\ pool' = pool \cup {t}
      /\ PendingTxs' = PendingTxs
  BY PendingStutters DEF ledgerVars, handlerVars, addTransaction
<1>3. GoodLedger' /\ TodoOK' /\ pool' \subseteq Clean
  BY <1>1, <1>2, LedgerStutters, TodoStutters DEF AgreeInv
<1>4. HeadGone'
  BY <1>1, <1>2, NewcomerIsNotHead DEF AgreeInv, HeadGone
<1>5. ASSUME NEW u \in ChainTxs', u \notin PendingTxs', NEW s \in pool'
      PROVE  s # u /\ TxIn[s] \cap TxIn[u] = {}
  <2>1. u \in ChainTxs /\ u \notin PendingTxs
    BY <1>2, <1>5 DEF ChainTxs
  <2>2. CASE s = t
    BY <1>1, <2>1, <2>2, NewcomerAgrees
  <2>3. CASE s \in pool
    BY <2>1, <2>3 DEF AgreeInv, AgreesWithChain
  <2> QED
    BY <1>2, <1>5, <2>2, <2>3
<1>6. AgreesWithChain'
  BY <1>5 DEF AgreesWithChain
<1> QED
  BY <1>3, <1>4, <1>6

(* The chain and the handler stand still, and the pool gains nothing.      *)
LEMMA QuietAgrees ==
    ASSUME AgreeInv, pool' \subseteq pool, UNCHANGED <<ledgerVars, handlerVars>>
    PROVE  GoodLedger' /\ TodoOK' /\ pool' \subseteq Clean /\ HeadGone' /\ AgreesWithChain'
<1>1. /\ best' = best /\ step' = step /\ todo' = todo /\ PendingTxs' = PendingTxs
  BY PendingStutters DEF ledgerVars, handlerVars
<1>2. GoodLedger' /\ TodoOK' /\ pool' \subseteq Clean
  BY <1>1, LedgerStutters, TodoStutters DEF AgreeInv
<1>3. HeadGone' /\ AgreesWithChain'
  BY <1>1, ShrinkingAgrees DEF AgreeInv, HeadGone
<1> QED
  BY <1>2, <1>3

(* The chain stands still, and the handler is done with a transaction      *)
(* that is no longer pending (or goes on reinserting).                     *)
LEMMA NextTxAgrees ==
    ASSUME AgreeInv, UNCHANGED ledgerVars,
           \/ step = "process" /\ NextTx("remove")
           \/ step = "reinsert" /\ NextTx("reinsert")
    PROVE  GoodLedger' /\ TodoOK' /\ HeadGone' /\ PendingTxs' = PendingTxs
<1>1. /\ HandlerOK /\ HandlerOK' /\ best' = best /\ best \in Blocks
      /\ todo' = Tail(todo) /\ todo # <<>> /\ step' \in {"remove", "reinsert", "idle"}
  <2>1. HandlerOK /\ best' = best /\ best \in Blocks /\ todo # <<>>
    BY DEF AgreeInv, TxPoolInv, HandlerOK, HandlerBusy, ledgerVars
  <2>2. HandlerOK'
    BY <2>1, NextTxKeeps
  <2> QED
    BY <2>1, <2>2 DEF NextTx
<1>2. /\ Len(todo) \in Nat \ {0} /\ Len(todo') = Len(todo) - 1
      /\ \A i \in 1..Len(todo') : todo'[i] = todo[i + 1]
  BY <1>1 DEF HandlerOK
<1>3. GoodLedger' /\ HeadGone'
  BY <1>1, LedgerStutters DEF AgreeInv, HeadGone
<1>4. CASE step = "process"
  <2>1. step' = (IF Tail(todo) = <<>> THEN "idle" ELSE "remove")
    BY <1>4 DEF NextTx
  <2>2. PICK k : LeftToDo(k)
    BY <1>4 DEF AgreeInv, TodoOK, Connecting
  <2>3. best # Genesis /\ Len(BlockTxs[best]) \in Nat
    BY <1>1, <1>4, BlockTransactions DEF AgreeInv, TodoOK, Connecting
  <2>4. ASSUME step' \in Connecting PROVE LeftToDo(k + 1)'
    <3>1. Tail(todo) # <<>>
      BY <2>1, <2>4 DEF Connecting
    <3>2. Len(todo') # 0
      BY <1>1, <3>1 DEF HandlerOK
    <3>3. k + 1 \in 1..(Len(BlockTxs[best]) - 1)
      BY <1>2, <2>2, <2>3, <3>2 DEF LeftToDo
    <3>4. Len(todo') = Len(BlockTxs[best]) - (k + 1)
      BY <1>2, <2>2, <2>3 DEF LeftToDo
    <3>5. ASSUME NEW i \in 1..Len(todo') PROVE todo'[i] = BlockTxs[best][(k + 1) + i]
      <4>1. i + 1 \in 1..Len(todo) /\ todo'[i] = todo[i + 1]
        BY <1>2
      <4>2. todo[i + 1] = BlockTxs[best][k + (i + 1)]
        BY <2>2, <4>1 DEF LeftToDo
      <4>3. k + (i + 1) = (k + 1) + i
        BY <2>2, <2>3 DEF LeftToDo
      <4> QED
        BY <4>1, <4>2, <4>3
    <3> QED
      BY <1>1, <3>3, <3>4, <3>5 DEF LeftToDo
  <2>5. TodoOK'
    BY <1>1, <2>3, <2>4 DEF TodoOK
  <2>6. PendingTxs = {todo[i] : i \in (1..Len(todo)) \ {1}}
    BY <1>1, <1>4, PendingFacts
  <2>7. PendingTxs' = {todo'[i] : i \in 1..Len(todo')}
    <3>1. CASE Tail(todo) = <<>>
      <4>1. Len(todo') = 0 /\ step' = "idle"
        BY <1>1, <2>1, <3>1
      <4>2. PendingTxs' = {}
        BY <4>1 DEF PendingTxs
      <4> QED
        BY <4>1, <4>2
    <3>2. CASE Tail(todo) # <<>>
      <4>1. step' = "remove" /\ DOMAIN todo' = 1..Len(todo')
        BY <1>1, <2>1, <3>2 DEF HandlerOK
      <4> QED
        BY <4>1 DEF PendingTxs
    <3> QED
      BY <3>1, <3>2
  <2>8. {todo'[i] : i \in 1..Len(todo')} \subseteq {todo[i] : i \in (1..Len(todo)) \ {1}}
    <3>1. ASSUME NEW i \in 1..Len(todo')
          PROVE  todo'[i] \in {todo[n] : n \in (1..Len(todo)) \ {1}}
      <4>1. i + 1 \in (1..Len(todo)) \ {1} /\ todo'[i] = todo[i + 1]
        BY <1>2
      <4> QED
        BY <4>1
    <3> QED
      BY <3>1
  <2>9. {todo[i] : i \in (1..Len(todo)) \ {1}} \subseteq {todo'[i] : i \in 1..Len(todo')}
    <3>1. ASSUME NEW i \in (1..Len(todo)) \ {1}
          PROVE  todo[i] \in {todo'[n] : n \in 1..Len(todo')}
      <4>1. i - 1 \in 1..Len(todo') /\ (i - 1) + 1 = i
        BY <1>2
      <4>2. todo'[i - 1] = todo[i]
        BY <1>2, <4>1
      <4> QED
        BY <4>1, <4>2
    <3> QED
      BY <3>1
  <2> QED
    BY <1>3, <2>5, <2>6, <2>7, <2>8, <2>9
<1>5. CASE step = "reinsert"
  <2>1. step' \in {"idle", "reinsert"}
    BY <1>5 DEF NextTx
  <2> QED
    BY <1>3, <1>5, <2>1 DEF TodoOK, Connecting, PendingTxs
<1> QED
  BY <1>4, <1>5


(* A block is connected: all its transactions are pending.                 *)
LEMMA ConnectedAgrees ==
    ASSUME AgreeInv, BlockConnected, ~repeated'
    PROVE  GoodLedger' /\ TodoOK' /\ pool' \subseteq Clean /\ HeadGone' /\ AgreesWithChain'
<1> DEFINE S == Ancestors[best]
<1>1. PICK b \in Sane \ {Genesis} :
          /\ Parent[b] = best /\ CheckConnectBlock(coins, b)
          /\ best' = b /\ coins' = UtxoOf(Ancestors[b]) /\ CoinbasesDiffer(Ancestors[b])
  BY DEF BlockConnected, Extend
<1>2. /\ step = "idle" /\ pool' = pool /\ Notify(b, "remove")
      /\ best \in Blocks /\ GoodChain(S) /\ coins = UtxoOf(S) /\ HandlerOK
      /\ \A c \in S \ {Genesis} : Ordered(c)
  BY <1>1 DEF BlockConnected, poolStateVars, AgreeInv, GoodLedger, TxPoolInv
<1>3. S = Ancestors[Parent[b]]
  BY <1>1
<1> HIDE DEF S
<1>4. ~MissingInput(UtxoOf(S), b) /\ CheckConnectBlock(UtxoOf(S), b)
  BY <1>1, <1>2, CheckFindsInputs
<1>5. GoodChain(S \cup {b}) /\ b \in Blocks
  BY <1>1, <1>2, <1>3, <1>4, GoodChainExtends
<1>6. Ordered(b)
  BY <1>1, <1>2, <1>3, <1>4, CheckOrders
<1>7. Ancestors[b] = S \cup {b}
  BY <1>1, <1>3, <1>5, TreeAssumption
<1>8. GoodLedger'
  BY <1>1, <1>2, <1>5, <1>6, <1>7 DEF GoodLedger
<1>9. /\ BlockTxs[b] \in Seq(DOMAIN TxIn) /\ Len(BlockTxs[b]) \in Nat \ {0}
      /\ todo' = Tail(BlockTxs[b])
  BY <1>2, <1>5, TxAssumption, BlockTransactions DEF Notify
<1>10. /\ Len(todo') = Len(BlockTxs[b]) - 1 /\ DOMAIN todo' = 1..Len(todo')
       /\ \A i \in 1..Len(todo') : todo'[i] = BlockTxs[b][1 + i]
  BY <1>9
<1>11. /\ step' \in {"remove", "idle"}
       /\ Tail(BlockTxs[b]) # <<>> => step' = "remove"
       /\ Tail(BlockTxs[b]) = <<>> => step' = "idle"
  BY <1>2 DEF Notify
<1>12. TodoOK'
  <2>1. ASSUME step' \in Connecting PROVE LeftToDo(1)'
    <3>1. Len(todo') # 0
      BY <1>9, <1>11, <2>1 DEF Connecting
    <3>2. Len(todo') = Len(BlockTxs[b]) - 1
      BY <1>10
    <3>3. \A n \in Nat \ {0} : n - 1 # 0 => 1 \in 1..(n - 1)
      OBVIOUS
    <3>4. Len(BlockTxs[b]) \in Nat \ {0} /\ Len(BlockTxs[b]) - 1 # 0
      BY <1>9, <3>1, <3>2
    <3>5. 1 \in 1..(Len(BlockTxs[b]) - 1)
      BY <3>3, <3>4
    <3> QED
      BY <1>1, <1>10, <3>2, <3>5 DEF LeftToDo
  <2> QED
    BY <1>1, <2>1 DEF TodoOK
<1>13. pool' \subseteq Clean /\ HeadGone'
  BY <1>2, <1>11 DEF AgreeInv, HeadGone
<1>14. ASSUME NEW i \in Positions(b) \ {1} PROVE BlockTxs[b][i] \in PendingTxs'
  <2>1. i - 1 \in 1..Len(todo') /\ 1 + (i - 1) = i
    BY <1>9, <1>10 DEF Positions
  <2>2. todo'[i - 1] = BlockTxs[b][i]
    BY <1>10, <2>1
  <2>3. step' = "remove"
    BY <1>9, <1>11, <2>1
  <2>4. PendingTxs' = {todo'[n] : n \in DOMAIN todo'}
    BY <2>3 DEF PendingTxs
  <2> QED
    BY <1>10, <2>1, <2>2, <2>4
<1>15. ASSUME NEW u \in ChainTxs', u \notin PendingTxs'
       PROVE  u \in ChainTxs /\ u \notin PendingTxs
  <2>1. PICK c \in Ancestors[b] \ {Genesis} : \E i \in Positions(c) \ {1} : u = BlockTxs[c][i]
    BY <1>1, <1>15 DEF ChainTxs
  <2>2. c \in S
    BY <1>7, <1>14, <1>15, <2>1
  <2>3. PendingTxs = {}
    BY <1>2, PendingFacts
  <2> QED
    BY <2>1, <2>2, <2>3, ChainTxFacts DEF S
<1>16. AgreesWithChain'
  BY <1>2, <1>15 DEF AgreeInv, AgreesWithChain
<1> QED
  BY <1>8, <1>12, <1>13, <1>16

(* A block is disconnected: the chain has fewer transactions.              *)
LEMMA DisconnectedAgrees ==
    ASSUME AgreeInv, BlockDisconnected
    PROVE  GoodLedger' /\ TodoOK' /\ pool' \subseteq Clean /\ HeadGone' /\ AgreesWithChain'
<1> DEFINE S == Ancestors[Parent[best]]
<1>1. /\ step = "idle" /\ pool' = pool /\ step' \in {"reinsert", "idle"}
      /\ best # Genesis /\ best' = Parent[best] /\ coins' = UtxoOf(S)
      /\ best \in Blocks /\ GoodChain(Ancestors[best]) /\ HandlerOK
      /\ \A c \in Ancestors[best] \ {Genesis} : Ordered(c)
  BY DEF BlockDisconnected, Rewind, Notify, poolStateVars, AgreeInv, GoodLedger, TxPoolInv
<1>2. Parent[best] \in Blocks /\ Ancestors[best] = S \cup {best}
  BY <1>1, TreeAssumption
<1> HIDE DEF S
<1>3. GoodChain(S)
  <2>1. best \in Blocks \ {Genesis} /\ GoodChain(S \cup {best})
    BY <1>1, <1>2
  <2> QED
    BY <2>1, GoodChainShrinks DEF S
<1>4. GoodLedger'
  BY <1>1, <1>2, <1>3 DEF GoodLedger, S
<1>5. TodoOK' /\ HeadGone' /\ pool' \subseteq Clean
  BY <1>1 DEF TodoOK, HeadGone, Connecting, AgreeInv
<1>6. ChainTxs' \subseteq ChainTxs /\ PendingTxs = {}
  BY <1>1, <1>2, PendingFacts DEF ChainTxs, S
<1>7. AgreesWithChain'
  BY <1>1, <1>6 DEF AgreeInv, AgreesWithChain
<1> QED
  BY <1>4, <1>5, <1>7

(* The pool calls of the handler.                                          *)
LEMMA HandlerAgrees ==
    ASSUME AgreeInv, TxPoolInv', Handler
    PROVE  GoodLedger' /\ TodoOK' /\ pool' \subseteq Clean /\ HeadGone' /\ AgreesWithChain'
<1>1. /\ HandlerOK /\ HandlerOK' /\ PoolOK /\ OutpointsMatchPool
      /\ pool \subseteq Txs /\ outpoints \in [Outputs -> Txs \cup {NoTx}]
  BY DEF AgreeInv, TxPoolInv, PoolOK
<1>2. UNCHANGED ledgerVars /\ best' = best /\ GoodLedger'
  <2>1. UNCHANGED ledgerVars
    BY DEF Handler, RemoveTransaction, RemoveDoubleSpends, RemoveOrphan, ProcessOrphans, Reinsert
  <2> QED
    BY <2>1, LedgerStutters DEF ledgerVars, AgreeInv
<1>3. CASE RemoveTransaction
  <2>1. /\ step = "remove" /\ step' = "doubleSpends" /\ todo' = todo
        /\ pool' = pool \ {Head(todo)}
    BY <1>3 DEF RemoveTransaction, RemoveTxs, Dependents
  <2>2. TodoOK' /\ HeadGone' /\ pool' \subseteq Clean
    BY <1>2, <2>1, TodoStutters DEF AgreeInv, HeadGone, Connecting
  <2>3. PendingTxs' = PendingTxs
    BY <2>1 DEF PendingTxs
  <2> QED
    BY <1>2, <2>1, <2>2, <2>3, ShrinkingAgrees DEF AgreeInv
<1>4. CASE RemoveDoubleSpends
  <2> DEFINE t == Head(todo)
             spenders == SpentBy(TxIn[t]) \ {t}
  <2>1. /\ step = "doubleSpends" /\ step' = "removeOrphan" /\ todo' = todo
        /\ pool' = pool \ WithRedeemers(spenders)
    BY <1>4 DEF RemoveDoubleSpends, RemoveTxs
  <2>2. spenders \subseteq WithRedeemers(spenders)
    BY DEF WithRedeemers, Closure
  <2>3. t \notin pool /\ t \in Txs
    BY <1>1, <2>1, HandledIsTx DEF AgreeInv, HeadGone
  <2>4. ASSUME NEW s \in pool' PROVE s # t /\ TxIn[s] \cap TxIn[t] = {}
    <3>1. s \in pool /\ s # t /\ s \notin spenders
      BY <2>1, <2>2, <2>3, <2>4
    <3>2. ASSUME NEW o \in TxIn[s], o \in TxIn[t] PROVE FALSE
      <4>1. outpoints[o] = s /\ s # NoTx
        BY <1>1, <3>1, <3>2, TxFacts DEF OutpointsMatchPool
      <4> QED
        BY <3>1, <3>2, <4>1 DEF SpentBy
    <3> QED
      BY <3>1, <3>2
  <2>5. TodoOK' /\ HeadGone' /\ pool' \subseteq Clean
    BY <1>2, <2>1, TodoStutters DEF AgreeInv, HeadGone, Connecting
  <2>6. PendingTxs \subseteq PendingTxs' \cup {t}
    <3>1. /\ PendingTxs = {todo[i] : i \in 1..Len(todo)}
          /\ PendingTxs' = {todo[i] : i \in (1..Len(todo)) \ {1}}
      BY <1>1, <2>1, PendingFacts DEF PendingTxs
    <3>2. t = todo[1]
      BY <1>1, <2>1 DEF HandlerOK, HandlerBusy
    <3> QED
      BY <3>1, <3>2
  <2>7. ASSUME NEW u \in ChainTxs', u \notin PendingTxs', NEW s \in pool'
        PROVE  s # u /\ TxIn[s] \cap TxIn[u] = {}
    <3>1. u \in ChainTxs /\ s \in pool
      BY <1>2, <2>1, <2>7 DEF ChainTxs
    <3>2. CASE u = t
      BY <2>4, <2>7, <3>2
    <3>3. CASE u # t
      <4>1. u \notin PendingTxs
        BY <2>6, <2>7, <3>3
      <4> QED
        BY <3>1, <4>1 DEF AgreeInv, AgreesWithChain
    <3> QED
      BY <3>2, <3>3
  <2>8. AgreesWithChain'
    BY <2>7 DEF AgreesWithChain
  <2> QED
    BY <1>2, <2>5, <2>8
<1>5. CASE RemoveOrphan
  <2>1. /\ step = "removeOrphan" /\ step' = "process" /\ todo' = todo /\ pool' = pool
    BY <1>5 DEF RemoveOrphan
  <2>2. TodoOK' /\ HeadGone' /\ pool' \subseteq Clean
    BY <1>2, <2>1, TodoStutters DEF AgreeInv, HeadGone, Connecting
  <2>3. PendingTxs' = PendingTxs
    BY <2>1 DEF PendingTxs
  <2> QED
    BY <1>2, <2>1, <2>2, <2>3, ShrinkingAgrees DEF AgreeInv
<1>6. CASE ProcessOrphans
  <2>1. step = "process" /\ NextTx("remove") /\ pool' = pool
    BY <1>6 DEF ProcessOrphans, poolStateVars
  <2>2. TodoOK' /\ HeadGone' /\ PendingTxs' = PendingTxs
    BY <1>2, <2>1, NextTxAgrees
  <2>3. AgreesWithChain'
    BY <1>2, <2>1, <2>2, ShrinkingAgrees DEF AgreeInv
  <2> QED
    BY <1>2, <2>1, <2>2, <2>3 DEF AgreeInv
<1>7. CASE Reinsert
  <2> DEFINE t == Head(todo)
             result == maybeAcceptTransaction(t, TRUE)
  <2>1. step = "reinsert" /\ NextTx("reinsert")
    BY <1>7 DEF Reinsert
  <2>2. TodoOK' /\ HeadGone' /\ PendingTxs' = PendingTxs
    BY <1>2, <2>1, NextTxAgrees
  <2>3. CASE result = "accept" /\ addTransaction(t)
    <3>1. t \in Clean /\ \A o \in TxIn[t] : InputFound(o)
      BY <2>3, AcceptFinds
    <3> HIDE DEF t
    <3>2. pool' = pool \cup {t} /\ pool' \subseteq Clean
      BY <2>3, <3>1 DEF addTransaction, AgreeInv
    <3>3. ASSUME NEW u \in ChainTxs', u \notin PendingTxs', NEW s \in pool'
          PROVE  s # u /\ TxIn[s] \cap TxIn[u] = {}
      <4>1. u \in ChainTxs /\ u \notin PendingTxs
        BY <1>2, <2>2, <3>3 DEF ChainTxs
      <4>2. CASE s = t
        BY <3>1, <4>1, <4>2, NewcomerAgrees
      <4>3. CASE s \in pool
        BY <4>1, <4>3 DEF AgreeInv, AgreesWithChain
      <4> QED
        BY <3>2, <3>3, <4>2, <4>3
    <3>4. AgreesWithChain'
      BY <3>3 DEF AgreesWithChain
    <3> QED
      BY <1>2, <2>2, <3>2, <3>4
  <2>4. CASE pool' \subseteq pool
    <3>1. AgreesWithChain'
      BY <1>2, <2>2, <2>4, ShrinkingAgrees DEF AgreeInv
    <3> QED
      BY <1>2, <2>2, <2>4, <3>1 DEF AgreeInv
  <2>5. (result = "accept" /\ addTransaction(t)) \/ pool' \subseteq pool
    BY <1>7 DEF Reinsert, RemoveTxs
  <2> QED
    BY <2>3, <2>4, <2>5
<1> QED
  BY <1>3, <1>4, <1>5, <1>6, <1>7 DEF Handler

(* Every other step leaves the chain and the handler alone: it accepts a   *)
(* transaction, or the pool gains nothing.                                 *)
LEMMA OtherStepsAgree ==
    ASSUME AgreeInv, [TxPoolNext]_txPoolVars, ~BlockConnected, ~BlockDisconnected, ~Handler
    PROVE  GoodLedger' /\ TodoOK' /\ pool' \subseteq Clean /\ HeadGone' /\ AgreesWithChain'
<1>1. ASSUME NEW t, NEW dup \in BOOLEAN, maybeAcceptTransaction(t, dup) = "accept",
             addTransaction(t), UNCHANGED <<ledgerVars, handlerVars>>
      PROVE  GoodLedger' /\ TodoOK' /\ pool' \subseteq Clean /\ HeadGone' /\ AgreesWithChain'
  BY <1>1, AcceptedAgrees
<1>2. ASSUME NEW t, NEW who, ProcessTransaction(t, who)
      PROVE  GoodLedger' /\ TodoOK' /\ pool' \subseteq Clean /\ HeadGone' /\ AgreesWithChain'
  BY <1>1, <1>2 DEF ProcessTransaction
<1>3. CASE ProcessOutput
  <2>1. PICK o \in outsLeft : OrphanAccepted(o) \/ OrphanRefused(o) \/ NoOrphanReady(o)
    BY <1>3 DEF ProcessOutput
  <2>2. UNCHANGED <<ledgerVars, handlerVars>>
    BY <1>3 DEF ProcessOutput
  <2>3. CASE OrphanAccepted(o)
    <3>1. PICK t \in orphansByPrev[o] :
              maybeAcceptTransaction(t, FALSE) = "accept" /\ addTransaction(t)
      BY <2>3 DEF OrphanAccepted, OrphanResult
    <3> QED
      BY <1>1, <2>2, <3>1
  <2>4. CASE OrphanRefused(o) \/ NoOrphanReady(o)
    <3>1. pool' \subseteq pool
      BY <2>4 DEF OrphanRefused, NoOrphanReady, poolStateVars
    <3> QED
      BY <2>2, <3>1, QuietAgrees
  <2> QED
    BY <2>1, <2>3, <2>4
<1>4. CASE \/ \E t \in Txs : \E p \in Peers : handleOrphanTx(t, p)
           \/ \E p \in Peers : RemoveOrphansByTag(p)
           \/ NextProcessItem \/ EndProcessOrphans
           \/ UNCHANGED txPoolVars
  <2>1. pool' \subseteq pool /\ UNCHANGED <<ledgerVars, handlerVars>>
    BY <1>4 DEF handleOrphanTx, RemoveOrphansByTag, NextProcessItem, EndProcessOrphans,
                txPoolVars, poolStateVars
  <2> QED
    BY <2>1, QuietAgrees
<1>5. \/ \E t \in Txs : \E who \in {"handler", "rpc"} : ProcessTransaction(t, who)
      \/ ProcessOutput
      \/ \E t \in Txs : \E p \in Peers : handleOrphanTx(t, p)
      \/ \E p \in Peers : RemoveOrphansByTag(p)
      \/ NextProcessItem \/ EndProcessOrphans
      \/ UNCHANGED txPoolVars
  BY DEF TxPoolNext, Loop, handleTxMsg, handleSendRawTransaction
<1> QED
  BY <1>2, <1>3, <1>4, <1>5

(* New agrees with the genesis block.                                      *)
LEMMA InitAgrees ==
    ASSUME TxPoolInit
    PROVE  AgreeInv
<1>1. TxPoolInv
  BY InitTxPool
<1>2. GoodLedger
  BY GenesisChain, TreeAssumption DEF TxPoolInit, LedgerInit, GoodLedger
<1>3. TodoOK /\ pool \subseteq Clean /\ HeadGone /\ AgreesWithChain /\ ~repeated
  BY DEF TxPoolInit, LedgerInit, TodoOK, Connecting, HeadGone, AgreesWithChain
<1> QED
  BY <1>1, <1>2, <1>3 DEF AgreeInv

(* The pool never contradicts the main chain: a transaction of the chain,  *)
(* and what spends the same output as one, is in the pool only until the   *)
(* notification for it is handled, although the RPC server submits         *)
(* transactions between the calls of the handler.                          *)
THEOREM PoolAlwaysAgreesWithChain == TxPoolSpec => []AgreesWithChain
<1> DEFINE Inv == TxPoolInv /\ (repeated = FALSE => AgreeInv) /\ repeated \in BOOLEAN
<1>1. TxPoolInit => Inv
  BY InitTxPool, InitAgrees DEF TxPoolInit, LedgerInit
<1>2. Inv /\ [TxPoolNext]_txPoolVars => Inv'
  <2> SUFFICES ASSUME Inv, [TxPoolNext]_txPoolVars PROVE Inv'
    OBVIOUS
  <2>1. TxPoolInv'
    BY NextTxPool
  <2>2. repeated' = repeated \/ (BlockConnected /\ repeated = FALSE /\ repeated' \in BOOLEAN)
    <3>1. CASE BlockConnected
      BY <3>1 DEF BlockConnected, CoinbasesDiffer
    <3>2. CASE ~BlockConnected
      BY <3>2 DEF TxPoolNext, txPoolVars, ledgerVars, handleTxMsg, handleSendRawTransaction,
         ProcessTransaction, handleOrphanTx, RemoveOrphansByTag, BlockDisconnected, Handler,
         RemoveTransaction, RemoveDoubleSpends, RemoveOrphan, ProcessOrphans, Reinsert, Loop,
         ProcessOutput, NextProcessItem, EndProcessOrphans
    <3> QED
      BY <3>1, <3>2
  <2>3. ASSUME repeated' = FALSE PROVE AgreeInv'
    <3>1. AgreeInv /\ ~repeated'
      BY <2>2, <2>3
    <3>2. CASE BlockConnected
      BY <2>1, <2>3, <3>1, <3>2, ConnectedAgrees DEF AgreeInv
    <3>3. CASE BlockDisconnected
      BY <2>1, <2>3, <3>1, <3>3, DisconnectedAgrees DEF AgreeInv
    <3>4. CASE Handler
      BY <2>1, <2>3, <3>1, <3>4, HandlerAgrees DEF AgreeInv
    <3> QED
      BY <2>1, <2>3, <3>1, <3>2, <3>3, <3>4, OtherStepsAgree DEF AgreeInv
  <2> QED
    BY <2>1, <2>2, <2>3
<1>3. Inv => AgreesWithChain
  BY DEF AgreeInv, AgreesWithChain
<1> QED
  BY <1>1, <1>2, <1>3, PTL DEF TxPoolSpec

-----------------------------------------------------------------------------
(* The pool of orphan blocks.                                              *)

NothingFromTheFuture ==
    /\ \A h \in Hashes : expiration[h] <= now + Hour
    /\ oldestExpiration <= now + Hour

(* The inductive invariant.                                                *)
PoolInv ==
    /\ PoolTypeOK
    /\ NothingFromTheFuture
    /\ PointerIsOldest
    /\ PoolBounded
    /\ OvershootClearsPointer
    /\ MapsAgree

-----------------------------------------------------------------------------

(* What removeOrphanBlock leaves of a slice.                               *)
LEMMA WithoutProperties ==
    ASSUME NEW S, NEW seq \in Seq(S), NEW gone
    PROVE  /\ Without(seq, gone) \in Seq(S)
           /\ Elements(Without(seq, gone)) = Elements(seq) \ gone
           /\ InOrder(Without(seq, gone), seq)
<1> DEFINE f == CHOOSE g : IsFilter(g, seq, gone)
<1>1. IsFilter(f, seq, gone)
  BY FilterExists
<1>2. Without(seq, gone) = f[Len(seq)]
  BY DEF Without, IsFilter
<1> HIDE DEF f
<1> QED
  BY <1>1, <1>2, FilterProperties

(* A set of pooled hashes is finite, and a part of it is no larger.        *)
LEMMA Sizes ==
    ASSUME NEW S \in SUBSET Hashes, NEW T \in SUBSET S
    PROVE  /\ IsFiniteSet(S) /\ Cardinality(S) \in Nat
           /\ Cardinality(T) \in Nat /\ Cardinality(T) <= Cardinality(S)
<1>1. IsFiniteSet(Hashes)
  BY PoolAssumption
<1>2. IsFiniteSet(S)
  BY <1>1, FS_Subset
<1>3. IsFiniteSet(T) /\ Cardinality(T) <= Cardinality(S)
  BY <1>2, FS_Subset
<1> QED
  BY <1>2, <1>3, FS_CardinalityType

(* Adding one hash makes a set larger by one at most, and not at all if    *)
(* another one of its members goes.                                        *)
LEMMA AddOne ==
    ASSUME NEW S \in SUBSET Hashes, NEW h \in Hashes, NEW x
    PROVE  /\ Cardinality(S \cup {h}) <= Cardinality(S) + 1
           /\ Cardinality((S \ {x}) \cup {h}) <= Cardinality(S) + 1
           /\ x \in S => Cardinality((S \ {x}) \cup {h}) <= Cardinality(S)
<1>1. /\ IsFiniteSet(S) /\ Cardinality(S) \in Nat
      /\ Cardinality(S \ {x}) \in Nat /\ Cardinality(S \ {x}) <= Cardinality(S)
  BY Sizes
<1>2. Cardinality(S \cup {h}) <= Cardinality(S) + 1
  <2>1. Cardinality(S \cup {h}) = IF h \in S THEN Cardinality(S) ELSE Cardinality(S) + 1
    BY <1>1, FS_AddElement
  <2> QED
    BY <2>1, <1>1
<1>3. /\ IsFiniteSet(S \ {x})
      /\ x \in S => Cardinality(S \ {x}) = Cardinality(S) - 1
  BY <1>1, FS_RemoveElement
<1>4. Cardinality((S \ {x}) \cup {h}) <= Cardinality(S \ {x}) + 1
  <2> DEFINE R == S \ {x}
  <2>1. IsFiniteSet(R) /\ Cardinality(R) \in Nat
    BY <1>1, <1>3
  <2> HIDE DEF R
  <2>2. Cardinality(R \cup {h}) = IF h \in R THEN Cardinality(R) ELSE Cardinality(R) + 1
    BY <2>1, FS_AddElement
  <2>3. Cardinality(R \cup {h}) <= Cardinality(R) + 1
    BY <2>1, <2>2
  <2> QED
    BY <2>3 DEF R
<1>5. Cardinality((S \ {x}) \cup {h}) \in Nat
  <2>1. (S \ {x}) \cup {h} \in SUBSET Hashes
    OBVIOUS
  <2> QED
    BY <2>1, Sizes
<1> QED
  BY <1>1, <1>2, <1>3, <1>4, <1>5

-----------------------------------------------------------------------------

(* The slice of one parent, in the terms of MapsAgree.                     *)
SliceOK(seq, exp, S) ==
    /\ Elements(seq) = S
    /\ \A i, j \in DOMAIN seq : i < j =>
          seq[i] # seq[j] /\ exp[seq[i]] <= exp[seq[j]]

(* MapsAgree, one slice at a time.                                         *)
LEMMA MapsAgreeBySlice ==
    MapsAgree <=> \A p \in Parents :
                     SliceOK(prevOrphans[p], expiration, {h \in orphans : PrevBlock[h] = p})
  BY DEF MapsAgree, SliceOK, Elements

(* Taking out orphans whose expiration no longer matters keeps a slice.    *)
LEMMA RemoveKeepsSlice ==
    ASSUME NEW seq \in Seq(Hashes), NEW exp, NEW exp2, NEW S, NEW gone, SliceOK(seq, exp, S),
           \A h \in S \ gone : exp2[h] = exp[h]
    PROVE  /\ Without(seq, gone) \in Seq(Hashes)
           /\ SliceOK(Without(seq, gone), exp2, S \ gone)
<1> DEFINE left == Without(seq, gone)
<1>1. left \in Seq(Hashes) /\ Elements(left) = S \ gone /\ InOrder(left, seq)
  BY WithoutProperties DEF SliceOK
<1> HIDE DEF left
<1>2. ASSUME NEW i \in DOMAIN left, NEW j \in DOMAIN left, i < j
      PROVE  left[i] # left[j] /\ exp2[left[i]] <= exp2[left[j]]
  <2>1. PICK k, l \in DOMAIN seq : k < l /\ left[i] = seq[k] /\ left[j] = seq[l]
    BY <1>1, <1>2 DEF InOrder
  <2>2. seq[k] # seq[l] /\ exp[seq[k]] <= exp[seq[l]]
    BY <2>1 DEF SliceOK
  <2>3. left[i] \in S \ gone /\ left[j] \in S \ gone
    BY <1>1 DEF Elements
  <2>4. exp2[left[i]] = exp[left[i]] /\ exp2[left[j]] = exp[left[j]]
    BY <2>3
  <2> QED
    BY <2>1, <2>2, <2>4
<1>3. SliceOK(left, exp2, S \ gone)
  BY <1>1, <1>2 DEF SliceOK
<1> QED
  BY <1>1, <1>3 DEF left

(* So does an orphan at the end that is new and expires last.              *)
LEMMA AppendKeepsSlice ==
    ASSUME NEW seq \in Seq(Hashes), NEW exp, NEW S, NEW h \in Hashes, SliceOK(seq, exp, S),
           h \notin S, \A k \in S : exp[k] <= exp[h]
    PROVE  Append(seq, h) \in Seq(Hashes) /\ SliceOK(Append(seq, h), exp, S \cup {h})
<1> DEFINE new == Append(seq, h)
           n == Len(seq) + 1
<1>1. /\ new \in Seq(Hashes) /\ DOMAIN new = 1..n /\ DOMAIN seq = 1..(n - 1) /\ n \in Nat \ {0}
      /\ new[n] = h /\ \A i \in 1..(n - 1) : new[i] = seq[i]
  OBVIOUS
<1> HIDE DEF new, n
<1>2. \A i \in 1..(n - 1) : seq[i] \in S
  BY <1>1 DEF SliceOK, Elements
<1>3. Elements(new) = S \cup {h}
  <2>1. ASSUME NEW x \in Elements(new) PROVE x \in S \cup {h}
    <3>1. PICK i \in 1..n : x = new[i]
      BY <1>1, <2>1 DEF Elements
    <3> QED
      BY <1>1, <1>2, <3>1
  <2>2. ASSUME NEW x \in S PROVE x \in Elements(new)
    <3>1. PICK i \in 1..(n - 1) : x = seq[i]
      BY <1>1, <2>2 DEF SliceOK, Elements
    <3> QED
      BY <1>1, <3>1 DEF Elements
  <2>3. h \in Elements(new)
    <3>1. n \in DOMAIN new /\ new[n] = h
      BY <1>1
    <3> QED
      BY <3>1 DEF Elements
  <2> QED
    BY <2>1, <2>2, <2>3
<1>4. ASSUME NEW i \in DOMAIN new, NEW j \in DOMAIN new, i < j
      PROVE  new[i] # new[j] /\ exp[new[i]] <= exp[new[j]]
  <2>1. CASE j = n
    BY <1>1, <1>2, <1>4, <2>1
  <2>2. CASE j # n
    BY <1>1, <1>4, <2>2 DEF SliceOK
  <2> QED
    BY <2>1, <2>2
<1>5. SliceOK(new, exp, S \cup {h})
  BY <1>3, <1>4 DEF SliceOK
<1> QED
  BY <1>1, <1>5 DEF new

-----------------------------------------------------------------------------

(* An empty pool satisfies the invariant.                                  *)
LEMMA InitPool ==
    PoolStart => PoolInv
<1> SUFFICES ASSUME PoolInit, index = {} PROVE PoolInv
  BY DEF PoolStart
<1>1. Cardinality(orphans) = 0
  BY FS_EmptySet DEF PoolInit
<1> QED
  BY <1>1, PoolAssumption
  DEF PoolInit, PoolInv, PoolTypeOK, NothingFromTheFuture, PointerIsOldest,
      PoolBounded, OvershootClearsPointer, MapsAgree

(* addOrphanBlock keeps the invariant.                                     *)
LEMMA AddPreserves ==
    ASSUME PoolInv, NEW h \in Hashes, h \notin orphans, addOrphanBlock(h), UNCHANGED index
    PROVE  PoolInv'
<1> DEFINE live == orphans \ Expired
           full == Cardinality(live) + 1 > MaxOrphanBlocks
<1> USE DEF PoolInv, PoolTypeOK
<1>1. PICK old \in Hashes \cup {NoOrphan}, oldExp \in 0..(MaxTime + Hour) :
          /\ NextOldest(old, oldExp, live)
          /\ IF full
             THEN /\ PoolUpdate(Expired \cup {old}, {h})
                  /\ oldestOrphan' = NoOrphan
                  /\ oldestExpiration' = 0
             ELSE /\ PoolUpdate(Expired, {h})
                  /\ oldestOrphan' = old
                  /\ oldestExpiration' = oldExp
          /\ UNCHANGED now
  BY DEF addOrphanBlock
<1>2. /\ live \in SUBSET Hashes
      /\ Cardinality(live) \in Nat
      /\ Cardinality(live) <= Cardinality(orphans)
      /\ Cardinality(orphans) \in Nat
  BY Sizes DEF Expired
<1>3. PICK gone \in {Expired, Expired \cup {old}} : PoolUpdate(gone, {h})
  BY <1>1
<1>4. \A k \in Hashes : expiration'[k] \in {now + Hour, 0, expiration[k]}
  BY <1>3 DEF PoolUpdate
<1>5. PoolTypeOK'
  <2>1. orphans' \subseteq Hashes
    BY <1>3 DEF PoolUpdate
  <2>2. expiration' \in [Hashes -> Nat]
    BY <1>3, PoolAssumption DEF PoolUpdate
  <2>3. oldestOrphan' \in Hashes \cup {NoOrphan} /\ oldestExpiration' \in Nat /\ now' \in Nat
    BY <1>1, PoolAssumption
  <2>4. prevOrphans' \in [Parents -> Seq(Hashes)]
    <3>1. \A p \in Parents : Without(prevOrphans[p], gone) \in Seq(Hashes)
      BY WithoutProperties
    <3>2. \A p \in Parents : (\E k \in {h} : PrevBlock[k] = p) =>
              Append(Without(prevOrphans[p], gone), CHOOSE k \in {h} : PrevBlock[k] = p)
                 \in Seq(Hashes)
      BY <3>1
    <3> QED
      BY <3>1, <3>2, <1>3 DEF PoolUpdate
  <2> QED
    BY <2>1, <2>2, <2>3, <2>4
(* The pointer after the loop is no younger than what is left of the pool. *)
<1>6. /\ old # NoOrphan => \A k \in live : oldExp <= expiration[k]
      /\ oldExp <= now + Hour
  <2>1. CASE \E k \in live : oldestOrphan = NoOrphan \/ expiration[k] < oldestExpiration
    BY <2>1, <1>1, <1>2 DEF NextOldest, IsOldest, NothingFromTheFuture
  <2>2. CASE ~ \E k \in live : oldestOrphan = NoOrphan \/ expiration[k] < oldestExpiration
    BY <2>2, <1>1, <1>2 DEF NextOldest, NothingFromTheFuture, PointerIsOldest
  <2> QED
    BY <2>1, <2>2
<1>7. NothingFromTheFuture'
  BY <1>1, <1>4, <1>6, PoolAssumption DEF NothingFromTheFuture
<1>8. PointerIsOldest'
  <2>1. CASE full
    BY <2>1, <1>1 DEF PointerIsOldest
  <2>2. CASE ~full
    <3> SUFFICES ASSUME old # NoOrphan, NEW k \in orphans' PROVE oldExp <= expiration'[k]
      BY <2>2, <1>1 DEF PointerIsOldest
    <3>1. PoolUpdate(Expired, {h})
      BY <2>2, <1>1
    <3>2. k \in live \cup {h}
      BY <3>1 DEF PoolUpdate
    <3>3. expiration'[k] = IF k = h THEN now + Hour ELSE expiration[k]
      BY <3>1, <3>2, <1>2 DEF PoolUpdate
    <3> QED
      BY <3>2, <3>3, <1>6
  <2> QED
    BY <2>1, <2>2
<1>9. PoolBounded' /\ OvershootClearsPointer'
  <2>1. CASE ~full
    <3>1. orphans' = live \cup {h}
      BY <2>1, <1>1 DEF PoolUpdate
    <3>2. Cardinality(orphans') \in Nat
      BY <1>5, Sizes
    <3>3. Cardinality(orphans') <= Cardinality(live) + 1
      BY <3>1, <1>2, AddOne
    <3> QED
      BY <2>1, <3>2, <3>3, <1>2, PoolAssumption DEF PoolBounded, OvershootClearsPointer
  <2>2. CASE full
    <3>1. orphans' = (live \ {old}) \cup {h} /\ oldestOrphan' = NoOrphan
      BY <2>2, <1>1 DEF PoolUpdate
    <3>2. Cardinality(orphans') \in Nat
      BY <1>5, Sizes
    (* The pointer was not nil: the pool was not over the limit.           *)
    <3>3. CASE oldestOrphan # NoOrphan
      <4>1. Cardinality(live) <= MaxOrphanBlocks
        BY <3>3, <1>2, PoolAssumption DEF OvershootClearsPointer
      <4>2. Cardinality(orphans') <= Cardinality(live) + 1
        BY <3>1, <1>2, AddOne
      <4> QED
        BY <4>1, <4>2, <3>1, <3>2, <1>2, PoolAssumption DEF PoolBounded, OvershootClearsPointer
    (* It was nil: the loop set it to an orphan in the pool.               *)
    <3>4. CASE oldestOrphan = NoOrphan
      <4>1. live # {}
        <5>1. SUFFICES ASSUME live = {} PROVE FALSE
          OBVIOUS
        <5>2. Cardinality(live) = 0
          BY <5>1, FS_EmptySet
        <5> QED
          BY <5>2, <2>2, PoolAssumption
      <4>2. old \in live
        BY <4>1, <3>4, <1>1 DEF NextOldest
      <4>3. Cardinality(orphans') <= Cardinality(live)
        BY <4>2, <3>1, <1>2, AddOne
      <4> QED
        BY <4>3, <3>1, <3>2, <1>2, PoolAssumption DEF PoolBounded, OvershootClearsPointer
    <3> QED
      BY <3>3, <3>4
  <2> QED
    BY <2>1, <2>2
<1>10. MapsAgree'
  <2> SUFFICES ASSUME NEW p \in Parents
               PROVE  SliceOK(prevOrphans'[p], expiration', {k \in orphans' : PrevBlock[k] = p})
    BY DEF MapsAgree, SliceOK, Elements
  <2> DEFINE S == {k \in orphans : PrevBlock[k] = p}
             left == Without(prevOrphans[p], gone)
  <2>1. SliceOK(prevOrphans[p], expiration, S) /\ prevOrphans[p] \in Seq(Hashes)
    BY MapsAgreeBySlice
  <2>2. \A k \in S \ gone : expiration'[k] = expiration[k]
    BY <1>3 DEF PoolUpdate
  <2>3. left \in Seq(Hashes) /\ SliceOK(left, expiration', S \ gone)
    BY <2>1, <2>2, RemoveKeepsSlice
  <2>4. CASE PrevBlock[h] = p
    <3>1. prevOrphans'[p] = Append(left, h)
      BY <2>4, <1>3 DEF PoolUpdate
    <3>2. {k \in orphans' : PrevBlock[k] = p} = (S \ gone) \cup {h}
      BY <2>4, <1>3 DEF PoolUpdate
    <3>3. h \notin S \ gone /\ \A k \in S \ gone : expiration'[k] <= expiration'[h]
      BY <1>3, <2>2 DEF PoolUpdate, NothingFromTheFuture
    <3>4. SliceOK(Append(left, h), expiration', (S \ gone) \cup {h})
      BY <2>3, <3>3, AppendKeepsSlice
    <3> QED
      BY <3>1, <3>2, <3>4
  <2>5. CASE PrevBlock[h] # p
    <3>1. prevOrphans'[p] = left
      BY <2>5, <1>3 DEF PoolUpdate
    <3>2. {k \in orphans' : PrevBlock[k] = p} = S \ gone
      BY <2>5, <1>3 DEF PoolUpdate
    <3> QED
      BY <2>3, <3>1, <3>2
  <2> QED
    BY <2>4, <2>5
<1> QED
  BY <1>5, <1>7, <1>8, <1>9, <1>10

(* removeOrphanBlock keeps the invariant.                                  *)
LEMMA RemovePreserves ==
    ASSUME PoolInv, NEW h \in Hashes, removeOrphanBlock(h), index' \subseteq index \cup {h}
    PROVE  PoolInv'
<1> USE DEF PoolInv, PoolTypeOK, removeOrphanBlock
<1>1. orphans' \subseteq orphans
  BY DEF PoolUpdate
<1>2. expiration' \in [Hashes -> Nat] /\ \A k \in Hashes : expiration'[k] \in {0, expiration[k]}
  BY DEF PoolUpdate
<1>3. \A k \in orphans' : k \in Hashes /\ expiration'[k] = expiration[k]
  BY <1>1 DEF PoolUpdate
<1>4. Cardinality(orphans') \in Nat /\ Cardinality(orphans') <= Cardinality(orphans)
      /\ Cardinality(orphans) \in Nat
  BY <1>1, Sizes
<1>5. PoolTypeOK'
  <2>1. prevOrphans' = [p \in Parents |-> Without(prevOrphans[p], {h})]
    BY DEF PoolUpdate
  <2>2. prevOrphans' \in [Parents -> Seq(Hashes)]
    BY <2>1, WithoutProperties
  <2> QED
    BY <1>1, <1>2, <2>2
<1>6. NothingFromTheFuture'
  BY <1>2, PoolAssumption DEF NothingFromTheFuture
<1>7. PointerIsOldest'
  BY <1>1, <1>3 DEF PointerIsOldest
<1>8. PoolBounded' /\ OvershootClearsPointer'
  BY <1>4, PoolAssumption DEF PoolBounded, OvershootClearsPointer
<1>9. MapsAgree'
  <2> SUFFICES ASSUME NEW p \in Parents
               PROVE  SliceOK(prevOrphans'[p], expiration', {k \in orphans' : PrevBlock[k] = p})
    BY DEF MapsAgree, SliceOK, Elements
  <2> DEFINE S == {k \in orphans : PrevBlock[k] = p}
  <2>1. SliceOK(prevOrphans[p], expiration, S) /\ prevOrphans[p] \in Seq(Hashes)
    BY MapsAgreeBySlice
  <2>2. \A k \in S \ {h} : expiration'[k] = expiration[k]
    BY DEF PoolUpdate
  <2>3. SliceOK(Without(prevOrphans[p], {h}), expiration', S \ {h})
    BY <2>1, <2>2, RemoveKeepsSlice
  <2>4. prevOrphans'[p] = Without(prevOrphans[p], {h})
    BY DEF PoolUpdate
  <2>5. {k \in orphans' : PrevBlock[k] = p} = S \ {h}
    BY DEF PoolUpdate
  <2> QED
    BY <2>3, <2>4, <2>5
<1> QED
  BY <1>5, <1>6, <1>7, <1>8, <1>9

(* Every step keeps the invariant.                                         *)
LEMMA NextPreserves ==
    PoolInv /\ [PoolNext]_<<index, poolVars>> => PoolInv'
<1> SUFFICES ASSUME PoolInv, [PoolNext]_<<index, poolVars>> PROVE PoolInv'
  OBVIOUS
<1>1. ASSUME NEW h \in Hashes, ProcessOrphan(h) PROVE PoolInv'
  BY <1>1, AddPreserves DEF ProcessOrphan
<1>2. CASE UNCHANGED poolVars /\ index' \subseteq Hashes \cup Roots
  BY <1>2 DEF poolVars, PoolInv, PoolTypeOK, NothingFromTheFuture, PointerIsOldest,
      PoolBounded, OvershootClearsPointer, MapsAgree
<1>3. ASSUME NEW b \in Hashes \cup Roots, AcceptBlock(b) PROVE PoolInv'
  BY <1>3, <1>2 DEF AcceptBlock, PoolInv, PoolTypeOK
<1>4. ASSUME NEW p \in Parents, TakeOrphan(p) PROVE PoolInv'
  <2> DEFINE h == Head(prevOrphans[p])
  <2>1. removeOrphanBlock(h) /\ h \in Hashes /\ index' \subseteq index \cup {h}
    BY <1>4 DEF TakeOrphan, PoolInv, PoolTypeOK
  <2> HIDE DEF h
  <2> QED
    BY <2>1, RemovePreserves
<1>5. CASE Tick /\ UNCHANGED index
  BY <1>5, PoolAssumption DEF Tick, PoolInv, PoolTypeOK, NothingFromTheFuture,
      PointerIsOldest, PoolBounded, OvershootClearsPointer, MapsAgree
<1>6. CASE UNCHANGED <<index, poolVars>>
  BY <1>6, <1>2 DEF PoolInv, PoolTypeOK
<1> QED
  BY <1>1, <1>3, <1>4, <1>5, <1>6 DEF PoolNext

(* The inductive invariant holds in every state of every pool.             *)
THEOREM PoolInvariance == PoolSpec => []PoolInv
<1> QED
  BY InitPool, NextPreserves, PTL DEF PoolSpec

(* The fields of the pool keep their types.                                *)
THEOREM PoolTypes == PoolSpec => []PoolTypeOK
<1>1. PoolInv => PoolTypeOK
  BY DEF PoolInv
<1> QED
  BY <1>1, PoolInvariance, PTL

(* orphans and prevOrphans describe the same orphans, and every slice of   *)
(* prevOrphans holds each of them once, in the order of arrival, whatever  *)
(* removeOrphanBlock and addOrphanBlock take out.                          *)
THEOREM MapsAlwaysAgree == PoolSpec => []MapsAgree
<1>1. PoolInv => MapsAgree
  BY DEF PoolInv
<1> QED
  BY <1>1, PoolInvariance, PTL

(* addOrphanBlock keeps the pool within maxOrphanBlocks + 1, whatever the  *)
(* limit is and however many orphans have expired or found their parent.   *)
THEOREM PoolIsBounded == PoolSpec => []PoolBounded
<1>1. PoolInv => PoolBounded
  BY DEF PoolInv
<1> QED
  BY <1>1, PoolInvariance, PTL

(* An add that leaves the pool over the limit has cleared oldestOrphan.    *)
THEOREM OvershootAlwaysClears == PoolSpec => []OvershootClearsPointer
<1>1. PoolInv => OvershootClearsPointer
  BY DEF PoolInv
<1> QED
  BY <1>1, PoolInvariance, PTL

(* oldestOrphan, even when it points to a removed orphan, expires no later *)
(* than any pooled orphan.                                                 *)
THEOREM PointerAlwaysOldest == PoolSpec => []PointerIsOldest
<1>1. PoolInv => PointerIsOldest
  BY DEF PoolInv
<1> QED
  BY <1>1, PoolInvariance, PTL

=============================================================================
