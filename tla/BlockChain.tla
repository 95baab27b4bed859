----------------------------- MODULE BlockChain -----------------------------
(***************************************************************************)
(* BlockChain of pkg/chain: the block index, the best chain, the orphan    *)
(* pool and the database buckets behind them, and ProcessBlock, which      *)
(* feeds one block into them.                                              *)
(*                                                                         *)
(* The model has one caller of ProcessBlock, the block handler of the sync *)
(* manager, through which peers, the miners and submitblock go (the        *)
(* getwork RPC, which calls ProcessBlock on its own goroutine, is not      *)
(* modelled).  Its chain lock is let go around every notification and each *)
(* database transaction commits on its own, so one call is a sequence of   *)
(* steps: pc says which comes next.  Between any two of them other         *)
(* goroutines read the chain and the process may die.                      *)
(*                                                                         *)
(* db is the database as its transactions left it, disk the part that the  *)
(* write cache of ffldb has flushed; a crash loses the difference.         *)
(***************************************************************************)
EXTENDS UtxoSet, FiniteSetsExt

CONSTANTS
    MaxOrphanBlocks, Hour, MaxTime,   \* see OrphanPool
    FastAdd,                          \* the BFFastAdd flags a caller may pass
    MayCrash                          \* whether the process may die

ASSUME ChainAssumption == FastAdd \subseteq BOOLEAN /\ MayCrash \in BOOLEAN

VARIABLES
    now, orphans, expiration, prevOrphans, oldestOrphan, oldestExpiration,
    index,          \* b.Index.index: the blocks that have a node
    status,         \* node.status of an indexed block
    dirty,          \* b.Index.dirty
    workSum,        \* node.workSum
    tip,            \* b.bestChain.Tip()
    db, disk,
    pc,             \* the next step of the call in progress
    block, fastAdd, \* the arguments of ProcessBlock
    node,           \* the block maybeAcceptBlock is working on
    isMainChain,    \* what connectBestChain returned for block
    processHashes,  \* the queue of processOrphans
    detachNodes, attachNodes,   \* the two lists of a reorganization
    view, verified, \* its check phase: the utxo view, and the nodes checked
    err,            \* how reorganizeChain ended
    ret             \* what the last ProcessBlock returned

INSTANCE OrphanPool WITH
    Hashes <- Blocks \ {Genesis}, PrevBlock <- Parent, NoOrphan <- NoBlock

orphanVars == <<now, orphans, expiration, prevOrphans, oldestOrphan, oldestExpiration>>
indexVars == <<index, status, dirty, workSum>>
reorgVars == <<detachNodes, attachNodes, view, verified, err>>
callVars  == <<block, fastAdd, processHashes>>
vars == <<orphanVars, indexVars, tip, db, disk, pc, callVars, node, isMainChain,
          reorgVars, ret>>

StatusFlag == {"DataStored", "Valid", "ValidateFailed", "InvalidAncestor"}

KnownValid(b) == "Valid" \in status[b]
KnownInvalid(b) == status[b] \cap {"ValidateFailed", "InvalidAncestor"} # {}

(* The error values: nil, a RuleError, an AssertError.                     *)
Error == {"nil", "rule", "assert"}

(* A block status set with SetStatusFlags on a set of nodes.               *)
Flagged(S, flag) == [b \in Blocks |-> status[b] \cup (IF b \in S THEN {flag} ELSE {})]

(* bestChain.Contains: the chain view holds the ancestors of the tip.      *)
bestChain == Ancestors[tip]

-----------------------------------------------------------------------------
(* The database buckets: the stored blocks, the block index rows (a block  *)
(* with no row has an empty status), the main chain's hash index, the best *)
(* state, the utxo set and the spend journal.                              *)

genesisDB ==
    [blocks |-> {Genesis},
     rows |-> [b \in Blocks |-> IF b = Genesis THEN {"DataStored", "Valid"} ELSE {}],
     main |-> {Genesis},
     tip |-> Genesis,
     totalTxns |-> Len(BlockTxs[Genesis]),
     utxo |-> EmptyUtxo,
     journal |-> [b \in Blocks |-> EmptyUtxo]]

(* flushToDB, with the statuses the caller has set.                        *)
Flushed(d, st, dirt) ==
    [d EXCEPT !.rows = [b \in Blocks |-> IF b \in dirt THEN st[b] ELSE d.rows[b]]]

(* The transactions of connectBlock and of disconnectBlock.                *)
ConnectBlockTx(d, b) ==
    [d EXCEPT !.tip = b,
              !.totalTxns = @ + Len(BlockTxs[b]),
              !.main = @ \cup {b},
              !.utxo = Commit(ConnectTransactions(d.utxo, b)),
              !.journal[b] = SpentTxOuts(d.utxo, b)]

(* Mutant: disconnectBlock counts the transactions of the previous block.  *)
DisconnectMiscounts(d, b) ==
    [d EXCEPT !.tip = Parent[b], !.totalTxns = @ - Len(BlockTxs[Parent[b]]),
              !.main = @ \ {b},
              !.utxo = Commit(DisconnectTransactions(d.utxo, b, d.journal[b])),
              !.journal[b] = EmptyUtxo]

DisconnectBlockTx(d, b) ==
    [d EXCEPT !.tip = Parent[b],
              !.totalTxns = @ - Len(BlockTxs[b]),
              !.main = @ \ {b},
              !.utxo = Commit(DisconnectTransactions(d.utxo, b, d.journal[b])),
              !.journal[b] = EmptyUtxo]

(* createChainState.                                                       *)
Init ==
    /\ PoolInit
    /\ index = {Genesis}
    /\ status = [b \in Blocks |-> IF b = Genesis THEN {"DataStored", "Valid"} ELSE {}]
    /\ dirty = {}
    /\ workSum = [b \in Blocks |-> IF b = Genesis THEN Work[b] ELSE 0]
    /\ tip = Genesis
    /\ db = genesisDB
    /\ disk = genesisDB
    /\ pc = "idle"
    /\ block = NoBlock /\ fastAdd = FALSE /\ processHashes = <<>>
    /\ node = NoBlock /\ isMainChain = FALSE
    /\ detachNodes = {} /\ attachNodes = {}
    /\ view = EmptyUtxo /\ verified = {} /\ err = "nil"
    /\ ret = [block |-> NoBlock, isMain |-> FALSE, isOrphan |-> FALSE, err |-> "nil"]

-----------------------------------------------------------------------------
(* ProcessBlock, up to the first change of state.                          *)

(* ProcessBlock returns: the locals of the call are gone.                  *)
Return(b, main, orphan, e) ==
    /\ pc' = "idle"
    /\ ret' = [block |-> b, isMain |-> main, isOrphan |-> orphan, err |-> e]
    /\ block' = NoBlock /\ fastAdd' = FALSE /\ processHashes' = <<>>
    /\ node' = NoBlock /\ isMainChain' = FALSE
    /\ detachNodes' = {} /\ attachNodes' = {}
    /\ view' = EmptyUtxo /\ verified' = {} /\ err' = "nil"

blockExists(b) == b \in index \/ (b \in db.blocks /\ b \in db.main)

(* A block that is already indexed or pooled, or that fails the checks     *)
(* that need no context, is turned away.                                   *)
ProcessRejected(b) ==
    /\ pc = "idle"
    /\ blockExists(b) \/ b \in orphans \/ b \notin Sane
    /\ Return(b, FALSE, FALSE, "rule")
    /\ UNCHANGED <<orphanVars, indexVars, tip, db, disk>>

ProcessOrphanBlock(b) ==
    /\ pc = "idle"
    /\ ~blockExists(b) /\ b \notin orphans /\ b \in Sane
    /\ ~blockExists(Parent[b])
    /\ addOrphanBlock(b)
    /\ Return(b, FALSE, TRUE, "nil")
    /\ UNCHANGED <<indexVars, tip, db, disk>>

ProcessBlock(b, fast) ==
    /\ pc = "idle"
    /\ ~blockExists(b) /\ b \notin orphans /\ b \in Sane
    /\ blockExists(Parent[b])
    /\ pc' = "accept"
    /\ block' = b /\ fastAdd' = fast /\ node' = b
    /\ UNCHANGED <<orphanVars, indexVars, tip, db, disk, processHashes, isMainChain,
                   reorgVars, ret>>

-----------------------------------------------------------------------------
(* maybeAcceptBlock on node.  Any error of it ends ProcessBlock, whether   *)
(* node is the block of the call or one of its orphans.                    *)

AcceptFails(e) ==
    /\ Return(block, FALSE, FALSE, e)
    /\ UNCHANGED <<orphanVars, tip, disk>>

(* maybeAcceptBlock finds the parent unknown or invalid, or a blacklisted  *)
(* address.                                                                *)
RejectBlock ==
    /\ pc = "accept"
    /\ Parent[node] \notin index \/ KnownInvalid(Parent[node]) \/ node \in Blacklisted
    /\ AcceptFails("rule")
    /\ UNCHANGED <<indexVars, db>>

(* Mutant: the block is not stored.                                        *)
StoreNothing ==
    /\ pc = "accept"
    /\ Parent[node] \in index /\ ~KnownInvalid(Parent[node]) /\ node \notin Blacklisted
    /\ pc' = "addnode"
    /\ UNCHANGED <<orphanVars, indexVars, tip, db, disk, callVars, node, isMainChain,
                   reorgVars, ret>>

(* dbStoreBlock; the block has no node yet.                                *)
StoreBlock ==
    /\ pc = "accept"
    /\ Parent[node] \in index /\ ~KnownInvalid(Parent[node]) /\ node \notin Blacklisted
    /\ db' = [db EXCEPT !.blocks = @ \cup {node}]
    /\ pc' = "addnode"
    /\ UNCHANGED <<orphanVars, indexVars, tip, disk, callVars, node, isMainChain,
                   reorgVars, ret>>

(* newBlockNode, AddNode, flushToDB.  initBlockNode sums the work of the   *)
(* block and of its parent only, and resets the parent's sum to its own.   *)
InitWork(sums, b) ==
    [sums EXCEPT ![b] = Work[b] + Work[Parent[b]], ![Parent[b]] = Work[Parent[b]]]

AddNode ==
    /\ pc = "addnode"
    /\ index' = index \cup {node}
    /\ status' = [status EXCEPT ![node] = {"DataStored"}]
    /\ workSum' = InitWork(workSum, node)
    /\ db' = Flushed(db, status', dirty \cup {node})
    /\ dirty' = {}
    /\ pc' = "check"
    /\ UNCHANGED <<orphanVars, tip, disk, callVars, node, isMainChain, reorgVars, ret>>

(* connectBestChain, first part: checkConnectBlock runs on a fresh view,   *)
(* which reads the utxo set of the current tip, whatever the parent of the *)
(* block is; the verdict is recorded and flushed.                          *)
CheckFailsUnflushed ==   \* mutant: the verdict is neither flushed nor left dirty
    /\ pc = "check"
    /\ ~CheckConnectBlock(db.utxo, node)
    /\ status' = Flagged({node}, "ValidateFailed")
    /\ AcceptFails("rule")
    /\ UNCHANGED <<index, dirty, workSum, db>>

CheckFailsGoesOn ==      \* mutant: the early return after a RuleError is missing
    /\ pc = "check"
    /\ ~CheckConnectBlock(db.utxo, node)
    /\ status' = Flagged({node}, "ValidateFailed")
    /\ db' = Flushed(db, status', dirty \cup {node})
    /\ dirty' = {}
    /\ pc' = "connect"
    /\ UNCHANGED <<orphanVars, index, workSum, tip, disk, callVars, node, isMainChain,
                   reorgVars, ret>>

CheckFails ==
    /\ pc = "check"
    /\ ~CheckConnectBlock(db.utxo, node)
    /\ status' = Flagged({node}, "ValidateFailed")
    /\ db' = Flushed(db, status', dirty \cup {node})
    /\ dirty' = {}
    /\ AcceptFails("rule")
    /\ UNCHANGED <<index, workSum>>

CheckPasses ==
    /\ pc = "check"
    /\ CheckConnectBlock(db.utxo, node)
    /\ status' = Flagged({node}, "Valid")
    /\ db' = Flushed(db, status', dirty \cup {node})
    /\ dirty' = {}
    /\ pc' = "connect"
    /\ UNCHANGED <<orphanVars, index, workSum, tip, disk, callVars, node, isMainChain,
                   reorgVars, ret>>

(* ProcessBlock reports what connectBestChain returned for its own block;  *)
(* processOrphans drops what it returned for an orphan.                    *)
MainChainReturned(main) ==
    isMainChain' = IF node = block THEN main ELSE isMainChain

(* connectBestChain, second part: connectBlock on every block.  It fails   *)
(* with an AssertError, which is only logged, for a block that does not    *)
(* extend the tip; and for a fast-added block that spends anything, since  *)
(* its spent outputs have been collected twice by then.                    *)
ExtendsAnything(b) == fastAdd => Ins(b) = {}   \* mutant: the tip is not compared

ExtendsTip(b) == Parent[b] = tip /\ (fastAdd => Ins(b) = {})

ConnectToTip ==
    /\ pc = "connect"
    /\ IF ExtendsTip(node)
       THEN /\ db' = ConnectBlockTx(Flushed(db, status, dirty), node)
            /\ tip' = node
            /\ dirty' = {}
       ELSE UNCHANGED <<db, tip, dirty>>
    /\ IF fastAdd
       THEN pc' = "accepted" /\ MainChainReturned(TRUE)
       ELSE pc' = "choose" /\ UNCHANGED isMainChain
    /\ UNCHANGED <<orphanVars, index, status, workSum, disk, callVars, node, reorgVars, ret>>

(* connectBestChain, third part: the work of the block alone against the   *)
(* sum of the tip.                                                         *)
OwnWork(sums, b) == [sums EXCEPT ![b] = Work[b]]

HasMoreWork(sums, b) == sums[b] > sums[tip]

KeepBestChain ==
    /\ pc = "choose"
    /\ ~HasMoreWork(OwnWork(workSum, node), node)
    /\ workSum' = OwnWork(workSum, node)
    /\ MainChainReturned(FALSE)
    /\ pc' = "accepted"
    /\ UNCHANGED <<orphanVars, index, status, dirty, tip, db, disk, callVars, node,
                   reorgVars, ret>>

-----------------------------------------------------------------------------
(* getReorganizeNodes: the blocks of the branch of node that the best      *)
(* chain does not have, and the invalid ones among them.                   *)

Branch == Ancestors[node] \ bestChain
InvalidBlocks == {b \in Branch : KnownInvalid(b)}

(* A branch with an invalid block gives two empty lists: the blocks above  *)
(* the invalid one are flagged, reorganizeChain has nothing to do and      *)
(* connectBestChain returns true.                                          *)
InvalidBranch == KnownInvalid(Parent[node]) \/ InvalidBlocks # {}

RefuseBranch ==
    /\ pc = "choose"
    /\ HasMoreWork(OwnWork(workSum, node), node)
    /\ InvalidBranch
    /\ workSum' = OwnWork(workSum, node)
    /\ status' = Flagged({b \in Branch : \A k \in InvalidBlocks : Height[b] > Height[k]},
                          "InvalidAncestor")
    /\ db' = Flushed(db, status', dirty \cup Branch)
    /\ dirty' = {}
    /\ MainChainReturned(TRUE)
    /\ pc' = "accepted"
    /\ UNCHANGED <<orphanVars, index, tip, disk, callVars, node, reorgVars, ret>>

StartReorganize ==
    /\ pc = "choose"
    /\ HasMoreWork(OwnWork(workSum, node), node)
    /\ ~InvalidBranch
    /\ workSum' = OwnWork(workSum, node)
    /\ detachNodes' = bestChain \ Ancestors[node]
    /\ attachNodes' = Branch
    /\ view' = db.utxo
    /\ verified' = {}
    /\ err' = "nil"
    /\ pc' = "verify"
    /\ UNCHANGED <<orphanVars, index, status, dirty, tip, db, disk, callVars, node,
                   isMainChain, ret>>

-----------------------------------------------------------------------------
(* reorganizeChain, check phase: the blocks to detach are undone in a      *)
(* view, last first, and the blocks to attach are connected to it.  A      *)
(* block that is already known valid is not checked again.                 *)

Highest(S) == CHOOSE b \in S : \A c \in S : Height[c] <= Height[b]
Lowest(S) == CHOOSE b \in S : \A c \in S : Height[b] <= Height[c]

ToDetach == detachNodes \ verified
ToAttach == attachNodes \ verified

VerifyDetach ==
    /\ pc = "verify"
    /\ ToDetach # {}
    /\ LET n == Highest(ToDetach)
       IN  /\ view' = DisconnectTransactions(view, n, db.journal[n])
           /\ verified' = verified \cup {n}
    /\ UNCHANGED <<orphanVars, indexVars, tip, db, disk, pc, callVars, node, isMainChain,
                   detachNodes, attachNodes, err, ret>>

VerifyAttach ==
    /\ pc = "verify"
    /\ ToDetach = {} /\ ToAttach # {}
    /\ LET n == Lowest(ToAttach)
       IN  /\ IF KnownValid(n) THEN ~MissingInput(view, n) ELSE CheckConnectBlock(view, n)
           /\ view' = ConnectTransactions(view, n)
           /\ verified' = verified \cup {n}
           /\ IF KnownValid(n)
              THEN UNCHANGED <<status, dirty>>
              ELSE status' = Flagged({n}, "Valid") /\ dirty' = dirty \cup {n}
    /\ UNCHANGED <<orphanVars, index, workSum, tip, db, disk, pc, callVars, node, isMainChain,
                   detachNodes, attachNodes, err, ret>>

VerifyFails ==
    /\ pc = "verify"
    /\ ToDetach = {} /\ ToAttach # {}
    /\ LET n == Lowest(ToAttach)
       IN  IF KnownValid(n)
           THEN /\ MissingInput(view, n)
                /\ err' = "assert"
                /\ UNCHANGED <<status, dirty>>
           ELSE /\ ~CheckConnectBlock(view, n)
                /\ err' = "rule"
                /\ status' = [b \in Blocks |-> status[b] \cup
                                 (IF b = n THEN {"ValidateFailed"}
                                  ELSE IF b \in ToAttach THEN {"InvalidAncestor"} ELSE {})]
                /\ dirty' = dirty \cup ToAttach
    /\ pc' = "reorganized"
    /\ UNCHANGED <<orphanVars, index, workSum, tip, db, disk, callVars, node, isMainChain,
                   detachNodes, attachNodes, view, verified, ret>>

VerifyDone ==
    /\ pc = "verify"
    /\ ToDetach = {} /\ ToAttach = {}
    /\ pc' = "switch"
    /\ UNCHANGED <<orphanVars, indexVars, tip, db, disk, callVars, node, isMainChain,
                   reorgVars, ret>>

-----------------------------------------------------------------------------
(* reorganizeChain, second phase: one disconnectBlock or connectBlock at a *)
(* time, each with a flush of the dirty statuses before its transaction    *)
(* and a notification, with the chain lock released, after it.             *)

(* connectTransactions fails before connectBlock is reached.               *)
AttachFails == detachNodes = {} /\ attachNodes # {} /\ MissingInput(db.utxo, Lowest(attachNodes))

FlushStatuses ==
    /\ pc = "switch"
    /\ dirty # {} /\ ~AttachFails
    /\ db' = Flushed(db, status, dirty)
    /\ dirty' = {}
    /\ UNCHANGED <<orphanVars, index, status, workSum, tip, disk, pc, callVars, node,
                   isMainChain, reorgVars, ret>>

DetachBlock ==
    /\ pc = "switch"
    /\ dirty = {}
    /\ detachNodes # {}
    /\ LET n == Highest(detachNodes)
       IN  /\ n = tip
           /\ db' = DisconnectBlockTx(db, n)
           /\ tip' = Parent[n]
           /\ detachNodes' = detachNodes \ {n}
    /\ UNCHANGED <<orphanVars, indexVars, disk, pc, callVars, node, isMainChain,
                   attachNodes, view, verified, err, ret>>

AttachBlock ==
    /\ pc = "switch"
    /\ dirty = {}
    /\ detachNodes = {} /\ attachNodes # {} /\ ~AttachFails
    /\ LET n == Lowest(attachNodes)
       IN  /\ Parent[n] = tip
           /\ db' = ConnectBlockTx(db, n)
           /\ tip' = n
           /\ attachNodes' = attachNodes \ {n}
    /\ UNCHANGED <<orphanVars, indexVars, disk, pc, callVars, node, isMainChain,
                   detachNodes, view, verified, err, ret>>

(* The second phase stops where it is when an attach fails.                *)
StopReorganize ==
    /\ pc = "switch"
    /\ AttachFails \/ (detachNodes = {} /\ attachNodes = {})
    /\ err' = IF AttachFails THEN "assert" ELSE "nil"
    /\ pc' = "reorganized"
    /\ UNCHANGED <<orphanVars, indexVars, tip, db, disk, callVars, node, isMainChain,
                   detachNodes, attachNodes, view, verified, ret>>

(* connectBestChain flushes whatever the reorganization left dirty.        *)
EndReorganize ==
    /\ pc = "reorganized"
    /\ db' = Flushed(db, status, dirty)
    /\ dirty' = {}
    /\ IF err = "nil"
       THEN /\ MainChainReturned(TRUE)
            /\ pc' = "accepted"
            /\ detachNodes' = {} /\ attachNodes' = {}
            /\ view' = EmptyUtxo /\ verified' = {}
            /\ UNCHANGED <<orphanVars, tip, disk, callVars, node, err, ret>>
       ELSE AcceptFails(err)
    /\ UNCHANGED <<index, status, workSum>>

-----------------------------------------------------------------------------
(* The end of maybeAcceptBlock (NTBlockAccepted) and processOrphans.       *)

BlockAccepted ==
    /\ pc = "accepted"
    /\ processHashes' = Append(processHashes, node)
    /\ pc' = "orphans"
    /\ UNCHANGED <<orphanVars, indexVars, tip, db, disk, block, fastAdd, node, isMainChain,
                   reorgVars, ret>>

OrphansOf(b) == IF b \in Parents THEN prevOrphans[b] ELSE <<>>

(* Mutant: the orphan stays in the pool.                                   *)
NextOrphanKept ==
    /\ pc = "orphans"
    /\ processHashes # <<>>
    /\ OrphansOf(Head(processHashes)) # <<>>
    /\ node' = Head(OrphansOf(Head(processHashes)))
    /\ pc' = "accept"
    /\ UNCHANGED <<orphanVars, indexVars, tip, db, disk, callVars, isMainChain, reorgVars,
                   ret>>

(* An orphan leaves the pool before it is known whether it is accepted.    *)
NextOrphan ==
    /\ pc = "orphans"
    /\ processHashes # <<>>
    /\ OrphansOf(Head(processHashes)) # <<>>
    /\ LET o == Head(OrphansOf(Head(processHashes)))
       IN  removeOrphanBlock(o) /\ node' = o
    /\ pc' = "accept"
    /\ UNCHANGED <<indexVars, tip, db, disk, callVars, isMainChain, reorgVars, ret>>

(* Mutant: the hash is not popped.                                         *)
NextHashAgain ==
    /\ pc = "orphans"
    /\ processHashes # <<>>
    /\ OrphansOf(Head(processHashes)) = <<>>
    /\ UNCHANGED vars

NextHash ==
    /\ pc = "orphans"
    /\ processHashes # <<>>
    /\ OrphansOf(Head(processHashes)) = <<>>
    /\ processHashes' = Tail(processHashes)
    /\ UNCHANGED <<orphanVars, indexVars, tip, db, disk, pc, block, fastAdd, node,
                   isMainChain, reorgVars, ret>>

FinishProcess ==
    /\ pc = "orphans"
    /\ processHashes = <<>>
    /\ Return(block, isMainChain, FALSE, "nil")
    /\ UNCHANGED <<orphanVars, indexVars, tip, db, disk>>

-----------------------------------------------------------------------------
(* The database cache and the process.  Where a crash is not modelled, the *)
(* flushes it would go back to are not either.                             *)

FlushCache ==
    /\ MayCrash
    /\ disk # db
    /\ pc # "down"
    /\ disk' = db
    /\ UNCHANGED <<orphanVars, indexVars, tip, db, pc, callVars, node, isMainChain,
                   reorgVars, ret>>

Crash ==
    /\ MayCrash
    /\ pc # "down"
    /\ db' = disk
    /\ pc' = "down"
    /\ orphans' = {} /\ oldestOrphan' = NoBlock /\ oldestExpiration' = 0
    /\ expiration' = [b \in Blocks \ {Genesis} |-> 0]
    /\ prevOrphans' = [p \in Parents |-> <<>>]
    /\ index' = {} /\ status' = [b \in Blocks |-> {}] /\ dirty' = {}
    /\ workSum' = [b \in Blocks |-> 0]
    /\ tip' = NoBlock
    /\ block' = NoBlock /\ fastAdd' = FALSE /\ processHashes' = <<>>
    /\ node' = NoBlock /\ isMainChain' = FALSE
    /\ detachNodes' = {} /\ attachNodes' = {}
    /\ view' = EmptyUtxo /\ verified' = {} /\ err' = "nil"
    /\ ret' = [block |-> NoBlock, isMain |-> FALSE, isOrphan |-> FALSE, err |-> "nil"]
    /\ UNCHANGED <<now, disk>>

(* initChainState on what the database kept.  Rows are read by height, so  *)
(* a node that has children ends up with its own work as its sum.          *)
LoadedWork(loaded, b) ==
    IF b \notin loaded THEN 0
    ELSE IF \E c \in loaded \ {Genesis} : Parent[c] = b THEN Work[b]
    ELSE IF b = Genesis THEN 0 ELSE Work[b] + Work[Parent[b]]

Restart ==
    /\ pc = "down"
    /\ index' = {b \in Blocks : db.rows[b] # {}}
    /\ status' = [b \in Blocks |-> IF b \in Ancestors[db.tip]
                                   THEN db.rows[b] \cup {"Valid"} ELSE db.rows[b]]
    /\ workSum' = [b \in Blocks |-> LoadedWork(index', b)]
    /\ tip' = db.tip
    /\ db' = [db EXCEPT !.rows = status']
    /\ pc' = "idle"
    /\ UNCHANGED <<orphanVars, dirty, disk, callVars, node, isMainChain, reorgVars, ret>>

ClockTick ==
    /\ Tick
    /\ UNCHANGED <<indexVars, tip, db, disk, pc, callVars, node, isMainChain, reorgVars, ret>>

(* The steps that finish a call that has begun.                            *)
Continue ==
    \/ RejectBlock \/ StoreBlock \/ AddNode \/ CheckFails \/ CheckPasses \/ ConnectToTip
    \/ KeepBestChain \/ RefuseBranch \/ StartReorganize
    \/ VerifyDetach \/ VerifyAttach \/ VerifyFails \/ VerifyDone
    \/ FlushStatuses \/ DetachBlock \/ AttachBlock \/ StopReorganize \/ EndReorganize
    \/ BlockAccepted \/ NextOrphan \/ NextHash \/ FinishProcess

Next ==
    \/ \E b \in Blocks \ {Genesis} :
          ProcessRejected(b) \/ ProcessOrphanBlock(b) \/ \E f \in FastAdd : ProcessBlock(b, f)
    \/ Continue
    \/ FlushCache \/ Crash \/ Restart \/ ClockTick

Spec == Init /\ [][Next]_vars

(* The block handler runs a call to its end, and a process that died is    *)
(* started again; nothing obliges anyone to submit a block.                *)
FairSpec == Spec /\ WF_vars(Continue) /\ WF_vars(Restart)

-----------------------------------------------------------------------------
(* Types.                                                                  *)
UtxoType == [Outputs -> Entry \cup {NoEntry}]

DBTypeOK(d) ==
    /\ d.blocks \subseteq Blocks
    /\ d.rows \in [Blocks -> SUBSET StatusFlag]
    /\ d.main \subseteq Blocks
    /\ d.tip \in Blocks
    /\ d.totalTxns \in Int
    /\ d.utxo \in UtxoType
    /\ d.journal \in [Blocks -> UtxoType]

TypeOK ==
    /\ index \subseteq Blocks /\ dirty \subseteq Blocks
    /\ status \in [Blocks -> SUBSET StatusFlag]
    /\ workSum \in [Blocks -> Nat]
    /\ tip \in Blocks \cup {NoBlock}
    /\ DBTypeOK(db) /\ DBTypeOK(disk)
    /\ pc \in {"idle", "accept", "addnode", "check", "connect", "choose", "verify",
               "switch", "reorganized", "accepted", "orphans", "down"}
    /\ block \in Blocks \cup {NoBlock} /\ fastAdd \in BOOLEAN
    /\ node \in Blocks \cup {NoBlock} /\ isMainChain \in BOOLEAN
    /\ processHashes \in Seq(Blocks)
    /\ detachNodes \subseteq Blocks /\ attachNodes \subseteq Blocks /\ verified \subseteq Blocks
    /\ view \in [Outputs -> Entry \cup {NoEntry, SpentEntry}]
    /\ err \in Error
    /\ ret \in [block : Blocks \cup {NoBlock}, isMain : BOOLEAN, isOrphan : BOOLEAN, err : Error]

(* The blocks with a row, and whether two of them, of different heights,   *)
(* have the same coinbase: nothing in ProcessBlock prevents it, see        *)
(* CoinbasesDiffer.                                                        *)
Accepted(d) == {b \in Blocks : d.rows[b] # {}}

CoinbaseRepeated(d) == ~CoinbasesDiffer(Accepted(d))

(* The utxo bucket and the spend journal, after any number of connects,    *)
(* disconnects, failed reorganizations and crashes, are what the blocks of *)
(* the main chain alone determine (dbPutUtxoView, dbPutSpendJournalEntry), *)
(* unless a block has been accepted that repeats a coinbase: on the main   *)
(* chain it overwrites the entry of the first one, which is not restored.  *)
(* Like the next two, this is about db; disk is always a db of the past.   *)
UtxoIsReplay ==
    CoinbaseRepeated(db) \/
        /\ db.utxo = UtxoOf(db.main)
        /\ \A b \in Blocks : \A o \in Outputs :
              db.journal[b][o] = IF b \in db.main \ {Genesis} /\ o \in Ins(b)
                                 THEN NewEntry(CreatorIn(db.main \ {Genesis}, o), o)
                                 ELSE NoEntry

(* The best state agrees with the hash index, also where a reorganization  *)
(* stopped half way: it is the end of the chain the index holds, and       *)
(* TotalTxns counts the transactions of that chain.                        *)
BestStateConsistent ==
    /\ db.main = Ancestors[db.tip]
    /\ db.totalTxns = Cardinality(TxnsOf(db.main))

(* What initChainState insists on, in every state a crash can go back to:  *)
(* the rows form a tree from the genesis block, every row has its block,   *)
(* and the rows hold the main chain, all of it fully validated (flushToDB  *)
(* runs before the best state moves).                                      *)
Recoverable ==
    /\ \A b \in Blocks : db.rows[b] # {} => /\ b \in db.blocks
                                            /\ b # Genesis => db.rows[Parent[b]] # {}
    /\ \A b \in db.main : "Valid" \in db.rows[b]

(* The in-memory chain and the database never drift apart between two      *)
(* steps: same tip, same nodes, and a node whose status differs from its   *)
(* row is dirty.                                                           *)
MemoryMatchesDB ==
    pc # "down" =>
        /\ tip = db.tip
        /\ \A b \in Blocks : b \in index <=> db.rows[b] # {}
        /\ \A b \in index \ dirty : status[b] = db.rows[b]

(* No block on the main chain is known to be invalid or has an ancestor    *)
(* that is (KnownInvalid is final: nothing unsets it).                     *)
MainChainNotInvalid ==
    pc # "down" => \A b \in bestChain : KnownValid(b) /\ ~KnownInvalid(b)

(* Between calls every status is in the database, and no block is both     *)
(* pooled and indexed (processOrphans takes it out of the pool first).     *)
IdleIsClean == pc = "idle" => dirty = {} /\ orphans \cap index = {}

(* The database of a node implements a ledger: see Ledger.                 *)
Chain == INSTANCE Ledger WITH best <- db.tip, coins <- db.utxo, saved <- disk.tip,
                              repeated <- CoinbaseRepeated(db)

ImplementsLedger == Chain!LedgerSpec

(* connectBestChain selects "the chain with the most proof of work",       *)
(* cumulatively, among those it has no objection to.                       *)
ChainWork(b) == MapThenSumSet(LAMBDA a : Work[a], Ancestors[b])

MostWorkIsBest ==
    pc = "idle" => \A b \in index :
        (\A a \in Ancestors[b] : KnownValid(a) /\ ~KnownInvalid(a))
            => ChainWork(b) <= ChainWork(tip)

(* A call of ProcessBlock that has begun returns (processOrphans and       *)
(* reorganizeChain terminate), and a node that died comes back.            *)
CallReturns == pc # "idle" ~> pc = "idle"

=============================================================================
