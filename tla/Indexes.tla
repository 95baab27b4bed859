------------------------------ MODULE Indexes -------------------------------
(***************************************************************************)
(* The optional indexes (pkg/chain/index) and the manager that creates,    *)
(* drops, rolls back and catches them up when the node starts, and that    *)
(* the chain calls inside the database transaction that connects or        *)
(* disconnects a block.  Each run of the program may enable other indexes  *)
(* and ask for drops.  A database transaction is atomic; the program may   *)
(* stop between any two.  A crash that also loses the last commits leaves  *)
(* what a stop before them would have left, chain and indexes alike.       *)
(*                                                                         *)
(* The second part of the module looks inside the address index, at the    *)
(* entries of one address.                                                 *)
(***************************************************************************)
EXTENDS Integers, Sequences, SequencesExt, FiniteSets, FiniteSetsExt

CONSTANTS
    IdxBlocks, IdxGenesis,
    IdxPrev,        \* Header.PrevBlock of the blocks but the first
    Spends,         \* the blocks that spend outputs and so have a journal entry
    ScanIncrement,  \* the gap of TxIndex.Init's forward scan (100000)
    MaxFailed       \* database commits that fail

ASSUME IndexesAssumption ==
    /\ IdxGenesis \in IdxBlocks
    /\ DOMAIN IdxPrev = IdxBlocks \ {IdxGenesis}
    /\ Spends \subseteq IdxBlocks \ {IdxGenesis}
    /\ ScanIncrement \in Nat \ {0}
    /\ MaxFailed \in Nat

Indexers == <<"tx", "addr", "cf">>    \* in the order the server enables them
NoTip == "no tip"                     \* the index does not exist
EmptyTip == "height -1"               \* it exists and has no entries
NoBlock == "no block"
MaxID == Cardinality(IdxBlocks) + MaxFailed

VARIABLES
    mainTip,        \* the last block of the main chain
    target,         \* the block a reorganization is on the way to
    idxTip,         \* per index, its entry in the tips bucket
    dropKeys,       \* the indexes marked as being dropped
    idxBuckets,     \* the buckets that exist
    idByHash,       \* the id of a block, 0 for none
    hashByID,       \* the block of an id
    txEntries,      \* the id that the transactions of a block are indexed under, 0 for none
    addrEntries,    \* the ids in the entries of an address that every block pays
    filters,        \* the blocks with a filter and a filter header
    enabledIndexes, \* what this run of the program maintains, in order
    curBlockID,     \* TxIndex.curBlockID
    step,           \* where the program is
    toDrop,         \* the indexes it has still to drop
    failed          \* commits that have failed

idxData == <<idByHash, hashByID, txEntries, addrEntries, filters>>
idxDB   == <<mainTip, idxTip, dropKeys, idxBuckets, idxData>>
idxVars == <<idxDB, target, enabledIndexes, curBlockID, step, toDrop, failed>>

-----------------------------------------------------------------------------
MainChainOf == LET up[b \in IdxBlocks] == IF b = IdxGenesis THEN <<b>> ELSE Append(up[IdxPrev[b]], b)
               IN  [b \in IdxBlocks |-> up[b]]

MainChain(b) == ToSet(MainChainOf[b])
TipHeight(t) == IF t \in IdxBlocks THEN Len(MainChainOf[t]) - 1 ELSE -1

\* The buckets of an index, in the order a drop deletes them; those of the
\* filters, their headers and their hashes are one.
BucketsOf(i) == CASE i = "tx" -> <<"txbyhashidx">>
                  [] i = "addr" -> <<"txbyaddridx">>
                  [] i = "cf" -> <<"cf0byhashidx", "cfindexparentbucket">>

TopBucket(i) == Last(BucketsOf(i))
BlockIDs == "idbyhashidx, hashbyididx"

CreatedBuckets(i) == ToSet(BucketsOf(i)) \cup IF i = "tx" THEN {BlockIDs} ELSE {}

-----------------------------------------------------------------------------
\* The entries, as one value that a database transaction changes.
Data == [idByHash |-> idByHash, hashByID |-> hashByID, txs |-> txEntries,
         addrs |-> addrEntries, filters |-> filters, tips |-> idxTip, id |-> curBlockID, err |-> ""]

Put(d) ==
    /\ idByHash' = d.idByHash
    /\ hashByID' = d.hashByID
    /\ txEntries' = d.txs
    /\ addrEntries' = d.addrs
    /\ filters' = d.filters
    /\ idxTip' = d.tips

TxConnect(d, b) ==
    LET id == d.id + 1
    IN  [d EXCEPT !.txs[b] = id, !.idByHash[b] = id, !.hashByID[id] = b, !.id = id]

\* The id stays used up.
TxDisconnectKeepsID(d, b) ==
    IF d.txs[b] = 0 THEN [d EXCEPT !.err = "transaction"]
    ELSE [d EXCEPT !.txs[b] = 0, !.idByHash[b] = 0, !.hashByID[d.idByHash[b]] = NoBlock]

TxDisconnect(d, b) ==
    IF d.txs[b] = 0 THEN [d EXCEPT !.err = "transaction"]
    ELSE IF d.idByHash[b] = 0 THEN [d EXCEPT !.txs[b] = 0, !.id = @ - 1]
    ELSE [d EXCEPT !.txs[b] = 0, !.idByHash[b] = 0, !.hashByID[d.idByHash[b]] = NoBlock, !.id = @ - 1]

AddrConnect(d, b) ==
    IF d.idByHash[b] = 0 THEN [d EXCEPT !.err = "block id"]
    ELSE [d EXCEPT !.addrs = Append(@, d.idByHash[b])]

AddrDisconnect(d, b) ==
    IF d.addrs = << >> THEN [d EXCEPT !.err = "levels"] ELSE [d EXCEPT !.addrs = Front(@)]

\* storeFilter chains the header of the block before.
CfConnect(d, b) ==
    IF b # IdxGenesis /\ IdxPrev[b] \notin d.filters THEN [d EXCEPT !.err = "filter header"]
    ELSE [d EXCEPT !.filters = @ \cup {b}]

CfDisconnect(d, b) == [d EXCEPT !.filters = @ \ {b}]

\* The tip is left behind.
dbIndexConnectBlockOnly(d, i, b) ==
    IF d.err # "" THEN d
    ELSE CASE i = "tx" -> TxConnect(d, b) [] i = "addr" -> AddrConnect(d, b) [] i = "cf" -> CfConnect(d, b)

dbIndexConnectBlock(d, i, b) ==
    LET prev == IF b = IdxGenesis THEN EmptyTip ELSE IdxPrev[b]
    IN  IF d.err # "" THEN d
        ELSE IF d.tips[i] # prev THEN [d EXCEPT !.err = "tip"]
        ELSE LET e == CASE i = "tx" -> TxConnect(d, b) [] i = "addr" -> AddrConnect(d, b) [] i = "cf" -> CfConnect(d, b)
             IN  IF e.err # "" THEN e ELSE [e EXCEPT !.tips[i] = b]

dbIndexDisconnectBlock(d, i, b) ==
    IF d.err # "" THEN d
    ELSE IF d.tips[i] # b THEN [d EXCEPT !.err = "tip"]
    ELSE LET e == CASE i = "tx" -> TxDisconnect(d, b) [] i = "addr" -> AddrDisconnect(d, b) [] i = "cf" -> CfDisconnect(d, b)
         IN  IF e.err # "" THEN e
             ELSE [e EXCEPT !.tips[i] = IF b = IdxGenesis THEN EmptyTip ELSE IdxPrev[b]]

\* Manager.ConnectBlock and DisconnectBlock.
ManagerConnect(b)    == FoldLeft(LAMBDA d, i : dbIndexConnectBlock(d, i, b), Data, enabledIndexes)
ManagerDisconnect(b) == FoldLeft(LAMBDA d, i : dbIndexDisconnectBlock(d, i, b), Data, enabledIndexes)

-----------------------------------------------------------------------------
Fail(why) == step' = "failed: " \o why

\* NewNode: the transaction index goes with the address index, and first.
EnabledBy(txIndex, addrIndex, cFilters) ==
    SelectSeq(Indexers, LAMBDA i : CASE i = "tx" -> txIndex \/ addrIndex [] i = "addr" -> addrIndex [] i = "cf" -> cFilters)

\* DropTxIndex drops the address index first, since that relies on it.
DropTxIndex == <<"addr", "tx">>

IdxInit ==
    /\ mainTip = IdxGenesis /\ target = NoBlock
    /\ idxTip = [i \in ToSet(Indexers) |-> NoTip]
    /\ dropKeys = {} /\ idxBuckets = {}
    /\ idByHash = [b \in IdxBlocks |-> 0]
    /\ hashByID = [id \in 1 .. MaxID |-> NoBlock]
    /\ txEntries = [b \in IdxBlocks |-> 0]
    /\ addrEntries = << >>
    /\ filters = {}
    /\ enabledIndexes = << >> /\ curBlockID = 0
    /\ step = "down" /\ toDrop = << >> /\ failed = 0

\* The node is started with a configuration; main.go does the drops it asks for
\* before the server is made.
StartNode ==
    /\ step = "down"
    /\ \E txIndex, addrIndex, cFilters \in BOOLEAN : enabledIndexes' = EnabledBy(txIndex, addrIndex, cFilters)
    /\ \E dropAddr, dropTx, dropCf \in BOOLEAN :
          toDrop' = (IF dropAddr THEN <<"addr">> ELSE << >>) \o (IF dropTx THEN DropTxIndex ELSE << >>)
                      \o (IF dropCf THEN <<"cf">> ELSE << >>)
    /\ step' = "drop, then finish"
    /\ curBlockID' = 0
    /\ UNCHANGED <<idxDB, target, failed>>

\* Any moment between two database transactions.
StopNode ==
    /\ step # "down"
    /\ step' = "down"
    /\ target' = NoBlock /\ toDrop' = << >> /\ enabledIndexes' = << >> /\ curBlockID' = 0
    /\ UNCHANGED <<idxDB, failed>>

-----------------------------------------------------------------------------
(* dropIndex                                                               *)
Dropping == step \in {"drop, then finish", "drop, then create"} /\ toDrop # << >>
Next1 == Head(toDrop)

Contents(bucket) ==
    CASE bucket = "txbyhashidx" -> txEntries # [b \in IdxBlocks |-> 0]
      [] bucket = "txbyaddridx" -> addrEntries # << >>
      [] bucket = "cf0byhashidx" -> filters # {}
      [] bucket = "cfindexparentbucket" -> FALSE

\* The index does not exist.
NotDropping ==
    /\ Dropping /\ idxTip[Next1] = NoTip
    /\ toDrop' = Tail(toDrop)
    /\ UNCHANGED <<idxDB, target, enabledIndexes, curBlockID, step, failed>>

MarkDrop ==
    /\ Dropping /\ idxTip[Next1] # NoTip /\ Next1 \notin dropKeys
    /\ dropKeys' = dropKeys \cup {Next1}
    /\ UNCHANGED <<mainTip, idxTip, idxBuckets, idxData, target, enabledIndexes, curBlockID, step, toDrop, failed>>

\* An interrupted drop that had deleted the bucket of the index: the buckets
\* cannot be listed again.
ListBuckets ==
    /\ Dropping /\ Next1 \in dropKeys /\ TopBucket(Next1) \notin idxBuckets
    /\ step' = "failed: bucket"
    /\ UNCHANGED <<idxDB, target, enabledIndexes, curBlockID, toDrop, failed>>

\* From here the list of the buckets is in memory, so their absence is not met.
BeginDelete ==
    /\ Dropping /\ Next1 \in dropKeys /\ TopBucket(Next1) \in idxBuckets
    /\ step' = IF step = "drop, then finish" THEN "delete, then finish" ELSE "delete, then create"
    /\ UNCHANGED <<idxDB, target, enabledIndexes, curBlockID, toDrop, failed>>

Deleting == step \in {"delete, then finish", "delete, then create"}
Bucket1 == Head(SelectSeq(BucketsOf(Next1), LAMBDA k : k \in idxBuckets))
BucketsLeft == \E k \in ToSet(BucketsOf(Next1)) : k \in idxBuckets

\* At most so many entries in a transaction, in the order of their keys; here one.
FirstKey(keys) == CHOOSE b \in keys : TRUE

DeleteEntries ==
    /\ Deleting /\ BucketsLeft /\ Contents(Bucket1)
    /\ \/ /\ Bucket1 = "txbyhashidx"
          /\ txEntries' = [txEntries EXCEPT ![FirstKey({b \in IdxBlocks : txEntries[b] # 0})] = 0]
          /\ UNCHANGED <<addrEntries, filters>>
       \/ /\ Bucket1 = "txbyaddridx"
          /\ addrEntries' = Tail(addrEntries)
          /\ UNCHANGED <<txEntries, filters>>
       \/ /\ Bucket1 = "cf0byhashidx"
          /\ filters' = filters \ {FirstKey(filters)}
          /\ UNCHANGED <<txEntries, addrEntries>>
    /\ UNCHANGED <<mainTip, idxTip, dropKeys, idxBuckets, idByHash, hashByID, target, enabledIndexes, curBlockID, step, toDrop, failed>>

DropBucket ==
    /\ Deleting /\ BucketsLeft /\ ~Contents(Bucket1)
    /\ idxBuckets' = idxBuckets \ {Bucket1}
    /\ UNCHANGED <<mainTip, idxTip, dropKeys, idxData, target, enabledIndexes, curBlockID, step, toDrop, failed>>

dropBlockIDIndex ==
    /\ Deleting /\ ~BucketsLeft /\ Next1 = "tx" /\ BlockIDs \in idxBuckets
    /\ idxBuckets' = idxBuckets \ {BlockIDs}
    /\ idByHash' = [b \in IdxBlocks |-> 0]
    /\ hashByID' = [id \in 1 .. MaxID |-> NoBlock]
    /\ UNCHANGED <<mainTip, idxTip, dropKeys, txEntries, addrEntries, filters, target, enabledIndexes, curBlockID, step, toDrop, failed>>

\* The tip and the mark go in one transaction.
EndDrop ==
    /\ Deleting /\ ~BucketsLeft /\ (Next1 = "tx" => BlockIDs \notin idxBuckets)
    /\ idxTip' = [idxTip EXCEPT ![Next1] = NoTip]
    /\ dropKeys' = dropKeys \ {Next1}
    /\ toDrop' = Tail(toDrop)
    /\ step' = IF step = "delete, then finish" THEN "drop, then finish" ELSE "drop, then create"
    /\ UNCHANGED <<mainTip, idxBuckets, idxData, target, enabledIndexes, curBlockID, failed>>

-----------------------------------------------------------------------------
(* Manager.Init                                                            *)
\* The drops that an earlier run has begun and not ended.
MarkedDrops == SelectSeq(enabledIndexes, LAMBDA i : i \in dropKeys)

maybeFinishDrops ==
    /\ step = "drop, then finish" /\ toDrop = << >>
    /\ toDrop' = MarkedDrops
    /\ step' = IF enabledIndexes = << >> THEN "run" ELSE "drop, then create"
    /\ UNCHANGED <<idxDB, target, enabledIndexes, curBlockID, failed>>

\* TxIndex.Init: forwards in gaps to an id that is unknown, then by halves.
HighestID ==
    LET known(id) == id \in DOMAIN hashByID /\ hashByID[id] # NoBlock
        forward[id \in 1 .. MaxID + ScanIncrement] == IF known(id) THEN forward[id + ScanIncrement] ELSE id
        unknown == forward[1]
        halves[lo \in 0 .. MaxID, hi \in 1 .. MaxID + ScanIncrement] ==
            LET mid == (lo + hi) \div 2
            IN  IF lo + 1 = hi THEN lo ELSE IF known(mid) THEN halves[mid, hi] ELSE halves[lo, mid]
    IN  IF unknown = 1 THEN 0 ELSE halves[unknown - ScanIncrement, unknown]

maybeCreateIndexes ==
    LET new == {i \in ToSet(enabledIndexes) : idxTip[i] = NoTip}
        made == UNION {CreatedBuckets(i) : i \in new}
    IN  /\ step = "drop, then create" /\ toDrop = << >>
        /\ IF made \cap idxBuckets = {}
           THEN /\ idxBuckets' = idxBuckets \cup made
                /\ idxTip' = [i \in DOMAIN idxTip |-> IF i \in new THEN EmptyTip ELSE idxTip[i]]
                /\ curBlockID' = IF "tx" \in ToSet(enabledIndexes) THEN HighestID ELSE 0
                /\ step' = "roll back"
           ELSE /\ Fail("exists")
                /\ UNCHANGED <<idxBuckets, idxTip, curBlockID>>
        /\ UNCHANGED <<mainTip, dropKeys, idxData, target, enabledIndexes, toDrop, failed>>

Orphaned == SelectSeq(enabledIndexes, LAMBDA i : idxTip[i] \in IdxBlocks \ MainChain(mainTip))

\* The later indexes first, a block at a time; the journal has what a block
\* spent only while the block is in the main chain.
RollBack ==
    LET i == Last(Orphaned)
        b == idxTip[i]
        d == dbIndexDisconnectBlock(Data, i, b)
    IN  /\ step = "roll back" /\ Orphaned # << >>
        /\ IF b \notin Spends /\ d.err = ""
           THEN Put(d) /\ curBlockID' = d.id /\ UNCHANGED step
           ELSE /\ Fail(IF b \in Spends THEN "journal" ELSE d.err)
                /\ UNCHANGED <<idxData, idxTip, curBlockID>>
        /\ UNCHANGED <<mainTip, dropKeys, idxBuckets, target, enabledIndexes, toDrop, failed>>

EndRollBack ==
    /\ step = "roll back" /\ Orphaned = << >>
    /\ step' = "catch up"
    /\ UNCHANGED <<idxDB, target, enabledIndexes, curBlockID, toDrop, failed>>

Behind == SelectSeq(enabledIndexes, LAMBDA i : TipHeight(idxTip[i]) < TipHeight(mainTip))

\* A height at a time, and at that height the indexes in their order.
CatchUp ==
    LET lowest == Min({TipHeight(idxTip[i]) : i \in ToSet(Behind)})
        i == Head(SelectSeq(Behind, LAMBDA k : TipHeight(idxTip[k]) = lowest))
        d == dbIndexConnectBlock(Data, i, MainChainOf[mainTip][lowest + 2])
    IN  /\ step = "catch up" /\ Behind # << >>
        /\ IF d.err = "" THEN Put(d) /\ curBlockID' = d.id /\ UNCHANGED step
           ELSE Fail(d.err) /\ UNCHANGED <<idxData, idxTip, curBlockID>>
        /\ UNCHANGED <<mainTip, dropKeys, idxBuckets, target, enabledIndexes, toDrop, failed>>

EndCatchUp ==
    /\ step = "catch up" /\ Behind = << >>
    /\ step' = "run"
    /\ UNCHANGED <<idxDB, target, enabledIndexes, curBlockID, toDrop, failed>>

-----------------------------------------------------------------------------
(* The chain runs.  A commit that fails undoes the database, and not what  *)
(* the index has counted.                                                  *)
Committed(d, tip) ==
    /\ d.err = ""
    /\ Put(d) /\ mainTip' = tip /\ curBlockID' = d.id
    /\ target' = IF tip = target THEN NoBlock ELSE target
    /\ UNCHANGED failed

CommitFails(d) ==
    /\ (d.err # "" \/ failed < MaxFailed)
    /\ failed' = IF d.err # "" THEN failed ELSE failed + 1
    /\ curBlockID' = d.id /\ target' = NoBlock
    /\ UNCHANGED <<idxData, idxTip, mainTip>>

ConnectBlockTx(b) ==
    LET d == ManagerConnect(b)
    IN  /\ step = "run" /\ b # IdxGenesis /\ IdxPrev[b] = mainTip
        /\ (target # NoBlock => b \in MainChain(target))
        /\ (Committed(d, b) \/ CommitFails(d))
        /\ UNCHANGED <<dropKeys, idxBuckets, enabledIndexes, step, toDrop>>

DisconnectTx ==
    LET d == ManagerDisconnect(mainTip)
    IN  /\ step = "run" /\ target # NoBlock /\ mainTip \notin MainChain(target)
        /\ (Committed(d, IdxPrev[mainTip]) \/ CommitFails(d))
        /\ UNCHANGED <<dropKeys, idxBuckets, enabledIndexes, step, toDrop>>

\* A longer branch is known.
BeginReorganize(b) ==
    /\ step = "run" /\ target = NoBlock
    /\ mainTip \notin MainChain(b) /\ TipHeight(b) > TipHeight(mainTip)
    /\ target' = b
    /\ UNCHANGED <<idxDB, enabledIndexes, curBlockID, step, toDrop, failed>>

-----------------------------------------------------------------------------
IdxStart == \/ NotDropping \/ MarkDrop \/ ListBuckets \/ BeginDelete \/ DeleteEntries \/ DropBucket
            \/ dropBlockIDIndex \/ EndDrop \/ maybeFinishDrops \/ maybeCreateIndexes
            \/ RollBack \/ EndRollBack \/ CatchUp \/ EndCatchUp

IdxNext ==
    \/ StartNode
    \/ StopNode
    \/ IdxStart
    \/ \E b \in IdxBlocks : ConnectBlockTx(b)
    \/ DisconnectTx
    \/ \E b \in IdxBlocks : BeginReorganize(b)

\* Nothing waits in the start of the node.
IdxFairness == WF_idxVars(IdxStart)

-----------------------------------------------------------------------------
Exists(i) == i \in ToSet(enabledIndexes)

(* When Manager.Init has returned and as long as the chain runs, through
   reorganizations that stop half way too, every enabled index stands at the
   tip of the main chain and has entries for exactly its blocks, whatever runs
   with other indexes enabled, drops and stops came before; and unless a commit
   has failed, the ids in the entries lead to the right blocks. *)

IndexesAreExact ==
    step = "run" =>
        /\ \A i \in ToSet(enabledIndexes) : idxTip[i] = mainTip /\ i \notin dropKeys
        /\ Exists("tx") => {b \in IdxBlocks : txEntries[b] # 0} = MainChain(mainTip)
        /\ Exists("cf") => filters = MainChain(mainTip)
        /\ Exists("addr") => Len(addrEntries) = Len(MainChainOf[mainTip])
        /\ failed = 0 /\ Exists("tx") =>
              /\ \A b \in MainChain(mainTip) : hashByID[txEntries[b]] = b
              /\ \A id \in 1 .. MaxID : (hashByID[id] # NoBlock) <=> id <= curBlockID
        /\ failed = 0 /\ Exists("addr") =>
              \A n \in 1 .. Len(addrEntries) : hashByID[addrEntries[n]] = MainChainOf[mainTip][n]

(* The indexes never refuse what the chain does: whichever block is connected
   or disconnected next, no index finds its tip elsewhere or an entry missing,
   which would undo the whole transaction and hold the chain where it is. *)

ChainIsNotHeld ==
    step = "run" =>
        /\ \A b \in IdxBlocks \ {IdxGenesis} : IdxPrev[b] = mainTip => ManagerConnect(b).err = ""
        /\ mainTip # IdxGenesis => ManagerDisconnect(mainTip).err = ""

(* Starting the node fails for two reasons only: an index that was disabled
   has a tip off the main chain whose spent outputs are no longer in the
   journal, or a drop was stopped after it had deleted the bucket of the index.
   Never does an index find its tip elsewhere, a bucket already there, the id
   of a block or the header of a filter missing. *)

KnownFailures == step \in {"down", "run", "drop, then finish", "drop, then create", "delete, then finish", "delete, then create",
                           "roll back", "catch up", "failed: journal", "failed: bucket"}

(* The address index never stays without the transaction index whose block
   ids its entries are made of, however a drop of the two was cut short:
   DropTxIndex drops the address index first. *)

AddrNeedsTx == idxTip["addr"] # NoTip => idxTip["tx"] # NoTip /\ "tx" \notin dropKeys

(* A start of the node comes to its end: every drop is finished and every
   enabled index catches up, or the start fails or is stopped. *)

StartEnds == (step \in {"drop, then finish", "drop, then create", "roll back", "catch up"}) ~>
                (step \in {"run", "down", "failed: journal", "failed: bucket"})

(* Whatever was enabled, dropped and cut short in earlier runs: an enabled *)
(* index is that of the main chain, the chain never fails because of one,  *)
(* and a start fails only in the two ways described at KnownFailures.      *)
IndexesAreSound == KnownFailures /\ ChainIsNotHeld /\ IndexesAreExact /\ AddrNeedsTx

-----------------------------------------------------------------------------
(* The entries of one address in the address index (addrindex.go): a list  *)
(* kept in levels, each twice as long as the one below, the newest entries *)
(* in level 0.  A bucket is a function from levels to their entries; an    *)
(* absent key has none.                                                    *)

CONSTANTS
    level0MaxEntries,   \* what level 0 holds
    MaxLevel,           \* levels that are modelled
    MaxEntries          \* entries an address may have in the model

ASSUME LevelsAssumption ==
    /\ level0MaxEntries \in Nat \ {0}
    /\ MaxLevel \in Nat \ {0}
    /\ MaxEntries \in Nat

Levels == 0 .. MaxLevel

EmptyBucket == [l \in Levels |-> << >>]

maxEntriesForLevel(level) == level0MaxEntries * 2 ^ level

\* One entry, and every level below full once.
minEntriesToReachLevel(level) == 1 + level0MaxEntries * (2 ^ level - 1)

Drop(s, n) == SubSeq(s, n + 1, Len(s))
Keep(s, n) == SubSeq(s, 1, n)

-----------------------------------------------------------------------------
(* dbPutAddrIndexEntry: into level 0 when there is room.  Else the first   *)
(* level that is not full takes in the one below it, and the levels under  *)
(* that one move up.                                                       *)
\* The levels under the one that grew stay as they are.
MergedAlone(bucket, entry) ==
    LET to == CHOOSE l \in 1 .. MaxLevel :
                /\ Len(bucket[l]) # maxEntriesForLevel(l)
                /\ \A k \in 1 .. l - 1 : Len(bucket[k]) = maxEntriesForLevel(k)
    IN  [bucket EXCEPT ![0] = <<entry>>, ![to] = bucket[to] \o bucket[to - 1]]

Merged(bucket, entry) ==
    LET to == CHOOSE l \in 1 .. MaxLevel :
                /\ Len(bucket[l]) # maxEntriesForLevel(l)
                /\ \A k \in 1 .. l - 1 : Len(bucket[k]) = maxEntriesForLevel(k)
    IN  [l \in Levels |-> CASE l = 0 -> <<entry>>
                            [] l \in 1 .. to - 1 -> bucket[l - 1]
                            [] l = to -> bucket[l] \o bucket[l - 1]
                            [] OTHER -> bucket[l]]

dbPutAddrIndexEntry(bucket, entry) ==
    IF Len(bucket[0]) < level0MaxEntries THEN [bucket EXCEPT ![0] = Append(@, entry)]
    ELSE Merged(bucket, entry)

-----------------------------------------------------------------------------
(* dbFetchAddrIndexEntries: the levels are put together as far as they are *)
(* needed, and the entries counted from the oldest or, in reverse, from    *)
(* the newest.                                                             *)

Loaded(bucket, wanted, reverse) ==
    FoldLeft(LAMBDA st, l :
                IF st.done \/ (reverse /\ Len(st.got) >= wanted) \/ bucket[l] = << >> THEN [st EXCEPT !.done = TRUE]
                ELSE [st EXCEPT !.got = bucket[l] \o @],
             [got |-> << >>, done |-> FALSE], [i \in 1 .. MaxLevel + 1 |-> i - 1]).got

dbFetchAddrIndexEntries(bucket, numToSkip, numRequested, reverse) ==
    LET got == Loaded(bucket, numToSkip + numRequested, reverse)
        n == Len(got)
        left == n - numToSkip
        load == IF left > numRequested THEN numRequested ELSE left
    IN  IF numToSkip >= n THEN [entries |-> << >>, skipped |-> n]
        ELSE [entries |-> [i \in 1 .. load |-> IF reverse THEN got[n - numToSkip - i + 1] ELSE got[numToSkip + i]],
              skipped |-> numToSkip]

-----------------------------------------------------------------------------
\* Entries leave from level 0 upwards until enough have gone.
RemoveNewest(bucket, count) ==
    FoldLeft(LAMBDA st, l :
                IF st.left = 0 \/ st.err THEN st
                ELSE LET n == Len(bucket[l])
                     IN  IF n = 0 THEN [st EXCEPT !.err = TRUE]
                         ELSE IF st.left >= n
                              THEN [st EXCEPT !.p[l] = << >>, !.left = @ - n, !.highest = l]
                              ELSE [st EXCEPT !.p[l] = Keep(@, n - st.left), !.left = 0, !.highest = l],
             [p |-> bucket, left |-> count, highest |-> 0, err |-> FALSE], [i \in 1 .. MaxLevel + 1 |-> i - 1])

\* What is left of the highest level that was touched is spread over the
\* levels under it, each of them half full or full.
Spread(st) ==
    LET level(i) == st.highest + 1 - i
        spread(s, i) ==
            LET l == level(i)
                n == Len(s.cur)
                max == maxEntriesForLevel(l)
                minPrev == minEntriesToReachLevel(l - 1)
                offset == IF n - max >= minPrev THEN max ELSE max \div 2
            IN  IF n < max \div 2 + minPrev THEN [s EXCEPT !.lowest = l, !.p[l] = << >>]
                ELSE [s EXCEPT !.p[l] = Keep(s.cur, offset), !.cur = Drop(s.cur, offset)]
        done == FoldLeft(spread, [p |-> st.p, cur |-> st.p[st.highest], lowest |-> 255], [i \in 1 .. st.highest |-> i])
    IN  [p |-> [done.p EXCEPT ![0] = done.cur], highest |-> st.highest,
         lowest |-> IF done.cur = << >> THEN 0 ELSE done.lowest]

\* Halve the data of a level again and again down to the lowest empty one.
Halve(p, from, lowest, data) ==
    FoldLeft(LAMBDA s, i :
                LET l == from + 1 - i
                    half == maxEntriesForLevel(l) \div 2
                IN  [p |-> [s.p EXCEPT ![l] = Keep(s.data, half), ![l - 1] = Drop(s.data, half)], data |-> Drop(s.data, half)],
             [p |-> p, data |-> data], [i \in 1 .. from - lowest |-> i]).p

\* The level above the highest one touched fills it when that is empty.
Backfill(bucket, st) ==
    LET fill(s, i) ==
            LET level == s.highest + 1
                data == bucket[level]
                full == Len(data) = maxEntriesForLevel(level)
                from == IF full THEN level ELSE level - 1
                moved == IF full THEN [s.p EXCEPT ![level] = data]
                         ELSE [s.p EXCEPT ![level] = << >>, ![level - 1] = data]
            IN  IF s.p[s.highest] # << >> \/ level > MaxLevel \/ data = << >> THEN s
                ELSE [p |-> Halve(moved, from, s.lowest, data), highest |-> level, lowest |-> level]
    IN  FoldLeft(fill, st, [i \in Levels \ {0} |-> i])

dbRemoveAddrIndexEntries(bucket, count) ==
    LET removed == RemoveNewest(bucket, count)
    IN  IF count <= 0 THEN [p |-> bucket, err |-> FALSE]
        ELSE IF removed.err THEN [p |-> bucket, err |-> TRUE]
        ELSE IF removed.p[0] # << >> THEN [p |-> removed.p, err |-> FALSE]
        ELSE [p |-> Backfill(bucket, Spread(removed)).p, err |-> FALSE]

-----------------------------------------------------------------------------
VARIABLES
    levels,     \* the bucket of an address
    listed      \* the entries it stands for, oldest first

levelVars == <<levels, listed>>

LevelsInit == levels = EmptyBucket /\ listed = << >>

PutEntry ==
    /\ Len(listed) < MaxEntries
    /\ levels' = dbPutAddrIndexEntry(levels, Len(listed) + 1)
    /\ listed' = Append(listed, Len(listed) + 1)

RemoveEntries(n) ==
    /\ levels' = dbRemoveAddrIndexEntries(levels, n).p
    /\ listed' = IF n > Len(listed) THEN listed ELSE Keep(listed, Len(listed) - n)

LevelsNext == PutEntry \/ \E n \in 1 .. MaxEntries + 1 : RemoveEntries(n)

-----------------------------------------------------------------------------
AllEntries(bucket) == FoldLeft(LAMBDA s, l : bucket[l] \o s, << >>, [i \in 1 .. MaxLevel + 1 |-> i - 1])

(* However entries were put and removed, dbPutAddrIndexEntry and
   dbRemoveAddrIndexEntries leave the levels with the entries that stand, in
   order, every level above level 0 half full or full and none left out, which
   is what the next operation and the reader rely on. *)

LevelsKeepTheList ==
    /\ AllEntries(levels) = listed
    /\ Len(levels[0]) <= level0MaxEntries
    /\ \A l \in 1 .. MaxLevel :
        /\ Len(levels[l]) \in {0, maxEntriesForLevel(l) \div 2, maxEntriesForLevel(l)}
        /\ levels[l] # << >> => levels[l - 1] # << >>

(* dbFetchAddrIndexEntries returns the part of the list that was asked for,
   from either end, although in reverse it loads no more levels than it
   needs, and it says how many entries it skipped. *)

FetchesAsAsked ==
    \A skip, num \in 0 .. Len(listed) + 1, reverse \in BOOLEAN :
        LET all == IF reverse THEN Reverse(listed) ELSE listed
            r == dbFetchAddrIndexEntries(levels, skip, num, reverse)
            last == IF skip + num < Len(all) THEN skip + num ELSE Len(all)
        IN  /\ r.skipped = IF skip < Len(all) THEN skip ELSE Len(all)
            /\ r.entries = SubSeq(all, skip + 1, last)

(* The levels are as good as the plain list of the address's entries, to   *)
(* whoever adds, removes or fetches.                                       *)
AddressEntriesAreKept == LevelsKeepTheList /\ FetchesAsAsked

=============================================================================
