------------------------------ MODULE BlockDB ------------------------------
(***************************************************************************)
(* The block database, pkg/db/ffldb: flat files that take the blocks, a    *)
(* leveldb database for the metadata, and a cache in front of it.  One     *)
(* write transaction at a time stores blocks and metadata; readers work on *)
(* snapshots and read blocks through a small set of open files.  Writes    *)
(* fail part way, the process dies between any two steps, and on the next  *)
(* start reconcileDB takes the files back to what the metadata knows.      *)
(*                                                                         *)
(* A file is a sequence of cells and a record of block b is Size[b] cells, *)
(* <<b, 1>> .. <<b, Size[b]>>, so that a checksum is good exactly when the *)
(* record is whole.  The metadata has a location for each block, the write *)
(* cursor, a counter of the transactions and one more key that they set    *)
(* and remove.                                                             *)
(***************************************************************************)
EXTENDS Integers, Sequences, FiniteSets, SequencesExt

CONSTANTS Blocks, Size,        \* the blocks and the length of their records
          maxBlockFileSize,
          maxOpenFiles,
          Readers,             \* goroutines with read transactions
          PowerLoss,           \* whether a crash also loses what was not synced
          MaxTxs, MaxFaults    \* bounds on transactions and on failing writes

ASSUME BlockDBConstants ==
    /\ maxBlockFileSize \in Nat
    /\ Size \in [Blocks -> 1 .. maxBlockFileSize]
    /\ maxOpenFiles \in Nat \ {0}
    /\ Blocks \cap {"writeloc", "count", "extra"} = {}

VARIABLES files,        \* the contents of file 0, file 1, ... on disk
          synced,       \* how much of each of them a power loss spares
          wc,           \* the write cursor: curFileNum, curOffset, whether curFile is open
          lru,          \* openBlocksLRU, the files open for reading, newest first
          ldb,          \* the metadata in leveldb
          cachedKeys, cachedRemove,
          tx,           \* the write transaction
          rd,           \* the read transactions
          rolling,      \* where handleRollback is going, or NoTarget
          mode,         \* "up", "reconcile", "down", or "corrupt"
          faults        \* failures so far

dbVars == <<files, synced, wc, lru, ldb, cachedKeys, cachedRemove, tx, rd, rolling, mode, faults>>

MetaKeys == Blocks \cup {"writeloc", "count", "extra"}
nil == <<>>
NoTarget == <<>>
NoKeys == [k \in {} |-> nil]

(* What createDB writes; also the view of a transaction that has not begun. *)
initDB == [k \in MetaKeys |-> CASE k = "writeloc" -> <<0, 0>> [] k = "count" -> 0 [] OTHER -> nil]

(* The write transaction: where it is, the view it began with, the blocks  *)
(* it has still to write, its pending keys, where the cursor was, and      *)
(* whether it waits for the write file.                                    *)
NoTx == [stage |-> "none", snapshot |-> initDB, blocks |-> <<>>, keys |-> NoKeys, remove |-> {},
         old |-> NoTarget, wait |-> FALSE]

(* A read transaction: where it is, what it sees, whether all its reads    *)
(* have succeeded, and the block and the open file of a read (-1 for the   *)
(* write file).                                                            *)
NoRead == [stage |-> "idle", view |-> initDB, good |-> TRUE, block |-> nil, handle |-> 0]

(* A key of the cache, of the pending keys, or of the layer below: Has and *)
(* Get of the cache snapshot, hasKey and fetchKey of a transaction.        *)
Layer(below, keys, remove) ==
    [k \in MetaKeys |-> IF k \in remove THEN nil
                        ELSE IF k \in DOMAIN keys THEN keys[k] ELSE below[k]]

View == Layer(ldb, cachedKeys, cachedRemove)

WithKey(f, k, v) == [x \in DOMAIN f \cup {k} |-> IF x = k THEN v ELSE f[x]]
WithoutKey(f, k) == [x \in DOMAIN f \ {k} |-> f[x]]

putKey(t, k, v) == [t EXCEPT !.keys = WithKey(@, k, v), !.remove = @ \ {k}]
deleteKey(t, k) == [t EXCEPT !.keys = WithoutKey(@, k), !.remove = @ \cup {k}]

BlockDBInit ==
    /\ files = <<>> /\ synced = <<>>
    /\ wc = [file |-> 0, off |-> 0, open |-> FALSE]
    /\ lru = <<>>
    /\ ldb = initDB /\ cachedKeys = NoKeys /\ cachedRemove = {}
    /\ tx = NoTx /\ rd = [r \in Readers |-> NoRead]
    /\ rolling = NoTarget /\ mode = "up" /\ faults = 0

metaVars == <<ldb, cachedKeys, cachedRemove>>
fileVars == <<files, synced, wc>>

-----------------------------------------------------------------------------
(* The write transaction of db.Update: it has the write lock until it ends.*)

begin ==
    /\ mode = "up" /\ tx = NoTx /\ View["count"] < MaxTxs
    /\ tx' = [NoTx EXCEPT !.stage = "open", !.snapshot = View,
                          !.keys = WithKey(NoKeys, "count", View["count"] + 1)]
    /\ UNCHANGED <<fileVars, lru, metaVars, rd, rolling, mode, faults>>

TxView == Layer(tx.snapshot, tx.keys, tx.remove)

hasBlock(b) == b \in ToSet(tx.blocks) \/ TxView[b] # nil

StoreBlockInTx(b) ==
    /\ tx.stage = "open" /\ ~hasBlock(b)
    /\ tx' = [tx EXCEPT !.blocks = Append(@, b)]
    /\ UNCHANGED <<fileVars, lru, metaVars, rd, rolling, mode, faults>>

(* Put and Delete of a bucket.                                             *)
ChangeKey ==
    /\ tx.stage = "open"
    /\ \/ tx' = putKey(tx, "extra", <<tx.keys["count"]>>)
       \/ tx' = deleteKey(tx, "extra")
    /\ UNCHANGED <<fileVars, lru, metaVars, rd, rolling, mode, faults>>

(* close: also what Update does when the function it was given fails.      *)
RollbackTx ==
    /\ tx.stage = "open"
    /\ tx' = NoTx
    /\ UNCHANGED <<fileVars, lru, metaVars, rd, rolling, mode, faults>>

Commit ==
    /\ tx.stage = "open"
    /\ tx' = [tx EXCEPT !.stage = "write", !.old = <<wc.file, wc.off>>]
    /\ UNCHANGED <<fileVars, lru, metaVars, rd, rolling, mode, faults>>

(* The lock of the write file.  The writer asks for it, which keeps new    *)
(* readers out (sync.RWMutex), and has it when no reader is between        *)
(* blockFile and its read.                                                 *)
LockWriteFile ==
    /\ tx.stage = "write" /\ tx.blocks # <<>> /\ ~tx.wait
    /\ tx' = [tx EXCEPT !.wait = TRUE]
    /\ UNCHANGED <<fileVars, lru, metaVars, rd, rolling, mode, faults>>

WriterWaits == tx.stage = "write" /\ tx.wait

WriteFileFree == \A r \in Readers : rd[r].stage = "reading" => rd[r].handle # -1

Exceeds(b) == wc.off + Size[b] > maxBlockFileSize

(* writeBlock moves to the next file.                                      *)
NextFile ==
    /\ tx.stage = "write" /\ tx.blocks # <<>> /\ Exceeds(Head(tx.blocks))
    /\ WriterWaits /\ WriteFileFree
    /\ wc' = [file |-> wc.file + 1, off |-> 0, open |-> FALSE]
    /\ tx' = [tx EXCEPT !.wait = FALSE]
    /\ UNCHANGED <<files, synced, lru, metaVars, rd, rolling, mode, faults>>

Record(b) == [i \in 1 .. Size[b] |-> <<b, i>>]

(* A file cut to a length, or filled up to it with zeros: after a power    *)
(* loss it can be shorter than the metadata say.                           *)
zero == <<>>
Resize(f, n) == [i \in 1 .. n |-> IF i <= Len(f) THEN f[i] ELSE zero]

(* WriteAt: overwrite from the offset, past the end if need be.            *)
WriteAt(f, off, data) == Resize(f, off) \o data \o SubSeq(f, off + Len(data) + 1, Len(f))

(* openWriteFile and n cells of the record of the first pending block.     *)
WriteCells(n) ==
    LET i == wc.file + 1
        fs == IF i > Len(files) THEN Append(files, <<>>) ELSE files
        ss == IF i > Len(files) THEN Append(synced, 0) ELSE synced
    IN  /\ files' = [fs EXCEPT ![i] = WriteAt(@, wc.off, SubSeq(Record(Head(tx.blocks)), 1, n))]
        /\ synced' = [ss EXCEPT ![i] = IF @ < wc.off THEN @ ELSE wc.off]
        /\ wc' = [wc EXCEPT !.off = @ + n, !.open = TRUE]

LocationOf(b) == <<wc.file, wc.off>>

writeBlock ==
    /\ tx.stage = "write" /\ tx.blocks # <<>> /\ ~Exceeds(Head(tx.blocks))
    /\ WriterWaits /\ WriteFileFree
    /\ WriteCells(Size[Head(tx.blocks)])
    /\ tx' = [putKey(tx, Head(tx.blocks), LocationOf(Head(tx.blocks))) EXCEPT !.blocks = Tail(@),
                                                                            !.wait = FALSE]
    /\ UNCHANGED <<lru, metaVars, rd, rolling, mode, faults>>

(* writeData fails after some of the cells: the cursor is at what was      *)
(* written, and the transaction rolls the files back.                      *)
WriteFails ==
    /\ tx.stage = "write" /\ tx.blocks # <<>> /\ ~Exceeds(Head(tx.blocks))
    /\ WriterWaits /\ WriteFileFree /\ faults < MaxFaults
    /\ \E n \in 0 .. Size[Head(tx.blocks)] - 1 : WriteCells(n)
    /\ faults' = faults + 1
    /\ tx' = [tx EXCEPT !.stage = "rollback"]
    /\ rolling' = tx.old
    /\ UNCHANGED <<lru, metaVars, rd, mode>>

-----------------------------------------------------------------------------
(* handleRollback, for a failed write and for reconcileDB.  It has the     *)
(* lock of the cursor until the end.                                       *)

KeepCursor == wc
Reposition == [file |-> rolling[1], off |-> rolling[2], open |-> wc.open]

EndWithoutClose(open) ==
    /\ wc' = [Reposition EXCEPT !.open = open]
    /\ rolling' = NoTarget
    /\ mode' = "up" /\ UNCHANGED tx

EndRollback(open) ==
    /\ wc' = [Reposition EXCEPT !.open = open]
    /\ rolling' = NoTarget
    /\ tx' = NoTx
    /\ mode' = "up"

RollbackNothing ==
    /\ rolling = <<wc.file, wc.off>>
    /\ EndRollback(wc.open)
    /\ UNCHANGED <<files, synced, lru, metaVars, rd, faults>>

(* Delete the newest file, or fail and leave it.                           *)
DeleteFile ==
    /\ rolling # NoTarget /\ wc.file > rolling[1] /\ WriteFileFree
    /\ \/ /\ IF wc.file + 1 = Len(files)
             THEN files' = Front(files) /\ synced' = Front(synced)
             ELSE UNCHANGED <<files, synced>>
          /\ wc' = [wc EXCEPT !.file = @ - 1, !.open = FALSE]
          /\ UNCHANGED <<tx, rolling, mode, faults>>
       \/ /\ faults < MaxFaults /\ faults' = faults + 1
          /\ EndRollback(FALSE)
          /\ UNCHANGED <<files, synced>>
    /\ UNCHANGED <<lru, metaVars, rd>>

(* Truncate the file at the target and sync it, or fail and leave it.      *)
Truncate ==
    /\ rolling # NoTarget /\ wc.file = rolling[1] /\ rolling # <<wc.file, wc.off>>
    /\ WriteFileFree
    /\ LET i == wc.file + 1
           fs == IF i > Len(files) THEN Append(files, <<>>) ELSE files
           ss == IF i > Len(files) THEN Append(synced, 0) ELSE synced
       IN  \/ /\ files' = [fs EXCEPT ![i] = Resize(@, rolling[2])]
              /\ synced' = [ss EXCEPT ![i] = rolling[2]]
              /\ UNCHANGED faults
           \/ /\ faults < MaxFaults /\ faults' = faults + 1
              /\ files' = fs /\ synced' = ss
    /\ EndRollback(TRUE)
    /\ UNCHANGED <<lru, metaVars, rd>>

-----------------------------------------------------------------------------
(* commitTx: into the cache, or flush the cache and write through.         *)

(* The last write of writePendingAndCommit is the row of the cursor.       *)
WriteRow == putKey(tx, "writeloc", <<wc.file, wc.off>>)

Written == tx.stage = "write" /\ tx.blocks = <<>>

RemovedAfter(t) == (cachedRemove \ DOMAIN t.keys) \cup t.remove

CommitToCache ==
    /\ Written
    /\ LET t == WriteRow
       IN  /\ cachedKeys' = [k \in (DOMAIN cachedKeys \cup DOMAIN t.keys) \ t.remove |->
                               IF k \in DOMAIN t.keys THEN t.keys[k] ELSE cachedKeys[k]]
           /\ cachedRemove' = RemovedAfter(t)
    /\ tx' = NoTx
    /\ UNCHANGED <<fileVars, lru, ldb, rd, rolling, mode, faults>>

(* needsFlush: enough time has passed, or the cache is too large.          *)
needsFlush ==
    /\ Written
    /\ tx' = [WriteRow EXCEPT !.stage = "sync"]
    /\ UNCHANGED <<fileVars, lru, metaVars, rd, rolling, mode, faults>>

SyncWriteFile(ss) == IF wc.open THEN [ss EXCEPT ![wc.file + 1] = Len(files[wc.file + 1])] ELSE ss

SyncOnly ==
    /\ tx.stage = "sync"
    /\ synced' = SyncWriteFile(synced)
    /\ tx' = [tx EXCEPT !.stage = "through"]
    /\ UNCHANGED <<files, wc, lru, metaVars, rd, rolling, mode, faults>>

syncBlocks ==
    /\ tx.stage = "sync"
    /\ synced' = SyncWriteFile(synced)
    /\ tx' = [tx EXCEPT !.stage = IF cachedKeys = NoKeys /\ cachedRemove = {}
                                  THEN "through" ELSE "flush"]
    /\ UNCHANGED <<files, wc, lru, metaVars, rd, rolling, mode, faults>>

(* commitTreaps: one leveldb transaction.                                  *)
FlushToDB ==
    /\ tx.stage = "flush"
    /\ ldb' = View
    /\ tx' = [tx EXCEPT !.stage = "clear"]
    /\ UNCHANGED <<fileVars, lru, cachedKeys, cachedRemove, rd, rolling, mode, faults>>

ClearCache ==
    /\ tx.stage = "clear"
    /\ cachedKeys' = NoKeys /\ cachedRemove' = {}
    /\ tx' = [tx EXCEPT !.stage = "through"]
    /\ UNCHANGED <<fileVars, lru, ldb, rd, rolling, mode, faults>>

WriteThrough ==
    /\ tx.stage = "through"
    /\ ldb' = Layer(ldb, tx.keys, tx.remove)
    /\ tx' = NoTx
    /\ UNCHANGED <<fileVars, lru, cachedKeys, cachedRemove, rd, rolling, mode, faults>>

(* A step of the flush fails: Commit returns the error, and what was       *)
(* written to the files is not rolled back.                                *)
FlushFails ==
    /\ tx.stage \in {"sync", "flush", "through"} /\ faults < MaxFaults
    /\ faults' = faults + 1
    /\ tx' = NoTx
    /\ UNCHANGED <<fileVars, lru, metaVars, rd, rolling, mode>>

-----------------------------------------------------------------------------
(* Readers.                                                                *)

(* Snapshot takes the leveldb snapshot, and then the cache under its lock. *)
SnapshotDB(r) ==
    /\ mode = "up" /\ rd[r] = NoRead
    /\ rd' = [rd EXCEPT ![r] = [NoRead EXCEPT !.stage = "begin", !.view = ldb]]
    /\ UNCHANGED <<fileVars, lru, metaVars, tx, rolling, mode, faults>>

SnapshotCache(r) ==
    /\ rd[r].stage = "begin"
    /\ rd' = [rd EXCEPT ![r].stage = "open", ![r].view = Layer(@, cachedKeys, cachedRemove)]
    /\ UNCHANGED <<fileVars, lru, metaVars, tx, rolling, mode, faults>>

InUse(n) == \E r \in Readers : rd[r].stage = "reading" /\ rd[r].handle = n

MoveToFront(n) == LET i == CHOOSE i \in DOMAIN lru : lru[i] = n IN <<n>> \o RemoveAt(lru, i)

(* openFile closes the least recently used file when there are too many.   *)
openFile(n) == IF Len(lru) >= maxOpenFiles THEN <<n>> \o Front(lru) ELSE <<n>> \o lru

EvictsFile(n) == n \notin ToSet(lru) /\ Len(lru) >= maxOpenFiles

(* blockFile: the write file, an open file, or a file opened for this.     *)
blockFile(r, b) ==
    LET n == rd[r].view[b][1]
        write == n = wc.file /\ wc.open
    IN  /\ rd[r].stage = "open" /\ rd[r].view[b] # nil
        /\ rolling = NoTarget
        /\ write => ~WriterWaits
        /\ ~write /\ EvictsFile(n) => ~InUse(Last(lru))
        /\ lru' = CASE write -> lru
                    [] ~write /\ n \in ToSet(lru) -> MoveToFront(n)
                    [] OTHER -> openFile(n)
        /\ rd' = [rd EXCEPT ![r].stage = "reading", ![r].block = b,
                            ![r].handle = IF write THEN -1 ELSE n]
        /\ UNCHANGED <<fileVars, metaVars, tx, rolling, mode, faults>>

(* The record at a location of the metadata is whole.                      *)
WholeAt(b, loc) ==
    /\ loc[1] < Len(files)
    /\ loc[2] + Size[b] <= Len(files[loc[1] + 1])
    /\ SubSeq(files[loc[1] + 1], loc[2] + 1, loc[2] + Size[b]) = Record(b)

(* ReadAt, the checksum, and the release of the handle.                    *)
readBlock(r) ==
    /\ rd[r].stage = "reading"
    /\ LET open == IF rd[r].handle = -1 THEN wc.open ELSE rd[r].handle \in ToSet(lru)
           good == open /\ WholeAt(rd[r].block, rd[r].view[rd[r].block])
       IN  rd' = [rd EXCEPT ![r] = [NoRead EXCEPT !.stage = "open", !.view = rd[r].view,
                                                  !.good = rd[r].good /\ good]]
    /\ UNCHANGED <<fileVars, lru, metaVars, tx, rolling, mode, faults>>

EndRead(r) ==
    /\ rd[r].stage = "open"
    /\ rd' = [rd EXCEPT ![r] = NoRead]
    /\ UNCHANGED <<fileVars, lru, metaVars, tx, rolling, mode, faults>>

-----------------------------------------------------------------------------
(* Stopping and starting.                                                  *)

(* Close waits for the transactions, flushes, and closes the files.        *)
Close ==
    /\ mode = "up" /\ tx = NoTx /\ \A r \in Readers : rd[r] = NoRead
    /\ synced' = SyncWriteFile(synced)
    /\ ldb' = View /\ cachedKeys' = NoKeys /\ cachedRemove' = {}
    /\ wc' = [wc EXCEPT !.open = FALSE]
    /\ lru' = <<>> /\ mode' = "down"
    /\ UNCHANGED <<files, tx, rd, rolling, faults>>

(* The process dies.  When the power goes too, a file keeps some part of   *)
(* what had not been synced.                                               *)
Die ==
    /\ mode \in {"up", "reconcile"}
    /\ IF PowerLoss
       THEN \E keep \in [1 .. Len(files) -> 0 .. maxBlockFileSize] :
              /\ \A i \in 1 .. Len(files) : keep[i] \in synced[i] .. Len(files[i])
              /\ files' = [i \in 1 .. Len(files) |-> SubSeq(files[i], 1, keep[i])]
       ELSE UNCHANGED files
    /\ cachedKeys' = NoKeys /\ cachedRemove' = {}
    /\ tx' = NoTx /\ rd' = [r \in Readers |-> NoRead]
    /\ lru' = <<>> /\ rolling' = NoTarget /\ mode' = "down"
    /\ wc' = [wc EXCEPT !.open = FALSE]
    /\ UNCHANGED <<synced, ldb, faults>>

scanBlockFiles == IF files = <<>> THEN <<0, 0>> ELSE <<Len(files) - 1, Len(Last(files))>>

IsAfter(p, q) == p[1] > q[1] \/ (p[1] = q[1] /\ p[2] > q[2])

(* openDB and reconcileDB, up to the rollback.                             *)
reconcileDB ==
    /\ mode = "down"
    /\ wc' = [file |-> scanBlockFiles[1], off |-> scanBlockFiles[2], open |-> FALSE]
    /\ IF IsAfter(scanBlockFiles, ldb["writeloc"])
       THEN mode' = "reconcile" /\ rolling' = ldb["writeloc"]
       ELSE /\ mode' = IF IsAfter(ldb["writeloc"], scanBlockFiles) THEN "corrupt" ELSE "up"
            /\ UNCHANGED rolling
    /\ UNCHANGED <<files, synced, lru, metaVars, tx, rd, faults>>

-----------------------------------------------------------------------------
TxStep == \/ Commit \/ LockWriteFile \/ NextFile \/ writeBlock \/ CommitToCache
          \/ syncBlocks \/ FlushToDB \/ ClearCache \/ WriteThrough
          \/ RollbackNothing \/ DeleteFile \/ Truncate

BlockDBNext ==
    \/ begin \/ ChangeKey \/ RollbackTx \/ TxStep
    \/ \E b \in Blocks : StoreBlockInTx(b)
    \/ WriteFails \/ needsFlush \/ FlushFails
    \/ \E r \in Readers : SnapshotDB(r) \/ SnapshotCache(r) \/ readBlock(r) \/ EndRead(r)
    \/ \E r \in Readers, b \in Blocks : blockFile(r, b)
    \/ Close \/ Die \/ reconcileDB

(* Goroutines go on: a transaction that has begun is worked on, with a     *)
(* mutex that does not starve a writer, and reads end.                     *)
BlockDBFairness ==
    /\ SF_dbVars(TxStep) /\ WF_dbVars(RollbackTx)
    /\ \A r \in Readers : WF_dbVars(readBlock(r))

BlockDBSpec == BlockDBInit /\ [][BlockDBNext]_dbVars /\ BlockDBFairness

-----------------------------------------------------------------------------
BlockDBTypeOK ==
    /\ files \in Seq(Seq(Blocks \X (1 .. maxBlockFileSize)))
    /\ Len(synced) = Len(files)
    /\ wc.file \in Nat /\ wc.off \in 0 .. maxBlockFileSize /\ wc.open \in BOOLEAN
    /\ DOMAIN ldb = MetaKeys /\ DOMAIN cachedKeys \subseteq MetaKeys
    /\ DOMAIN cachedKeys \cap cachedRemove = {}
    /\ mode \in {"up", "reconcile", "down", "corrupt"}

(* Every block that the metadata lists, in leveldb, in the cache or in the *)
(* snapshot of a reader, is whole in the files: in the middle of a write   *)
(* that fails, while files are rolled back, and after a crash anywhere.    *)
IndexedBlocksAreWhole ==
    \A b \in Blocks :
        /\ ldb[b] # nil => WholeAt(b, ldb[b])
        /\ View[b] # nil => WholeAt(b, View[b])
        /\ \A r \in Readers : rd[r].stage \in {"open", "reading"} /\ rd[r].view[b] # nil =>
                                WholeAt(b, rd[r].view[b])

(* A read never fails: the file is not closed under the reader, whether it *)
(* is the write file that a commit moves on from or the least recently     *)
(* used file that another reader pushes out.                               *)
ReadsSucceed == \A r \in Readers : rd[r].stage \in {"open", "reading"} => rd[r].good

(* After a crash the files are never behind the metadata, and reconcileDB  *)
(* does not refuse to open the database.                                   *)
NeverCorrupt == mode # "corrupt"

(* What the metadata say to the callers of the database.                   *)
Contents(v) == [count |-> v["count"], extra |-> v["extra"], blocks |-> {b \in Blocks : v[b] # nil}]

ViewOf(read) == [stage |-> IF read.stage = "reading" THEN "open" ELSE read.stage,
                 seen  |-> Contents(read.view)]

(* A commit is one step, what a crash goes back to is a state that was     *)
(* committed, and a reader whose snapshot is taken while the cache is      *)
(* flushed misses no more than what was flushed: see AtomicStore.          *)
Store == INSTANCE AtomicStore
           WITH state <- Contents(View), saved <- Contents(ldb),
                view <- [r \in Readers |-> ViewOf(rd[r])]

ImplementsAtomicStore == Store!StoreSpec

(* The comment of dbCache.Snapshot: the snapshot of a reader is that of a  *)
(* particular point in time.  The counter tells the points apart, and      *)
(* blocks are only added: with the counter of the database, a reader has   *)
(* all of its blocks.                                                      *)
SnapshotsAreOfOnePoint ==
    \A r \in Readers :
        rd[r].stage = "open" /\ rd[r].view["count"] = View["count"] =>
            Contents(rd[r].view).blocks = Contents(View).blocks

(* A commit, with its rollback when it fails, comes to its end unless the  *)
(* process dies first.                                                     *)
CommitEnds == tx.stage \notin {"none", "open"} ~> tx = NoTx

(* What the metadata lists can be read: by the writer, by every reader for *)
(* as long as its transaction lasts, and after a crash.                    *)
BlocksAreKept == BlockDBTypeOK /\ IndexedBlocksAreWhole /\ ReadsSucceed /\ NeverCorrupt

=============================================================================
