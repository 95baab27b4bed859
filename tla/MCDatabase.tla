----------------------------- MODULE MCDatabase -----------------------------
(* Instances of the database modules for TLC.  Which of them a behaviour   *)
(* is about is chosen at the start: the block database with one reader and *)
(* failing writes, the same with two readers and none, the pending treap   *)
(* with its iterator, the versions of the cache's treap, a walk of a       *)
(* cursor, or the buckets.  The pending treap has one node less than the   *)
(* versions of the cache's treap share.                                    *)
EXTENDS BlockDB, Treap, DbCursor, TLC

CONSTANTS b1, b2, r1, r2

MCSize == b1 :> 1 @@ b2 :> 2

VARIABLE part

NoWalk == /\ layers = [db |-> {}, cacheKeys |-> {}, cacheRemove |-> {},
                       pendingKeys |-> {}, pendingRemove |-> {}]
          /\ cur = newCursor /\ forwards = TRUE /\ visited = <<>> /\ start = {}

MCInit == /\ part \in {"faults", "readers", "pending", "versions", "walk", "buckets"}
          /\ BlockDBInit /\ TreapInit /\ BucketsInit
          /\ (part = "walk" /\ CursorInit) \/ (part # "walk" /\ NoWalk)

others == <<treapVars, cursorVars, bucketVars, part>>

OneReader == part = "faults" /\ rd'[r2] = NoRead /\ UNCHANGED others
NoFault   == part = "readers" /\ faults' = 0 /\ UNCHANGED others
InStore   == OneReader \/ NoFault

MCNext ==
    \/ begin /\ InStore
    \/ ChangeKey /\ tx.blocks = <<>> /\ OneReader
    \/ RollbackTx /\ InStore
    \/ Commit /\ InStore
    \/ LockWriteFile /\ InStore
    \/ NextFile /\ InStore
    \/ writeBlock /\ InStore
    \/ CommitToCache /\ InStore
    \/ syncBlocks /\ InStore
    \/ FlushToDB /\ InStore
    \/ ClearCache /\ InStore
    \/ WriteThrough /\ InStore
    \/ RollbackNothing /\ InStore
    \/ DeleteFile /\ InStore
    \/ Truncate /\ InStore
    \/ \E b \in Blocks : StoreBlockInTx(b) /\ InStore
    \/ WriteFails /\ InStore
    \/ needsFlush /\ InStore
    \/ FlushFails /\ InStore
    \/ \E r \in Readers : SnapshotDB(r) /\ InStore
    \/ \E r \in Readers : SnapshotCache(r) /\ InStore
    \/ \E r \in Readers : readBlock(r) /\ InStore
    \/ \E r \in Readers : EndRead(r) /\ InStore
    \/ \E r \in Readers, b \in Blocks : blockFile(r, b) /\ InStore
    \/ Close /\ InStore
    \/ Die /\ InStore
    \/ reconcileDB /\ InStore
    \/ part = "pending" /\ PendingNext /\ Len(heap') < MaxNodes /\ UNCHANGED <<dbVars, cursorVars, bucketVars, part>>
    \/ part = "versions" /\ CachedNext /\ UNCHANGED <<dbVars, cursorVars, bucketVars, part>>
    \/ part = "walk" /\ CursorNext /\ UNCHANGED <<dbVars, treapVars, bucketVars, part>>
    \/ part = "buckets" /\ BucketsNext /\ UNCHANGED <<dbVars, treapVars, cursorVars, part>>
    \/ part = "walk" /\ cursorKey(cur) = 0 /\ UNCHANGED <<dbVars, treapVars, cursorVars, bucketVars, part>>

allVars == <<dbVars, treapVars, cursorVars, bucketVars, part>>

MCSpec == MCInit /\ [][MCNext]_allVars /\ BlockDBFairness

-----------------------------------------------------------------------------
(* The maps of a transaction keep their order while it changes them: the   *)
(* treaps stay search trees, a snapshot of the cache keeps its keys, an    *)
(* iterator keeps its place, a cursor over the three layers meets every    *)
(* key once, and a new bucket never gets the entries of a dropped one.     *)
OrderedMapsAgree ==
    /\ [](SearchTrees /\ SnapshotUnchanged /\ WalkVisitsAll)
    /\ IteratorKeepsItsPlace
    /\ NewBucketsAreEmpty

=============================================================================
