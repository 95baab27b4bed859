----------------------------- MODULE DbCursor ------------------------------
(***************************************************************************)
(* Iteration in pkg/db/ffldb.  What a transaction sees is three layers:    *)
(* leveldb, the cache over it, and the pending keys of the transaction     *)
(* over both, the last two with sets of removed keys.  dbCacheIterator     *)
(* merges the first two and cursor merges the result with the third, with  *)
(* the same code: skip what the upper layer updates, then choose the side  *)
(* with the nearer key.  Buckets are prefixes of the keys, and a bucket is *)
(* deleted by walking such a cursor.                                       *)
(***************************************************************************)
EXTENDS Naturals, Sequences, FiniteSets, FiniteSetsExt, SequencesExt

CONSTANTS CursorKeys      \* numbers above 0, in the order of bytes.Compare

VARIABLES layers,         \* the keys of each layer and the keys it removes
          cur,            \* the cursor: the positions of its iterators
          forwards,       \* the direction of this walk
          visited,        \* the keys it has been at
          start           \* what the transaction saw when the walk began

cursorVars == <<layers, cur, forwards, visited, start>>

(* A key of the view of each layer over the one below.                     *)
CacheView(l) == (l.db \ (l.cacheRemove \cup l.cacheKeys)) \cup l.cacheKeys
TxViewOf(l)  == (CacheView(l) \ (l.pendingRemove \cup l.pendingKeys)) \cup l.pendingKeys

(* One layer: the position is a key of the set, or 0 when it is not Valid. *)
Nearest(S, fwd) == IF S = {} THEN 0 ELSE IF fwd THEN Min(S) ELSE Max(S)
Beyond(S, k, fwd) == Nearest({x \in S : IF fwd THEN x > k ELSE x < k}, fwd)
AdvanceSide(S, k, fwd) == IF k = 0 THEN 0 ELSE Beyond(S, k, fwd)

(* chooseIterator: of two positions, neither or one of which may be        *)
(* exhausted, the side that comes next; on a tie the database.             *)
ChooseSide(a, b, fwd) ==
    CASE a = 0 /\ b = 0 -> "none"
      [] a # 0 /\ b = 0 -> "db"
      [] a = 0 /\ b # 0 -> "upper"
      [] OTHER -> IF (fwd /\ a > b) \/ (~fwd /\ a < b) THEN "upper" ELSE "db"

(* dbCacheIterator.skipPendingUpdates and chooseIterator.                  *)
cacheChoose(l, it, fwd) ==
    LET hidden == l.cacheRemove \cup l.cacheKeys
        d == IF it.ldb \in hidden THEN Beyond(l.db \ hidden, it.ldb, fwd) ELSE it.ldb
    IN  [it EXCEPT !.ldb = d, !.cacheSide = ChooseSide(d, it.cache, fwd)]

cacheKey(it) == CASE it.cacheSide = "db" -> it.ldb
                  [] it.cacheSide = "upper" -> it.cache
                  [] OTHER -> 0

cacheEnd(l, it, fwd) ==
    cacheChoose(l, [it EXCEPT !.ldb = Nearest(l.db, fwd), !.cache = Nearest(l.cacheKeys, fwd)], fwd)

cacheMove(l, it, fwd) ==
    CASE it.cacheSide = "none" -> it
      [] it.cacheSide = "db" ->
            cacheChoose(l, [it EXCEPT !.ldb = AdvanceSide(l.db, @, fwd)], fwd)
      [] OTHER -> cacheChoose(l, [it EXCEPT !.cache = AdvanceSide(l.cacheKeys, @, fwd)], fwd)

(* cursor.skipPendingUpdates: the loop moves the iterator below on.        *)
RECURSIVE skipPendingUpdates(_, _, _)
skipPendingUpdates(l, it, fwd) ==
    IF cacheKey(it) # 0 /\ cacheKey(it) \in l.pendingRemove \cup l.pendingKeys
    THEN skipPendingUpdates(l, cacheMove(l, it, fwd), fwd)
    ELSE it

chooseIterator(l, it, fwd) ==
    LET s == skipPendingUpdates(l, it, fwd)
    IN  [s EXCEPT !.side = ChooseSide(cacheKey(s), s.pending, fwd)]

cursorKey(it) == CASE it.side = "db" -> cacheKey(it)
                   [] it.side = "upper" -> it.pending
                   [] OTHER -> 0

(* First and Last.                                                         *)
cursorEnd(l, it, fwd) ==
    chooseIterator(l, [cacheEnd(l, it, fwd) EXCEPT !.pending = Nearest(l.pendingKeys, fwd)], fwd)

(* Next and Prev: only the iterator that is current moves.                 *)
cursorMove(l, it, fwd) ==
    CASE it.side = "none" -> it
      [] it.side = "db" -> chooseIterator(l, cacheMove(l, it, fwd), fwd)
      [] OTHER -> chooseIterator(l, [it EXCEPT !.pending = AdvanceSide(l.pendingKeys, @, fwd)], fwd)

(* Delete at the cursor: deleteKey, and the iterators reseek.              *)
cursorDelete(l, k) ==
    [l EXCEPT !.pendingKeys = @ \ {k}, !.pendingRemove = @ \cup {k}]

newCursor == [ldb |-> 0, cache |-> 0, cacheSide |-> "none", pending |-> 0, side |-> "none"]

-----------------------------------------------------------------------------
CursorInit ==
    /\ layers \in [db : SUBSET CursorKeys, cacheKeys : SUBSET CursorKeys,
                   cacheRemove : SUBSET CursorKeys, pendingKeys : SUBSET CursorKeys,
                   pendingRemove : SUBSET CursorKeys]
    /\ layers.cacheKeys \cap layers.cacheRemove = {}
    /\ layers.pendingKeys \cap layers.pendingRemove = {}
    /\ forwards \in BOOLEAN
    /\ start = TxViewOf(layers)
    /\ cur = cursorEnd(layers, newCursor, forwards)
    /\ visited = <<>>

Walk ==
    /\ cursorKey(cur) # 0
    /\ visited' = Append(visited, cursorKey(cur))
    /\ cur' = cursorMove(layers, cur, forwards)
    /\ UNCHANGED <<layers, forwards, start>>

DeleteAndWalk ==
    /\ cursorKey(cur) # 0
    /\ visited' = Append(visited, cursorKey(cur))
    /\ layers' = cursorDelete(layers, cursorKey(cur))
    /\ cur' = cursorMove(layers', cur, forwards)
    /\ UNCHANGED <<forwards, start>>

CursorNext == Walk \/ DeleteAndWalk

-----------------------------------------------------------------------------
(* A walk in one direction visits every key that the transaction saw, once *)
(* and in order, wherever the keys and the removals are, and although the  *)
(* walk deletes keys as it goes.                                           *)
WalkVisitsAll ==
    LET order == SetToSortSeq(start, LAMBDA x, y : IF forwards THEN x < y ELSE x > y)
    IN  /\ IsPrefix(visited, order)
        /\ cursorKey(cur) = 0 => visited = order

-----------------------------------------------------------------------------
(* Nested buckets.  A bucket is a number; an index entry <parent, name>    *)
(* gives the number of a bucket, an entry <bucket, key> is a key in it,    *)
(* and all of them are keys of one flat map.  A transaction works on a     *)
(* copy and replaces the map when it commits.                              *)
CONSTANTS BucketNames, BucketKeys,   \* small sets of numbers
          MaxBucketID                \* bound on the numbers given out

Metadata == 0                        \* metadataBucketID
BlockIdx == 1                        \* blockIdxBucketID, the last fixed number

VARIABLES bucketDB,    \* the committed map: index, entries and the highest number
          bucketTx     \* what the open transaction makes of it, and its pending keys

bucketVars == <<bucketDB, bucketTx>>

Children(m, ids) == {e.id : e \in {x \in m.index : x.parent \in ids}}

(* Bucket: the number under a name, or none.                               *)
BucketOf(m, parent, name) == {e.id : e \in {x \in m.index : x.parent = parent /\ x.name = name}}

BucketsInit ==
    /\ bucketDB = [index |-> {}, entries |-> {}, cur |-> BlockIdx]
    /\ bucketTx = [map |-> bucketDB, pending |-> {}, open |-> FALSE]

Open == {Metadata} \cup {e.id : e \in bucketTx.map.index}

Update(m, pending) == bucketTx' = [bucketTx EXCEPT !.map = m, !.pending = pending]
                      /\ UNCHANGED bucketDB

nextBucketID(m) == m.cur + 1

CreateBucket(parent, name) ==
    LET m  == bucketTx.map
        id == nextBucketID(m)
    IN  /\ bucketTx.open /\ parent \in Open /\ id <= MaxBucketID
        /\ BucketOf(m, parent, name) = {}
        /\ Update([m EXCEPT !.index = @ \cup {[parent |-> parent, name |-> name, id |-> id]},
                            !.cur = id], bucketTx.pending)

BucketPut(id, k) ==
    LET m == bucketTx.map
    IN  /\ bucketTx.open /\ id \in Open
        /\ Update([m EXCEPT !.entries = @ \cup {<<id, k>>}], bucketTx.pending \cup {<<id, k>>})

BucketDelete(id, k) ==
    LET m == bucketTx.map
    IN  /\ bucketTx.open /\ id \in Open /\ <<id, k>> \in m.entries
        /\ Update([m EXCEPT !.entries = @ \ {<<id, k>>}], bucketTx.pending \ {<<id, k>>})

(* All the buckets under one, found level by level.                        *)
RECURSIVE Below(_, _)
Below(m, ids) == IF Children(m, ids) \subseteq ids THEN ids
                 ELSE Below(m, ids \cup Children(m, ids))

(* The walk of DeleteBucket removes keys under an iterator that it does    *)
(* not notify: of the keys that are pending in the same transaction it may *)
(* miss any but the first.                                                 *)
MayMiss(ids) ==
    LET p == {e \in bucketTx.pending : e[1] \in ids}
    IN  {s \in SUBSET p : \A id \in ids : LET mine == {e \in p : e[1] = id}
                                          IN  mine # {} => ~ (mine \subseteq s)}

DeleteBucket(parent, name) ==
    LET m == bucketTx.map
    IN  /\ bucketTx.open /\ parent \in Open /\ BucketOf(m, parent, name) # {}
        /\ LET ids == Below(m, BucketOf(m, parent, name))
           IN  \E missed \in MayMiss(ids) :
                 Update([m EXCEPT !.entries = {e \in @ : e[1] \in ids => e \in missed},
                                  !.index = {e \in @ : e.id \notin ids}],
                        {e \in bucketTx.pending : e[1] \in ids => e \in missed})

BeginBuckets == /\ ~bucketTx.open
                /\ bucketTx' = [map |-> bucketDB, pending |-> {}, open |-> TRUE]
                /\ UNCHANGED bucketDB

CommitBuckets == /\ bucketTx.open
                 /\ bucketDB' = bucketTx.map
                 /\ bucketTx' = [bucketTx EXCEPT !.open = FALSE]

RollbackBuckets == /\ bucketTx.open
                   /\ bucketTx' = [map |-> bucketDB, pending |-> {}, open |-> FALSE]
                   /\ UNCHANGED bucketDB

BucketsNext ==
    \/ \E p \in Open, n \in BucketNames : CreateBucket(p, n) \/ DeleteBucket(p, n)
    \/ \E id \in Open \ {Metadata}, k \in BucketKeys : BucketPut(id, k) \/ BucketDelete(id, k)
    \/ BeginBuckets \/ CommitBuckets \/ RollbackBuckets

-----------------------------------------------------------------------------
(* A bucket that is created is empty, whatever was deleted or rolled back  *)
(* before under the same name: keys that a deletion missed stay out of     *)
(* reach, because no number is given out twice.                            *)
NewBucketsAreEmpty ==
    [][\A e \in bucketTx'.map.index \ bucketTx.map.index :
         bucketTx.open /\ bucketTx'.open =>
             \A x \in bucketTx'.map.entries : x[1] # e.id]_bucketVars

=============================================================================
