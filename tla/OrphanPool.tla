----------------------------- MODULE OrphanPool -----------------------------
(***************************************************************************)
(* The pool of orphan blocks of pkg/chain: blocks whose parent has not     *)
(* arrived.  An orphan expires one hour after it arrived and is then       *)
(* dropped by the next addOrphanBlock; a pool that is full makes room by   *)
(* dropping the orphan that oldestOrphan points to.                        *)
(*                                                                         *)
(* The pointer is to a record, but removal goes by the hash of the record, *)
(* so the pointer is modelled as the hash and the expiration it was        *)
(* created with.  It is never cleared when the orphan it points to leaves  *)
(* the pool in another way, so it can outlive it.                          *)
(***************************************************************************)
EXTENDS Integers, Sequences, FiniteSets

CONSTANTS
    Hashes,            \* the hashes of the blocks that can be orphans
    PrevBlock,         \* Header.PrevBlock of an orphan
    MaxOrphanBlocks,   \* maxOrphanBlocks (100 in the code)
    Hour,              \* how long an orphan lives, in ticks
    MaxTime,           \* bound on the clock
    NoOrphan           \* the nil *orphanBlock

ASSUME PoolAssumption ==
    /\ IsFiniteSet(Hashes)
    /\ NoOrphan \notin Hashes
    /\ MaxOrphanBlocks \in Nat \ {0}
    /\ Hour \in Nat
    /\ MaxTime \in Nat

VARIABLES
    index,             \* b.Index: the blocks that have been accepted
    now,               \* time.Now()
    orphans,           \* b.orphans: the pooled hashes
    expiration,        \* orphanBlock.expiration of a pooled orphan, else 0
    prevOrphans,       \* b.prevOrphans: the orphans of a parent, as they arrived
    oldestOrphan,      \* b.oldestOrphan, the hash it points to
    oldestExpiration   \* ... and the expiration of that record, 0 for nil

poolVars == <<now, orphans, expiration, prevOrphans, oldestOrphan, oldestExpiration>>

Parents == {PrevBlock[h] : h \in Hashes}

PoolInit ==
    /\ now = 0
    /\ orphans = {}
    /\ expiration = [h \in Hashes |-> 0]
    /\ prevOrphans = [p \in Parents |-> <<>>]
    /\ oldestOrphan = NoOrphan
    /\ oldestExpiration = 0

-----------------------------------------------------------------------------

WithoutNothing(seq, gone) == seq   \* mutant: prevOrphans is not cleaned up

(* The elements of a slice that are not in gone, in their order.           *)
Without(seq, gone) ==
    LET kept[i \in 0..Len(seq)] ==
            IF i = 0 THEN <<>>
            ELSE IF seq[i] \in gone THEN kept[i - 1] ELSE Append(kept[i - 1], seq[i])
    IN  kept[Len(seq)]

(* The orphans addOrphanBlock drops first: those whose hour is over.       *)
Expired == {h \in orphans : now > expiration[h]}

(* The pointer after the loop over the pool: an orphan that is still alive *)
(* takes it over when it is nil or when the orphan expires earlier.        *)
IsYoungest(h, live) == \A k \in live : expiration[h] >= expiration[k]   \* mutant

IsOldest(h, live) == \A k \in live : expiration[h] <= expiration[k]

NextOldest(old, oldExp, live) ==
    IF \E h \in live : oldestOrphan = NoOrphan \/ expiration[h] < oldestExpiration
    THEN /\ old \in live
         /\ IsOldest(old, live)
         /\ oldExp = expiration[old]
    ELSE /\ old = oldestOrphan
         /\ oldExp = oldestExpiration

(* The pool without the orphans in gone, and with h added.                 *)
PoolUpdate(gone, added) ==
    /\ orphans' = (orphans \ gone) \cup added
    /\ expiration' = [h \in Hashes |-> IF h \in added THEN now + Hour
                                       ELSE IF h \in gone THEN 0 ELSE expiration[h]]
    /\ prevOrphans' = [p \in Parents |->
          LET kept == Without(prevOrphans[p], gone)
          IN  IF \E h \in added : PrevBlock[h] = p
              THEN Append(kept, CHOOSE h \in added : PrevBlock[h] = p)
              ELSE kept]

(* Mutant: the limit is off by one.                                        *)
addOrphanBlockOffByOne(h) ==
    LET live == orphans \ Expired
    IN  \E old \in Hashes \cup {NoOrphan}, oldExp \in 0..(MaxTime + Hour) :
          /\ NextOldest(old, oldExp, live)
          /\ IF Cardinality(live) > MaxOrphanBlocks
             THEN /\ PoolUpdate(Expired \cup {old}, {h})
                  /\ oldestOrphan' = NoOrphan
                  /\ oldestExpiration' = 0
             ELSE /\ PoolUpdate(Expired, {h})
                  /\ oldestOrphan' = old
                  /\ oldestExpiration' = oldExp
          /\ UNCHANGED now

(* addOrphanBlock.  The eviction goes by the hash the pointer holds: it    *)
(* drops whatever is pooled under that hash, or nothing.                   *)
addOrphanBlock(h) ==
    LET live == orphans \ Expired
    IN  \E old \in Hashes \cup {NoOrphan}, oldExp \in 0..(MaxTime + Hour) :
          /\ NextOldest(old, oldExp, live)
          /\ IF Cardinality(live) + 1 > MaxOrphanBlocks
             THEN /\ PoolUpdate(Expired \cup {old}, {h})
                  /\ oldestOrphan' = NoOrphan
                  /\ oldestExpiration' = 0
             ELSE /\ PoolUpdate(Expired, {h})
                  /\ oldestOrphan' = old
                  /\ oldestExpiration' = oldExp
          /\ UNCHANGED now

(* removeOrphanBlock, as processOrphans calls it.                          *)
removeOrphanBlock(h) ==
    /\ PoolUpdate({h}, {})
    /\ UNCHANGED <<now, oldestOrphan, oldestExpiration>>

Tick ==
    /\ now < MaxTime
    /\ now' = now + 1
    /\ UNCHANGED <<orphans, expiration, prevOrphans, oldestOrphan, oldestExpiration>>

(* The pool's callers.  ProcessBlock pools a block that is neither pooled  *)
(* nor indexed and whose parent is not indexed; it indexes a block whose   *)
(* parent is (Roots are the blocks that are nobody's orphan).  Then        *)
(* processOrphans takes the first orphan of an indexed parent and indexes  *)
(* it, or fails to and gives up, which may leave others behind.            *)
Roots == Parents \ Hashes

ProcessOrphan(h) ==
    /\ h \notin orphans \cup index
    /\ PrevBlock[h] \notin index
    /\ addOrphanBlock(h)
    /\ UNCHANGED index

AcceptBlock(b) ==
    /\ b \notin orphans \cup index
    /\ b \in Hashes => PrevBlock[b] \in index
    /\ index' = index \cup {b}
    /\ UNCHANGED poolVars

TakeOrphan(p) ==
    /\ p \in index
    /\ prevOrphans[p] # <<>>
    /\ removeOrphanBlock(Head(prevOrphans[p]))
    /\ index' \in {index, index \cup {Head(prevOrphans[p])}}

PoolNext ==
    \/ \E h \in Hashes : ProcessOrphan(h)
    \/ \E b \in Hashes \cup Roots : AcceptBlock(b)
    \/ \E p \in Parents : TakeOrphan(p)
    \/ Tick /\ UNCHANGED index

PoolStart == PoolInit /\ index = {}

PoolSpec == PoolStart /\ [][PoolNext]_<<index, poolVars>>

-----------------------------------------------------------------------------

(* The types of the pool's fields (struct BlockChain).                     *)
PoolTypeOK ==
    /\ index \subseteq Hashes \cup Roots
    /\ now \in Nat
    /\ orphans \subseteq Hashes
    /\ expiration \in [Hashes -> Nat]
    /\ prevOrphans \in [Parents -> Seq(Hashes)]
    /\ oldestOrphan \in Hashes \cup {NoOrphan}
    /\ oldestExpiration \in Nat

(* What the limit in addOrphanBlock achieves: because the pointer can be   *)
(* stale, an eviction can be a no-op and the pool can exceed                *)
(* maxOrphanBlocks by one, but never by two.                               *)
PoolBounded == Cardinality(orphans) <= MaxOrphanBlocks + 1

(* Why it is never two: the add that overshoots clears the pointer, so     *)
(* the next one finds a pooled orphan to evict.                            *)
OvershootClearsPointer ==
    Cardinality(orphans) > MaxOrphanBlocks => oldestOrphan = NoOrphan

(* The two maps of the pool describe the same orphans: prevOrphans lists   *)
(* every pooled orphan under its parent exactly once, oldest first, and    *)
(* nothing else, however orphans leave the pool.                           *)
MapsAgree ==
    \A p \in Parents :
        /\ {prevOrphans[p][i] : i \in DOMAIN prevOrphans[p]}
              = {h \in orphans : PrevBlock[h] = p}
        /\ \A i, j \in DOMAIN prevOrphans[p] : i < j =>
              /\ prevOrphans[p][i] # prevOrphans[p][j]
              /\ expiration[prevOrphans[p][i]] <= expiration[prevOrphans[p][j]]

(* A non-nil pointer, stale or not, is to a record that is at least as old *)
(* as every pooled orphan, so the loop in addOrphanBlock never moves it.   *)
PointerIsOldest ==
    oldestOrphan # NoOrphan =>
        \A h \in orphans : oldestExpiration <= expiration[h]

=============================================================================
