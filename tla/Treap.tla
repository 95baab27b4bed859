------------------------------- MODULE Treap -------------------------------
(***************************************************************************)
(* The ordered maps of the database layer, pkg/util/treap: the mutable     *)
(* treap that holds the pending keys of a transaction, with the iterators  *)
(* that walk it while it changes, and the immutable treap that holds the   *)
(* keys of the cache, whose old versions are the snapshots of readers.     *)
(*                                                                         *)
(* Nodes live in a heap of records and are named by their address, as the  *)
(* code names them by pointer; 0 is nil.  Values are left out.             *)
(***************************************************************************)
EXTENDS Naturals, Sequences, FiniteSetsExt, SequencesExt

CONSTANTS TreapKeys,   \* a set of numbers above 0, compared as bytes.Compare does
          Priorities,  \* what rand.Int may return
          MaxNodes,    \* bound on the nodes ever allocated
          StartKey,    \* the range of the iterator, 0 for nil
          LimitKey

VARIABLES heap,        \* every node allocated so far
          root,        \* t.root of the mutable treap
          iter,        \* an Iterator over it
          version,     \* root of the newest immutable treap
          snapshot     \* an older version, with the keys it had when it was taken

treapVars == <<heap, root, iter, version, snapshot>>

newTreapNode(k, p) == [key |-> k, prio |-> p, left |-> 0, right |-> 0]

-----------------------------------------------------------------------------
(* Finding a key.                                                          *)

(* The nodes that a search for k visits from node n on, as every loop of   *)
(* the package over node.left and node.right does.                         *)
RECURSIVE PathFrom(_, _, _)
PathFrom(h, n, k) ==
    IF n = 0 THEN <<>>
    ELSE <<n>> \o CASE k < h[n].key -> PathFrom(h, h[n].left, k)
                    [] k > h[n].key -> PathFrom(h, h[n].right, k)
                    [] OTHER -> <<>>

get(h, r, k) == LET p == PathFrom(h, r, k)
                IN  IF p # <<>> /\ h[Last(p)].key = k THEN Last(p) ELSE 0

(* ForEach: the keys in the order of the tree.                             *)
RECURSIVE ForEach(_, _)
ForEach(h, n) ==
    IF n = 0 THEN <<>>
    ELSE ForEach(h, h[n].left) \o <<h[n].key>> \o ForEach(h, h[n].right)

-----------------------------------------------------------------------------
(* Changing a treap.  Each operator returns the heap and the root.         *)

Tree(h, r) == [heap |-> h, root |-> r]

relinkGrandparent(h, r, node, parent, grandparent) ==
    IF grandparent = 0 THEN Tree(h, node)
    ELSE IF h[grandparent].left = parent
         THEN Tree([h EXCEPT ![grandparent].left = node], r)
         ELSE Tree([h EXCEPT ![grandparent].right = node], r)

(* parent takes over one child of its child, and becomes its other child.  *)
Rotate(h, node, parent) ==
    IF h[parent].left = node
    THEN [h EXCEPT ![parent].left = h[node].right, ![node].right = parent]
    ELSE [h EXCEPT ![parent].right = h[node].left, ![node].left = parent]

(* Rotations that move a new node up to where its priority belongs.        *)
RECURSIVE RotateUp(_, _, _, _)
RotateUp(h, r, node, parents) ==
    IF parents = <<>> \/ h[node].prio >= h[Last(parents)].prio THEN Tree(h, r)
    ELSE LET up == Front(parents)
             t  == relinkGrandparent(Rotate(h, node, Last(parents)), r, node, Last(parents),
                                     IF up = <<>> THEN 0 ELSE Last(up))
         IN  RotateUp(t.heap, t.root, node, up)

LinkNode(h, r, parents, k, p) ==
    LET n == Len(h) + 1
        linked == IF k < h[Last(parents)].key
                  THEN [h EXCEPT ![Last(parents)].left = n]
                  ELSE [h EXCEPT ![Last(parents)].right = n]
    IN  RotateUp(Append(linked, newTreapNode(k, p)), r, n, parents)

MutablePut(h, r, k, p) ==
    LET path == PathFrom(h, r, k)
    IN  IF r = 0 THEN Tree(Append(h, newTreapNode(k, p)), Len(h) + 1)
        ELSE IF h[Last(path)].key = k THEN Tree(h, r)
        ELSE LinkNode(h, r, path, k, p)

(* The child that Delete rotates above the node it removes.                *)
ChildToRaise(h, node) ==
    CASE h[node].left = 0 -> h[node].right
      [] h[node].right = 0 -> h[node].left
      [] h[h[node].left].prio >= h[h[node].right].prio -> h[node].left
      [] OTHER -> h[node].right

(* cloneTreapNode: a copy of node n, put in its place under parent.        *)
CloneUnder(h, n, parent) ==
    LET copy == Len(h) + 1
        linked == CASE parent = 0 -> h
                    [] parent # 0 /\ h[parent].left = n -> [h EXCEPT ![parent].left = copy]
                    [] OTHER -> [h EXCEPT ![parent].right = copy]
    IN  Append(linked, h[n])

Disconnect(h, node, parent) ==
    IF h[parent].right = node THEN [h EXCEPT ![parent].right = 0]
    ELSE [h EXCEPT ![parent].left = 0]

(* The loop of Delete that moves the node down to a leaf and cuts it off;  *)
(* the immutable treap clones each child that it raises.                   *)
RECURSIVE RotateDown(_, _, _, _, _)
RotateDown(h, r, node, parent, clone) ==
    IF h[node].left = 0 /\ h[node].right = 0 THEN Tree(Disconnect(h, node, parent), r)
    ELSE LET up    == ChildToRaise(h, node)
             hc    == IF clone THEN CloneUnder(h, up, node) ELSE h
             child == IF clone THEN Len(hc) ELSE up
             t     == relinkGrandparent(Rotate(hc, child, node), r, child, node, parent)
         IN  RotateDown(t.heap, t.root, node, child, clone)

MutableDelete(h, r, k) ==
    LET path == PathFrom(h, r, k)
        node == get(h, r, k)
    IN  CASE node = 0 -> Tree(h, r)
          [] Len(path) = 1 /\ h[node].left = 0 /\ h[node].right = 0 -> Tree(h, 0)
          [] OTHER -> RotateDown(h, r, node, IF Len(path) = 1 THEN 0 ELSE path[Len(path) - 1],
                                 FALSE)

(* The nodes of a path replaced by copies, linked to each other.           *)
RECURSIVE ClonePath(_, _, _)
ClonePath(h, path, parents) ==
    IF path = <<>> THEN [heap |-> h, path |-> parents]
    ELSE LET hc == CloneUnder(h, path[1], IF parents = <<>> THEN 0 ELSE Last(parents))
         IN  ClonePath(hc, Tail(path), Append(parents, Len(hc)))

ImmutablePut(h, r, k, p) ==
    LET c == ClonePath(h, PathFrom(h, r, k), <<>>)
    IN  IF r = 0 THEN Tree(Append(h, newTreapNode(k, p)), Len(h) + 1)
        ELSE IF c.heap[Last(c.path)].key = k THEN Tree(c.heap, c.path[1])
        ELSE LinkNode(c.heap, c.path[1], c.path, k, p)

ImmutableDelete(h, r, k) ==
    LET path == PathFrom(h, r, k)
        node == get(h, r, k)
        c    == ClonePath(h, path, <<>>)
    IN  CASE node = 0 -> Tree(h, r)
          [] Len(path) = 1 /\ h[node].left = 0 /\ h[node].right = 0 -> Tree(h, 0)
          [] OTHER -> RotateDown(c.heap, c.path[1], Last(c.path),
                                 IF Len(path) = 1 THEN 0 ELSE c.path[Len(path) - 1], TRUE)

-----------------------------------------------------------------------------
(* Iterators.                                                              *)

newIterator(r) == [root |-> r, node |-> 0, parents |-> <<>>, isNew |-> TRUE, seekKey |-> 0]

limitIterator(h, it) ==
    IF /\ it.node # 0
       /\ \/ StartKey # 0 /\ h[it.node].key < StartKey
          \/ LimitKey # 0 /\ h[it.node].key >= LimitKey
    THEN [it EXCEPT !.node = 0]
    ELSE it

(* seek: of the nodes on the path, the last one on the wanted side of the  *)
(* key (or the exact match); the parents are what is above it.             *)
SeekPath(h, r, k, exactMatch, greater) ==
    LET path == PathFrom(h, r, k)
        hit  == path # <<>> /\ h[Last(path)].key = k
        on   == IF greater THEN h[Last(path)].right ELSE h[Last(path)].left
    IN  IF hit /\ ~exactMatch
        THEN path \o PathFrom(h, on, k)
        ELSE path

seek(h, it, k, exactMatch, greater) ==
    LET path == SeekPath(h, it.root, k, exactMatch, greater)
        Wanted(n) == \/ exactMatch /\ h[n].key = k
                     \/ greater /\ h[n].key > k
                     \/ ~greater /\ h[n].key < k
        at == SelectLastInSubSeq(path, 1, Len(path), Wanted)
    IN  limitIterator(h, [it EXCEPT !.node = IF at = 0 THEN 0 ELSE path[at],
                                    !.parents = IF at = 0 THEN <<>> ELSE SubSeq(path, 1, at - 1)])

(* The end of a chain of left (or right) children, with the nodes above.   *)
RECURSIVE Descend(_, _, _, _)
Descend(h, node, parents, leftwards) ==
    LET next == IF leftwards THEN h[node].left ELSE h[node].right
    IN  IF next = 0 THEN [node |-> node, parents |-> parents]
        ELSE Descend(h, next, Append(parents, node), leftwards)

AtEnd(h, it, leftwards) ==
    IF it.root = 0 THEN [it EXCEPT !.parents = <<>>, !.isNew = FALSE]
    ELSE LET d == Descend(h, it.root, <<>>, leftwards)
         IN  [it EXCEPT !.node = d.node, !.parents = d.parents, !.isNew = FALSE]

treapFirst(h, it) == IF StartKey # 0
                THEN seek(h, [it EXCEPT !.isNew = FALSE], StartKey, TRUE, TRUE)
                ELSE AtEnd(h, it, TRUE)

treapLast(h, it) == IF LimitKey # 0
                  THEN seek(h, [it EXCEPT !.isNew = FALSE], LimitKey, FALSE, FALSE)
                  ELSE AtEnd(h, it, FALSE)

(* Up the parents until the node is not the far child of one of them.      *)
RECURSIVE Ascend(_, _, _, _)
Ascend(h, node, parents, forwards) ==
    IF parents = <<>> THEN [node |-> 0, parents |-> <<>>]
    ELSE LET parent == Last(parents)
             far    == IF forwards THEN h[parent].right ELSE h[parent].left
         IN  IF far = node THEN Ascend(h, parent, Front(parents), forwards)
             ELSE [node |-> parent, parents |-> Front(parents)]

TreapStep(h, it, forwards) ==
    LET side == IF forwards THEN h[it.node].right ELSE h[it.node].left
        d    == IF side = 0 THEN Ascend(h, it.node, it.parents, forwards)
                ELSE Descend(h, side, Append(it.parents, it.node), forwards)
    IN  limitIterator(h, [it EXCEPT !.node = d.node, !.parents = d.parents])

treapNext(h, it) ==
    CASE it.isNew -> treapFirst(h, it)
      [] ~it.isNew /\ it.node = 0 -> it
      [] ~it.isNew /\ it.node # 0 /\ it.seekKey # 0 -> seek(h, [it EXCEPT !.seekKey = 0], it.seekKey, FALSE, TRUE)
      [] OTHER -> TreapStep(h, it, TRUE)

treapPrev(h, it) ==
    CASE it.isNew -> treapLast(h, it)
      [] ~it.isNew /\ it.node = 0 -> it
      [] ~it.isNew /\ it.node # 0 /\ it.seekKey # 0 -> seek(h, [it EXCEPT !.seekKey = 0], it.seekKey, FALSE, FALSE)
      [] OTHER -> TreapStep(h, it, FALSE)

ReseekRootOnly(h, r, it) == [it EXCEPT !.root = r]

ForceReseek(h, r, it) ==
    [it EXCEPT !.root = r, !.seekKey = IF it.node = 0 THEN 0 ELSE h[it.node].key]

-----------------------------------------------------------------------------
TreapInit == /\ heap = <<>> /\ root = 0 /\ version = 0
             /\ iter = newIterator(0)
             /\ snapshot = [root |-> 0, keys |-> <<>>]

(* putKey and deleteKey of a transaction: change the pending treap and     *)
(* notify the iterator.                                                    *)
ChangePending(t) ==
    /\ heap' = t.heap /\ root' = t.root
    /\ iter' = ForceReseek(t.heap, t.root, iter)
    /\ UNCHANGED <<version, snapshot>>

PutPending(k, p)  == Len(heap) < MaxNodes /\ ChangePending(MutablePut(heap, root, k, p))
DeletePending(k)  == ChangePending(MutableDelete(heap, root, k))

MoveIterator(it)  == iter' = it /\ UNCHANGED <<heap, root, version, snapshot>>

IterFirst == MoveIterator(treapFirst(heap, iter))
IterLast  == MoveIterator(treapLast(heap, iter))
IterNext  == MoveIterator(treapNext(heap, iter))
IterPrev  == MoveIterator(treapPrev(heap, iter))
IterSeek(k) == MoveIterator(seek(heap, [iter EXCEPT !.isNew = FALSE], k, TRUE, TRUE))

(* commitTx of the cache: a new version of the immutable treap.            *)
NewVersion(t) == heap' = t.heap /\ version' = t.root /\ UNCHANGED <<root, iter, snapshot>>

PutCached(k, p)  == /\ Len(heap) + Len(PathFrom(heap, version, k)) < MaxNodes
                    /\ NewVersion(ImmutablePut(heap, version, k, p))

DeleteCached(k)  == /\ Len(heap) + Len(ForEach(heap, version)) <= MaxNodes
                    /\ NewVersion(ImmutableDelete(heap, version, k))

TakeSnapshot == /\ snapshot' = [root |-> version, keys |-> ForEach(heap, version)]
                /\ UNCHANGED <<heap, root, iter, version>>

PendingNext == \/ \E k \in TreapKeys, p \in Priorities : PutPending(k, p)
               \/ \E k \in TreapKeys : DeletePending(k) \/ IterSeek(k)
               \/ IterFirst \/ IterLast \/ IterNext \/ IterPrev

CachedNext == \/ \E k \in TreapKeys, p \in Priorities : PutCached(k, p)
              \/ \E k \in TreapKeys : DeleteCached(k)
              \/ TakeSnapshot

-----------------------------------------------------------------------------
(* Both treaps stay search trees, whatever the priorities: the keys come   *)
(* out in strictly increasing order.                                       *)
Ascending(s) == \A i, j \in DOMAIN s : i < j => s[i] < s[j]

SearchTrees == Ascending(ForEach(heap, root)) /\ Ascending(ForEach(heap, version))

InRange(k) == (StartKey = 0 \/ k >= StartKey) /\ (LimitKey = 0 \/ k < LimitKey)

Present == {k \in ToSet(ForEach(heap, root)) : InRange(k)}

(* An iterator that is told of every change goes on to the next key that   *)
(* the treap has now, although the node it stands on may have been rotated *)
(* or removed since.  (Not so when it was repositioned after the change:   *)
(* Seek, First and Last leave the old seekKey behind.)                     *)
IteratorKeepsItsPlace ==
    [][(/\ iter.node # 0 /\ iter.seekKey \in {0, heap[iter.node].key}
        /\ heap' = heap /\ iter' = treapNext(heap, iter)) =>
         LET above == {k \in Present : k > heap[iter.node].key}
         IN  IF above = {} THEN iter'.node = 0
             ELSE iter'.node # 0 /\ heap[iter'.node].key = Min(above)]_treapVars

(* A snapshot of the cache keeps its keys while later versions are made    *)
(* from it: no operation of the immutable treap writes to a shared node.   *)
SnapshotUnchanged == ForEach(heap, snapshot.root) = snapshot.keys

=============================================================================
