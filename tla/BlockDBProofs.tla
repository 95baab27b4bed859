--------------------------- MODULE BlockDBProofs ---------------------------
(***************************************************************************)
(* For any blocks, file size, number of open files, readers, transactions  *)
(* and failures: the block database implements AtomicStore, and as long as *)
(* the operating system survives, what the metadata lists can be read.     *)
(*                                                                         *)
(* The argument is about one position in the files, Safe: where a rollback *)
(* would go back to.  Nothing that is written, deleted or truncated is     *)
(* below it, and everything that leveldb, the cache or a reader lists is.  *)
(***************************************************************************)
EXTENDS BlockDB, TLAPS

-----------------------------------------------------------------------------
(* Positions in the files.                                                 *)

Pos == Nat \X Nat
Cells == Blocks \X (1 .. maxBlockFileSize)
Files == {fs \in Seq(Seq(Cells)) : \A i \in 1..Len(fs) : Len(fs[i]) <= maxBlockFileSize}

AtOrBefore(p, q) == p[1] < q[1] \/ (p[1] = q[1] /\ p[2] <= q[2])

(* A record at a location ends before a position.                          *)
Below(b, loc, p) == loc[1] < p[1] \/ (loc[1] = p[1] /\ loc[2] + Size[b] <= p[2])

(* The files reach up to a position.                                       *)
OnDisk(fs, p) == p = <<0, 0>> \/ (p[1] < Len(fs) /\ p[2] <= Len(fs[p[1] + 1]))

(* The next write neither leaves a hole nor skips a file.                  *)
CursorFits(fs, n, off) == (n < Len(fs) /\ off <= Len(fs[n + 1])) \/ (n = Len(fs) /\ off = 0)

(* A record is whole in the files.                                         *)
WholeIn(fs, b, loc) ==
    /\ loc[1] < Len(fs)
    /\ loc[2] + Size[b] <= Len(fs[loc[1] + 1])
    /\ \A i \in 1..Size[b] : fs[loc[1] + 1][loc[2] + i] = <<b, i>>

(* What a view lists is whole and below a position.                        *)
ListsBelow(fs, view, p) ==
    \A b \in Blocks : view[b] # nil =>
        view[b] \in Pos /\ WholeIn(fs, b, view[b]) /\ Below(b, view[b], p)

KeysBelow(fs, keys, p) ==
    \A b \in Blocks \cap DOMAIN keys :
        keys[b] \in Pos /\ WholeIn(fs, b, keys[b]) /\ Below(b, keys[b], p)

(* The files keep what is below a position.                                *)
SameBelow(fs, gs, p) ==
    \A n \in 1..Len(fs) :
        /\ n <= p[1] => n <= Len(gs) /\ gs[n] = fs[n]
        /\ n = p[1] + 1 =>
             /\ n <= Len(gs)
             /\ \A i \in 1..Len(fs[n]) : i <= p[2] => i <= Len(gs[n]) /\ gs[n][i] = fs[n][i]

-----------------------------------------------------------------------------
(* The invariant.                                                          *)

Cursor == <<wc.file, wc.off>>

Safe == IF mode = "down" THEN ldb["writeloc"]
        ELSE IF rolling # NoTarget THEN rolling
        ELSE IF tx.stage = "write" THEN tx.old ELSE Cursor

Writing == {"write", "sync", "flush", "clear", "through"}

TxFields == {"stage", "snapshot", "blocks", "keys", "remove", "old", "wait"}
RdFields == {"stage", "view", "good", "block", "handle"}

(* The files and the rest.                                                 *)
TypesOK ==
    /\ files \in Files
    /\ synced \in Seq(Nat) /\ Len(synced) = Len(files)
    /\ wc \in [file : Nat, off : 0 .. maxBlockFileSize, open : BOOLEAN]
    /\ lru \in Seq(Nat)
    /\ DOMAIN ldb = MetaKeys /\ DOMAIN cachedKeys \subseteq MetaKeys
    /\ DOMAIN cachedKeys \cap cachedRemove = {}
    /\ rolling \in Pos \cup {NoTarget}
    /\ mode \in {"up", "reconcile", "down"}

(* leveldb, and the view through the cache.                                *)
MetaOK ==
    /\ ldb["writeloc"] \in Pos /\ OnDisk(files, ldb["writeloc"])
    /\ View["writeloc"] \in Pos /\ OnDisk(files, View["writeloc"])
    /\ AtOrBefore(ldb["writeloc"], View["writeloc"]) /\ AtOrBefore(View["writeloc"], Safe)
    /\ ListsBelow(files, ldb, ldb["writeloc"]) /\ ListsBelow(files, View, View["writeloc"])

(* The cursor, and the target of a rollback.                               *)
CursorOK ==
    /\ mode = "up" /\ rolling = NoTarget =>
         /\ CursorFits(files, wc.file, wc.off)
         /\ tx.stage # "write" \/ tx.blocks = <<>> => OnDisk(files, Cursor)
    /\ rolling # NoTarget => OnDisk(files, rolling) /\ rolling[1] <= wc.file
    /\ rolling # NoTarget <=> mode = "reconcile" \/ tx.stage = "rollback"
    /\ mode = "reconcile" => rolling = ldb["writeloc"]
    /\ mode # "up" => /\ DOMAIN cachedKeys = {} /\ cachedRemove = {} /\ tx.stage = "none"
                      /\ \A r \in Readers : rd[r].stage = "idle"

(* The write transaction.                                                  *)
TxOK ==
    /\ DOMAIN tx = TxFields /\ tx.stage \in {"none", "open", "rollback"} \cup Writing
    /\ tx.blocks \in Seq(Blocks)
    /\ DOMAIN tx.keys \subseteq MetaKeys /\ tx.remove \subseteq {"extra"}
    /\ DOMAIN tx.keys \cap tx.remove = {}
    /\ tx.stage = "open" => DOMAIN tx.keys \subseteq {"count", "extra"}
    /\ tx.stage \in {"write", "rollback"} => tx.old \in Pos /\ OnDisk(files, tx.old)
    /\ tx.stage = "write" => AtOrBefore(tx.old, Cursor)
    /\ tx.stage = "rollback" => rolling = tx.old
    /\ tx.stage \in Writing => KeysBelow(files, tx.keys, Cursor)
    /\ tx.stage \in Writing \ {"write"} =>
         "writeloc" \in DOMAIN tx.keys /\ tx.keys["writeloc"] = Cursor
    /\ tx.stage \in Writing \cup {"open"} =>
         "count" \in DOMAIN tx.keys /\ tx.keys["count"] = View["count"] + 1
    /\ tx.stage = "clear" => ldb = View
    /\ tx.stage = "through" => DOMAIN cachedKeys = {} /\ cachedRemove = {}

(* A read transaction, with files that keep what is below p: its file is   *)
(* the write file, which is open, or one of the open files.                *)
ReadOK(read, fs, p, open, open_files) ==
    /\ DOMAIN read = RdFields /\ read.stage \in {"idle", "begin", "open", "reading"}
    /\ read.stage # "idle" => ListsBelow(fs, read.view, p) /\ read.good = TRUE
    /\ read.stage = "reading" =>
         /\ read.block \in Blocks /\ read.view[read.block] # nil
         /\ IF read.handle = -1 THEN open = TRUE ELSE read.handle \in ToSet(open_files)

ReadsOK == DOMAIN rd = Readers /\ \A r \in Readers : ReadOK(rd[r], files, Safe, wc.open, lru)

DBInv == TypesOK /\ MetaOK /\ CursorOK /\ TxOK /\ ReadsOK

-----------------------------------------------------------------------------
(* Positions.                                                              *)

(* The files are sequences of cells, and none is longer than the limit.    *)
LEMMA FileFacts ==
    ASSUME NEW fs \in Files
    PROVE  /\ fs \in Seq(Seq(Cells)) /\ Len(fs) \in Nat
           /\ \A n \in 1..Len(fs) : /\ fs[n] \in Seq(Cells) /\ Len(fs[n]) \in Nat
                                    /\ Len(fs[n]) <= maxBlockFileSize
<1>1. fs \in Seq(Seq(Cells)) /\ \A i \in 1..Len(fs) : Len(fs[i]) <= maxBlockFileSize
  BY DEF Files
<1> QED
  BY <1>1

(* A record fits into a file, and a block is not one of the other keys.    *)
LEMMA Sizes ==
    /\ maxBlockFileSize \in Nat
    /\ \A b \in Blocks : Size[b] \in 1..maxBlockFileSize /\ Size[b] \in Nat
    /\ \A b \in Blocks : b \in MetaKeys /\ b \notin {"writeloc", "count", "extra"}
    /\ {"writeloc", "count", "extra"} \subseteq MetaKeys
  BY BlockDBConstants DEF MetaKeys

(* A position is a pair, and is not the mark for no target.                *)
LEMMA PosFacts ==
    ASSUME NEW p \in Pos
    PROVE  p[1] \in Nat /\ p[2] \in Nat /\ p = <<p[1], p[2]>> /\ p # <<>>
  BY DEF Pos

(* What is before a position is before every later one, and files that     *)
(* keep what is below the later one keep what is below the earlier one.    *)
LEMMA OrderMoves ==
    ASSUME NEW p \in Pos, NEW q \in Pos, AtOrBefore(p, q)
    PROVE  /\ \A o \in Pos : AtOrBefore(o, p) => AtOrBefore(o, q)
           /\ \A b \in Blocks, loc \in Pos : Below(b, loc, p) => Below(b, loc, q)
           /\ \A fs, gs : SameBelow(fs, gs, q) => SameBelow(fs, gs, p)
           /\ \A fs, view : ListsBelow(fs, view, p) => ListsBelow(fs, view, q)
<1>1. \A o \in Pos : AtOrBefore(o, p) => AtOrBefore(o, q)
  BY PosFacts DEF AtOrBefore
<1>2. \A b \in Blocks, loc \in Pos : Below(b, loc, p) => Below(b, loc, q)
  BY PosFacts, Sizes DEF AtOrBefore, Below
<1>3. ASSUME NEW fs, NEW gs, SameBelow(fs, gs, q) PROVE SameBelow(fs, gs, p)
  <2> SUFFICES ASSUME NEW n \in 1..Len(fs)
               PROVE  /\ n <= p[1] => n <= Len(gs) /\ gs[n] = fs[n]
                      /\ n = p[1] + 1 =>
                           /\ n <= Len(gs)
                           /\ \A i \in 1..Len(fs[n]) : i <= p[2] => i <= Len(gs[n]) /\ gs[n][i] = fs[n][i]
    BY DEF SameBelow
  <2>0. n \in Int /\ p[1] \in Nat /\ q[1] \in Nat /\ p[2] \in Nat /\ q[2] \in Nat
    BY PosFacts
  <2>1. CASE p[1] < q[1]
    <3>1. n <= p[1] + 1 => n <= q[1]
      BY <2>0, <2>1
    <3>2. n <= q[1] => n <= Len(gs) /\ gs[n] = fs[n]
      BY <1>3 DEF SameBelow
    <3>3. n <= p[1] => n <= p[1] + 1
      BY <2>0
    <3>4. n = p[1] + 1 => n <= p[1] + 1
      BY <2>0
    <3>5. n <= p[1] + 1 => n <= Len(gs) /\ gs[n] = fs[n]
      BY <3>1, <3>2
    <3> HIDE DEF SameBelow
    <3>6. \A i \in 1..Len(fs[n]) : i <= Len(fs[n])
      OBVIOUS
    <3> QED
      BY <3>3, <3>4, <3>5, <3>6
  <2>2. CASE p[1] = q[1] /\ p[2] <= q[2]
    <3>1. \A i \in 1..Len(fs[n]) : i <= p[2] => i <= q[2]
      BY <2>0, <2>2
    <3> QED
      BY <1>3, <2>2, <3>1 DEF SameBelow
  <2> QED
    BY <2>1, <2>2 DEF AtOrBefore
<1>4. \A fs, view : ListsBelow(fs, view, p) => ListsBelow(fs, view, q)
  BY <1>2 DEF ListsBelow
<1> QED
  BY <1>1, <1>2, <1>3, <1>4

(* What is below a position stays when the files keep what is below it.    *)
LEMMA KeptOnDisk ==
    ASSUME NEW fs \in Files, NEW gs \in Files, NEW p \in Pos, SameBelow(fs, gs, p)
    PROVE  /\ OnDisk(fs, p) => OnDisk(gs, p)
           /\ \A b \in Blocks, loc \in Pos :
                 WholeIn(fs, b, loc) /\ Below(b, loc, p) => WholeIn(gs, b, loc)
           /\ \A view : ListsBelow(fs, view, p) => ListsBelow(gs, view, p)
<1>1. OnDisk(fs, p) => OnDisk(gs, p)
  <2> SUFFICES ASSUME p[1] < Len(fs), p[2] <= Len(fs[p[1] + 1])
               PROVE  p[1] < Len(gs) /\ p[2] <= Len(gs[p[1] + 1])
    BY DEF OnDisk
  <2> DEFINE n == p[1] + 1
  <2>1. n \in 1..Len(fs) /\ n = p[1] + 1 /\ p[1] \in Nat /\ p[2] \in Nat
    BY FileFacts, PosFacts
  <2>2. n <= Len(gs) /\ \A i \in 1..Len(fs[n]) : i <= p[2] => i <= Len(gs[n])
    BY <2>1 DEF SameBelow
  <2>3. n \in 1..Len(gs) /\ p[1] < Len(gs)
    BY <2>1, <2>2, FileFacts
  <2>4. Len(fs[n]) \in Nat /\ Len(gs[n]) \in Nat
    BY <2>1, <2>3, FileFacts
  <2> HIDE DEF n
  <2>5. CASE p[2] = 0
    BY <2>1, <2>3, <2>4, <2>5
  <2>6. CASE p[2] # 0
    <3>1. p[2] \in 1..Len(fs[n])
      BY <2>1, <2>4, <2>6
    <3> QED
      BY <2>1, <2>2, <2>3, <3>1
  <2> QED
    BY <2>5, <2>6
<1>2. ASSUME NEW b \in Blocks, NEW loc \in Pos, WholeIn(fs, b, loc), Below(b, loc, p)
      PROVE  WholeIn(gs, b, loc)
  <2> DEFINE n == loc[1] + 1
  <2>1. loc[1] \in Nat /\ loc[2] \in Nat /\ Size[b] \in Nat /\ Size[b] >= 1 /\ p[1] \in Nat /\ p[2] \in Nat
    BY PosFacts, Sizes
  <2>2. loc[1] < Len(fs) /\ loc[2] + Size[b] <= Len(fs[n])
        /\ \A i \in 1..Size[b] : fs[n][loc[2] + i] = <<b, i>>
    BY <1>2 DEF WholeIn
  <2>3. n \in 1..Len(fs)
    BY <2>1, <2>2, FileFacts
  <2>4. n \in 1..Len(fs) /\ loc[2] + Size[b] <= Len(fs[n])
        /\ \A i \in 1..Size[b] : fs[n][loc[2] + i] = <<b, i>>
    BY <2>2, <2>3
  <2>5. Len(fs[n]) \in Nat /\ Len(gs) \in Nat
    BY <2>4, FileFacts
  <2>6. CASE loc[1] < p[1]
    <3>1. n <= p[1]
      BY <2>1, <2>6
    <3>2. n <= Len(gs) /\ gs[n] = fs[n]
      BY <2>4, <3>1 DEF SameBelow
    <3>3. loc[1] < Len(gs)
      BY <2>1, <2>5, <3>2
    <3> QED
      BY <2>4, <3>2, <3>3 DEF WholeIn
  <2>7. CASE loc[1] = p[1] /\ loc[2] + Size[b] <= p[2]
    <3>1. n = p[1] + 1
      BY <2>7
    <3>2. n <= Len(gs) /\ \A i \in 1..Len(fs[n]) : i <= p[2] => i <= Len(gs[n]) /\ gs[n][i] = fs[n][i]
      BY <2>4, <3>1 DEF SameBelow
    <3>3. loc[1] < Len(gs)
      BY <2>1, <2>5, <3>2
    <3> HIDE DEF n
    <3>4. \A i \in 1..Size[b] : loc[2] + i \in 1..Len(fs[n]) /\ loc[2] + i <= p[2]
      <4> SUFFICES ASSUME NEW i \in 1..Size[b]
                   PROVE  loc[2] + i \in 1..Len(fs[n]) /\ loc[2] + i <= p[2]
        OBVIOUS
      <4>1. loc[2] + Size[b] <= Len(fs[n]) /\ Len(fs[n]) \in Nat
        BY <2>4, <2>5
      <4> QED
        BY <4>1, <2>1, <2>7
    <3>5. \A i \in 1..Size[b] : gs[n][loc[2] + i] = <<b, i>>
      BY <2>4, <3>2, <3>4
    <3>6. Size[b] \in 1..Size[b]
      BY <2>1
    <3>7. loc[2] + Size[b] <= Len(gs[n])
      BY <3>2, <3>4, <3>6
    <3> QED
      BY <3>3, <3>5, <3>7 DEF WholeIn, n
  <2> QED
    BY <1>2, <2>6, <2>7 DEF Below
<1>3. \A view : ListsBelow(fs, view, p) => ListsBelow(gs, view, p)
  BY <1>2 DEF ListsBelow
<1> QED
  BY <1>1, <1>2, <1>3

(* Files that do not change keep everything.                               *)
LEMMA SameItself ==
    ASSUME NEW fs \in Files, NEW p \in Pos
    PROVE  SameBelow(fs, fs, p) /\ AtOrBefore(p, p)
<1>1. AtOrBefore(p, p)
  BY PosFacts DEF AtOrBefore
<1>2. SameBelow(fs, fs, p)
  BY FileFacts DEF SameBelow
<1> QED
  BY <1>1, <1>2

-----------------------------------------------------------------------------
(* The files.                                                              *)

(* The files with file n, which is created when it is not there.           *)
WithFile(fs, n) == IF n + 1 > Len(fs) THEN Append(fs, <<>>) ELSE fs

(* openWriteFile and openFile create at most the next file.                *)
LEMMA FileCreated ==
    ASSUME NEW fs \in Files, NEW n \in 0..Len(fs)
    PROVE  LET gs == WithFile(fs, n)
           IN  /\ gs \in Files /\ n < Len(gs) /\ Len(gs) >= Len(fs)
               /\ n < Len(fs) => gs = fs
               /\ n = Len(fs) => gs[n + 1] = <<>>
               /\ \A p \in Pos : SameBelow(fs, gs, p)
<1> DEFINE gs == WithFile(fs, n)
<1>0. Len(fs) \in Nat
  BY FileFacts
<1>1. CASE n < Len(fs)
  <2>1. gs = fs
    BY <1>0, <1>1 DEF WithFile
  <2> QED
    BY <1>0, <1>1, <2>1, SameItself
<1>2. CASE n = Len(fs)
  <2>1. gs = Append(fs, <<>>)
    BY <1>0, <1>2 DEF WithFile
  <2>2. fs \in Seq(Seq(Cells)) /\ <<>> \in Seq(Cells)
    BY FileFacts
  <2>3. /\ gs \in Seq(Seq(Cells)) /\ Len(gs) = n + 1
        /\ \A i \in 1..n : gs[i] = fs[i]
        /\ gs[n + 1] = <<>>
    BY <1>2, <2>1, <2>2
  <2> HIDE DEF gs
  <2>4. \A i \in 1..Len(gs) : i \in 1..n \/ i = n + 1
    BY <1>0, <1>2, <2>3
  <2>5. ASSUME NEW i \in 1..Len(gs) PROVE Len(gs[i]) <= maxBlockFileSize
    <3>1. CASE i = n + 1
      BY <2>3, <3>1, Sizes
    <3>2. CASE i \in 1..n
      BY <1>2, <2>3, <3>2, FileFacts
    <3> QED
      BY <2>4, <3>1, <3>2
  <2>6. gs \in Files
    BY <2>3, <2>5 DEF Files
  <2>7. \A i \in 1..Len(fs) : i <= Len(gs) /\ gs[i] = fs[i] /\ \A j \in 1..Len(fs[i]) : j <= Len(fs[i])
    BY <1>0, <1>2, <2>3, FileFacts
  <2>8. \A p \in Pos : SameBelow(fs, gs, p)
    BY <2>7 DEF SameBelow
  <2>9. n < Len(gs) /\ Len(gs) >= Len(fs) /\ ~(n < Len(fs))
    BY <1>0, <1>2, <2>3
  <2> QED
    BY <2>3, <2>6, <2>8, <2>9 DEF gs
<1> QED
  BY <1>0, <1>1, <1>2

(* A file is replaced by one that has the same beginning.                  *)
LEMMA FileReplaced ==
    ASSUME NEW fs \in Files, NEW p \in Pos, p[1] < Len(fs),
           NEW f \in Seq(Cells), Len(f) <= maxBlockFileSize,
           \A i \in 1..Len(fs[p[1] + 1]) : i <= p[2] => i <= Len(f) /\ f[i] = fs[p[1] + 1][i]
    PROVE  LET gs == [fs EXCEPT ![p[1] + 1] = f]
           IN  gs \in Files /\ Len(gs) = Len(fs) /\ gs[p[1] + 1] = f /\ SameBelow(fs, gs, p)
<1> DEFINE n == p[1] + 1
           gs == [fs EXCEPT ![n] = f]
<1>1. fs \in Seq(Seq(Cells)) /\ Len(fs) \in Nat /\ n \in 1..Len(fs) /\ n = p[1] + 1 /\ p[1] \in Nat
  BY FileFacts, PosFacts
<1>2. /\ gs \in Seq(Seq(Cells)) /\ Len(gs) = Len(fs) /\ gs[n] = f
      /\ \A i \in 1..Len(fs) : i # n => gs[i] = fs[i]
  <2> HIDE DEF n
  <2> QED
    BY <1>1
<1> HIDE DEF gs
<1>3. \A i \in 1..Len(gs) : Len(gs[i]) <= maxBlockFileSize
  BY <1>1, <1>2, FileFacts
<1>4. gs \in Files
  BY <1>2, <1>3 DEF Files
<1>5. \A i \in 1..Len(fs) : i <= p[1] => i # n
  BY <1>1
<1>6. \A i \in 1..Len(fs) : i <= Len(gs)
  BY <1>1, <1>2
<1>7. \A i \in 1..Len(fs[n]) : i <= p[2] => i <= Len(gs[n]) /\ gs[n][i] = fs[n][i]
  BY <1>2
<1> HIDE DEF n
<1>8. SameBelow(fs, gs, p)
  BY <1>1, <1>2, <1>5, <1>6, <1>7 DEF SameBelow
<1> QED
  BY <1>1, <1>2, <1>4, <1>8 DEF gs

(* Two sequences in a row.                                                 *)
LEMMA ConcatFacts ==
    ASSUME NEW S, NEW s \in Seq(S), NEW t \in Seq(S)
    PROVE  /\ s \o t \in Seq(S) /\ Len(s \o t) = Len(s) + Len(t)
           /\ \A i \in 1..Len(s) : (s \o t)[i] = s[i]
           /\ \A i \in 1..Len(t) : (s \o t)[Len(s) + i] = t[i]
  OBVIOUS

(* A file that is long enough is cut and not filled up.                    *)
LEMMA ResizeCuts ==
    ASSUME NEW f \in Seq(Cells), NEW n \in 0..Len(f)
    PROVE  /\ Resize(f, n) \in Seq(Cells) /\ Len(Resize(f, n)) = n
           /\ \A i \in 1..n : Resize(f, n)[i] = f[i]
<1>1. Len(f) \in Nat /\ n \in Nat /\ n <= Len(f)
  OBVIOUS
<1>2. \A i \in 1..n : i <= Len(f) /\ i \in 1..Len(f) /\ f[i] \in Cells
  BY <1>1
<1>3. PICK g : g = Resize(f, n)
  OBVIOUS
<1>4. g = [i \in 1..n |-> f[i]]
  BY <1>2, <1>3 DEF Resize
<1>5. g \in Seq(Cells) /\ Len(g) = n /\ \A i \in 1..n : g[i] = f[i]
  BY <1>1, <1>2, <1>4
<1> QED
  BY <1>3, <1>5

(* WriteAt, at an offset inside the file or at its end.                    *)
LEMMA WriteAtFacts ==
    ASSUME NEW f \in Seq(Cells), NEW off \in 0..Len(f), NEW data \in Seq(Cells)
    PROVE  LET g == WriteAt(f, off, data)
           IN  /\ g \in Seq(Cells)
               /\ Len(g) = IF off + Len(data) > Len(f) THEN off + Len(data) ELSE Len(f)
               /\ \A i \in 1..off : g[i] = f[i]
               /\ \A i \in 1..Len(data) : g[off + i] = data[i]
<1> DEFINE head == Resize(f, off)
           tail == SubSeq(f, off + Len(data) + 1, Len(f))
<1>1. Len(f) \in Nat /\ Len(data) \in Nat /\ off \in Nat /\ off <= Len(f)
  OBVIOUS
<1>2. head \in Seq(Cells) /\ Len(head) = off /\ \A i \in 1..off : head[i] = f[i]
  BY ResizeCuts
<1>3. tail \in Seq(Cells) /\ Len(tail) = IF off + Len(data) > Len(f) THEN 0
                                         ELSE Len(f) - (off + Len(data))
  OBVIOUS
<1> HIDE DEF head, tail
<1>4. /\ head \o data \in Seq(Cells) /\ Len(head \o data) = off + Len(data)
      /\ \A i \in 1..off : (head \o data)[i] = f[i]
      /\ \A i \in 1..Len(data) : (head \o data)[off + i] = data[i]
  BY <1>1, <1>2
<1>5. PICK both : both = head \o data
  OBVIOUS
<1>6. /\ WriteAt(f, off, data) = both \o tail
      /\ both \in Seq(Cells) /\ Len(both) = off + Len(data)
  BY <1>4, <1>5 DEF WriteAt, head, tail
<1>7. \A i \in 1..off : i \in 1..off + Len(data)
  BY <1>1
<1>8. \A i \in 1..Len(data) : off + i \in 1..off + Len(data)
  BY <1>1
<1>9. /\ both \o tail \in Seq(Cells) /\ Len(both \o tail) = Len(both) + Len(tail)
      /\ \A i \in 1..Len(both) : (both \o tail)[i] = both[i]
  <2>1. both \in Seq(Cells) /\ tail \in Seq(Cells)
    BY <1>3, <1>6
  <2> QED
    BY <2>1, ConcatFacts
<1>10. Len(both \o tail) = IF off + Len(data) > Len(f) THEN off + Len(data) ELSE Len(f)
  <2>1. CASE off + Len(data) > Len(f)
    <3>1. Len(tail) = 0
      BY <1>3, <2>1
    <3>2. Len(both \o tail) = off + Len(data) + 0
      BY <1>6, <1>9, <3>1
    <3> QED
      BY <1>1, <2>1, <3>2
  <2>2. CASE ~(off + Len(data) > Len(f))
    <3>1. Len(tail) = Len(f) - (off + Len(data))
      BY <1>3, <2>2
    <3>2. Len(both \o tail) = off + Len(data) + (Len(f) - (off + Len(data)))
      BY <1>6, <1>9, <3>1
    <3>3. off + Len(data) + (Len(f) - (off + Len(data))) = Len(f)
      BY <1>1
    <3> QED
      BY <2>2, <3>2, <3>3
  <2> QED
    BY <2>1, <2>2
<1> QED
  BY <1>4, <1>5, <1>6, <1>7, <1>8, <1>9, <1>10

(* Two changes in a row.                                                   *)
LEMMA SameTwice ==
    ASSUME NEW fs \in Files, NEW gs \in Files, NEW hs \in Files, NEW p \in Pos,
           SameBelow(fs, gs, p), SameBelow(gs, hs, p)
    PROVE  SameBelow(fs, hs, p)
<1> SUFFICES ASSUME NEW n \in 1..Len(fs)
             PROVE  /\ n <= p[1] => n <= Len(hs) /\ hs[n] = fs[n]
                    /\ n = p[1] + 1 =>
                         /\ n <= Len(hs)
                         /\ \A i \in 1..Len(fs[n]) : i <= p[2] => i <= Len(hs[n]) /\ hs[n][i] = fs[n][i]
  BY DEF SameBelow
<1>1. CASE n <= p[1]
  <2>1. n <= Len(gs) /\ gs[n] = fs[n]
    BY <1>1 DEF SameBelow
  <2>2. n \in 1..Len(gs)
    BY <2>1, FileFacts
  <2>3. n <= Len(hs) /\ hs[n] = gs[n]
    BY <1>1, <2>2 DEF SameBelow
  <2>4. n # p[1] + 1
    BY <1>1, PosFacts
  <2> QED
    BY <2>1, <2>3, <2>4
<1>2. CASE n = p[1] + 1
  <2>1. n <= Len(gs) /\ \A i \in 1..Len(fs[n]) : i <= p[2] => i <= Len(gs[n]) /\ gs[n][i] = fs[n][i]
    BY <1>2 DEF SameBelow
  <2>2. n \in 1..Len(gs)
    BY <2>1, FileFacts
  <2>3. n <= Len(hs) /\ \A i \in 1..Len(gs[n]) : i <= p[2] => i <= Len(hs[n]) /\ hs[n][i] = gs[n][i]
    BY <1>2, <2>2 DEF SameBelow
  <2>4. ~(n <= p[1])
    BY <1>2, PosFacts
  <2>5. Len(gs[n]) \in Nat
    BY <2>2, FileFacts
  <2>6. ASSUME NEW i \in 1..Len(fs[n]), i <= p[2] PROVE i <= Len(hs[n]) /\ hs[n][i] = fs[n][i]
    <3>1. i <= Len(gs[n]) /\ gs[n][i] = fs[n][i]
      BY <2>1, <2>6
    <3>2. i \in 1..Len(gs[n])
      BY <2>5, <3>1
    <3> QED
      BY <2>3, <2>6, <3>1, <3>2
  <2> QED
    BY <2>3, <2>4, <2>6
<1> QED
  BY <1>1, <1>2

(* What reaches a position has at most the next file missing.              *)
LEMMA DiskFacts ==
    ASSUME NEW fs \in Files, NEW p \in Pos, OnDisk(fs, p)
    PROVE  /\ p[1] \in 0..Len(fs) /\ p[2] <= maxBlockFileSize
           /\ p[1] < Len(fs) => p[2] <= Len(fs[p[1] + 1])
           /\ CursorFits(fs, p[1], p[2])
<1>1. Len(fs) \in Nat /\ p[1] \in Nat /\ p[2] \in Nat
  BY FileFacts, PosFacts
<1>2. CASE p[1] < Len(fs) /\ p[2] <= Len(fs[p[1] + 1])
  <2>1. p[1] + 1 \in 1..Len(fs)
    BY <1>1, <1>2
  <2>2. PICK m : m = Len(fs[p[1] + 1])
    OBVIOUS
  <2>3. m \in Nat /\ m <= maxBlockFileSize /\ p[2] <= m
    BY <1>2, <2>1, <2>2, FileFacts
  <2>4. p[2] <= maxBlockFileSize
    BY <1>1, <2>3, Sizes
  <2> QED
    BY <1>1, <1>2, <2>4 DEF CursorFits
<1>3. CASE p = <<0, 0>>
  <2>1. p[1] = 0 /\ p[2] = 0
    BY <1>3
  <2>2. p[2] <= maxBlockFileSize /\ p[1] \in 0..Len(fs)
    BY <1>1, <2>1, Sizes
  <2>3. 0 < Len(fs) \/ 0 = Len(fs)
    BY <1>1
  <2>4. 0 < Len(fs) => 0 <= Len(fs[0 + 1])
    <3>1. 0 < Len(fs) => 1 \in 1..Len(fs)
      BY <1>1
    <3> QED
      BY <3>1, FileFacts
  <2> QED
    BY <2>1, <2>2, <2>3, <2>4 DEF CursorFits
<1> QED
  BY <1>2, <1>3 DEF OnDisk

(* truncate of the file that a position is in.                             *)
LEMMA FileTruncated ==
    ASSUME NEW fs \in Files, NEW p \in Pos, OnDisk(fs, p)
    PROVE  LET gs == WithFile(fs, p[1])
               hs == [gs EXCEPT ![p[1] + 1] = Resize(@, p[2])]
           IN  hs \in Files /\ Len(hs) = Len(gs) /\ SameBelow(fs, hs, p)
<1> DEFINE gs == WithFile(fs, p[1])
           f  == gs[p[1] + 1]
           g  == Resize(f, p[2])
<1>1. p[1] \in 0..Len(fs) /\ (p[1] < Len(fs) => p[2] <= Len(fs[p[1] + 1])) /\ p[2] <= maxBlockFileSize
  BY DiskFacts
<1>2. /\ gs \in Files /\ p[1] < Len(gs)
      /\ (p[1] < Len(fs) => gs = fs) /\ (p[1] = Len(fs) => f = <<>>)
      /\ SameBelow(fs, gs, p)
  BY <1>1, FileCreated
<1>3. p[1] \in Nat /\ p[2] \in Nat /\ Len(gs) \in Nat /\ Len(fs) \in Nat
  BY <1>2, FileFacts, PosFacts
<1>4. p[1] = Len(fs) => p[2] = 0
  BY <1>3 DEF OnDisk
<1> HIDE DEF gs
<1>5. f \in Seq(Cells) /\ Len(f) \in Nat
  <2>1. p[1] + 1 \in 1..Len(gs)
    BY <1>2, <1>3
  <2> QED
    BY <1>2, <2>1, FileFacts
<1>6. p[2] <= Len(f)
  <2>1. CASE p[1] < Len(fs)
    BY <1>1, <1>2, <2>1
  <2>2. CASE p[1] = Len(fs)
    BY <1>2, <1>4, <2>2
  <2> QED
    BY <1>1, <1>3, <2>1, <2>2
<1>7. g \in Seq(Cells) /\ Len(g) = p[2] /\ \A i \in 1..p[2] : g[i] = f[i]
  <2> HIDE DEF f
  <2>1. p[2] \in 0..Len(f)
    BY <1>3, <1>5, <1>6
  <2> QED
    BY <1>5, <2>1, ResizeCuts
<1>8. \A i \in 1..Len(f) : i <= p[2] => i <= Len(g) /\ g[i] = f[i]
  <2> HIDE DEF f, g
  <2> QED
    BY <1>3, <1>7
<1> HIDE DEF g
<1>9. LET hs == [gs EXCEPT ![p[1] + 1] = g]
      IN  hs \in Files /\ Len(hs) = Len(gs) /\ SameBelow(gs, hs, p)
  BY <1>1, <1>2, <1>7, <1>8, FileReplaced
<1>10. LET hs == [gs EXCEPT ![p[1] + 1] = g] IN SameBelow(fs, hs, p)
  BY <1>2, <1>9, SameTwice
<1> QED
  BY <1>9, <1>10 DEF gs, g

(* deleteFile of the last file, which is not the one that a position is in.*)
LEMMA FileDeleted ==
    ASSUME NEW fs \in Files, NEW p \in Pos, p[1] + 1 < Len(fs)
    PROVE  Front(fs) \in Files /\ Len(Front(fs)) = Len(fs) - 1 /\ SameBelow(fs, Front(fs), p)
<1> DEFINE gs == Front(fs)
<1>1. fs \in Seq(Seq(Cells)) /\ Len(fs) \in Nat /\ p[1] \in Nat
  BY FileFacts, PosFacts
<1>2. gs \in Seq(Seq(Cells)) /\ Len(gs) = Len(fs) - 1 /\ \A i \in 1..Len(fs) - 1 : gs[i] = fs[i]
  BY <1>1 DEF Front
<1> HIDE DEF gs
<1>3. \A i \in 1..Len(gs) : i \in 1..Len(fs)
  BY <1>1, <1>2
<1>4. gs \in Files
  BY <1>2, <1>3, FileFacts DEF Files
<1>5. \A n \in 1..Len(fs) : n <= p[1] + 1 => n <= Len(gs) /\ n \in 1..Len(fs) - 1
  BY <1>1, <1>2
<1>6. \A n \in 1..Len(fs) : n <= p[1] \/ n = p[1] + 1 => n <= p[1] + 1
  BY <1>1
<1>7. \A n \in 1..Len(fs) : \A i \in 1..Len(fs[n]) : i <= Len(fs[n])
  OBVIOUS
<1>8. SameBelow(fs, gs, p)
  BY <1>2, <1>5, <1>6, <1>7 DEF SameBelow
<1> QED
  BY <1>2, <1>4, <1>8 DEF gs

(* The lengths that are known to be synced.                                *)
WithSync(ss, fs, n) == IF n + 1 > Len(fs) THEN Append(ss, 0) ELSE ss

(* There is a synced length for each file.                                 *)
LEMMA SyncFacts ==
    ASSUME NEW fs \in Files, NEW ss \in Seq(Nat), Len(ss) = Len(fs), NEW n \in 0..Len(fs)
    PROVE  /\ WithSync(ss, fs, n) \in Seq(Nat)
           /\ Len(WithSync(ss, fs, n)) = Len(WithFile(fs, n))
<1>1. Len(fs) \in Nat /\ fs \in Seq(Seq(Cells))
  BY FileFacts
<1>2. CASE n + 1 > Len(fs)
  BY <1>1, <1>2 DEF WithSync, WithFile
<1>3. CASE ~(n + 1 > Len(fs))
  BY <1>1, <1>3 DEF WithSync, WithFile
<1> QED
  BY <1>2, <1>3

(* Changing one number of a sequence, or one that is not there.            *)
LEMMA EntryReplaced ==
    ASSUME NEW ss \in Seq(Nat), NEW i, NEW x \in Nat
    PROVE  /\ [ss EXCEPT ![i] = x] \in Seq(Nat)
           /\ Len([ss EXCEPT ![i] = x]) = Len(ss)
<1>1. CASE i \in 1..Len(ss)
  BY <1>1
<1>2. CASE i \notin 1..Len(ss)
  <2>1. [ss EXCEPT ![i] = x] = ss
    BY <1>2
  <2> QED
    BY <2>1
<1> QED
  BY <1>1, <1>2

(* writeData, all of a record or some of it.                               *)
LEMMA CellsWritten ==
    ASSUME files \in Files, synced \in Seq(Nat), Len(synced) = Len(files),
           wc \in [file : Nat, off : 0 .. maxBlockFileSize, open : BOOLEAN],
           CursorFits(files, wc.file, wc.off), NEW b \in Blocks, Head(tx.blocks) = b,
           NEW n \in 0..Size[b], wc.off + n <= maxBlockFileSize, WriteCells(n)
    PROVE  /\ files' \in Files /\ synced' \in Seq(Nat) /\ Len(synced') = Len(files')
           /\ wc' \in [file : Nat, off : 0 .. maxBlockFileSize, open : BOOLEAN]
           /\ wc'.file = wc.file /\ wc'.off = wc.off + n
           /\ SameBelow(files, files', Cursor)
           /\ wc.file < Len(files') /\ wc.off + n <= Len(files'[wc.file + 1])
           /\ \A i \in 1..n : files'[wc.file + 1][wc.off + i] = <<b, i>>
<1> DEFINE k == wc.file + 1
           gs == WithFile(files, wc.file)
           f  == gs[k]
           data == SubSeq(Record(b), 1, n)
           g  == WriteAt(f, wc.off, data)
<1>1. wc.file \in Nat /\ wc.off \in Nat /\ wc.off <= maxBlockFileSize /\ maxBlockFileSize \in Nat
      /\ n \in Nat /\ Size[b] \in Nat /\ n <= Size[b] /\ Len(files) \in Nat /\ Cursor \in Pos
  BY Sizes, FileFacts DEF Pos, Cursor
<1>2. wc.file \in 0..Len(files)
  BY <1>1 DEF CursorFits
<1>3. /\ gs \in Files /\ wc.file < Len(gs)
      /\ (wc.file < Len(files) => gs = files) /\ (wc.file = Len(files) => f = <<>>)
      /\ SameBelow(files, gs, Cursor)
  BY <1>1, <1>2, FileCreated
<1>4. /\ files' = [gs EXCEPT ![k] = g]
      /\ wc' = [wc EXCEPT !.off = wc.off + n, !.open = TRUE]
  BY DEF WriteCells, WithFile
<1>5. PICK x \in Nat : synced' = [WithSync(synced, files, wc.file) EXCEPT ![k] = x]
  <2> DEFINE ss == WithSync(synced, files, wc.file)
             x  == IF ss[k] < wc.off THEN ss[k] ELSE wc.off
  <2>1. synced' = [ss EXCEPT ![k] = x]
    BY DEF WriteCells, WithSync
  <2>2. ss \in Seq(Nat) /\ Len(ss) = Len(gs)
    BY <1>2, SyncFacts
  <2>3. k \in 1..Len(ss)
    BY <1>1, <1>3, <2>2
  <2>4. ss[k] \in Nat
    <3> HIDE DEF ss, k
    <3> QED
      BY <2>2, <2>3
  <2>5. x \in Nat
    BY <1>1, <2>4
  <2> QED
    BY <2>1, <2>5
<1>6. synced' \in Seq(Nat) /\ Len(synced') = Len(gs)
  <2>1. PICK ss : ss = WithSync(synced, files, wc.file)
    OBVIOUS
  <2>2. ss \in Seq(Nat) /\ Len(ss) = Len(gs)
    BY <1>2, <2>1, SyncFacts
  <2>3. [ss EXCEPT ![k] = x] \in Seq(Nat) /\ Len([ss EXCEPT ![k] = x]) = Len(ss)
    BY <2>2, EntryReplaced
  <2>4. synced' = [ss EXCEPT ![k] = x]
    BY <1>5, <2>1
  <2> QED
    BY <2>2, <2>3, <2>4
<1> HIDE DEF gs
<1>7. f \in Seq(Cells) /\ Len(f) \in Nat
  <2>1. k \in 1..Len(gs)
    BY <1>1, <1>3, FileFacts
  <2> QED
    BY <1>3, <2>1, FileFacts
<1>8. wc.off <= Len(f) /\ Len(f) <= maxBlockFileSize
  <2>1. wc.file < Len(files) => wc.off <= Len(files[k])
    BY <1>1 DEF CursorFits
  <2>2. wc.file = Len(files) => wc.off = 0
    BY <1>1 DEF CursorFits
  <2>3. k \in 1..Len(gs)
    BY <1>1, <1>3, FileFacts
  <2>4. Len(f) <= maxBlockFileSize
    BY <1>3, <2>3, FileFacts
  <2>5. wc.file < Len(files) \/ wc.file = Len(files)
    BY <1>1, <1>2
  <2>6. CASE wc.file < Len(files)
    BY <1>3, <2>1, <2>4, <2>6
  <2>7. CASE wc.file = Len(files)
    BY <1>1, <1>3, <2>2, <2>4, <2>7
  <2> QED
    BY <2>5, <2>6, <2>7
<1>9. data \in Seq(Cells) /\ Len(data) = n /\ \A i \in 1..n : data[i] = <<b, i>>
  <2>1. Size[b] <= maxBlockFileSize
    BY Sizes
  <2>2. \A i \in 1..Size[b] : <<b, i>> \in Cells
    BY <1>1, <2>1 DEF Cells
  <2>3. PICK r : r = Record(b)
    OBVIOUS
  <2>4. r \in Seq(Cells) /\ Len(r) = Size[b] /\ \A i \in 1..Size[b] : r[i] = <<b, i>>
    <3>1. PICK m \in Nat : m = Size[b]
      BY <1>1
    <3>2. r = [i \in 1..m |-> <<b, i>>]
      BY <2>3, <3>1 DEF Record
    <3>3. \A i \in 1..m : <<b, i>> \in Cells
      BY <2>2, <3>1
    <3>4. r \in [1..m -> Cells] /\ \A i \in 1..m : r[i] = <<b, i>>
      BY <3>2, <3>3
    <3>5. r \in Seq(Cells) /\ Len(r) = m
      BY <3>4
    <3> QED
      BY <3>1, <3>4, <3>5
  <2>5. SubSeq(r, 1, n) \in Seq(Cells) /\ Len(SubSeq(r, 1, n)) = n
        /\ \A i \in 1..n : i \in 1..Size[b] /\ SubSeq(r, 1, n)[i] = r[i]
    BY <1>1, <2>4
  <2> QED
    BY <2>3, <2>4, <2>5
<1>10. wc.off \in 0..Len(f)
  BY <1>1, <1>7, <1>8
<1> HIDE DEF f, data
<1>11. /\ g \in Seq(Cells)
       /\ Len(g) = IF wc.off + n > Len(f) THEN wc.off + n ELSE Len(f)
       /\ \A i \in 1..wc.off : g[i] = f[i]
       /\ \A i \in 1..n : g[wc.off + i] = <<b, i>>
  <2>1. LET h == WriteAt(f, wc.off, data)
        IN  /\ h \in Seq(Cells)
            /\ Len(h) = IF wc.off + Len(data) > Len(f) THEN wc.off + Len(data) ELSE Len(f)
            /\ \A i \in 1..wc.off : h[i] = f[i]
            /\ \A i \in 1..Len(data) : h[wc.off + i] = data[i]
    BY <1>7, <1>9, <1>10, WriteAtFacts
  <2> HIDE DEF g
  <2>2. /\ g \in Seq(Cells)
        /\ Len(g) = IF wc.off + Len(data) > Len(f) THEN wc.off + Len(data) ELSE Len(f)
        /\ \A i \in 1..wc.off : g[i] = f[i]
        /\ \A i \in 1..Len(data) : g[wc.off + i] = data[i]
    BY <2>1 DEF g
  <2> QED
    BY <1>9, <2>2
<1> HIDE DEF g
<1>12. wc.off + n <= Len(g) /\ Len(f) <= Len(g) /\ Len(g) <= maxBlockFileSize
  BY <1>1, <1>7, <1>8, <1>11
<1>13. \A i \in 1..Len(f) : i <= wc.off => i <= Len(g) /\ g[i] = f[i]
  <2> SUFFICES ASSUME NEW i \in 1..Len(f), i <= wc.off PROVE i <= Len(g) /\ g[i] = f[i]
    OBVIOUS
  <2>1. i \in 1..wc.off
    BY <1>1
  <2>2. i <= Len(g)
    BY <1>7, <1>11, <1>12
  <2> QED
    BY <1>11, <2>1, <2>2
<1>14. Cursor[1] = wc.file /\ Cursor[2] = wc.off
  BY DEF Cursor
<1>15. LET hs == [gs EXCEPT ![Cursor[1] + 1] = g]
       IN  hs \in Files /\ Len(hs) = Len(gs) /\ hs[Cursor[1] + 1] = g /\ SameBelow(gs, hs, Cursor)
  <2>1. \A i \in 1..Len(gs[Cursor[1] + 1]) : i <= Cursor[2] =>
           i <= Len(g) /\ g[i] = gs[Cursor[1] + 1][i]
    BY <1>13, <1>14 DEF f
  <2>2. Cursor[1] < Len(gs)
    BY <1>3, <1>14
  <2> QED
    BY <1>1, <1>3, <1>11, <1>12, <2>1, <2>2, FileReplaced
<1>16. files' \in Files /\ Len(files') = Len(gs) /\ files'[k] = g /\ SameBelow(gs, files', Cursor)
  BY <1>4, <1>14, <1>15
<1>17. SameBelow(files, files', Cursor)
  BY <1>1, <1>3, <1>16, SameTwice
<1>18. /\ wc' \in [file : Nat, off : 0 .. maxBlockFileSize, open : BOOLEAN]
       /\ wc'.file = wc.file /\ wc'.off = wc.off + n
  <2>1. wc.off + n \in 0..maxBlockFileSize
    BY <1>1
  <2> HIDE DEF k
  <2> QED
    BY <1>4, <2>1
<1> QED
  BY <1>3, <1>6, <1>11, <1>12, <1>16, <1>17, <1>18

-----------------------------------------------------------------------------
(* The metadata.                                                           *)

(* A layer lists what the layer below it lists, and what its keys list.    *)
LEMMA LayerLists ==
    ASSUME NEW fs, NEW p, NEW below, NEW keys, NEW remove,
           ListsBelow(fs, below, p),
           \A b \in (Blocks \cap DOMAIN keys) \ remove : keys[b] # nil =>
               keys[b] \in Pos /\ WholeIn(fs, b, keys[b]) /\ Below(b, keys[b], p)
    PROVE  ListsBelow(fs, Layer(below, keys, remove), p)
<1> SUFFICES ASSUME NEW b \in Blocks, Layer(below, keys, remove)[b] # nil
             PROVE  LET loc == Layer(below, keys, remove)[b]
                    IN  loc \in Pos /\ WholeIn(fs, b, loc) /\ Below(b, loc, p)
  BY DEF ListsBelow
<1>1. Layer(below, keys, remove)[b] =
         IF b \in remove THEN nil ELSE IF b \in DOMAIN keys THEN keys[b] ELSE below[b]
  BY Sizes DEF Layer
<1> QED
  BY <1>1 DEF ListsBelow

(* A row of a layer.                                                       *)
LEMMA LayerRow ==
    ASSUME NEW below, NEW keys, NEW remove
    PROVE  /\ DOMAIN Layer(below, keys, remove) = MetaKeys
           /\ \A k \in MetaKeys : Layer(below, keys, remove)[k] =
                 IF k \in remove THEN nil ELSE IF k \in DOMAIN keys THEN keys[k] ELSE below[k]
           /\ DOMAIN keys = {} /\ remove = {} =>
                 \A k \in MetaKeys : Layer(below, keys, remove)[k] = below[k]
  BY DEF Layer

(* Pending keys and the rows they set.                                     *)
LEMMA KeysMove ==
    ASSUME NEW fs \in Files, NEW gs \in Files, NEW p \in Pos, NEW q \in Pos,
           AtOrBefore(p, q), SameBelow(fs, gs, p), NEW keys, KeysBelow(fs, keys, p)
    PROVE  KeysBelow(gs, keys, q)
  BY KeptOnDisk, OrderMoves DEF KeysBelow

-----------------------------------------------------------------------------
(* What a step that does not touch the metadata has to keep.               *)

(* Safe is a position in the files in every state.                         *)
LEMMA SafeIsPosition == DBInv => Safe \in Pos /\ Cursor \in Pos
<1> SUFFICES ASSUME DBInv PROVE Safe \in Pos /\ Cursor \in Pos
  OBVIOUS
<1>1. Cursor \in Pos
  <2>1. wc.file \in Nat /\ wc.off \in Nat
    BY Sizes DEF DBInv, TypesOK
  <2> QED
    BY <2>1 DEF Cursor, Pos
<1> QED
  BY <1>1 DEF DBInv, TypesOK, MetaOK, TxOK, Safe

(* A reader keeps what it has when the files keep what is below Safe and   *)
(* its own file stays open.                                                *)
LEMMA ReadMoves ==
    ASSUME NEW read, NEW fs \in Files, NEW gs \in Files, NEW p \in Pos, NEW q \in Pos,
           AtOrBefore(p, q), SameBelow(fs, gs, p), NEW o1, NEW o2, NEW l1, NEW l2,
           ReadOK(read, fs, p, o1, l1),
           o1 = TRUE /\ read.stage = "reading" /\ read.handle = -1 => o2 = TRUE,
           read.stage = "reading" /\ read.handle \in ToSet(l1) => read.handle \in ToSet(l2)
    PROVE  ReadOK(read, gs, q, o2, l2)
<1>1. read.stage # "idle" => ListsBelow(gs, read.view, q)
  BY KeptOnDisk, OrderMoves DEF ReadOK
<1> QED
  BY <1>1 DEF ReadOK

(* The metadata, when they do not change and Safe only moves on.           *)
LEMMA MetaStays ==
    ASSUME DBInv, files' \in Files, Safe' \in Pos, AtOrBefore(Safe, Safe'),
           SameBelow(files, files', Safe), UNCHANGED metaVars
    PROVE  MetaOK'
<1> DEFINE l == ldb["writeloc"]
           v == View["writeloc"]
<1>1. UNCHANGED <<ldb, View>>
  BY DEF metaVars, View
<1>2. /\ l \in Pos /\ OnDisk(files, l) /\ v \in Pos /\ OnDisk(files, v)
      /\ AtOrBefore(l, v) /\ AtOrBefore(v, Safe)
      /\ ListsBelow(files, ldb, l) /\ ListsBelow(files, View, v)
  BY DEF DBInv, MetaOK
<1>3. files \in Files /\ Safe \in Pos
  BY SafeIsPosition DEF DBInv, TypesOK
<1> HIDE DEF l, v
<1>4. AtOrBefore(v, Safe') /\ SameBelow(files, files', v)
  BY <1>2, <1>3, OrderMoves
<1>5. SameBelow(files, files', l)
  BY <1>2, <1>4, OrderMoves
<1>6. OnDisk(files', l) /\ OnDisk(files', v) /\ ListsBelow(files', ldb, l) /\ ListsBelow(files', View, v)
  BY <1>2, <1>3, <1>4, <1>5, KeptOnDisk
<1> QED
  BY <1>1, <1>2, <1>4, <1>6 DEF MetaOK, l, v

(* The files may move on from the write file when no reader holds it.      *)
LEMMA StepKeeps ==
    ASSUME DBInv, TypesOK', CursorOK', TxOK', Safe' \in Pos, AtOrBefore(Safe, Safe'),
           SameBelow(files, files', Safe), UNCHANGED <<metaVars, rd, lru>>,
           WriteFileFree \/ wc'.open = wc.open \/ wc'.open = TRUE
    PROVE  DBInv'
<1>1. files \in Files /\ files' \in Files /\ Safe \in Pos
  BY SafeIsPosition DEF DBInv, TypesOK
<1>2. MetaOK'
  BY <1>1, MetaStays
<1>3. ASSUME NEW r \in Readers PROVE ReadOK(rd[r], files', Safe', wc'.open, lru)
  <2>1. ReadOK(rd[r], files, Safe, wc.open, lru)
    BY DEF DBInv, ReadsOK
  <2>2. wc.open = TRUE /\ rd[r].stage = "reading" /\ rd[r].handle = -1 => wc'.open = TRUE
    BY DEF WriteFileFree
  <2> QED
    BY <1>1, <2>1, <2>2, ReadMoves
<1>4. ReadsOK'
  BY <1>3 DEF DBInv, ReadsOK
<1> QED
  BY <1>2, <1>4 DEF DBInv

(* A step that changes nothing but the write transaction.                  *)
LEMMA TxStepKeeps ==
    ASSUME DBInv, UNCHANGED <<files, wc, metaVars, rd, lru, rolling, mode>>,
           synced' \in Seq(Nat), Len(synced') = Len(synced),
           TxOK', CursorOK', AtOrBefore(Safe, Safe'), Safe' \in Pos
    PROVE  DBInv'
<1>1. files \in Files /\ Safe \in Pos
  BY SafeIsPosition DEF DBInv, TypesOK
<1>2. SameBelow(files, files', Safe)
  BY <1>1, SameItself
<1>3. TypesOK'
  BY DEF DBInv, TypesOK, metaVars
<1> QED
  BY <1>2, <1>3, StepKeeps

-----------------------------------------------------------------------------
(* The write transaction, before and after the files are written.          *)

(* While a transaction is worked on nothing is rolled back, and Safe is    *)
(* where it would be rolled back to.                                       *)
LEMMA Working ==
    ASSUME DBInv
    PROVE  /\ tx.stage \notin {"none", "rollback"} => mode = "up" /\ rolling = NoTarget
           /\ mode = "up" /\ tx.stage = "none" => rolling = NoTarget
           /\ mode = "up" /\ rolling = NoTarget => Safe = IF tx.stage = "write" THEN tx.old ELSE Cursor
  BY DEF DBInv, TypesOK, CursorOK, Safe

(* A step that leaves the files and the cursor alone, and does not go back *)
(* to writing blocks.                                                      *)
LEMMA CursorStays ==
    ASSUME DBInv, mode = "up", rolling = NoTarget,
           UNCHANGED <<files, wc, metaVars, rd, rolling, mode>>, tx'.stage # "rollback",
           tx.stage # "write" \/ tx.blocks = <<>> \/ (tx'.stage = "write" /\ tx'.blocks # <<>>)
    PROVE  CursorOK' /\ Safe' = IF tx'.stage = "write" THEN tx'.old ELSE Cursor
  BY DEF DBInv, CursorOK, Cursor, Safe, metaVars

(* begin: the new transaction has no block yet, and one key.               *)
LEMMA BeginKeeps ==
    ASSUME DBInv, begin
    PROVE  DBInv'
<1>1. tx.stage = "none" /\ mode = "up" /\ rolling = NoTarget
  BY Working DEF begin, NoTx
<1>2. PICK k : k = WithKey(NoKeys, "count", View["count"] + 1)
  OBVIOUS
<1>3. DOMAIN k = {"count"} /\ k["count"] = View["count"] + 1
  BY <1>2 DEF WithKey, NoKeys
<1>4. tx' = [stage |-> "open", snapshot |-> View, blocks |-> <<>>, keys |-> k, remove |-> {},
             old |-> NoTarget, wait |-> FALSE]
  BY <1>2 DEF begin, NoTx
<1>5. UNCHANGED <<files, synced, wc, metaVars, rd, lru, rolling, mode>> /\ View' = View
  BY DEF begin, fileVars, metaVars, View
<1>6. TxOK'
  BY <1>3, <1>4, <1>5, Sizes DEF TxOK, TxFields, Writing
<1>7. CursorOK' /\ Safe' = Cursor
  BY <1>1, <1>4, <1>5, CursorStays
<1>8. Safe = Cursor /\ AtOrBefore(Safe, Safe') /\ Safe' \in Pos
  BY <1>1, <1>7, Working, SafeIsPosition, SameItself DEF DBInv, TypesOK
<1>9. synced \in Seq(Nat)
  BY DEF DBInv, TypesOK
<1> QED
  BY <1>5, <1>6, <1>7, <1>8, <1>9, TxStepKeeps

(* StoreBlock, Put and Delete.                                             *)
LEMMA OpenStepKeeps ==
    ASSUME DBInv, tx.stage = "open", DOMAIN tx' = TxFields, tx'.stage = "open",
           tx'.blocks \in Seq(Blocks), DOMAIN tx'.keys \subseteq {"count", "extra"},
           tx'.remove \subseteq {"extra"}, DOMAIN tx'.keys \cap tx'.remove = {},
           "count" \in DOMAIN tx'.keys, tx'.keys["count"] = tx.keys["count"],
           UNCHANGED <<fileVars, lru, metaVars, rd, rolling, mode>>
    PROVE  DBInv'
<1>1. mode = "up" /\ rolling = NoTarget
  BY Working
<1>2. UNCHANGED <<files, synced, wc, metaVars, rd, lru, rolling, mode>> /\ View' = View
  BY DEF fileVars, metaVars, View
<1>3. TxOK'
  BY <1>2, Sizes DEF DBInv, TxOK, Writing
<1>4. CursorOK' /\ Safe' = Cursor
  BY <1>1, <1>2, CursorStays
<1>5. Safe = Cursor /\ AtOrBefore(Safe, Safe') /\ Safe' \in Pos
  BY <1>1, <1>4, Working, SafeIsPosition, SameItself DEF DBInv, TypesOK
<1>6. synced \in Seq(Nat)
  BY DEF DBInv, TypesOK
<1> QED
  BY <1>2, <1>3, <1>4, <1>5, <1>6, TxStepKeeps

(* StoreBlock puts the block among those to write, and no location among   *)
(* the keys.                                                               *)
LEMMA StoreBlockKeeps ==
    ASSUME DBInv, NEW b \in Blocks, StoreBlockInTx(b)
    PROVE  DBInv'
<1>1. /\ DOMAIN tx = TxFields /\ tx.stage = "open" /\ tx.blocks \in Seq(Blocks)
      /\ DOMAIN tx.keys \subseteq {"count", "extra"} /\ tx.remove \subseteq {"extra"}
      /\ DOMAIN tx.keys \cap tx.remove = {} /\ "count" \in DOMAIN tx.keys
  BY DEF DBInv, TxOK, StoreBlockInTx
<1>2. tx' = [tx EXCEPT !.blocks = Append(tx.blocks, b)]
  BY DEF StoreBlockInTx
<1>3. /\ DOMAIN tx' = TxFields /\ tx'.stage = "open" /\ tx'.keys = tx.keys /\ tx'.remove = tx.remove
      /\ tx'.blocks = Append(tx.blocks, b)
  BY <1>1, <1>2 DEF TxFields
<1>4. tx'.blocks \in Seq(Blocks)
  BY <1>1, <1>3
<1>5. UNCHANGED <<fileVars, lru, metaVars, rd, rolling, mode>>
  BY DEF StoreBlockInTx
<1> QED
  BY <1>1, <1>3, <1>4, <1>5, OpenStepKeeps

(* Put and Delete do not touch a location.                                 *)
LEMMA ChangeKeyKeeps ==
    ASSUME DBInv, ChangeKey
    PROVE  DBInv'
<1>1. /\ DOMAIN tx = TxFields /\ tx.stage = "open" /\ tx.blocks \in Seq(Blocks)
      /\ DOMAIN tx.keys \subseteq {"count", "extra"} /\ tx.remove \subseteq {"extra"}
      /\ DOMAIN tx.keys \cap tx.remove = {} /\ "count" \in DOMAIN tx.keys
  BY DEF DBInv, TxOK, ChangeKey
<1>2. UNCHANGED <<fileVars, lru, metaVars, rd, rolling, mode>>
  BY DEF ChangeKey
<1>3. CASE tx' = putKey(tx, "extra", <<tx.keys["count"]>>)
  <2>1. PICK k : k = WithKey(tx.keys, "extra", <<tx.keys["count"]>>)
    OBVIOUS
  <2>2. DOMAIN k = DOMAIN tx.keys \cup {"extra"} /\ k["count"] = tx.keys["count"]
    BY <1>1, <2>1 DEF WithKey
  <2>3. tx' = [tx EXCEPT !.keys = k, !.remove = tx.remove \ {"extra"}]
    BY <1>3, <2>1 DEF putKey
  <2>4. /\ DOMAIN tx' = TxFields /\ tx'.stage = "open" /\ tx'.keys = k
        /\ tx'.remove = tx.remove \ {"extra"} /\ tx'.blocks = tx.blocks
    BY <1>1, <2>3 DEF TxFields
  <2> QED
    BY <1>1, <1>2, <2>2, <2>4, OpenStepKeeps
<1>4. CASE tx' = deleteKey(tx, "extra")
  <2>1. PICK k : k = WithoutKey(tx.keys, "extra")
    OBVIOUS
  <2>2. DOMAIN k = DOMAIN tx.keys \ {"extra"} /\ k["count"] = tx.keys["count"]
    BY <1>1, <2>1 DEF WithoutKey
  <2>3. tx' = [tx EXCEPT !.keys = k, !.remove = tx.remove \cup {"extra"}]
    BY <1>4, <2>1 DEF deleteKey
  <2>4. /\ DOMAIN tx' = TxFields /\ tx'.stage = "open" /\ tx'.keys = k
        /\ tx'.remove = tx.remove \cup {"extra"} /\ tx'.blocks = tx.blocks
    BY <1>1, <2>3 DEF TxFields
  <2> QED
    BY <1>1, <1>2, <2>2, <2>4, OpenStepKeeps
<1> QED
  BY <1>3, <1>4 DEF ChangeKey

(* The transaction is gone: rolled back before it wrote, or its flush      *)
(* failed.                                                                 *)
LEMMA NoTxIsOK ==
    ASSUME tx' = NoTx
    PROVE  TxOK' /\ tx'.stage = "none"
<1>1. DOMAIN NoTx = TxFields /\ NoTx.stage = "none" /\ NoTx.blocks = <<>>
      /\ NoTx.keys = NoKeys /\ NoTx.remove = {}
  BY DEF NoTx, TxFields
<1>2. DOMAIN NoKeys = {}
  BY DEF NoKeys
<1> QED
  BY <1>1, <1>2 DEF TxOK, Writing

(* A transaction is given up before it writes, or after it has: what it    *)
(* wrote stays in the files, with the cursor behind it.                    *)
LEMMA TxEndsKeeps ==
    ASSUME DBInv, tx.stage \in {"open", "sync", "flush", "through"}, tx' = NoTx,
           UNCHANGED <<fileVars, lru, metaVars, rd, rolling, mode>>
    PROVE  DBInv'
<1>1. mode = "up" /\ rolling = NoTarget
  BY Working
<1>2. UNCHANGED <<files, synced, wc, metaVars, rd, lru, rolling, mode>>
  BY DEF fileVars
<1>3. TxOK' /\ tx'.stage = "none"
  BY NoTxIsOK
<1>4. CursorOK' /\ Safe' = Cursor
  BY <1>1, <1>2, <1>3, CursorStays
<1>5. Safe = Cursor /\ AtOrBefore(Safe, Safe') /\ Safe' \in Pos
  BY <1>1, <1>4, Working, SafeIsPosition, SameItself DEF DBInv, TypesOK
<1>6. synced \in Seq(Nat)
  BY DEF DBInv, TypesOK
<1> QED
  BY <1>2, <1>3, <1>4, <1>5, <1>6, TxStepKeeps

(* Commit: from here on a rollback goes back to the cursor.                *)
LEMMA CommitKeeps ==
    ASSUME DBInv, Commit
    PROVE  DBInv'
<1>1. mode = "up" /\ rolling = NoTarget /\ tx.stage = "open"
  BY Working DEF Commit
<1>2. UNCHANGED <<files, synced, wc, metaVars, rd, lru, rolling, mode>> /\ View' = View
  BY DEF Commit, fileVars, metaVars, View
<1>3. DOMAIN tx = TxFields /\ tx' = [tx EXCEPT !.stage = "write", !.old = Cursor]
  BY DEF DBInv, TxOK, Commit, Cursor
<1>4. /\ DOMAIN tx' = TxFields /\ tx'.stage = "write" /\ tx'.old = Cursor
      /\ tx'.blocks = tx.blocks /\ tx'.keys = tx.keys /\ tx'.remove = tx.remove
  BY <1>3 DEF TxFields
<1>5. Cursor \in Pos /\ AtOrBefore(Cursor, Cursor) /\ OnDisk(files, Cursor)
  BY <1>1, SafeIsPosition, SameItself DEF DBInv, TypesOK, CursorOK
<1>6. KeysBelow(files, tx.keys, Cursor)
  BY <1>1, Sizes DEF DBInv, TxOK, KeysBelow
<1>7. Cursor' = Cursor
  BY <1>2 DEF Cursor
<1>8. TxOK'
  BY <1>1, <1>2, <1>4, <1>5, <1>6, <1>7 DEF DBInv, TxOK, Writing
<1>9. CursorOK' /\ Safe' = Cursor
  BY <1>1, <1>2, <1>4, CursorStays
<1>10. Safe = Cursor
  BY <1>1, Working
<1>11. synced \in Seq(Nat)
  BY DEF DBInv, TypesOK
<1> QED
  BY <1>2, <1>5, <1>8, <1>9, <1>10, <1>11, TxStepKeeps

(* The writer waits for the write file.                                    *)
LEMMA LockKeeps ==
    ASSUME DBInv, LockWriteFile
    PROVE  DBInv'
<1>1. mode = "up" /\ rolling = NoTarget /\ tx.stage = "write" /\ tx.blocks # <<>>
  BY Working DEF LockWriteFile
<1>2. UNCHANGED <<files, synced, wc, metaVars, rd, lru, rolling, mode>> /\ View' = View
  BY DEF LockWriteFile, fileVars, metaVars, View
<1>3. DOMAIN tx = TxFields /\ tx' = [tx EXCEPT !.wait = TRUE]
  BY DEF DBInv, TxOK, LockWriteFile
<1>4. /\ DOMAIN tx' = TxFields /\ tx'.stage = "write" /\ tx'.old = tx.old
      /\ tx'.blocks = tx.blocks /\ tx'.keys = tx.keys /\ tx'.remove = tx.remove
  BY <1>1, <1>3 DEF TxFields
<1>5. Cursor' = Cursor
  BY <1>2 DEF Cursor
<1>6. TxOK'
  BY <1>1, <1>2, <1>4, <1>5 DEF DBInv, TxOK
<1>7. CursorOK' /\ Safe' = tx.old /\ Safe = tx.old
  BY <1>1, <1>2, <1>4, CursorStays, Working
<1>8. Safe \in Pos /\ AtOrBefore(Safe, Safe')
  BY <1>7, SafeIsPosition, SameItself DEF DBInv, TypesOK
<1>9. synced \in Seq(Nat)
  BY DEF DBInv, TypesOK
<1> QED
  BY <1>2, <1>6, <1>7, <1>8, <1>9, TxStepKeeps

(* The row of the cursor among the keys of a transaction.                  *)
LEMMA RowAdded ==
    ASSUME DOMAIN tx = TxFields, tx.remove \subseteq {"extra"}
    PROVE  /\ DOMAIN WriteRow = TxFields /\ WriteRow.blocks = tx.blocks
           /\ WriteRow.remove = tx.remove
           /\ DOMAIN WriteRow.keys = DOMAIN tx.keys \cup {"writeloc"}
           /\ WriteRow.keys["writeloc"] = Cursor
           /\ \A k \in DOMAIN tx.keys \ {"writeloc"} : WriteRow.keys[k] = tx.keys[k]
<1>1. PICK v : v = WithKey(tx.keys, "writeloc", Cursor)
  OBVIOUS
<1>2. /\ DOMAIN v = DOMAIN tx.keys \cup {"writeloc"} /\ v["writeloc"] = Cursor
      /\ \A k \in DOMAIN tx.keys \ {"writeloc"} : v[k] = tx.keys[k]
  BY <1>1 DEF WithKey
<1>3. WriteRow = [tx EXCEPT !.keys = v, !.remove = tx.remove \ {"writeloc"}]
  BY <1>1 DEF WriteRow, putKey, Cursor
<1>4. /\ DOMAIN WriteRow = TxFields /\ WriteRow.blocks = tx.blocks
      /\ WriteRow.remove = tx.remove \ {"writeloc"} /\ WriteRow.keys = v
  BY <1>3 DEF TxFields
<1>5. tx.remove \ {"writeloc"} = tx.remove
  OBVIOUS
<1> QED
  BY <1>2, <1>4, <1>5

(* What is listed in it is below the cursor.                               *)
LEMMA RowWritten ==
    ASSUME DBInv, Written
    PROVE  /\ DOMAIN WriteRow = TxFields
           /\ WriteRow.blocks = tx.blocks /\ WriteRow.remove = tx.remove
           /\ DOMAIN WriteRow.keys = DOMAIN tx.keys \cup {"writeloc"}
           /\ WriteRow.keys["writeloc"] = Cursor
           /\ \A k \in DOMAIN tx.keys \ {"writeloc"} : WriteRow.keys[k] = tx.keys[k]
           /\ KeysBelow(files, WriteRow.keys, Cursor)
<1>1. /\ DOMAIN tx = TxFields /\ tx.stage = "write"
      /\ tx.remove \subseteq {"extra"} /\ KeysBelow(files, tx.keys, Cursor)
  BY DEF DBInv, TxOK, Written, Writing
<1>2. PICK keys : keys = WriteRow.keys
  OBVIOUS
<1>3. /\ DOMAIN WriteRow = TxFields
      /\ WriteRow.blocks = tx.blocks /\ WriteRow.remove = tx.remove
      /\ DOMAIN keys = DOMAIN tx.keys \cup {"writeloc"}
      /\ keys["writeloc"] = Cursor
      /\ \A k \in DOMAIN tx.keys \ {"writeloc"} : keys[k] = tx.keys[k]
  BY <1>1, <1>2, RowAdded
<1>4. KeysBelow(files, keys, Cursor)
  BY <1>1, <1>3, Sizes DEF KeysBelow
<1> QED
  BY <1>2, <1>3, <1>4

(* From here on the cursor is among the pending keys, and a failure does   *)
(* not go back behind what was written.                                    *)
LEMMA NeedsFlushKeeps ==
    ASSUME DBInv, needsFlush
    PROVE  DBInv'
<1>1. mode = "up" /\ rolling = NoTarget /\ tx.stage = "write" /\ tx.blocks = <<>> /\ Written
  BY Working DEF needsFlush, Written
<1>2. UNCHANGED <<files, synced, wc, metaVars, rd, lru, rolling, mode>> /\ View' = View
  BY DEF needsFlush, fileVars, metaVars, View
<1>3. PICK t : t = WriteRow
  OBVIOUS
<1>4. /\ DOMAIN t = TxFields /\ t.blocks = tx.blocks /\ t.remove = tx.remove
      /\ DOMAIN t.keys = DOMAIN tx.keys \cup {"writeloc"} /\ t.keys["writeloc"] = Cursor
      /\ \A k \in DOMAIN tx.keys \ {"writeloc"} : t.keys[k] = tx.keys[k]
      /\ KeysBelow(files, t.keys, Cursor)
  BY <1>1, <1>3, RowWritten
<1>5. tx' = [t EXCEPT !.stage = "sync"]
  BY <1>3 DEF needsFlush
<1>6. /\ DOMAIN tx' = TxFields /\ tx'.stage = "sync" /\ tx'.blocks = tx.blocks
      /\ tx'.remove = tx.remove /\ tx'.keys = t.keys
  BY <1>4, <1>5 DEF TxFields
<1>7. Cursor' = Cursor
  BY <1>2 DEF Cursor
<1>8. TxOK'
  BY <1>1, <1>2, <1>4, <1>6, <1>7, Sizes DEF DBInv, TxOK, Writing
<1>9. CursorOK' /\ Safe' = Cursor /\ Safe = tx.old
  BY <1>1, <1>2, <1>6, CursorStays, Working
<1>10. AtOrBefore(Safe, Safe') /\ Safe' \in Pos
  BY <1>1, <1>9, SafeIsPosition DEF DBInv, TxOK
<1>11. synced \in Seq(Nat)
  BY DEF DBInv, TypesOK
<1> QED
  BY <1>2, <1>8, <1>9, <1>10, <1>11, TxStepKeeps

(* The write file is synced, if it is open.                                *)
LEMMA SyncIsType ==
    ASSUME DBInv
    PROVE  SyncWriteFile(synced) \in Seq(Nat) /\ Len(SyncWriteFile(synced)) = Len(synced)
<1>1. synced \in Seq(Nat) /\ files \in Files /\ wc.file \in Nat /\ Len(synced) = Len(files)
  BY DEF DBInv, TypesOK
<1>2. CASE wc.open /\ wc.file + 1 \in 1..Len(files)
  <2>1. Len(files[wc.file + 1]) \in Nat
    BY <1>1, <1>2, FileFacts
  <2>2. PICK n \in Nat : n = Len(files[wc.file + 1])
    BY <2>1
  <2>3. [synced EXCEPT ![wc.file + 1] = n] \in Seq(Nat)
        /\ Len([synced EXCEPT ![wc.file + 1] = n]) = Len(synced)
    BY <1>1, EntryReplaced
  <2> QED
    BY <1>2, <2>2, <2>3 DEF SyncWriteFile
<1>3. CASE wc.open /\ wc.file + 1 \notin 1..Len(files)
  <2>1. [synced EXCEPT ![wc.file + 1] = Len(files[wc.file + 1])] = synced
    BY <1>1, <1>3
  <2> QED
    BY <1>1, <1>3, <2>1 DEF SyncWriteFile
<1>4. CASE ~wc.open
  BY <1>1, <1>4 DEF SyncWriteFile
<1> QED
  BY <1>2, <1>3, <1>4

(* syncBlocks changes what is synced, and goes on to the flush or past it. *)
LEMMA SyncKeeps ==
    ASSUME DBInv, syncBlocks
    PROVE  DBInv'
<1>1. mode = "up" /\ rolling = NoTarget /\ tx.stage = "sync"
  BY Working DEF syncBlocks
<1>2. UNCHANGED <<files, wc, metaVars, rd, lru, rolling, mode>> /\ View' = View
  BY DEF syncBlocks, metaVars, View
<1>3. DOMAIN tx = TxFields
  BY DEF DBInv, TxOK
<1>4. /\ DOMAIN tx' = TxFields /\ tx'.blocks = tx.blocks /\ tx'.remove = tx.remove
      /\ tx'.keys = tx.keys /\ tx'.stage \in {"through", "flush"}
      /\ tx'.stage = "through" => DOMAIN cachedKeys = {} /\ cachedRemove = {}
  <2>1. PICK s : s = IF cachedKeys = NoKeys /\ cachedRemove = {} THEN "through" ELSE "flush"
    OBVIOUS
  <2>2. tx' = [tx EXCEPT !.stage = s]
    BY <2>1 DEF syncBlocks
  <2>3. s = "through" => DOMAIN cachedKeys = {} /\ cachedRemove = {}
    BY <2>1 DEF NoKeys
  <2> QED
    BY <1>3, <2>1, <2>2, <2>3 DEF TxFields
<1>5. Cursor' = Cursor
  BY <1>2 DEF Cursor
<1>6. TxOK'
  BY <1>1, <1>2, <1>4, <1>5 DEF DBInv, TxOK, Writing, metaVars
<1>7. CursorOK' /\ Safe' = Cursor /\ Safe = Cursor
  BY <1>1, <1>2, <1>4, CursorStays, Working
<1>8. Safe \in Pos /\ AtOrBefore(Safe, Safe')
  BY <1>7, SafeIsPosition, SameItself DEF DBInv, TypesOK
<1>9. synced' \in Seq(Nat) /\ Len(synced') = Len(synced)
  BY SyncIsType DEF syncBlocks
<1> QED
  BY <1>2, <1>6, <1>7, <1>8, <1>9, TxStepKeeps

-----------------------------------------------------------------------------
(* The files are written.                                                  *)

(* Where the write transaction is while it writes.                         *)
LEMMA WritingFacts ==
    ASSUME DBInv, tx.stage = "write", tx.blocks # <<>>
    PROVE  /\ mode = "up" /\ rolling = NoTarget /\ Safe = tx.old
           /\ CursorFits(files, wc.file, wc.off)
           /\ tx.old \in Pos /\ Cursor \in Pos /\ AtOrBefore(tx.old, Cursor) /\ OnDisk(files, tx.old)
           /\ KeysBelow(files, tx.keys, Cursor)
           /\ Head(tx.blocks) \in Blocks /\ Tail(tx.blocks) \in Seq(Blocks)
           /\ DOMAIN tx = TxFields
<1>1. mode = "up" /\ rolling = NoTarget /\ Safe = tx.old
  BY Working
<1>2. CursorFits(files, wc.file, wc.off)
  BY <1>1 DEF DBInv, CursorOK
<1>3. tx.blocks \in Seq(Blocks)
  BY DEF DBInv, TxOK
<1>4. Head(tx.blocks) \in Blocks /\ Tail(tx.blocks) \in Seq(Blocks)
  BY <1>3
<1>5. Cursor \in Pos
  BY SafeIsPosition
<1> QED
  BY <1>1, <1>2, <1>4, <1>5 DEF DBInv, TxOK, Writing

(* The next file comes right after the one that is full, and no reader is  *)
(* in the middle of a read of the old write file.                          *)
LEMMA NextFileKeeps ==
    ASSUME DBInv, NextFile
    PROVE  DBInv'
<1>1. tx.stage = "write" /\ tx.blocks # <<>> /\ WriteFileFree
  BY DEF NextFile
<1>2. /\ mode = "up" /\ rolling = NoTarget /\ Safe = tx.old
      /\ CursorFits(files, wc.file, wc.off)
      /\ tx.old \in Pos /\ Cursor \in Pos /\ AtOrBefore(tx.old, Cursor) /\ OnDisk(files, tx.old)
      /\ KeysBelow(files, tx.keys, Cursor) /\ Head(tx.blocks) \in Blocks
      /\ DOMAIN tx = TxFields
  BY <1>1, WritingFacts
<1>3. files \in Files /\ wc.file \in Nat /\ wc.off \in Nat /\ Len(files) \in Nat
  BY FileFacts, Sizes DEF DBInv, TypesOK
<1>4. PICK n \in Nat : n = Size[Head(tx.blocks)] /\ n <= maxBlockFileSize /\ wc.off + n > maxBlockFileSize
  BY <1>2, Sizes DEF NextFile, Exceeds
<1>5. wc.file < Len(files)
  BY <1>2, <1>3, <1>4, Sizes DEF CursorFits
<1>6. /\ wc' = [file |-> wc.file + 1, off |-> 0, open |-> FALSE]
      /\ UNCHANGED <<files, synced, lru, metaVars, rd, rolling, mode>>
  BY DEF NextFile
<1>7. wc'.file = wc.file + 1 /\ wc'.off = 0 /\ View' = View
      /\ wc' \in [file : Nat, off : 0 .. maxBlockFileSize, open : BOOLEAN]
  BY <1>3, <1>6, Sizes DEF metaVars, View
<1>8. Cursor' = <<wc.file + 1, 0>>
  BY <1>7 DEF Cursor
<1>9. Cursor' \in Pos /\ AtOrBefore(Cursor, Cursor')
  BY <1>3, <1>8 DEF Pos, AtOrBefore, Cursor
<1>10. AtOrBefore(tx.old, Cursor')
  BY <1>2, <1>9, OrderMoves
<1>11. SameBelow(files, files, Cursor)
  BY <1>2, <1>3, SameItself
<1>12. KeysBelow(files, tx.keys, Cursor')
  BY <1>2, <1>3, <1>9, <1>11, KeysMove
<1>13. CursorFits(files, wc.file + 1, 0)
  <2>1. wc.file + 1 < Len(files) => 0 <= Len(files[wc.file + 1 + 1])
    <3>1. wc.file + 1 < Len(files) => wc.file + 1 + 1 \in 1..Len(files)
      BY <1>3
    <3> QED
      BY <1>3, <3>1, FileFacts
  <2> QED
    BY <1>3, <1>5, <2>1 DEF CursorFits
<1>14. tx' = [tx EXCEPT !.wait = FALSE]
  BY DEF NextFile
<1>15. /\ DOMAIN tx' = TxFields /\ tx'.stage = "write" /\ tx'.old = tx.old
       /\ tx'.blocks = tx.blocks /\ tx'.keys = tx.keys /\ tx'.remove = tx.remove
  BY <1>1, <1>2, <1>14 DEF TxFields
<1>16. TxOK'
  BY <1>1, <1>6, <1>7, <1>10, <1>12, <1>15 DEF DBInv, TxOK
<1>17. CursorOK'
  BY <1>1, <1>2, <1>6, <1>7, <1>13, <1>15 DEF DBInv, CursorOK, metaVars
<1>18. TypesOK'
  BY <1>6, <1>7 DEF DBInv, TypesOK, metaVars
<1>19. Safe' = tx.old
  BY <1>2, <1>6, <1>15 DEF Safe
<1>20. AtOrBefore(Safe, Safe') /\ SameBelow(files, files', Safe)
  BY <1>2, <1>3, <1>6, <1>19, SameItself
<1> QED
  BY <1>1, <1>2, <1>6, <1>16, <1>17, <1>18, <1>19, <1>20, StepKeeps

(* What writing at the cursor keeps, and where the cursor is then.         *)
LEMMA WrittenFacts ==
    ASSUME DBInv, tx.stage = "write", tx.blocks # <<>>, ~Exceeds(Head(tx.blocks)),
           NEW n \in 0..Size[Head(tx.blocks)], WriteCells(n),
           UNCHANGED <<lru, metaVars, mode>>, rolling' \in Pos \cup {NoTarget}
    PROVE  /\ TypesOK' /\ SameBelow(files, files', tx.old) /\ OnDisk(files', tx.old)
           /\ Cursor' = <<wc.file, wc.off + n>> /\ Cursor' \in Pos
           /\ AtOrBefore(Cursor, Cursor') /\ AtOrBefore(tx.old, Cursor')
           /\ wc'.file = wc.file /\ wc'.off = wc.off + n
           /\ OnDisk(files', Cursor') /\ CursorFits(files', wc'.file, wc'.off)
           /\ KeysBelow(files', tx.keys, Cursor')
           /\ \A i \in 1..n : files'[wc.file + 1][wc.off + i] = <<Head(tx.blocks), i>>
           /\ wc.file < Len(files') /\ wc.off + n <= Len(files'[wc.file + 1])
<1>1. PICK b \in Blocks : b = Head(tx.blocks)
  BY WritingFacts
<1>2. /\ CursorFits(files, wc.file, wc.off)
      /\ tx.old \in Pos /\ Cursor \in Pos /\ AtOrBefore(tx.old, Cursor) /\ OnDisk(files, tx.old)
      /\ KeysBelow(files, tx.keys, Cursor)
  BY WritingFacts
<1>3. /\ files \in Files /\ synced \in Seq(Nat) /\ Len(synced) = Len(files)
      /\ wc \in [file : Nat, off : 0 .. maxBlockFileSize, open : BOOLEAN]
      /\ wc.file \in Nat /\ wc.off \in Nat /\ maxBlockFileSize \in Nat
      /\ Size[b] \in Nat /\ n \in Nat /\ n <= Size[b]
  BY <1>1, Sizes DEF DBInv, TypesOK
<1>4. wc.off + n <= maxBlockFileSize
  BY <1>1, <1>3 DEF Exceeds
<1>5. /\ files' \in Files /\ synced' \in Seq(Nat) /\ Len(synced') = Len(files')
      /\ wc' \in [file : Nat, off : 0 .. maxBlockFileSize, open : BOOLEAN]
      /\ wc'.file = wc.file /\ wc'.off = wc.off + n
      /\ SameBelow(files, files', Cursor)
      /\ wc.file < Len(files') /\ wc.off + n <= Len(files'[wc.file + 1])
      /\ \A i \in 1..n : files'[wc.file + 1][wc.off + i] = <<b, i>>
  BY <1>1, <1>2, <1>3, <1>4, CellsWritten
<1>6. TypesOK'
  BY <1>5 DEF DBInv, TypesOK, metaVars
<1>7. Cursor' = <<wc.file, wc.off + n>>
  BY <1>5 DEF Cursor
<1>8. Cursor' \in Pos /\ AtOrBefore(Cursor, Cursor')
  BY <1>3, <1>7 DEF Pos, AtOrBefore, Cursor
<1>9. SameBelow(files, files', tx.old) /\ AtOrBefore(tx.old, Cursor')
  BY <1>2, <1>5, <1>8, OrderMoves
<1>10. OnDisk(files', tx.old)
  BY <1>2, <1>3, <1>5, <1>9, KeptOnDisk
<1>11. KeysBelow(files', tx.keys, Cursor')
  BY <1>2, <1>3, <1>5, <1>8, KeysMove
<1>12. OnDisk(files', Cursor') /\ CursorFits(files', wc'.file, wc'.off)
  BY <1>5, <1>7 DEF OnDisk, CursorFits
<1> QED
  BY <1>1, <1>5, <1>6, <1>7, <1>8, <1>9, <1>10, <1>11, <1>12

(* A whole record is written at the cursor, which is behind everything     *)
(* that is listed, and its location joins the pending keys.                *)
LEMMA WriteBlockKeeps ==
    ASSUME DBInv, writeBlock
    PROVE  DBInv'
<1>1. tx.stage = "write" /\ tx.blocks # <<>> /\ ~Exceeds(Head(tx.blocks)) /\ WriteFileFree
  BY DEF writeBlock
<1>2. /\ mode = "up" /\ rolling = NoTarget /\ Safe = tx.old /\ tx.old \in Pos
      /\ Head(tx.blocks) \in Blocks /\ Tail(tx.blocks) \in Seq(Blocks) /\ DOMAIN tx = TxFields
  BY <1>1, WritingFacts
<1>3. PICK b \in Blocks : b = Head(tx.blocks)
  BY <1>2
<1>4. PICK n \in Nat : n = Size[b]
  BY Sizes
<1>5. n \in 0..Size[Head(tx.blocks)] /\ WriteCells(n)
      /\ UNCHANGED <<lru, metaVars, rd, rolling, mode>> /\ rolling' \in Pos \cup {NoTarget}
  BY <1>3, <1>4 DEF writeBlock, DBInv, TypesOK
<1>6. /\ TypesOK' /\ SameBelow(files, files', tx.old) /\ OnDisk(files', tx.old)
      /\ Cursor' = <<wc.file, wc.off + n>> /\ Cursor' \in Pos
      /\ AtOrBefore(tx.old, Cursor')
      /\ OnDisk(files', Cursor') /\ CursorFits(files', wc'.file, wc'.off)
      /\ KeysBelow(files', tx.keys, Cursor')
      /\ \A i \in 1..n : files'[wc.file + 1][wc.off + i] = <<b, i>>
      /\ wc.file < Len(files') /\ wc.off + n <= Len(files'[wc.file + 1])
  BY <1>1, <1>3, <1>5, WrittenFacts
<1>7. PICK k : k = WithKey(tx.keys, b, Cursor)
  OBVIOUS
<1>8. DOMAIN k = DOMAIN tx.keys \cup {b} /\ k[b] = Cursor /\ \A x \in DOMAIN tx.keys \ {b} : k[x] = tx.keys[x]
  BY <1>7 DEF WithKey
<1>9. /\ DOMAIN tx' = TxFields /\ tx'.stage = "write" /\ tx'.old = tx.old
      /\ tx'.blocks = Tail(tx.blocks) /\ tx'.keys = k /\ tx'.remove = tx.remove \ {b}
  <2>1. tx' = [putKey(tx, b, Cursor) EXCEPT !.blocks = Tail(@), !.wait = FALSE]
    BY <1>3 DEF writeBlock, LocationOf, Cursor
  <2>2. PICK t : t = putKey(tx, b, Cursor)
    OBVIOUS
  <2>3. t = [tx EXCEPT !.keys = k, !.remove = tx.remove \ {b}]
    BY <1>7, <2>2 DEF putKey
  <2>4. /\ DOMAIN t = TxFields /\ t.stage = "write" /\ t.old = tx.old /\ t.blocks = tx.blocks
        /\ t.keys = k /\ t.remove = tx.remove \ {b}
    BY <1>1, <1>2, <2>3 DEF TxFields
  <2>5. tx' = [t EXCEPT !.blocks = Tail(tx.blocks), !.wait = FALSE]
    BY <2>1, <2>2, <2>4
  <2> QED
    BY <2>4, <2>5 DEF TxFields
<1>10. KeysBelow(files', k, Cursor')
  <2>1. Cursor \in Pos /\ Cursor[1] = wc.file /\ Cursor[2] = wc.off
    BY SafeIsPosition DEF Cursor
  <2>2. WholeIn(files', b, Cursor)
    BY <1>4, <1>6, <2>1 DEF WholeIn
  <2>3. Below(b, Cursor, Cursor')
    <3>1. Cursor'[1] = wc.file /\ Cursor'[2] = wc.off + n
      BY <1>6
    <3>2. wc.off + n <= wc.off + n
      BY <1>4 DEF DBInv, TypesOK
    <3> QED
      BY <1>4, <2>1, <3>1, <3>2 DEF Below
  <2> QED
    BY <1>6, <1>8, <2>1, <2>2, <2>3 DEF KeysBelow
<1>11. View' = View
  BY <1>5 DEF metaVars, View
<1>12. /\ tx.remove \subseteq {"extra"} /\ DOMAIN tx.keys \cap tx.remove = {}
       /\ DOMAIN tx.keys \subseteq MetaKeys
       /\ "count" \in DOMAIN tx.keys /\ tx.keys["count"] = View["count"] + 1
  BY <1>1 DEF DBInv, TxOK, Writing
<1>13. TxOK'
  <2>1. /\ DOMAIN k \subseteq MetaKeys /\ DOMAIN k \cap (tx.remove \ {b}) = {}
        /\ "count" \in DOMAIN k /\ k["count"] = View["count"] + 1
    BY <1>8, <1>12, Sizes
  <2>2. KeysBelow(files', tx'.keys, Cursor')
    BY <1>9, <1>10
  <2> QED
    BY <1>2, <1>6, <1>9, <1>11, <1>12, <2>1, <2>2 DEF TxOK, Writing
<1>14. CursorOK'
  BY <1>1, <1>2, <1>5, <1>6, <1>9 DEF DBInv, CursorOK, metaVars
<1>15. Safe' = tx.old
  BY <1>2, <1>5, <1>9 DEF Safe
<1>16. AtOrBefore(Safe, Safe') /\ SameBelow(files, files', Safe)
  <2>1. files \in Files
    BY DEF DBInv, TypesOK
  <2> QED
    BY <1>2, <1>6, <1>15, <2>1, SameItself
<1> QED
  BY <1>1, <1>2, <1>5, <1>6, <1>13, <1>14, <1>15, <1>16, StepKeeps

(* Part of a record is written, and the rollback will go back to before    *)
(* the transaction.                                                        *)
LEMMA WriteFailsKeeps ==
    ASSUME DBInv, WriteFails
    PROVE  DBInv'
<1>1. tx.stage = "write" /\ tx.blocks # <<>> /\ ~Exceeds(Head(tx.blocks)) /\ WriteFileFree
  BY DEF WriteFails
<1>2. /\ mode = "up" /\ rolling = NoTarget /\ Safe = tx.old /\ tx.old \in Pos
      /\ Head(tx.blocks) \in Blocks /\ DOMAIN tx = TxFields
  BY <1>1, WritingFacts
<1>3. PICK n \in 0..Size[Head(tx.blocks)] - 1 : WriteCells(n)
  BY DEF WriteFails
<1>4. n \in 0..Size[Head(tx.blocks)]
  BY <1>2, <1>3, Sizes
<1>5. UNCHANGED <<lru, metaVars, rd, mode>> /\ rolling' = tx.old /\ rolling' \in Pos \cup {NoTarget}
  BY <1>2 DEF WriteFails
<1>6. /\ TypesOK' /\ SameBelow(files, files', tx.old) /\ OnDisk(files', tx.old)
      /\ AtOrBefore(tx.old, Cursor') /\ Cursor' = <<wc.file, wc.off + n>>
      /\ wc'.file = wc.file
  BY <1>1, <1>3, <1>4, <1>5, WrittenFacts
<1>7. tx' = [tx EXCEPT !.stage = "rollback"]
  BY DEF WriteFails
<1>8. /\ DOMAIN tx' = TxFields /\ tx'.stage = "rollback" /\ tx'.old = tx.old
      /\ tx'.blocks = tx.blocks /\ tx'.keys = tx.keys /\ tx'.remove = tx.remove
  BY <1>1, <1>2, <1>7 DEF TxFields
<1>9. TxOK'
  BY <1>2, <1>5, <1>6, <1>8 DEF DBInv, TxOK, Writing
<1>10. tx.old # NoTarget /\ tx.old[1] <= wc.file
  <2>1. tx.old # NoTarget /\ tx.old[1] \in Nat /\ wc.file \in Nat
    BY <1>2, PosFacts DEF NoTarget, DBInv, TypesOK
  <2>2. Cursor'[1] = wc.file
    BY <1>6
  <2> QED
    BY <1>6, <2>1, <2>2 DEF AtOrBefore
<1>11. CursorOK'
  BY <1>2, <1>5, <1>6, <1>8, <1>10 DEF CursorOK
<1>12. Safe' = tx.old
  BY <1>2, <1>5, <1>8, <1>10 DEF Safe
<1>13. AtOrBefore(Safe, Safe') /\ SameBelow(files, files', Safe)
  <2>1. files \in Files
    BY DEF DBInv, TypesOK
  <2> QED
    BY <1>2, <1>6, <1>12, <2>1, SameItself
<1> QED
  BY <1>1, <1>2, <1>5, <1>6, <1>9, <1>11, <1>12, <1>13, StepKeeps

-----------------------------------------------------------------------------
(* Rollbacks.                                                              *)

(* Where the files and the cursor are during a rollback.                   *)
LEMMA RollingFacts ==
    ASSUME DBInv, rolling # NoTarget
    PROVE  /\ mode \in {"up", "reconcile"} /\ Safe = rolling
           /\ rolling \in Pos /\ rolling[1] \in Nat /\ rolling[2] \in Nat
           /\ OnDisk(files, rolling) /\ rolling[1] <= wc.file
           /\ tx.stage \in {"none", "rollback"}
           /\ files \in Files /\ wc.file \in Nat
<1>1. rolling \in Pos /\ files \in Files /\ wc.file \in Nat
  BY DEF DBInv, TypesOK
<1>2. mode \in {"up", "reconcile"}
  BY DEF DBInv, TypesOK, CursorOK
<1>3. tx.stage \in {"none", "rollback"}
  BY DEF DBInv, TypesOK, CursorOK
<1> QED
  BY <1>1, <1>2, <1>3, PosFacts DEF DBInv, CursorOK, Safe

(* The end of handleRollback, however it ends: the cursor is at the target,*)
(* and what is behind the target may be there still.                       *)
LEMMA RollbackEnds ==
    ASSUME DBInv, rolling # NoTarget, NEW open \in BOOLEAN, EndRollback(open),
           UNCHANGED <<lru, metaVars, rd>>, files' \in Files, SameBelow(files, files', rolling),
           synced' \in Seq(Nat), Len(synced') = Len(files'),
           WriteFileFree \/ open = wc.open \/ open = TRUE
    PROVE  DBInv'
<1>1. /\ mode \in {"up", "reconcile"} /\ Safe = rolling
      /\ rolling \in Pos /\ rolling[1] \in Nat /\ rolling[2] \in Nat /\ OnDisk(files, rolling)
      /\ files \in Files
  BY RollingFacts
<1>2. OnDisk(files', rolling)
  BY <1>1, KeptOnDisk
<1>3. CursorFits(files', rolling[1], rolling[2]) /\ rolling[2] <= maxBlockFileSize
  BY <1>1, <1>2, DiskFacts
<1>4. wc' = [file |-> rolling[1], off |-> rolling[2], open |-> open]
  BY DEF EndRollback, Reposition
<1>5. /\ wc' \in [file : Nat, off : 0 .. maxBlockFileSize, open : BOOLEAN]
      /\ wc'.file = rolling[1] /\ wc'.off = rolling[2] /\ wc'.open = open
  BY <1>1, <1>3, <1>4, Sizes
<1>6. rolling' = NoTarget /\ tx' = NoTx /\ mode' = "up"
  BY DEF EndRollback
<1>7. TxOK' /\ tx'.stage = "none"
  BY <1>6, NoTxIsOK
<1>8. Cursor' = rolling
  BY <1>1, <1>5, PosFacts DEF Cursor
<1>9. Safe' = rolling
  BY <1>6, <1>7, <1>8 DEF Safe
<1>10. TypesOK'
  BY <1>5, <1>6 DEF DBInv, TypesOK, metaVars
<1>11. CursorOK'
  BY <1>2, <1>3, <1>5, <1>6, <1>7, <1>8 DEF CursorOK
<1>12. AtOrBefore(rolling, rolling)
  BY <1>1, SameItself
<1> QED
  BY <1>1, <1>5, <1>7, <1>9, <1>10, <1>11, <1>12, StepKeeps

(* A rollback to where the cursor is.                                      *)
LEMMA RollbackNothingKeeps ==
    ASSUME DBInv, RollbackNothing
    PROVE  DBInv'
<1>1. rolling # NoTarget
  BY DEF RollbackNothing, NoTarget
<1>2. rolling \in Pos /\ files \in Files
  BY <1>1, RollingFacts
<1>3. wc.open \in BOOLEAN /\ synced \in Seq(Nat) /\ Len(synced) = Len(files)
  BY DEF DBInv, TypesOK
<1>4. EndRollback(wc.open) /\ UNCHANGED <<lru, metaVars, rd, files, synced>>
  BY DEF RollbackNothing
<1>5. SameBelow(files, files', rolling)
  BY <1>2, <1>4, SameItself
<1>6. files' \in Files /\ synced' \in Seq(Nat) /\ Len(synced') = Len(files')
  BY <1>2, <1>3, <1>4
<1> QED
  BY <1>1, <1>3, <1>4, <1>5, <1>6, RollbackEnds

(* A file behind the target is deleted, or stays there for good.           *)
LEMMA DeleteFileKeeps ==
    ASSUME DBInv, DeleteFile
    PROVE  DBInv'
<1>1. rolling # NoTarget /\ wc.file > rolling[1] /\ WriteFileFree /\ UNCHANGED <<lru, metaVars, rd>>
  BY DEF DeleteFile
<1>2. /\ mode \in {"up", "reconcile"} /\ Safe = rolling
      /\ rolling \in Pos /\ rolling[1] \in Nat /\ rolling[2] \in Nat /\ OnDisk(files, rolling)
      /\ tx.stage \in {"none", "rollback"}
      /\ files \in Files /\ wc.file \in Nat
  BY <1>1, RollingFacts
<1>3. synced \in Seq(Nat) /\ Len(synced) = Len(files) /\ Len(files) \in Nat
      /\ wc \in [file : Nat, off : 0 .. maxBlockFileSize, open : BOOLEAN]
  BY <1>2, FileFacts DEF DBInv, TypesOK
<1>4. AtOrBefore(rolling, rolling) /\ SameBelow(files, files, rolling)
  BY <1>2, SameItself
<1>5. CASE /\ IF wc.file + 1 = Len(files)
              THEN files' = Front(files) /\ synced' = Front(synced)
              ELSE UNCHANGED <<files, synced>>
           /\ wc' = [wc EXCEPT !.file = @ - 1, !.open = FALSE]
           /\ UNCHANGED <<tx, rolling, mode, faults>>
  <2>1. files' \in Files /\ SameBelow(files, files', rolling)
        /\ synced' \in Seq(Nat) /\ Len(synced') = Len(files')
    <3>1. CASE wc.file + 1 = Len(files)
      <4>1. rolling[1] + 1 < Len(files)
        BY <1>1, <1>2, <3>1
      <4>2. /\ Front(files) \in Files /\ Len(Front(files)) = Len(files) - 1
            /\ SameBelow(files, Front(files), rolling)
        BY <1>2, <4>1, FileDeleted
      <4>3. Len(synced) >= 1 /\ Len(synced) \in Nat
        BY <1>2, <1>3, <3>1
      <4>4. Front(synced) \in Seq(Nat) /\ Len(Front(synced)) = Len(synced) - 1
        BY <1>3, <4>3 DEF Front
      <4> QED
        BY <1>3, <1>5, <3>1, <4>2, <4>4
    <3>2. CASE wc.file + 1 # Len(files)
      BY <1>2, <1>3, <1>4, <1>5, <3>2
    <3> QED
      BY <3>1, <3>2
  <2>2. wc.file - 1 \in Nat /\ rolling[1] <= wc.file - 1
    BY <1>1, <1>2
  <2>3. /\ wc' \in [file : Nat, off : 0 .. maxBlockFileSize, open : BOOLEAN]
        /\ wc'.file = wc.file - 1
    <3>1. wc' = [wc EXCEPT !.file = wc.file - 1, !.open = FALSE]
      BY <1>5
    <3> QED
      BY <1>3, <2>2, <3>1
  <2>4. UNCHANGED <<tx, rolling, mode>> /\ View' = View
    BY <1>1, <1>5 DEF metaVars, View
  <2>5. TypesOK'
    BY <1>1, <2>1, <2>3, <2>4 DEF DBInv, TypesOK, metaVars
  <2>6. OnDisk(files', rolling)
    BY <1>2, <2>1, KeptOnDisk
  <2>7. TxOK'
    BY <1>2, <2>4, <2>6 DEF DBInv, TxOK, Writing
  <2>8. CursorOK'
    BY <1>1, <1>2, <2>2, <2>3, <2>4, <2>6 DEF DBInv, CursorOK, metaVars
  <2>9. Safe' = rolling
    BY <1>1, <1>2, <2>4 DEF Safe
  <2> QED
    BY <1>1, <1>2, <1>4, <2>1, <2>5, <2>7, <2>8, <2>9, StepKeeps
<1>6. CASE EndRollback(FALSE) /\ UNCHANGED <<files, synced>>
  <2>1. files' \in Files /\ synced' \in Seq(Nat) /\ Len(synced') = Len(files')
        /\ SameBelow(files, files', rolling) /\ FALSE \in BOOLEAN
    BY <1>2, <1>3, <1>4, <1>6
  <2> QED
    BY <1>1, <1>6, <2>1, RollbackEnds
<1> QED
  BY <1>5, <1>6 DEF DeleteFile

(* The file of the target is cut at the target, or stays as it is.         *)
LEMMA TruncateKeeps ==
    ASSUME DBInv, Truncate
    PROVE  DBInv'
<1>1. rolling # NoTarget /\ wc.file = rolling[1] /\ UNCHANGED <<lru, metaVars, rd>> /\ EndRollback(TRUE)
  BY DEF Truncate
<1>2. /\ rolling \in Pos /\ rolling[1] \in Nat /\ rolling[2] \in Nat /\ OnDisk(files, rolling)
      /\ files \in Files
  BY <1>1, RollingFacts
<1>3. synced \in Seq(Nat) /\ Len(synced) = Len(files)
  BY DEF DBInv, TypesOK
<1>4. rolling[1] \in 0..Len(files)
  BY <1>2, DiskFacts
<1> DEFINE gs == WithFile(files, rolling[1])
           ss == WithSync(synced, files, rolling[1])
<1>5. gs \in Files /\ SameBelow(files, gs, rolling)
  BY <1>2, <1>4, FileCreated
<1>6. ss \in Seq(Nat) /\ Len(ss) = Len(gs)
  BY <1>2, <1>3, <1>4, SyncFacts
<1>7. \/ /\ files' = [gs EXCEPT ![rolling[1] + 1] = Resize(@, rolling[2])]
         /\ synced' = [ss EXCEPT ![rolling[1] + 1] = rolling[2]]
      \/ files' = gs /\ synced' = ss
  BY <1>1 DEF Truncate, WithFile, WithSync
<1>8. /\ [gs EXCEPT ![rolling[1] + 1] = Resize(@, rolling[2])] \in Files
      /\ Len([gs EXCEPT ![rolling[1] + 1] = Resize(@, rolling[2])]) = Len(gs)
      /\ SameBelow(files, [gs EXCEPT ![rolling[1] + 1] = Resize(@, rolling[2])], rolling)
  BY <1>2, FileTruncated
<1> HIDE DEF gs, ss
<1>9. /\ [ss EXCEPT ![rolling[1] + 1] = rolling[2]] \in Seq(Nat)
      /\ Len([ss EXCEPT ![rolling[1] + 1] = rolling[2]]) = Len(ss)
  BY <1>2, <1>6, EntryReplaced
<1>10. /\ files' \in Files /\ SameBelow(files, files', rolling)
       /\ synced' \in Seq(Nat) /\ Len(synced') = Len(files')
  BY <1>5, <1>6, <1>7, <1>8, <1>9
<1>11. TRUE \in BOOLEAN /\ TRUE = TRUE
  OBVIOUS
<1> QED
  BY <1>1, <1>10, <1>11, RollbackEnds

-----------------------------------------------------------------------------
(* A transaction becomes visible, and the cache goes to leveldb.           *)

(* Views with the same rows list the same blocks.                          *)
LEMMA ListsSame ==
    ASSUME NEW fs, NEW p, NEW v, NEW w, \A k \in MetaKeys : v[k] = w[k], ListsBelow(fs, v, p)
    PROVE  ListsBelow(fs, w, p)
  BY Sizes DEF ListsBelow

(* A step that changes the metadata and not the files.                     *)
LEMMA MetaStepKeeps ==
    ASSUME DBInv, UNCHANGED <<files, synced, wc, lru, rd, rolling, mode>>,
           tx.stage \in Writing, tx.stage = "write" => tx.blocks = <<>>,
           tx'.stage \notin {"write", "rollback"}, TxOK', MetaOK',
           DOMAIN ldb' = MetaKeys, DOMAIN cachedKeys' \subseteq MetaKeys,
           DOMAIN cachedKeys' \cap cachedRemove' = {}
    PROVE  DBInv'
<1>1. mode = "up" /\ rolling = NoTarget
  BY Working DEF Writing
<1>2. TypesOK'
  BY DEF DBInv, TypesOK
<1>3. CursorOK'
  BY <1>1 DEF DBInv, CursorOK, Cursor
<1>4. Safe' = Cursor /\ Safe \in Pos /\ Cursor \in Pos /\ files \in Files
  BY <1>1, SafeIsPosition DEF Safe, Cursor, DBInv, TypesOK
<1>5. AtOrBefore(Safe, Cursor)
  BY <1>1, <1>4, Working, SameItself DEF DBInv, TxOK
<1>6. ASSUME NEW r \in Readers PROVE ReadOK(rd[r], files, Cursor, wc.open, lru)
  <2>1. ReadOK(rd[r], files, Safe, wc.open, lru) /\ SameBelow(files, files, Safe)
    BY <1>4, SameItself DEF DBInv, ReadsOK
  <2> QED
    BY <1>4, <1>5, <2>1, ReadMoves
<1>7. ReadsOK'
  BY <1>4, <1>6 DEF DBInv, ReadsOK
<1> QED
  BY <1>2, <1>3, <1>7 DEF DBInv

(* Where the metadata are while a transaction that has written its blocks  *)
(* ends.                                                                   *)
LEMMA EndingFacts ==
    ASSUME DBInv, tx.stage \in Writing, tx.stage = "write" => tx.blocks = <<>>
    PROVE  /\ mode = "up" /\ rolling = NoTarget
           /\ ldb["writeloc"] \in Pos /\ View["writeloc"] \in Pos /\ Cursor \in Pos
           /\ OnDisk(files, ldb["writeloc"]) /\ OnDisk(files, View["writeloc"]) /\ OnDisk(files, Cursor)
           /\ AtOrBefore(ldb["writeloc"], View["writeloc"]) /\ AtOrBefore(View["writeloc"], Cursor)
           /\ AtOrBefore(ldb["writeloc"], Cursor) /\ AtOrBefore(Cursor, Cursor)
           /\ AtOrBefore(View["writeloc"], View["writeloc"])
           /\ ListsBelow(files, ldb, ldb["writeloc"]) /\ ListsBelow(files, View, View["writeloc"])
           /\ ListsBelow(files, View, Cursor) /\ ListsBelow(files, ldb, Cursor)
           /\ KeysBelow(files, tx.keys, Cursor)
<1> DEFINE l == ldb["writeloc"]
           v == View["writeloc"]
<1>1. mode = "up" /\ rolling = NoTarget
  BY Working DEF Writing
<1>2. /\ l \in Pos /\ OnDisk(files, l) /\ v \in Pos /\ OnDisk(files, v)
      /\ AtOrBefore(l, v) /\ AtOrBefore(v, Safe)
      /\ ListsBelow(files, ldb, l) /\ ListsBelow(files, View, v)
  BY DEF DBInv, MetaOK
<1>3. Safe \in Pos /\ Cursor \in Pos /\ files \in Files
  BY SafeIsPosition DEF DBInv, TypesOK
<1>4. AtOrBefore(Safe, Cursor)
  BY <1>1, <1>3, Working, SameItself DEF DBInv, TxOK
<1>5. OnDisk(files, Cursor) /\ KeysBelow(files, tx.keys, Cursor)
  BY <1>1 DEF DBInv, CursorOK, TxOK
<1> HIDE DEF l, v
<1>6. AtOrBefore(v, Cursor)
  BY <1>2, <1>3, <1>4, OrderMoves
<1>7. AtOrBefore(l, Cursor)
  BY <1>2, <1>3, <1>6, OrderMoves
<1>8. AtOrBefore(v, v) /\ AtOrBefore(Cursor, Cursor)
  BY <1>2, <1>3, SameItself
<1>9. ListsBelow(files, View, Cursor) /\ ListsBelow(files, ldb, Cursor)
  BY <1>2, <1>3, <1>6, <1>7, OrderMoves
<1> QED
  BY <1>1, <1>2, <1>3, <1>5, <1>6, <1>7, <1>8, <1>9 DEF l, v

(* What CommitToCache makes visible.                                       *)
LEMMA CommittedView ==
    ASSUME CommitToCache, DOMAIN cachedKeys \cap cachedRemove = {},
           NEW t, t = WriteRow, DOMAIN t.keys \cap t.remove = {}
    PROVE  /\ \A k \in MetaKeys : View'[k] = Layer(View, t.keys, t.remove)[k]
           /\ DOMAIN cachedKeys' = (DOMAIN cachedKeys \cup DOMAIN t.keys) \ t.remove
           /\ DOMAIN cachedKeys' \cap cachedRemove' = {}
<1>1. /\ cachedKeys' = [k \in (DOMAIN cachedKeys \cup DOMAIN t.keys) \ t.remove |->
                          IF k \in DOMAIN t.keys THEN t.keys[k] ELSE cachedKeys[k]]
      /\ cachedRemove' = (cachedRemove \ DOMAIN t.keys) \cup t.remove
      /\ ldb' = ldb
  BY DEF CommitToCache, RemovedAfter
<1>2. /\ DOMAIN cachedKeys' \cap cachedRemove' = {}
      /\ DOMAIN cachedKeys' = (DOMAIN cachedKeys \cup DOMAIN t.keys) \ t.remove
      /\ \A k \in MetaKeys : Layer(ldb, cachedKeys', cachedRemove')[k]
                             = Layer(Layer(ldb, cachedKeys, cachedRemove), t.keys, t.remove)[k]
  <2>1. PICK keys, remove : keys = t.keys /\ remove = t.remove
    OBVIOUS
  <2>2. PICK below, ck, cr : below = ldb /\ ck = cachedKeys /\ cr = cachedRemove
    OBVIOUS
  <2>3. PICK newKeys, newRemove : newKeys = cachedKeys' /\ newRemove = cachedRemove'
    OBVIOUS
  <2>4. /\ DOMAIN keys \cap remove = {} /\ DOMAIN ck \cap cr = {}
        /\ newRemove = (cr \ DOMAIN keys) \cup remove
    BY <1>1, <2>1, <2>2, <2>3
  <2>5. newKeys = [k \in (DOMAIN ck \cup DOMAIN keys) \ remove |->
                     IF k \in DOMAIN keys THEN keys[k] ELSE ck[k]]
    BY <1>1, <2>1, <2>2, <2>3
  <2>6. /\ DOMAIN newKeys = (DOMAIN ck \cup DOMAIN keys) \ remove
        /\ \A k \in DOMAIN newKeys : newKeys[k] = IF k \in DOMAIN keys THEN keys[k] ELSE ck[k]
    BY <2>5
  <2>7. /\ DOMAIN newKeys \cap newRemove = {}
        /\ \A k \in MetaKeys :
              Layer(below, newKeys, newRemove)[k] = Layer(Layer(below, ck, cr), keys, remove)[k]
    BY <2>4, <2>6 DEF Layer
  <2> QED
    BY <2>1, <2>2, <2>3, <2>6, <2>7
<1>3. View = Layer(ldb, cachedKeys, cachedRemove) /\ View' = Layer(ldb, cachedKeys', cachedRemove')
  BY <1>1 DEF View
<1> QED
  BY <1>2, <1>3

(* What the transaction wrote is listed, and the row of the cursor with    *)
(* it.                                                                     *)
LEMMA CommitToCacheKeeps ==
    ASSUME DBInv, CommitToCache
    PROVE  DBInv'
<1>1. Written /\ tx.stage = "write" /\ tx.blocks = <<>> /\ tx' = NoTx
      /\ UNCHANGED <<files, synced, wc, lru, ldb, rd, rolling, mode>>
  BY DEF CommitToCache, Written, fileVars
<1>2. PICK t : t = WriteRow
  OBVIOUS
<1>3. /\ t.remove = tx.remove /\ DOMAIN t.keys = DOMAIN tx.keys \cup {"writeloc"}
      /\ t.keys["writeloc"] = Cursor /\ KeysBelow(files, t.keys, Cursor)
  BY <1>1, <1>2, RowWritten
<1>4. PICK w : w = Layer(View, t.keys, t.remove)
  OBVIOUS
<1>5. /\ \A k \in MetaKeys : View'[k] = w[k]
      /\ DOMAIN cachedKeys' \subseteq MetaKeys /\ DOMAIN cachedKeys' \cap cachedRemove' = {}
  <2>1. /\ tx.remove \subseteq {"extra"} /\ DOMAIN tx.keys \cap tx.remove = {}
        /\ DOMAIN tx.keys \subseteq MetaKeys
        /\ DOMAIN cachedKeys \subseteq MetaKeys /\ DOMAIN cachedKeys \cap cachedRemove = {}
    BY DEF DBInv, TxOK, TypesOK
  <2>2. DOMAIN t.keys \cap t.remove = {} /\ DOMAIN t.keys \subseteq MetaKeys
    BY <1>3, <2>1, Sizes
  <2>3. /\ \A k \in MetaKeys : View'[k] = w[k]
        /\ DOMAIN cachedKeys' = (DOMAIN cachedKeys \cup DOMAIN t.keys) \ t.remove
        /\ DOMAIN cachedKeys' \cap cachedRemove' = {}
    BY <1>2, <1>4, <2>1, <2>2, CommittedView
  <2> QED
    BY <2>1, <2>2, <2>3
<1>6. /\ ldb["writeloc"] \in Pos /\ OnDisk(files, ldb["writeloc"]) /\ Cursor \in Pos
      /\ OnDisk(files, Cursor) /\ AtOrBefore(ldb["writeloc"], Cursor) /\ AtOrBefore(Cursor, Cursor)
      /\ ListsBelow(files, ldb, ldb["writeloc"]) /\ ListsBelow(files, View, Cursor)
      /\ mode = "up" /\ rolling = NoTarget
  BY <1>1, EndingFacts DEF Writing
<1>7. ListsBelow(files, w, Cursor)
  BY <1>3, <1>4, <1>6, LayerLists DEF KeysBelow
<1>8. ListsBelow(files, View', Cursor)
  BY <1>5, <1>7, ListsSame
<1>9. View'["writeloc"] = Cursor
  <2>1. w["writeloc"] = Cursor
    <3>1. "writeloc" \notin t.remove
      BY <1>3 DEF DBInv, TxOK
    <3> QED
      BY <1>3, <1>4, <3>1, LayerRow, Sizes
  <2> QED
    BY <1>5, <2>1, Sizes
<1>10. TxOK' /\ tx'.stage = "none"
  BY <1>1, NoTxIsOK
<1>11. Safe' = Cursor
  BY <1>1, <1>6, <1>10 DEF Safe, Cursor
<1>12. MetaOK'
  BY <1>1, <1>6, <1>8, <1>9, <1>11 DEF MetaOK
<1>13. DOMAIN ldb' = MetaKeys
  BY <1>1 DEF DBInv, TypesOK
<1> QED
  BY <1>1, <1>5, <1>10, <1>12, <1>13, MetaStepKeeps DEF Writing

(* Everything the cache shows is in leveldb, and still seen as before.     *)
LEMMA FlushView ==
    ASSUME FlushToDB
    PROVE  View' = View /\ ldb' = View
<1>1. ldb' = View /\ UNCHANGED <<cachedKeys, cachedRemove>>
  BY DEF FlushToDB
<1>2. View' = Layer(View, cachedKeys, cachedRemove)
  BY <1>1 DEF View
<1>3. \A k \in MetaKeys : View[k] = IF k \in cachedRemove THEN nil
                                    ELSE IF k \in DOMAIN cachedKeys THEN cachedKeys[k] ELSE ldb[k]
  BY DEF View, Layer
<1>4. View = [k \in MetaKeys |-> View[k]]
  BY DEF View, Layer
<1>5. Layer(View, cachedKeys, cachedRemove) = [k \in MetaKeys |-> View[k]]
  BY <1>3 DEF Layer
<1> QED
  BY <1>1, <1>2, <1>4, <1>5

(* leveldb lists what the cache showed.                                    *)
LEMMA FlushKeeps ==
    ASSUME DBInv, FlushToDB
    PROVE  DBInv'
<1>1. tx.stage = "flush" /\ tx' = [tx EXCEPT !.stage = "clear"]
      /\ UNCHANGED <<files, synced, wc, lru, cachedKeys, cachedRemove, rd, rolling, mode>>
  BY DEF FlushToDB, fileVars
<1>2. View' = View /\ ldb' = View
  BY FlushView
<1>3. /\ mode = "up" /\ rolling = NoTarget /\ View["writeloc"] \in Pos /\ OnDisk(files, View["writeloc"])
      /\ AtOrBefore(View["writeloc"], Cursor) /\ AtOrBefore(View["writeloc"], View["writeloc"])
      /\ ListsBelow(files, View, View["writeloc"])
  BY <1>1, EndingFacts DEF Writing
<1>4. /\ DOMAIN tx' = TxFields /\ tx'.stage = "clear" /\ tx'.blocks = tx.blocks
      /\ tx'.keys = tx.keys /\ tx'.remove = tx.remove
  BY <1>1 DEF DBInv, TxOK, TxFields
<1>5. Safe' = Cursor /\ Cursor' = Cursor
  BY <1>1, <1>3, <1>4 DEF Safe, Cursor
<1>6. TxOK'
  BY <1>1, <1>2, <1>4, <1>5 DEF DBInv, TxOK, Writing
<1>7. MetaOK'
  BY <1>1, <1>2, <1>3, <1>5 DEF MetaOK
<1>8. DOMAIN ldb' = MetaKeys
  BY <1>2, LayerRow DEF View
<1>9. DOMAIN cachedKeys' \subseteq MetaKeys /\ DOMAIN cachedKeys' \cap cachedRemove' = {}
  BY <1>1 DEF DBInv, TypesOK
<1> QED
  BY <1>1, <1>4, <1>6, <1>7, <1>8, <1>9, MetaStepKeeps DEF Writing

(* Nothing changes for anyone when the cache is emptied after its flush.   *)
LEMMA ClearView ==
    ASSUME ClearCache, ldb = View
    PROVE  View' = View /\ ldb' = ldb /\ DOMAIN cachedKeys' = {} /\ cachedRemove' = {}
<1>1. ldb' = ldb /\ ldb = View /\ DOMAIN cachedKeys' = {} /\ cachedRemove' = {}
  BY DEF ClearCache, NoKeys
<1>2. View' = Layer(View, cachedKeys', cachedRemove')
  BY <1>1 DEF View
<1>3. Layer(View, cachedKeys', cachedRemove') = [k \in MetaKeys |-> View[k]]
  BY <1>1 DEF Layer
<1>4. View = [k \in MetaKeys |-> View[k]]
  BY DEF View, Layer
<1> QED
  BY <1>1, <1>2, <1>3, <1>4

(* The flushed cache is emptied.                                           *)
LEMMA ClearKeeps ==
    ASSUME DBInv, ClearCache
    PROVE  DBInv'
<1>1. tx.stage = "clear" /\ tx' = [tx EXCEPT !.stage = "through"]
      /\ UNCHANGED <<files, synced, wc, lru, ldb, rd, rolling, mode>>
  BY DEF ClearCache, fileVars
<1>2. View' = View /\ DOMAIN cachedKeys' = {} /\ cachedRemove' = {}
  BY <1>1, ClearView DEF DBInv, TxOK
<1>3. mode = "up" /\ rolling = NoTarget /\ AtOrBefore(View["writeloc"], Cursor)
  BY <1>1, EndingFacts DEF Writing
<1>4. /\ DOMAIN tx' = TxFields /\ tx'.stage = "through" /\ tx'.blocks = tx.blocks
      /\ tx'.keys = tx.keys /\ tx'.remove = tx.remove
  BY <1>1 DEF DBInv, TxOK, TxFields
<1>5. Safe' = Cursor /\ Cursor' = Cursor
  BY <1>1, <1>3, <1>4 DEF Safe, Cursor
<1>6. TxOK'
  BY <1>1, <1>2, <1>4, <1>5 DEF DBInv, TxOK, Writing
<1>7. MetaOK'
  BY <1>1, <1>2, <1>3, <1>5 DEF DBInv, MetaOK
<1>8. DOMAIN ldb' = MetaKeys
  BY <1>1 DEF DBInv, TypesOK
<1> QED
  BY <1>1, <1>2, <1>4, <1>6, <1>7, <1>8, MetaStepKeeps DEF Writing

(* What WriteThrough makes visible is in leveldb at once.                  *)
LEMMA ThroughView ==
    ASSUME WriteThrough, DOMAIN cachedKeys = {}, cachedRemove = {}
    PROVE  /\ \A k \in MetaKeys : View[k] = ldb[k] /\ View'[k] = ldb'[k]
           /\ ldb' = Layer(ldb, tx.keys, tx.remove)
           /\ UNCHANGED <<cachedKeys, cachedRemove>>
<1>1. /\ DOMAIN cachedKeys = {} /\ cachedRemove = {} /\ UNCHANGED <<cachedKeys, cachedRemove>>
      /\ ldb' = Layer(ldb, tx.keys, tx.remove)
  BY DEF WriteThrough
<1>2. View = Layer(ldb, cachedKeys, cachedRemove) /\ View' = Layer(ldb', cachedKeys, cachedRemove)
  BY <1>1 DEF View
<1> QED
  BY <1>1, <1>2, LayerRow

(* What the transaction wrote is listed in leveldb.                        *)
LEMMA ThroughKeeps ==
    ASSUME DBInv, WriteThrough
    PROVE  DBInv'
<1>1. tx.stage = "through" /\ tx' = NoTx /\ UNCHANGED <<files, synced, wc, lru, rd, rolling, mode>>
  BY DEF WriteThrough, fileVars
<1>2. /\ \A k \in MetaKeys : View'[k] = ldb'[k]
      /\ ldb' = Layer(ldb, tx.keys, tx.remove) /\ UNCHANGED <<cachedKeys, cachedRemove>>
  BY <1>1, ThroughView DEF DBInv, TxOK
<1>3. /\ mode = "up" /\ rolling = NoTarget /\ Cursor \in Pos /\ OnDisk(files, Cursor)
      /\ AtOrBefore(Cursor, Cursor) /\ ListsBelow(files, ldb, Cursor) /\ KeysBelow(files, tx.keys, Cursor)
  BY <1>1, EndingFacts DEF Writing
<1>4. "writeloc" \in DOMAIN tx.keys /\ tx.keys["writeloc"] = Cursor /\ "writeloc" \notin tx.remove
  BY <1>1 DEF DBInv, TxOK, Writing
<1>5. ldb'["writeloc"] = Cursor /\ View'["writeloc"] = Cursor /\ DOMAIN ldb' = MetaKeys
  BY <1>2, <1>4, LayerRow, Sizes
<1>6. ListsBelow(files, ldb', Cursor)
  BY <1>2, <1>3, LayerLists DEF KeysBelow
<1>7. ListsBelow(files, View', Cursor)
  BY <1>2, <1>6, ListsSame
<1>8. TxOK' /\ tx'.stage = "none"
  BY <1>1, NoTxIsOK
<1>9. Safe' = Cursor
  BY <1>1, <1>3, <1>8 DEF Safe, Cursor
<1>10. MetaOK'
  BY <1>1, <1>3, <1>5, <1>6, <1>7, <1>9 DEF MetaOK
<1>11. DOMAIN cachedKeys' \subseteq MetaKeys /\ DOMAIN cachedKeys' \cap cachedRemove' = {}
  BY <1>2 DEF DBInv, TypesOK
<1> QED
  BY <1>1, <1>5, <1>8, <1>10, <1>11, MetaStepKeeps DEF Writing

-----------------------------------------------------------------------------
(* Readers.                                                                *)

(* A step of one reader, which may open and close files for reading, but   *)
(* closes none that another reader reads.                                  *)
LEMMA ReaderStepKeeps ==
    ASSUME DBInv, mode = "up", NEW r \in Readers, NEW read, rd' = [rd EXCEPT ![r] = read],
           UNCHANGED <<fileVars, metaVars, tx, rolling, mode>>, lru' \in Seq(Nat),
           ReadOK(read, files, Safe, wc.open, lru'),
           \A q \in Readers \ {r} : rd[q].stage = "reading" /\ rd[q].handle \in ToSet(lru)
                                       => rd[q].handle \in ToSet(lru')
    PROVE  DBInv'
<1>1. UNCHANGED <<files, synced, wc, ldb, cachedKeys, cachedRemove, tx, rolling, mode, View>>
  BY DEF fileVars, metaVars, View
<1>2. UNCHANGED <<Safe, Cursor>>
  BY <1>1 DEF Safe, Cursor
<1>3. TypesOK' /\ TxOK'
  BY <1>1, <1>2 DEF DBInv, TypesOK, TxOK
<1>4. MetaOK' /\ CursorOK'
  BY <1>1, <1>2 DEF DBInv, MetaOK, CursorOK
<1>5. files \in Files /\ Safe \in Pos
  BY SafeIsPosition DEF DBInv, TypesOK
<1>6. AtOrBefore(Safe, Safe) /\ SameBelow(files, files, Safe)
  BY <1>5, SameItself
<1>7. ASSUME NEW q \in Readers PROVE ReadOK(rd'[q], files, Safe, wc.open, lru')
  <2>1. CASE q = r
    BY <2>1 DEF DBInv, ReadsOK
  <2>2. CASE q # r
    <3>1. rd'[q] = rd[q] /\ ReadOK(rd[q], files, Safe, wc.open, lru)
      BY <2>2 DEF DBInv, ReadsOK
    <3>2. rd[q].stage = "reading" /\ rd[q].handle \in ToSet(lru) => rd[q].handle \in ToSet(lru')
      BY <2>2
    <3> QED
      BY <1>5, <1>6, <3>1, <3>2, ReadMoves
  <2> QED
    BY <2>1, <2>2
<1>8. ReadsOK'
  BY <1>1, <1>2, <1>7 DEF DBInv, ReadsOK
<1> QED
  BY <1>3, <1>4, <1>8 DEF DBInv

(* What a reader sees from leveldb, and what it sees with the cache.       *)
LEMMA ReaderViews ==
    ASSUME DBInv
    PROVE  /\ ListsBelow(files, ldb, Safe) /\ ListsBelow(files, View, Safe)
           /\ \A view : ListsBelow(files, view, Safe) =>
                 ListsBelow(files, Layer(view, cachedKeys, cachedRemove), Safe)
<1> DEFINE l == ldb["writeloc"]
           v == View["writeloc"]
<1>1. /\ l \in Pos /\ v \in Pos /\ AtOrBefore(l, v) /\ AtOrBefore(v, Safe)
      /\ ListsBelow(files, ldb, l) /\ ListsBelow(files, View, v) /\ Safe \in Pos
  BY SafeIsPosition DEF DBInv, MetaOK
<1> HIDE DEF l, v
<1>2. AtOrBefore(l, Safe)
  BY <1>1, OrderMoves
<1>3. ListsBelow(files, ldb, Safe) /\ ListsBelow(files, View, Safe)
  BY <1>1, <1>2, OrderMoves
<1>4. \A b \in (Blocks \cap DOMAIN cachedKeys) \ cachedRemove : View[b] = cachedKeys[b]
  BY Sizes DEF View, Layer
<1>5. \A b \in (Blocks \cap DOMAIN cachedKeys) \ cachedRemove : cachedKeys[b] # nil =>
          cachedKeys[b] \in Pos /\ WholeIn(files, b, cachedKeys[b]) /\ Below(b, cachedKeys[b], Safe)
  BY <1>3, <1>4 DEF ListsBelow
<1>6. ASSUME NEW view, ListsBelow(files, view, Safe)
      PROVE  ListsBelow(files, Layer(view, cachedKeys, cachedRemove), Safe)
  BY <1>5, <1>6, LayerLists
<1> QED
  BY <1>3, <1>6

(* A reader begins with what leveldb lists.                                *)
LEMMA SnapshotDBKeeps ==
    ASSUME DBInv, NEW r \in Readers, SnapshotDB(r)
    PROVE  DBInv'
<1>1. PICK read : read = [NoRead EXCEPT !.stage = "begin", !.view = ldb]
  OBVIOUS
<1>2. /\ mode = "up" /\ rd' = [rd EXCEPT ![r] = read]
      /\ UNCHANGED <<fileVars, lru, metaVars, tx, rolling, mode>>
  BY <1>1 DEF SnapshotDB
<1>3. /\ DOMAIN read = RdFields /\ read.stage = "begin" /\ read.view = ldb /\ read.good = TRUE
  BY <1>1 DEF NoRead, RdFields
<1>4. ListsBelow(files, ldb, Safe)
  BY ReaderViews
<1>5. lru' = lru /\ lru \in Seq(Nat)
  BY <1>2 DEF DBInv, TypesOK
<1>6. ReadOK(read, files, Safe, wc.open, lru')
  BY <1>3, <1>4 DEF ReadOK
<1> QED
  BY <1>2, <1>5, <1>6, ReaderStepKeeps

(* A read transaction that has begun: the database is up.                  *)
LEMMA ReaderFacts ==
    ASSUME DBInv, NEW r \in Readers, rd[r].stage # "idle"
    PROVE  /\ mode = "up" /\ ReadOK(rd[r], files, Safe, wc.open, lru) /\ DOMAIN rd = Readers
           /\ lru \in Seq(Nat)
  BY DEF DBInv, CursorOK, ReadsOK, TypesOK

(* It goes on with the cache, which may be a later one.                    *)
LEMMA SnapshotCacheKeeps ==
    ASSUME DBInv, NEW r \in Readers, SnapshotCache(r)
    PROVE  DBInv'
<1>1. PICK w : w = Layer(rd[r].view, cachedKeys, cachedRemove)
  OBVIOUS
<1>2. PICK read : read = [rd[r] EXCEPT !.stage = "open", !.view = w]
  OBVIOUS
<1>3. /\ mode = "up" /\ rd[r].stage = "begin" /\ DOMAIN rd = Readers /\ lru \in Seq(Nat)
      /\ ReadOK(rd[r], files, Safe, wc.open, lru)
  BY ReaderFacts DEF SnapshotCache
<1>4. rd' = [rd EXCEPT ![r] = read] /\ UNCHANGED <<fileVars, lru, metaVars, tx, rolling, mode>>
  BY <1>1, <1>2 DEF SnapshotCache
<1>5. /\ DOMAIN read = RdFields /\ read.stage = "open" /\ read.view = w /\ read.good = TRUE
  BY <1>2, <1>3 DEF ReadOK, RdFields
<1>6. ListsBelow(files, w, Safe)
  BY <1>1, <1>3, ReaderViews DEF ReadOK
<1>7. ReadOK(read, files, Safe, wc.open, lru')
  BY <1>5, <1>6 DEF ReadOK
<1>8. lru' = lru
  BY <1>4
<1> QED
  BY <1>3, <1>4, <1>7, <1>8, ReaderStepKeeps

(* A read transaction ends.                                                *)
LEMMA EndReadKeeps ==
    ASSUME DBInv, NEW r \in Readers, EndRead(r)
    PROVE  DBInv'
<1>1. PICK read : read = NoRead
  OBVIOUS
<1>2. rd' = [rd EXCEPT ![r] = read] /\ UNCHANGED <<fileVars, lru, metaVars, tx, rolling, mode>>
  BY <1>1 DEF EndRead
<1>3. mode = "up" /\ lru \in Seq(Nat)
  BY ReaderFacts DEF EndRead
<1>4. ReadOK(read, files, Safe, wc.open, lru')
  BY <1>1 DEF NoRead, ReadOK, RdFields
<1>5. lru' = lru
  BY <1>2
<1> QED
  BY <1>2, <1>3, <1>4, <1>5, ReaderStepKeeps

(* The list of open files: one is moved to the front, or added in front    *)
(* of all or of all but the last.                                          *)
LEMMA FileMoved ==
    ASSUME NEW s \in Seq(Nat), NEW i \in 1..Len(s)
    PROVE  /\ <<s[i]>> \o RemoveAt(s, i) \in Seq(Nat)
           /\ ToSet(s) \subseteq ToSet(<<s[i]>> \o RemoveAt(s, i))
<1> DEFINE a == SubSeq(s, 1, i - 1)
           b == SubSeq(s, i + 1, Len(s))
           t == <<s[i]>> \o (a \o b)
<1>1. Len(s) \in Nat /\ i \in Nat /\ i >= 1 /\ i <= Len(s) /\ s[i] \in Nat
  OBVIOUS
<1>2. /\ a \in Seq(Nat) /\ Len(a) = i - 1 /\ \A j \in 1..i - 1 : a[j] = s[j]
  BY <1>1
<1>3. /\ b \in Seq(Nat) /\ Len(b) = Len(s) - i /\ \A j \in 1..Len(s) - i : b[j] = s[i + j]
  BY <1>1
<1> HIDE DEF a, b
<1>4. /\ a \o b \in Seq(Nat) /\ Len(a \o b) = Len(s) - 1
      /\ \A j \in 1..i - 1 : (a \o b)[j] = s[j]
      /\ \A j \in i..Len(s) - 1 : (a \o b)[j] = b[j - (i - 1)]
  <2>1. /\ a \o b \in Seq(Nat) /\ Len(a \o b) = Len(a) + Len(b)
        /\ \A j \in 1..Len(a) : (a \o b)[j] = a[j]
        /\ \A j \in 1..Len(b) : (a \o b)[Len(a) + j] = b[j]
    <3>1. a \in Seq(Nat) /\ b \in Seq(Nat)
      BY <1>2, <1>3
    <3> QED
      BY <3>1, ConcatFacts
  <2>2. Len(a) = i - 1 /\ Len(a) + Len(b) = Len(s) - 1
    BY <1>1, <1>2, <1>3
  <2>3. \A j \in i..Len(s) - 1 : j - (i - 1) \in 1..Len(b) /\ Len(a) + (j - (i - 1)) = j
    BY <1>1, <1>2, <1>3
  <2> QED
    BY <1>2, <2>1, <2>2, <2>3
<1>5. PICK c \in Seq(Nat) : c = a \o b
  BY <1>4
<1>6. /\ t \in Seq(Nat) /\ Len(t) = Len(s) /\ t[1] = s[i]
      /\ \A j \in 1..Len(s) - 1 : t[j + 1] = c[j]
  <2>1. Len(c) = Len(s) - 1 /\ t = <<s[i]>> \o c
    BY <1>4, <1>5
  <2>2. <<s[i]>> \in Seq(Nat) /\ Len(<<s[i]>>) = 1 /\ <<s[i]>>[1] = s[i]
    BY <1>1
  <2> HIDE DEF t
  <2>3. PICK u \in Seq(Nat) : u = <<s[i]>>
    BY <2>2
  <2>4. /\ u \o c \in Seq(Nat) /\ Len(u \o c) = Len(u) + Len(c)
        /\ \A j \in 1..Len(u) : (u \o c)[j] = u[j]
        /\ \A j \in 1..Len(c) : (u \o c)[Len(u) + j] = c[j]
    BY ConcatFacts
  <2>5. t = u \o c /\ Len(u) = 1 /\ u[1] = s[i]
    BY <2>1, <2>2, <2>3
  <2>6. \A j \in 1..Len(s) - 1 : t[1 + j] = c[j]
    BY <2>1, <2>4, <2>5
  <2> QED
    BY <1>1, <2>1, <2>4, <2>5, <2>6
<1> HIDE DEF t
<1>7. \A j \in 1..Len(s) : \E m \in 1..Len(t) : t[m] = s[j]
  <2> SUFFICES ASSUME NEW j \in 1..Len(s) PROVE \E m \in 1..Len(t) : t[m] = s[j]
    OBVIOUS
  <2>1. CASE j = i
    BY <1>1, <1>6, <2>1
  <2>2. CASE j < i
    <3>1. j \in 1..i - 1 /\ j \in 1..Len(s) - 1 /\ j + 1 \in 1..Len(t)
      BY <1>1, <1>6, <2>2
    <3> QED
      BY <1>4, <1>5, <1>6, <3>1
  <2>3. CASE j > i
    <3>1. j - 1 \in i..Len(s) - 1 /\ j - 1 \in 1..Len(s) - 1 /\ (j - 1) + 1 = j
          /\ j \in 1..Len(t) /\ j - i \in 1..Len(s) - i /\ (j - 1) - (i - 1) = j - i /\ i + (j - i) = j
      BY <1>1, <1>6, <2>3
    <3>2. t[j] = c[j - 1] /\ c[j - 1] = b[j - i] /\ b[j - i] = s[j]
      BY <1>3, <1>4, <1>5, <1>6, <3>1
    <3> QED
      BY <3>1, <3>2
  <2> QED
    BY <1>1, <2>1, <2>2, <2>3
<1>8. ToSet(s) \subseteq ToSet(t)
  <2>1. DOMAIN s = 1..Len(s) /\ DOMAIN t = 1..Len(t)
    BY <1>6
  <2> QED
    BY <1>7, <2>1 DEF ToSet
<1>9. t = <<s[i]>> \o RemoveAt(s, i)
  BY DEF RemoveAt, t, a, b
<1> QED
  BY <1>6, <1>8, <1>9

(* A file in front of the list of open files.                              *)
LEMMA FileOpened ==
    ASSUME NEW s \in Seq(Nat), NEW n \in Nat
    PROVE  /\ <<n>> \o s \in Seq(Nat) /\ n \in ToSet(<<n>> \o s)
           /\ ToSet(s) \subseteq ToSet(<<n>> \o s)
<1>1. /\ <<n>> \o s \in Seq(Nat) /\ Len(<<n>> \o s) = Len(s) + 1 /\ (<<n>> \o s)[1] = n
      /\ \A j \in 1..Len(s) : (<<n>> \o s)[j + 1] = s[j]
      /\ Len(s) \in Nat
  OBVIOUS
<1>2. PICK t : t = <<n>> \o s
  OBVIOUS
<1>3. \A j \in 1..Len(s) : j + 1 \in 1..Len(t) /\ t[j + 1] = s[j]
  BY <1>1, <1>2
<1>4. 1 \in 1..Len(t) /\ t[1] = n
  BY <1>1, <1>2
<1>5. ToSet(s) \subseteq ToSet(t) /\ n \in ToSet(t)
  <2>1. DOMAIN s = 1..Len(s) /\ DOMAIN t = 1..Len(t)
    BY <1>1, <1>2
  <2> QED
    BY <1>3, <1>4, <2>1 DEF ToSet
<1> QED
  BY <1>1, <1>2, <1>5

(* The list without its last file.                                         *)
LEMMA FileClosed ==
    ASSUME NEW s \in Seq(Nat), Len(s) >= 1
    PROVE  Front(s) \in Seq(Nat) /\ \A n \in ToSet(s) : n # Last(s) => n \in ToSet(Front(s))
<1>1. Len(s) \in Nat
  OBVIOUS
<1>2. PICK f : f = Front(s)
  OBVIOUS
<1>3. f \in Seq(Nat) /\ Len(f) = Len(s) - 1 /\ \A j \in 1..Len(s) - 1 : f[j] = s[j]
  <2>1. PICK m \in Nat : m = Len(s) - 1
    BY <1>1
  <2>2. f = SubSeq(s, 1, m) /\ m <= Len(s)
    BY <1>1, <1>2, <2>1 DEF Front
  <2>3. f \in Seq(Nat) /\ Len(f) = m /\ \A j \in 1..m : f[j] = s[j]
    BY <2>2
  <2> QED
    BY <2>1, <2>3
<1>4. ASSUME NEW n \in ToSet(s), n # Last(s) PROVE n \in ToSet(f)
  <2>1. PICK j \in 1..Len(s) : s[j] = n
    BY DEF ToSet
  <2>2. j # Len(s)
    BY <1>4, <2>1 DEF Last
  <2>3. j \in 1..Len(f) /\ f[j] = n
    BY <1>1, <1>3, <2>1, <2>2
  <2> QED
    BY <2>3 DEF ToSet
<1> QED
  BY <1>2, <1>3, <1>4

(* openFile has the file in the list, and none is gone that is in use.     *)
LEMMA OpenFileFacts ==
    ASSUME DBInv, NEW n \in Nat, n \notin ToSet(lru), EvictsFile(n) => ~InUse(Last(lru))
    PROVE  /\ openFile(n) \in Seq(Nat) /\ n \in ToSet(openFile(n))
           /\ \A q \in Readers : rd[q].stage = "reading" /\ rd[q].handle \in ToSet(lru)
                                    => rd[q].handle \in ToSet(openFile(n))
<1>1. lru \in Seq(Nat)
  BY DEF DBInv, TypesOK
<1>2. CASE Len(lru) >= maxOpenFiles
  <2>1. openFile(n) = <<n>> \o Front(lru)
    BY <1>2 DEF openFile
  <2>2. Len(lru) >= 1
    BY <1>1, <1>2, BlockDBConstants
  <2>3. Front(lru) \in Seq(Nat) /\ \A m \in ToSet(lru) : m # Last(lru) => m \in ToSet(Front(lru))
    BY <1>1, <2>2, FileClosed
  <2>4. /\ openFile(n) \in Seq(Nat) /\ n \in ToSet(openFile(n))
        /\ ToSet(Front(lru)) \subseteq ToSet(openFile(n))
    BY <2>1, <2>3, FileOpened
  <2>5. ~InUse(Last(lru))
    BY <1>2 DEF EvictsFile
  <2>6. \A q \in Readers : rd[q].stage = "reading" => rd[q].handle # Last(lru)
    BY <2>5 DEF InUse
  <2> QED
    BY <2>3, <2>4, <2>6
<1>3. CASE ~(Len(lru) >= maxOpenFiles)
  <2>1. openFile(n) = <<n>> \o lru
    BY <1>3 DEF openFile
  <2> QED
    BY <1>1, <2>1, FileOpened
<1> QED
  BY <1>2, <1>3

(* blockFile: the file of the read is open, and every file that another    *)
(* reader reads stays open.                                                *)
LEMMA BlockFileKeeps ==
    ASSUME DBInv, NEW r \in Readers, NEW b \in Blocks, blockFile(r, b)
    PROVE  DBInv'
<1>1. /\ mode = "up" /\ ReadOK(rd[r], files, Safe, wc.open, lru) /\ DOMAIN rd = Readers
      /\ lru \in Seq(Nat) /\ rd[r].stage = "open" /\ rd[r].view[b] # nil
  BY ReaderFacts DEF blockFile
<1>2. /\ DOMAIN rd[r] = RdFields /\ rd[r].good = TRUE /\ ListsBelow(files, rd[r].view, Safe)
      /\ rd[r].view[b] \in Pos
  BY <1>1 DEF ReadOK, ListsBelow
<1>3. PICK n \in Nat : n = rd[r].view[b][1]
  BY <1>2, PosFacts
<1>4. PICK write \in BOOLEAN : write = (n = wc.file /\ wc.open)
  OBVIOUS
<1>5. PICK h : h = IF write THEN -1 ELSE n
  OBVIOUS
<1>6. PICK read : read = [rd[r] EXCEPT !.stage = "reading", !.block = b, !.handle = h]
  OBVIOUS
<1>7. /\ rd' = [rd EXCEPT ![r] = read]
      /\ UNCHANGED <<fileVars, metaVars, tx, rolling, mode>>
      /\ ~write /\ EvictsFile(n) => ~InUse(Last(lru))
      /\ lru' = CASE write -> lru
                  [] ~write /\ n \in ToSet(lru) -> MoveToFront(n)
                  [] OTHER -> openFile(n)
  BY <1>3, <1>4, <1>5, <1>6 DEF blockFile
<1>8. /\ DOMAIN read = RdFields /\ read.stage = "reading" /\ read.view = rd[r].view
      /\ read.good = TRUE /\ read.block = b /\ read.handle = h
  BY <1>2, <1>6 DEF RdFields
<1>9. /\ lru' \in Seq(Nat) /\ (~write => n \in ToSet(lru'))
      /\ \A q \in Readers : rd[q].stage = "reading" /\ rd[q].handle \in ToSet(lru)
                               => rd[q].handle \in ToSet(lru')
  <2>1. CASE write
    BY <1>1, <1>7, <2>1
  <2>2. CASE ~write /\ n \in ToSet(lru)
    <3>1. PICK i : i = CHOOSE j \in DOMAIN lru : lru[j] = n
      OBVIOUS
    <3>2. \E j \in DOMAIN lru : lru[j] = n
      BY <1>1, <2>2 DEF ToSet
    <3>3. i \in 1..Len(lru) /\ lru[i] = n
      BY <1>1, <3>1, <3>2
    <3>4. lru' = <<lru[i]>> \o RemoveAt(lru, i)
      BY <1>7, <2>2, <3>1, <3>3 DEF MoveToFront
    <3>5. lru' \in Seq(Nat) /\ ToSet(lru) \subseteq ToSet(lru')
      BY <1>1, <3>3, <3>4, FileMoved
    <3> QED
      BY <2>2, <3>5
  <2>3. CASE ~write /\ n \notin ToSet(lru)
    <3>1. lru' = openFile(n)
      BY <1>7, <2>3
    <3> QED
      BY <1>7, <2>3, <3>1, OpenFileFacts
  <2> QED
    BY <2>1, <2>2, <2>3
<1>10. IF read.handle = -1 THEN wc.open = TRUE ELSE read.handle \in ToSet(lru')
  <2>1. CASE write
    <3>1. wc.open = TRUE /\ h = -1
      BY <1>4, <1>5, <2>1 DEF DBInv, TypesOK
    <3> QED
      BY <1>8, <3>1
  <2>2. CASE ~write
    BY <1>5, <1>8, <1>9, <2>2
  <2> QED
    BY <2>1, <2>2
<1>11. ReadOK(read, files, Safe, wc.open, lru')
  BY <1>1, <1>2, <1>8, <1>10 DEF ReadOK
<1> QED
  BY <1>1, <1>7, <1>9, <1>11, ReaderStepKeeps

(* A record that is whole passes its checksum.                             *)
LEMMA WholeIsGood ==
    ASSUME files \in Files, NEW b \in Blocks, NEW loc \in Pos, WholeIn(files, b, loc)
    PROVE  WholeAt(b, loc)
<1> DEFINE f == files[loc[1] + 1]
<1>1. /\ loc[1] \in Nat /\ loc[2] \in Nat /\ Size[b] \in Nat /\ loc[1] < Len(files)
      /\ loc[2] + Size[b] <= Len(f) /\ \A i \in 1..Size[b] : f[loc[2] + i] = <<b, i>>
  BY PosFacts, Sizes DEF WholeIn
<1>2. loc[1] + 1 \in 1..Len(files)
  BY <1>1, FileFacts
<1>3. f \in Seq(Cells) /\ Len(f) \in Nat
  BY <1>2, FileFacts
<1> HIDE DEF f
<1>4. PICK o \in Nat, s \in Nat : o = loc[2] /\ s = Size[b]
  BY <1>1
<1>5. PICK g : g = SubSeq(f, o + 1, o + s)
  OBVIOUS
<1>6. g \in Seq(Cells) /\ Len(g) = s /\ \A i \in 1..s : g[i] = f[o + i]
  <2>1. f \in Seq(Cells) /\ o + s <= Len(f) /\ Len(f) \in Nat
    BY <1>1, <1>3, <1>4
  <2>2. g \in Seq(Cells) /\ Len(g) = s
    BY <1>5, <2>1
  <2>3. \A i \in 1..s : g[i] = f[o + i]
    BY <1>5, <2>1
  <2> QED
    BY <2>2, <2>3
<1>7. \A i \in 1..s : g[i] = <<b, i>>
  BY <1>1, <1>4, <1>6
<1>8. g = Record(b)
  <2>1. g = [i \in 1..s |-> g[i]]
    BY <1>6
  <2>2. [i \in 1..s |-> g[i]] = [i \in 1..s |-> <<b, i>>]
    BY <1>7
  <2> QED
    BY <1>4, <2>1, <2>2 DEF Record
<1> QED
  BY <1>1, <1>4, <1>5, <1>8 DEF WholeAt, f

(* A read succeeds.                                                        *)
LEMMA ReadBlockKeeps ==
    ASSUME DBInv, NEW r \in Readers, readBlock(r)
    PROVE  DBInv'
<1>1. /\ mode = "up" /\ ReadOK(rd[r], files, Safe, wc.open, lru) /\ DOMAIN rd = Readers
      /\ lru \in Seq(Nat) /\ rd[r].stage = "reading" /\ files \in Files
  BY ReaderFacts DEF readBlock, DBInv, TypesOK
<1>2. PICK b \in Blocks : b = rd[r].block
  BY <1>1 DEF ReadOK
<1>3. PICK loc : loc = rd[r].view[b]
  OBVIOUS
<1>4. /\ rd[r].good = TRUE /\ ListsBelow(files, rd[r].view, Safe) /\ loc # nil
      /\ IF rd[r].handle = -1 THEN wc.open = TRUE ELSE rd[r].handle \in ToSet(lru)
  BY <1>1, <1>2, <1>3 DEF ReadOK
<1>5. WholeAt(b, loc)
  <2>1. loc \in Pos /\ WholeIn(files, b, loc)
    BY <1>3, <1>4 DEF ListsBelow
  <2> QED
    BY <1>1, <2>1, WholeIsGood
<1>6. PICK open : open = IF rd[r].handle = -1 THEN wc.open ELSE rd[r].handle \in ToSet(lru)
  OBVIOUS
<1>7. open
  BY <1>4, <1>6
<1>8. PICK v : v = rd[r].view
  OBVIOUS
<1>9. PICK g : g = (rd[r].good /\ open /\ WholeAt(b, loc))
  OBVIOUS
<1>10. g = TRUE
  BY <1>4, <1>5, <1>7, <1>9
<1>11. PICK read : read = [NoRead EXCEPT !.stage = "open", !.view = v, !.good = g]
  OBVIOUS
<1>12. /\ rd' = [rd EXCEPT ![r] = read] /\ UNCHANGED <<fileVars, lru, metaVars, tx, rolling, mode>>
  BY <1>2, <1>3, <1>6, <1>8, <1>9, <1>11 DEF readBlock
<1>13. /\ DOMAIN read = RdFields /\ read.stage = "open" /\ read.view = v /\ read.good = g
  BY <1>11 DEF NoRead, RdFields
<1>14. ReadOK(read, files, Safe, wc.open, lru')
  BY <1>4, <1>8, <1>10, <1>13 DEF ReadOK
<1>15. lru' = lru
  BY <1>12
<1> QED
  BY <1>1, <1>12, <1>14, <1>15, ReaderStepKeeps

-----------------------------------------------------------------------------
(* Stopping and starting.                                                  *)

(* Where the files end: nothing that is on disk is after it.               *)
LEMMA ScanFacts ==
    ASSUME files \in Files
    PROVE  /\ scanBlockFiles \in Pos /\ scanBlockFiles[2] <= maxBlockFileSize
           /\ OnDisk(files, scanBlockFiles)
           /\ \A p \in Pos : OnDisk(files, p) => ~IsAfter(p, scanBlockFiles)
<1>1. Len(files) \in Nat /\ maxBlockFileSize \in Nat
  BY FileFacts, Sizes
<1>2. CASE files = <<>>
  <2>1. scanBlockFiles = <<0, 0>> /\ Len(files) = 0
    BY <1>2 DEF scanBlockFiles
  <2>2. \A p \in Pos : OnDisk(files, p) => p = <<0, 0>>
    BY <2>1, PosFacts DEF OnDisk
  <2> QED
    BY <1>1, <2>1, <2>2 DEF Pos, OnDisk, IsAfter
<1>3. CASE files # <<>>
  <2>1. Len(files) \in 1..Len(files)
    BY <1>1, <1>3 DEF Files
  <2> DEFINE k == Len(files)
  <2>2. k \in 1..k /\ k - 1 \in Nat /\ k - 1 + 1 = k
    BY <1>1, <2>1
  <2>3. PICK n \in Nat, m \in Nat : /\ n + 1 = Len(files) /\ m = Len(files[n + 1])
                                   /\ m <= maxBlockFileSize /\ n = Len(files) - 1
    <3>1. Len(files[k]) \in Nat /\ Len(files[k]) <= maxBlockFileSize
      BY <2>1, FileFacts
    <3> HIDE DEF k
    <3>2. k - 1 \in Nat /\ k - 1 + 1 = k
      BY <2>2
    <3> QED
      BY <3>1, <3>2 DEF k
  <2>4. scanBlockFiles = <<n, m>>
    BY <1>3, <2>3 DEF scanBlockFiles, Last
  <2>5. ASSUME NEW p \in Pos, OnDisk(files, p) PROVE ~IsAfter(p, <<n, m>>)
    <3>1. p[1] \in Nat /\ p[2] \in Nat
      BY PosFacts
    <3>2. CASE p = <<0, 0>>
      <4>1. p[1] = 0 /\ p[2] = 0
        BY <3>2
      <4> QED
        BY <4>1 DEF IsAfter
    <3>3. CASE p[1] < Len(files) /\ p[2] <= Len(files[p[1] + 1])
      <4>1. p[1] <= n /\ (p[1] = n => p[2] <= m)
        BY <2>3, <3>1, <3>3
      <4> QED
        BY <3>1, <4>1 DEF IsAfter
    <3> QED
      BY <2>5, <3>2, <3>3 DEF OnDisk
  <2>6. OnDisk(files, <<n, m>>)
    BY <2>3 DEF OnDisk
  <2> QED
    BY <2>3, <2>4, <2>5, <2>6 DEF Pos
<1> QED
  BY <1>2, <1>3

(* What everyone sees when the cache is empty.                             *)
LEMMA EmptyCache ==
    ASSUME NEW below, NEW keys, NEW remove, DOMAIN keys = {}, remove = {},
           NEW view, view = Layer(below, keys, remove)
    PROVE  /\ \A k \in MetaKeys : view[k] = below[k]
           /\ \A fs, p : ListsBelow(fs, below, p) => ListsBelow(fs, view, p)
<1>1. \A k \in MetaKeys : view[k] = below[k]
  BY LayerRow
<1> QED
  BY <1>1, ListsSame

(* The database is closed, or the process has died: what is left are the   *)
(* files and leveldb.                                                      *)
LEMMA DownKeeps ==
    ASSUME DBInv, files' = files, synced' \in Seq(Nat), Len(synced') = Len(files),
           wc' = [wc EXCEPT !.open = FALSE], lru' = <<>>, DOMAIN ldb' = MetaKeys,
           cachedKeys' = NoKeys, cachedRemove' = {}, tx' = NoTx,
           DOMAIN rd' = Readers, \A r \in Readers : rd'[r] = NoRead,
           rolling' = NoTarget, mode' = "down",
           ldb'["writeloc"] \in Pos, OnDisk(files, ldb'["writeloc"]),
           ListsBelow(files, ldb', ldb'["writeloc"])
    PROVE  DBInv'
<1>1. files \in Files /\ wc \in [file : Nat, off : 0 .. maxBlockFileSize, open : BOOLEAN]
  BY DEF DBInv, TypesOK
<1>2. wc' \in [file : Nat, off : 0 .. maxBlockFileSize, open : BOOLEAN]
  BY <1>1
<1>3. DOMAIN cachedKeys' = {} /\ cachedRemove' = {}
  BY DEF NoKeys
<1>4. TypesOK'
  BY <1>1, <1>2, <1>3 DEF TypesOK
<1>5. TxOK' /\ tx'.stage = "none"
  BY NoTxIsOK
<1>6. \A r \in Readers : rd'[r].stage = "idle" /\ DOMAIN rd'[r] = RdFields
  BY DEF NoRead, RdFields
<1>7. CursorOK'
  BY <1>3, <1>5, <1>6 DEF CursorOK
<1>8. ReadsOK'
  BY <1>6 DEF ReadsOK, ReadOK
<1>9. Safe' = ldb'["writeloc"]
  BY DEF Safe
<1>10. /\ \A k \in MetaKeys : View'[k] = ldb'[k]
       /\ \A fs, p : ListsBelow(fs, ldb', p) => ListsBelow(fs, View', p)
  <2>1. PICK below, keys, remove, view : /\ below = ldb' /\ keys = cachedKeys' /\ remove = cachedRemove'
                                         /\ view = View'
    OBVIOUS
  <2>2. view = Layer(below, keys, remove) /\ DOMAIN keys = {} /\ remove = {}
    BY <1>3, <2>1 DEF View
  <2>3. /\ \A k \in MetaKeys : view[k] = below[k]
        /\ \A fs, p : ListsBelow(fs, below, p) => ListsBelow(fs, view, p)
    BY <2>2, EmptyCache
  <2> QED
    BY <2>1, <2>3
<1>11. View'["writeloc"] = ldb'["writeloc"]
  BY <1>10, Sizes
<1>12. AtOrBefore(ldb'["writeloc"], ldb'["writeloc"])
  BY <1>1, SameItself
<1>13. MetaOK'
  BY <1>9, <1>10, <1>11, <1>12 DEF MetaOK
<1> QED
  BY <1>4, <1>5, <1>7, <1>8, <1>13 DEF DBInv

(* Close: the cache is flushed first.                                      *)
LEMMA CloseKeeps ==
    ASSUME DBInv, Close
    PROVE  DBInv'
<1>1. /\ mode = "up" /\ tx = NoTx /\ \A r \in Readers : rd[r] = NoRead
      /\ synced' = SyncWriteFile(synced) /\ ldb' = View
      /\ cachedKeys' = NoKeys /\ cachedRemove' = {} /\ wc' = [wc EXCEPT !.open = FALSE]
      /\ lru' = <<>> /\ mode' = "down" /\ UNCHANGED <<files, tx, rd, rolling, faults>>
  BY DEF Close
<1>2. tx.stage = "none"
  BY <1>1 DEF NoTx
<1>3. rolling' = NoTarget
  BY <1>1, <1>2, Working
<1>4. synced' \in Seq(Nat) /\ Len(synced') = Len(files)
  BY <1>1, SyncIsType DEF DBInv, TypesOK
<1>5. DOMAIN rd' = Readers /\ \A r \in Readers : rd'[r] = NoRead
  BY <1>1 DEF DBInv, ReadsOK
<1>6. DOMAIN ldb' = MetaKeys
  BY <1>1, LayerRow DEF View
<1>7. /\ ldb'["writeloc"] \in Pos /\ OnDisk(files, ldb'["writeloc"])
      /\ ListsBelow(files, ldb', ldb'["writeloc"])
  BY <1>1 DEF DBInv, MetaOK
<1> QED
  BY <1>1, <1>3, <1>4, <1>5, <1>6, <1>7, DownKeeps

(* The process dies and the operating system goes on: the files keep what  *)
(* was written.                                                            *)
LEMMA DieKeeps ==
    ASSUME DBInv, ~PowerLoss, Die
    PROVE  DBInv'
<1>1. /\ files' = files /\ synced' = synced /\ ldb' = ldb
      /\ cachedKeys' = NoKeys /\ cachedRemove' = {} /\ wc' = [wc EXCEPT !.open = FALSE]
      /\ tx' = NoTx /\ DOMAIN rd' = Readers /\ (\A r \in Readers : rd'[r] = NoRead)
      /\ lru' = <<>> /\ rolling' = NoTarget /\ mode' = "down"
  BY DEF Die
<1>2. synced' \in Seq(Nat) /\ Len(synced') = Len(files) /\ DOMAIN ldb' = MetaKeys
  BY <1>1 DEF DBInv, TypesOK
<1>3. /\ ldb'["writeloc"] \in Pos /\ OnDisk(files, ldb'["writeloc"])
      /\ ListsBelow(files, ldb', ldb'["writeloc"])
  BY <1>1 DEF DBInv, MetaOK
<1> QED
  BY <1>1, <1>2, <1>3, DownKeeps

(* reconcileDB: the files reach at least as far as leveldb knows, and what *)
(* is behind that is rolled back.                                          *)
LEMMA ReconcileKeeps ==
    ASSUME DBInv, reconcileDB
    PROVE  DBInv'
<1> DEFINE s == scanBlockFiles
           l == ldb["writeloc"]
<1>1. /\ mode = "down" /\ wc' = [file |-> s[1], off |-> s[2], open |-> FALSE]
      /\ UNCHANGED <<files, synced, lru, ldb, cachedKeys, cachedRemove, tx, rd>>
      /\ IF IsAfter(s, l) THEN mode' = "reconcile" /\ rolling' = l
         ELSE mode' = (IF IsAfter(l, s) THEN "corrupt" ELSE "up") /\ rolling' = rolling
  BY DEF reconcileDB, metaVars
<1>2. /\ files \in Files /\ l \in Pos /\ OnDisk(files, l) /\ Safe = l /\ tx.stage \notin {"rollback", "write"}
      /\ tx.stage = "none" /\ rolling = NoTarget
  BY <1>1 DEF DBInv, TypesOK, MetaOK, CursorOK, Safe
<1>3. /\ s \in Pos /\ s[2] <= maxBlockFileSize /\ OnDisk(files, s) /\ ~IsAfter(l, s)
      /\ s[1] \in Nat /\ s[2] \in Nat /\ l[1] \in Nat /\ l[2] \in Nat /\ l # NoTarget
      /\ s = <<s[1], s[2]>> /\ l = <<l[1], l[2]>>
  BY <1>2, ScanFacts, PosFacts DEF NoTarget
<1> HIDE DEF s, l
<1>4. /\ wc' \in [file : Nat, off : 0 .. maxBlockFileSize, open : BOOLEAN]
      /\ wc'.file = s[1] /\ wc'.off = s[2]
  BY <1>1, <1>3, Sizes
<1>5. Cursor' = s /\ View' = View
  BY <1>1, <1>3, <1>4 DEF Cursor, View
<1>6. /\ TypesOK' /\ CursorOK' /\ Safe' = l
  <2>1. CASE IsAfter(s, l)
    <3>1. mode' = "reconcile" /\ rolling' = l
      BY <1>1, <2>1
    <3>2. TypesOK'
      BY <1>1, <1>2, <1>4, <3>1 DEF DBInv, TypesOK
    <3>3. l[1] <= s[1]
      BY <1>3, <2>1 DEF IsAfter
    <3>4. CursorOK'
      BY <1>1, <1>2, <1>3, <1>4, <3>1, <3>3 DEF DBInv, CursorOK, l
    <3> QED
      BY <1>3, <3>1, <3>2, <3>4 DEF Safe
  <2>2. CASE ~IsAfter(s, l)
    <3>1. mode' = "up" /\ rolling' = NoTarget
      BY <1>1, <1>2, <1>3, <2>2
    <3>2. TypesOK'
      BY <1>1, <1>2, <1>4, <3>1 DEF DBInv, TypesOK
    <3>3. s = l
      BY <1>3, <2>2 DEF IsAfter
    <3>4. CursorFits(files, s[1], s[2])
      BY <1>2, <1>3, DiskFacts
    <3>5. CursorOK'
      BY <1>1, <1>2, <1>3, <1>4, <1>5, <3>1, <3>4 DEF CursorOK
    <3> QED
      BY <1>1, <1>2, <1>5, <3>1, <3>2, <3>3, <3>5 DEF Safe
  <2> QED
    BY <2>1, <2>2
<1>7. TxOK'
  BY <1>1, <1>2, <1>5 DEF DBInv, TxOK, Writing
<1>8. ReadsOK'
  BY <1>1 DEF DBInv, CursorOK, ReadsOK, ReadOK
<1>9. MetaOK'
  BY <1>1, <1>2, <1>5, <1>6 DEF DBInv, MetaOK
<1> QED
  BY <1>6, <1>7, <1>8, <1>9 DEF DBInv

-----------------------------------------------------------------------------
(* What createDB writes.                                                   *)
LEMMA InitIsOK == BlockDBInit => DBInv
<1> SUFFICES ASSUME BlockDBInit PROVE DBInv
  OBVIOUS
<1>1. /\ files = <<>> /\ synced = <<>> /\ wc = [file |-> 0, off |-> 0, open |-> FALSE] /\ lru = <<>>
      /\ ldb = initDB /\ cachedKeys = NoKeys /\ cachedRemove = {} /\ tx = NoTx
      /\ rd = [r \in Readers |-> NoRead] /\ rolling = NoTarget /\ mode = "up"
  BY DEF BlockDBInit
<1>2. /\ DOMAIN initDB = MetaKeys /\ initDB["writeloc"] = <<0, 0>>
      /\ \A b \in Blocks : initDB[b] = nil
  BY Sizes DEF initDB
<1>3. files \in Files
  <2>1. files \in Seq(Seq(Cells)) /\ Len(files) = 0
    BY <1>1
  <2> QED
    BY <2>1 DEF Files
<1>4. DOMAIN cachedKeys = {} /\ cachedRemove = {}
  BY <1>1 DEF NoKeys
<1>5. TypesOK
  BY <1>1, <1>2, <1>3, <1>4, Sizes DEF TypesOK
<1>6. PICK view : view = View
  OBVIOUS
<1>7. \A k \in MetaKeys : view[k] = initDB[k]
  BY <1>1, <1>4, <1>6, EmptyCache DEF View
<1>8. tx.stage = "none" /\ DOMAIN tx = TxFields /\ tx.blocks = <<>> /\ DOMAIN tx.keys = {} /\ tx.remove = {}
  BY <1>1 DEF NoTx, TxFields, NoKeys
<1>9. TxOK
  BY <1>8 DEF TxOK, Writing
<1>10. Cursor = <<0, 0>> /\ Safe = <<0, 0>>
  BY <1>1, <1>8 DEF Safe, Cursor
<1>11. /\ <<0, 0>> \in Pos /\ OnDisk(files, <<0, 0>>) /\ AtOrBefore(<<0, 0>>, <<0, 0>>)
       /\ CursorFits(files, 0, 0)
  BY <1>1 DEF Pos, OnDisk, AtOrBefore, CursorFits
<1>12. ListsBelow(files, ldb, <<0, 0>>) /\ ListsBelow(files, view, <<0, 0>>)
  BY <1>1, <1>2, <1>7, Sizes DEF ListsBelow
<1>13. MetaOK
  BY <1>1, <1>2, <1>6, <1>7, <1>10, <1>11, <1>12, Sizes DEF MetaOK
<1>14. CursorOK
  BY <1>1, <1>8, <1>10, <1>11 DEF CursorOK
<1>15. ReadsOK
  BY <1>1 DEF ReadsOK, ReadOK, NoRead, RdFields
<1> QED
  BY <1>5, <1>9, <1>13, <1>14, <1>15 DEF DBInv

-----------------------------------------------------------------------------
(* No step of anyone, and no crash that the files survive, breaks it.      *)
LEMMA StepsKeep ==
    ASSUME ~PowerLoss
    PROVE  DBInv /\ [BlockDBNext]_dbVars => DBInv'
<1> SUFFICES ASSUME DBInv, [BlockDBNext]_dbVars PROVE DBInv'
  OBVIOUS
<1>1. CASE begin
  BY <1>1, BeginKeeps
<1>2. CASE ChangeKey
  BY <1>2, ChangeKeyKeeps
<1>3. CASE RollbackTx
  <2>1. tx.stage = "open" /\ tx' = NoTx /\ UNCHANGED <<fileVars, lru, metaVars, rd, rolling, mode>>
    BY <1>3 DEF RollbackTx
  <2> QED
    BY <2>1, TxEndsKeeps
<1>4. CASE FlushFails
  <2>1. /\ tx.stage \in {"sync", "flush", "through"} /\ tx' = NoTx
        /\ UNCHANGED <<fileVars, lru, metaVars, rd, rolling, mode>>
    BY <1>4 DEF FlushFails
  <2> QED
    BY <2>1, TxEndsKeeps
<1>5. CASE TxStep
  <2>1. CASE Commit \/ LockWriteFile \/ NextFile \/ writeBlock
    BY <2>1, CommitKeeps, LockKeeps, NextFileKeeps, WriteBlockKeeps
  <2>2. CASE CommitToCache \/ syncBlocks \/ FlushToDB \/ ClearCache \/ WriteThrough
    BY <2>2, CommitToCacheKeeps, SyncKeeps, FlushKeeps, ClearKeeps, ThroughKeeps
  <2>3. CASE RollbackNothing \/ DeleteFile \/ Truncate
    BY <2>3, RollbackNothingKeeps, DeleteFileKeeps, TruncateKeeps
  <2> QED
    BY <1>5, <2>1, <2>2, <2>3 DEF TxStep
<1>6. CASE \E b \in Blocks : StoreBlockInTx(b)
  BY <1>6, StoreBlockKeeps
<1>7. CASE WriteFails \/ needsFlush
  BY <1>7, WriteFailsKeeps, NeedsFlushKeeps
<1>8. CASE \E r \in Readers : SnapshotDB(r) \/ SnapshotCache(r) \/ readBlock(r) \/ EndRead(r)
  BY <1>8, SnapshotDBKeeps, SnapshotCacheKeeps, ReadBlockKeeps, EndReadKeeps
<1>9. CASE \E r \in Readers, b \in Blocks : blockFile(r, b)
  BY <1>9, BlockFileKeeps
<1>10. CASE Close \/ Die \/ reconcileDB
  BY <1>10, CloseKeeps, DieKeeps, ReconcileKeeps
<1>11. CASE UNCHANGED dbVars
  <2>1. UNCHANGED <<files, synced, wc, lru, ldb, cachedKeys, cachedRemove, tx, rd, rolling, mode>>
    BY <1>11 DEF dbVars
  <2>2. UNCHANGED <<View, Cursor, Safe>>
    BY <2>1 DEF View, Cursor, Safe
  <2>3. TypesOK' /\ MetaOK' /\ CursorOK'
    BY <2>1, <2>2 DEF DBInv, TypesOK, MetaOK, CursorOK
  <2>4. TxOK' /\ ReadsOK'
    BY <2>1, <2>2 DEF DBInv, TxOK, ReadsOK
  <2> QED
    BY <2>3, <2>4 DEF DBInv
<1> QED
  BY <1>1, <1>2, <1>3, <1>4, <1>5, <1>6, <1>7, <1>8, <1>9, <1>10, <1>11 DEF BlockDBNext

(* The invariant has what it is for.                                       *)
LEMMA KeptByInvariant == DBInv => BlocksAreKept
<1> SUFFICES ASSUME DBInv PROVE BlocksAreKept
  OBVIOUS
<1>1. BlockDBTypeOK
  <2>1. files \in Seq(Seq(Blocks \X (1 .. maxBlockFileSize)))
    BY DEF DBInv, TypesOK, Files, Cells
  <2> QED
    BY <2>1 DEF DBInv, TypesOK, BlockDBTypeOK
<1>2. files \in Files
  BY DEF DBInv, TypesOK
<1>3. IndexedBlocksAreWhole
  <2> SUFFICES ASSUME NEW b \in Blocks
               PROVE  /\ ldb[b] # nil => WholeAt(b, ldb[b])
                      /\ View[b] # nil => WholeAt(b, View[b])
                      /\ \A r \in Readers : rd[r].stage \in {"open", "reading"} /\ rd[r].view[b] # nil
                                               => WholeAt(b, rd[r].view[b])
    BY DEF IndexedBlocksAreWhole
  <2>1. \A view, p : ListsBelow(files, view, p) /\ view[b] # nil => WholeAt(b, view[b])
    <3> SUFFICES ASSUME NEW view, NEW p, ListsBelow(files, view, p), view[b] # nil
                 PROVE  WholeAt(b, view[b])
      OBVIOUS
    <3>1. view[b] \in Pos /\ WholeIn(files, b, view[b])
      BY DEF ListsBelow
    <3> QED
      BY <1>2, <3>1, WholeIsGood
  <2>2. ListsBelow(files, ldb, ldb["writeloc"]) /\ ListsBelow(files, View, View["writeloc"])
    BY DEF DBInv, MetaOK
  <2>3. \A r \in Readers : rd[r].stage \in {"open", "reading"} => ListsBelow(files, rd[r].view, Safe)
    BY DEF DBInv, ReadsOK, ReadOK
  <2> QED
    BY <2>1, <2>2, <2>3
<1>4. ReadsSucceed
  BY DEF DBInv, ReadsOK, ReadOK, ReadsSucceed
<1>5. NeverCorrupt
  BY DEF DBInv, TypesOK, NeverCorrupt
<1> QED
  BY <1>1, <1>3, <1>4, <1>5 DEF BlocksAreKept

(* What leveldb, the cache or a reader lists is whole in the files, reads  *)
(* succeed and reconcileDB opens the database again: for any blocks, file  *)
(* size, readers and failures, whenever the process dies, as long as the   *)
(* files keep what was written to them.                                    *)
THEOREM BlocksAreAlwaysKept ==
    ASSUME ~PowerLoss
    PROVE  BlockDBSpec => []BlocksAreKept
<1>1. BlockDBInit => DBInv
  BY InitIsOK
<1>2. DBInv /\ [BlockDBNext]_dbVars => DBInv'
  BY StepsKeep
<1>3. DBInv => BlocksAreKept
  BY KeptByInvariant
<1> QED
  BY <1>1, <1>2, <1>3, PTL DEF BlockDBSpec

-----------------------------------------------------------------------------
(* The refinement of AtomicStore, with power losses too: what the          *)
(* transaction, the cache and leveldb have to do with each other, whatever *)
(* is in the files.                                                        *)
MetaInv ==
    /\ DOMAIN ldb = MetaKeys
    /\ DOMAIN cachedKeys \cap cachedRemove = {}
    /\ DOMAIN tx = TxFields /\ tx.blocks \in Seq(Blocks)
    /\ tx.remove \subseteq {"extra"} /\ DOMAIN tx.keys \cap tx.remove = {}
    /\ \A b \in Blocks \cap DOMAIN tx.keys : tx.keys[b] # nil
    /\ tx.stage \in Writing \cup {"open"} =>
         "count" \in DOMAIN tx.keys /\ tx.keys["count"] = View["count"] + 1
    /\ tx.stage = "clear" => ldb = View
    /\ tx.stage = "through" => DOMAIN cachedKeys = {} /\ cachedRemove = {}
    /\ cachedRemove \subseteq {"extra"} /\ \A b \in Blocks \cap DOMAIN cachedKeys : cachedKeys[b] # nil

(* A reader between its two snapshots has nothing that was not committed.  *)
ReadersOK ==
    /\ DOMAIN rd = Readers
    /\ \A r \in Readers :
         /\ DOMAIN rd[r] = RdFields /\ rd[r].stage \in {"idle", "begin", "open", "reading"}
         /\ rd[r].stage = "begin" => Contents(rd[r].view).blocks \subseteq Contents(View).blocks

(* What a step does to the store, the readers apart.                       *)
Keeps == Contents(View') = Contents(View) /\ Contents(ldb') = Contents(ldb)
Commits == /\ Contents(View').count = Contents(View).count + 1
           /\ Contents(View).blocks \subseteq Contents(View').blocks
           /\ Contents(ldb') \in {Contents(ldb), Contents(View')}
Saves == Contents(View') = Contents(View) /\ Contents(ldb') = Contents(View)
Loses == Contents(View') = Contents(ldb) /\ Contents(ldb') = Contents(ldb)

(* Views with the same rows are the same store.                            *)
LEMMA SameContents ==
    ASSUME NEW v, NEW w, \A k \in MetaKeys : v[k] = w[k]
    PROVE  Contents(v) = Contents(w)
  BY Sizes DEF Contents

(* A transaction that commits: what it sets and removes is put on what is  *)
(* there.                                                                  *)
LEMMA LayerCommits ==
    ASSUME NEW v, NEW keys, NEW remove, remove \subseteq {"extra"},
           "count" \in DOMAIN keys, keys["count"] = v["count"] + 1,
           \A b \in Blocks \cap DOMAIN keys : keys[b] # nil
    PROVE  /\ Contents(Layer(v, keys, remove)).count = Contents(v).count + 1
           /\ Contents(v).blocks \subseteq Contents(Layer(v, keys, remove)).blocks
<1>1. PICK w : w = Layer(v, keys, remove)
  OBVIOUS
<1>2. \A k \in MetaKeys : w[k] = IF k \in remove THEN nil
                                  ELSE IF k \in DOMAIN keys THEN keys[k] ELSE v[k]
  BY <1>1, LayerRow
<1>3. w["count"] = v["count"] + 1
  BY <1>2, Sizes
<1>4. \A b \in Blocks : v[b] # nil => w[b] # nil
  BY <1>2, Sizes
<1> QED
  BY <1>1, <1>3, <1>4 DEF Contents

(* A step that leaves the metadata keeps the store.                        *)
LEMMA SameMeta == UNCHANGED <<View, ldb>> => Keeps
  BY DEF Keeps

(* A step that leaves the metadata alone and only ends the transaction, or *)
(* changes something in it that has nothing to do with the metadata.       *)
LEMMA QuietStep ==
    ASSUME MetaInv, UNCHANGED metaVars,
           \/ tx' = NoTx
           \/ /\ DOMAIN tx' = TxFields /\ tx'.blocks \in Seq(Blocks)
              /\ tx'.keys = tx.keys /\ tx'.remove = tx.remove
              /\ tx.stage \in Writing \cup {"open"} \/ tx'.stage \notin Writing \cup {"open"}
              /\ tx'.stage = "clear" => ldb = View
              /\ tx'.stage = "through" => DOMAIN cachedKeys = {} /\ cachedRemove = {}
    PROVE  MetaInv' /\ Keeps
<1>1. UNCHANGED <<View, ldb, cachedKeys, cachedRemove>>
  BY DEF metaVars, View
<1>2. Keeps
  BY <1>1, SameMeta
<1>3. CASE tx' = NoTx
  <2>1. /\ DOMAIN NoTx = TxFields /\ NoTx.stage = "none" /\ NoTx.blocks = <<>>
        /\ DOMAIN NoTx.keys = {} /\ NoTx.remove = {}
    BY DEF NoTx, TxFields, NoKeys
  <2> QED
    BY <1>1, <1>2, <1>3, <2>1 DEF MetaInv, Writing
<1>4. CASE /\ DOMAIN tx' = TxFields /\ tx'.blocks \in Seq(Blocks)
           /\ tx'.keys = tx.keys /\ tx'.remove = tx.remove
           /\ tx.stage \in Writing \cup {"open"} \/ tx'.stage \notin Writing \cup {"open"}
           /\ tx'.stage = "clear" => ldb = View
           /\ tx'.stage = "through" => DOMAIN cachedKeys = {} /\ cachedRemove = {}
  BY <1>1, <1>2, <1>4 DEF MetaInv
<1> QED
  BY <1>3, <1>4

(* A step that only changes the pending keys.                              *)
LEMMA PendingStep ==
    ASSUME MetaInv, UNCHANGED metaVars, DOMAIN tx' = TxFields, tx'.blocks \in Seq(Blocks),
           tx'.remove \subseteq {"extra"}, DOMAIN tx'.keys \cap tx'.remove = {},
           \A b \in Blocks \cap DOMAIN tx'.keys : tx'.keys[b] # nil,
           "count" \in DOMAIN tx'.keys, tx'.keys["count"] = View["count"] + 1,
           tx'.stage \notin {"clear", "through"}
    PROVE  MetaInv' /\ Keeps
<1>1. UNCHANGED <<View, ldb, cachedKeys, cachedRemove>>
  BY DEF metaVars, View
<1>2. Keeps
  BY <1>1, SameMeta
<1> QED
  BY <1>1, <1>2 DEF MetaInv

(* begin: the counter goes up among the pending keys only.                 *)
LEMMA BeginRefines ==
    ASSUME MetaInv, begin
    PROVE  MetaInv' /\ Keeps
<1>1. PICK k : k = WithKey(NoKeys, "count", View["count"] + 1)
  OBVIOUS
<1>2. DOMAIN k = {"count"} /\ k["count"] = View["count"] + 1
  BY <1>1 DEF WithKey, NoKeys
<1>3. tx' = [stage |-> "open", snapshot |-> View, blocks |-> <<>>, keys |-> k, remove |-> {},
             old |-> NoTarget, wait |-> FALSE]
  BY <1>1 DEF begin, NoTx
<1>4. /\ DOMAIN tx' = TxFields /\ tx'.stage = "open" /\ tx'.blocks = <<>> /\ tx'.keys = k
      /\ tx'.remove = {}
  BY <1>3 DEF TxFields
<1>5. UNCHANGED metaVars
  BY DEF begin
<1> QED
  BY <1>2, <1>4, <1>5, PendingStep, Sizes

(* Put and Delete change pending keys only.                                *)
LEMMA ChangeKeyRefines ==
    ASSUME MetaInv, ChangeKey
    PROVE  MetaInv' /\ Keeps
<1>1. /\ DOMAIN tx = TxFields /\ tx.stage = "open" /\ tx.blocks \in Seq(Blocks)
      /\ tx.remove \subseteq {"extra"} /\ DOMAIN tx.keys \cap tx.remove = {}
      /\ \A b \in Blocks \cap DOMAIN tx.keys : tx.keys[b] # nil
      /\ "count" \in DOMAIN tx.keys /\ tx.keys["count"] = View["count"] + 1 /\ UNCHANGED metaVars
  BY DEF MetaInv, ChangeKey
<1>2. CASE tx' = putKey(tx, "extra", <<tx.keys["count"]>>)
  <2>1. PICK k : k = WithKey(tx.keys, "extra", <<tx.keys["count"]>>)
    OBVIOUS
  <2>2. /\ DOMAIN k = DOMAIN tx.keys \cup {"extra"}
        /\ \A x \in DOMAIN tx.keys \ {"extra"} : k[x] = tx.keys[x]
    BY <2>1 DEF WithKey
  <2>3. tx' = [tx EXCEPT !.keys = k, !.remove = tx.remove \ {"extra"}]
    BY <1>2, <2>1 DEF putKey
  <2>4. /\ DOMAIN tx' = TxFields /\ tx'.stage = "open" /\ tx'.keys = k
        /\ tx'.remove = tx.remove \ {"extra"} /\ tx'.blocks = tx.blocks
    BY <1>1, <2>3 DEF TxFields
  <2>5. \A b \in Blocks \cap DOMAIN k : k[b] # nil
    BY <1>1, <2>2, Sizes
  <2> QED
    BY <1>1, <2>2, <2>4, <2>5, PendingStep
<1>3. CASE tx' = deleteKey(tx, "extra")
  <2>1. PICK k : k = WithoutKey(tx.keys, "extra")
    OBVIOUS
  <2>2. /\ DOMAIN k = DOMAIN tx.keys \ {"extra"}
        /\ \A x \in DOMAIN tx.keys \ {"extra"} : k[x] = tx.keys[x]
    BY <2>1 DEF WithoutKey
  <2>3. tx' = [tx EXCEPT !.keys = k, !.remove = tx.remove \cup {"extra"}]
    BY <1>3, <2>1 DEF deleteKey
  <2>4. /\ DOMAIN tx' = TxFields /\ tx'.stage = "open" /\ tx'.keys = k
        /\ tx'.remove = tx.remove \cup {"extra"} /\ tx'.blocks = tx.blocks
    BY <1>1, <2>3 DEF TxFields
  <2> QED
    BY <1>1, <2>2, <2>4, PendingStep
<1> QED
  BY <1>2, <1>3 DEF ChangeKey

(* A location among the pending keys.                                      *)
LEMMA WriteBlockRefines ==
    ASSUME MetaInv, writeBlock
    PROVE  MetaInv' /\ Keeps
<1>1. /\ DOMAIN tx = TxFields /\ tx.stage = "write" /\ tx.blocks \in Seq(Blocks) /\ tx.blocks # <<>>
      /\ tx.remove \subseteq {"extra"} /\ DOMAIN tx.keys \cap tx.remove = {}
      /\ \A b \in Blocks \cap DOMAIN tx.keys : tx.keys[b] # nil
      /\ "count" \in DOMAIN tx.keys /\ tx.keys["count"] = View["count"] + 1 /\ UNCHANGED metaVars
  BY DEF MetaInv, writeBlock, Writing
<1>2. PICK b \in Blocks : b = Head(tx.blocks)
  BY <1>1
<1>3. PICK loc : loc = LocationOf(b) /\ loc # nil
  <2>1. DOMAIN LocationOf(b) = 1..2
    BY DEF LocationOf
  <2>2. DOMAIN nil = {} /\ 1 \in 1..2
    BY DEF nil
  <2> QED
    BY <2>1, <2>2
<1>4. PICK k : k = WithKey(tx.keys, b, loc)
  OBVIOUS
<1>5. /\ DOMAIN k = DOMAIN tx.keys \cup {b} /\ k[b] = loc
      /\ \A x \in DOMAIN tx.keys \ {b} : k[x] = tx.keys[x]
  BY <1>4 DEF WithKey
<1>6. PICK bs \in Seq(Blocks) : bs = Tail(tx.blocks)
  <2>1. Tail(tx.blocks) \in Seq(Blocks)
    BY <1>1
  <2> QED
    BY <2>1
<1>7. tx' = [tx EXCEPT !.keys = k, !.remove = tx.remove \ {b}, !.blocks = bs, !.wait = FALSE]
  BY <1>1, <1>2, <1>3, <1>4, <1>6 DEF writeBlock, putKey, TxFields
<1>8. /\ DOMAIN tx' = TxFields /\ tx'.stage = "write" /\ tx'.keys = k
      /\ tx'.remove = tx.remove \ {b} /\ tx'.blocks = bs
  BY <1>1, <1>7 DEF TxFields
<1>9. /\ \A x \in Blocks \cap DOMAIN k : k[x] # nil
      /\ "count" \in DOMAIN k /\ k["count"] = View["count"] + 1
      /\ DOMAIN k \cap (tx.remove \ {b}) = {}
  BY <1>1, <1>3, <1>5, Sizes
<1> QED
  BY <1>1, <1>8, <1>9, PendingStep

(* The row of the cursor among the pending keys.                           *)
LEMMA NeedsFlushRefines ==
    ASSUME MetaInv, needsFlush
    PROVE  MetaInv' /\ Keeps
<1>1. /\ DOMAIN tx = TxFields /\ tx.stage = "write" /\ tx.blocks \in Seq(Blocks)
      /\ tx.remove \subseteq {"extra"} /\ DOMAIN tx.keys \cap tx.remove = {}
      /\ \A b \in Blocks \cap DOMAIN tx.keys : tx.keys[b] # nil
      /\ "count" \in DOMAIN tx.keys /\ tx.keys["count"] = View["count"] + 1 /\ UNCHANGED metaVars
  BY DEF MetaInv, needsFlush, Written, Writing
<1>2. PICK t : t = WriteRow
  OBVIOUS
<1>3. /\ DOMAIN t = TxFields /\ t.blocks = tx.blocks /\ t.remove = tx.remove
      /\ DOMAIN t.keys = DOMAIN tx.keys \cup {"writeloc"}
      /\ \A k \in DOMAIN tx.keys \ {"writeloc"} : t.keys[k] = tx.keys[k]
  BY <1>1, <1>2, RowAdded
<1>4. tx' = [t EXCEPT !.stage = "sync"]
  BY <1>2 DEF needsFlush
<1>5. /\ DOMAIN tx' = TxFields /\ tx'.stage = "sync" /\ tx'.blocks = tx.blocks
      /\ tx'.remove = tx.remove /\ tx'.keys = t.keys
  BY <1>3, <1>4 DEF TxFields
<1>6. /\ \A x \in Blocks \cap DOMAIN t.keys : t.keys[x] # nil
      /\ "count" \in DOMAIN t.keys /\ t.keys["count"] = View["count"] + 1
      /\ DOMAIN t.keys \cap tx.remove = {}
  BY <1>1, <1>3, Sizes
<1> QED
  BY <1>1, <1>5, <1>6, PendingStep

(* The steps of a transaction, and of a rollback, that leave its keys.     *)
LEMMA QuietTxRefines ==
    ASSUME MetaInv, \/ RollbackTx \/ FlushFails \/ Commit \/ LockWriteFile \/ NextFile \/ syncBlocks
                    \/ WriteFails \/ RollbackNothing \/ DeleteFile \/ Truncate
                    \/ \E b \in Blocks : StoreBlockInTx(b)
    PROVE  MetaInv' /\ Keeps
<1>1. /\ DOMAIN tx = TxFields /\ tx.blocks \in Seq(Blocks)
      /\ tx.stage = "clear" => ldb = View
      /\ tx.stage = "through" => DOMAIN cachedKeys = {} /\ cachedRemove = {}
  BY DEF MetaInv
<1>2. CASE RollbackTx \/ FlushFails \/ RollbackNothing \/ Truncate
  <2>1. tx' = NoTx /\ UNCHANGED metaVars
    BY <1>2 DEF RollbackTx, FlushFails, RollbackNothing, Truncate, EndRollback
  <2> QED
    BY <2>1, QuietStep
<1>3. CASE DeleteFile
  <2>1. (tx' = NoTx \/ tx' = tx) /\ UNCHANGED metaVars
    BY <1>3 DEF DeleteFile, EndRollback
  <2> QED
    BY <1>1, <2>1, QuietStep
<1>4. CASE Commit
  <2>1. tx.stage = "open" /\ tx' = [tx EXCEPT !.stage = "write", !.old = <<wc.file, wc.off>>]
        /\ UNCHANGED metaVars
    BY <1>4 DEF Commit
  <2>2. /\ DOMAIN tx' = TxFields /\ tx'.blocks = tx.blocks /\ tx'.keys = tx.keys
        /\ tx'.remove = tx.remove /\ tx'.stage = "write"
    BY <1>1, <2>1 DEF TxFields
  <2> QED
    BY <1>1, <2>1, <2>2, QuietStep
<1>5. CASE LockWriteFile \/ NextFile
  <2>1. PICK w : tx' = [tx EXCEPT !.wait = w] /\ UNCHANGED metaVars
    BY <1>5 DEF LockWriteFile, NextFile
  <2>2. tx.stage = "write"
    BY <1>5 DEF LockWriteFile, NextFile
  <2>3. /\ DOMAIN tx' = TxFields /\ tx'.blocks = tx.blocks /\ tx'.keys = tx.keys
        /\ tx'.remove = tx.remove /\ tx'.stage = tx.stage
    BY <1>1, <2>1 DEF TxFields
  <2> QED
    BY <1>1, <2>1, <2>2, <2>3, QuietStep DEF Writing
<1>6. CASE syncBlocks
  <2>1. PICK s : s = IF cachedKeys = NoKeys /\ cachedRemove = {} THEN "through" ELSE "flush"
    OBVIOUS
  <2>2. tx.stage = "sync" /\ tx' = [tx EXCEPT !.stage = s] /\ UNCHANGED metaVars
    BY <1>6, <2>1 DEF syncBlocks
  <2>3. s \in {"through", "flush"} /\ (s = "through" => DOMAIN cachedKeys = {} /\ cachedRemove = {})
    BY <2>1 DEF NoKeys
  <2>4. /\ DOMAIN tx' = TxFields /\ tx'.blocks = tx.blocks /\ tx'.keys = tx.keys
        /\ tx'.remove = tx.remove /\ tx'.stage = s
    BY <1>1, <2>2 DEF TxFields
  <2> QED
    BY <1>1, <2>2, <2>3, <2>4, QuietStep DEF Writing
<1>7. CASE WriteFails
  <2>1. tx' = [tx EXCEPT !.stage = "rollback"] /\ UNCHANGED metaVars
    BY <1>7 DEF WriteFails
  <2>2. /\ DOMAIN tx' = TxFields /\ tx'.blocks = tx.blocks /\ tx'.keys = tx.keys
        /\ tx'.remove = tx.remove /\ tx'.stage = "rollback"
    BY <1>1, <2>1 DEF TxFields
  <2> QED
    BY <1>1, <2>1, <2>2, QuietStep DEF Writing
<1>8. CASE \E b \in Blocks : StoreBlockInTx(b)
  <2>1. PICK b \in Blocks : StoreBlockInTx(b)
    BY <1>8
  <2>2. PICK bs \in Seq(Blocks) : bs = Append(tx.blocks, b)
    <3>1. Append(tx.blocks, b) \in Seq(Blocks)
      BY <1>1
    <3> QED
      BY <3>1
  <2>3. tx' = [tx EXCEPT !.blocks = bs] /\ UNCHANGED metaVars /\ tx.stage = "open"
    BY <2>1, <2>2 DEF StoreBlockInTx
  <2>4. /\ DOMAIN tx' = TxFields /\ tx'.blocks = bs /\ tx'.keys = tx.keys
        /\ tx'.remove = tx.remove /\ tx'.stage = tx.stage
    BY <1>1, <2>3 DEF TxFields
  <2> QED
    BY <1>1, <2>3, <2>4, QuietStep
<1> QED
  BY <1>2, <1>3, <1>4, <1>5, <1>6, <1>7, <1>8

(* The step in which a transaction becomes visible.                        *)
LEMMA CommitToCacheRefines ==
    ASSUME MetaInv, CommitToCache
    PROVE  MetaInv' /\ Commits
<1>1. PICK t : t = WriteRow
  OBVIOUS
<1>2. /\ tx.stage = "write" /\ tx' = NoTx /\ ldb' = ldb
      /\ cachedRemove' = RemovedAfter(t)
  BY <1>1 DEF CommitToCache, Written
<1>3. /\ tx.remove \subseteq {"extra"} /\ DOMAIN tx.keys \cap tx.remove = {}
      /\ \A b \in Blocks \cap DOMAIN tx.keys : tx.keys[b] # nil
      /\ "count" \in DOMAIN tx.keys /\ tx.keys["count"] = View["count"] + 1
      /\ DOMAIN ldb = MetaKeys /\ DOMAIN cachedKeys \cap cachedRemove = {}
      /\ DOMAIN tx = TxFields
  BY <1>2 DEF MetaInv, Writing
<1>4. /\ t.remove = tx.remove /\ DOMAIN t.keys = DOMAIN tx.keys \cup {"writeloc"}
      /\ \A k \in DOMAIN tx.keys \ {"writeloc"} : t.keys[k] = tx.keys[k]
  BY <1>1, <1>3, RowAdded
<1>5. /\ DOMAIN t.keys \cap t.remove = {} /\ t.remove \subseteq {"extra"}
      /\ "count" \in DOMAIN t.keys /\ t.keys["count"] = View["count"] + 1
      /\ \A b \in Blocks \cap DOMAIN t.keys : t.keys[b] # nil
  BY <1>3, <1>4, Sizes
<1>6. /\ \A k \in MetaKeys : View'[k] = Layer(View, t.keys, t.remove)[k]
      /\ DOMAIN cachedKeys' \cap cachedRemove' = {}
  BY <1>1, <1>3, <1>5, CommittedView
<1>7. PICK keys, remove, v, w : keys = t.keys /\ remove = t.remove /\ v = View /\ w = View'
  OBVIOUS
<1>8. /\ Contents(w).count = Contents(v).count + 1
      /\ Contents(v).blocks \subseteq Contents(w).blocks
  <2>1. Contents(w) = Contents(Layer(v, keys, remove))
    BY <1>6, <1>7, SameContents
  <2> QED
    BY <1>5, <1>7, <2>1, LayerCommits
<1>9. Commits
  BY <1>2, <1>7, <1>8 DEF Commits
<1>10. /\ DOMAIN NoTx = TxFields /\ NoTx.stage = "none" /\ NoTx.blocks = <<>>
       /\ DOMAIN NoTx.keys = {} /\ NoTx.remove = {}
  BY DEF NoTx, TxFields, NoKeys
<1>11. cachedRemove' \subseteq {"extra"} /\ \A b \in Blocks \cap DOMAIN cachedKeys' : cachedKeys'[b] # nil
  <2>1. cachedRemove' \subseteq {"extra"}
    BY <1>2, <1>5 DEF MetaInv, RemovedAfter
  <2>2. cachedKeys' = [k \in (DOMAIN cachedKeys \cup DOMAIN t.keys) \ t.remove |->
                         IF k \in DOMAIN t.keys THEN t.keys[k] ELSE cachedKeys[k]]
    BY <1>1 DEF CommitToCache
  <2>3. \A b \in Blocks \cap DOMAIN cachedKeys' : cachedKeys'[b] # nil
    BY <1>5, <2>2 DEF MetaInv
  <2> QED
    BY <2>1, <2>3
<1>12. MetaInv'
  BY <1>2, <1>3, <1>6, <1>10, <1>11 DEF MetaInv, Writing
<1> QED
  BY <1>9, <1>12

(* The transaction becomes visible with its leveldb transaction, when the  *)
(* cache is empty.                                                         *)
LEMMA WriteThroughRefines ==
    ASSUME MetaInv, WriteThrough
    PROVE  MetaInv' /\ Commits
<1>1. /\ tx.stage = "through" /\ tx' = NoTx /\ DOMAIN cachedKeys = {} /\ cachedRemove = {}
      /\ tx.remove \subseteq {"extra"}
      /\ \A b \in Blocks \cap DOMAIN tx.keys : tx.keys[b] # nil
      /\ "count" \in DOMAIN tx.keys /\ tx.keys["count"] = View["count"] + 1
  BY DEF WriteThrough, MetaInv, Writing
<1>2. /\ \A k \in MetaKeys : View[k] = ldb[k] /\ View'[k] = ldb'[k]
      /\ ldb' = Layer(ldb, tx.keys, tx.remove) /\ UNCHANGED <<cachedKeys, cachedRemove>>
  BY <1>1, ThroughView
<1>3. PICK keys, remove, v, w, l, m : /\ keys = tx.keys /\ remove = tx.remove /\ v = View /\ w = View'
                                      /\ l = ldb /\ m = ldb'
  OBVIOUS
<1>4. \A k \in MetaKeys : v[k] = l[k] /\ w[k] = m[k] /\ m[k] = Layer(l, keys, remove)[k]
  BY <1>2, <1>3
<1>5. keys["count"] = l["count"] + 1 /\ "count" \in DOMAIN keys
  BY <1>1, <1>3, <1>4, Sizes
<1>6. /\ Contents(m).count = Contents(l).count + 1
      /\ Contents(l).blocks \subseteq Contents(m).blocks
  <2>1. m = Layer(l, keys, remove)
    BY <1>2, <1>3
  <2>2. /\ remove \subseteq {"extra"} /\ \A b \in Blocks \cap DOMAIN keys : keys[b] # nil
    BY <1>1, <1>3
  <2> QED
    BY <1>5, <2>1, <2>2, LayerCommits
<1>7. Contents(v) = Contents(l) /\ Contents(w) = Contents(m)
  BY <1>4, SameContents
<1>8. Commits
  BY <1>3, <1>6, <1>7 DEF Commits
<1>9. /\ DOMAIN NoTx = TxFields /\ NoTx.stage = "none" /\ NoTx.blocks = <<>>
      /\ DOMAIN NoTx.keys = {} /\ NoTx.remove = {}
  BY DEF NoTx, TxFields, NoKeys
<1>10. DOMAIN ldb' = MetaKeys
  BY <1>2, LayerRow
<1>11. MetaInv'
  BY <1>1, <1>2, <1>9, <1>10 DEF MetaInv, Writing
<1> QED
  BY <1>8, <1>11

(* The cache goes to leveldb.                                              *)
LEMMA FlushRefines ==
    ASSUME MetaInv, FlushToDB
    PROVE  MetaInv' /\ Saves
<1>1. View' = View /\ ldb' = View
  BY FlushView
<1>2. /\ DOMAIN tx = TxFields /\ tx.stage = "flush" /\ tx' = [tx EXCEPT !.stage = "clear"]
      /\ UNCHANGED <<cachedKeys, cachedRemove>>
  BY DEF MetaInv, FlushToDB
<1>3. /\ DOMAIN tx' = TxFields /\ tx'.blocks = tx.blocks /\ tx'.keys = tx.keys
      /\ tx'.remove = tx.remove /\ tx'.stage = "clear"
  BY <1>2 DEF TxFields
<1>4. DOMAIN View = MetaKeys
  BY LayerRow DEF View
<1>5. MetaInv'
  BY <1>1, <1>2, <1>3, <1>4 DEF MetaInv, Writing
<1>6. Saves
  BY <1>1 DEF Saves
<1> QED
  BY <1>5, <1>6

(* The flushed cache is emptied: nobody sees a difference.                 *)
LEMMA ClearRefines ==
    ASSUME MetaInv, ClearCache
    PROVE  MetaInv' /\ Keeps
<1>1. /\ DOMAIN tx = TxFields /\ tx.stage = "clear" /\ tx' = [tx EXCEPT !.stage = "through"]
      /\ ldb = View
  BY DEF MetaInv, ClearCache
<1>2. View' = View /\ ldb' = ldb /\ DOMAIN cachedKeys' = {} /\ cachedRemove' = {}
  BY <1>1, ClearView
<1>3. /\ DOMAIN tx' = TxFields /\ tx'.blocks = tx.blocks /\ tx'.keys = tx.keys
      /\ tx'.remove = tx.remove /\ tx'.stage = "through"
  BY <1>1 DEF TxFields
<1>4. MetaInv'
  BY <1>1, <1>2, <1>3 DEF MetaInv, Writing
<1> QED
  BY <1>2, <1>4, SameMeta

(* Close saves what there is, and a crash goes back to what was saved.     *)
LEMMA StopRefines ==
    ASSUME MetaInv, Close \/ Die
    PROVE  MetaInv' /\ (Close => Saves) /\ (Die => Loses)
<1>1. /\ cachedKeys' = NoKeys /\ cachedRemove' = {} /\ tx' = NoTx
      /\ ldb' = View \/ ldb' = ldb
      /\ Close => ldb' = View
      /\ Die => ldb' = ldb
  BY DEF Close, Die
<1>2. DOMAIN ldb' = MetaKeys
  BY <1>1, LayerRow DEF MetaInv, View
<1>3. DOMAIN cachedKeys' = {}
  BY <1>1 DEF NoKeys
<1>4. /\ DOMAIN NoTx = TxFields /\ NoTx.stage = "none" /\ NoTx.blocks = <<>>
      /\ DOMAIN NoTx.keys = {} /\ NoTx.remove = {}
  BY DEF NoTx, TxFields, NoKeys
<1>5. MetaInv'
  BY <1>1, <1>2, <1>3, <1>4 DEF MetaInv, Writing
<1>6. PICK below, keys, remove, view : /\ below = ldb' /\ keys = cachedKeys' /\ remove = cachedRemove'
                                       /\ view = View'
  OBVIOUS
<1>7. view = Layer(below, keys, remove) /\ DOMAIN keys = {} /\ remove = {}
  BY <1>1, <1>3, <1>6 DEF View
<1>8. \A k \in MetaKeys : view[k] = below[k]
  BY <1>7, LayerRow
<1>9. Contents(view) = Contents(below)
  BY <1>8, SameContents
<1>10. PICK old, was : old = ldb /\ was = View
  OBVIOUS
<1>11. (Close => below = was) /\ (Die => below = old)
  BY <1>1, <1>6, <1>10
<1>12. (Close => Saves) /\ (Die => Loses)
  BY <1>6, <1>9, <1>10, <1>11 DEF Saves, Loses
<1> QED
  BY <1>5, <1>12

-----------------------------------------------------------------------------
(* The readers.                                                            *)

(* A reader took the snapshot l of leveldb, leveldb has m now, and the     *)
(* cache on top makes it v; the reader sees s.                             *)
Sees(l, m, v, s) ==
    /\ Contents(m) = Contents(l) => Contents(s) = Contents(v)
    /\ Contents(l).blocks \cup (Contents(v).blocks \ Contents(m).blocks) \subseteq Contents(s).blocks
    /\ Contents(s).blocks \subseteq Contents(v).blocks
    /\ Contents(s).count \in {Contents(l).count, Contents(v).count}
    /\ Contents(s).extra \in {Contents(l).extra, Contents(v).extra}

LEMMA SnapshotSees ==
    ASSUME NEW l, NEW m, NEW keys, NEW remove, remove \subseteq {"extra"},
           NEW v, v = Layer(m, keys, remove), NEW s, s = Layer(l, keys, remove),
           Contents(l).blocks \subseteq Contents(v).blocks
    PROVE  Sees(l, m, v, s)
<1>1. \A k \in MetaKeys : /\ v[k] = IF k \in remove THEN nil ELSE IF k \in DOMAIN keys THEN keys[k] ELSE m[k]
                          /\ s[k] = IF k \in remove THEN nil ELSE IF k \in DOMAIN keys THEN keys[k] ELSE l[k]
  BY LayerRow
<1>2. ASSUME Contents(m) = Contents(l) PROVE Contents(s) = Contents(v)
  <2>1. /\ m["count"] = l["count"] /\ m["extra"] = l["extra"]
        /\ \A b \in Blocks : m[b] # nil <=> l[b] # nil
    <3>1. /\ Contents(m).count = Contents(l).count /\ Contents(m).extra = Contents(l).extra
          /\ Contents(m).blocks = Contents(l).blocks
      BY <1>2
    <3> QED
      BY <3>1 DEF Contents
  <2>2. s["count"] = v["count"] /\ s["extra"] = v["extra"]
    BY <1>1, <2>1, Sizes
  <2>3. \A b \in Blocks : s[b] # nil <=> v[b] # nil
    BY <1>1, <2>1, Sizes
  <2>4. {b \in Blocks : s[b] # nil} = {b \in Blocks : v[b] # nil}
    BY <2>3
  <2> QED
    BY <2>2, <2>4 DEF Contents
<1>3. \A b \in Blocks : l[b] # nil => v[b] # nil
  BY DEF Contents
<1>4. \A b \in Blocks : /\ l[b] # nil => s[b] # nil
                        /\ v[b] # nil /\ m[b] = nil => s[b] # nil
                        /\ s[b] # nil => v[b] # nil
  <2> SUFFICES ASSUME NEW b \in Blocks
               PROVE  /\ l[b] # nil => s[b] # nil
                      /\ v[b] # nil /\ m[b] = nil => s[b] # nil
                      /\ s[b] # nil => v[b] # nil
    OBVIOUS
  <2>1. b \in MetaKeys /\ b \notin remove
    BY Sizes
  <2> QED
    BY <1>1, <1>3, <2>1
<1>5. s["count"] \in {l["count"], v["count"]} /\ s["extra"] \in {l["extra"], v["extra"]}
  BY <1>1, Sizes
<1> QED
  BY <1>2, <1>4, <1>5 DEF Sees, Contents

(* The actions of AtomicStore in terms of the database.                    *)
LEMMA ReaderActions ==
    ASSUME NEW r \in Readers, \A q \in Readers \ {r} : rd'[q] = rd[q], Keeps
    PROVE  /\ /\ rd[r].stage = "idle" /\ rd'[r].stage = "begin" /\ Contents(rd'[r].view) = Contents(ldb)
              => Store!Begin(r)
           /\ /\ rd[r].stage = "begin" /\ rd'[r].stage = "open"
              /\ Sees(rd[r].view, ldb, View, rd'[r].view)
              => Store!Open(r)
           /\ rd[r].stage = "open" /\ rd'[r].stage = "idle" => Store!End(r)
           /\ /\ rd[r].stage \in {"open", "reading"} /\ rd'[r].stage \in {"open", "reading"}
              /\ rd'[r].view = rd[r].view
              => UNCHANGED Store!storeVars
  BY DEF Keeps, Sees, ViewOf, Store!Begin, Store!Open, Store!End, Store!Moves, Store!MaySee, Store!storeVars

LEMMA OtherActions ==
    /\ rd' = rd /\ Keeps => UNCHANGED Store!storeVars
    /\ rd' = rd /\ Commits => Store!Committed
    /\ rd' = rd /\ Saves => Store!Save
    /\ Loses /\ (\A r \in Readers : rd'[r].stage = "idle") => Store!Lose
  BY DEF Keeps, Commits, Saves, Loses, ViewOf, Store!storeVars, Store!Committed, Store!Save, Store!Lose

(* What leveldb has, the database has.                                     *)
LEMMA SavedIsSeen == MetaInv => Contents(ldb).blocks \subseteq Contents(View).blocks
<1> SUFFICES ASSUME MetaInv PROVE Contents(ldb).blocks \subseteq Contents(View).blocks
  OBVIOUS
<1>1. PICK v : v = View
  OBVIOUS
<1>2. \A k \in MetaKeys : v[k] = IF k \in cachedRemove THEN nil
                                  ELSE IF k \in DOMAIN cachedKeys THEN cachedKeys[k] ELSE ldb[k]
  BY <1>1, LayerRow DEF View
<1>3. ASSUME NEW b \in Blocks, ldb[b] # nil PROVE v[b] # nil
  BY <1>2, <1>3, Sizes DEF MetaInv
<1> QED
  BY <1>1, <1>3 DEF Contents

(* The steps of a reader.                                                  *)
LEMMA ReaderRefines ==
    ASSUME MetaInv, ReadersOK, NEW r \in Readers,
           SnapshotDB(r) \/ SnapshotCache(r) \/ readBlock(r) \/ EndRead(r) \/ \E b \in Blocks : blockFile(r, b)
    PROVE  ReadersOK' /\ [Store!StoreNext]_(Store!storeVars)
<1>1. UNCHANGED <<ldb, cachedKeys, cachedRemove, View>>
  BY DEF SnapshotDB, SnapshotCache, readBlock, EndRead, blockFile, metaVars, View
<1>2. Keeps
  BY <1>1, SameMeta
<1>3. DOMAIN rd = Readers /\ DOMAIN rd[r] = RdFields
  BY DEF ReadersOK
<1>4. PICK v, l : v = View /\ l = ldb
  OBVIOUS
<1>5. ASSUME NEW read, rd' = [rd EXCEPT ![r] = read], DOMAIN read = RdFields,
             read.stage \in {"idle", "begin", "open", "reading"},
             read.stage = "begin" => Contents(read.view).blocks \subseteq Contents(v).blocks
      PROVE  ReadersOK' /\ rd'[r] = read /\ \A q \in Readers \ {r} : rd'[q] = rd[q]
  <2>1. DOMAIN rd' = Readers /\ rd'[r] = read /\ \A q \in Readers \ {r} : rd'[q] = rd[q]
    BY <1>3, <1>5
  <2>2. View' = v
    BY <1>1, <1>4
  <2>3. ASSUME NEW q \in Readers
        PROVE  /\ DOMAIN rd'[q] = RdFields /\ rd'[q].stage \in {"idle", "begin", "open", "reading"}
               /\ rd'[q].stage = "begin" => Contents(rd'[q].view).blocks \subseteq Contents(v).blocks
    <3>1. CASE q = r
      BY <1>5, <2>1, <3>1
    <3>2. CASE q # r
      BY <1>4, <2>1, <3>2 DEF ReadersOK
    <3> QED
      BY <3>1, <3>2
  <2> QED
    BY <2>1, <2>2, <2>3 DEF ReadersOK
<1>6. CASE SnapshotDB(r)
  <2>1. PICK read : read = [NoRead EXCEPT !.stage = "begin", !.view = ldb]
    OBVIOUS
  <2>2. /\ DOMAIN read = RdFields /\ read.stage = "begin" /\ read.view = l /\ rd[r].stage = "idle"
        /\ rd' = [rd EXCEPT ![r] = read]
    BY <1>4, <1>6, <2>1 DEF SnapshotDB, NoRead, RdFields
  <2>3. Contents(l).blocks \subseteq Contents(v).blocks
    BY <1>4, SavedIsSeen
  <2>4. ReadersOK' /\ rd'[r] = read /\ \A q \in Readers \ {r} : rd'[q] = rd[q]
    BY <1>5, <2>2, <2>3
  <2>5. Contents(rd'[r].view) = Contents(ldb)
    BY <1>4, <2>2, <2>4
  <2>6. Store!Begin(r)
    BY <1>2, <2>2, <2>4, <2>5, ReaderActions
  <2> QED
    BY <2>4, <2>6 DEF Store!StoreNext
<1>7. CASE SnapshotCache(r)
  <2>1. PICK s, old : s = Layer(rd[r].view, cachedKeys, cachedRemove) /\ old = rd[r].view
    OBVIOUS
  <2>2. PICK read : read = [rd[r] EXCEPT !.stage = "open", !.view = s]
    OBVIOUS
  <2>3. rd' = [rd EXCEPT ![r] = read] /\ rd[r].stage = "begin"
    BY <1>3, <1>7, <2>1, <2>2 DEF SnapshotCache, RdFields
  <2>4. DOMAIN read = RdFields /\ read.stage = "open" /\ read.view = s
    BY <1>3, <2>2 DEF RdFields
  <2>5. ReadersOK' /\ rd'[r] = read /\ \A q \in Readers \ {r} : rd'[q] = rd[q]
    BY <1>5, <2>3, <2>4
  <2>6. PICK keys, remove : keys = cachedKeys /\ remove = cachedRemove
    OBVIOUS
  <2>7. v = Layer(l, keys, remove) /\ s = Layer(old, keys, remove) /\ remove \subseteq {"extra"}
    BY <1>4, <2>1, <2>6 DEF View, MetaInv
  <2>8. Contents(old).blocks \subseteq Contents(v).blocks
    BY <1>4, <2>1, <2>3 DEF ReadersOK
  <2>9. Sees(old, l, v, s)
    BY <2>7, <2>8, SnapshotSees
  <2>10. Sees(rd[r].view, ldb, View, rd'[r].view)
    BY <1>4, <2>1, <2>4, <2>5, <2>9
  <2>11. Store!Open(r)
    BY <1>2, <2>3, <2>4, <2>5, <2>10, ReaderActions
  <2> QED
    BY <2>5, <2>11 DEF Store!StoreNext
<1>8. CASE readBlock(r) \/ \E b \in Blocks : blockFile(r, b)
  <2>1. PICK read : read = rd'[r]
    OBVIOUS
  <2>2. /\ rd' = [rd EXCEPT ![r] = read] /\ DOMAIN read = RdFields /\ read.view = rd[r].view
        /\ rd[r].stage \in {"open", "reading"} /\ read.stage \in {"open", "reading"}
    <3>1. CASE readBlock(r)
      <4>1. PICK g : rd' = [rd EXCEPT ![r] = [NoRead EXCEPT !.stage = "open", !.view = rd[r].view, !.good = g]]
        BY <3>1 DEF readBlock
      <4>2. rd[r].stage = "reading"
        BY <3>1 DEF readBlock
      <4>3. PICK read2 : read2 = [NoRead EXCEPT !.stage = "open", !.view = rd[r].view, !.good = g]
        OBVIOUS
      <4>4. DOMAIN read2 = RdFields /\ read2.view = rd[r].view /\ read2.stage = "open"
        BY <4>3 DEF NoRead, RdFields
      <4>5. rd' = [rd EXCEPT ![r] = read2] /\ rd'[r] = read2
        BY <1>3, <4>1, <4>3
      <4> QED
        BY <2>1, <4>2, <4>4, <4>5
    <3>2. CASE \E b \in Blocks : blockFile(r, b)
      <4>1. PICK b, h : /\ rd' = [rd EXCEPT ![r].stage = "reading", ![r].block = b, ![r].handle = h]
                     /\ rd[r].stage = "open"
        BY <3>2 DEF blockFile
      <4>2. PICK read2 : read2 = [rd[r] EXCEPT !.stage = "reading", !.block = b, !.handle = h]
        OBVIOUS
      <4>3. DOMAIN read2 = RdFields /\ read2.view = rd[r].view /\ read2.stage = "reading"
        BY <1>3, <4>2 DEF RdFields
      <4>4. rd' = [rd EXCEPT ![r] = read2] /\ rd'[r] = read2
        BY <1>3, <4>1, <4>2
      <4> QED
        BY <2>1, <4>1, <4>3, <4>4
    <3> QED
      BY <1>8, <3>1, <3>2
  <2>3. ReadersOK' /\ \A q \in Readers \ {r} : rd'[q] = rd[q]
    BY <1>5, <2>2
  <2>4. UNCHANGED Store!storeVars
    BY <1>2, <2>1, <2>2, <2>3, ReaderActions
  <2> QED
    BY <2>3, <2>4
<1>9. CASE EndRead(r)
  <2>1. rd' = [rd EXCEPT ![r] = NoRead] /\ rd[r].stage = "open" /\ NoRead.stage = "idle" /\ DOMAIN NoRead = RdFields
    BY <1>9 DEF EndRead, NoRead, RdFields
  <2>2. ReadersOK' /\ rd'[r] = NoRead /\ \A q \in Readers \ {r} : rd'[q] = rd[q]
    BY <1>5, <2>1
  <2>3. Store!End(r)
    BY <1>2, <2>1, <2>2, ReaderActions
  <2> QED
    BY <2>2, <2>3 DEF Store!StoreNext
<1> QED
  BY <1>6, <1>7, <1>8, <1>9

(* The readers stay, and the database does not lose a block.               *)
LEMMA ReadersStay ==
    ASSUME ReadersOK, rd' = rd, Keeps \/ Commits \/ Saves
    PROVE  ReadersOK'
<1>1. PICK v, w : v = View /\ w = View'
  OBVIOUS
<1>2. Contents(v).blocks \subseteq Contents(w).blocks
  BY <1>1 DEF Keeps, Commits, Saves
<1>3. \A r \in Readers : rd[r].stage = "begin" => Contents(rd[r].view).blocks \subseteq Contents(w).blocks
  BY <1>1, <1>2 DEF ReadersOK
<1> QED
  BY <1>1, <1>3 DEF ReadersOK

(* Every step of the database is a commit, a save or a crash of the store, *)
(* a step of a reader, or nothing to it.                                   *)
LEMMA StepsRefine ==
    MetaInv /\ ReadersOK /\ [BlockDBNext]_dbVars => MetaInv' /\ ReadersOK' /\ [Store!StoreNext]_(Store!storeVars)
<1> SUFFICES ASSUME MetaInv, ReadersOK, [BlockDBNext]_dbVars
             PROVE  MetaInv' /\ ReadersOK' /\ [Store!StoreNext]_(Store!storeVars)
  OBVIOUS
<1>0. ASSUME MetaInv', rd' = rd, Keeps \/ Commits \/ Saves
      PROVE  MetaInv' /\ ReadersOK' /\ [Store!StoreNext]_(Store!storeVars)
  BY <1>0, ReadersStay, OtherActions DEF Store!StoreNext
<1>1. CASE begin \/ ChangeKey \/ writeBlock \/ needsFlush
  <2>1. rd' = rd
    BY <1>1 DEF begin, ChangeKey, writeBlock, needsFlush
  <2> QED
    BY <1>0, <1>1, <2>1, BeginRefines, ChangeKeyRefines, WriteBlockRefines, NeedsFlushRefines
<1>2. CASE \/ RollbackTx \/ FlushFails \/ Commit \/ LockWriteFile \/ NextFile \/ syncBlocks
           \/ WriteFails \/ RollbackNothing \/ DeleteFile \/ Truncate
           \/ \E b \in Blocks : StoreBlockInTx(b)
  <2>1. rd' = rd
    BY <1>2 DEF RollbackTx, FlushFails, Commit, LockWriteFile, NextFile, syncBlocks, WriteFails,
                RollbackNothing, DeleteFile, Truncate, StoreBlockInTx
  <2> QED
    BY <1>0, <1>2, <2>1, QuietTxRefines
<1>3. CASE CommitToCache \/ WriteThrough
  <2>1. rd' = rd
    BY <1>3 DEF CommitToCache, WriteThrough
  <2> QED
    BY <1>0, <1>3, <2>1, CommitToCacheRefines, WriteThroughRefines
<1>4. CASE FlushToDB \/ ClearCache
  <2>1. rd' = rd
    BY <1>4 DEF FlushToDB, ClearCache
  <2> QED
    BY <1>0, <1>4, <2>1, FlushRefines, ClearRefines
<1>5. CASE Close
  <2>1. rd' = rd
    BY <1>5 DEF Close
  <2> QED
    BY <1>0, <1>5, <2>1, StopRefines
<1>6. CASE Die
  <2>1. MetaInv' /\ Loses
    BY <1>6, StopRefines
  <2>2. \A r \in Readers : rd'[r] = NoRead
    BY <1>6 DEF Die
  <2>3. DOMAIN rd' = Readers /\ NoRead.stage = "idle" /\ DOMAIN NoRead = RdFields
    BY <1>6 DEF Die, NoRead, RdFields
  <2>4. ReadersOK'
    BY <2>2, <2>3 DEF ReadersOK
  <2>5. Store!Lose
    BY <2>1, <2>2, <2>3, OtherActions
  <2> QED
    BY <2>1, <2>4, <2>5 DEF Store!StoreNext
<1>7. CASE reconcileDB \/ UNCHANGED dbVars
  <2>1. UNCHANGED <<metaVars, tx, rd>>
    BY <1>7 DEF reconcileDB, dbVars, metaVars
  <2>2. UNCHANGED <<ldb, cachedKeys, cachedRemove, View>>
    BY <2>1 DEF metaVars, View
  <2>3. MetaInv'
    BY <2>1, <2>2 DEF MetaInv
  <2> QED
    BY <1>0, <2>1, <2>2, <2>3, SameMeta
<1>8. CASE \/ \E r \in Readers : SnapshotDB(r) \/ SnapshotCache(r) \/ readBlock(r) \/ EndRead(r)
           \/ \E r \in Readers, b \in Blocks : blockFile(r, b)
  <2>1. UNCHANGED <<metaVars, tx>>
    BY <1>8 DEF SnapshotDB, SnapshotCache, readBlock, EndRead, blockFile, metaVars
  <2>2. UNCHANGED <<ldb, cachedKeys, cachedRemove, View>>
    BY <2>1 DEF metaVars, View
  <2>3. MetaInv'
    BY <2>1, <2>2 DEF MetaInv
  <2>4. ReadersOK' /\ [Store!StoreNext]_(Store!storeVars)
    BY <1>8, ReaderRefines
  <2> QED
    BY <2>3, <2>4
<1> QED
  BY <1>1, <1>2, <1>3, <1>4, <1>5, <1>6, <1>7, <1>8 DEF BlockDBNext, TxStep

(* A new database is an empty store.                                       *)
LEMMA InitRefines == BlockDBInit => MetaInv /\ ReadersOK /\ Store!StoreInit
<1> SUFFICES ASSUME BlockDBInit PROVE MetaInv /\ ReadersOK /\ Store!StoreInit
  OBVIOUS
<1>1. ldb = initDB /\ cachedKeys = NoKeys /\ cachedRemove = {} /\ tx = NoTx
  BY DEF BlockDBInit
<1>2. DOMAIN initDB = MetaKeys /\ initDB["count"] = 0
  BY Sizes DEF initDB
<1>3. DOMAIN cachedKeys = {}
  BY <1>1 DEF NoKeys
<1>4. /\ DOMAIN NoTx = TxFields /\ NoTx.stage = "none" /\ NoTx.blocks = <<>>
      /\ DOMAIN NoTx.keys = {} /\ NoTx.remove = {}
  BY DEF NoTx, TxFields, NoKeys
<1>5. MetaInv
  BY <1>1, <1>2, <1>3, <1>4 DEF MetaInv, Writing
<1>6. \A k \in MetaKeys : View[k] = ldb[k]
  BY <1>1, <1>3, LayerRow DEF View
<1>7. Contents(View) = Contents(ldb) /\ Contents(View).count = 0
  BY <1>1, <1>2, <1>6, SameContents, Sizes DEF Contents
<1>8. DOMAIN rd = Readers /\ \A r \in Readers : rd[r].stage = "idle" /\ DOMAIN rd[r] = RdFields
  BY DEF BlockDBInit, NoRead, RdFields
<1>9. ReadersOK
  BY <1>8 DEF ReadersOK
<1>10. Store!StoreInit
  BY <1>7, <1>8 DEF Store!StoreInit, ViewOf
<1> QED
  BY <1>5, <1>9, <1>10

(* A commit is one step; a crash, with or without a power loss, goes back  *)
(* to a state that was committed and saved; and a reader sees what is      *)
(* there when it takes its snapshot of the cache, or misses what a flush   *)
(* saved since its snapshot of leveldb, and nothing else (Snapshot,        *)
(* commitTx, flush).                                                       *)
THEOREM DBImplementsAtomicStore == BlockDBSpec => ImplementsAtomicStore
<1>1. BlockDBInit => MetaInv /\ ReadersOK /\ Store!StoreInit
  BY InitRefines
<1>2. MetaInv /\ ReadersOK /\ [BlockDBNext]_dbVars => (MetaInv /\ ReadersOK)' /\ [Store!StoreNext]_(Store!storeVars)
  BY StepsRefine
<1> QED
  BY <1>1, <1>2, PTL DEF BlockDBSpec, ImplementsAtomicStore, Store!StoreSpec

=============================================================================
