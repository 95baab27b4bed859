-------------------------- MODULE BlockChainProofs --------------------------
(***************************************************************************)
(* For every block tree, with crashes and restarts after any step: the     *)
(* in-memory chain and the database agree between any two steps of         *)
(* ProcessBlock, what a crash goes back to can always be loaded, the main  *)
(* chain holds no block known to be invalid, and between calls every       *)
(* status is in the database and no block is pooled and indexed.           *)
(*                                                                         *)
(* These depend on each other, and on facts about the middle of a call:    *)
(* a node is only added once its block is stored and its parent is in the  *)
(* index (NodeOK), and the second phase of a reorganization only attaches  *)
(* blocks whose validity the check phase has established (ReorgOK).        *)
(*                                                                         *)
(* The last part is about the rule changes of Deployments: their states    *)
(* are those of the branch alone, whatever has been asked before.          *)
(***************************************************************************)
EXTENDS BlockChain, Deployments, UtxoProofs

Bodies == Blocks \ {Genesis}
Bad == {"ValidateFailed", "InvalidAncestor"}

-----------------------------------------------------------------------------
(* Picking blocks.                                                        *)

(* The lists of a reorganization have a first and a last block.            *)
LEMMA LowestInSet ==
    ASSUME NEW S \in SUBSET Blocks, S # {}
    PROVE  Lowest(S) \in S
<1> DEFINE T == {Height[b] : b \in S}
<1>1. T \in SUBSET Nat /\ T # {}
  BY TreeAssumption
<1>2. PICK m \in T : \A k \in T : m <= k
  BY <1>1, LeastNatural
<1>3. \E b \in S : \A c \in S : Height[b] <= Height[c]
  BY <1>2
<1> QED
  BY <1>3 DEF Lowest

(* Highest picks a member of a set of blocks that nothing in it exceeds.   *)
LEMMA HighestInSet ==
    ASSUME NEW S \in SUBSET Blocks, S # {}
    PROVE  Highest(S) \in S
<1> DEFINE U == {n \in Nat : \A b \in S : Height[b] <= n}
<1>1. Cardinality(Blocks) \in U
  BY HeightBounded
<1>2. PICK m \in U : \A k \in U : m <= k
  <2>1. U \in SUBSET Nat /\ U # {}
    BY <1>1
  <2> HIDE DEF U
  <2> QED
    BY <2>1, LeastNatural
<1>3. \E b \in S : Height[b] = m
  <2>1. SUFFICES ASSUME \A b \in S : Height[b] # m PROVE FALSE
    OBVIOUS
  <2>2. PICK b \in S : TRUE
    OBVIOUS
  <2>3. \A c \in S : Height[c] \in Nat /\ Height[c] <= m - 1
    BY <1>2, <2>1, HeightBounded
  <2>4. m - 1 \in Nat
    BY <1>2, <2>2, <2>3
  <2>5. m - 1 \in U
    BY <2>3, <2>4
  <2> QED
    BY <1>2, <2>5
<1>4. \E b \in S : \A c \in S : Height[c] <= Height[b]
  BY <1>2, <1>3
<1> QED
  BY <1>4 DEF Highest

-----------------------------------------------------------------------------
(* The database: what its transactions do to the buckets concerned.        *)

DBFields == {"blocks", "rows", "main", "tip", "totalTxns", "utxo", "journal"}

(* flushToDB changes the index rows and nothing else.                      *)
LEMMA FlushedFields ==
    ASSUME NEW d, DOMAIN d = DBFields, NEW st, NEW dirt
    PROVE  /\ DOMAIN Flushed(d, st, dirt) = DBFields
           /\ Flushed(d, st, dirt).tip = d.tip
           /\ Flushed(d, st, dirt).main = d.main
           /\ Flushed(d, st, dirt).blocks = d.blocks
           /\ Flushed(d, st, dirt).rows
                 = [b \in Blocks |-> IF b \in dirt THEN st[b] ELSE d.rows[b]]
  BY DEF Flushed, DBFields

(* The transaction of connectBlock: what it does to the tip, the hash      *)
(* index and the rest.                                                     *)
LEMMA ConnectFields ==
    ASSUME NEW d, DOMAIN d = DBFields, NEW b
    PROVE  /\ DOMAIN ConnectBlockTx(d, b) = DBFields
           /\ ConnectBlockTx(d, b).tip = b
           /\ ConnectBlockTx(d, b).main = d.main \cup {b}
           /\ ConnectBlockTx(d, b).blocks = d.blocks
           /\ ConnectBlockTx(d, b).rows = d.rows
  BY DEF ConnectBlockTx, DBFields

(* The transaction of disconnectBlock likewise.                            *)
LEMMA DisconnectFields ==
    ASSUME NEW d, DOMAIN d = DBFields, NEW b
    PROVE  /\ DOMAIN DisconnectBlockTx(d, b) = DBFields
           /\ DisconnectBlockTx(d, b).tip = Parent[b]
           /\ DisconnectBlockTx(d, b).main = d.main \ {b}
           /\ DisconnectBlockTx(d, b).blocks = d.blocks
           /\ DisconnectBlockTx(d, b).rows = d.rows
  BY DEF DisconnectBlockTx, DBFields

(* A database that initChainState can load, and whose main chain is valid. *)
DBOK(d) ==
    /\ DOMAIN d = DBFields
    /\ d.tip \in Blocks /\ d.main = Ancestors[d.tip]
    /\ d.rows \in [Blocks -> SUBSET StatusFlag]
    /\ \A b \in Blocks : d.rows[b] # {} => b \in d.blocks
    /\ \A b \in Bodies : d.rows[b] # {} => d.rows[Parent[b]] # {}
    /\ \A b \in d.main : "Valid" \in d.rows[b] /\ d.rows[b] \cap Bad = {}

-----------------------------------------------------------------------------
(* The inductive invariant.                                                *)

(* While the process runs, memory and database agree.                      *)
MemOK ==
    /\ index \subseteq Blocks /\ dirty \subseteq index
    /\ status \in [Blocks -> SUBSET StatusFlag]
    /\ tip = db.tip
    /\ \A b \in Blocks : b \in index <=> db.rows[b] # {}
    /\ \A b \in index \ dirty : status[b] = db.rows[b]
    /\ \A b \in index : status[b] # {}
    /\ \A b \in db.main : "Valid" \in status[b] /\ status[b] \cap Bad = {}

(* Statuses wait for a flush only during a reorganization.                 *)
DirtyOK == dirty # {} => pc \in {"verify", "switch", "reorganized"}

(* The orphan pool: what the slices hold is pooled, and not indexed.       *)
OrphansOK ==
    /\ prevOrphans \in [Parents -> Seq(Bodies)]
    /\ \A p \in Parents : Elements(prevOrphans[p]) \subseteq orphans
    /\ orphans \cap index = {}
    /\ pc = "down" => orphans = {}

(* The block maybeAcceptBlock is working on.                               *)
NodeOK ==
    /\ pc \in {"accept", "addnode", "check", "connect", "choose", "verify", "switch",
               "reorganized"} => node \in Bodies
    /\ pc \in {"accept", "addnode"} => node \notin index \cup orphans
    /\ pc = "addnode" => Parent[node] \in index /\ node \in db.blocks
    /\ pc \in {"check", "connect", "choose"} => node \in index
    /\ pc = "check" => node \notin db.main /\ status[node] = {"DataStored"}
    /\ pc = "connect" => "Valid" \in status[node] /\ status[node] \cap Bad = {}

(* The lists of a reorganization.                                          *)
ReorgOK ==
    /\ pc \in {"verify", "switch"} =>
          /\ attachNodes \subseteq index \ {Genesis} /\ detachNodes \subseteq Bodies
          /\ attachNodes \cap detachNodes = {}
          /\ \A b \in attachNodes : status[b] \cap Bad = {}
    /\ pc = "verify" => /\ attachNodes \cap db.main = {}
                        /\ \A b \in attachNodes \cap verified : "Valid" \in status[b]
    /\ pc = "switch" => \A b \in attachNodes : "Valid" \in status[b]

ChainInv ==
    /\ DBOK(db) /\ DBOK(disk)
    /\ pc # "down" => MemOK
    /\ DirtyOK
    /\ OrphansOK
    /\ NodeOK
    /\ ReorgOK

-----------------------------------------------------------------------------
(* Flushing a set of statuses that holds the dirty ones.                   *)
LEMMA FlushKeeps ==
    ASSUME DBOK(db), MemOK, NEW D, dirty \subseteq D, D \subseteq index,
           status' \in [Blocks -> SUBSET StatusFlag],
           \A b \in index \ D : status'[b] = status[b],
           \A b \in index : status'[b] # {},
           \A b \in db.main : "Valid" \in status'[b] /\ status'[b] \cap Bad = {},
           dirty' = {}, UNCHANGED <<index, tip>>, db' = Flushed(db, status', D)
    PROVE  /\ DBOK(db') /\ MemOK'
           /\ db'.main = db.main /\ db'.tip = db.tip /\ db'.blocks = db.blocks
<1>1. /\ DOMAIN db' = DBFields /\ db'.tip = db.tip /\ db'.main = db.main
      /\ db'.blocks = db.blocks
      /\ db'.rows = [b \in Blocks |-> IF b \in D THEN status'[b] ELSE db.rows[b]]
  BY FlushedFields DEF DBOK
<1>2. \A b \in Blocks : db'.rows[b] # {} <=> db.rows[b] # {}
  BY <1>1 DEF MemOK
<1>3. \A b \in db.main : b \in index /\ b \in Blocks
  BY OwnAncestor DEF DBOK, MemOK
<1>4. \A b \in index : db'.rows[b] = status'[b]
  BY <1>1 DEF MemOK
<1>5. DBOK(db')
  <2>1. db'.rows \in [Blocks -> SUBSET StatusFlag]
    BY <1>1 DEF DBOK
  <2>2. \A b \in db'.main : "Valid" \in db'.rows[b] /\ db'.rows[b] \cap Bad = {}
    BY <1>1, <1>3, <1>4
  <2>3. \A b \in Bodies : db'.rows[b] # {} => db'.rows[Parent[b]] # {}
    BY <1>2, TreeAssumption DEF DBOK, Bodies
  <2> QED
    BY <1>1, <1>2, <2>1, <2>2, <2>3 DEF DBOK
<1>6. MemOK'
  BY <1>1, <1>2, <1>4 DEF MemOK
<1> QED
  BY <1>1, <1>5, <1>6

(* The ancestors of an indexed block are indexed.                          *)
LEMMA IndexClosed ==
    ASSUME DBOK(db), MemOK
    PROVE  \A b \in index : Ancestors[b] \subseteq index
<1>1. \A b \in index \ {Genesis} : Parent[b] \in index
  BY TreeAssumption DEF DBOK, MemOK, Bodies
<1> QED
  BY <1>1, AncestorsClosed DEF MemOK

(* Connecting a block whose row says that it is valid, on top of the tip.  *)
LEMMA ConnectKeeps ==
    ASSUME NEW d, DBOK(d), NEW b \in Bodies, Parent[b] = d.tip,
           "Valid" \in d.rows[b], d.rows[b] \cap Bad = {}
    PROVE  /\ DBOK(ConnectBlockTx(d, b))
           /\ ConnectBlockTx(d, b).tip = b /\ ConnectBlockTx(d, b).rows = d.rows
           /\ ConnectBlockTx(d, b).main = d.main \cup {b}
<1> DEFINE e == ConnectBlockTx(d, b)
<1>1. /\ DOMAIN e = DBFields /\ e.tip = b /\ e.main = d.main \cup {b}
      /\ e.blocks = d.blocks /\ e.rows = d.rows
  BY ConnectFields DEF DBOK
<1> HIDE DEF e
<1>2. e.main = Ancestors[e.tip]
  BY <1>1, TreeAssumption DEF DBOK, Bodies
<1>3. DBOK(e)
  BY <1>1, <1>2 DEF DBOK, Bodies
<1> QED
  BY <1>1, <1>3 DEF e

(* Disconnecting the tip leaves a database that can be loaded.             *)
LEMMA DisconnectKeeps ==
    ASSUME NEW d, DBOK(d), NEW b \in Bodies, b = d.tip
    PROVE  /\ DBOK(DisconnectBlockTx(d, b))
           /\ DisconnectBlockTx(d, b).tip = Parent[b] /\ DisconnectBlockTx(d, b).rows = d.rows
           /\ DisconnectBlockTx(d, b).main = d.main \ {b}
<1> DEFINE e == DisconnectBlockTx(d, b)
<1>1. /\ DOMAIN e = DBFields /\ e.tip = Parent[b] /\ e.main = d.main \ {b}
      /\ e.blocks = d.blocks /\ e.rows = d.rows
  BY DisconnectFields DEF DBOK
<1> HIDE DEF e
<1>2. e.main = Ancestors[e.tip] /\ e.tip \in Blocks
  BY <1>1, TreeAssumption DEF DBOK, Bodies
<1>3. DBOK(e)
  BY <1>1, <1>2 DEF DBOK
<1> QED
  BY <1>1, <1>3 DEF e

(* Taking orphans out of the slices, and adding one.                       *)
LEMMA WithoutProperties ==
    ASSUME NEW S, NEW seq \in Seq(S), NEW gone
    PROVE  /\ Without(seq, gone) \in Seq(S)
           /\ Elements(Without(seq, gone)) = Elements(seq) \ gone
<1> DEFINE f == CHOOSE g : IsFilter(g, seq, gone)
<1>1. IsFilter(f, seq, gone)
  BY FilterExists
<1>2. Without(seq, gone) = f[Len(seq)]
  BY DEF Without, IsFilter
<1> HIDE DEF f
<1> QED
  BY <1>1, <1>2, FilterProperties

(* What the slices of the pool hold is still pooled after an update.       *)
LEMMA PoolUpdateKeeps ==
    ASSUME prevOrphans \in [Parents -> Seq(Bodies)],
           \A p \in Parents : Elements(prevOrphans[p]) \subseteq orphans,
           NEW gone, NEW added \in SUBSET Bodies, PoolUpdate(gone, added)
    PROVE  /\ prevOrphans' \in [Parents -> Seq(Bodies)]
           /\ \A p \in Parents : Elements(prevOrphans'[p]) \subseteq orphans'
           /\ orphans' = (orphans \ gone) \cup added
<1> DEFINE left(p) == Without(prevOrphans[p], gone)
           last(p) == CHOOSE h \in added : Parent[h] = p
           new(p) == IF \E h \in added : Parent[h] = p THEN Append(left(p), last(p)) ELSE left(p)
<1>1. prevOrphans' = [p \in Parents |-> new(p)] /\ orphans' = (orphans \ gone) \cup added
  BY DEF PoolUpdate
<1>2. ASSUME NEW p \in Parents
      PROVE  left(p) \in Seq(Bodies) /\ Elements(left(p)) = Elements(prevOrphans[p]) \ gone
  BY WithoutProperties
<1>3. ASSUME NEW p \in Parents, \E h \in added : Parent[h] = p PROVE last(p) \in added
  BY <1>3
<1> HIDE DEF left, last
<1>4. ASSUME NEW p \in Parents
      PROVE  new(p) \in Seq(Bodies) /\ Elements(new(p)) \subseteq (orphans \ gone) \cup added
  <2>1. CASE ~ \E h \in added : Parent[h] = p
    BY <1>2, <2>1
  <2>2. CASE \E h \in added : Parent[h] = p
    <3> DEFINE s == left(p)
               x == last(p)
    <3>1. s \in Seq(Bodies) /\ x \in added /\ Elements(s) \subseteq orphans \ gone
      BY <1>2, <1>3, <2>2
    <3> HIDE DEF s, x
    <3>2. Append(s, x) \in Seq(Bodies)
      BY <3>1
    <3>3. Elements(Append(s, x)) \subseteq Elements(s) \cup {x}
      BY <3>1 DEF Elements
    <3>4. new(p) = Append(s, x)
      BY <2>2 DEF s, x
    <3> HIDE DEF new
    <3> QED
      BY <3>1, <3>2, <3>3, <3>4
  <2> QED
    BY <2>1, <2>2
<1> HIDE DEF new
<1> QED
  BY <1>1, <1>4

-----------------------------------------------------------------------------
(* ProcessBlock up to the first change of state.                           *)

(* createChainState establishes the invariant.                             *)
LEMMA InitKeeps == Init => ChainInv
<1> SUFFICES ASSUME Init PROVE ChainInv
  OBVIOUS
<1>1. /\ DOMAIN db = DBFields /\ db.tip = Genesis /\ db.main = {Genesis} /\ db.blocks = {Genesis}
      /\ db.rows = [b \in Blocks |-> IF b = Genesis THEN {"DataStored", "Valid"} ELSE {}]
      /\ disk = db
  BY DEF Init, genesisDB, DBFields
<1>2. DBOK(db) /\ DBOK(disk)
  <2>1. db.rows \in [Blocks -> SUBSET StatusFlag]
    BY <1>1 DEF StatusFlag
  <2>2. \A b \in Blocks : db.rows[b] # {} => b = Genesis
    BY <1>1
  <2>3. db.rows[Genesis] = {"DataStored", "Valid"} /\ db.main = Ancestors[db.tip]
    BY <1>1, TreeAssumption
  <2>4. DBOK(db)
    BY <1>1, <2>1, <2>2, <2>3, TreeAssumption DEF DBOK, Bodies, Bad
  <2> QED
    BY <1>1, <2>4
<1>3. MemOK
  <2>1. index = {Genesis} /\ dirty = {} /\ status = db.rows /\ tip = db.tip
    BY <1>1 DEF Init
  <2>2. \A b \in Blocks : b = Genesis <=> db.rows[b] # {}
    BY <1>1
  <2>3. db.main = {Genesis} /\ Genesis \in Blocks
    BY <1>1, TreeAssumption
  <2> QED
    BY <1>2, <2>1, <2>2, <2>3 DEF MemOK, DBOK
<1>4. OrphansOK
  <2>1. \A p \in Parents : prevOrphans[p] = <<>>
    BY DEF Init, PoolInit
  <2>2. Elements(<<>>) = {}
    BY DEF Elements
  <2>3. prevOrphans \in [Parents -> Seq(Bodies)] /\ orphans = {}
    BY DEF Init, PoolInit
  <2> QED
    BY <2>1, <2>2, <2>3 DEF OrphansOK
<1>5. DirtyOK /\ NodeOK /\ ReorgOK
  BY DEF Init, DirtyOK, NodeOK, ReorgOK
<1> QED
  BY <1>2, <1>3, <1>4, <1>5 DEF ChainInv

(* A call that ends leaves the rest of the invariant to be shown.          *)
LEMMA IdleKeeps ==
    ASSUME pc' = "idle", DBOK(db'), DBOK(disk'), MemOK', dirty' = {}, OrphansOK'
    PROVE  ChainInv'
<1>1. NodeOK' /\ ReorgOK' /\ DirtyOK'
  BY DEF NodeOK, ReorgOK, DirtyOK
<1> QED
  BY <1>1 DEF ChainInv

(* A step that leaves the index, the database and the pool alone.          *)
LEMMA CallKeeps ==
    ASSUME ChainInv, pc # "down", pc' # "down", NodeOK', ReorgOK', DirtyOK',
           UNCHANGED <<orphanVars, index, status, dirty, tip, db, disk>>
    PROVE  ChainInv'
<1>1. MemOK'
  BY DEF ChainInv, MemOK
<1>2. OrphansOK'
  BY DEF ChainInv, OrphansOK, orphanVars
<1>3. DBOK(db') /\ DBOK(disk')
  BY DEF ChainInv
<1> QED
  BY <1>1, <1>2, <1>3 DEF ChainInv

(* ProcessBlock turns a block away.                                        *)
LEMMA ProcessRejectedKeeps ==
    ASSUME ChainInv, NEW b \in Bodies, ProcessRejected(b)
    PROVE  ChainInv'
<1>1. pc = "idle" /\ pc' = "idle" /\ dirty = {} /\ dirty' = {}
  BY DEF ProcessRejected, Return, indexVars, ChainInv, DirtyOK
<1>2. NodeOK' /\ ReorgOK' /\ DirtyOK'
  BY <1>1 DEF NodeOK, ReorgOK, DirtyOK
<1> QED
  BY <1>1, <1>2, CallKeeps DEF ProcessRejected, indexVars

(* ProcessBlock pools a block whose parent is unknown.                     *)
LEMMA ProcessOrphanKeeps ==
    ASSUME ChainInv, NEW b \in Bodies, ProcessOrphanBlock(b)
    PROVE  ChainInv'
<1>1. pc = "idle" /\ pc' = "idle" /\ dirty = {} /\ dirty' = {} /\ b \notin index
  BY DEF ProcessOrphanBlock, Return, indexVars, ChainInv, DirtyOK, blockExists
<1>2. PICK gone : PoolUpdate(gone, {b})
  BY DEF ProcessOrphanBlock, addOrphanBlock
<1>3. /\ prevOrphans' \in [Parents -> Seq(Bodies)]
      /\ \A p \in Parents : Elements(prevOrphans'[p]) \subseteq orphans'
      /\ orphans' = (orphans \ gone) \cup {b}
  BY <1>2, PoolUpdateKeeps DEF ChainInv, OrphansOK
<1>4. OrphansOK'
  BY <1>1, <1>3 DEF ChainInv, OrphansOK, ProcessOrphanBlock, indexVars
<1>5. MemOK' /\ DBOK(db') /\ DBOK(disk')
  BY <1>1 DEF ChainInv, MemOK, ProcessOrphanBlock, indexVars
<1> QED
  BY <1>1, <1>4, <1>5, IdleKeeps

(* ProcessBlock goes on to maybeAcceptBlock.                               *)
LEMMA ProcessBlockKeeps ==
    ASSUME ChainInv, NEW b \in Bodies, NEW f \in FastAdd, ProcessBlock(b, f)
    PROVE  ChainInv'
<1>1. pc = "idle" /\ pc' = "accept" /\ dirty = {} /\ dirty' = {} /\ node' = b
  BY DEF ProcessBlock, indexVars, ChainInv, DirtyOK
<1>2. node' \notin index' \cup orphans'
  BY DEF ProcessBlock, indexVars, orphanVars, blockExists
<1>3. NodeOK' /\ ReorgOK' /\ DirtyOK'
  BY <1>1, <1>2 DEF NodeOK, ReorgOK, DirtyOK
<1> QED
  BY <1>1, <1>3, CallKeeps DEF ProcessBlock, indexVars

-----------------------------------------------------------------------------
(* maybeAcceptBlock and connectBestChain.                                  *)

(* maybeAcceptBlock refuses a block.                                       *)
LEMMA RejectBlockKeeps ==
    ASSUME ChainInv, RejectBlock
    PROVE  ChainInv'
<1>1. pc = "accept" /\ pc' = "idle" /\ dirty = {} /\ dirty' = {}
  BY DEF RejectBlock, AcceptFails, Return, indexVars, ChainInv, DirtyOK
<1>2. NodeOK' /\ ReorgOK' /\ DirtyOK'
  BY <1>1 DEF NodeOK, ReorgOK, DirtyOK
<1> QED
  BY <1>1, <1>2, CallKeeps DEF RejectBlock, AcceptFails, indexVars

(* The block is stored before it has a node: its row comes later.          *)
LEMMA StoreBlockKeeps ==
    ASSUME ChainInv, StoreBlock
    PROVE  ChainInv'
<1>1. /\ pc = "accept" /\ pc' = "addnode" /\ node' = node /\ node \in Bodies
      /\ node \notin index \cup orphans /\ Parent[node] \in index
      /\ UNCHANGED <<index, status, dirty, tip, disk, orphans, prevOrphans>>
  BY DEF StoreBlock, ChainInv, NodeOK, indexVars, orphanVars
<1>2. /\ DOMAIN db' = DBFields /\ db'.blocks = db.blocks \cup {node} /\ db'.rows = db.rows
      /\ db'.main = db.main /\ db'.tip = db.tip
  BY DEF StoreBlock, ChainInv, DBOK, DBFields
<1>3. DBOK(db') /\ DBOK(disk')
  BY <1>1, <1>2 DEF ChainInv, DBOK
<1>4. MemOK'
  BY <1>1, <1>2 DEF ChainInv, MemOK
<1>5. OrphansOK' /\ DirtyOK' /\ ReorgOK'
  BY <1>1 DEF ChainInv, OrphansOK, DirtyOK, ReorgOK
<1>6. NodeOK'
  BY <1>1, <1>2 DEF NodeOK
<1> QED
  BY <1>3, <1>4, <1>5, <1>6 DEF ChainInv

(* The node is added and its row flushed: the block is stored, its parent  *)
(* has a row.                                                              *)
LEMMA AddNodeKeeps ==
    ASSUME ChainInv, AddNode
    PROVE  ChainInv'
<1>1. /\ pc = "addnode" /\ pc' = "check" /\ node' = node /\ node \in Bodies /\ node \in Blocks
      /\ node \notin index \cup orphans /\ Parent[node] \in index /\ node \in db.blocks
      /\ dirty = {} /\ dirty' = {} /\ index' = index \cup {node}
      /\ UNCHANGED <<tip, disk, orphans, prevOrphans>>
  BY DEF AddNode, ChainInv, NodeOK, DirtyOK, orphanVars, Bodies
<1>2. MemOK /\ DBOK(db)
  BY <1>1 DEF ChainInv
<1>3. /\ status' \in [Blocks -> SUBSET StatusFlag] /\ status'[node] = {"DataStored"}
      /\ \A b \in Blocks \ {node} : status'[b] = status[b]
  BY <1>1, <1>2 DEF AddNode, MemOK, StatusFlag
<1>4. /\ DOMAIN db' = DBFields /\ db'.tip = db.tip /\ db'.main = db.main
      /\ db'.blocks = db.blocks
      /\ db'.rows = [b \in Blocks |-> IF b = node THEN {"DataStored"} ELSE db.rows[b]]
  <2>1. /\ DOMAIN db' = DBFields /\ db'.tip = db.tip /\ db'.main = db.main
        /\ db'.blocks = db.blocks
        /\ db'.rows = [b \in Blocks |-> IF b \in dirty \cup {node} THEN status'[b] ELSE db.rows[b]]
    <3>1. DOMAIN db = DBFields /\ db' = Flushed(db, status', dirty \cup {node})
      BY <1>2 DEF AddNode, DBOK
    <3> DEFINE st == status'
               dirt == dirty \cup {node}
    <3>2. /\ DOMAIN Flushed(db, st, dirt) = DBFields
          /\ Flushed(db, st, dirt).tip = db.tip
          /\ Flushed(db, st, dirt).main = db.main
          /\ Flushed(db, st, dirt).blocks = db.blocks
          /\ Flushed(db, st, dirt).rows
                = [b \in Blocks |-> IF b \in dirt THEN st[b] ELSE db.rows[b]]
      <4> HIDE DEF st, dirt
      <4> QED
        BY <3>1, FlushedFields
    <3> QED
      BY <3>1, <3>2, Zenon
  <2>2. \A b \in Blocks : (IF b \in dirty \cup {node} THEN status'[b] ELSE db.rows[b])
                             = (IF b = node THEN {"DataStored"} ELSE db.rows[b])
    BY <1>1, <1>3
  <2>3. [b \in Blocks |-> IF b \in dirty \cup {node} THEN status'[b] ELSE db.rows[b]]
           = [b \in Blocks |-> IF b = node THEN {"DataStored"} ELSE db.rows[b]]
    BY <2>2
  <2>4. db'.rows = [b \in Blocks |-> IF b = node THEN {"DataStored"} ELSE db.rows[b]]
    BY <2>1, <2>3, Zenon
  <2> QED
    BY <2>1, <2>4, Zenon
<1>5. node \notin db.main
  BY <1>1, <1>2, OwnAncestor DEF MemOK, DBOK
<1>6. DBOK(db') /\ DBOK(disk')
  <2>1. db'.rows \in [Blocks -> SUBSET StatusFlag]
    BY <1>2, <1>4 DEF DBOK, StatusFlag
  <2>2. \A b \in Bodies : db'.rows[b] # {} => db'.rows[Parent[b]] # {}
    BY <1>1, <1>2, <1>4, TreeAssumption DEF DBOK, MemOK, Bodies
  <2>3. \A b \in db'.main : "Valid" \in db'.rows[b] /\ db'.rows[b] \cap Bad = {}
    BY <1>2, <1>4, <1>5, OwnAncestor DEF DBOK
  <2>4. \A b \in Blocks : db'.rows[b] # {} => b \in db'.blocks
    BY <1>1, <1>2, <1>4 DEF DBOK
  <2> QED
    BY <1>1, <1>2, <1>4, <2>1, <2>2, <2>3, <2>4 DEF DBOK, ChainInv
<1>7. MemOK'
  <2>1. \A b \in db.main : b \in Blocks \ {node}
    BY <1>2, <1>5, OwnAncestor DEF DBOK
  <2>2. \A b \in Blocks : b \in index' <=> db'.rows[b] # {}
    BY <1>1, <1>2, <1>4 DEF MemOK
  <2>3. \A b \in index' : status'[b] = db'.rows[b] /\ status'[b] # {}
    BY <1>1, <1>2, <1>3, <1>4 DEF MemOK
  <2>4. \A b \in db'.main : "Valid" \in status'[b] /\ status'[b] \cap Bad = {}
    BY <1>2, <1>3, <1>4, <2>1 DEF MemOK
  <2>5. index' \subseteq Blocks /\ tip' = db'.tip
    BY <1>1, <1>2, <1>4 DEF MemOK
  <2> QED
    BY <1>1, <1>3, <2>2, <2>3, <2>4, <2>5 DEF MemOK
<1>8. OrphansOK' /\ DirtyOK' /\ ReorgOK'
  BY <1>1 DEF ChainInv, OrphansOK, DirtyOK, ReorgOK
<1>9. NodeOK'
  BY <1>1, <1>3, <1>4, <1>5 DEF NodeOK
<1> QED
  BY <1>6, <1>7, <1>8, <1>9 DEF ChainInv

(* The verdict of checkConnectBlock.                                       *)
LEMMA VerdictKeeps ==
    ASSUME ChainInv, pc = "check", NEW flag \in {"Valid", "ValidateFailed"},
           status' = Flagged({node}, flag), db' = Flushed(db, status', dirty \cup {node}),
           dirty' = {}, UNCHANGED <<index, tip>>
    PROVE  /\ DBOK(db') /\ MemOK' /\ node \in index
           /\ status'[node] = {"DataStored", flag}
<1>1. MemOK /\ DBOK(db) /\ node \in index /\ node \in Blocks /\ node \notin db.main
      /\ status[node] = {"DataStored"} /\ dirty = {}
  BY DEF ChainInv, NodeOK, DirtyOK, Bodies
<1>2. /\ status' \in [Blocks -> SUBSET StatusFlag]
      /\ status'[node] = {"DataStored", flag}
      /\ \A b \in Blocks \ {node} : status'[b] = status[b]
  BY <1>1 DEF Flagged, MemOK, StatusFlag
<1>3. \A b \in index : status'[b] # {}
  BY <1>1, <1>2 DEF MemOK
<1>4. \A b \in db.main : "Valid" \in status'[b] /\ status'[b] \cap Bad = {}
  <2>1. \A b \in db.main : b \in Blocks \ {node}
    BY <1>1, OwnAncestor DEF DBOK
  <2> QED
    BY <2>1, <1>1, <1>2 DEF MemOK
<1>5. DBOK(db') /\ MemOK'
  <2> DEFINE D == dirty \cup {node}
  <2>1. dirty \subseteq D /\ D \subseteq index /\ \A b \in index \ D : status'[b] = status[b]
    BY <1>1, <1>2 DEF MemOK
  <2> HIDE DEF D
  <2>2. db' = Flushed(db, status', D)
    BY DEF D
  <2> QED
    BY <1>1, <1>2, <1>3, <1>4, <2>1, <2>2, FlushKeeps
<1> QED
  BY <1>1, <1>2, <1>5

(* connectBestChain records that a block failed; the block is on no main   *)
(* chain yet.                                                              *)
LEMMA CheckFailsKeeps ==
    ASSUME ChainInv, CheckFails
    PROVE  ChainInv'
<1>1. DBOK(db') /\ MemOK'
  BY VerdictKeeps DEF CheckFails, AcceptFails
<1>2. DBOK(disk') /\ pc' = "idle" /\ dirty' = {}
  BY DEF CheckFails, AcceptFails, Return, ChainInv
<1>3. OrphansOK'
  BY <1>2 DEF CheckFails, AcceptFails, ChainInv, OrphansOK, orphanVars
<1> QED
  BY <1>1, <1>2, <1>3, IdleKeeps

(* connectBestChain records that a block is valid.                         *)
LEMMA CheckPassesKeeps ==
    ASSUME ChainInv, CheckPasses
    PROVE  ChainInv'
<1>1. DBOK(db') /\ MemOK' /\ node \in index /\ status'[node] = {"DataStored", "Valid"}
  BY VerdictKeeps DEF CheckPasses
<1>2. /\ DBOK(disk') /\ pc' = "connect" /\ dirty' = {} /\ node' = node /\ node \in Bodies
      /\ index' = index
  BY DEF CheckPasses, ChainInv, NodeOK
<1>3. OrphansOK' /\ DirtyOK' /\ ReorgOK'
  BY <1>2 DEF CheckPasses, ChainInv, OrphansOK, orphanVars, DirtyOK, ReorgOK
<1>4. NodeOK'
  BY <1>1, <1>2 DEF NodeOK, Bad
<1> QED
  BY <1>1, <1>2, <1>3, <1>4 DEF ChainInv

(* connectBlock on a block that extends the tip, or an error that is only  *)
(* logged.                                                                 *)
LEMMA ConnectToTipKeeps ==
    ASSUME ChainInv, ConnectToTip
    PROVE  ChainInv'
<1>1. /\ pc = "connect" /\ pc' \in {"accepted", "choose"} /\ node' = node
      /\ node \in Bodies /\ node \in index /\ dirty = {}
      /\ "Valid" \in status[node] /\ status[node] \cap Bad = {}
      /\ UNCHANGED <<orphans, prevOrphans, index, status, disk>>
      /\ MemOK /\ DBOK(db) /\ DBOK(disk)
  BY DEF ConnectToTip, ChainInv, NodeOK, DirtyOK, orphanVars
<1>2. OrphansOK' /\ ReorgOK' /\ NodeOK'
  BY <1>1 DEF ChainInv, OrphansOK, ReorgOK, NodeOK
<1>3. CASE ExtendsTip(node)
  <2> DEFINE d == Flushed(db, status, dirty)
  <2>1. /\ DOMAIN d = DBFields /\ d.tip = db.tip /\ d.main = db.main /\ d.blocks = db.blocks
        /\ d.rows = [b \in Blocks |-> IF b \in dirty THEN status[b] ELSE db.rows[b]]
    BY <1>1, FlushedFields DEF DBOK
  <2>2. d.rows = db.rows
    BY <1>1, <2>1 DEF DBOK
  <2>3. db' = ConnectBlockTx(d, node) /\ tip' = node /\ dirty' = {}
    BY <1>3 DEF ConnectToTip
  <2> HIDE DEF d
  <2>4. DBOK(d)
    BY <1>1, <2>1, <2>2 DEF DBOK
  <2>5. Parent[node] = d.tip /\ "Valid" \in d.rows[node] /\ d.rows[node] \cap Bad = {}
    BY <1>1, <1>3, <2>1, <2>2 DEF ExtendsTip, MemOK
  <2>6. DBOK(db') /\ db'.tip = node /\ db'.rows = db.rows /\ db'.main = db.main \cup {node}
    BY <1>1, <2>1, <2>2, <2>3, <2>4, <2>5, ConnectKeeps
  <2>7. MemOK'
    BY <1>1, <2>3, <2>6 DEF MemOK
  <2>8. DirtyOK'
    BY <2>3 DEF DirtyOK
  <2> QED
    BY <1>1, <1>2, <2>6, <2>7, <2>8 DEF ChainInv
<1>4. CASE ~ExtendsTip(node)
  <2>1. UNCHANGED <<db, tip, dirty>>
    BY <1>4 DEF ConnectToTip
  <2>2. MemOK' /\ DirtyOK'
    BY <1>1, <2>1 DEF MemOK, DirtyOK
  <2> QED
    BY <1>1, <1>2, <2>1, <2>2 DEF ChainInv
<1> QED
  BY <1>3, <1>4

(* The block has no more work than the tip.                                *)
LEMMA KeepBestChainKeeps ==
    ASSUME ChainInv, KeepBestChain
    PROVE  ChainInv'
<1>1. pc = "choose" /\ pc' = "accepted" /\ dirty = {} /\ dirty' = {}
  BY DEF KeepBestChain, ChainInv, DirtyOK
<1>2. NodeOK' /\ ReorgOK' /\ DirtyOK'
  BY <1>1 DEF NodeOK, ReorgOK, DirtyOK
<1> QED
  BY <1>1, <1>2, CallKeeps DEF KeepBestChain

(* The blocks of the branch of node are indexed and not on the main chain. *)
LEMMA BranchFacts ==
    ASSUME ChainInv, pc = "choose"
    PROVE  /\ MemOK /\ DBOK(db) /\ node \in Bodies /\ dirty = {}
           /\ Branch \subseteq index \ {Genesis} /\ Branch \cap db.main = {}
           /\ bestChain = db.main /\ bestChain \ Ancestors[node] \subseteq Bodies
<1>1. MemOK /\ DBOK(db) /\ node \in Bodies /\ node \in Blocks /\ node \in index /\ dirty = {}
  BY DEF ChainInv, NodeOK, DirtyOK, Bodies
<1>2. bestChain = db.main /\ db.tip \in Blocks
  BY <1>1 DEF bestChain, MemOK, DBOK
<1>3. Genesis \in db.main /\ Genesis \in Ancestors[node] /\ db.main \subseteq Blocks
  BY <1>1, <1>2, GenesisIsAncestor, OwnAncestor DEF DBOK
<1>4. Ancestors[node] \subseteq index
  BY <1>1, IndexClosed
<1> QED
  BY <1>1, <1>2, <1>3, <1>4 DEF Branch, Bodies

(* A branch with an invalid block: those flagged are off the main chain.   *)
LEMMA RefuseBranchKeeps ==
    ASSUME ChainInv, RefuseBranch
    PROVE  ChainInv'
<1>1. pc = "choose" /\ pc' = "accepted" /\ dirty' = {} /\ UNCHANGED <<index, tip, disk>>
  BY DEF RefuseBranch
<1>2. /\ MemOK /\ DBOK(db) /\ Branch \subseteq index /\ Branch \cap db.main = {}
      /\ dirty = {} /\ DBOK(disk) /\ OrphansOK
  BY <1>1, BranchFacts DEF ChainInv
<1>3. PICK S \in SUBSET Branch : status' = Flagged(S, "InvalidAncestor")
  BY DEF RefuseBranch
<1>4. /\ status' \in [Blocks -> SUBSET StatusFlag]
      /\ \A b \in Blocks : status[b] \subseteq status'[b]
      /\ \A b \in Blocks \ Branch : status'[b] = status[b]
  BY <1>2, <1>3 DEF Flagged, MemOK, StatusFlag
<1>5. \A b \in db.main : "Valid" \in status'[b] /\ status'[b] \cap Bad = {}
  <2>1. \A b \in db.main : b \in Blocks \ Branch
    BY <1>2, OwnAncestor DEF DBOK
  <2> QED
    BY <2>1, <1>2, <1>4 DEF MemOK
<1>6. \A b \in index : status'[b] # {}
  BY <1>2, <1>4 DEF MemOK
<1>7. DBOK(db') /\ MemOK'
  <2> DEFINE D == dirty \cup Branch
  <2>1. dirty \subseteq D /\ D \subseteq index /\ \A b \in index \ D : status'[b] = status[b]
    BY <1>2, <1>4 DEF MemOK
  <2>2. db' = Flushed(db, status', D)
    BY DEF RefuseBranch
  <2> HIDE DEF D
  <2> QED
    BY <1>1, <1>2, <1>4, <1>5, <1>6, <2>1, <2>2, FlushKeeps
<1>8. OrphansOK' /\ DirtyOK' /\ ReorgOK' /\ NodeOK'
  BY <1>1, <1>2 DEF RefuseBranch, OrphansOK, orphanVars, DirtyOK, ReorgOK, NodeOK
<1> QED
  BY <1>1, <1>2, <1>7, <1>8 DEF ChainInv

-----------------------------------------------------------------------------
(* reorganizeChain.                                                        *)

(* The lists of a reorganization hold indexed blocks, none of them known   *)
(* invalid.                                                                *)
LEMMA StartReorganizeKeeps ==
    ASSUME ChainInv, StartReorganize
    PROVE  ChainInv'
<1>1. /\ pc = "choose" /\ pc' = "verify" /\ ~InvalidBranch /\ node' = node
      /\ detachNodes' = bestChain \ Ancestors[node] /\ attachNodes' = Branch /\ verified' = {}
      /\ UNCHANGED <<orphanVars, index, status, dirty, tip, db, disk>>
  BY DEF StartReorganize
<1>2. /\ Branch \subseteq index \ {Genesis} /\ Branch \cap db.main = {} /\ node \in Bodies
      /\ bestChain \ Ancestors[node] \subseteq Bodies
  BY <1>1, BranchFacts
<1>3. \A b \in Branch : status[b] \cap Bad = {}
  BY <1>1 DEF InvalidBranch, InvalidBlocks, KnownInvalid, Bad
<1>4. Branch \cap (bestChain \ Ancestors[node]) = {}
  BY DEF Branch
<1>5. ReorgOK'
  BY <1>1, <1>2, <1>3, <1>4 DEF ReorgOK
<1>6. NodeOK' /\ DirtyOK'
  BY <1>1, <1>2 DEF NodeOK, DirtyOK
<1> QED
  BY <1>1, <1>5, <1>6, CallKeeps

(* A block is undone in the view only.                                     *)
LEMMA VerifyDetachKeeps ==
    ASSUME ChainInv, VerifyDetach
    PROVE  ChainInv'
<1>1. /\ pc = "verify" /\ pc' = "verify" /\ node' = node /\ node \in Bodies
      /\ UNCHANGED <<orphanVars, index, status, dirty, tip, db, disk, detachNodes, attachNodes>>
      /\ verified' = verified \cup {Highest(ToDetach)} /\ ToDetach # {}
  BY DEF VerifyDetach, ChainInv, NodeOK, indexVars
<1>2. ToDetach \in SUBSET Blocks /\ ToDetach \subseteq detachNodes
  BY <1>1 DEF ChainInv, ReorgOK, ToDetach, Bodies
<1>3. Highest(ToDetach) \in detachNodes
  BY <1>1, <1>2, HighestInSet
<1>4. ReorgOK'
  BY <1>1, <1>3 DEF ChainInv, ReorgOK
<1>5. NodeOK' /\ DirtyOK'
  BY <1>1 DEF NodeOK, DirtyOK
<1> QED
  BY <1>1, <1>4, <1>5, CallKeeps

(* A step of the check phase that changes the statuses of blocks to attach.*)
LEMMA VerdictsKeep ==
    ASSUME ChainInv, pc = "verify", pc' # "down", NEW S, S \subseteq attachNodes,
           status' \in [Blocks -> SUBSET StatusFlag],
           \A b \in Blocks : status[b] \subseteq status'[b],
           \A b \in Blocks \ S : status'[b] = status[b],
           dirty' = dirty \cup S,
           UNCHANGED <<orphanVars, index, tip, db, disk>>
    PROVE  DBOK(db') /\ DBOK(disk') /\ MemOK' /\ OrphansOK'
<1>1. MemOK /\ DBOK(db) /\ S \subseteq index /\ S \cap db.main = {}
  BY DEF ChainInv, ReorgOK
<1>2. \A b \in db.main : b \in Blocks \ S
  BY <1>1, OwnAncestor DEF DBOK
<1>3. MemOK'
  <2>1. \A b \in index' : status'[b] # {}
    BY <1>1 DEF MemOK
  <2>2. \A b \in db'.main : "Valid" \in status'[b] /\ status'[b] \cap Bad = {}
    BY <1>1, <1>2 DEF MemOK
  <2>3. \A b \in index' \ dirty' : status'[b] = db'.rows[b]
    BY <1>1 DEF MemOK
  <2>4. index' \subseteq Blocks /\ dirty' \subseteq index' /\ tip' = db'.tip
        /\ \A b \in Blocks : b \in index' <=> db'.rows[b] # {}
    BY <1>1 DEF MemOK
  <2> QED
    BY <2>1, <2>2, <2>3, <2>4 DEF MemOK
<1> QED
  BY <1>1, <1>3 DEF ChainInv, OrphansOK, orphanVars

(* A block passes the check phase: it is valid from now on.                *)
LEMMA VerifyAttachKeeps ==
    ASSUME ChainInv, VerifyAttach
    PROVE  ChainInv'
<1> DEFINE n == Lowest(ToAttach)
<1>1. /\ pc = "verify" /\ pc' = "verify" /\ node' = node /\ node \in Bodies
      /\ UNCHANGED <<orphanVars, index, tip, db, disk, detachNodes, attachNodes>>
      /\ verified' = verified \cup {n} /\ ToAttach # {}
      /\ IF KnownValid(n) THEN UNCHANGED <<status, dirty>>
         ELSE status' = Flagged({n}, "Valid") /\ dirty' = dirty \cup {n}
  BY DEF VerifyAttach, ChainInv, NodeOK
<1>2. n \in attachNodes /\ n \in Blocks
  <2>1. ToAttach \in SUBSET Blocks /\ ToAttach \subseteq attachNodes
    BY <1>1 DEF ChainInv, ReorgOK, ToAttach, MemOK
  <2> QED
    BY <1>1, <2>1, LowestInSet
<1>3. status \in [Blocks -> SUBSET StatusFlag]
  BY <1>1 DEF ChainInv, MemOK
<1> HIDE DEF n
<1>4. /\ status' \in [Blocks -> SUBSET StatusFlag] /\ "Valid" \in status'[n]
      /\ \A b \in Blocks : status'[b] \in {status[b], status[b] \cup {"Valid"}}
      /\ \A b \in Blocks \ {n} : status'[b] = status[b]
      /\ (status' = status /\ dirty' = dirty) \/ dirty' = dirty \cup {n}
  <2>1. CASE KnownValid(n)
    BY <1>1, <1>2, <1>3, <2>1 DEF KnownValid
  <2>2. CASE ~KnownValid(n)
    BY <1>1, <1>2, <1>3, <2>2 DEF Flagged, StatusFlag
  <2> QED
    BY <2>1, <2>2
<1>5. DBOK(db') /\ DBOK(disk') /\ MemOK' /\ OrphansOK'
  <2>1. CASE status' = status /\ dirty' = dirty
    BY <1>1, <2>1 DEF ChainInv, MemOK, OrphansOK, orphanVars
  <2>2. CASE dirty' = dirty \cup {n}
    BY <1>1, <1>2, <1>4, <2>2, VerdictsKeep
  <2> QED
    BY <1>4, <2>1, <2>2
<1>6. ReorgOK'
  <2>1. \A b \in attachNodes : b \in Blocks
    BY <1>1 DEF ChainInv, ReorgOK, MemOK
  <2>2. \A b \in attachNodes : status'[b] \cap Bad = {}
    BY <1>1, <1>4, <2>1 DEF ChainInv, ReorgOK, Bad
  <2>3. \A b \in attachNodes \cap verified' : "Valid" \in status'[b]
    BY <1>1, <1>4, <2>1 DEF ChainInv, ReorgOK
  <2> QED
    BY <1>1, <2>2, <2>3 DEF ChainInv, ReorgOK
<1>7. NodeOK' /\ DirtyOK'
  BY <1>1 DEF NodeOK, DirtyOK
<1> QED
  BY <1>1, <1>5, <1>6, <1>7 DEF ChainInv

(* A block fails the check phase: it and those above it are off the main   *)
(* chain.                                                                  *)
LEMMA VerifyFailsKeeps ==
    ASSUME ChainInv, VerifyFails
    PROVE  ChainInv'
<1> DEFINE n == Lowest(ToAttach)
           st == [b \in Blocks |-> status[b] \cup
                     (IF b = n THEN {"ValidateFailed"}
                      ELSE IF b \in ToAttach THEN {"InvalidAncestor"} ELSE {})]
<1>1. /\ pc = "verify" /\ pc' = "reorganized" /\ node' = node /\ node \in Bodies
      /\ UNCHANGED <<orphanVars, index, tip, db, disk>> /\ ToAttach # {}
      /\ \/ UNCHANGED <<status, dirty>>
         \/ status' = st /\ dirty' = dirty \cup ToAttach
  BY DEF VerifyFails, ChainInv, NodeOK
<1>2. n \in ToAttach /\ ToAttach \subseteq attachNodes
  <2>1. ToAttach \in SUBSET Blocks /\ ToAttach \subseteq attachNodes
    BY <1>1 DEF ChainInv, ReorgOK, ToAttach, MemOK
  <2> QED
    BY <1>1, <2>1, LowestInSet
<1>3. status \in [Blocks -> SUBSET StatusFlag]
  BY <1>1 DEF ChainInv, MemOK
<1> HIDE DEF n
<1>4. DBOK(db') /\ DBOK(disk') /\ MemOK' /\ OrphansOK'
  <2>1. CASE UNCHANGED <<status, dirty>>
    BY <1>1, <2>1 DEF ChainInv, MemOK, OrphansOK, orphanVars
  <2>2. CASE status' = st /\ dirty' = dirty \cup ToAttach
    <3>1. /\ status' \in [Blocks -> SUBSET StatusFlag]
          /\ \A b \in Blocks : status[b] \subseteq status'[b]
          /\ \A b \in Blocks \ ToAttach : status'[b] = status[b]
      BY <1>2, <1>3, <2>2 DEF StatusFlag
    <3> QED
      BY <1>1, <1>2, <2>2, <3>1, VerdictsKeep
  <2> QED
    BY <1>1, <2>1, <2>2
<1>5. ReorgOK' /\ NodeOK' /\ DirtyOK'
  BY <1>1 DEF ReorgOK, NodeOK, DirtyOK
<1> QED
  BY <1>1, <1>4, <1>5 DEF ChainInv

(* After the check phase every block to attach is known valid.             *)
LEMMA VerifyDoneKeeps ==
    ASSUME ChainInv, VerifyDone
    PROVE  ChainInv'
<1>1. /\ pc = "verify" /\ pc' = "switch" /\ node' = node /\ node \in Bodies
      /\ UNCHANGED <<orphanVars, index, status, dirty, tip, db, disk, detachNodes, attachNodes>>
      /\ attachNodes \subseteq verified
  BY DEF VerifyDone, ChainInv, NodeOK, indexVars, reorgVars, ToAttach
<1>2. ReorgOK'
  BY <1>1 DEF ChainInv, ReorgOK
<1>3. NodeOK' /\ DirtyOK'
  BY <1>1 DEF NodeOK, DirtyOK
<1> QED
  BY <1>1, <1>2, <1>3, CallKeeps

(* flushToDB of what is dirty, and nothing else.                           *)
LEMMA FlushDirtyKeeps ==
    ASSUME DBOK(db), MemOK, db' = Flushed(db, status, dirty), dirty' = {},
           UNCHANGED <<index, status, tip>>
    PROVE  DBOK(db') /\ MemOK' /\ db'.main = db.main
<1>1. db' = Flushed(db, status', dirty)
  OBVIOUS
<1>2. /\ status' \in [Blocks -> SUBSET StatusFlag] /\ dirty \subseteq index
      /\ \A b \in index \ dirty : status'[b] = status[b]
      /\ \A b \in index : status'[b] # {}
      /\ \A b \in db.main : "Valid" \in status'[b] /\ status'[b] \cap Bad = {}
  BY DEF MemOK
<1> QED
  BY <1>1, <1>2, FlushKeeps

(* The flush before a transaction of the second phase.                     *)
LEMMA FlushStatusesKeeps ==
    ASSUME ChainInv, FlushStatuses
    PROVE  ChainInv'
<1>1. /\ pc = "switch" /\ pc' = "switch" /\ node' = node /\ node \in Bodies
      /\ db' = Flushed(db, status, dirty) /\ dirty' = {}
      /\ UNCHANGED <<orphanVars, index, status, tip, disk, detachNodes, attachNodes>>
  BY DEF FlushStatuses, ChainInv, NodeOK, reorgVars
<1>2. DBOK(db') /\ MemOK'
  BY <1>1, FlushDirtyKeeps DEF ChainInv
<1>3. OrphansOK' /\ ReorgOK' /\ DirtyOK' /\ NodeOK'
  BY <1>1 DEF ChainInv, OrphansOK, orphanVars, ReorgOK, DirtyOK, NodeOK
<1> QED
  BY <1>1, <1>2, <1>3 DEF ChainInv

(* disconnectBlock on the tip.                                             *)
LEMMA DetachBlockKeeps ==
    ASSUME ChainInv, DetachBlock
    PROVE  ChainInv'
<1> DEFINE n == Highest(detachNodes)
<1>1. /\ pc = "switch" /\ pc' = "switch" /\ node' = node /\ node \in Bodies /\ dirty = {}
      /\ detachNodes # {} /\ n = tip /\ db' = DisconnectBlockTx(db, n) /\ tip' = Parent[n]
      /\ detachNodes' = detachNodes \ {n}
      /\ UNCHANGED <<orphanVars, index, status, dirty, disk, attachNodes>>
  BY DEF DetachBlock, ChainInv, NodeOK, indexVars
<1>2. MemOK /\ DBOK(db) /\ detachNodes \in SUBSET Blocks /\ detachNodes \subseteq Bodies
  BY <1>1 DEF ChainInv, ReorgOK, Bodies
<1>3. n \in Bodies
  BY <1>1, <1>2, HighestInSet
<1> HIDE DEF n
<1>4. DBOK(db') /\ db'.tip = Parent[n] /\ db'.rows = db.rows /\ db'.main = db.main \ {n}
  BY <1>1, <1>2, <1>3, DisconnectKeeps DEF MemOK
<1>5. MemOK'
  BY <1>1, <1>2, <1>4 DEF MemOK
<1>6. OrphansOK' /\ ReorgOK' /\ DirtyOK' /\ NodeOK'
  BY <1>1 DEF ChainInv, OrphansOK, orphanVars, ReorgOK, DirtyOK, NodeOK
<1> QED
  BY <1>1, <1>4, <1>5, <1>6 DEF ChainInv

(* connectBlock on the next block: it is valid, and the flush has          *)
(* happened.                                                               *)
LEMMA AttachBlockKeeps ==
    ASSUME ChainInv, AttachBlock
    PROVE  ChainInv'
<1> DEFINE n == Lowest(attachNodes)
<1>1. /\ pc = "switch" /\ pc' = "switch" /\ node' = node /\ node \in Bodies /\ dirty = {}
      /\ attachNodes # {} /\ Parent[n] = tip /\ db' = ConnectBlockTx(db, n) /\ tip' = n
      /\ attachNodes' = attachNodes \ {n}
      /\ UNCHANGED <<orphanVars, index, status, dirty, disk, detachNodes>>
  BY DEF AttachBlock, ChainInv, NodeOK, indexVars
<1>2. MemOK /\ DBOK(db) /\ attachNodes \in SUBSET Blocks /\ attachNodes \subseteq index \ {Genesis}
  BY <1>1 DEF ChainInv, ReorgOK, MemOK
<1>3. /\ n \in attachNodes /\ n \in Bodies /\ n \in index
      /\ "Valid" \in status[n] /\ status[n] \cap Bad = {}
  <2>1. n \in attachNodes
    BY <1>1, <1>2, LowestInSet
  <2> QED
    BY <1>1, <1>2, <2>1 DEF ChainInv, ReorgOK, Bodies
<1> HIDE DEF n
<1>4. "Valid" \in db.rows[n] /\ db.rows[n] \cap Bad = {} /\ Parent[n] = db.tip
  BY <1>1, <1>2, <1>3 DEF MemOK
<1>5. DBOK(db') /\ db'.tip = n /\ db'.rows = db.rows /\ db'.main = db.main \cup {n}
  BY <1>1, <1>2, <1>3, <1>4, ConnectKeeps
<1>6. MemOK'
  BY <1>1, <1>2, <1>3, <1>5 DEF MemOK
<1>7. OrphansOK' /\ ReorgOK' /\ DirtyOK' /\ NodeOK'
  BY <1>1 DEF ChainInv, OrphansOK, orphanVars, ReorgOK, DirtyOK, NodeOK
<1> QED
  BY <1>1, <1>5, <1>6, <1>7 DEF ChainInv

(* The second phase ends, or stops where it is.                            *)
LEMMA StopReorganizeKeeps ==
    ASSUME ChainInv, StopReorganize
    PROVE  ChainInv'
<1>1. /\ pc = "switch" /\ pc' = "reorganized" /\ node' = node /\ node \in Bodies
      /\ UNCHANGED <<orphanVars, index, status, dirty, tip, db, disk>>
  BY DEF StopReorganize, ChainInv, NodeOK, indexVars
<1>2. NodeOK' /\ ReorgOK' /\ DirtyOK'
  BY <1>1 DEF NodeOK, ReorgOK, DirtyOK
<1> QED
  BY <1>1, <1>2, CallKeeps

(* connectBestChain flushes what a reorganization left dirty.              *)
LEMMA EndReorganizeKeeps ==
    ASSUME ChainInv, EndReorganize
    PROVE  ChainInv'
<1>1. /\ pc = "reorganized" /\ pc' \in {"accepted", "idle"}
      /\ db' = Flushed(db, status, dirty) /\ dirty' = {}
      /\ UNCHANGED <<orphanVars, index, status, tip, disk>>
  BY DEF EndReorganize, AcceptFails, Return
<1>2. DBOK(db') /\ MemOK' /\ DBOK(disk')
  BY <1>1, FlushDirtyKeeps DEF ChainInv
<1>3. OrphansOK' /\ ReorgOK' /\ DirtyOK' /\ NodeOK'
  BY <1>1 DEF ChainInv, OrphansOK, orphanVars, ReorgOK, DirtyOK, NodeOK
<1> QED
  BY <1>2, <1>3 DEF ChainInv

-----------------------------------------------------------------------------
(* processOrphans, the process and the clock.                              *)

(* The steps of processOrphans that touch its queue only, and the return.  *)
LEMMA QueueKeeps ==
    ASSUME ChainInv, BlockAccepted \/ NextHash \/ FinishProcess
    PROVE  ChainInv'
<1>1. /\ pc \in {"accepted", "orphans"} /\ pc' \in {"orphans", "idle"} /\ dirty = {} /\ dirty' = {}
      /\ UNCHANGED <<orphanVars, index, status, dirty, tip, db, disk>>
  BY DEF BlockAccepted, NextHash, FinishProcess, Return, indexVars, ChainInv, DirtyOK
<1>2. NodeOK' /\ ReorgOK' /\ DirtyOK'
  BY <1>1 DEF NodeOK, ReorgOK, DirtyOK
<1> QED
  BY <1>1, <1>2, CallKeeps

(* An orphan that leaves the pool is not indexed and not pooled any more.  *)
LEMMA NextOrphanKeeps ==
    ASSUME ChainInv, NextOrphan
    PROVE  ChainInv'
<1> DEFINE p == Head(processHashes)
           o == Head(OrphansOf(p))
<1>1. /\ pc = "orphans" /\ pc' = "accept" /\ dirty = {} /\ dirty' = {} /\ node' = o
      /\ OrphansOf(p) # <<>> /\ removeOrphanBlock(o)
      /\ UNCHANGED <<index, status, tip, db, disk>>
  BY DEF NextOrphan, indexVars, ChainInv, DirtyOK
<1>2. p \in Parents /\ prevOrphans[p] # <<>> /\ o = Head(prevOrphans[p])
  BY <1>1 DEF OrphansOf
<1>3. OrphansOK
  BY DEF ChainInv
<1>4. prevOrphans[p] \in Seq(Bodies)
  BY <1>2, <1>3 DEF OrphansOK
<1>5. o \in Bodies /\ o \in Elements(prevOrphans[p])
  <2> DEFINE s == prevOrphans[p]
  <2>1. s \in Seq(Bodies) /\ s # <<>> /\ o = Head(s)
    BY <1>2, <1>4
  <2> HIDE DEF s, o
  <2>2. 1 \in DOMAIN s /\ o = s[1] /\ o \in Bodies
    BY <2>1
  <2> QED
    BY <2>2 DEF Elements, s
<1>6. o \notin index
  BY <1>2, <1>3, <1>5 DEF OrphansOK
<1> HIDE DEF o
<1>7. /\ prevOrphans' \in [Parents -> Seq(Bodies)]
      /\ \A q \in Parents : Elements(prevOrphans'[q]) \subseteq orphans'
      /\ orphans' = (orphans \ {o}) \cup {}
  <2>1. PoolUpdate({o}, {})
    BY <1>1 DEF removeOrphanBlock
  <2> QED
    BY <2>1, <1>3, PoolUpdateKeeps DEF OrphansOK
<1>8. OrphansOK'
  BY <1>1, <1>3, <1>7 DEF OrphansOK
<1>9. NodeOK' /\ ReorgOK' /\ DirtyOK'
  BY <1>1, <1>5, <1>6, <1>7 DEF NodeOK, ReorgOK, DirtyOK
<1>10. MemOK' /\ DBOK(db') /\ DBOK(disk')
  BY <1>1 DEF ChainInv, MemOK
<1> QED
  BY <1>8, <1>9, <1>10 DEF ChainInv

(* The cache of ffldb is written out.                                      *)
LEMMA FlushCacheKeeps ==
    ASSUME ChainInv, FlushCache
    PROVE  ChainInv'
<1>1. /\ disk' = db /\ pc' = pc /\ pc # "down" /\ node' = node
      /\ UNCHANGED <<orphanVars, index, status, dirty, tip, db, detachNodes, attachNodes, verified>>
  BY DEF FlushCache, indexVars, reorgVars
<1>2. DBOK(db') /\ DBOK(disk')
  BY <1>1 DEF ChainInv
<1>3. MemOK' /\ DirtyOK'
  BY <1>1 DEF ChainInv, MemOK, DirtyOK
<1>4. OrphansOK' /\ NodeOK'
  BY <1>1 DEF ChainInv, OrphansOK, NodeOK, orphanVars
<1>5. ReorgOK'
  BY <1>1 DEF ChainInv, ReorgOK
<1> QED
  BY <1>2, <1>3, <1>4, <1>5 DEF ChainInv

(* A crash goes back to a database that was saved.                         *)
LEMMA CrashKeeps ==
    ASSUME ChainInv, Crash
    PROVE  ChainInv'
<1>1. /\ pc' = "down" /\ db' = disk /\ disk' = disk /\ orphans' = {} /\ dirty' = {}
      /\ prevOrphans' = [p \in Parents |-> <<>>]
  BY DEF Crash
<1>2. OrphansOK'
  <2>1. \A p \in Parents : prevOrphans'[p] = <<>>
    BY <1>1
  <2>2. Elements(<<>>) = {}
    BY DEF Elements
  <2>3. prevOrphans' \in [Parents -> Seq(Bodies)]
    BY <1>1
  <2> QED
    BY <1>1, <2>1, <2>2, <2>3 DEF OrphansOK
<1>3. DirtyOK' /\ NodeOK' /\ ReorgOK'
  BY <1>1 DEF DirtyOK, NodeOK, ReorgOK
<1> QED
  BY <1>1, <1>2, <1>3 DEF ChainInv

(* initChainState marks the main chain as valid, which it already is.      *)
LEMMA RestartKeeps ==
    ASSUME ChainInv, Restart
    PROVE  ChainInv'
<1>1. /\ pc = "down" /\ pc' = "idle" /\ DBOK(db) /\ DBOK(disk) /\ dirty = {} /\ orphans = {}
      /\ UNCHANGED <<orphanVars, dirty, disk>> /\ OrphansOK
      /\ index' = {b \in Blocks : db.rows[b] # {}} /\ tip' = db.tip
  BY DEF Restart, ChainInv, DirtyOK, OrphansOK
<1>2. status' = db.rows
  <2>1. \A b \in Blocks : (IF b \in Ancestors[db.tip] THEN db.rows[b] \cup {"Valid"} ELSE db.rows[b])
                             = db.rows[b]
    <3> SUFFICES ASSUME NEW b \in Blocks, b \in Ancestors[db.tip]
                 PROVE  db.rows[b] \cup {"Valid"} = db.rows[b]
      OBVIOUS
    <3>1. b \in db.main /\ "Valid" \in db.rows[b]
      BY <1>1 DEF DBOK
    <3> QED
      BY <3>1
  <2>2. status' = [b \in Blocks |-> db.rows[b]]
    BY <2>1 DEF Restart
  <2> QED
    BY <1>1, <2>2 DEF DBOK
<1>3. /\ DOMAIN db' = DBFields /\ db'.rows = db.rows /\ db'.blocks = db.blocks
      /\ db'.main = db.main /\ db'.tip = db.tip
  BY <1>1, <1>2 DEF Restart, DBOK, DBFields
<1>4. DBOK(db') /\ DBOK(disk')
  BY <1>1, <1>3 DEF DBOK
<1>5. MemOK'
  BY <1>1, <1>2, <1>3, <1>4 DEF MemOK, DBOK
<1>6. OrphansOK'
  BY <1>1 DEF OrphansOK, orphanVars
<1> QED
  BY <1>1, <1>4, <1>5, <1>6, IdleKeeps

(* A step that changes none of these variables.                            *)
LEMMA ClockKeeps ==
    ASSUME ChainInv, UNCHANGED <<prevOrphans, orphans, index, status, dirty, tip, db, disk, pc,
                                 node, detachNodes, attachNodes, verified>>
    PROVE  ChainInv'
<1>1. DBOK(db') /\ DBOK(disk') /\ (pc' # "down" => MemOK')
  BY DEF ChainInv, MemOK
<1>2. DirtyOK' /\ OrphansOK' /\ NodeOK'
  BY DEF ChainInv, DirtyOK, OrphansOK, NodeOK
<1>3. ReorgOK'
  BY DEF ChainInv, ReorgOK
<1> QED
  BY <1>1, <1>2, <1>3 DEF ChainInv

-----------------------------------------------------------------------------

(* Every step keeps the invariant.                                         *)
LEMMA NextKeeps ==
    ChainInv /\ [Next]_vars => ChainInv'
<1> SUFFICES ASSUME ChainInv, [Next]_vars PROVE ChainInv'
  OBVIOUS
<1>1. ASSUME NEW b \in Blocks \ {Genesis},
             ProcessRejected(b) \/ ProcessOrphanBlock(b) \/ \E f \in FastAdd : ProcessBlock(b, f)
      PROVE  ChainInv'
  BY <1>1, ProcessRejectedKeeps, ProcessOrphanKeeps, ProcessBlockKeeps DEF Bodies
<1>2. CASE Continue
  BY <1>2, RejectBlockKeeps, StoreBlockKeeps, AddNodeKeeps, CheckFailsKeeps, CheckPassesKeeps,
     ConnectToTipKeeps, KeepBestChainKeeps, RefuseBranchKeeps, StartReorganizeKeeps,
     VerifyDetachKeeps, VerifyAttachKeeps, VerifyFailsKeeps, VerifyDoneKeeps,
     FlushStatusesKeeps, DetachBlockKeeps, AttachBlockKeeps, StopReorganizeKeeps,
     EndReorganizeKeeps, QueueKeeps, NextOrphanKeeps
  DEF Continue
<1>3. CASE FlushCache \/ Crash \/ Restart
  BY <1>3, FlushCacheKeeps, CrashKeeps, RestartKeeps
<1>4. CASE ClockTick
  BY <1>4, ClockKeeps DEF ClockTick, Tick, indexVars, reorgVars
<1>5. CASE UNCHANGED vars
  BY <1>5, ClockKeeps DEF vars, orphanVars, indexVars, reorgVars
<1> QED
  BY <1>1, <1>2, <1>3, <1>4, <1>5 DEF Next

(* The inductive invariant holds in every state of every node.             *)
THEOREM ChainInvariance == Spec => []ChainInv
<1> QED
  BY InitKeeps, NextKeeps, PTL DEF Spec

(* The in-memory chain and the database never drift apart: same tip, same  *)
(* nodes, and a status that is not in the database is dirty.               *)
THEOREM MemoryAlwaysMatches == Spec => []MemoryMatchesDB
<1>1. ChainInv => MemoryMatchesDB
  BY DEF ChainInv, MemOK, MemoryMatchesDB
<1> QED
  BY <1>1, ChainInvariance, PTL

(* Whatever a crash leaves behind, initChainState can load it.             *)
THEOREM AlwaysRecoverable == Spec => []Recoverable
<1>1. ChainInv => Recoverable
  BY DEF ChainInv, DBOK, Recoverable, Bodies
<1> QED
  BY <1>1, ChainInvariance, PTL

(* No block that is known to be invalid is on the main chain.              *)
THEOREM MainChainNeverInvalid == Spec => []MainChainNotInvalid
<1>1. ChainInv => MainChainNotInvalid
  BY DEF ChainInv, MemOK, DBOK, MainChainNotInvalid, bestChain, KnownValid, KnownInvalid, Bad
<1> QED
  BY <1>1, ChainInvariance, PTL

(* Between calls no status waits for a flush, and no block is pooled and   *)
(* indexed at once.                                                        *)
THEOREM IdleIsAlwaysClean == Spec => []IdleIsClean
<1>1. ChainInv => IdleIsClean
  BY DEF ChainInv, DirtyOK, OrphansOK, IdleIsClean
<1> QED
  BY <1>1, ChainInvariance, PTL

-----------------------------------------------------------------------------
(* Types, and the transactions that the best state counts.                 *)

(* TotalTxns counts the transactions of the chain in the hash index.       *)
CountOK(d) ==
    /\ IsFiniteSet(TxnsOf(d.main))
    /\ d.totalTxns = Cardinality(TxnsOf(d.main))

(* The buckets that DBOK does not speak of.                                *)
BucketsOK(d) ==
    /\ d.blocks \subseteq Blocks
    /\ d.utxo \in UtxoType
    /\ d.journal \in [Blocks -> UtxoType]
    /\ CountOK(d)

CallOK ==
    /\ pc \in {"idle", "accept", "addnode", "check", "connect", "choose", "verify",
               "switch", "reorganized", "accepted", "orphans", "down"}
    /\ block \in Blocks \cup {NoBlock} /\ fastAdd \in BOOLEAN
    /\ node \in Blocks \cup {NoBlock} /\ isMainChain \in BOOLEAN
    /\ pc = "accepted" => node \in Blocks
    /\ processHashes \in Seq(Blocks)
    /\ detachNodes \subseteq Blocks /\ attachNodes \subseteq Blocks /\ verified \subseteq Blocks
    /\ err \in Error
    /\ ret \in [block : Blocks \cup {NoBlock}, isMain : BOOLEAN, isOrphan : BOOLEAN, err : Error]

ViewTyped == view \in [Outputs -> Entry \cup {NoEntry, SpentEntry}]

DownOK == pc = "down" => /\ index = {} /\ dirty = {} /\ tip = NoBlock
                         /\ status = [b \in Blocks |-> {}]

TypeInv ==
    /\ BucketsOK(db) /\ BucketsOK(disk)
    /\ workSum \in [Blocks -> Nat]
    /\ CallOK
    /\ ViewTyped
    /\ DownOK

(* A block adds its transactions to those that a chain without it counts.  *)
LEMMA TxnsOfLonger ==
    ASSUME NEW S, IsFiniteSet(TxnsOf(S)), NEW n \in Blocks, n \notin S
    PROVE  /\ IsFiniteSet(TxnsOf(S \cup {n}))
           /\ Cardinality(TxnsOf(S \cup {n})) = Cardinality(TxnsOf(S)) + Len(BlockTxs[n])
<1> DEFINE A == TxnsOf(S)
           P == Positions(n)
           B == {n} \X P
<1>1. TxnsOf(S \cup {n}) = A \cup B /\ A \cap B = {}
  BY DEF TxnsOf
<1>2. Len(BlockTxs[n]) \in Nat
  BY TxAssumption
<1>3. IsFiniteSet(P) /\ Cardinality(P) = Len(BlockTxs[n])
  BY <1>2, FS_Interval DEF Positions
<1>4. IsFiniteSet({n}) /\ Cardinality({n}) = 1
  BY FS_Singleton
<1> HIDE DEF A, P
<1>5. IsFiniteSet(B) /\ Cardinality(B) = 1 * Cardinality(P)
  BY <1>3, <1>4, FS_Product
<1>6. Cardinality(A) \in Nat /\ Cardinality(A \cap B) = 0
  BY <1>1, FS_CardinalityType, FS_EmptySet DEF A
<1> HIDE DEF B
<1>7. IsFiniteSet(A \cup B) /\ Cardinality(A \cup B) = Cardinality(A) + Cardinality(B) - Cardinality(A \cap B)
  BY <1>5, FS_Union DEF A
<1>8. Cardinality(A \cup B) = Cardinality(A) + Len(BlockTxs[n])
  BY <1>2, <1>3, <1>5, <1>6, <1>7
<1>9. IsFiniteSet(TxnsOf(S \cup {n})) /\ Cardinality(TxnsOf(S \cup {n})) = Cardinality(A) + Len(BlockTxs[n])
  BY <1>1, <1>7, <1>8
<1> QED
  BY <1>9 DEF A

(* And takes them away again.                                              *)
LEMMA TxnsOfShorter ==
    ASSUME NEW S, NEW n \in Blocks, n \notin S, IsFiniteSet(TxnsOf(S \cup {n}))
    PROVE  /\ IsFiniteSet(TxnsOf(S))
           /\ Cardinality(TxnsOf(S)) = Cardinality(TxnsOf(S \cup {n})) - Len(BlockTxs[n])
<1>1. TxnsOf(S) \subseteq TxnsOf(S \cup {n})
  BY DEF TxnsOf
<1>2. IsFiniteSet(TxnsOf(S))
  BY <1>1, FS_Subset
<1>3. Cardinality(TxnsOf(S)) \in Nat /\ Len(BlockTxs[n]) \in Nat
  BY <1>2, FS_CardinalityType, TxAssumption
<1> QED
  BY <1>2, <1>3, TxnsOfLonger

(* A database with the same buckets, or more blocks.                       *)
LEMMA SameBuckets ==
    ASSUME NEW d, BucketsOK(d), NEW e, e.blocks \subseteq Blocks, e.utxo = d.utxo,
           e.journal = d.journal, e.main = d.main, e.totalTxns = d.totalTxns
    PROVE  BucketsOK(e)
  BY DEF BucketsOK, CountOK

(* flushToDB touches none of them.                                         *)
LEMMA FlushedBuckets ==
    ASSUME NEW d, DOMAIN d = DBFields, BucketsOK(d), NEW st, NEW dirt
    PROVE  BucketsOK(Flushed(d, st, dirt))
<1> DEFINE e == Flushed(d, st, dirt)
<1>1. /\ e.blocks = d.blocks /\ e.utxo = d.utxo /\ e.journal = d.journal /\ e.main = d.main
      /\ e.totalTxns = d.totalTxns
  BY DEF Flushed, DBFields
<1> HIDE DEF e
<1>2. BucketsOK(e)
  BY <1>1, SameBuckets DEF BucketsOK
<1> QED
  BY <1>2 DEF e

(* connectBlock keeps the types and the count.                             *)
LEMMA ConnectBuckets ==
    ASSUME NEW d, DBOK(d), BucketsOK(d), NEW n \in Bodies, Parent[n] = d.tip
    PROVE  BucketsOK(ConnectBlockTx(d, n))
<1> DEFINE e == ConnectBlockTx(d, n)
<1>1. DOMAIN d = DBFields /\ d.main = Ancestors[Parent[n]]
  BY DEF DBOK
<1>2. n \in Blocks /\ n \notin d.main
  BY <1>1, TreeAssumption DEF Bodies
<1>3. /\ e.blocks = d.blocks /\ e.main = d.main \cup {n}
      /\ e.totalTxns = d.totalTxns + Len(BlockTxs[n])
  BY <1>1 DEF ConnectBlockTx, DBFields
<1>4. /\ e.utxo = Commit(ConnectTransactions(d.utxo, n))
      /\ e.journal = [d.journal EXCEPT ![n] = SpentTxOuts(d.utxo, n)]
  BY <1>1 DEF ConnectBlockTx, DBFields
<1>5. \A o : NewEntry(n, o) \in Entry
  BY <1>2, TreeAssumption DEF NewEntry, Entry
<1>6. e.utxo \in UtxoType
  BY <1>4, <1>5, TxAssumption DEF BucketsOK, UtxoType, Commit, ConnectTransactions
<1>7. SpentTxOuts(d.utxo, n) \in UtxoType
  BY <1>5 DEF BucketsOK, UtxoType, SpentTxOuts, InputEntry
<1>8. e.journal \in [Blocks -> UtxoType]
  BY <1>2, <1>4, <1>7 DEF BucketsOK
<1>9. CountOK(e)
  BY <1>2, <1>3, TxnsOfLonger DEF BucketsOK, CountOK
<1> HIDE DEF e
<1>10. BucketsOK(e)
  BY <1>3, <1>6, <1>8, <1>9 DEF BucketsOK
<1> QED
  BY <1>10 DEF e

(* So does disconnectBlock.                                                *)
LEMMA DisconnectBuckets ==
    ASSUME NEW d, DBOK(d), BucketsOK(d), d.tip # Genesis
    PROVE  BucketsOK(DisconnectBlockTx(d, d.tip))
<1> DEFINE n == d.tip
           e == DisconnectBlockTx(d, n)
           S == Ancestors[Parent[n]]
<1>1. DOMAIN d = DBFields /\ n \in Blocks /\ d.main = S \cup {n} /\ n \notin S
  BY TreeAssumption DEF DBOK
<1>2. /\ e.blocks = d.blocks /\ e.main = d.main \ {n}
      /\ e.totalTxns = d.totalTxns - Len(BlockTxs[n])
  BY <1>1 DEF DisconnectBlockTx, DBFields
<1>3. /\ e.utxo = Commit(DisconnectTransactions(d.utxo, n, d.journal[n]))
      /\ e.journal = [d.journal EXCEPT ![n] = EmptyUtxo]
  BY <1>1 DEF DisconnectBlockTx, DBFields
<1>4. e.main = S
  BY <1>1, <1>2
<1>5. d.journal[n] \in UtxoType
  BY <1>1 DEF BucketsOK
<1>6. e.utxo \in UtxoType
  BY <1>3, <1>5, TxAssumption DEF BucketsOK, UtxoType, Commit, DisconnectTransactions
<1>7. e.journal \in [Blocks -> UtxoType]
  BY <1>1, <1>3 DEF BucketsOK, UtxoType, EmptyUtxo
<1> HIDE DEF S
<1>8. CountOK(e)
  <2>1. /\ IsFiniteSet(TxnsOf(S \cup {n}))
        /\ d.totalTxns = Cardinality(TxnsOf(S \cup {n}))
    BY <1>1 DEF BucketsOK, CountOK
  <2>2. /\ IsFiniteSet(TxnsOf(S))
        /\ Cardinality(TxnsOf(S)) = Cardinality(TxnsOf(S \cup {n})) - Len(BlockTxs[n])
    BY <1>1, <2>1, TxnsOfShorter
  <2>3. e.totalTxns = Cardinality(TxnsOf(S))
    BY <1>2, <2>1, <2>2
  <2> HIDE DEF e
  <2> QED
    BY <1>4, <2>2, <2>3 DEF CountOK
<1> HIDE DEF e
<1>9. BucketsOK(e)
  BY <1>2, <1>6, <1>7, <1>8 DEF BucketsOK
<1> QED
  BY <1>9 DEF e

(* What the database and its flushed part hold after a step.               *)
LEMMA BucketsStep ==
    ASSUME ChainInv, TypeInv, [Next]_vars
    PROVE  BucketsOK(db') /\ BucketsOK(disk')
<1>0. /\ BucketsOK(db) /\ BucketsOK(disk) /\ DBOK(db) /\ DBOK(disk) /\ DOMAIN db = DBFields
      /\ node \in Blocks \cup {NoBlock}
  BY DEF TypeInv, CallOK, ChainInv, DBOK
<1>1. ASSUME NEW st, NEW D, db' = Flushed(db, st, D), disk' = disk
      PROVE  BucketsOK(db') /\ BucketsOK(disk')
  BY <1>0, <1>1, FlushedBuckets
<1>2. CASE StoreBlock
  <2>1. node \in Blocks /\ disk' = disk /\ db' = [db EXCEPT !.blocks = @ \cup {node}]
    BY <1>2 DEF StoreBlock, ChainInv, NodeOK, Bodies
  <2>2. /\ db'.blocks = db.blocks \cup {node} /\ db'.utxo = db.utxo /\ db'.journal = db.journal
        /\ db'.main = db.main /\ db'.totalTxns = db.totalTxns
    BY <1>0, <2>1 DEF DBFields
  <2>3. db'.blocks \subseteq Blocks
    BY <1>0, <2>1, <2>2 DEF BucketsOK
  <2> QED
    BY <1>0, <2>1, <2>2, <2>3, SameBuckets
<1>3. CASE AddNode \/ CheckFails \/ CheckPasses \/ RefuseBranch \/ FlushStatuses \/ EndReorganize
  <2>1. disk' = disk /\ \E st, D : db' = Flushed(db, st, D)
    BY <1>3 DEF AddNode, CheckFails, CheckPasses, RefuseBranch, FlushStatuses, EndReorganize,
                AcceptFails
  <2> QED
    BY <1>1, <2>1
<1>4. CASE ConnectToTip
  <2>1. /\ pc = "connect" /\ node \in Bodies /\ dirty = {} /\ tip = db.tip /\ disk' = disk
    BY <1>4 DEF ConnectToTip, ChainInv, NodeOK, DirtyOK, MemOK
  <2>2. CASE ~ExtendsTip(node)
    BY <1>0, <1>4, <2>1, <2>2 DEF ConnectToTip
  <2>3. CASE ExtendsTip(node)
    <3> DEFINE d == Flushed(db, status, dirty)
    <3>1. db' = ConnectBlockTx(d, node) /\ Parent[node] = db.tip
      BY <1>4, <2>1, <2>3 DEF ConnectToTip, ExtendsTip
    <3>2. /\ DOMAIN d = DBFields /\ d.tip = db.tip /\ d.main = db.main /\ d.blocks = db.blocks
          /\ d.rows = [b \in Blocks |-> IF b \in dirty THEN status[b] ELSE db.rows[b]]
      BY <1>0, FlushedFields
    <3>3. BucketsOK(d)
      BY <1>0, FlushedBuckets
    <3> HIDE DEF d
    <3>4. d.rows = db.rows
      BY <1>0, <2>1, <3>2 DEF DBOK
    <3>5. DBOK(d)
      BY <1>0, <3>2, <3>4 DEF DBOK
    <3> QED
      BY <1>0, <2>1, <3>1, <3>2, <3>3, <3>5, ConnectBuckets
  <2> QED
    BY <2>2, <2>3
<1>5. CASE DetachBlock
  <2> DEFINE n == Highest(detachNodes)
  <2>1. /\ pc = "switch" /\ detachNodes # {} /\ n = tip /\ tip = db.tip /\ disk' = disk
        /\ db' = DisconnectBlockTx(db, n)
    BY <1>5 DEF DetachBlock, ChainInv, MemOK
  <2>2. detachNodes \in SUBSET Blocks /\ detachNodes \subseteq Bodies
    BY <2>1 DEF ChainInv, ReorgOK, Bodies
  <2>3. n # Genesis
    BY <2>1, <2>2, HighestInSet DEF Bodies
  <2> HIDE DEF n
  <2> QED
    BY <1>0, <2>1, <2>3, DisconnectBuckets
<1>6. CASE AttachBlock
  <2> DEFINE n == Lowest(attachNodes)
  <2>1. /\ pc = "switch" /\ attachNodes # {} /\ Parent[n] = tip /\ tip = db.tip /\ disk' = disk
        /\ db' = ConnectBlockTx(db, n)
    BY <1>6 DEF AttachBlock, ChainInv, MemOK
  <2>2. attachNodes \in SUBSET Blocks /\ attachNodes \subseteq Bodies
    BY <2>1 DEF ChainInv, ReorgOK, MemOK, Bodies
  <2>3. n \in Bodies
    BY <2>1, <2>2, LowestInSet
  <2> HIDE DEF n
  <2> QED
    BY <1>0, <2>1, <2>3, ConnectBuckets
<1>7. CASE FlushCache \/ Crash
  BY <1>0, <1>7 DEF FlushCache, Crash
<1>8. CASE Restart
  <2>1. /\ disk' = disk /\ db'.blocks = db.blocks /\ db'.utxo = db.utxo
        /\ db'.journal = db.journal /\ db'.main = db.main /\ db'.totalTxns = db.totalTxns
    BY <1>0, <1>8 DEF Restart, DBFields
  <2>2. db'.blocks \subseteq Blocks
    BY <1>0, <2>1 DEF BucketsOK
  <2> QED
    BY <1>0, <2>1, <2>2, SameBuckets
<1>9. CASE UNCHANGED <<db, disk>>
  BY <1>0, <1>9
<1>10. UNCHANGED <<db, disk>> \/ StoreBlock \/ AddNode \/ CheckFails \/ CheckPasses
       \/ RefuseBranch \/ FlushStatuses \/ EndReorganize \/ ConnectToTip \/ DetachBlock
       \/ AttachBlock \/ FlushCache \/ Crash \/ Restart
  <2>1. CASE UNCHANGED vars
    BY <2>1 DEF vars
  <2>2. CASE Continue
    BY <2>2 DEF Continue, RejectBlock, AcceptFails, KeepBestChain, StartReorganize,
                VerifyDetach, VerifyAttach, VerifyFails, VerifyDone, StopReorganize,
                BlockAccepted, NextOrphan, NextHash, FinishProcess
  <2>3. ASSUME NEW b \in Blocks \ {Genesis},
               ProcessRejected(b) \/ ProcessOrphanBlock(b) \/ \E f \in FastAdd : ProcessBlock(b, f)
        PROVE  UNCHANGED <<db, disk>>
    BY <2>3 DEF ProcessRejected, ProcessOrphanBlock, ProcessBlock
  <2>4. CASE ClockTick
    BY <2>4 DEF ClockTick
  <2> QED
    BY <2>1, <2>2, <2>3, <2>4 DEF Next
<1> QED
  BY <1>2, <1>3, <1>4, <1>5, <1>6, <1>7, <1>8, <1>9, <1>10

(* The sums of work.                                                       *)
LEMMA WorkStep ==
    ASSUME ChainInv, TypeInv, [Next]_vars
    PROVE  workSum' \in [Blocks -> Nat]
<1>0. workSum \in [Blocks -> Nat]
  BY DEF TypeInv
<1>1. CASE AddNode
  <2>1. /\ node \in Blocks \ {Genesis} /\ Parent[node] \in Blocks
        /\ workSum' = [workSum EXCEPT ![node] = Work[node] + Work[Parent[node]],
                                      ![Parent[node]] = Work[Parent[node]]]
    BY <1>1, TreeAssumption DEF AddNode, InitWork, ChainInv, NodeOK, Bodies
  <2>2. Work[node] \in Nat /\ Work[Parent[node]] \in Nat
    BY <2>1, TreeAssumption
  <2> QED
    BY <1>0, <2>1, <2>2
<1>2. CASE KeepBestChain \/ RefuseBranch \/ StartReorganize
  <2>1. node \in Blocks /\ workSum' = [workSum EXCEPT ![node] = Work[node]]
    BY <1>2 DEF KeepBestChain, RefuseBranch, StartReorganize, OwnWork, ChainInv, NodeOK, Bodies
  <2> QED
    BY <1>0, <2>1, TreeAssumption
<1>3. CASE Crash
  BY <1>3 DEF Crash
<1>4. CASE Restart
  <2>1. workSum' = [b \in Blocks |-> LoadedWork(index', b)]
    BY <1>4 DEF Restart
  <2>2. ASSUME NEW b \in Blocks PROVE LoadedWork(index', b) \in Nat
    BY TreeAssumption DEF LoadedWork
  <2> QED
    BY <2>1, <2>2
<1>5. CASE UNCHANGED workSum
  BY <1>0, <1>5
<1>6. UNCHANGED workSum \/ AddNode \/ KeepBestChain \/ RefuseBranch \/ StartReorganize
      \/ Crash \/ Restart
  <2>1. CASE UNCHANGED vars \/ FlushCache \/ ClockTick
    BY <2>1 DEF vars, indexVars, FlushCache, ClockTick
  <2>2. CASE Continue
    BY <2>2 DEF Continue, RejectBlock, StoreBlock, CheckFails, CheckPasses, ConnectToTip,
                VerifyDetach, VerifyAttach, VerifyFails, VerifyDone, FlushStatuses, DetachBlock,
                AttachBlock, StopReorganize, EndReorganize, BlockAccepted, NextOrphan, NextHash,
                FinishProcess, indexVars
  <2>3. ASSUME NEW b \in Blocks \ {Genesis},
               ProcessRejected(b) \/ ProcessOrphanBlock(b) \/ \E f \in FastAdd : ProcessBlock(b, f)
        PROVE  UNCHANGED workSum
    BY <2>3 DEF ProcessRejected, ProcessOrphanBlock, ProcessBlock, indexVars
  <2> QED
    BY <2>1, <2>2, <2>3 DEF Next
<1> QED
  BY <1>1, <1>2, <1>3, <1>4, <1>5, <1>6

(* The view of the check phase.                                            *)
LEMMA ViewStep ==
    ASSUME ChainInv, TypeInv, [Next]_vars
    PROVE  ViewTyped'
<1> DEFINE ViewType == [Outputs -> Entry \cup {NoEntry, SpentEntry}]
<1>0. view \in ViewType /\ db.utxo \in UtxoType /\ db.journal \in [Blocks -> UtxoType]
  BY DEF TypeInv, ViewTyped, BucketsOK
<1>1. CASE view' = view \/ view' = EmptyUtxo
  BY <1>0, <1>1 DEF ViewTyped, EmptyUtxo
<1>2. CASE StartReorganize
  BY <1>0, <1>2 DEF StartReorganize, ViewTyped, UtxoType
<1>3. CASE VerifyDetach
  <2> DEFINE n == Highest(ToDetach)
             J == db.journal[n]
  <2>1. ToDetach \in SUBSET Blocks /\ ToDetach # {}
    BY <1>3 DEF VerifyDetach, ChainInv, ReorgOK, ToDetach, Bodies
  <2>2. n \in Blocks
    BY <2>1, HighestInSet
  <2>3. view' = DisconnectTransactions(view, n, J)
    BY <1>3 DEF VerifyDetach
  <2>4. J \in UtxoType
    BY <1>0, <2>2
  <2> HIDE DEF n, J
  <2> QED
    BY <1>0, <2>3, <2>4 DEF DisconnectTransactions, UtxoType, ViewTyped
<1>4. CASE VerifyAttach
  <2> DEFINE n == Lowest(ToAttach)
  <2>1. ToAttach \in SUBSET Blocks /\ ToAttach # {}
    BY <1>4 DEF VerifyAttach, ChainInv, ReorgOK, ToAttach, MemOK
  <2>2. n \in Blocks
    BY <2>1, LowestInSet
  <2>3. view' = ConnectTransactions(view, n)
    BY <1>4 DEF VerifyAttach
  <2> HIDE DEF n
  <2>4. \A o : NewEntry(n, o) \in Entry
    BY <2>2, TreeAssumption DEF NewEntry, Entry
  <2> QED
    BY <1>0, <2>3, <2>4 DEF ConnectTransactions, ViewTyped
<1>5. view' = view \/ view' = EmptyUtxo \/ StartReorganize \/ VerifyDetach \/ VerifyAttach
  <2>1. CASE UNCHANGED vars \/ FlushCache \/ ClockTick \/ Crash \/ Restart
    BY <2>1 DEF vars, reorgVars, FlushCache, ClockTick, Crash, Restart
  <2>2. CASE Continue
    BY <2>2 DEF Continue, RejectBlock, StoreBlock, AddNode, CheckFails, CheckPasses,
                ConnectToTip, KeepBestChain, RefuseBranch, VerifyFails, VerifyDone,
                FlushStatuses, DetachBlock, AttachBlock, StopReorganize, EndReorganize,
                BlockAccepted, NextOrphan, NextHash, FinishProcess, AcceptFails, Return,
                reorgVars
  <2>3. ASSUME NEW b \in Blocks \ {Genesis},
               ProcessRejected(b) \/ ProcessOrphanBlock(b) \/ \E f \in FastAdd : ProcessBlock(b, f)
        PROVE  view' = view \/ view' = EmptyUtxo
    BY <2>3 DEF ProcessRejected, ProcessOrphanBlock, ProcessBlock, Return, reorgVars
  <2> QED
    BY <2>1, <2>2, <2>3 DEF Next
<1> QED
  BY <1>1, <1>2, <1>3, <1>4, <1>5

(* A call that returns leaves the locals of ProcessBlock empty.            *)
LEMMA ReturnTyped ==
    ASSUME NEW b \in Blocks \cup {NoBlock}, NEW m \in BOOLEAN, NEW o \in BOOLEAN, NEW e \in Error,
           Return(b, m, o, e)
    PROVE  CallOK'
<1>1. ret' \in [block : Blocks \cup {NoBlock}, isMain : BOOLEAN, isOrphan : BOOLEAN, err : Error]
  BY DEF Return
<1>2. processHashes' \in Seq(Blocks)
  BY DEF Return
<1>3. /\ pc' = "idle" /\ block' = NoBlock /\ fastAdd' = FALSE /\ node' = NoBlock
      /\ isMainChain' = FALSE /\ detachNodes' = {} /\ attachNodes' = {} /\ verified' = {}
      /\ err' = "nil"
  BY DEF Return
<1> QED
  BY <1>1, <1>2, <1>3 DEF CallOK, Error

(* The locals of ProcessBlock and what it returned.                        *)
LEMMA CallStep ==
    ASSUME ChainInv, TypeInv, [Next]_vars
    PROVE  CallOK'
<1>0. /\ CallOK
      /\ FastAdd \subseteq BOOLEAN
  BY ChainAssumption DEF TypeInv
<1>1. ASSUME NEW b \in Blocks \ {Genesis},
             ProcessRejected(b) \/ ProcessOrphanBlock(b) \/ \E f \in FastAdd : ProcessBlock(b, f)
      PROVE  CallOK'
  <2>1. CASE ProcessRejected(b)
    BY <2>1, ReturnTyped DEF ProcessRejected, Error
  <2>2. CASE ProcessOrphanBlock(b)
    BY <2>2, ReturnTyped DEF ProcessOrphanBlock, Error
  <2>3. CASE \E f \in FastAdd : ProcessBlock(b, f)
    BY <1>0, <2>3 DEF CallOK, ProcessBlock, reorgVars
  <2> QED
    BY <1>1, <2>1, <2>2, <2>3
<1>2. CASE RejectBlock \/ CheckFails
  BY <1>0, <1>2, ReturnTyped DEF RejectBlock, CheckFails, AcceptFails, CallOK, Error
<1>3. CASE StoreBlock \/ AddNode \/ CheckPasses \/ FlushStatuses
  BY <1>0, <1>3 DEF StoreBlock, AddNode, CheckPasses, FlushStatuses, CallOK, callVars, reorgVars
<1>4. CASE ConnectToTip \/ KeepBestChain \/ RefuseBranch
  <2>1. node \in Blocks
    BY <1>4 DEF ConnectToTip, KeepBestChain, RefuseBranch, ChainInv, NodeOK, Bodies
  <2> QED
    BY <1>0, <1>4, <2>1 DEF ConnectToTip, KeepBestChain, RefuseBranch, MainChainReturned,
                            CallOK, callVars, reorgVars
<1>5. CASE StartReorganize
  <2>1. /\ detachNodes' = bestChain \ Ancestors[node] /\ attachNodes' = Branch
        /\ Branch \subseteq index /\ index \subseteq Blocks
        /\ bestChain \ Ancestors[node] \subseteq Blocks
    BY <1>5, BranchFacts DEF StartReorganize, MemOK, Bodies
  <2> HIDE DEF Branch
  <2>2. /\ pc' = "verify" /\ verified' = {} /\ err' = "nil"
        /\ UNCHANGED <<block, fastAdd, node, isMainChain, processHashes, ret>>
    BY <1>5 DEF StartReorganize, callVars
  <2>3. detachNodes' \subseteq Blocks /\ attachNodes' \subseteq Blocks
    BY <2>1
  <2> QED
    BY <1>0, <2>2, <2>3 DEF CallOK, Error
<1>6. CASE VerifyDetach
  <2>1. ToDetach \in SUBSET Blocks /\ ToDetach # {}
    BY <1>6 DEF VerifyDetach, ChainInv, ReorgOK, ToDetach, Bodies
  <2>2. Highest(ToDetach) \in Blocks
    BY <2>1, HighestInSet
  <2>3. verified' \subseteq Blocks
    BY <1>0, <1>6, <2>2 DEF VerifyDetach, CallOK
  <2> QED
    BY <1>0, <1>6, <2>3 DEF VerifyDetach, CallOK, callVars
<1>7. CASE VerifyAttach
  <2>1. ToAttach \in SUBSET Blocks /\ ToAttach # {}
    BY <1>7 DEF VerifyAttach, ChainInv, ReorgOK, ToAttach, MemOK
  <2>2. Lowest(ToAttach) \in Blocks
    BY <2>1, LowestInSet
  <2>3. verified' \subseteq Blocks
    BY <1>0, <1>7, <2>2 DEF VerifyAttach, CallOK
  <2> QED
    BY <1>0, <1>7, <2>3 DEF VerifyAttach, CallOK, callVars
<1>8. CASE VerifyFails \/ VerifyDone \/ StopReorganize
  BY <1>0, <1>8 DEF VerifyFails, VerifyDone, StopReorganize, CallOK, Error, callVars, reorgVars
<1>9. CASE DetachBlock \/ AttachBlock
  BY <1>0, <1>9 DEF DetachBlock, AttachBlock, CallOK, callVars
<1>10. CASE EndReorganize
  <2>0. node \in Blocks
    BY <1>10 DEF EndReorganize, ChainInv, NodeOK, Bodies
  <2>1. CASE err = "nil"
    BY <1>0, <1>10, <2>0, <2>1 DEF EndReorganize, MainChainReturned, CallOK, callVars
  <2>2. CASE err # "nil"
    BY <1>0, <1>10, <2>2, ReturnTyped DEF EndReorganize, AcceptFails, CallOK
  <2> QED
    BY <2>1, <2>2
<1>11. CASE BlockAccepted
  <2>1. processHashes' = Append(processHashes, node) /\ processHashes \in Seq(Blocks)
    BY <1>0, <1>11 DEF BlockAccepted, CallOK
  <2>2. node \in Blocks
    BY <1>0, <1>11 DEF BlockAccepted, CallOK
  <2>3. processHashes' \in Seq(Blocks)
    BY <2>1, <2>2
  <2> QED
    BY <1>0, <1>11, <2>3 DEF BlockAccepted, CallOK, reorgVars
<1>12. CASE NextOrphan
  <2>1. node' \in Blocks
    BY <1>12, NextOrphanKeeps DEF NextOrphan, ChainInv, NodeOK, Bodies
  <2> QED
    BY <1>0, <1>12, <2>1 DEF NextOrphan, CallOK, callVars, reorgVars
<1>13. CASE NextHash
  <2>1. processHashes' \in Seq(Blocks)
    BY <1>0, <1>13 DEF NextHash, CallOK
  <2> QED
    BY <1>0, <1>13, <2>1 DEF NextHash, CallOK, reorgVars
<1>14. CASE FinishProcess
  BY <1>0, <1>14, ReturnTyped DEF FinishProcess, CallOK, Error
<1>15. CASE FlushCache \/ Restart \/ ClockTick \/ UNCHANGED vars
  BY <1>0, <1>15 DEF FlushCache, Restart, ClockTick, CallOK, vars, callVars, reorgVars
<1>16. CASE Crash
  <2>1. ret' \in [block : Blocks \cup {NoBlock}, isMain : BOOLEAN, isOrphan : BOOLEAN, err : Error]
    BY <1>16 DEF Crash, Error
  <2>2. processHashes' \in Seq(Blocks)
    BY <1>16 DEF Crash
  <2> QED
    BY <1>16, <2>1, <2>2 DEF Crash, CallOK, Error
<1> QED
  BY <1>1, <1>2, <1>3, <1>4, <1>5, <1>6, <1>7, <1>8, <1>9, <1>10, <1>11, <1>12, <1>13, <1>14,
     <1>15, <1>16 DEF Next, Continue

(* A process that is down has nothing in memory.                           *)
LEMMA DownStep ==
    ASSUME ChainInv, TypeInv, [Next]_vars
    PROVE  DownOK'
<1>1. CASE Crash
  BY <1>1 DEF Crash, DownOK
<1>2. CASE UNCHANGED <<pc, index, dirty, tip, status>>
  BY <1>2 DEF TypeInv, DownOK
<1>3. CASE pc' # "down"
  BY <1>3 DEF DownOK
<1>4. Crash \/ UNCHANGED <<pc, index, dirty, tip, status>> \/ pc' # "down"
  <2>1. CASE UNCHANGED vars \/ FlushCache \/ ClockTick \/ Restart
    BY <2>1 DEF vars, indexVars, FlushCache, ClockTick, Restart
  <2>2. CASE Continue
    BY <2>2 DEF Continue, RejectBlock, StoreBlock, AddNode, CheckFails, CheckPasses,
                ConnectToTip, KeepBestChain, RefuseBranch, StartReorganize, VerifyDetach,
                VerifyAttach, VerifyFails, VerifyDone, FlushStatuses, DetachBlock, AttachBlock,
                StopReorganize, EndReorganize, BlockAccepted, NextOrphan, NextHash,
                FinishProcess, AcceptFails, Return
  <2>3. ASSUME NEW b \in Blocks \ {Genesis},
               ProcessRejected(b) \/ ProcessOrphanBlock(b) \/ \E f \in FastAdd : ProcessBlock(b, f)
        PROVE  pc' # "down"
    BY <2>3 DEF ProcessRejected, ProcessOrphanBlock, ProcessBlock, Return
  <2> QED
    BY <2>1, <2>2, <2>3 DEF Next
<1> QED
  BY <1>1, <1>2, <1>3, <1>4

(* createChainState.                                                       *)
LEMMA InitTyped == Init => TypeInv
<1> SUFFICES ASSUME Init PROVE TypeInv
  OBVIOUS
<1>1. /\ db.blocks = {Genesis} /\ db.main = {Genesis} /\ db.totalTxns = Len(BlockTxs[Genesis])
      /\ db.utxo = EmptyUtxo /\ db.journal = [b \in Blocks |-> EmptyUtxo] /\ disk = db
  BY DEF Init, genesisDB
<1>2. /\ IsFiniteSet(TxnsOf({Genesis}))
      /\ Cardinality(TxnsOf({Genesis})) = Len(BlockTxs[Genesis])
  <2>1. TxnsOf({}) = {}
    BY DEF TxnsOf
  <2>2. IsFiniteSet(TxnsOf({})) /\ Cardinality(TxnsOf({})) = 0
    BY <2>1, FS_EmptySet
  <2>3. {} \cup {Genesis} = {Genesis} /\ Genesis \in Blocks /\ Len(BlockTxs[Genesis]) \in Nat
    BY TreeAssumption, TxAssumption
  <2> QED
    BY <2>2, <2>3, TxnsOfLonger
<1>3. BucketsOK(db)
  BY <1>1, <1>2, TreeAssumption DEF BucketsOK, CountOK, UtxoType, EmptyUtxo
<1>4. workSum \in [Blocks -> Nat]
  BY TreeAssumption DEF Init
<1>5. CallOK /\ DownOK /\ ViewTyped
  <2>1. ret \in [block : Blocks \cup {NoBlock}, isMain : BOOLEAN, isOrphan : BOOLEAN, err : Error]
    BY DEF Init, Error
  <2>2. processHashes \in Seq(Blocks)
    BY DEF Init
  <2> QED
    BY <2>1, <2>2 DEF Init, CallOK, DownOK, ViewTyped, Error, EmptyUtxo
<1> QED
  BY <1>1, <1>3, <1>4, <1>5 DEF TypeInv

(* Types and the count are kept by every step.                             *)
LEMMA TypesInvariant == Spec => []TypeInv
<1>1. ChainInv /\ TypeInv /\ [Next]_vars => TypeInv'
  <2> SUFFICES ASSUME ChainInv, TypeInv, [Next]_vars PROVE TypeInv'
    OBVIOUS
  <2> QED
    BY BucketsStep, WorkStep, ViewStep, CallStep, DownStep DEF TypeInv
<1> QED
  BY <1>1, InitTyped, ChainInvariance, PTL DEF Spec

(* Every variable of BlockChain keeps its type.                            *)
THEOREM ChainTypes == Spec => []TypeOK
<1>1. ASSUME NEW d, DBOK(d), BucketsOK(d) PROVE DBTypeOK(d)
  <2>1. d.totalTxns \in Int
    BY <1>1, FS_CardinalityType DEF BucketsOK, CountOK
  <2> QED
    BY <1>1, <2>1, OwnAncestor DEF DBOK, BucketsOK, DBTypeOK
<1>2. ChainInv /\ TypeInv => TypeOK
  <2> SUFFICES ASSUME ChainInv, TypeInv PROVE TypeOK
    OBVIOUS
  <2>1. DBTypeOK(db) /\ DBTypeOK(disk)
    BY <1>1 DEF ChainInv, TypeInv
  <2>2. /\ index \subseteq Blocks /\ dirty \subseteq Blocks /\ tip \in Blocks \cup {NoBlock}
        /\ status \in [Blocks -> SUBSET StatusFlag]
    <3>1. CASE pc = "down"
      BY <3>1 DEF TypeInv, DownOK
    <3>2. CASE pc # "down"
      BY <3>2 DEF ChainInv, MemOK, DBOK
    <3> QED
      BY <3>1, <3>2
  <2>3. CallOK /\ ViewTyped /\ workSum \in [Blocks -> Nat]
    BY DEF TypeInv
  <2> QED
    BY <2>1, <2>2, <2>3 DEF TypeOK, CallOK, ViewTyped
<1> QED
  BY <1>2, ChainInvariance, TypesInvariant, PTL

(* Also where a reorganization stopped half way, the best state is the end *)
(* of the chain in the hash index and counts that chain's transactions.    *)
THEOREM BestStateAlwaysConsistent == Spec => []BestStateConsistent
<1>1. ChainInv /\ TypeInv => BestStateConsistent
  BY DEF ChainInv, DBOK, TypeInv, BucketsOK, CountOK, BestStateConsistent
<1> QED
  BY <1>1, ChainInvariance, TypesInvariant, PTL

-----------------------------------------------------------------------------
(***************************************************************************)
(* For every block tree, with crashes, restarts and failed                 *)
(* reorganizations: the unspent outputs and the spend journal of the       *)
(* database are what the blocks of the main chain determine, and the       *)
(* database implements Ledger.  Both are about the blocks that have been   *)
(* accepted: nothing is promised while two of them, at different heights,  *)
(* have the same coinbase, and no more than that is assumed.               *)
(*                                                                         *)
(* connectBlock and disconnectBlock are each other's inverse only along a  *)
(* chain on which no transaction appears twice and no output is spent      *)
(* twice.  That the main chain is one (NoReplay) follows block by block:   *)
(* connectTransactions fails on a missing input, an input of a repeated    *)
(* transaction is missing, and the coinbases, which have no input, differ. *)
(* A block that was checked on top of the wrong tip (see CheckPasses)      *)
(* still may join the chain without another check: what checkConnectBlock  *)
(* found then, and does not depend on the tip (Sound), and that no input   *)
(* is missing are together what the check would say now.                   *)
(*                                                                         *)
(* Accepted blocks stay accepted until a crash, so where coinbases differ  *)
(* after a step they did before it; R is the set of the blocks accepted    *)
(* after the step.                                                         *)
(***************************************************************************)
(* The inductive invariant.                                                *)

LedgerOK(R, d) ==
    /\ GoodChain(d.main)
    /\ d.utxo = UtxoOf(d.main)
    /\ d.journal = JournalOf(d.main)
    /\ \A b \in Bodies : d.rows[b] # {} => b \in Sane
    /\ \A b \in Bodies : "Valid" \in d.rows[b] => Sound(R, b)

(* What is known to be valid is sound; what waits in the pool and what is  *)
(* on its way to the index has passed checkBlockSanity.                    *)
StatusSound(R) ==
    pc # "down" => \A b \in index \ {Genesis} : "Valid" \in status[b] => Sound(R, b)

NodeSane ==
    /\ pc \in {"accept", "addnode"} => node \in Sane
    /\ pc = "connect" => CheckConnectBlock(db.utxo, node)

LedgerIn(R) ==
    /\ LedgerOK(R, db)
    /\ StatusSound(R)
    /\ orphans \subseteq Sane
    /\ NodeSane
    /\ ViewOK(R, view)

(* The database as it is, and as it is on disk, each as long as no         *)
(* coinbase has been repeated in it.                                       *)
LedgerInv ==
    /\ CoinbaseRepeated(db) \/ LedgerIn(Accepted(db))
    /\ CoinbaseRepeated(disk) \/ LedgerOK(Accepted(disk), disk)

-----------------------------------------------------------------------------
(* The database, bucket by bucket.                                         *)

(* flushToDB leaves the utxo set and the journal alone.                    *)
LEMMA FlushedLedger ==
    ASSUME NEW d, DOMAIN d = DBFields, NEW st, NEW dirt
    PROVE  /\ Flushed(d, st, dirt).utxo = d.utxo
           /\ Flushed(d, st, dirt).journal = d.journal
  BY DEF Flushed, DBFields

(* connectBlock and disconnectBlock write both.                            *)
LEMMA ConnectLedger ==
    ASSUME NEW d, DOMAIN d = DBFields, NEW b
    PROVE  /\ ConnectBlockTx(d, b).utxo = Commit(ConnectTransactions(d.utxo, b))
           /\ ConnectBlockTx(d, b).journal = [d.journal EXCEPT ![b] = SpentTxOuts(d.utxo, b)]
  BY DEF ConnectBlockTx, DBFields

LEMMA DisconnectLedger ==
    ASSUME NEW d, DOMAIN d = DBFields, NEW b
    PROVE  /\ DisconnectBlockTx(d, b).utxo
                 = Commit(DisconnectTransactions(d.utxo, b, d.journal[b]))
           /\ DisconnectBlockTx(d, b).journal = [d.journal EXCEPT ![b] = EmptyUtxo]
  BY DEF DisconnectBlockTx, DBFields

(* A flush records sound verdicts.                                         *)
LEMMA FlushKeepsLedger ==
    ASSUME NEW R, NEW d, DBOK(d), LedgerOK(R, d), NEW st, NEW D,
           \A b \in D \ {Genesis} : b \in Sane /\ ("Valid" \in st[b] => Sound(R, b))
    PROVE  LedgerOK(R, Flushed(d, st, D))
<1> DEFINE e == Flushed(d, st, D)
<1>1. /\ e.main = d.main /\ e.utxo = d.utxo /\ e.journal = d.journal
      /\ e.rows = [b \in Blocks |-> IF b \in D THEN st[b] ELSE d.rows[b]]
  BY FlushedFields, FlushedLedger DEF DBOK
<1> HIDE DEF e
<1>2. ASSUME NEW b \in Bodies
      PROVE  /\ e.rows[b] # {} => b \in Sane
             /\ "Valid" \in e.rows[b] => Sound(R, b)
  <2>1. CASE b \in D
    BY <1>1, <2>1 DEF Bodies
  <2>2. CASE b \notin D
    BY <1>1, <2>2 DEF Bodies, LedgerOK
  <2> QED
    BY <2>1, <2>2
<1>3. LedgerOK(R, e)
  BY <1>1, <1>2 DEF LedgerOK
<1> QED
  BY <1>3 DEF e

(* connectBlock on top of the tip.                                         *)
LEMMA ConnectKeepsLedger ==
    ASSUME NEW R, NEW n \in Sane \ {Genesis}, CoinbasesDiffer(Ancestors[n]),
           NEW d, DBOK(d), LedgerOK(R, d), Parent[n] = d.tip,
           ~MissingInput(d.utxo, n)
    PROVE  /\ LedgerOK(R, ConnectBlockTx(d, n))
           /\ ConnectBlockTx(d, n).utxo = UtxoOf(Ancestors[n])
           /\ ConnectBlockTx(d, n).tip = n
<1> DEFINE e == ConnectBlockTx(d, n)
           S == d.main
<1>1. /\ e.main = S \cup {n} /\ e.rows = d.rows /\ e.tip = n
      /\ e.utxo = Commit(ConnectTransactions(d.utxo, n))
      /\ e.journal = [d.journal EXCEPT ![n] = SpentTxOuts(d.utxo, n)]
  <2>1. DOMAIN d = DBFields
    BY DEF DBOK
  <2>2. e.main = S \cup {n} /\ e.rows = d.rows /\ e.tip = n
    BY <2>1, ConnectFields
  <2>3. /\ e.utxo = Commit(ConnectTransactions(d.utxo, n))
        /\ e.journal = [d.journal EXCEPT ![n] = SpentTxOuts(d.utxo, n)]
    BY <2>1, ConnectLedger
  <2> QED
    BY <2>2, <2>3
<1>2. /\ S = Ancestors[Parent[n]] /\ GoodChain(S) /\ d.utxo = UtxoOf(S)
      /\ d.journal = JournalOf(S)
  BY DEF DBOK, LedgerOK
<1> HIDE DEF e, S
<1>3. e.utxo = UtxoOf(S \cup {n})
  BY <1>1, <1>2, UtxoConnects
<1>4. e.journal = JournalOf(S \cup {n})
  BY <1>1, <1>2, JournalConnects
<1>5. GoodChain(S \cup {n}) /\ Ancestors[n] = S \cup {n}
  <2>1. GoodChain(S \cup {n})
    BY <1>1, <1>2, GoodChainExtends
  <2>2. Ancestors[n] = S \cup {n}
    BY <1>2, TxAssumption, TreeAssumption
  <2> QED
    BY <2>1, <2>2
<1>6. LedgerOK(R, e)
  BY <1>1, <1>3, <1>4, <1>5 DEF LedgerOK
<1> QED
  BY <1>1, <1>3, <1>5, <1>6 DEF e

(* disconnectBlock on the tip.                                             *)
LEMMA DisconnectKeepsLedger ==
    ASSUME NEW R, NEW d, DBOK(d), LedgerOK(R, d), d.tip # Genesis
    PROVE  /\ LedgerOK(R, DisconnectBlockTx(d, d.tip))
           /\ DisconnectBlockTx(d, d.tip).utxo = UtxoOf(Ancestors[Parent[d.tip]])
           /\ DisconnectBlockTx(d, d.tip).tip = Parent[d.tip]
<1> DEFINE n == d.tip
           e == DisconnectBlockTx(d, n)
           S == Ancestors[Parent[n]]
<1>1. /\ e.main = d.main \ {n} /\ e.rows = d.rows /\ e.tip = Parent[n]
      /\ e.utxo = Commit(DisconnectTransactions(d.utxo, n, d.journal[n]))
      /\ e.journal = [d.journal EXCEPT ![n] = EmptyUtxo]
  <2>1. DOMAIN d = DBFields
    BY DEF DBOK
  <2>2. e.main = d.main \ {n} /\ e.rows = d.rows /\ e.tip = Parent[n]
    BY <2>1, DisconnectFields
  <2>3. /\ e.utxo = Commit(DisconnectTransactions(d.utxo, n, d.journal[n]))
        /\ e.journal = [d.journal EXCEPT ![n] = EmptyUtxo]
    BY <2>1, DisconnectLedger
  <2> QED
    BY <2>2, <2>3
<1>2. n \in Blocks \ {Genesis} /\ d.main = S \cup {n} /\ n \notin S
  BY TreeAssumption DEF DBOK
<1>3. GoodChain(S \cup {n}) /\ d.utxo = UtxoOf(S \cup {n}) /\ d.journal = JournalOf(S \cup {n})
  BY <1>2 DEF LedgerOK
<1>4. GoodChain(S)
  BY <1>2, <1>3, GoodChainShrinks
<1>5. e.main = S
  BY <1>1, <1>2
<1>6. e.utxo = UtxoOf(S)
  <2>1. Commit(DisconnectTransactions(UtxoOf(S \cup {n}), n, JournalOf(S \cup {n})[n])) = UtxoOf(S)
    BY <1>2, <1>3, UtxoDisconnects
  <2> QED
    BY <1>1, <1>3, <2>1
<1>7. e.journal = JournalOf(S)
  <2>1. [JournalOf(S \cup {n}) EXCEPT ![n] = EmptyUtxo] = JournalOf(S)
    BY <1>2, <1>3, JournalDisconnects
  <2> QED
    BY <1>1, <1>3, <2>1
<1> HIDE DEF e, S
<1>8. LedgerOK(R, e)
  BY <1>1, <1>4, <1>5, <1>6, <1>7 DEF LedgerOK
<1> QED
  BY <1>1, <1>6, <1>8 DEF e, S

-----------------------------------------------------------------------------
(* The steps of Ledger.                                                    *)

(* A step of the code is a step of Ledger, or changes nothing Ledger sees. *)
LedgerStep ==
    Chain!Extend \/ Chain!Rewind \/ Chain!Save \/ UNCHANGED <<db.tip, db.utxo, disk.tip>>

(* Ledger has the block tree of the chain.                                 *)
LEMMA SameTree ==
    /\ \A S : Chain!UtxoOf(S) = UtxoOf(S)
    /\ \A v, b : Chain!CheckConnectBlock(v, b) <=> CheckConnectBlock(v, b)
<1>1. \A b, o : Chain!NewEntry(b, o) = NewEntry(b, o)
  BY DEF Chain!NewEntry, NewEntry
<1>2. \A b : /\ Chain!Positions(b) = Positions(b)
             /\ Chain!Ins(b) = Ins(b) /\ Chain!Outs(b) = Outs(b)
  BY DEF Chain!Positions, Positions, Chain!Ins, Ins, Chain!Outs, Outs
<1>3. ASSUME NEW S PROVE Chain!UtxoOf(S) = UtxoOf(S)
  BY <1>1, <1>2 DEF Chain!UtxoOf, UtxoOf
<1>4. ASSUME NEW v, NEW b PROVE Chain!CheckConnectBlock(v, b) <=> CheckConnectBlock(v, b)
  <2>1. \A o : Chain!InputEntry(v, b, o) = InputEntry(v, b, o)
    BY <1>1, <1>2 DEF Chain!InputEntry, InputEntry
  <2>2. \A o : Chain!Unspent(v, o) <=> Unspent(v, o)
    BY DEF Chain!Unspent, Unspent, Chain!Entry, Entry
  <2>3. \A i : Chain!InFlight(b, i) = InFlight(b, i)
    BY DEF Chain!InFlight, InFlight
  <2>4. Chain!OverwritesUnspent(v, b) <=> OverwritesUnspent(v, b)
    BY <1>2, <2>2 DEF Chain!OverwritesUnspent, OverwritesUnspent
  <2>5. Chain!InputsSpendable(v, b) <=> InputsSpendable(v, b)
    BY <1>2, <2>1, <2>2, <2>3 DEF Chain!InputsSpendable, InputsSpendable
  <2> QED
    BY <2>4, <2>5 DEF Chain!CheckConnectBlock, CheckConnectBlock
<1> QED
  BY <1>3, <1>4

(* connectBlock is Extend.                                                 *)
LEMMA ConnectIsExtend ==
    ASSUME NEW n \in Sane \ {Genesis}, Parent[n] = db.tip, CheckConnectBlock(db.utxo, n),
           db'.tip = n, db'.utxo = UtxoOf(Ancestors[n]), disk' = disk
    PROVE  LedgerStep
<1>1. Chain!Extend
  BY SameTree DEF Chain!Extend
<1> QED
  BY <1>1 DEF LedgerStep

(* disconnectBlock is Rewind.                                              *)
LEMMA DisconnectIsRewind ==
    ASSUME db.tip # Genesis, db'.tip = Parent[db.tip],
           db'.utxo = UtxoOf(Ancestors[Parent[db.tip]]), disk' = disk
    PROVE  LedgerStep
<1>1. Chain!Rewind
  BY SameTree DEF Chain!Rewind
<1> QED
  BY <1>1 DEF LedgerStep

(* A crash is Recover.                                                     *)
LEMMA CrashIsRecover ==
    ASSUME NEW R, db' = disk, disk' = disk, LedgerOK(R, disk), DBOK(disk)
    PROVE  Chain!Recover
<1>1. disk.utxo = UtxoOf(Ancestors[disk.tip])
  BY DEF LedgerOK, DBOK
<1> QED
  BY <1>1, SameTree DEF Chain!Recover

(* A flush of the cache is Save.                                           *)
LEMMA FlushIsSave ==
    ASSUME db' = db, disk' = db
    PROVE  LedgerStep
<1>1. Chain!Save
  BY DEF Chain!Save
<1> QED
  BY <1>1 DEF LedgerStep

-----------------------------------------------------------------------------
(* Views.                                                                  *)

(* The empty view, and a view laid over the utxo set of a chain.           *)
LEMMA FirstViews ==
    ASSUME NEW R
    PROVE  /\ ViewOK(R, EmptyUtxo)
           /\ \A S : GoodChain(S) /\ S \subseteq R => ViewOK(R, UtxoOf(S))
<1>1. ViewOK(R, EmptyUtxo)
  BY TxAssumption DEF ViewOK, EmptyUtxo
<1>2. ASSUME NEW S, GoodChain(S), S \subseteq R PROVE ViewOK(R, UtxoOf(S))
  <2>1. UtxoOf(S) = [o \in Outputs |-> UtxoOf(S)[o]]
    BY DEF UtxoOf
  <2>2. ASSUME NEW o \in Outputs
        PROVE  /\ UtxoOf(S)[o] \in Entry \cup {NoEntry, SpentEntry}
               /\ UtxoOf(S)[o] \in Entry =>
                     \E c \in R \ {Genesis} : o \in Outs(c) /\ UtxoOf(S)[o] = NewEntry(c, o)
    <3>1. UtxoOf(S)[o] \in Entry \cup {NoEntry}
      BY <1>2, UtxoNotSpent DEF GoodChain
    <3>2. ASSUME UtxoOf(S)[o] \in Entry
          PROVE  \E c \in S \ {Genesis} : o \in Outs(c) /\ UtxoOf(S)[o] = NewEntry(c, o)
      <4>1. UtxoOf(S)[o] # NoEntry
        BY <3>2, TxAssumption
      <4> QED
        BY <1>2, <4>1, UtxoEntry
    <3> QED
      BY <1>2, <3>1, <3>2 DEF GoodChain
  <2> QED
    BY <2>1, <2>2 DEF ViewOK
<1> QED
  BY <1>1, <1>2

(* Connecting a block to a view.                                           *)
LEMMA ViewConnects ==
    ASSUME NEW R, NEW v, ViewOK(R, v), NEW n \in R \ {Genesis}, n \in Sane
    PROVE  ViewOK(R, ConnectTransactions(v, n))
<1> DEFINE w == ConnectTransactions(v, n)
<1>1. n \in Blocks
  BY TxAssumption
<1>2. w = [o \in Outputs |-> w[o]]
  BY DEF ConnectTransactions
<1>3. ASSUME NEW o \in Outputs
      PROVE  /\ w[o] \in Entry \cup {NoEntry, SpentEntry}
             /\ w[o] \in Entry =>
                   \E c \in R \ {Genesis} : o \in Outs(c) /\ w[o] = NewEntry(c, o)
  <2>1. w[o] = IF o \in Ins(n) THEN SpentEntry
               ELSE IF o \in Outs(n) THEN NewEntry(n, o) ELSE v[o]
    BY DEF ConnectTransactions
  <2> HIDE DEF w
  <2> QED
    BY <1>1, <2>1, EntryOf, TxAssumption DEF ViewOK
<1> HIDE DEF w
<1>4. ViewOK(R, w)
  BY <1>2, <1>3 DEF ViewOK
<1> QED
  BY <1>4 DEF w

(* Undoing one with the entries of the journal.                            *)
LEMMA ViewDisconnects ==
    ASSUME NEW R, NEW v, ViewOK(R, v), NEW S, GoodChain(S), S \subseteq R, NEW n \in Blocks
    PROVE  ViewOK(R, DisconnectTransactions(v, n, JournalOf(S)[n]))
<1> DEFINE J == JournalOf(S)[n]
           w == DisconnectTransactions(v, n, J)
<1>1. w = [o \in Outputs |-> w[o]]
  BY DEF DisconnectTransactions
<1>2. ASSUME NEW o \in Outputs
      PROVE  /\ w[o] \in Entry \cup {NoEntry, SpentEntry}
             /\ w[o] \in Entry =>
                   \E c \in R \ {Genesis} : o \in Outs(c) /\ w[o] = NewEntry(c, o)
  <2>1. \/ J[o] = NoEntry
        \/ \E c \in R \ {Genesis} : c \in Blocks /\ o \in Outs(c) /\ J[o] = NewEntry(c, o)
    <3>1. CASE n \in S \ {Genesis} /\ o \in Ins(n)
      <4>1. PICK c \in S \ {Genesis} : o \in Outs(c)
        BY <3>1 DEF GoodChain, NoReplay
      <4>2. CreatorIn(S \ {Genesis}, o) = c
        BY <4>1, UtxoEntry
      <4>3. J[o] = NewEntry(c, o)
        BY <3>1, <4>2 DEF JournalOf
      <4> QED
        BY <4>1, <4>3 DEF GoodChain
    <3>2. CASE ~(n \in S \ {Genesis} /\ o \in Ins(n))
      BY <3>2 DEF JournalOf
    <3> QED
      BY <3>1, <3>2
  <2>2. w[o] = IF o \in Outs(n) THEN SpentEntry ELSE IF o \in Ins(n) THEN J[o] ELSE v[o]
    BY DEF DisconnectTransactions
  <2> HIDE DEF w, J
  <2>3. /\ v[o] \in Entry \cup {NoEntry, SpentEntry}
        /\ v[o] \in Entry => \E c \in R \ {Genesis} : o \in Outs(c) /\ v[o] = NewEntry(c, o)
    BY DEF ViewOK
  <2>4. J[o] \in Entry \cup {NoEntry}
    <3>1. ASSUME NEW c \in R \ {Genesis}, c \in Blocks, J[o] = NewEntry(c, o) PROVE J[o] \in Entry
      BY <3>1, EntryOf
    <3> QED
      BY <2>1, <3>1
  <2> QED
    BY <2>1, <2>2, <2>3, <2>4, TxAssumption
<1> HIDE DEF w
<1>3. ViewOK(R, w)
  BY <1>1, <1>2 DEF ViewOK
<1> QED
  BY <1>3 DEF w

-----------------------------------------------------------------------------
(* The steps of ProcessBlock keep the invariant and are steps of Ledger.   *)

(* A block in the index is sane, and sound if it is known to be valid.     *)
LEMMA IndexSane ==
    ASSUME NEW R, ChainInv, LedgerIn(R), pc # "down"
    PROVE  \A b \in index \ {Genesis} :
              b \in Bodies /\ b \in Sane /\ ("Valid" \in status[b] => Sound(R, b))
  BY DEF ChainInv, MemOK, LedgerIn, LedgerOK, StatusSound, Bodies

(* It has been accepted, and so have its ancestors and the main chain.     *)
LEMMA MainAccepted ==
    ASSUME NEW d, DBOK(d)
    PROVE  d.main \subseteq Accepted(d)
  BY TreeAssumption DEF DBOK, Accepted

LEMMA IndexAccepted ==
    ASSUME NEW R, ChainInv, pc # "down", Accepted(db) \subseteq R
    PROVE  /\ index \subseteq R /\ db.main \subseteq R
           /\ CoinbasesDiffer(R) => \A b \in index : CoinbasesDiffer(Ancestors[b])
<1>1. index \subseteq R
  BY DEF ChainInv, MemOK, Accepted
<1>2. db.main \subseteq R
  BY MainAccepted DEF ChainInv
<1>3. \A b \in index : Ancestors[b] \subseteq R
  BY <1>1, IndexClosed DEF ChainInv
<1>4. CoinbasesDiffer(R) => \A b \in index : CoinbasesDiffer(Ancestors[b])
  BY <1>3 DEF CoinbasesDiffer
<1> QED
  BY <1>1, <1>2, <1>4

(* createChainState.                                                       *)
LEMMA InitLedger == Init => LedgerInv
<1> SUFFICES ASSUME Init PROVE LedgerInv
  OBVIOUS
<1> DEFINE R == Accepted(db)
<1>1. /\ db.main = {Genesis} /\ db.utxo = EmptyUtxo /\ db.journal = [b \in Blocks |-> EmptyUtxo]
      /\ db.rows = [b \in Blocks |-> IF b = Genesis THEN {"DataStored", "Valid"} ELSE {}]
      /\ disk = db
  BY DEF Init, genesisDB
<1>2. GoodChain({Genesis})
  BY TreeAssumption DEF GoodChain, NoReplay
<1>3. UtxoOf({Genesis}) = EmptyUtxo /\ JournalOf({Genesis}) = [b \in Blocks |-> EmptyUtxo]
  BY DEF UtxoOf, JournalOf, EmptyUtxo
<1> HIDE DEF R
<1>4. LedgerOK(R, db)
  BY <1>1, <1>2, <1>3 DEF LedgerOK, Bodies
<1>5. StatusSound(R) /\ NodeSane /\ orphans = {} /\ view = EmptyUtxo
  BY DEF Init, PoolInit, StatusSound, NodeSane
<1>6. LedgerIn(R)
  BY <1>4, <1>5, FirstViews DEF LedgerIn
<1> QED
  BY <1>1, <1>4, <1>6 DEF LedgerInv, R

(* A step that leaves the database and the statuses alone.                 *)
LEMMA CallKeepsLedger ==
    ASSUME NEW R, LedgerIn(R), pc # "down", UNCHANGED <<index, status, db, disk>>,
           orphans' \subseteq Sane, NodeSane', ViewOK(R, view')
    PROVE  LedgerIn(R)' /\ LedgerStep
<1>1. StatusSound(R)'
  BY DEF LedgerIn, StatusSound
<1>2. LedgerOK(R, db')
  BY DEF LedgerIn
<1> QED
  BY <1>1, <1>2 DEF LedgerIn, LedgerStep

(* A step that flushes statuses.                                           *)
LEMMA FlushStepKeepsLedger ==
    ASSUME NEW R, ChainInv, LedgerIn(R), NEW D, D \subseteq index', db' = Flushed(db, status', D),
           disk' = disk,
           \A b \in index' \ {Genesis} : b \in Sane /\ ("Valid" \in status'[b] => Sound(R, b)),
           orphans' \subseteq Sane, NodeSane', ViewOK(R, view')
    PROVE  LedgerIn(R)' /\ LedgerStep /\ db'.utxo = db.utxo
<1> DEFINE st == status'
<1>1. db' = Flushed(db, st, D) /\ DBOK(db) /\ LedgerOK(R, db)
  BY DEF ChainInv, LedgerIn
<1>2. \A b \in D \ {Genesis} : b \in Sane /\ ("Valid" \in st[b] => Sound(R, b))
  OBVIOUS
<1> HIDE DEF st
<1>3. LedgerOK(R, Flushed(db, st, D))
  BY <1>1, <1>2, FlushKeepsLedger
<1>4. Flushed(db, st, D).utxo = db.utxo /\ Flushed(db, st, D).tip = db.tip
  <2>1. DOMAIN db = DBFields
    BY <1>1 DEF DBOK
  <2>2. Flushed(db, st, D).utxo = db.utxo
    BY <2>1, FlushedLedger
  <2>3. Flushed(db, st, D).tip = db.tip
    BY <2>1 DEF Flushed, DBFields
  <2> QED
    BY <2>2, <2>3
<1>5. StatusSound(R)'
  BY DEF StatusSound, LedgerIn
<1>6. LedgerOK(R, db') /\ db'.utxo = db.utxo /\ db'.tip = db.tip
  BY <1>1, <1>3, <1>4
<1> QED
  BY <1>5, <1>6 DEF LedgerIn, LedgerStep

(* ProcessBlock turns a block away, pools it or goes on with it.           *)
LEMMA ProcessKeepsLedger ==
    ASSUME NEW R, ChainInv, LedgerIn(R), NEW b \in Bodies,
           ProcessRejected(b) \/ ProcessOrphanBlock(b) \/ \E f \in FastAdd : ProcessBlock(b, f)
    PROVE  LedgerIn(R)' /\ LedgerStep
<1>1. pc = "idle" /\ UNCHANGED <<index, status, db, disk>>
  BY DEF ProcessRejected, ProcessOrphanBlock, ProcessBlock, indexVars
<1>2. orphans' \subseteq Sane
  <2>1. CASE ProcessOrphanBlock(b)
    <3>1. PICK gone : PoolUpdate(gone, {b})
      BY <2>1 DEF ProcessOrphanBlock, addOrphanBlock
    <3>2. orphans' = (orphans \ gone) \cup {b} /\ b \in Sane
      BY <2>1, <3>1 DEF PoolUpdate, ProcessOrphanBlock
    <3> QED
      BY <3>2 DEF LedgerIn
  <2>2. CASE ProcessRejected(b) \/ \E f \in FastAdd : ProcessBlock(b, f)
    BY <2>2 DEF LedgerIn, ProcessRejected, ProcessBlock, orphanVars
  <2> QED
    BY <2>1, <2>2
<1>3. NodeSane'
  BY DEF ProcessRejected, ProcessOrphanBlock, ProcessBlock, Return, NodeSane
<1>4. view' = view \/ view' = EmptyUtxo
  BY DEF ProcessRejected, ProcessOrphanBlock, ProcessBlock, Return, reorgVars
<1> QED
  BY <1>1, <1>2, <1>3, <1>4, FirstViews, CallKeepsLedger DEF LedgerIn

(* The steps that change neither the database nor the statuses.            *)
LEMMA QuietKeepsLedger ==
    ASSUME NEW R, ChainInv, LedgerIn(R),
           \/ RejectBlock \/ KeepBestChain \/ VerifyDone \/ StopReorganize
           \/ BlockAccepted \/ NextHash \/ FinishProcess
    PROVE  LedgerIn(R)' /\ LedgerStep
<1>1. /\ pc # "down" /\ UNCHANGED <<index, status, db, disk, orphans>>
      /\ pc' \notin {"accept", "addnode", "connect"}
      /\ view' = view \/ view' = EmptyUtxo
  BY DEF RejectBlock, KeepBestChain, VerifyDone, StopReorganize, BlockAccepted, NextHash,
         FinishProcess, AcceptFails, Return, indexVars, orphanVars, reorgVars
<1>2. NodeSane' /\ ViewOK(R, view') /\ orphans' \subseteq Sane
  BY <1>1, FirstViews DEF NodeSane, LedgerIn
<1> QED
  BY <1>1, <1>2, CallKeepsLedger

(* An orphan that leaves the pool was sane when it entered.                *)
LEMMA NextOrphanKeepsLedger ==
    ASSUME NEW R, ChainInv, LedgerIn(R), NextOrphan
    PROVE  LedgerIn(R)' /\ LedgerStep
<1> DEFINE p == Head(processHashes)
           o == Head(OrphansOf(p))
<1>1. /\ pc = "orphans" /\ pc' = "accept" /\ node' = o /\ OrphansOf(p) # <<>>
      /\ removeOrphanBlock(o) /\ UNCHANGED <<index, status, db, disk, view>>
  BY DEF NextOrphan, indexVars, reorgVars
<1>2. p \in Parents /\ prevOrphans[p] # <<>> /\ o = Head(prevOrphans[p])
  BY <1>1 DEF OrphansOf
<1>3. /\ prevOrphans[p] \in Seq(Bodies)
      /\ Elements(prevOrphans[p]) \subseteq orphans
  BY <1>2 DEF ChainInv, OrphansOK
<1>4. o \in orphans
  <2> DEFINE s == prevOrphans[p]
  <2>1. s \in Seq(Bodies) /\ s # <<>> /\ o = Head(s)
    BY <1>2, <1>3
  <2> HIDE DEF s, o
  <2>2. 1 \in DOMAIN s /\ o = s[1]
    BY <2>1
  <2>3. o \in Elements(s)
    BY <2>2 DEF Elements
  <2> QED
    BY <1>3, <2>3 DEF s
<1>5. orphans' \subseteq orphans
  BY <1>1 DEF removeOrphanBlock, PoolUpdate
<1> HIDE DEF o
<1>6. NodeSane' /\ ViewOK(R, view') /\ orphans' \subseteq Sane
  BY <1>1, <1>4, <1>5 DEF NodeSane, LedgerIn
<1> QED
  BY <1>1, <1>6, CallKeepsLedger

(* The block is stored: the buckets of the ledger stay.                    *)
LEMMA StoreBlockKeepsLedger ==
    ASSUME NEW R, ChainInv, LedgerIn(R), StoreBlock
    PROVE  LedgerIn(R)' /\ LedgerStep
<1>1. /\ pc = "accept" /\ pc' = "addnode" /\ node' = node
      /\ UNCHANGED <<index, status, disk, orphans, view>>
  BY DEF StoreBlock, indexVars, orphanVars, reorgVars
<1>2. /\ db'.rows = db.rows /\ db'.main = db.main /\ db'.tip = db.tip
      /\ db'.utxo = db.utxo /\ db'.journal = db.journal
  BY DEF StoreBlock, ChainInv, DBOK, DBFields
<1>3. LedgerOK(R, db')
  BY <1>1, <1>2 DEF LedgerIn, LedgerOK
<1>4. StatusSound(R)' /\ NodeSane'
  BY <1>1 DEF LedgerIn, StatusSound, NodeSane
<1> QED
  BY <1>1, <1>2, <1>3, <1>4 DEF LedgerIn, LedgerStep

(* Its node is added, with no verdict yet.                                 *)
LEMMA AddNodeKeepsLedger ==
    ASSUME NEW R, ChainInv, LedgerIn(R), AddNode
    PROVE  LedgerIn(R)' /\ LedgerStep
<1>1. /\ pc = "addnode" /\ pc' = "check" /\ index' = index \cup {node} /\ dirty = {}
      /\ node \in Sane /\ node \in Bodies /\ node \in Blocks
      /\ db' = Flushed(db, status', {node}) /\ UNCHANGED <<disk, orphans, view>>
      /\ status \in [Blocks -> SUBSET StatusFlag] /\ index \subseteq Blocks
  BY DEF AddNode, ChainInv, DirtyOK, MemOK, NodeOK, LedgerIn, NodeSane, orphanVars, reorgVars,
         Bodies
<1>2. status' = [status EXCEPT ![node] = {"DataStored"}]
  BY DEF AddNode
<1>3. status'[node] = {"DataStored"} /\ \A b \in Blocks \ {node} : status'[b] = status[b]
  BY <1>1, <1>2
<1>4. \A b \in index' \ {Genesis} : b \in Sane /\ ("Valid" \in status'[b] => Sound(R, b))
  BY <1>1, <1>3, IndexSane
<1>5. NodeSane' /\ orphans' \subseteq Sane /\ ViewOK(R, view')
  BY <1>1 DEF NodeSane, LedgerIn
<1>6. {node} \subseteq index'
  BY <1>1
<1> QED
  BY <1>1, <1>4, <1>5, <1>6, FlushStepKeepsLedger

(* checkConnectBlock on the tip: a block that passes is sound.             *)
LEMMA CheckKeepsLedger ==
    ASSUME NEW R, Accepted(db) \subseteq R, ChainInv, LedgerIn(R), CheckFails \/ CheckPasses
    PROVE  LedgerIn(R)' /\ LedgerStep
<1>1. /\ pc = "check" /\ node \in index /\ node \in Bodies /\ dirty = {}
      /\ status \in [Blocks -> SUBSET StatusFlag] /\ index \subseteq Blocks
  BY DEF CheckFails, CheckPasses, ChainInv, NodeOK, DirtyOK, MemOK
<1>2. /\ UNCHANGED <<index, disk, orphans>> /\ db' = Flushed(db, status', {node})
      /\ view' = view \/ view' = EmptyUtxo
  BY <1>1 DEF CheckFails, CheckPasses, AcceptFails, Return, orphanVars, reorgVars
<1>3. node \in Sane \ {Genesis} /\ node \in R \ {Genesis} /\ db.main \subseteq R
  BY <1>1, IndexSane, IndexAccepted DEF Bodies
<1>4. CheckConnectBlock(db.utxo, node) => Sound(R, node)
  <2>1. ViewOK(R, db.utxo)
    BY <1>3, FirstViews DEF LedgerIn, LedgerOK
  <2> QED
    BY <1>3, <2>1, CheckSound
<1>5. \A b \in index' \ {Genesis} : b \in Sane /\ ("Valid" \in status'[b] => Sound(R, b))
  <2>1. CASE CheckFails
    <3>1. \A b \in Blocks : status'[b] \subseteq status[b] \cup {"ValidateFailed"}
      BY <1>1, <2>1 DEF CheckFails, Flagged
    <3> QED
      BY <1>1, <1>2, <3>1, IndexSane
  <2>2. CASE CheckPasses
    <3>1. \A b \in Blocks \ {node} : status'[b] = status[b]
      BY <1>1, <2>2 DEF CheckPasses, Flagged
    <3>2. Sound(R, node)
      BY <1>4, <2>2 DEF CheckPasses
    <3> QED
      BY <1>1, <1>2, <3>1, <3>2, IndexSane
  <2> QED
    BY <2>1, <2>2
<1>6. NodeSane'
  <2>1. CASE CheckFails
    BY <2>1 DEF CheckFails, AcceptFails, Return, NodeSane
  <2>2. CASE CheckPasses
    <3>1. db'.utxo = db.utxo
      <4> DEFINE st == status'
      <4>1. DOMAIN db = DBFields /\ db' = Flushed(db, st, {node})
        BY <1>2 DEF ChainInv, DBOK
      <4> HIDE DEF st
      <4> QED
        BY <4>1, FlushedLedger
    <3> QED
      BY <2>2, <3>1 DEF CheckPasses, NodeSane
  <2> QED
    BY <2>1, <2>2
<1>7. orphans' \subseteq Sane /\ ViewOK(R, view') /\ {node} \subseteq index'
  BY <1>1, <1>2, FirstViews DEF LedgerIn
<1> QED
  BY <1>2, <1>5, <1>6, <1>7, FlushStepKeepsLedger

(* connectBlock on a block that has just passed the check.                 *)
LEMMA ConnectToTipKeepsLedger ==
    ASSUME NEW R, Accepted(db) \subseteq R, CoinbasesDiffer(R), ChainInv, LedgerIn(R), ConnectToTip
    PROVE  LedgerIn(R)' /\ LedgerStep
<1>1. /\ pc = "connect" /\ pc' \in {"accepted", "choose"} /\ dirty = {}
      /\ node \in index /\ node \in Bodies /\ tip = db.tip /\ DBOK(db)
      /\ UNCHANGED <<index, status, disk, orphans, view>>
      /\ CheckConnectBlock(db.utxo, node)
  BY DEF ConnectToTip, ChainInv, NodeOK, DirtyOK, MemOK, LedgerIn, NodeSane, orphanVars,
         reorgVars
<1>2. NodeSane' /\ StatusSound(R)' /\ orphans' \subseteq Sane /\ ViewOK(R, view')
  BY <1>1 DEF NodeSane, StatusSound, LedgerIn
<1>3. CASE ~ExtendsTip(node)
  <2>1. db' = db
    BY <1>3 DEF ConnectToTip
  <2> QED
    BY <1>1, <1>2, <2>1 DEF LedgerIn, LedgerStep
<1>4. CASE ExtendsTip(node)
  <2> DEFINE d == Flushed(db, status, dirty)
  <2>1. db' = ConnectBlockTx(d, node) /\ Parent[node] = db.tip
    BY <1>1, <1>4 DEF ConnectToTip, ExtendsTip
  <2>2. DOMAIN db = DBFields
    BY <1>1 DEF DBOK
  <2>3. /\ DOMAIN d = DBFields /\ d.tip = db.tip /\ d.main = db.main /\ d.blocks = db.blocks
        /\ d.rows = [b \in Blocks |-> IF b \in dirty THEN status[b] ELSE db.rows[b]]
    BY <2>2, FlushedFields
  <2>4. d.utxo = db.utxo /\ d.journal = db.journal
    BY <2>2, FlushedLedger
  <2> HIDE DEF d
  <2>5. d.rows = db.rows
    BY <1>1, <2>3 DEF DBOK
  <2>6. DBOK(d) /\ LedgerOK(R, d)
    BY <1>1, <2>3, <2>4, <2>5 DEF DBOK, LedgerOK, LedgerIn
  <2>7. /\ node \in Sane \ {Genesis} /\ ~MissingInput(d.utxo, node)
        /\ CoinbasesDiffer(Ancestors[node])
    BY <1>1, <2>4, IndexSane, IndexAccepted, CheckFindsInputs DEF Bodies
  <2>8. /\ LedgerOK(R, db') /\ db'.utxo = UtxoOf(Ancestors[node]) /\ db'.tip = node
    BY <2>1, <2>3, <2>6, <2>7, ConnectKeepsLedger
  <2>9. LedgerStep
    BY <1>1, <2>1, <2>7, <2>8, ConnectIsExtend
  <2> QED
    BY <1>2, <2>8, <2>9 DEF LedgerIn
<1> QED
  BY <1>3, <1>4

(* getReorganizeNodes meets an invalid block.                              *)
LEMMA RefuseBranchKeepsLedger ==
    ASSUME NEW R, ChainInv, LedgerIn(R), RefuseBranch
    PROVE  LedgerIn(R)' /\ LedgerStep
<1>1. /\ pc = "choose" /\ pc' = "accepted" /\ UNCHANGED <<index, disk, orphans, view>>
      /\ db' = Flushed(db, status', dirty \cup Branch)
  BY DEF RefuseBranch, orphanVars, reorgVars
<1>2. MemOK /\ dirty = {} /\ Branch \subseteq index
  BY <1>1, BranchFacts
<1>3. \A b \in Blocks : status'[b] \subseteq status[b] \cup {"InvalidAncestor"}
  BY DEF RefuseBranch, Flagged
<1>4. \A b \in index' \ {Genesis} : b \in Sane /\ ("Valid" \in status'[b] => Sound(R, b))
  BY <1>1, <1>2, <1>3, IndexSane DEF MemOK
<1>5. NodeSane' /\ orphans' \subseteq Sane /\ ViewOK(R, view')
  BY <1>1 DEF NodeSane, LedgerIn
<1>6. dirty \cup Branch \subseteq index'
  BY <1>1, <1>2
<1> QED
  BY <1>1, <1>4, <1>5, <1>6, FlushStepKeepsLedger

-----------------------------------------------------------------------------
(* The steps of reorganizeChain.                                           *)

(* The check phase starts from the utxo set.                               *)
LEMMA StartReorganizeKeepsLedger ==
    ASSUME NEW R, Accepted(db) \subseteq R, ChainInv, LedgerIn(R), StartReorganize
    PROVE  LedgerIn(R)' /\ LedgerStep
<1>1. /\ pc = "choose" /\ pc' = "verify" /\ view' = db.utxo
      /\ UNCHANGED <<index, status, db, disk, orphans>>
  BY DEF StartReorganize, orphanVars
<1>2. ViewOK(R, view') /\ NodeSane' /\ orphans' \subseteq Sane
  BY <1>1, IndexAccepted, FirstViews DEF LedgerIn, LedgerOK, NodeSane
<1> QED
  BY <1>1, <1>2, CallKeepsLedger

(* It undoes blocks with the journal of the main chain.                    *)
LEMMA VerifyDetachKeepsLedger ==
    ASSUME NEW R, Accepted(db) \subseteq R, ChainInv, LedgerIn(R), VerifyDetach
    PROVE  LedgerIn(R)' /\ LedgerStep
<1> DEFINE n == Highest(ToDetach)
<1>1. /\ pc = "verify" /\ pc' = "verify" /\ ToDetach # {}
      /\ UNCHANGED <<index, status, db, disk, orphans>>
      /\ view' = DisconnectTransactions(view, n, db.journal[n])
  BY DEF VerifyDetach, orphanVars, indexVars
<1>2. n \in Blocks
  <2>1. ToDetach \in SUBSET Blocks
    BY <1>1 DEF ChainInv, ReorgOK, ToDetach, Bodies
  <2> QED
    BY <1>1, <2>1, HighestInSet
<1> HIDE DEF n
<1>3. ViewOK(R, view')
  BY <1>1, <1>2, IndexAccepted, ViewDisconnects DEF LedgerIn, LedgerOK
<1>4. NodeSane' /\ orphans' \subseteq Sane
  BY <1>1 DEF LedgerIn, NodeSane
<1> QED
  BY <1>1, <1>3, <1>4, CallKeepsLedger

(* It connects blocks known to be valid, or checks them on the view: what  *)
(* passes is sound.                                                        *)
LEMMA VerifyAttachKeepsLedger ==
    ASSUME NEW R, Accepted(db) \subseteq R, ChainInv, LedgerIn(R), VerifyAttach
    PROVE  LedgerIn(R)' /\ LedgerStep
<1> DEFINE n == Lowest(ToAttach)
<1>1. /\ pc = "verify" /\ pc' = "verify" /\ ToAttach # {}
      /\ UNCHANGED <<index, db, disk, orphans>>
      /\ view' = ConnectTransactions(view, n)
      /\ IF KnownValid(n) THEN status' = status
         ELSE CheckConnectBlock(view, n) /\ status' = Flagged({n}, "Valid")
  BY DEF VerifyAttach, orphanVars
<1>2. n \in Sane \ {Genesis} /\ n \in index /\ n \in R \ {Genesis}
  <2>1. ToAttach \in SUBSET Blocks /\ ToAttach \subseteq index \ {Genesis}
    BY <1>1 DEF ChainInv, ReorgOK, ToAttach, MemOK
  <2>2. n \in ToAttach
    BY <1>1, <2>1, LowestInSet
  <2> QED
    BY <1>1, <2>1, <2>2, IndexSane, IndexAccepted
<1>3. index \subseteq Blocks
  BY <1>1 DEF ChainInv, MemOK
<1> HIDE DEF n
<1>4. ViewOK(R, view')
  BY <1>1, <1>2, ViewConnects DEF LedgerIn
<1>5. StatusSound(R)'
  <2>1. CASE KnownValid(n)
    BY <1>1, <2>1 DEF LedgerIn, StatusSound
  <2>2. CASE ~KnownValid(n)
    <3>1. Sound(R, n)
      BY <1>1, <1>2, <2>2, CheckSound DEF LedgerIn
    <3>2. \A b \in Blocks \ {n} : status'[b] \subseteq status[b]
      BY <1>1, <2>2 DEF Flagged
    <3> QED
      BY <1>1, <1>3, <3>1, <3>2 DEF LedgerIn, StatusSound
  <2> QED
    BY <2>1, <2>2
<1>6. NodeSane'
  BY <1>1 DEF NodeSane
<1> QED
  BY <1>1, <1>4, <1>5, <1>6 DEF LedgerIn, LedgerStep

(* It gives nobody a good verdict when it fails.                           *)
LEMMA VerifyFailsKeepsLedger ==
    ASSUME NEW R, ChainInv, LedgerIn(R), VerifyFails
    PROVE  LedgerIn(R)' /\ LedgerStep
<1>1. /\ pc = "verify" /\ pc' = "reorganized"
      /\ UNCHANGED <<index, db, disk, orphans, view>>
  BY DEF VerifyFails, orphanVars
<1>2. index \subseteq Blocks /\ status \in [Blocks -> SUBSET StatusFlag]
  BY <1>1 DEF ChainInv, MemOK
<1>3. \A b \in Blocks : status'[b] \subseteq status[b] \cup Bad
  <2> DEFINE n == Lowest(ToAttach)
             st == [b \in Blocks |-> status[b] \cup
                       (IF b = n THEN {"ValidateFailed"}
                        ELSE IF b \in ToAttach THEN {"InvalidAncestor"} ELSE {})]
  <2>1. status' = status \/ status' = st
    BY DEF VerifyFails
  <2> HIDE DEF n
  <2> QED
    BY <2>1 DEF Bad
<1>4. StatusSound(R)'
  BY <1>1, <1>2, <1>3 DEF LedgerIn, StatusSound, Bad
<1>5. NodeSane'
  BY <1>1 DEF NodeSane
<1> QED
  BY <1>1, <1>4, <1>5 DEF LedgerIn, LedgerStep

(* The flushes of the second phase and of its end.                         *)
LEMMA FlushDirtyKeepsLedger ==
    ASSUME NEW R, ChainInv, LedgerIn(R), FlushStatuses \/ EndReorganize
    PROVE  LedgerIn(R)' /\ LedgerStep
<1>1. /\ pc \in {"switch", "reorganized"} /\ pc' \notin {"accept", "addnode", "connect"}
      /\ UNCHANGED <<index, status, disk, orphans>> /\ db' = Flushed(db, status', dirty)
      /\ view' = view \/ view' = EmptyUtxo
  BY DEF FlushStatuses, EndReorganize, AcceptFails, Return, orphanVars, reorgVars
<1>2. dirty \subseteq index'
  BY <1>1 DEF ChainInv, MemOK
<1>3. \A b \in index' \ {Genesis} : b \in Sane /\ ("Valid" \in status'[b] => Sound(R, b))
  BY <1>1, IndexSane
<1>4. NodeSane' /\ orphans' \subseteq Sane /\ ViewOK(R, view')
  BY <1>1, FirstViews DEF NodeSane, LedgerIn
<1> QED
  BY <1>1, <1>2, <1>3, <1>4, FlushStepKeepsLedger

(* disconnectBlock.                                                        *)
LEMMA DetachBlockKeepsLedger ==
    ASSUME NEW R, ChainInv, LedgerIn(R), DetachBlock
    PROVE  LedgerIn(R)' /\ LedgerStep
<1> DEFINE n == Highest(detachNodes)
<1>1. /\ pc = "switch" /\ pc' = "switch" /\ detachNodes # {} /\ n = tip
      /\ tip = db.tip /\ DBOK(db) /\ db' = DisconnectBlockTx(db, n)
      /\ UNCHANGED <<index, status, disk, orphans, view>>
  BY DEF DetachBlock, ChainInv, MemOK, orphanVars, indexVars
<1>2. n # Genesis
  <2>1. detachNodes \in SUBSET Blocks /\ detachNodes \subseteq Bodies
    BY <1>1 DEF ChainInv, ReorgOK, Bodies
  <2> QED
    BY <1>1, <2>1, HighestInSet DEF Bodies
<1> HIDE DEF n
<1>3. /\ LedgerOK(R, db') /\ db'.tip = Parent[db.tip]
      /\ db'.utxo = UtxoOf(Ancestors[Parent[db.tip]])
  BY <1>1, <1>2, DisconnectKeepsLedger DEF LedgerIn
<1>4. LedgerStep
  BY <1>1, <1>2, <1>3, DisconnectIsRewind
<1>5. StatusSound(R)' /\ NodeSane'
  BY <1>1 DEF LedgerIn, StatusSound, NodeSane
<1> QED
  BY <1>1, <1>3, <1>4, <1>5 DEF LedgerIn

(* connectBlock on the next block to attach: it is sound, and no input is  *)
(* missing, so it is valid on top of the tip.                              *)
LEMMA AttachBlockKeepsLedger ==
    ASSUME NEW R, Accepted(db) \subseteq R, R \ {Genesis} \subseteq Sane, CoinbasesDiffer(R),
           ChainInv, LedgerIn(R), AttachBlock
    PROVE  LedgerIn(R)' /\ LedgerStep
<1> DEFINE n == Lowest(attachNodes)
<1>1. /\ pc = "switch" /\ pc' = "switch" /\ attachNodes # {} /\ Parent[n] = tip
      /\ tip = db.tip /\ DBOK(db) /\ db' = ConnectBlockTx(db, n)
      /\ ~MissingInput(db.utxo, n)
      /\ UNCHANGED <<index, status, disk, orphans, view>>
  BY DEF AttachBlock, AttachFails, ChainInv, MemOK, orphanVars, indexVars
<1>2. /\ n \in Sane \ {Genesis} /\ n \in Bodies /\ Sound(R, n)
      /\ Ancestors[n] \subseteq R /\ CoinbasesDiffer(Ancestors[n])
  <2>1. /\ attachNodes \in SUBSET Blocks /\ attachNodes \subseteq index \ {Genesis}
        /\ \A b \in attachNodes : "Valid" \in status[b]
    BY <1>1 DEF ChainInv, ReorgOK, MemOK
  <2>2. n \in attachNodes
    BY <1>1, <2>1, LowestInSet
  <2>3. Ancestors[n] \subseteq index /\ index \subseteq R
    BY <1>1, <2>1, <2>2, IndexClosed, IndexAccepted DEF ChainInv
  <2> QED
    BY <1>1, <2>1, <2>2, <2>3, IndexSane, IndexAccepted
<1> HIDE DEF n
<1>3. CheckConnectBlock(db.utxo, n)
  <2> DEFINE S == Ancestors[Parent[n]]
  <2>1. GoodChain(S) /\ db.utxo = UtxoOf(S)
    BY <1>1 DEF LedgerIn, LedgerOK, DBOK
  <2> HIDE DEF S
  <2>2. ~MissingInput(UtxoOf(S), n)
    BY <1>1, <2>1
  <2>3. CheckConnectBlock(UtxoOf(S), n)
    BY <1>2, <2>1, <2>2, SoundChecks DEF S
  <2> QED
    BY <2>1, <2>3
<1>4. LedgerOK(R, db') /\ db'.utxo = UtxoOf(Ancestors[n]) /\ db'.tip = n
  BY <1>1, <1>2, ConnectKeepsLedger DEF LedgerIn
<1>5. LedgerStep
  BY <1>1, <1>2, <1>3, <1>4, ConnectIsExtend
<1>6. StatusSound(R)' /\ NodeSane'
  BY <1>1 DEF LedgerIn, StatusSound, NodeSane
<1> QED
  BY <1>1, <1>4, <1>5, <1>6 DEF LedgerIn

-----------------------------------------------------------------------------
(* The cache, a crash and a restart.                                       *)

(* The cache is written out.                                               *)
LEMMA FlushCacheKeepsLedger ==
    ASSUME NEW R, ChainInv, LedgerIn(R), FlushCache
    PROVE  LedgerIn(R)' /\ LedgerStep
<1>1. /\ disk' = db /\ db' = db /\ pc' = pc /\ node' = node
      /\ UNCHANGED <<index, status, orphans, view>>
  BY DEF FlushCache, indexVars, orphanVars, reorgVars
<1>2. StatusSound(R)' /\ NodeSane' /\ LedgerOK(R, db')
  BY <1>1 DEF LedgerIn, StatusSound, NodeSane
<1> QED
  BY <1>1, <1>2, FlushIsSave DEF LedgerIn

(* A crash loses everything but what is on disk.                           *)
LEMMA CrashKeepsLedger ==
    ASSUME NEW R, ChainInv, LedgerOK(R, disk), Crash
    PROVE  LedgerIn(R)' /\ Chain!Recover
<1>1. pc' = "down" /\ db' = disk /\ disk' = disk /\ orphans' = {} /\ view' = EmptyUtxo
  BY DEF Crash
<1>2. DBOK(disk)
  BY DEF ChainInv
<1>3. StatusSound(R)' /\ NodeSane' /\ LedgerOK(R, db')
  BY <1>1 DEF StatusSound, NodeSane
<1> QED
  BY <1>1, <1>2, <1>3, CrashIsRecover, FirstViews DEF LedgerIn

(* initChainState loads it and changes nothing the ledger is made of.      *)
LEMMA RestartKeepsLedger ==
    ASSUME NEW R, ChainInv, LedgerIn(R), Restart
    PROVE  LedgerIn(R)' /\ LedgerStep
<1>1. /\ pc = "down" /\ pc' = "idle" /\ DBOK(db) /\ LedgerOK(R, db)
      /\ UNCHANGED <<disk, orphans, view>> /\ index' = {b \in Blocks : db.rows[b] # {}}
  BY DEF Restart, ChainInv, LedgerIn, orphanVars, reorgVars
<1>2. /\ db'.rows = status' /\ db'.main = db.main /\ db'.tip = db.tip
      /\ db'.utxo = db.utxo /\ db'.journal = db.journal
  BY <1>1 DEF Restart, DBOK, DBFields
<1>3. \A b \in Blocks : status'[b] = db.rows[b]
  <2> SUFFICES ASSUME NEW b \in Blocks PROVE status'[b] = db.rows[b]
    OBVIOUS
  <2>1. b \in Ancestors[db.tip] => "Valid" \in db.rows[b]
    BY <1>1 DEF DBOK
  <2> QED
    BY <2>1 DEF Restart
<1>4. LedgerOK(R, db')
  BY <1>1, <1>2, <1>3 DEF LedgerOK, LedgerIn, Bodies
<1>5. StatusSound(R)' /\ NodeSane'
  BY <1>1, <1>3 DEF StatusSound, NodeSane, LedgerOK, Bodies
<1> QED
  BY <1>1, <1>2, <1>4, <1>5 DEF LedgerIn, LedgerStep

(* A step that changes none of these variables.                            *)
LEMMA ClockKeepsLedger ==
    ASSUME NEW R, LedgerIn(R), UNCHANGED <<index, status, db, disk, orphans, view, pc, node>>
    PROVE  LedgerIn(R)' /\ LedgerStep
<1>1. StatusSound(R)' /\ NodeSane' /\ LedgerOK(R, db')
  BY DEF LedgerIn, StatusSound, NodeSane
<1> QED
  BY <1>1 DEF LedgerIn, LedgerStep

-----------------------------------------------------------------------------

(* Every step but a crash keeps the invariant, and is a step of Ledger or  *)
(* a stutter, as long as the accepted blocks do not repeat a coinbase.     *)
LEMMA StepKeepsLedger ==
    ASSUME NEW R, Accepted(db) \subseteq R, R = Accepted(db'), CoinbasesDiffer(R),
           ChainInv, LedgerIn(R), [Next]_vars, ~Crash
    PROVE  LedgerIn(R)' /\ LedgerStep
<1>1. ASSUME NEW b \in Blocks \ {Genesis},
             ProcessRejected(b) \/ ProcessOrphanBlock(b) \/ \E f \in FastAdd : ProcessBlock(b, f)
      PROVE  LedgerIn(R)' /\ LedgerStep
  BY <1>1, ProcessKeepsLedger DEF Bodies
<1>2. CASE CheckFails \/ CheckPasses \/ ConnectToTip \/ VerifyDetach \/ VerifyAttach
           \/ StartReorganize
  BY <1>2, CheckKeepsLedger, ConnectToTipKeepsLedger, StartReorganizeKeepsLedger,
     VerifyDetachKeepsLedger, VerifyAttachKeepsLedger
<1>3. CASE AttachBlock
  <2>1. R \ {Genesis} \subseteq Sane
    <3>1. DOMAIN db = DBFields /\ \E n : db' = ConnectBlockTx(db, n)
      BY <1>3 DEF AttachBlock, ChainInv, DBOK
    <3>2. db'.rows = db.rows
      BY <3>1, ConnectFields
    <3> QED
      BY <3>2 DEF LedgerIn, LedgerOK, Accepted, Bodies
  <2> QED
    BY <1>3, <2>1, AttachBlockKeepsLedger
<1>4. CASE Continue
  BY <1>2, <1>3, <1>4, QuietKeepsLedger, StoreBlockKeepsLedger, AddNodeKeepsLedger,
     RefuseBranchKeepsLedger, VerifyFailsKeepsLedger, FlushDirtyKeepsLedger,
     DetachBlockKeepsLedger, NextOrphanKeepsLedger
  DEF Continue
<1>5. CASE FlushCache \/ Restart
  BY <1>5, FlushCacheKeepsLedger, RestartKeepsLedger
<1>6. CASE ClockTick \/ UNCHANGED vars
  BY <1>6, ClockKeepsLedger
  DEF ClockTick, Tick, vars, orphanVars, indexVars, callVars, reorgVars
<1> QED
  BY <1>1, <1>4, <1>5, <1>6 DEF Next

(* Only a crash takes an accepted block back.                              *)
LEMMA AcceptedGrows ==
    ASSUME ChainInv, ChainInv', [Next]_vars, ~Crash
    PROVE  Accepted(db) \subseteq Accepted(db')
<1>1. CASE pc = "down"
  <2>1. db' = db \/ Restart
    BY <1>1 DEF Next, vars, ProcessRejected, ProcessOrphanBlock, ProcessBlock, Continue,
       RejectBlock, StoreBlock, AddNode, CheckFails, CheckPasses, ConnectToTip, KeepBestChain,
       RefuseBranch, StartReorganize, VerifyDetach, VerifyAttach, VerifyFails, VerifyDone,
       FlushStatuses, DetachBlock, AttachBlock, StopReorganize, EndReorganize, BlockAccepted,
       NextOrphan, NextHash, FinishProcess, FlushCache, ClockTick
  <2>2. ASSUME Restart, NEW b \in Blocks, db.rows[b] # {} PROVE db'.rows[b] # {}
    <3>1. db'.rows = status'
      BY <2>2 DEF Restart, ChainInv, DBOK, DBFields
    <3>2. db.rows[b] \subseteq status'[b]
      BY <2>2 DEF Restart
    <3> QED
      BY <2>2, <3>1, <3>2
  <2> QED
    BY <2>1, <2>2 DEF Accepted
<1>2. CASE pc # "down"
  <2>1. pc' # "down" /\ index \subseteq index'
    BY <1>2 DEF Next, vars, ProcessRejected, ProcessOrphanBlock, ProcessBlock, Continue,
       RejectBlock, StoreBlock, AddNode, CheckFails, CheckPasses, ConnectToTip, KeepBestChain,
       RefuseBranch, StartReorganize, VerifyDetach, VerifyAttach, VerifyFails, VerifyDone,
       FlushStatuses, DetachBlock, AttachBlock, StopReorganize, EndReorganize, BlockAccepted,
       NextOrphan, NextHash, FinishProcess, FlushCache, ClockTick, Restart, AcceptFails, Return,
       indexVars
  <2>2. MemOK /\ MemOK'
    BY <1>2, <2>1 DEF ChainInv
  <2> QED
    BY <2>1, <2>2 DEF MemOK, Accepted
<1> QED
  BY <1>1, <1>2

(* The invariant holds in every state.                                     *)
LEMMA NextKeepsLedger ==
    ASSUME ChainInv, ChainInv', LedgerInv, [Next]_vars
    PROVE  LedgerInv' /\ [Chain!LedgerNext]_(Chain!ledgerVars)
<1>1. disk' = disk \/ (disk' = db /\ db' = db)
  BY DEF Next, vars, ProcessRejected, ProcessOrphanBlock, ProcessBlock, Continue,
     RejectBlock, StoreBlock, AddNode, CheckFails, CheckPasses, ConnectToTip, KeepBestChain,
     RefuseBranch, StartReorganize, VerifyDetach, VerifyAttach, VerifyFails, VerifyDone,
     FlushStatuses, DetachBlock, AttachBlock, StopReorganize, EndReorganize, BlockAccepted,
     NextOrphan, NextHash, FinishProcess, FlushCache, ClockTick, Restart, Crash, AcceptFails
<1>2. CASE CoinbaseRepeated(db')
  <2>1. Chain!Void
    BY <1>2, SameTree DEF Chain!Void, CoinbaseRepeated
  <2> QED
    BY <1>1, <1>2, <2>1 DEF LedgerInv, Chain!LedgerNext
<1>3. CASE ~CoinbaseRepeated(db') /\ Crash
  <2>1. PICK R : R = Accepted(disk)
    OBVIOUS
  <2>2. db' = disk /\ disk' = disk /\ LedgerOK(R, disk)
    BY <1>3, <2>1 DEF LedgerInv, Crash
  <2>3. LedgerIn(R)' /\ Chain!Recover
    BY <1>3, <2>2, CrashKeepsLedger
  <2>4. LedgerIn(Accepted(db))' /\ LedgerOK(Accepted(disk'), disk')
    BY <2>1, <2>2, <2>3 DEF LedgerIn, StatusSound
  <2>5. LedgerInv'
    BY <2>4 DEF LedgerInv
  <2> QED
    BY <1>3, <2>3, <2>5 DEF Chain!LedgerNext
<1>4. CASE ~CoinbaseRepeated(db') /\ ~Crash
  <2>1. PICK R : R = Accepted(db')
    OBVIOUS
  <2>2. Accepted(db) \subseteq R /\ CoinbasesDiffer(R) /\ ~CoinbaseRepeated(db)
    BY <1>4, <2>1, AcceptedGrows DEF CoinbaseRepeated, CoinbasesDiffer
  <2>3. LedgerIn(R)
    <3>1. LedgerIn(Accepted(db))
      BY <2>2 DEF LedgerInv
    <3> QED
      BY <2>2, <3>1, MoreAccepted DEF LedgerIn, LedgerOK, StatusSound
  <2>4. LedgerIn(R)' /\ LedgerStep
    BY <1>4, <2>1, <2>2, <2>3, StepKeepsLedger
  <2>5. LedgerIn(Accepted(db))' /\ LedgerOK(Accepted(db'), db')
    BY <2>1, <2>4 DEF LedgerIn, StatusSound
  <2>6. CoinbaseRepeated(disk') \/ LedgerOK(Accepted(disk'), disk')
    BY <1>1, <2>5 DEF LedgerInv
  <2>7. LedgerInv'
    BY <2>5, <2>6 DEF LedgerInv
  <2>8. CoinbaseRepeated(db)' = FALSE /\ CoinbaseRepeated(db)' = CoinbaseRepeated(db)
    BY <1>4, <2>2 DEF CoinbaseRepeated, CoinbasesDiffer
  <2>9. Chain!LedgerNext \/ UNCHANGED Chain!ledgerVars
    <3>1. CASE Chain!Extend \/ Chain!Rewind \/ Chain!Save
      BY <2>2, <2>8, <3>1, Zenon DEF Chain!LedgerNext
    <3>2. CASE UNCHANGED <<db.tip, db.utxo, disk.tip>>
      BY <2>2, <2>8, <3>2 DEF Chain!ledgerVars
    <3> QED
      BY <2>4, <3>1, <3>2 DEF LedgerStep
  <2> QED
    BY <2>7, <2>9
<1> QED
  BY <1>2, <1>3, <1>4

(* The ledger invariant holds in every state.                              *)
LEMMA LedgerInvariance == Spec => []LedgerInv
<1>1. Init => LedgerInv
  BY InitLedger
<1>2. ChainInv /\ ChainInv' /\ LedgerInv /\ [Next]_vars => LedgerInv'
  BY NextKeepsLedger
<1> QED
  BY <1>1, <1>2, ChainInvariance, PTL DEF Spec

(* After any number of connects, disconnects, failed reorganizations and   *)
(* crashes, the utxo bucket and the spend journal are what the blocks of   *)
(* the main chain determine (dbPutUtxoView, dbPutSpendJournalEntry), as    *)
(* long as no block has been accepted that repeats a coinbase.             *)
THEOREM UtxoIsAlwaysReplay == Spec => []UtxoIsReplay
<1>1. LedgerInv => UtxoIsReplay
  <2> SUFFICES ASSUME LedgerInv, ~CoinbaseRepeated(db) PROVE UtxoIsReplay
    BY DEF UtxoIsReplay
  <2>1. /\ db.utxo = UtxoOf(db.main)
        /\ db.journal = JournalOf(db.main)
    BY DEF LedgerInv, LedgerIn, LedgerOK
  <2>2. ASSUME NEW b \in Blocks, NEW o \in Outputs
        PROVE  db.journal[b][o] = IF b \in db.main \ {Genesis} /\ o \in Ins(b)
                                  THEN NewEntry(CreatorIn(db.main \ {Genesis}, o), o)
                                  ELSE NoEntry
    BY <2>1 DEF JournalOf
  <2> QED
    BY <2>1, <2>2 DEF UtxoIsReplay
<1> QED
  BY <1>1, LedgerInvariance, PTL

(* The main chain moves one block at a time, a block joins it only where   *)
(* it passes checkConnectBlock, and a crash goes back to a saved state:    *)
(* the database implements Ledger, which promises nothing while a repeated *)
(* coinbase is among the accepted blocks, and all of it again once a crash *)
(* has forgotten that.                                                     *)
THEOREM ChainImplementsLedger == Spec => ImplementsLedger
<1>1. Init => Chain!LedgerInit
  <2> SUFFICES ASSUME Init PROVE Chain!LedgerInit
    OBVIOUS
  <2>1. Accepted(db) = {Genesis}
    BY TreeAssumption DEF Init, genesisDB, Accepted
  <2>2. ~CoinbaseRepeated(db)
    BY <2>1 DEF CoinbaseRepeated, CoinbasesDiffer
  <2> QED
    BY <2>2 DEF Init, genesisDB, Chain!LedgerInit, Chain!EmptyUtxo, EmptyUtxo
<1>2. ChainInv /\ ChainInv' /\ LedgerInv /\ [Next]_vars => [Chain!LedgerNext]_(Chain!ledgerVars)
  BY NextKeepsLedger
<1> QED
  BY <1>1, <1>2, ChainInvariance, LedgerInvariance, PTL
  DEF Spec, ImplementsLedger, Chain!LedgerSpec

-----------------------------------------------------------------------------
(* Rule changes.  A window ends at the node that is its own WindowEnd; the *)
(* state of a branch is proved to obey the same step from window to window *)
(* that thresholdState takes (StateStep), so whatever it finds in a cache, *)
(* and leaves in one, is the state of the branch (ThresholdIs).            *)

(* A function on a tree of bounded height, defined from the parent of an   *)
(* element: there is one.                                                  *)
IsTree(S, K, rank, last, par) ==
    /\ K \in Nat /\ rank \in [S -> 0 .. K] /\ last \subseteq S
    /\ \A n \in S \ last : par[n] \in S /\ rank[par[n]] < rank[n]

Steps(S, V, last, base, G) ==
    /\ \A n \in last : base[n] \in V
    /\ \A n \in S \ last : \A v \in V : G[<<n, v>>] \in V

LEMMA TreeRecursion ==
    ASSUME NEW S, NEW K, NEW rank, NEW V, NEW last, NEW par, NEW base, NEW G,
           IsTree(S, K, rank, last, par), Steps(S, V, last, base, G)
    PROVE  \E f \in [S -> V] : \A n \in S : f[n] = IF n \in last THEN base[n] ELSE G[<<n, f[par[n]]>>]
<1> USE DEF IsTree, Steps
<1> DEFINE Holds(f, n) == f[n] = IF n \in last THEN base[n] ELSE G[<<n, f[par[n]]>>]
           Good == {k \in Nat : \E f \in [S -> V] : \A n \in S : rank[n] < k => Holds(f, n)}
<1>1. 0 \in Good
  <2>1. CASE S = {}
    <3> DEFINE f == [n \in S |-> CHOOSE v \in V : TRUE]
    <3>1. f \in [S -> V]
      BY <2>1
    <3> QED
      BY <2>1, <3>1
  <2>2. CASE S # {}
    <3>1. PICK v \in V : TRUE
      <4>1. last # {}
        <5>1. PICK n \in S : TRUE
          BY <2>2
        <5> DEFINE ranks == {rank[m] : m \in S}
        <5>2. ranks \in SUBSET Nat /\ rank[n] \in ranks
          OBVIOUS
        <5>3. PICK x \in ranks : \A y \in ranks : x <= y
          BY <5>2, LeastNatural
        <5>4. PICK m \in S : rank[m] = x
          BY <5>3
        <5>5. m \in last
          <6>1. SUFFICES ASSUME m \notin last PROVE FALSE
            OBVIOUS
          <6>2. par[m] \in S /\ rank[par[m]] < rank[m] /\ rank[par[m]] \in ranks
            BY <6>1
          <6>3. rank[par[m]] \in 0 .. K /\ rank[m] \in 0 .. K
            BY <6>2
          <6>4. x <= rank[par[m]]
            BY <5>3, <6>2
          <6> QED
            BY <5>4, <6>2, <6>3, <6>4
        <5> QED
          BY <5>5
      <4> QED
        BY <4>1
    <3> DEFINE f == [n \in S |-> v]
    <3>2. f \in [S -> V]
      OBVIOUS
    <3>3. \A n \in S : ~(rank[n] < 0)
      OBVIOUS
    <3> QED
      BY <3>2, <3>3
  <2> QED
    BY <2>1, <2>2
<1>2. ASSUME NEW k \in Nat, k \in Good PROVE k + 1 \in Good
  <2>1. PICK f \in [S -> V] : \A n \in S : rank[n] < k => Holds(f, n)
    BY <1>2
  <2> DEFINE g == [n \in S |-> IF n \in last THEN base[n] ELSE G[<<n, f[par[n]]>>]]
  <2>2. g \in [S -> V]
    OBVIOUS
  <2>3. ASSUME NEW n \in S, rank[n] < k + 1 PROVE Holds(g, n)
    <3>1. CASE n \in last
      BY <3>1
    <3>2. CASE n \notin last
      <4>1. par[n] \in S /\ rank[par[n]] < rank[n] /\ rank[n] \in 0 .. K /\ rank[par[n]] \in 0 .. K
        BY <3>2
      <4>2. rank[par[n]] < k
        BY <2>3, <4>1
      <4>3. g[par[n]] = f[par[n]]
        BY <2>1, <4>1, <4>2
      <4> QED
        BY <3>2, <4>3
    <3> QED
      BY <3>1, <3>2
  <2>4. \A n \in S : rank[n] < k + 1 => Holds(g, n)
    BY <2>3
  <2> HIDE DEF g
  <2>5. \E h \in [S -> V] : \A n \in S : rank[n] < k + 1 => Holds(h, n)
    BY <2>2, <2>4
  <2> QED
    BY <2>5
<1>3. \A n \in Nat : n \in Good
  <2> HIDE DEF Good
  <2> QED
    BY <1>1, <1>2, NaturalsByInduction
<1>4. K + 1 \in Good
  BY <1>3
<1>5. PICK f \in [S -> V] : \A n \in S : rank[n] < K + 1 => Holds(f, n)
  BY <1>4
<1>6. \A n \in S : rank[n] < K + 1
  OBVIOUS
<1> QED
  BY <1>5, <1>6

(* What holds of a node whenever it holds of the nodes before it.          *)
LEMMA NodeInduction ==
    ASSUME NEW T, \A n \in Nodes : (\A m \in Nodes : m < n => m \in T) => n \in T
    PROVE  \A n \in Nodes : n \in T
<1> SUFFICES ASSUME Nodes \ T # {} PROVE FALSE
  OBVIOUS
<1>1. Nodes \ T \in SUBSET Nat
  BY DeploymentsAssumption
<1>2. PICK x \in Nodes \ T : \A y \in Nodes \ T : x <= y
  BY <1>1, LeastNatural
<1>3. \A m \in Nodes : m < x => m \in T
  BY <1>1, <1>2, DeploymentsAssumption
<1> QED
  BY <1>2, <1>3

(* How many nodes there are before one.                                    *)
Before(n) == Cardinality({m \in Nodes : m < n})
RankOf == [n \in Nodes |-> Before(n)]

LEMMA NodesAreRanked ==
    /\ Cardinality(Nodes) \in Nat /\ RankOf \in [Nodes -> 0 .. Cardinality(Nodes)]
    /\ \A m, n \in Nodes : m < n => RankOf[m] < RankOf[n]
<1>1. IsFiniteSet(Nodes) /\ Nodes \subseteq Nat
  BY DeploymentsAssumption
<1>2. Cardinality(Nodes) \in Nat
  BY <1>1, FS_CardinalityType
<1>3. ASSUME NEW n \in Nodes PROVE IsFiniteSet({m \in Nodes : m < n}) /\ Before(n) \in 0 .. Cardinality(Nodes)
  <2> DEFINE T == {m \in Nodes : m < n}
  <2>1. T \in SUBSET Nodes
    OBVIOUS
  <2>2. IsFiniteSet(T) /\ Cardinality(T) <= Cardinality(Nodes)
    BY <1>1, <2>1, FS_Subset
  <2> QED
    BY <1>2, <2>2, FS_CardinalityType DEF Before
<1>4. ASSUME NEW m \in Nodes, NEW n \in Nodes, m < n PROVE Before(m) < Before(n)
  <2> DEFINE A == {x \in Nodes : x < m}
             B == {x \in Nodes : x < n}
  <2>1. A \in SUBSET B /\ A # B
    <3>1. m \in B /\ m \notin A
      BY <1>1, <1>4
    <3>2. ASSUME NEW x \in Nodes, x < m PROVE x < n
      <4>1. x \in Nat /\ m \in Nat /\ n \in Nat
        BY <1>1
      <4> QED
        BY <1>4, <3>2, <4>1
    <3> QED
      BY <3>1, <3>2
  <2>2. IsFiniteSet(B)
    BY <1>3
  <2>3. Cardinality(A) <= Cardinality(B) /\ Cardinality(B) # Cardinality(A)
    BY <2>1, <2>2, FS_Subset
  <2>4. Cardinality(A) \in Nat /\ Cardinality(B) \in Nat
    BY <1>3 DEF Before
  <2> QED
    BY <2>3, <2>4 DEF Before
<1> QED
  BY <1>2, <1>3, <1>4 DEF RankOf

-----------------------------------------------------------------------------
(* Branches: a node, its parent, and so on.                                *)

Root(n) == NodeParent[n] = NoNode

LEMMA NodeParents ==
    ASSUME NEW n \in Nodes
    PROVE  /\ n \in Nat
           /\ ~Root(n) => NodeParent[n] \in Nodes /\ NodeParent[n] < n /\ NodeParent[n] \in Nat
  BY DeploymentsAssumption DEF Root

LEMMA BranchStep ==
    /\ BranchOf \in [Nodes -> SUBSET Nodes]
    /\ \A n \in Nodes : BranchOf[n] = {n} \cup IF NodeParent[n] = NoNode THEN {} ELSE BranchOf[NodeParent[n]]
<1> DEFINE Step(f) == [n \in Nodes |-> {n} \cup IF NodeParent[n] = NoNode THEN {} ELSE f[NodeParent[n]]]
           up == CHOOSE f : f = Step(f)
           last == {n \in Nodes : NodeParent[n] = NoNode}
           base == [n \in Nodes |-> {n}]
           G == [x \in Nodes \X SUBSET Nodes |-> {x[1]} \cup x[2]]
           K == Cardinality(Nodes)
           V == SUBSET Nodes
<1>1. \E f \in [Nodes -> V] : \A n \in Nodes : f[n] = IF n \in last THEN base[n] ELSE G[<<n, f[NodeParent[n]]>>]
  <2>1. \A n \in last : base[n] \in V
    OBVIOUS
  <2>2. \A n \in Nodes \ last : NodeParent[n] \in Nodes /\ RankOf[NodeParent[n]] < RankOf[n]
    BY NodeParents, NodesAreRanked DEF Root
  <2>3. \A n \in Nodes \ last, v \in V : G[<<n, v>>] \in V
    OBVIOUS
  <2>4. K \in Nat /\ RankOf \in [Nodes -> 0 .. K] /\ last \in SUBSET Nodes
    BY NodesAreRanked
  <2>5. IsTree(Nodes, K, RankOf, last, NodeParent) /\ Steps(Nodes, V, last, base, G)
    BY <2>1, <2>2, <2>3, <2>4 DEF IsTree, Steps
  <2> HIDE DEF last, base, G, K, V
  <2> QED
    BY <2>5, TreeRecursion
<1>2. PICK f \in [Nodes -> V] : \A n \in Nodes : f[n] = IF n \in last THEN base[n] ELSE G[<<n, f[NodeParent[n]]>>]
  BY <1>1
<1>3. f = Step(f)
  <2>1. ASSUME NEW n \in Nodes PROVE f[n] = {n} \cup IF NodeParent[n] = NoNode THEN {} ELSE f[NodeParent[n]]
    <3>1. CASE Root(n)
      BY <1>2, <3>1 DEF Root
    <3>2. CASE ~Root(n)
      <4>1. f[NodeParent[n]] \in V
        BY <3>2, NodeParents
      <4> QED
        BY <1>2, <3>2, <4>1 DEF Root
    <3> QED
      BY <3>1, <3>2
  <2> QED
    BY <1>2, <2>1
<1>4. up = Step(up)
  BY <1>3
<1>5. BranchOf = [n \in Nodes |-> up[n]]
  BY DEF BranchOf
<1> HIDE DEF up
<1>6. BranchOf = up
  BY <1>4, <1>5
<1>7. \A n \in Nodes : BranchOf[n] = {n} \cup IF NodeParent[n] = NoNode THEN {} ELSE BranchOf[NodeParent[n]]
  BY <1>4, <1>6
<1>8. \A n \in Nodes : BranchOf[n] \in SUBSET Nodes
  <2> DEFINE T == {n \in Nodes : BranchOf[n] \in SUBSET Nodes}
  <2>1. ASSUME NEW n \in Nodes, \A m \in Nodes : m < n => m \in T PROVE n \in T
    <3>1. NodeParent[n] # NoNode => BranchOf[NodeParent[n]] \in SUBSET Nodes
      BY <2>1, NodeParents DEF Root
    <3> QED
      BY <1>7, <3>1
  <2> HIDE DEF T
  <2>2. \A n \in Nodes : n \in T
    BY <2>1, NodeInduction
  <2> QED
    BY <2>2 DEF T
<1>9. BranchOf \in [Nodes -> SUBSET Nodes]
  BY <1>5, <1>8
<1> QED
  BY <1>7, <1>9

(* A branch goes down; the branch of an ancestor is a part of it.          *)
LEMMA BranchDown ==
    ASSUME NEW n \in Nodes
    PROVE  /\ n \in BranchOf[n] /\ BranchOf[n] \subseteq Nodes /\ IsFiniteSet(BranchOf[n])
           /\ \A a \in BranchOf[n] : a <= n /\ BranchOf[a] \subseteq BranchOf[n]
<1> DEFINE T == {m \in Nodes : \A a \in BranchOf[m] : a <= m /\ BranchOf[a] \subseteq BranchOf[m]}
<1>1. ASSUME NEW m \in Nodes, \A o \in Nodes : o < m => o \in T PROVE m \in T
  <2>1. ASSUME NEW a \in BranchOf[m] PROVE a <= m /\ BranchOf[a] \subseteq BranchOf[m]
    <3>1. CASE a = m
      BY <3>1, NodeParents
    <3>2. CASE a # m
      <4>1. ~Root(m) /\ a \in BranchOf[NodeParent[m]] /\ BranchOf[NodeParent[m]] \subseteq BranchOf[m]
        BY <3>2, BranchStep DEF Root
      <4>2. NodeParent[m] \in T /\ NodeParent[m] < m /\ NodeParent[m] \in Nat /\ m \in Nat
        BY <1>1, <4>1, NodeParents
      <4>3. a <= NodeParent[m] /\ BranchOf[a] \subseteq BranchOf[NodeParent[m]]
        BY <4>1, <4>2
      <4>4. a \in Nat
        BY BranchStep, NodeParents
      <4> QED
        BY <4>1, <4>2, <4>3, <4>4
    <3> QED
      BY <3>1, <3>2
  <2> QED
    BY <2>1
<1> HIDE DEF T
<1>2. n \in T
  BY <1>1, NodeInduction
<1>3. IsFiniteSet(BranchOf[n])
  BY BranchStep, FS_Subset, DeploymentsAssumption
<1> QED
  BY <1>2, <1>3, BranchStep DEF T

(* The height grows by one from a parent to its child.                     *)
LEMMA HeightStep ==
    ASSUME NEW n \in Nodes
    PROVE  /\ NodeHeight(n) \in Nat
           /\ Root(n) => NodeHeight(n) = 0
           /\ ~Root(n) => NodeHeight(n) = NodeHeight(NodeParent[n]) + 1
<1>1. ASSUME NEW m \in Nodes PROVE NodeHeight(m) = Cardinality(BranchOf[m]) - 1 /\ Cardinality(BranchOf[m]) \in Nat \ {0}
  <2>1. Cardinality(BranchOf[m]) \in Nat /\ Cardinality(BranchOf[m]) # 0
    BY BranchDown, FS_CardinalityType, FS_EmptySet
  <2> QED
    BY <2>1 DEF NodeHeight, HeightOf
<1>2. CASE Root(n)
  <2>1. BranchOf[n] = {n}
    BY <1>2, BranchStep DEF Root
  <2>2. Cardinality(BranchOf[n]) = 1
    BY <2>1, FS_Singleton
  <2> QED
    BY <1>1, <1>2, <2>2
<1>3. CASE ~Root(n)
  <2> DEFINE p == NodeParent[n]
  <2>1. p \in Nodes /\ p < n /\ p \in Nat /\ n \in Nat
    BY <1>3, NodeParents
  <2>2. BranchOf[n] = BranchOf[p] \cup {n}
    BY <1>3, BranchStep DEF Root
  <2>3. n \notin BranchOf[p]
    BY <2>1, BranchDown
  <2>4. Cardinality(BranchOf[n]) = Cardinality(BranchOf[p]) + 1
    BY <2>1, <2>2, <2>3, BranchDown, FS_AddElement
  <2> QED
    BY <1>1, <1>3, <2>1, <2>4
<1> QED
  BY <1>2, <1>3

(* Nobody on a branch is higher than its end, and no two are as high.      *)
LEMMA BranchHeights ==
    ASSUME NEW n \in Nodes
    PROVE  /\ \A a \in BranchOf[n] : a \in Nodes /\ NodeHeight(a) \in 0 .. NodeHeight(n) /\ (NodeHeight(a) = NodeHeight(n) => a = n)
           /\ \A a, b \in BranchOf[n] : NodeHeight(a) <= NodeHeight(b) => a \in BranchOf[b]
           /\ \A a, b \in BranchOf[n] : NodeHeight(a) = NodeHeight(b) => a = b
           /\ \A k \in 0 .. NodeHeight(n) : \E a \in BranchOf[n] : NodeHeight(a) = k
<1> DEFINE T == {m \in Nodes :
                   /\ \A a \in BranchOf[m] : NodeHeight(a) \in 0 .. NodeHeight(m) /\ (NodeHeight(a) = NodeHeight(m) => a = m)
                   /\ \A a, b \in BranchOf[m] : NodeHeight(a) <= NodeHeight(b) => a \in BranchOf[b]
                   /\ \A k \in 0 .. NodeHeight(m) : \E a \in BranchOf[m] : NodeHeight(a) = k}
<1>1. ASSUME NEW m \in Nodes, \A o \in Nodes : o < m => o \in T PROVE m \in T
  <2>1. CASE Root(m)
    <3>1. BranchOf[m] = {m} /\ NodeHeight(m) = 0
      BY <2>1, BranchStep, HeightStep DEF Root
    <3> QED
      BY <3>1
  <2>2. CASE ~Root(m)
    <3> DEFINE p == NodeParent[m]
    <3>1. p \in T /\ p \in Nodes /\ NodeHeight(m) = NodeHeight(p) + 1 /\ NodeHeight(p) \in Nat
      BY <1>1, <2>2, NodeParents, HeightStep
    <3>2. BranchOf[m] = {m} \cup BranchOf[p]
      BY <2>2, BranchStep DEF Root
    <3> HIDE DEF p
    <3>3. ASSUME NEW a \in BranchOf[m] PROVE NodeHeight(a) \in 0 .. NodeHeight(m) /\ (NodeHeight(a) = NodeHeight(m) => a = m)
      <4>1. CASE a = m
        BY <3>1, <4>1
      <4>2. CASE a # m
        <5>1. NodeHeight(a) \in 0 .. NodeHeight(p)
          BY <3>1, <3>2, <4>2
        <5> QED
          BY <3>1, <5>1
      <4> QED
        BY <4>1, <4>2
    <3>4. ASSUME NEW a \in BranchOf[m], NEW b \in BranchOf[m], NodeHeight(a) <= NodeHeight(b) PROVE a \in BranchOf[b]
      <4>1. CASE b = m
        BY <4>1
      <4>2. CASE b # m
        <5>1. b \in BranchOf[p] /\ NodeHeight(b) \in 0 .. NodeHeight(p)
          BY <3>1, <3>2, <4>2
        <5>2. a # m
          BY <3>1, <3>4, <5>1
        <5> QED
          BY <3>1, <3>2, <3>4, <5>1, <5>2
      <4> QED
        BY <4>1, <4>2
    <3>5. ASSUME NEW k \in 0 .. NodeHeight(m) PROVE \E a \in BranchOf[m] : NodeHeight(a) = k
      <4>1. CASE k = NodeHeight(m)
        BY <3>2, <4>1
      <4>2. CASE k # NodeHeight(m)
        <5>1. k \in 0 .. NodeHeight(p)
          BY <3>1, <4>2
        <5> QED
          BY <3>1, <3>2, <5>1
      <4> QED
        BY <4>1, <4>2
    <3> QED
      BY <3>3, <3>4, <3>5
  <2> QED
    BY <2>1, <2>2
<1> HIDE DEF T
<1>2. \A m \in Nodes : m \in T
  BY <1>1, NodeInduction
<1>3. ASSUME NEW a \in BranchOf[n], NEW b \in BranchOf[n], NodeHeight(a) = NodeHeight(b) PROVE a = b
  <2>1. a \in Nodes /\ b \in Nodes /\ NodeHeight(a) \in Nat
    BY BranchDown, HeightStep
  <2>2. a \in BranchOf[b]
    BY <1>2, <1>3, <2>1 DEF T
  <2> QED
    BY <1>2, <1>3, <2>1, <2>2 DEF T
<1> QED
  BY <1>2, <1>3, BranchDown DEF T

-----------------------------------------------------------------------------
(* Windows of blocks.                                                      *)

LEMMA Division ==
    ASSUME NEW W \in Nat \ {0}, NEW k \in Nat
    PROVE  /\ k % W \in 0 .. W - 1 /\ k \div W \in Nat
           /\ k = W * (k \div W) + (k % W)
<1>1. k % W \in 0 .. W - 1
  OBVIOUS
<1>2. k \div W \in Nat
  OBVIOUS
<1>3. k = W * (k \div W) + (k % W)
  OBVIOUS
<1> QED
  BY <1>1, <1>2, <1>3

LEMMA Remainder ==
    ASSUME NEW W \in Nat \ {0}, NEW q \in Nat, NEW r \in 0 .. W - 1
    PROVE  (W * q + r) % W = r
  OBVIOUS

(* The remainder of the next number.                                       *)
LEMMA NextRemainder ==
    ASSUME NEW W \in Nat \ {0}, NEW k \in Nat
    PROVE  (k + 1) % W = IF (k % W) + 1 = W THEN 0 ELSE (k % W) + 1
<1> DEFINE q == k \div W
           r == k % W
<1>1. q \in Nat /\ r \in 0 .. W - 1 /\ k = W * q + r
  BY Division
<1> HIDE DEF q, r
<1>2. CASE r + 1 = W
  <2>1. k + 1 = W * (q + 1) + 0 /\ q + 1 \in Nat /\ 0 \in 0 .. W - 1
    BY <1>1, <1>2
  <2>2. (W * (q + 1) + 0) % W = 0
    BY <2>1, Remainder
  <2> QED
    BY <1>2, <2>1, <2>2 DEF r
<1>3. CASE r + 1 # W
  <2>1. k + 1 = W * q + (r + 1) /\ r + 1 \in 0 .. W - 1
    BY <1>1, <1>3
  <2>2. (W * q + (r + 1)) % W = r + 1
    BY <1>1, <2>1, Remainder
  <2> QED
    BY <1>3, <2>1, <2>2 DEF r
<1> QED
  BY <1>2, <1>3

(* What is left without the remainder: a multiple, and a whole one above.  *)
LEMMA WholeWindows ==
    ASSUME NEW W \in Nat \ {0}, NEW k \in Nat, k >= W
    PROVE  k - (k % W) \in Nat /\ k - (k % W) >= W /\ (k - (k % W)) % W = 0
<1> DEFINE q == k \div W
           r == k % W
<1>1. q \in Nat /\ r \in 0 .. W - 1 /\ k = W * q + r
  BY Division
<1> HIDE DEF q, r
<1>2. W * q \in Nat /\ k - r = W * q + 0 /\ W * q + 0 = W * q /\ 0 \in 0 .. W - 1
  BY <1>1
<1>3. q # 0
  BY <1>1
<1>4. W * q >= W
  BY <1>1, <1>3
<1>5. (W * q + 0) % W = 0
  BY <1>1, <1>2, Remainder
<1> QED
  BY <1>2, <1>4, <1>5 DEF r

(* The ancestor at a height is the one that has it.                        *)
LEMMA AncestorAtIs ==
    ASSUME NEW n \in Nodes, NEW k \in Int
    PROVE  /\ k \in 0 .. NodeHeight(n) => AncestorAt(n, k) \in BranchOf[n] /\ NodeHeight(AncestorAt(n, k)) = k
           /\ k < 0 => AncestorAt(n, k) = NoNode
           /\ \A a \in BranchOf[n] : NodeHeight(a) = k => AncestorAt(n, k) = a
<1> DEFINE found == {a \in BranchOf[n] : NodeHeight(a) = k}
<1>1. AncestorAt(n, k) = IF found = {} THEN NoNode ELSE CHOOSE a \in found : TRUE
  BY DEF AncestorAt
<1>2. CASE k < 0
  <2>1. \A a \in BranchOf[n] : NodeHeight(a) \in Nat
    BY BranchHeights, HeightStep
  <2>2. found = {}
    BY <1>2, <2>1
  <2>3. HeightOf[n] \in Int
    BY HeightStep DEF NodeHeight
  <2> QED
    BY <1>1, <1>2, <2>1, <2>2
<1>3. ASSUME NEW a \in BranchOf[n], NodeHeight(a) = k PROVE AncestorAt(n, k) = a
  <2>1. found = {a}
    BY <1>3, BranchHeights
  <2> QED
    BY <1>1, <2>1
<1>4. CASE k \in 0 .. NodeHeight(n)
  <2>1. PICK a \in BranchOf[n] : NodeHeight(a) = k
    BY <1>4, BranchHeights
  <2>2. AncestorAt(n, k) = a
    BY <1>3, <2>1
  <2>3. ~(k < 0)
    BY <1>4
  <2> QED
    BY <1>3, <2>1, <2>2, <2>3
<1>5. CASE k > NodeHeight(n)
  <2>1. ~(k < 0) /\ ~(k \in 0 .. NodeHeight(n))
    BY <1>5, HeightStep
  <2> QED
    BY <1>3, <2>1
<1>6. k < 0 \/ k \in 0 .. NodeHeight(n) \/ k > NodeHeight(n)
  BY HeightStep
<1>7. k < 0 => ~(k \in 0 .. NodeHeight(n))
  BY HeightStep
<1> QED
  BY <1>2, <1>3, <1>4, <1>5, <1>6, <1>7

IsEnd(n) == WindowEnd(n) = n

(* A window ends with its last block; a block that ends no window counts   *)
(* on the window that its parent counts on, and a window is before the     *)
(* next one.                                                               *)
LEMMA WindowStep ==
    /\ WindowEnd(NoNode) = NoNode
    /\ \A n \in Nodes :
         /\ WindowEnd(n) = NoNode \/ (WindowEnd(n) \in BranchOf[n] /\ IsEnd(WindowEnd(n)))
         /\ IsEnd(n) \/ WindowEnd(n) = WindowEnd(NodeParent[n])
         /\ IsEnd(n) => PrevWindow(n) = WindowEnd(NodeParent[n])
<1> DEFINE W == MinerConfirmationWindow
<1>1. W \in Nat \ {0} /\ NoNode \notin Nodes
  BY DeploymentsAssumption
<1>2. WindowEnd(NoNode) = NoNode
  BY DEF WindowEnd
<1>3. ASSUME NEW n \in Nodes
      PROVE  WindowEnd(n) = IF NodeHeight(n) + 1 < W THEN NoNode ELSE AncestorAt(n, NodeHeight(n) - ((NodeHeight(n) + 1) % W))
  BY <1>1 DEF WindowEnd
<1> HIDE DEF W
<1>4. ASSUME NEW n \in Nodes, NodeHeight(n) + 1 >= W
      PROVE  LET k == NodeHeight(n) - ((NodeHeight(n) + 1) % W)
             IN  /\ k \in 0 .. NodeHeight(n) /\ k + 1 >= W /\ (k + 1) % W = 0
                 /\ WindowEnd(n) = AncestorAt(n, k) /\ WindowEnd(n) \in BranchOf[n] /\ NodeHeight(WindowEnd(n)) = k
  <2> DEFINE h == NodeHeight(n)
             r == (h + 1) % W
             k == h - r
  <2>1. h \in Nat /\ h + 1 \in Nat
    BY HeightStep
  <2>2. r \in 0 .. W - 1
    BY <1>1, <2>1, Division
  <2>3. (h + 1) - r \in Nat /\ (h + 1) - r >= W /\ ((h + 1) - r) % W = 0
    BY <1>1, <1>4, <2>1, WholeWindows
  <2>4. k + 1 = (h + 1) - r
    BY <2>1, <2>2
  <2>5. k \in 0 .. h /\ k + 1 >= W /\ (k + 1) % W = 0
    <3> HIDE DEF r
    <3>1. k \in Int /\ k <= h
      BY <2>1, <2>2
    <3>2. k + 1 >= W /\ W >= 1 /\ W \in Nat
      BY <1>1, <2>3, <2>4
    <3>3. k \in 0 .. h
      BY <2>1, <3>1, <3>2
    <3>4. (k + 1) % W = 0
      BY <2>3, <2>4
    <3> QED
      BY <3>2, <3>3, <3>4
  <2>6. WindowEnd(n) = AncestorAt(n, k)
    BY <1>1, <1>3, <1>4, <2>1
  <2> HIDE DEF r
  <2>7. AncestorAt(n, k) \in BranchOf[n] /\ NodeHeight(AncestorAt(n, k)) = k
    <3> HIDE DEF k
    <3> QED
      BY <2>5, AncestorAtIs
  <2> QED
    BY <2>5, <2>6, <2>7 DEF r
<1>5. ASSUME NEW n \in Nodes, NodeHeight(n) + 1 >= W, (NodeHeight(n) + 1) % W = 0 PROVE IsEnd(n)
  <2>1. NodeHeight(n) - 0 = NodeHeight(n) /\ NodeHeight(n) \in Nat
    BY HeightStep
  <2>2. NodeHeight(WindowEnd(n)) = NodeHeight(n) /\ WindowEnd(n) \in BranchOf[n]
    BY <1>4, <1>5, <2>1
  <2> QED
    BY <2>2, BranchHeights DEF IsEnd
<1>6. ASSUME NEW n \in Nodes PROVE WindowEnd(n) = NoNode \/ (WindowEnd(n) \in BranchOf[n] /\ IsEnd(WindowEnd(n)))
  <2>1. CASE NodeHeight(n) + 1 < W
    BY <1>3, <2>1
  <2>2. CASE NodeHeight(n) + 1 >= W
    <3>1. /\ WindowEnd(n) \in BranchOf[n] /\ NodeHeight(WindowEnd(n)) + 1 >= W
          /\ (NodeHeight(WindowEnd(n)) + 1) % W = 0
      BY <1>4, <2>2
    <3>2. WindowEnd(n) \in Nodes
      BY <3>1, BranchDown
    <3> QED
      BY <1>5, <3>1, <3>2
  <2> QED
    BY <2>1, <2>2, <1>1, HeightStep
<1>7. ASSUME NEW n \in Nodes, IsEnd(n) PROVE NodeHeight(n) + 1 >= W /\ (NodeHeight(n) + 1) % W = 0
  <2>1. NodeHeight(n) + 1 >= W
    BY <1>1, <1>3, <1>7, HeightStep DEF IsEnd
  <2>2. LET k == NodeHeight(n) - ((NodeHeight(n) + 1) % W) IN NodeHeight(n) = k /\ (k + 1) % W = 0
    BY <1>4, <1>7, <2>1 DEF IsEnd
  <2> QED
    BY <2>1, <2>2
  (* An ancestor of the parent is an ancestor, at the same height. *)
<1>8. ASSUME NEW n \in Nodes, ~Root(n), NEW k \in 0 .. NodeHeight(NodeParent[n])
      PROVE  AncestorAt(n, k) = AncestorAt(NodeParent[n], k)
  <2>1. NodeParent[n] \in Nodes /\ BranchOf[NodeParent[n]] \subseteq BranchOf[n]
    BY <1>8, NodeParents, BranchStep DEF Root
  <2>2. AncestorAt(NodeParent[n], k) \in BranchOf[NodeParent[n]] /\ NodeHeight(AncestorAt(NodeParent[n], k)) = k
    BY <2>1, AncestorAtIs
  <2> QED
    BY <2>1, <2>2, AncestorAtIs
<1>9. ASSUME NEW n \in Nodes PROVE IsEnd(n) \/ WindowEnd(n) = WindowEnd(NodeParent[n])
  <2> SUFFICES ASSUME ~IsEnd(n) PROVE WindowEnd(n) = WindowEnd(NodeParent[n])
    OBVIOUS
  <2> DEFINE h == NodeHeight(n)
             p == NodeParent[n]
  <2>1. h \in Nat
    BY HeightStep
  <2>2. CASE h + 1 < W
    <3>1. WindowEnd(n) = NoNode
      BY <1>3, <2>2
    <3>2. CASE Root(n)
      BY <1>2, <3>1, <3>2 DEF Root
    <3>3. CASE ~Root(n)
      <4>1. p \in Nodes /\ NodeHeight(p) + 1 < W
        BY <1>1, <2>1, <2>2, <3>3, NodeParents, HeightStep
      <4> QED
        BY <1>3, <3>1, <4>1
    <3> QED
      BY <3>2, <3>3
  <2>3. CASE h + 1 >= W
    <3>1. (h + 1) % W # 0
      BY <1>5, <2>3
    <3>2. h % W \in 0 .. W - 1 /\ (h + 1) % W = (h % W) + 1 /\ (h % W) + 1 # W
      BY <1>1, <2>1, <3>1, NextRemainder, Division
    <3>3. h >= W
      <4>1. SUFFICES ASSUME h < W PROVE FALSE
        BY <1>1, <2>1
      <4>2. h + 1 = W * 1 + 0 /\ 0 \in 0 .. W - 1
        BY <1>1, <2>1, <2>3, <4>1
      <4>3. (W * 1 + 0) % W = 0
        BY <1>1, <4>2, Remainder
      <4> QED
        BY <3>1, <4>2, <4>3
    <3>4. ~Root(n)
      BY <1>1, <3>3, HeightStep
    <3>5. p \in Nodes /\ h = NodeHeight(p) + 1 /\ NodeHeight(p) \in Nat
      BY <3>4, NodeParents, HeightStep
    <3>6. /\ WindowEnd(p) = AncestorAt(p, NodeHeight(p) - (h % W))
          /\ NodeHeight(p) - (h % W) \in 0 .. NodeHeight(p)
      BY <1>4, <3>3, <3>5
    <3>7. WindowEnd(n) = AncestorAt(n, h - ((h + 1) % W))
      BY <1>4, <2>3
    <3>8. h - ((h + 1) % W) = NodeHeight(p) - (h % W)
      BY <3>2, <3>5
    <3> QED
      BY <1>8, <3>4, <3>6, <3>7, <3>8
  <2> QED
    BY <1>1, <2>1, <2>2, <2>3
<1>10. ASSUME NEW n \in Nodes, IsEnd(n) PROVE PrevWindow(n) = WindowEnd(NodeParent[n])
  <2> DEFINE h == NodeHeight(n)
             p == NodeParent[n]
  <2>1. h \in Nat /\ h + 1 >= W /\ (h + 1) % W = 0 /\ PrevWindow(n) = AncestorAt(n, h - W)
    BY <1>7, <1>10, HeightStep DEF PrevWindow, W
  <2>2. CASE h < W
    <3>1. PrevWindow(n) = NoNode
      BY <1>1, <2>1, <2>2, AncestorAtIs
    <3>2. CASE Root(n)
      BY <1>2, <3>1, <3>2 DEF Root
    <3>3. CASE ~Root(n)
      <4>1. p \in Nodes /\ NodeHeight(p) + 1 < W
        BY <1>1, <2>1, <2>2, <3>3, NodeParents, HeightStep
      <4> QED
        BY <1>3, <3>1, <4>1
    <3> QED
      BY <3>2, <3>3
  <2>3. CASE h >= W
    <3>1. (h % W) + 1 = W
      <4>1. h % W \in 0 .. W - 1
        BY <1>1, <2>1, Division
      <4>2. (h + 1) % W = IF (h % W) + 1 = W THEN 0 ELSE (h % W) + 1
        BY <1>1, <2>1, NextRemainder
      <4>3. (h % W) + 1 # 0
        BY <4>1
      <4> QED
        BY <2>1, <4>2, <4>3
    <3>2. ~Root(n)
      BY <1>1, <2>3, HeightStep
    <3>3. p \in Nodes /\ h = NodeHeight(p) + 1 /\ NodeHeight(p) \in Nat
      BY <3>2, NodeParents, HeightStep
    <3>4. /\ WindowEnd(p) = AncestorAt(p, NodeHeight(p) - (h % W))
          /\ NodeHeight(p) - (h % W) \in 0 .. NodeHeight(p)
      BY <1>4, <2>3, <3>3
    <3>5. NodeHeight(p) - (h % W) = h - W
      <4>1. h % W \in 0 .. W - 1
        BY <1>1, <2>1, Division
      <4> QED
        BY <1>1, <3>1, <3>3, <4>1
    <3> QED
      BY <1>8, <2>1, <3>2, <3>4, <3>5
  <2> QED
    BY <1>1, <2>1, <2>2, <2>3
<1> QED
  BY <1>2, <1>6, <1>9, <1>10

-----------------------------------------------------------------------------
(* The state that follows from the branch, one window at a time.           *)

Ends(n) == IF WindowEnd(n) = NoNode THEN {} ELSE {e \in BranchOf[WindowEnd(n)] : WindowEnd(e) = e}
StartedEnds(n, change) ==
    {e \in Ends(n) : \A o \in Ends(n) : NodeHeight(o) >= NodeHeight(e) => medianTime[o] >= change.StartTime}
FirstEnd(set) == CHOOSE e \in set : \A o \in set : NodeHeight(e) <= NodeHeight(o)
LockedEnds(n, change, votes) ==
    {e \in StartedEnds(n, change) \ {FirstEnd(StartedEnds(n, change))} :
        /\ \A o \in StartedEnds(n, change) : NodeHeight(o) <= NodeHeight(e) => medianTime[o] < change.ExpireTime
        /\ Votes(e, votes) >= RuleChangeActivationThreshold}

TimesOK == medianTime \in [Nodes -> Nat]

IsChange(change) == change.StartTime \in Nat /\ change.ExpireTime \in Nat

LEMMA StateOfIs ==
    ASSUME NEW n, NEW change, NEW votes
    PROVE  StateOf(n, change, votes) =
             IF StartedEnds(n, change) = {} THEN "Defined"
             ELSE IF LockedEnds(n, change, votes) # {}
                  THEN IF FirstEnd(LockedEnds(n, change, votes)) = WindowEnd(n) THEN "LockedIn" ELSE "Active"
                  ELSE IF \E e \in StartedEnds(n, change) : medianTime[e] >= change.ExpireTime THEN "Failed" ELSE "Started"
  BY DEF StateOf, StartedEnds, LockedEnds, FirstEnd, Ends

(* The ends of windows on a branch.                                        *)
LEMMA EndsAre ==
    ASSUME NEW n \in Nodes
    PROVE  Ends(n) = {e \in BranchOf[n] : IsEnd(e)}
<1> DEFINE T == {m \in Nodes : Ends(m) = {e \in BranchOf[m] : IsEnd(e)}}
<1>1. ASSUME NEW m \in Nodes, \A o \in Nodes : o < m => o \in T PROVE m \in T
  <2>1. CASE IsEnd(m)
    <3>1. WindowEnd(m) # NoNode
      BY <2>1, DeploymentsAssumption DEF IsEnd
    <3> QED
      BY <2>1, <3>1 DEF IsEnd, Ends
  <2>2. CASE ~IsEnd(m)
    <3>1. WindowEnd(m) = WindowEnd(NodeParent[m])
      BY <2>2, WindowStep
    <3>2. Ends(m) = Ends(NodeParent[m])
      BY <3>1 DEF Ends
    <3>3. CASE Root(m)
      <4>1. Ends(m) = {}
        BY <3>2, <3>3, WindowStep DEF Ends, Root
      <4>2. BranchOf[m] = {m}
        BY <3>3, BranchStep DEF Root
      <4> QED
        BY <2>2, <4>1, <4>2
    <3>4. CASE ~Root(m)
      <4>1. NodeParent[m] \in T
        BY <1>1, <3>4, NodeParents
      <4>2. BranchOf[m] = {m} \cup BranchOf[NodeParent[m]]
        BY <3>4, BranchStep DEF Root
      <4> QED
        BY <2>2, <3>2, <4>1, <4>2
    <3> QED
      BY <3>3, <3>4
  <2> QED
    BY <2>1, <2>2
<1> HIDE DEF T
<1>2. n \in T
  BY <1>1, NodeInduction
<1> QED
  BY <1>2 DEF T

(* One more window.                                                        *)
LEMMA EndsStep ==
    ASSUME NEW n \in Nodes
    PROVE  /\ IsEnd(n) => Ends(n) = {n} \cup Ends(NodeParent[n])
           /\ ~IsEnd(n) => Ends(n) = Ends(NodeParent[n])
           /\ \A e \in Ends(NodeParent[n]) : e \in BranchOf[n] /\ e # n /\ NodeHeight(e) < NodeHeight(n)
<1>1. ~IsEnd(n) => Ends(n) = Ends(NodeParent[n])
  BY WindowStep DEF Ends
<1>2. CASE Root(n)
  <2>1. Ends(NodeParent[n]) = {} /\ BranchOf[n] = {n}
    BY <1>2, WindowStep, BranchStep DEF Ends, Root
  <2> QED
    BY <1>1, <2>1, EndsAre
<1>3. CASE ~Root(n)
  <2>1. NodeParent[n] \in Nodes /\ NodeHeight(n) = NodeHeight(NodeParent[n]) + 1
    BY <1>3, NodeParents, HeightStep
  <2>2. BranchOf[n] = {n} \cup BranchOf[NodeParent[n]]
    BY <1>3, BranchStep DEF Root
  <2>3. ASSUME NEW e \in Ends(NodeParent[n]) PROVE e \in BranchOf[n] /\ e # n /\ NodeHeight(e) < NodeHeight(n)
    <3>1. e \in BranchOf[NodeParent[n]]
      BY <2>1, EndsAre
    <3>2. NodeHeight(e) \in 0 .. NodeHeight(NodeParent[n]) /\ NodeHeight(NodeParent[n]) \in Nat
      BY <2>1, <3>1, BranchHeights, HeightStep
    <3> QED
      BY <2>1, <2>2, <3>1, <3>2
  <2> QED
    BY <1>1, <2>1, <2>2, <2>3, EndsAre
<1> QED
  BY <1>2, <1>3

LEMMA FirstEndIs ==
    ASSUME NEW n \in Nodes, NEW set \in SUBSET BranchOf[n], set # {}
    PROVE  /\ FirstEnd(set) \in set
           /\ \A e \in set : (\A o \in set : NodeHeight(e) <= NodeHeight(o)) => FirstEnd(set) = e
           /\ \A o \in set : NodeHeight(FirstEnd(set)) <= NodeHeight(o)
<1> DEFINE heights == {NodeHeight(e) : e \in set}
<1>1. \A e \in set : NodeHeight(e) \in Nat
  BY BranchDown, HeightStep
<1>2. heights \in SUBSET Nat /\ heights # {}
  BY <1>1
<1>3. PICK x \in heights : \A y \in heights : x <= y
  BY <1>2, LeastNatural
<1>4. \E e \in set : \A o \in set : NodeHeight(e) <= NodeHeight(o)
  BY <1>3
<1>5. FirstEnd(set) \in set /\ \A o \in set : NodeHeight(FirstEnd(set)) <= NodeHeight(o)
  BY <1>4 DEF FirstEnd
<1>6. ASSUME NEW e \in set, \A o \in set : NodeHeight(e) <= NodeHeight(o) PROVE FirstEnd(set) = e
  <2>1. NodeHeight(e) = NodeHeight(FirstEnd(set))
    BY <1>1, <1>5, <1>6
  <2> QED
    BY <1>5, <2>1, BranchHeights
<1> QED
  BY <1>5, <1>6

(* The lowest stays the lowest when a higher one joins.                    *)
LEMMA FirstEndStays ==
    ASSUME NEW n \in Nodes, NEW set \in SUBSET BranchOf[n], \A e \in set : e # n
    PROVE  FirstEnd({n} \cup set) = IF set = {} THEN n ELSE FirstEnd(set)
<1>1. {n} \cup set \in SUBSET BranchOf[n]
  BY BranchDown
<1>2. CASE set = {}
  <2>1. FirstEnd({n} \cup set) \in {n} \cup set
    BY <1>1, FirstEndIs
  <2> QED
    BY <1>2, <2>1
<1>3. CASE set # {}
  <2>1. FirstEnd(set) \in set /\ \A o \in set : NodeHeight(FirstEnd(set)) <= NodeHeight(o)
    BY <1>3, FirstEndIs
  <2>2. NodeHeight(FirstEnd(set)) <= NodeHeight(n)
    BY <2>1, BranchHeights, HeightStep
  <2>3. FirstEnd(set) \in {n} \cup set /\ \A o \in {n} \cup set : NodeHeight(FirstEnd(set)) <= NodeHeight(o)
    BY <2>1, <2>2
  <2> QED
    BY <1>1, <1>3, <2>3, FirstEndIs
<1> QED
  BY <1>2, <1>3

(* What a window is given: nothing yet, or what follows from the window    *)
(* before it.                                                              *)
LEMMA StateStep ==
    ASSUME TimesOK, NEW n \in Nodes, NEW change, IsChange(change), NEW votes
    PROVE  /\ ~IsEnd(n) => StateOf(n, change, votes) = StateOf(NodeParent[n], change, votes)
           /\ IsEnd(n) => StateOf(n, change, votes) =
                IF medianTime[n] < change.StartTime THEN "Defined"
                ELSE NextThreshold(n, StateOf(NodeParent[n], change, votes), change, votes)
<1> DEFINE p == NodeParent[n]
           before == StartedEnds(p, change)
           started == StartedEnds(n, change)
           locked == LockedEnds(p, change, votes)
           lockedNow == LockedEnds(n, change, votes)
           Late(e) == medianTime[e] >= change.ExpireTime
           InTime(e, set) == \A o \in set : NodeHeight(o) <= NodeHeight(e) => medianTime[o] < change.ExpireTime
           enough == Votes(n, votes) >= RuleChangeActivationThreshold
<1>1. medianTime[n] \in Nat /\ change.StartTime \in Nat /\ change.ExpireTime \in Nat
  BY DEF TimesOK, IsChange
<1>2. /\ \A e \in Ends(p) : /\ e \in BranchOf[n] /\ e # n /\ medianTime[e] \in Nat
                            /\ NodeHeight(e) \in Nat /\ NodeHeight(e) < NodeHeight(n)
      /\ NodeHeight(n) \in Nat
  BY EndsStep, BranchDown, HeightStep DEF TimesOK
<1>3. ASSUME ~IsEnd(n) PROVE StateOf(n, change, votes) = StateOf(p, change, votes)
  <2>1. Ends(n) = Ends(p) /\ WindowEnd(n) = WindowEnd(p)
    BY <1>3, EndsStep, WindowStep
  <2>2. StartedEnds(n, change) = StartedEnds(p, change)
    BY <2>1 DEF StartedEnds
  <2>3. LockedEnds(n, change, votes) = LockedEnds(p, change, votes)
    BY <2>2 DEF LockedEnds
  <2> QED
    BY <2>1, <2>2, <2>3, StateOfIs
<1>4. ASSUME IsEnd(n)
      PROVE  StateOf(n, change, votes) =
               IF medianTime[n] < change.StartTime THEN "Defined"
               ELSE NextThreshold(n, StateOf(p, change, votes), change, votes)
  <2>1. Ends(n) = {n} \cup Ends(p)
    BY <1>4, EndsStep
  <2>2. CASE medianTime[n] < change.StartTime
    <3>1. started = {}
      BY <1>1, <1>2, <2>1, <2>2 DEF StartedEnds
    <3> QED
      BY <2>2, <3>1, StateOfIs
  <2>3. CASE ~(medianTime[n] < change.StartTime)
    <3>1. started = {n} \cup before
      BY <1>1, <1>2, <2>1, <2>3 DEF StartedEnds
    <3>2. \A e \in before : /\ e \in BranchOf[n] /\ e # n /\ medianTime[e] \in Nat
                            /\ NodeHeight(e) \in Nat /\ NodeHeight(e) < NodeHeight(n)
      BY <1>2 DEF StartedEnds
    <3>3. FirstEnd(started) = IF before = {} THEN n ELSE FirstEnd(before)
      BY <3>1, <3>2, FirstEndStays
    <3>4. WindowEnd(n) = n
      BY <1>4 DEF IsEnd
    <3>5. NextThreshold(n, "Defined", change, votes) = IF Late(n) THEN "Failed" ELSE "Started"
      BY <1>1, <2>3 DEF NextThreshold
    <3>6. CASE before = {}
      <4>1. started = {n} /\ lockedNow = {}
        BY <3>1, <3>3, <3>6 DEF LockedEnds
      <4>2. StateOf(p, change, votes) = "Defined"
        BY <3>6, StateOfIs
      <4>3. StateOf(n, change, votes) = IF Late(n) THEN "Failed" ELSE "Started"
        BY <4>1, StateOfIs
      <4> QED
        BY <2>3, <3>5, <4>2, <4>3
    <3>7. CASE before # {}
      <4>1. locked \subseteq before
        BY DEF LockedEnds
      <4>2. lockedNow = IF InTime(n, started) /\ enough THEN {n} \cup locked ELSE locked
        <5>1. FirstEnd(before) # n
          <6>1. before \in SUBSET BranchOf[n]
            BY <3>2
          <6> QED
            BY <3>2, <3>7, <6>1, FirstEndIs
        <5>2. lockedNow = {e \in ({n} \cup before) \ {FirstEnd(before)} :
                              InTime(e, started) /\ Votes(e, votes) >= RuleChangeActivationThreshold}
          BY <3>1, <3>3, <3>7 DEF LockedEnds
        <5>3. locked = {e \in before \ {FirstEnd(before)} :
                              InTime(e, before) /\ Votes(e, votes) >= RuleChangeActivationThreshold}
          BY DEF LockedEnds
        <5>4. \A e \in before : InTime(e, started) <=> InTime(e, before)
          <6> HIDE DEF before, started
          <6> QED
            BY <1>2, <3>1, <3>2
        <5> HIDE DEF before, started, locked, lockedNow, InTime
        <5> QED
          BY <5>1, <5>2, <5>3, <5>4
      <4>3. InTime(n, started) <=> ~Late(n) /\ \A e \in before : ~Late(e)
        <5> HIDE DEF before, started
        <5> QED
          BY <1>1, <1>2, <3>1, <3>2
      <4>4. CASE locked # {}
        <5>1. locked \in SUBSET BranchOf[n] /\ \A e \in locked : e # n
          BY <3>2, <4>1
        <5>2. lockedNow # {} /\ FirstEnd(lockedNow) = FirstEnd(locked)
          BY <4>2, <4>4, <5>1, FirstEndStays
        <5>3. FirstEnd(locked) # n
          BY <4>4, <5>1, FirstEndIs
        <5>4. StateOf(n, change, votes) = "Active"
          BY <3>1, <3>4, <5>2, <5>3, StateOfIs
        <5>5. StateOf(p, change, votes) \in {"LockedIn", "Active"}
          BY <3>7, <4>4, StateOfIs
        <5>6. \A s \in {"LockedIn", "Active"} : NextThreshold(n, s, change, votes) = "Active"
          BY DEF NextThreshold
        <5> QED
          BY <2>3, <5>4, <5>5, <5>6
      <4>5. CASE locked = {} /\ \E e \in before : Late(e)
        <5>1. StateOf(p, change, votes) = "Failed"
          BY <3>7, <4>5, StateOfIs
        <5>2. lockedNow = {}
          <6> HIDE DEF before, started, locked, lockedNow, InTime, Late
          <6> QED
            BY <4>2, <4>3, <4>5
        <5>3. StateOf(n, change, votes) = "Failed"
          BY <3>1, <4>5, <5>2, StateOfIs
        <5>4. NextThreshold(n, "Failed", change, votes) = "Failed"
          BY DEF NextThreshold
        <5> QED
          BY <2>3, <5>1, <5>3, <5>4
      <4>6. CASE locked = {} /\ \A e \in before : ~Late(e)
        <5>1. StateOf(p, change, votes) = "Started"
          BY <3>7, <4>6, StateOfIs
        <5>2. NextThreshold(n, "Started", change, votes) =
                IF Late(n) THEN "Failed" ELSE IF enough THEN "LockedIn" ELSE "Started"
          BY DEF NextThreshold
        <5>3. CASE Late(n)
          <6>1. lockedNow = {}
            <7> HIDE DEF before, started, locked, lockedNow, InTime, Late
            <7> QED
              BY <4>2, <4>3, <4>6, <5>3
          <6>2. StateOf(n, change, votes) = "Failed"
            BY <3>1, <5>3, <6>1, StateOfIs
          <6> QED
            BY <2>3, <5>1, <5>2, <5>3, <6>2
        <5>4. CASE ~Late(n) /\ enough
          <6>1. lockedNow = {n}
            <7> HIDE DEF before, started, locked, lockedNow, InTime, Late
            <7> QED
              BY <4>2, <4>3, <4>6, <5>4
          <6>2. FirstEnd({n}) = n
            BY DEF FirstEnd
          <6>3. StateOf(n, change, votes) = "LockedIn"
            BY <3>1, <3>4, <6>1, <6>2, StateOfIs
          <6> QED
            BY <2>3, <5>1, <5>2, <5>4, <6>3
        <5>5. CASE ~Late(n) /\ ~enough
          <6>1. lockedNow = {}
            <7> HIDE DEF before, started, locked, lockedNow, InTime, Late
            <7> QED
              BY <4>2, <4>6, <5>5
          <6>2. started # {} /\ ~\E e \in started : Late(e)
            BY <3>1, <4>6, <5>5
          <6>3. StateOf(n, change, votes) = "Started"
            BY <6>1, <6>2, StateOfIs
          <6> QED
            BY <2>3, <5>1, <5>2, <5>5, <6>3
        <5> QED
          BY <5>3, <5>4, <5>5
      <4> QED
        BY <4>4, <4>5, <4>6
    <3> QED
      BY <3>6, <3>7
  <2> QED
    BY <2>2, <2>3
<1> QED
  BY <1>3, <1>4

(* Nothing is before the first block.                                      *)
LEMMA StateOfNothing ==
    ASSUME NEW change, NEW votes
    PROVE  StateOf(NoNode, change, votes) = "Defined"
<1>1. StartedEnds(NoNode, change) = {}
  BY WindowStep DEF StartedEnds, Ends
<1> QED
  BY <1>1, StateOfIs

-----------------------------------------------------------------------------
(* Median times.                                                           *)

LEMMA LatestOf ==
    ASSUME NEW ts \in [Nodes -> Nat], NEW A \in SUBSET Nodes, IsFiniteSet(A), A # {}
    PROVE  \E a \in A : \A b \in A : ts[b] <= ts[a]
<1> DEFINE Later(a) == {b \in A : ts[b] > ts[a]}
           counts == {Cardinality(Later(a)) : a \in A}
<1>1. ASSUME NEW a \in A PROVE IsFiniteSet(Later(a)) /\ Cardinality(Later(a)) \in Nat
  <2>1. Later(a) \in SUBSET A
    OBVIOUS
  <2> QED
    BY <2>1, FS_Subset, FS_CardinalityType
<1>2. counts \in SUBSET Nat /\ counts # {}
  BY <1>1
<1>3. PICK x \in counts : \A y \in counts : x <= y
  BY <1>2, LeastNatural
<1>4. PICK a \in A : x = Cardinality(Later(a))
  BY <1>3
<1>5. ASSUME NEW b \in A, ts[b] > ts[a] PROVE FALSE
  <2>1. Later(b) \in SUBSET Later(a) /\ b \in Later(a) /\ b \notin Later(b)
    BY <1>5
  <2>2. Cardinality(Later(b)) <= Cardinality(Later(a)) /\ Cardinality(Later(a)) # Cardinality(Later(b))
    <3> HIDE DEF Later
    <3> QED
      BY <1>1, <2>1, FS_Subset
  <2>3. Cardinality(Later(a)) <= Cardinality(Later(b))
    BY <1>3, <1>4
  <2> QED
    BY <1>1, <2>2, <2>3
<1> QED
  BY <1>5

LEMMA LastBlocksAre ==
    ASSUME NEW n \in Nodes
    PROVE  /\ n \in LastBlocks(n, medianTimeBlocks) /\ LastBlocks(n, medianTimeBlocks) \subseteq Nodes
           /\ IsFiniteSet(LastBlocks(n, medianTimeBlocks)) /\ Cardinality(LastBlocks(n, medianTimeBlocks)) \in Nat \ {0}
<1> DEFINE nodes == LastBlocks(n, medianTimeBlocks)
<1>1. n \in nodes
  BY BranchDown, HeightStep, DeploymentsAssumption DEF LastBlocks
<1>2. nodes \in SUBSET Nodes
  BY BranchDown DEF LastBlocks
<1>3. IsFiniteSet(nodes)
  BY <1>2, FS_Subset, DeploymentsAssumption
<1> HIDE DEF nodes
<1>4. Cardinality(nodes) \in Nat /\ Cardinality(nodes) # 0
  BY <1>1, <1>3, FS_CardinalityType, FS_EmptySet
<1> QED
  BY <1>1, <1>2, <1>3, <1>4 DEF nodes

Earlier(ts, n, t) == {a \in LastBlocks(n, medianTimeBlocks) : ts[a] < t}
NotLater(ts, n, t) == {a \in LastBlocks(n, medianTimeBlocks) : ts[a] <= t}
Middle(n) == Cardinality(LastBlocks(n, medianTimeBlocks)) \div 2

LEMMA Counted ==
    ASSUME NEW ts \in [Nodes -> Nat], NEW n \in Nodes, NEW t \in Nat
    PROVE  /\ IsFiniteSet(Earlier(ts, n, t)) /\ Cardinality(Earlier(ts, n, t)) \in Nat
           /\ IsFiniteSet(NotLater(ts, n, t)) /\ Cardinality(NotLater(ts, n, t)) \in Nat
           /\ Middle(n) \in Nat /\ Middle(n) < Cardinality(LastBlocks(n, medianTimeBlocks))
<1>1. /\ Earlier(ts, n, t) \in SUBSET LastBlocks(n, medianTimeBlocks)
      /\ NotLater(ts, n, t) \in SUBSET LastBlocks(n, medianTimeBlocks)
  BY DEF Earlier, NotLater
<1>2. \A c \in Nat \ {0} : c \div 2 \in Nat /\ c \div 2 < c
  OBVIOUS
<1> QED
  BY <1>1, <1>2, LastBlocksAre, FS_Subset, FS_CardinalityType DEF Middle

(* There is a median.                                                      *)
LEMMA MedianIs ==
    ASSUME NEW ts \in [Nodes -> Nat], NEW n \in Nodes
    PROVE  LET t == CalcPastMedianTime(ts, n)
           IN  t \in Nat /\ Cardinality(Earlier(ts, n, t)) <= Middle(n) /\ Middle(n) < Cardinality(NotLater(ts, n, t))
<1> DEFINE nodes == LastBlocks(n, medianTimeBlocks)
           times == {ts[a] : a \in nodes}
           late == {t \in times : Middle(n) < Cardinality(NotLater(ts, n, t))}
           Median(t) == Cardinality(Earlier(ts, n, t)) <= Middle(n) /\ Middle(n) < Cardinality(NotLater(ts, n, t))
<1>1. CalcPastMedianTime(ts, n) = CHOOSE t \in times : Median(t)
  BY DEF CalcPastMedianTime, Earlier, NotLater, Middle
<1>2. times \in SUBSET Nat /\ late \in SUBSET Nat
  BY LastBlocksAre
<1>3. late # {}
  <2>1. nodes \in SUBSET Nodes /\ IsFiniteSet(nodes) /\ nodes # {}
    BY LastBlocksAre
  <2>2. PICK a \in nodes : \A b \in nodes : ts[b] <= ts[a]
    BY <2>1, LatestOf
  <2>3. NotLater(ts, n, ts[a]) = nodes
    BY <2>2 DEF NotLater
  <2>4. Middle(n) < Cardinality(nodes)
    BY Counted
  <2>5. ts[a] \in late
    BY <2>3, <2>4
  <2> QED
    BY <2>5
<1>4. PICK t \in late : \A y \in late : t <= y
  BY <1>2, <1>3, LeastNatural
<1>5. t \in Nat /\ t \in times
  BY <1>2, <1>4
<1>6. Cardinality(Earlier(ts, n, t)) <= Middle(n)
  <2> SUFFICES ASSUME ~(Cardinality(Earlier(ts, n, t)) <= Middle(n)) PROVE FALSE
    OBVIOUS
  <2>1. IsFiniteSet(Earlier(ts, n, t)) /\ Middle(n) < Cardinality(Earlier(ts, n, t)) /\ Middle(n) \in Nat
    BY <1>5, Counted
  <2>2. Earlier(ts, n, t) # {}
    BY <2>1, FS_EmptySet
  <2>3. Earlier(ts, n, t) \in SUBSET Nodes /\ Earlier(ts, n, t) \subseteq nodes
    BY LastBlocksAre DEF Earlier
  <2>4. PICK a \in Earlier(ts, n, t) : \A b \in Earlier(ts, n, t) : ts[b] <= ts[a]
    BY <2>1, <2>2, <2>3, LatestOf
  <2>5. ts[a] < t /\ a \in nodes /\ ts[a] \in Nat
    BY <2>3, <2>4 DEF Earlier
  <2>6. NotLater(ts, n, ts[a]) = Earlier(ts, n, t)
    <3>1. \A b \in nodes : b \in Nodes /\ ts[b] \in Nat
      BY LastBlocksAre
    <3>2. \A b \in nodes : ts[b] <= ts[a] <=> ts[b] < t
      BY <1>5, <2>4, <2>5, <3>1 DEF Earlier
    <3> QED
      BY <3>2 DEF NotLater, Earlier
  <2>7. ts[a] \in late
    BY <2>1, <2>5, <2>6
  <2> QED
    BY <1>4, <1>5, <2>5, <2>7
<1>7. Median(t)
  BY <1>4, <1>6
<1> HIDE DEF times, Median
<1>8. CalcPastMedianTime(ts, n) \in times /\ Median(CalcPastMedianTime(ts, n))
  BY <1>1, <1>5, <1>7
<1> QED
  BY <1>2, <1>8 DEF Median

(* The times a behaviour starts with.                                      *)
LEMMA TimesStart ==
    ASSUME NEW timestamp \in NodeTimes, medianTime = [n \in Nodes |-> CalcPastMedianTime(timestamp, n)]
    PROVE  TimesOK
<1>1. timestamp \in [Nodes -> Nat]
  BY DeploymentsAssumption
<1>2. ASSUME NEW n \in Nodes PROVE CalcPastMedianTime(timestamp, n) \in Nat
  BY <1>1, MedianIs
<1> QED
  BY <1>2 DEF TimesOK

-----------------------------------------------------------------------------
(* thresholdState.                                                         *)

States == {"none", "Defined", "Started", "LockedIn", "Active", "Failed"}

(* A cache holds nothing but ends of windows, with the states of their     *)
(* branches.                                                               *)
CacheOK(cache, change, votes) ==
    /\ cache \in [Nodes -> States]
    /\ \A n \in Nodes : cache[n] # NoState => IsEnd(n) /\ cache[n] = StateOf(n, change, votes)

(* The state for a block is that of the last whole window before it.       *)
LEMMA StateOfEnd ==
    ASSUME NEW n \in Nodes \cup {NoNode}, NEW change, NEW votes
    PROVE  /\ WindowEnd(n) = NoNode => StateOf(n, change, votes) = "Defined"
           /\ WindowEnd(n) # NoNode => /\ n \in Nodes /\ WindowEnd(n) \in BranchOf[n] /\ WindowEnd(n) \in Nodes /\ IsEnd(WindowEnd(n))
                                       /\ StateOf(n, change, votes) = StateOf(WindowEnd(n), change, votes)
<1>1. CASE WindowEnd(n) = NoNode
  <2>1. StartedEnds(n, change) = {}
    BY <1>1 DEF StartedEnds, Ends
  <2> QED
    BY <1>1, <2>1, StateOfIs
<1>2. CASE WindowEnd(n) # NoNode
  <2> DEFINE e == WindowEnd(n)
  <2>1. n \in Nodes /\ e \in BranchOf[n] /\ e \in Nodes /\ WindowEnd(e) = e
    BY <1>2, WindowStep, BranchDown DEF IsEnd
  <2>2. Ends(n) = Ends(e)
    BY <2>1 DEF Ends
  <2>3. StartedEnds(n, change) = StartedEnds(e, change)
    BY <2>2 DEF StartedEnds
  <2>4. LockedEnds(n, change, votes) = LockedEnds(e, change, votes)
    BY <2>3 DEF LockedEnds
  <2>5. StateOf(n, change, votes) = StateOf(e, change, votes)
    BY <2>1, <2>3, <2>4, StateOfIs
  <2> QED
    BY <1>2, <2>1, <2>5 DEF IsEnd
<1> QED
  BY <1>1, <1>2

LEMMA PrevWindowDown ==
    ASSUME NEW n \in Nodes
    PROVE  PrevWindow(n) = NoNode \/ (PrevWindow(n) \in Nodes /\ PrevWindow(n) < n)
<1> DEFINE W == MinerConfirmationWindow
           k == NodeHeight(n) - W
           found == {a \in BranchOf[n] : NodeHeight(a) = k}
<1>1. PrevWindow(n) = IF found = {} THEN NoNode ELSE CHOOSE a \in found : TRUE
  BY DEF PrevWindow, AncestorAt
<1>2. ASSUME NEW a \in found PROVE a \in Nodes /\ a < n
  <2>1. a \in Nodes /\ a <= n /\ a \in Nat /\ n \in Nat
    BY BranchDown, NodeParents
  <2>2. NodeHeight(a) # NodeHeight(n)
    BY HeightStep, DeploymentsAssumption
  <2> QED
    BY <2>1, <2>2
<1> QED
  BY <1>1, <1>2

LEMMA NextThresholdType ==
    ASSUME NEW n, NEW state \in States, NEW change, NEW votes
    PROVE  NextThreshold(n, state, change, votes) \in States
  BY DEF NextThreshold, States

LEMMA ThresholdIs ==
    ASSUME TimesOK, NEW cache, NEW change, NEW votes, CacheOK(cache, change, votes), IsChange(change),
           NEW prevNode \in Nodes \cup {NoNode}
    PROVE  LET r == thresholdState(cache, prevNode, change, votes)
           IN  /\ r.state = StateOf(prevNode, change, votes)
               /\ CacheOK(r.cache, change, votes)
               /\ r.asked \subseteq Nodes
<1> DEFINE Early(n) == medianTime[n] < change.StartTime
           Stops(n) == cache[n] # NoState \/ Early(n)
           before(f, n) == IF PrevWindow(n) = NoNode THEN "Defined" ELSE f[PrevWindow(n)]
           WalkStep(f) == [n \in Nodes |-> {n} \cup IF Stops(n) \/ PrevWindow(n) = NoNode THEN {} ELSE f[PrevWindow(n)]]
           walk == CHOOSE f : f = WalkStep(f)
           AtStep(f) == [n \in Nodes |-> IF cache[n] # NoState THEN cache[n]
                                         ELSE IF Early(n) THEN "Defined"
                                         ELSE NextThreshold(n, before(f, n), change, votes)]
           states == CHOOSE f : f = AtStep(f)
           counted(walked) == {n \in walked : ~Stops(n) /\ before(states, n) = "Started" /\ medianTime[n] < change.ExpireTime}
           end == WindowEnd(prevNode)
           K == Cardinality(Nodes)
           r == thresholdState(cache, prevNode, change, votes)
<1>1. r = IF end = NoNode THEN [state |-> "Defined", cache |-> cache, asked |-> {}]
          ELSE [state |-> states[end], cache |-> CacheUpdate(cache, walk[end], states),
                asked |-> UNION {LastBlocks(n, MinerConfirmationWindow) : n \in counted(walk[end])}]
  BY DEF thresholdState
<1>2. \A n \in Nodes : PrevWindow(n) # NoNode => PrevWindow(n) \in Nodes /\ PrevWindow(n) < n /\ RankOf[PrevWindow(n)] < RankOf[n]
  BY PrevWindowDown, NodesAreRanked
<1>3. walk = WalkStep(walk)
  <2> DEFINE last == {n \in Nodes : Stops(n) \/ PrevWindow(n) = NoNode}
             par == [n \in Nodes |-> PrevWindow(n)]
             base == [n \in Nodes |-> {n}]
             G == [x \in Nodes \X SUBSET Nodes |-> {x[1]} \cup x[2]]
             V == SUBSET Nodes
  <2>1. IsTree(Nodes, K, RankOf, last, par)
    BY <1>2, NodesAreRanked DEF IsTree
  <2>2. Steps(Nodes, V, last, base, G)
    BY DEF Steps
  <2>3. \E f \in [Nodes -> V] : \A n \in Nodes : f[n] = IF n \in last THEN base[n] ELSE G[<<n, f[par[n]]>>]
    <3> HIDE DEF last, par, base, G, V, K
    <3> QED
      BY <2>1, <2>2, TreeRecursion
  <2>4. PICK f \in [Nodes -> V] : \A n \in Nodes : f[n] = IF n \in last THEN base[n] ELSE G[<<n, f[par[n]]>>]
    BY <2>3
  <2>5. ASSUME NEW n \in Nodes
        PROVE  f[n] = {n} \cup IF Stops(n) \/ PrevWindow(n) = NoNode THEN {} ELSE f[PrevWindow(n)]
    <3>1. CASE n \in last
      BY <2>4, <3>1
    <3>2. CASE n \notin last
      <4>1. par[n] = PrevWindow(n) /\ f[PrevWindow(n)] \in V
        BY <1>2, <3>2
      <4>2. f[n] = G[<<n, f[PrevWindow(n)]>>]
        BY <2>4, <3>2, <4>1
      <4> QED
        BY <3>2, <4>1, <4>2
    <3> QED
      BY <3>1, <3>2
  <2>6. f = WalkStep(f)
    <3> HIDE DEF Stops
    <3> QED
      BY <2>4, <2>5
  <2> QED
    BY <2>6
<1>4. states = AtStep(states) /\ states \in [Nodes -> States]
  <2> DEFINE last == {n \in Nodes : Stops(n) \/ PrevWindow(n) = NoNode}
             par == [n \in Nodes |-> PrevWindow(n)]
             base == [n \in Nodes |-> IF cache[n] # NoState THEN cache[n]
                                      ELSE IF Early(n) THEN "Defined" ELSE NextThreshold(n, "Defined", change, votes)]
             G == [x \in Nodes \X States |-> NextThreshold(x[1], x[2], change, votes)]
  <2>1. IsTree(Nodes, K, RankOf, last, par)
    BY <1>2, NodesAreRanked DEF IsTree
  <2>2. Steps(Nodes, States, last, base, G)
    <3>1. "Defined" \in States
      BY DEF States
    <3>2. \A n \in Nodes : base[n] \in States
      BY <3>1, NextThresholdType DEF CacheOK
    <3>3. \A n \in Nodes : \A v \in States : G[<<n, v>>] \in States
      BY NextThresholdType
    <3> HIDE DEF base, G
    <3> QED
      BY <3>2, <3>3 DEF Steps
  <2>3. \E f \in [Nodes -> States] : \A n \in Nodes : f[n] = IF n \in last THEN base[n] ELSE G[<<n, f[par[n]]>>]
    <3> HIDE DEF last, par, base, G, K
    <3> QED
      BY <2>1, <2>2, TreeRecursion
  <2>4. PICK f \in [Nodes -> States] : \A n \in Nodes : f[n] = IF n \in last THEN base[n] ELSE G[<<n, f[par[n]]>>]
    BY <2>3
  <2>5. ASSUME NEW n \in Nodes
        PROVE  f[n] = IF cache[n] # NoState THEN cache[n] ELSE IF Early(n) THEN "Defined"
                      ELSE NextThreshold(n, before(f, n), change, votes)
    <3>1. CASE n \in last
      BY <2>4, <3>1
    <3>2. CASE n \notin last
      <4>1. par[n] = PrevWindow(n) /\ f[PrevWindow(n)] \in States
        BY <1>2, <3>2
      <4>2. f[n] = G[<<n, f[PrevWindow(n)]>>]
        BY <2>4, <3>2, <4>1
      <4> QED
        BY <3>2, <4>1, <4>2
    <3> QED
      BY <3>1, <3>2
  <2>6. f = AtStep(f)
    <3> HIDE DEF Early, before
    <3> QED
      BY <2>4, <2>5
  <2>7. states = AtStep(states)
    BY <2>6
  <2>8. \A n \in Nodes : states[n] \in States
    <3> DEFINE T == {n \in Nodes : states[n] \in States}
    <3>1. ASSUME NEW n \in Nodes, \A m \in Nodes : m < n => m \in T PROVE n \in T
      <4>1. before(states, n) \in States
        BY <1>2, <3>1 DEF States
      <4>2. NextThreshold(n, before(states, n), change, votes) \in States
        BY <4>1, NextThresholdType
      <4>3. cache[n] \in States /\ "Defined" \in States
        BY DEF CacheOK, States
      <4>4. states[n] = IF cache[n] # NoState THEN cache[n] ELSE IF Early(n) THEN "Defined"
                        ELSE NextThreshold(n, before(states, n), change, votes)
        <5> HIDE DEF states, before, Early
        <5> QED
          BY <2>7
      <4> QED
        BY <4>2, <4>3, <4>4
    <3> HIDE DEF T
    <3>2. \A n \in Nodes : n \in T
      BY <3>1, NodeInduction
    <3> QED
      BY <3>2 DEF T
  <2> HIDE DEF states
  <2> QED
    BY <2>7, <2>8
<1> HIDE DEF states, walk
  (* The states computed are those of the branch. *)
<1>5. \A n \in Nodes : IsEnd(n) => states[n] = StateOf(n, change, votes)
  <2> DEFINE T == {n \in Nodes : IsEnd(n) => states[n] = StateOf(n, change, votes)}
  <2>1. ASSUME NEW n \in Nodes, \A m \in Nodes : m < n => m \in T, IsEnd(n) PROVE states[n] = StateOf(n, change, votes)
    <3>1. states[n] = IF cache[n] # NoState THEN cache[n] ELSE IF Early(n) THEN "Defined"
                      ELSE NextThreshold(n, before(states, n), change, votes)
      <4> HIDE DEF before, Early
      <4> QED
        BY <1>4
    <3>2. CASE cache[n] # NoState
      BY <3>1, <3>2 DEF CacheOK
    <3>3. CASE cache[n] = NoState /\ Early(n)
      BY <2>1, <3>1, <3>3, StateStep
    <3>4. CASE cache[n] = NoState /\ ~Early(n)
      <4>1. before(states, n) = StateOf(NodeParent[n], change, votes)
        <5>1. NodeParent[n] \in Nodes \cup {NoNode}
          BY DeploymentsAssumption
        <5>2. PrevWindow(n) = WindowEnd(NodeParent[n])
          BY <2>1, WindowStep
        <5>3. CASE PrevWindow(n) = NoNode
          BY <5>1, <5>2, <5>3, StateOfEnd
        <5>4. CASE PrevWindow(n) # NoNode
          <6>1. PrevWindow(n) \in Nodes /\ PrevWindow(n) < n /\ IsEnd(PrevWindow(n))
            BY <1>2, <5>1, <5>2, <5>4, StateOfEnd
          <6>2. states[PrevWindow(n)] = StateOf(PrevWindow(n), change, votes)
            BY <2>1, <6>1
          <6>3. StateOf(NodeParent[n], change, votes) = StateOf(PrevWindow(n), change, votes)
            BY <5>1, <5>2, <5>4, StateOfEnd
          <6> QED
            BY <5>4, <6>2, <6>3
        <5> QED
          BY <5>3, <5>4
      <4>2. states[n] = NextThreshold(n, StateOf(NodeParent[n], change, votes), change, votes)
        BY <3>1, <3>4, <4>1
      <4> QED
        BY <2>1, <3>4, <4>2, StateStep
    <3> QED
      BY <3>2, <3>3, <3>4
  <2>2. ASSUME NEW n \in Nodes, \A m \in Nodes : m < n => m \in T PROVE n \in T
    BY <2>1, <2>2
  <2> HIDE DEF T
  <2>3. \A n \in Nodes : n \in T
    BY <2>2, NodeInduction
  <2> QED
    BY <2>3 DEF T
  (* The windows walked are windows. *)
<1>6. \A n \in Nodes : walk[n] \subseteq Nodes /\ (IsEnd(n) => \A m \in walk[n] : IsEnd(m))
  <2> DEFINE T == {n \in Nodes : walk[n] \subseteq Nodes /\ (IsEnd(n) => \A m \in walk[n] : IsEnd(m))}
  <2>1. ASSUME NEW n \in Nodes, \A m \in Nodes : m < n => m \in T PROVE n \in T
    <3>1. walk[n] = {n} \cup IF Stops(n) \/ PrevWindow(n) = NoNode THEN {} ELSE walk[PrevWindow(n)]
      <4> HIDE DEF Stops
      <4> QED
        BY <1>3
    <3>2. CASE Stops(n) \/ PrevWindow(n) = NoNode
      BY <3>1, <3>2
    <3>3. CASE ~(Stops(n) \/ PrevWindow(n) = NoNode)
      <4>1. PrevWindow(n) \in Nodes /\ PrevWindow(n) \in T
        BY <1>2, <2>1, <3>3
      <4>2. IsEnd(n) => IsEnd(PrevWindow(n))
        <5>1. NodeParent[n] \in Nodes \cup {NoNode}
          BY DeploymentsAssumption
        <5> QED
          BY <3>3, <5>1, WindowStep, StateOfEnd
      <4>3. walk[n] = {n} \cup walk[PrevWindow(n)]
        BY <3>1, <3>3
      <4> QED
        BY <4>1, <4>2, <4>3
    <3> QED
      BY <3>2, <3>3
  <2> HIDE DEF T
  <2>2. \A n \in Nodes : n \in T
    BY <2>1, NodeInduction
  <2> QED
    BY <2>2 DEF T
<1>7. CASE end = NoNode
  <2>1. r = [state |-> "Defined", cache |-> cache, asked |-> {}]
    BY <1>1, <1>7
  <2>2. StateOf(prevNode, change, votes) = "Defined"
    BY <1>7, StateOfEnd
  <2> HIDE DEF r
  <2>3. r.state = "Defined" /\ r.cache = cache /\ r.asked = {}
    BY <2>1
  <2> QED
    BY <2>2, <2>3 DEF r
<1>8. CASE end # NoNode
  <2> DEFINE A == UNION {LastBlocks(n, MinerConfirmationWindow) : n \in counted(walk[end])}
             C == CacheUpdate(cache, walk[end], states)
  <2>1. end \in Nodes /\ IsEnd(end) /\ StateOf(prevNode, change, votes) = StateOf(end, change, votes)
    BY <1>8, StateOfEnd
  <2>2. r = [state |-> states[end], cache |-> C, asked |-> A]
    BY <1>1, <1>8
  <2>3. walk[end] \subseteq Nodes /\ \A m \in walk[end] : IsEnd(m)
    BY <1>6, <2>1
  <2>4. A \subseteq Nodes
    <3>1. counted(walk[end]) \subseteq Nodes
      BY <2>3
    <3>2. \A n \in Nodes : LastBlocks(n, MinerConfirmationWindow) \subseteq Nodes
      BY BranchDown DEF LastBlocks
    <3> HIDE DEF counted
    <3> QED
      BY <3>1, <3>2
  <2>5. CacheOK(C, change, votes)
    <3>1. C = [n \in Nodes |-> IF n \in walk[end] THEN states[n] ELSE cache[n]]
      BY DEF CacheUpdate
    <3> HIDE DEF C, end
    <3>2. C \in [Nodes -> States]
      BY <1>4, <3>1 DEF CacheOK
    <3>3. ASSUME NEW n \in Nodes, C[n] # NoState PROVE IsEnd(n) /\ C[n] = StateOf(n, change, votes)
      BY <1>5, <2>3, <3>1, <3>3 DEF CacheOK
    <3> QED
      BY <3>2, <3>3 DEF CacheOK
  <2>6. states[end] = StateOf(end, change, votes)
    BY <1>5, <2>1
  <2> HIDE DEF r, A, C, end
  <2>7. r.state = states[end] /\ r.cache = C /\ r.asked = A
    BY <2>2
  <2> QED
    BY <2>1, <2>4, <2>5, <2>6, <2>7 DEF r
<1> QED
  BY <1>7, <1>8

-----------------------------------------------------------------------------
(* Folding over a set stays in a set that every step stays in.             *)

Pick(s) == CHOOSE x \in s : TRUE
Stays(T, V, start, G) == IsFiniteSet(T) /\ start \in V /\ \A x \in T : \A v \in V : G[<<x, v>>] \in V
IsFold(T, V, start, G) ==
    \E f \in [SUBSET T -> V] : \A s \in SUBSET T : f[s] = IF s = {} THEN start ELSE G[<<Pick(s), f[s \ {Pick(s)}]>>]

LEMMA FoldRecursion ==
    ASSUME NEW T, NEW V, NEW start, NEW G, Stays(T, V, start, G)
    PROVE  IsFold(T, V, start, G)
<1> DEFINE S == SUBSET T
           K == Cardinality(T)
           rank == [s \in S |-> Cardinality(s)]
           last == {{}}
           par == [s \in S |-> s \ {Pick(s)}]
           base == [s \in S |-> start]
           H == [y \in S \X V |-> G[<<Pick(y[1]), y[2]>>]]
<1> USE DEF Stays
<1>1. ASSUME NEW s \in S PROVE IsFiniteSet(s) /\ Cardinality(s) \in 0 .. K
  BY FS_Subset, FS_CardinalityType
<1>2. ASSUME NEW s \in S, s # {} PROVE Pick(s) \in s /\ Pick(s) \in T /\ par[s] \in S /\ Cardinality(par[s]) < Cardinality(s)
  <2>1. Pick(s) \in s
    BY <1>2 DEF Pick
  <2>2. Cardinality(s \ {Pick(s)}) = Cardinality(s) - 1
    BY <1>1, <2>1, FS_RemoveElement
  <2> QED
    BY <1>1, <2>1, <2>2
<1>3. IsTree(S, K, rank, last, par)
  <2>1. K \in Nat
    BY FS_CardinalityType
  <2>2. \A s \in S \ last : par[s] \in S /\ rank[par[s]] < rank[s]
    BY <1>2
  <2>3. rank \in [S -> 0 .. K] /\ last \subseteq S
    BY <1>1
  <2> HIDE DEF K, rank, last, par, S
  <2> QED
    BY <2>1, <2>2, <2>3 DEF IsTree
<1>4. Steps(S, V, last, base, H)
  <2>1. \A s \in last : base[s] \in V
    OBVIOUS
  <2>2. \A s \in S \ last : \A v \in V : H[<<s, v>>] \in V
    BY <1>2
  <2> HIDE DEF last, base, H, S
  <2> QED
    BY <2>1, <2>2 DEF Steps
<1>5. \E f \in [S -> V] : \A s \in S : f[s] = IF s \in last THEN base[s] ELSE H[<<s, f[par[s]]>>]
  <2> HIDE DEF last, base, H, S, K, rank, par
  <2> QED
    BY <1>3, <1>4, TreeRecursion
<1>6. PICK f \in [S -> V] : \A s \in S : f[s] = IF s \in last THEN base[s] ELSE H[<<s, f[par[s]]>>]
  BY <1>5
<1>7. ASSUME NEW s \in S PROVE f[s] = IF s = {} THEN start ELSE G[<<Pick(s), f[s \ {Pick(s)}]>>]
  <2>1. CASE s = {}
    BY <1>6, <2>1
  <2>2. CASE s # {}
    <3>1. par[s] = s \ {Pick(s)} /\ f[par[s]] \in V
      BY <1>2, <1>6, <2>2
    <3>2. f[s] = H[<<s, f[par[s]]>>]
      BY <1>6, <2>2
    <3>3. H[<<s, f[par[s]]>>] = G[<<Pick(s), f[par[s]]>>]
      BY <3>1
    <3> QED
      BY <2>2, <3>1, <3>2, <3>3
  <2> QED
    BY <2>1, <2>2
<1> QED
  BY <1>6, <1>7 DEF IsFold

LEMMA FoldInduction ==
    ASSUME NEW T, IsFiniteSet(T), NEW V, NEW f, f[{}] \in V,
           \A s \in SUBSET T : s # {} /\ f[s \ {Pick(s)}] \in V => f[s] \in V
    PROVE  f[T] \in V
<1> DEFINE Good == {k \in Nat : \A s \in SUBSET T : Cardinality(s) = k => f[s] \in V}
<1>1. ASSUME NEW s \in SUBSET T PROVE IsFiniteSet(s) /\ Cardinality(s) \in Nat
  BY FS_Subset, FS_CardinalityType
<1>2. 0 \in Good
  BY <1>1, FS_EmptySet
<1>3. ASSUME NEW k \in Nat, k \in Good PROVE k + 1 \in Good
  <2>1. ASSUME NEW s \in SUBSET T, Cardinality(s) = k + 1 PROVE f[s] \in V
    <3>1. s # {}
      BY <1>1, <2>1, FS_EmptySet
    <3>2. Pick(s) \in s
      BY <3>1 DEF Pick
    <3> DEFINE x == Pick(s)
    <3> HIDE DEF x
    <3>3. Cardinality(s \ {x}) = Cardinality(s) - 1
      BY <1>1, <3>2, FS_RemoveElement DEF x
    <3>4. Cardinality(s \ {x}) = k
      BY <2>1, <3>3
    <3>5. f[s \ {x}] \in V
      BY <1>3, <3>4
    <3> QED
      BY <3>1, <3>5 DEF x
  <2> QED
    BY <2>1
<1> HIDE DEF Good
<1>4. \A k \in Nat : k \in Good
  BY <1>2, <1>3, NaturalsByInduction
<1>5. Cardinality(T) \in Good
  BY <1>1, <1>4
<1> QED
  BY <1>5 DEF Good

-----------------------------------------------------------------------------
(* The invariant.                                                          *)

CacheSet == [Changes -> [Nodes -> States]]
CachesOK(caches) ==
    /\ caches \in CacheSet
    /\ \A d \in Changes : CacheOK(caches[d], d, Signals(d.BitNumber))
WarningsOK(warnings) ==
    /\ warnings \in [VersionBits -> [Nodes -> States]]
    /\ \A bit \in VersionBits : CacheOK(warnings[bit], UnknownChange(bit), UnknownVotes(bit))

DeployInv ==
    /\ DOMAIN version = Nodes /\ TimesOK
    /\ CachesOK(deploymentCaches) /\ WarningsOK(warningCaches)
    /\ WarnedForACause

LEMMA ChangesAre ==
    /\ \A d \in Changes : IsChange(d) /\ d.BitNumber \in VersionBits
    /\ \A bit : IsChange(UnknownChange(bit))
  BY DeploymentsAssumption DEF IsChange, UnknownChange, Forever

(* What a change is said to be, and what its cache is then.                *)
LEMMA Answers ==
    ASSUME TimesOK, NEW caches, CachesOK(caches), NEW n \in Nodes \cup {NoNode}
    PROVE  /\ \A d \in Changes : deploymentState(caches, n, d).state = StateOf(n, d, Signals(d.BitNumber))
           /\ \A d \in Changes : CacheOK(deploymentState(caches, n, d).cache, d, Signals(d.BitNumber))
           /\ CachesOK(CachesAfter(caches, n))
           /\ calcNextBlockVersion(caches, n) = ExpectedBits(n)
<1>1. ASSUME NEW d \in Changes
      PROVE  /\ deploymentState(caches, n, d).state = StateOf(n, d, Signals(d.BitNumber))
             /\ CacheOK(deploymentState(caches, n, d).cache, d, Signals(d.BitNumber))
  BY ThresholdIs, ChangesAre DEF deploymentState, CachesOK
<1>2. CachesOK(CachesAfter(caches, n))
  BY <1>1 DEF CachesOK, CachesAfter, CacheSet, CacheOK
<1>3. calcNextBlockVersion(caches, n) = ExpectedBits(n)
  BY <1>1 DEF calcNextBlockVersion, ExpectedBits
<1> QED
  BY <1>1, <1>2, <1>3

LEMMA VotesAre ==
    ASSUME TimesOK, NEW caches, CachesOK(caches), NEW bit
    PROVE  Unexpected(caches, bit) = UnknownVotes(bit)
<1>1. \A n \in Nodes : NodeParent[n] \in Nodes \cup {NoNode}
  BY DeploymentsAssumption
<1>2. \A n \in Signals(bit) : n \in Nodes
  BY DEF Signals
<1>3. \A n \in Signals(bit) : calcNextBlockVersion(caches, NodeParent[n]) = ExpectedBits(NodeParent[n])
  BY <1>1, <1>2, Answers
<1> QED
  BY <1>3 DEF Unexpected, UnknownVotes

-----------------------------------------------------------------------------
(* The warnings.                                                           *)

AskedFor(caches, set) == FoldSet(LAMBDA n, c : CachesAfter(c, NodeParent[n]), caches, set)

(* Asking for the expected versions of blocks, whichever they are and in   *)
(* whatever order, keeps the caches of the changes right.                  *)
LEMMA AskedForIs ==
    ASSUME TimesOK, NEW caches, CachesOK(caches), NEW S \in SUBSET Nodes
    PROVE  CachesOK(AskedFor(caches, S))
<1> DEFINE V == {c \in CacheSet : CachesOK(c)}
           G == [y \in S \X V |-> CachesAfter(y[2], NodeParent[y[1]])]
           Step(f) == [s \in SUBSET S |-> IF s = {} THEN caches ELSE CachesAfter(f[s \ {Pick(s)}], NodeParent[Pick(s)])]
           f == CHOOSE g : g = Step(g)
<1>1. IsFiniteSet(S)
  BY FS_Subset, DeploymentsAssumption
<1>2. AskedFor(caches, S) = f[S]
  BY DEF AskedFor, FoldSet, MapThenFoldSet, Pick
<1>3. caches \in V
  BY DEF CachesOK
<1>4. ASSUME NEW n \in S, NEW c \in V PROVE CachesAfter(c, NodeParent[n]) \in V
  <2>1. NodeParent[n] \in Nodes \cup {NoNode}
    BY DeploymentsAssumption
  <2>2. CachesOK(CachesAfter(c, NodeParent[n]))
    BY <2>1, Answers
  <2> QED
    BY <2>2 DEF CachesOK
<1>5. \E g \in [SUBSET S -> V] : \A s \in SUBSET S : g[s] = IF s = {} THEN caches ELSE G[<<Pick(s), g[s \ {Pick(s)}]>>]
  <2>1. \A n \in S : \A c \in V : G[<<n, c>>] \in V
    BY <1>4
  <2> HIDE DEF V, G, f, Step
  <2>2. Stays(S, V, caches, G)
    BY <1>1, <1>3, <2>1 DEF Stays
  <2>3. IsFold(S, V, caches, G)
    BY <2>2, FoldRecursion
  <2> QED
    BY <2>3 DEF IsFold
<1>6. PICK g \in [SUBSET S -> V] : \A s \in SUBSET S : g[s] = IF s = {} THEN caches ELSE G[<<Pick(s), g[s \ {Pick(s)}]>>]
  BY <1>5
<1>7. ASSUME NEW s \in SUBSET S
      PROVE  g[s] = IF s = {} THEN caches ELSE CachesAfter(g[s \ {Pick(s)}], NodeParent[Pick(s)])
  <2>1. CASE s = {}
    BY <1>6, <2>1
  <2>2. CASE s # {}
    <3>1. Pick(s) \in S
      BY <2>2 DEF Pick
    <3>2. g[s \ {Pick(s)}] \in V
      <4> HIDE DEF V
      <4> QED
        BY <1>6
    <3>3. G[<<Pick(s), g[s \ {Pick(s)}]>>] = CachesAfter(g[s \ {Pick(s)}], NodeParent[Pick(s)])
      <4> HIDE DEF V
      <4> QED
        BY <3>1, <3>2
    <3> QED
      BY <1>6, <2>2, <3>3
  <2> QED
    BY <2>1, <2>2
<1>8. g = Step(g)
  <2> HIDE DEF V, G
  <2> QED
    BY <1>6, <1>7
<1>9. f = Step(f)
  BY <1>8
<1> HIDE DEF f
<1>10. f[S] \in V
  <2>1. f[{}] \in V
    BY <1>3, <1>9
  <2>2. ASSUME NEW s \in SUBSET S, s # {}, f[s \ {Pick(s)}] \in V PROVE f[s] \in V
    <3>1. Pick(s) \in S
      BY <2>2 DEF Pick
    <3>2. f[s] = CachesAfter(f[s \ {Pick(s)}], NodeParent[Pick(s)])
      BY <1>9, <2>2
    <3> HIDE DEF V
    <3> QED
      BY <1>4, <2>2, <3>1, <3>2
  <2> HIDE DEF V
  <2> QED
    BY <1>1, <2>1, <2>2, FoldInduction
<1> QED
  BY <1>2, <1>10

LEMMA WarningIs ==
    ASSUME TimesOK, NEW caches, CachesOK(caches), NEW warnings, WarningsOK(warnings),
           NEW n \in Nodes \cup {NoNode}, NEW bit \in VersionBits
    PROVE  /\ warningState(caches, warnings, n, bit).state = StateOf(n, UnknownChange(bit), UnknownVotes(bit))
           /\ WarningsOK(warningState(caches, warnings, n, bit).warnings)
           /\ CachesOK(warningState(caches, warnings, n, bit).caches)
<1> DEFINE r == thresholdState(warnings[bit], n, UnknownChange(bit), UnknownVotes(bit))
           A == AskedFor(caches, r.asked \cap Signals(bit))
           w == warningState(caches, warnings, n, bit)
<1>1. /\ r.state = StateOf(n, UnknownChange(bit), UnknownVotes(bit))
      /\ CacheOK(r.cache, UnknownChange(bit), UnknownVotes(bit))
      /\ r.asked \subseteq Nodes
  <2>1. CacheOK(warnings[bit], UnknownChange(bit), UnknownVotes(bit)) /\ IsChange(UnknownChange(bit))
    BY ChangesAre DEF WarningsOK
  <2> QED
    BY <2>1, ThresholdIs
<1>2. w = [state |-> r.state, warnings |-> [warnings EXCEPT ![bit] = r.cache], caches |-> A]
  BY VotesAre DEF warningState, AskedFor
<1>3. CachesOK(A)
  BY <1>1, AskedForIs
<1>4. WarningsOK([warnings EXCEPT ![bit] = r.cache])
  <2> HIDE DEF r
  <2> QED
    BY <1>1 DEF WarningsOK, CacheOK
<1> HIDE DEF w, r, A
<1>5. w.state = r.state /\ w.warnings = [warnings EXCEPT ![bit] = r.cache] /\ w.caches = A
  BY <1>2
<1> QED
  BY <1>1, <1>3, <1>4, <1>5 DEF w

WarningSet == [VersionBits -> [Nodes -> States]]
WarnedAt(n) == \E bit \in VersionBits : StateOf(n, UnknownChange(bit), UnknownVotes(bit)) = "Active"
WarnedSoFar(n) ==
    {s \in [caches : CacheSet, warnings : WarningSet, active : BOOLEAN] :
        CachesOK(s.caches) /\ WarningsOK(s.warnings) /\ (s.active => WarnedAt(n))}

OneWarning(s, n, bit) ==
    [caches |-> warningState(s.caches, s.warnings, n, bit).caches,
     warnings |-> warningState(s.caches, s.warnings, n, bit).warnings,
     active |-> s.active \/ warningState(s.caches, s.warnings, n, bit).state = "Active"]

LEMMA OneWarningIs ==
    ASSUME TimesOK, NEW n \in Nodes \cup {NoNode}, NEW s \in WarnedSoFar(n), NEW bit \in VersionBits
    PROVE  OneWarning(s, n, bit) \in WarnedSoFar(n)
<1> DEFINE w == warningState(s.caches, s.warnings, n, bit)
           o == OneWarning(s, n, bit)
<1>1. CachesOK(s.caches) /\ WarningsOK(s.warnings) /\ (s.active => WarnedAt(n)) /\ s.active \in BOOLEAN
  BY DEF WarnedSoFar
<1>2. CachesOK(w.caches) /\ WarningsOK(w.warnings) /\ w.state = StateOf(n, UnknownChange(bit), UnknownVotes(bit))
  BY <1>1, WarningIs
<1>3. o = [caches |-> w.caches, warnings |-> w.warnings, active |-> s.active \/ w.state = "Active"]
  BY DEF OneWarning
<1>4. w.state = "Active" => WarnedAt(n)
  BY <1>2 DEF WarnedAt
<1>5. w.caches \in CacheSet /\ w.warnings \in WarningSet
  BY <1>2 DEF CachesOK, WarningsOK, WarningSet
<1> DEFINE active == s.active \/ w.state = "Active"
<1>6. active \in BOOLEAN /\ (active => WarnedAt(n))
  BY <1>1, <1>4
<1> HIDE DEF w, o, active
<1>7. o = [caches |-> w.caches, warnings |-> w.warnings, active |-> active]
  BY <1>3 DEF active
<1>8. o \in [caches : CacheSet, warnings : WarningSet, active : BOOLEAN]
  BY <1>5, <1>6, <1>7
<1>9. o.caches = w.caches /\ o.warnings = w.warnings /\ o.active = active
  BY <1>7
<1>10. o \in WarnedSoFar(n)
  BY <1>2, <1>6, <1>8, <1>9 DEF WarnedSoFar
<1> QED
  BY <1>10 DEF o

LEMMA AllWarningsAre ==
    ASSUME TimesOK, NEW caches, CachesOK(caches), NEW warnings, WarningsOK(warnings),
           NEW n \in Nodes \cup {NoNode}
    PROVE  /\ CachesOK(AllWarnings(caches, warnings, n).caches)
           /\ WarningsOK(AllWarnings(caches, warnings, n).warnings)
           /\ AllWarnings(caches, warnings, n).active \in BOOLEAN
           /\ AllWarnings(caches, warnings, n).active => WarnedAt(n)
<1> DEFINE V == WarnedSoFar(n)
           start == [caches |-> caches, warnings |-> warnings, active |-> FALSE]
           G == [y \in VersionBits \X V |-> OneWarning(y[2], n, y[1])]
           Step(f) == [s \in SUBSET VersionBits |-> IF s = {} THEN start ELSE OneWarning(f[s \ {Pick(s)}], n, Pick(s))]
           f == CHOOSE g : g = Step(g)
<1>1. IsFiniteSet(VersionBits)
  BY DeploymentsAssumption
<1>2. AllWarnings(caches, warnings, n) = f[VersionBits]
  BY DEF AllWarnings, FoldSet, MapThenFoldSet, Pick, OneWarning
<1>3. start \in V
  <2>1. start \in [caches : CacheSet, warnings : WarningSet, active : BOOLEAN]
    BY DEF CachesOK, WarningsOK, WarningSet
  <2>2. start.caches = caches /\ start.warnings = warnings /\ ~start.active
    OBVIOUS
  <2> HIDE DEF start
  <2> QED
    BY <2>1, <2>2 DEF WarnedSoFar
<1> HIDE DEF V, start
<1>4. ASSUME NEW bit \in VersionBits, NEW s \in V PROVE OneWarning(s, n, bit) \in V
  BY OneWarningIs DEF V
<1>5. IsFold(VersionBits, V, start, G)
  <2>1. \A bit \in VersionBits : \A s \in V : G[<<bit, s>>] \in V
    BY <1>4
  <2> HIDE DEF G, f, Step
  <2>2. Stays(VersionBits, V, start, G)
    BY <1>1, <1>3, <2>1 DEF Stays
  <2> QED
    BY <2>2, FoldRecursion
<1>6. PICK g \in [SUBSET VersionBits -> V] :
          \A s \in SUBSET VersionBits : g[s] = IF s = {} THEN start ELSE G[<<Pick(s), g[s \ {Pick(s)}]>>]
  <2> HIDE DEF G, f, Step
  <2> QED
    BY <1>5 DEF IsFold
<1>7. ASSUME NEW s \in SUBSET VersionBits
      PROVE  g[s] = IF s = {} THEN start ELSE OneWarning(g[s \ {Pick(s)}], n, Pick(s))
  <2>1. CASE s = {}
    BY <1>6, <2>1
  <2>2. CASE s # {}
    <3>1. Pick(s) \in VersionBits
      BY <2>2 DEF Pick
    <3>2. g[s \ {Pick(s)}] \in V
      BY <1>6
    <3>3. G[<<Pick(s), g[s \ {Pick(s)}]>>] = OneWarning(g[s \ {Pick(s)}], n, Pick(s))
      BY <3>1, <3>2
    <3> QED
      BY <1>6, <2>2, <3>3
  <2> QED
    BY <2>1, <2>2
<1>8. g = Step(g)
  <2> HIDE DEF G
  <2> QED
    BY <1>6, <1>7
<1>9. f = Step(f)
  BY <1>8
<1> HIDE DEF f
<1>10. f[VersionBits] \in V
  <2>1. f[{}] \in V
    BY <1>3, <1>9
  <2>2. ASSUME NEW s \in SUBSET VersionBits, s # {}, f[s \ {Pick(s)}] \in V PROVE f[s] \in V
    <3>1. Pick(s) \in VersionBits
      BY <2>2 DEF Pick
    <3>2. f[s] = OneWarning(f[s \ {Pick(s)}], n, Pick(s))
      BY <1>9, <2>2
    <3> QED
      BY <1>4, <2>2, <3>1, <3>2
  <2> QED
    BY <1>1, <2>1, <2>2, FoldInduction
<1> QED
  BY <1>2, <1>10 DEF V, WarnedSoFar

-----------------------------------------------------------------------------
(* No step changes a block: what follows from the branches stays.          *)

LEMMA SameState ==
    ASSUME version' = version, medianTime' = medianTime, NEW CONSTANT n, NEW CONSTANT change, NEW CONSTANT votes
    PROVE  StateOf(n, change, votes)' = StateOf(n, change, votes)
<1>1. StateOf(n, change, votes)' =
         (IF StartedEnds(n, change) = {} THEN "Defined"
          ELSE IF LockedEnds(n, change, votes) # {}
               THEN IF FirstEnd(LockedEnds(n, change, votes)) = WindowEnd(n) THEN "LockedIn" ELSE "Active"
               ELSE IF \E e \in StartedEnds(n, change) : medianTime[e] >= change.ExpireTime THEN "Failed" ELSE "Started")'
  BY DEF StateOf, StartedEnds, LockedEnds, FirstEnd, Ends
<1>2. StartedEnds(n, change)' = StartedEnds(n, change)
  BY DEF StartedEnds
<1>3. LockedEnds(n, change, votes)' = LockedEnds(n, change, votes)
  BY <1>2 DEF LockedEnds
<1> QED
  BY <1>1, <1>2, <1>3, StateOfIs

LEMMA SameVotes ==
    ASSUME version' = version, medianTime' = medianTime
    PROVE  /\ \A bit : Signals(bit)' = Signals(bit)
           /\ \A n : ExpectedBits(n)' = ExpectedBits(n)
           /\ \A bit : UnknownVotes(bit)' = UnknownVotes(bit)
<1>1. \A bit : Signals(bit)' = Signals(bit)
  BY DEF Signals
<1>2. ASSUME NEW CONSTANT n PROVE ExpectedBits(n)' = ExpectedBits(n)
  <2>1. ASSUME NEW CONSTANT c PROVE StateOf(n, c, Signals(c.BitNumber))' = StateOf(n, c, Signals(c.BitNumber))
    BY <1>1, SameState
  <2> QED
    BY <2>1 DEF ExpectedBits
<1>3. \A bit : UnknownVotes(bit)' = UnknownVotes(bit)
  BY <1>1, <1>2 DEF UnknownVotes
<1> QED
  BY <1>1, <1>2, <1>3

LEMMA SameCaches ==
    ASSUME version' = version, medianTime' = medianTime
    PROVE  /\ TimesOK' <=> TimesOK
           /\ \A c : CachesOK(c)' <=> CachesOK(c)
           /\ \A w : WarningsOK(w)' <=> WarningsOK(w)
           /\ \A n : WarnedAt(n)' <=> WarnedAt(n)
<1>1. ASSUME NEW CONSTANT c, NEW CONSTANT d, NEW CONSTANT v PROVE CacheOK(c, d, v)' <=> CacheOK(c, d, v)
  BY SameState DEF CacheOK
<1>2. \A c : CachesOK(c)' <=> CachesOK(c)
  BY <1>1, SameVotes DEF CachesOK
<1>3. \A w : WarningsOK(w)' <=> WarningsOK(w)
  BY <1>1, SameVotes DEF WarningsOK
<1>4. \A n : WarnedAt(n)' <=> WarnedAt(n)
  BY SameState, SameVotes DEF WarnedAt
<1>5. TimesOK' <=> TimesOK
  BY DEF TimesOK
<1> QED
  BY <1>2, <1>3, <1>4, <1>5

LEMMA NothingCached ==
    /\ CachesOK([d \in Changes |-> NoCache])
    /\ WarningsOK([bit \in VersionBits |-> NoCache])
<1>1. NoCache \in [Nodes -> States] /\ \A n \in Nodes : NoCache[n] = NoState
  BY DEF NoCache, States, NoState
<1>2. \A change, votes : CacheOK(NoCache, change, votes)
  BY <1>1 DEF CacheOK
<1> QED
  BY <1>1, <1>2 DEF CachesOK, CacheSet, WarningsOK

LEMMA DeployStarts == DeployInit => DeployInv
<1> SUFFICES ASSUME DeployInit PROVE DeployInv
  OBVIOUS
<1>1. DOMAIN version = Nodes
  BY DeploymentsAssumption DEF DeployInit
<1>2. TimesOK
  <2>1. PICK timestamp \in NodeTimes : medianTime = [n \in Nodes |-> CalcPastMedianTime(timestamp, n)]
    BY DEF DeployInit
  <2> QED
    BY <2>1, TimesStart
<1>3. CachesOK(deploymentCaches) /\ WarningsOK(warningCaches)
  BY NothingCached DEF DeployInit
<1>4. WarnedForACause
  BY DEF DeployInit, WarnedForACause
<1> QED
  BY <1>1, <1>2, <1>3, <1>4 DEF DeployInv

(* What a step leaves in the caches has to be right for the branches, and  *)
(* what it warns of to have a cause.                                       *)
LEMMA KeepsDeployInv ==
    ASSUME DeployInv, UNCHANGED <<version, medianTime>>,
           CachesOK(deploymentCaches'), WarningsOK(warningCaches'),
           unknownRulesWarned' => unknownRulesWarned \/ \E n \in Nodes \cup {NoNode} : WarnedAt(n)
    PROVE  DeployInv'
<1>1. version' = version /\ medianTime' = medianTime
  OBVIOUS
<1>2. (DOMAIN version = Nodes /\ TimesOK)'
  BY <1>1, SameCaches DEF DeployInv
<1>3. CachesOK(deploymentCaches)' /\ WarningsOK(warningCaches)'
  BY <1>1, SameCaches
<1>4. ASSUME NEW n \in Nodes \cup {NoNode}, WarnedAt(n) PROVE n \in Nodes
  <2>1. \A bit : StateOf(NoNode, UnknownChange(bit), UnknownVotes(bit)) = "Defined"
    BY StateOfNothing
  <2> QED
    BY <1>4, <2>1 DEF WarnedAt
<1>5. unknownRulesWarned' => \E n \in Nodes : WarnedAt(n)
  BY <1>4 DEF DeployInv, WarnedForACause, WarnedAt
<1>6. unknownRulesWarned' => \E n \in Nodes : WarnedAt(n)'
  BY <1>1, <1>5, SameCaches
<1>7. WarnedForACause'
  BY <1>2, <1>6 DEF WarnedForACause, WarnedAt
<1> QED
  BY <1>2, <1>3, <1>7 DEF DeployInv

LEMMA DeploySteps == DeployInv /\ [DeployNext]_deployVars => DeployInv'
<1> SUFFICES ASSUME DeployInv, [DeployNext]_deployVars PROVE DeployInv'
  OBVIOUS
<1>1. TimesOK /\ CachesOK(deploymentCaches) /\ WarningsOK(warningCaches)
  BY DEF DeployInv
<1>2. \A n \in Nodes : NodeParent[n] \in Nodes \cup {NoNode}
  BY DeploymentsAssumption
<1>3. ASSUME NEW d \in Changes, NEW n \in Nodes, AskDeployment(d, n) PROVE DeployInv'
  <2>1. CacheOK(deploymentState(deploymentCaches, n, d).cache, d, Signals(d.BitNumber))
    BY <1>1, Answers
  <2>2. CachesOK(deploymentCaches')
    <3> DEFINE c == deploymentState(deploymentCaches, n, d).cache
    <3>1. deploymentCaches' = [deploymentCaches EXCEPT ![d] = c]
      BY <1>3 DEF AskDeployment
    <3> HIDE DEF c
    <3>2. CacheOK(c, d, Signals(d.BitNumber))
      BY <2>1 DEF c
    <3> QED
      BY <1>1, <3>1, <3>2 DEF CachesOK, CacheSet, CacheOK
  <2> QED
    BY <1>1, <1>3, <2>2, KeepsDeployInv DEF AskDeployment
<1>4. ASSUME NEW n \in Nodes, AskVersion(n) PROVE DeployInv'
  <2>1. CachesOK(deploymentCaches')
    BY <1>1, <1>4, Answers DEF AskVersion
  <2> QED
    BY <1>1, <1>4, <2>1, KeepsDeployInv DEF AskVersion
<1>5. ASSUME NEW n \in Nodes, warnUnknownRuleActivations(n) PROVE DeployInv'
  <2> DEFINE all == AllWarnings(deploymentCaches, warningCaches, NodeParent[n])
  <2>1. deploymentCaches' = all.caches /\ warningCaches' = all.warnings
        /\ unknownRulesWarned' = (unknownRulesWarned \/ all.active) /\ UNCHANGED <<version, medianTime>>
    BY <1>5 DEF warnUnknownRuleActivations
  <2>2. CachesOK(all.caches) /\ WarningsOK(all.warnings) /\ (all.active => WarnedAt(NodeParent[n]))
    BY <1>1, <1>2, AllWarningsAre
  <2> HIDE DEF all
  <2> QED
    BY <1>2, <2>1, <2>2, KeepsDeployInv
<1>6. ASSUME NEW n \in Nodes, initThresholdCaches(n) PROVE DeployInv'
  <2> DEFINE all == AllWarnings([d \in Changes |-> NoCache], [bit \in VersionBits |-> NoCache], NodeParent[n])
  <2>1. PICK isCurrent \in BOOLEAN :
            /\ deploymentCaches' = CachesAfter(all.caches, NodeParent[n]) /\ warningCaches' = all.warnings
            /\ unknownRulesWarned' = (isCurrent /\ all.active) /\ UNCHANGED <<version, medianTime>>
    BY <1>6 DEF initThresholdCaches
  <2>2. CachesOK(all.caches) /\ WarningsOK(all.warnings) /\ (all.active => WarnedAt(NodeParent[n]))
    BY <1>1, <1>2, NothingCached, AllWarningsAre
  <2> HIDE DEF all
  <2>3. CachesOK(CachesAfter(all.caches, NodeParent[n]))
    BY <1>1, <1>2, <2>2, Answers
  <2> QED
    BY <1>2, <2>1, <2>2, <2>3, KeepsDeployInv
<1>7. ASSUME UNCHANGED deployVars PROVE DeployInv'
  BY <1>1, <1>7, KeepsDeployInv DEF deployVars
<1> QED
  BY <1>3, <1>4, <1>5, <1>6, <1>7 DEF DeployNext

-----------------------------------------------------------------------------
(* What the invariant says of every question.                              *)

LEMMA FollowsTheBranch == DeployInv => StatesFollowTheBranch
<1> SUFFICES ASSUME DeployInv PROVE StatesFollowTheBranch
  OBVIOUS
<1>1. TimesOK /\ CachesOK(deploymentCaches) /\ WarningsOK(warningCaches) /\ DOMAIN version = Nodes
  BY DEF DeployInv
<1>2. ASSUME NEW d \in Changes, NEW n \in Nodes
      PROVE  /\ deploymentState(deploymentCaches, n, d).state = StateOf(n, d, Signals(d.BitNumber))
             /\ deploymentCaches[d][n] # NoState =>
                    WindowEnd(n) = n /\ deploymentCaches[d][n] = StateOf(n, d, Signals(d.BitNumber))
  <2>1. CacheOK(deploymentCaches[d], d, Signals(d.BitNumber))
    BY <1>1 DEF CachesOK
  <2>2. deploymentState(deploymentCaches, n, d).state = StateOf(n, d, Signals(d.BitNumber))
    BY <1>1, Answers
  <2> QED
    BY <2>1, <2>2 DEF CacheOK, IsEnd
<1>3. ASSUME NEW bit \in VersionBits, NEW n \in Nodes, warningCaches[bit][n] # NoState
      PROVE  WindowEnd(n) = n /\ warningCaches[bit][n] = StateOf(n, UnknownChange(bit), UnknownVotes(bit))
  BY <1>1, <1>3 DEF WarningsOK, CacheOK, IsEnd
<1> QED
  BY <1>1, <1>2, <1>3 DEF StatesFollowTheBranch

LEMMA StaysEnforced == DeployInv => RulesStayEnforced
<1> SUFFICES ASSUME DeployInv PROVE RulesStayEnforced
  OBVIOUS
<1>1. TimesOK /\ CachesOK(deploymentCaches) /\ DOMAIN version = Nodes
  BY DEF DeployInv
<1> DEFINE moves == {<<"Defined", "Started">>, <<"Defined", "Failed">>, <<"Started", "LockedIn">>,
                     <<"Started", "Failed">>, <<"LockedIn", "Active">>}
<1>2. ASSUME NEW d \in Changes, NEW n \in Nodes, NodeParent[n] # NoNode
      PROVE  LET from == deploymentState(deploymentCaches, NodeParent[n], d).state
                 to == deploymentState(deploymentCaches, n, d).state
             IN  \/ from = to
                 \/ WindowEnd(n) = n /\ <<from, to>> \in moves
                 \/ WindowEnd(n) = n /\ to = "Defined" /\ medianTime[n] < d.StartTime
  <2> DEFINE votes == Signals(d.BitNumber)
             from == StateOf(NodeParent[n], d, votes)
             to == StateOf(n, d, votes)
  <2>1. NodeParent[n] \in Nodes
    BY <1>2, DeploymentsAssumption
  <2>2. /\ deploymentState(deploymentCaches, NodeParent[n], d).state = from
        /\ deploymentState(deploymentCaches, n, d).state = to
    BY <1>1, <2>1, Answers
  <2>3. /\ ~IsEnd(n) => to = from
        /\ IsEnd(n) => to = IF medianTime[n] < d.StartTime THEN "Defined" ELSE NextThreshold(n, from, d, votes)
    BY <1>1, ChangesAre, StateStep
  <2>4. NextThreshold(n, from, d, votes) = from \/ <<from, NextThreshold(n, from, d, votes)>> \in moves
    <3> HIDE DEF from
    <3> QED
      BY DEF NextThreshold
  <2>5. \/ from = to
        \/ WindowEnd(n) = n /\ <<from, to>> \in moves
        \/ WindowEnd(n) = n /\ to = "Defined" /\ medianTime[n] < d.StartTime
    <3> HIDE DEF from, to, moves
    <3> QED
      BY <2>3, <2>4 DEF IsEnd
  <2> HIDE DEF from, to
  <2> QED
    BY <2>2, <2>5
<1> QED
  BY <1>1, <1>2 DEF RulesStayEnforced

(* Whatever is asked of a rule change, in whatever order and for whichever *)
(* branches and with whatever timestamps, the answer is that of the branch *)
(* alone; along a branch a rule moves one step at a time, and an active    *)
(* one stays active until a window whose median time is before its start;  *)
(* and the node warns of a rule it does not know only if some branch has   *)
(* it in force.                                                            *)
THEOREM RuleChangesStaySound == DeploySpec => []RuleChangesAreSound
<1>1. DeployInv => RuleChangesAreSound
  BY FollowsTheBranch, StaysEnforced DEF DeployInv, RuleChangesAreSound
<1> QED
  BY <1>1, DeployStarts, DeploySteps, PTL DEF DeploySpec

=============================================================================
