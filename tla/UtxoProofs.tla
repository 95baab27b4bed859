----------------------------- MODULE UtxoProofs -----------------------------
(***************************************************************************)
(* What is true of every block tree: its ancestors and heights, chains on  *)
(* which no transaction appears twice and no output is spent twice, the    *)
(* unspent outputs and the spend journal of such a chain, and what passing *)
(* checkConnectBlock says of a block.  The proofs about the block chain    *)
(* and about the mempool rest on these facts.                              *)
(***************************************************************************)
EXTENDS UtxoSet, FiniteSetTheorems, SliceLemmas, TLAPS

-----------------------------------------------------------------------------
(* The block tree.                                                         *)

(* A set of blocks that holds with each block its parent holds with each   *)
(* block its ancestors.                                                    *)
LEMMA AncestorsClosed ==
    ASSUME NEW X \in SUBSET Blocks, \A b \in X \ {Genesis} : Parent[b] \in X
    PROVE  \A b \in X : Ancestors[b] \subseteq X
<1> DEFINE Good == {n \in Nat : \A b \in X : Height[b] = n => Ancestors[b] \subseteq X}
<1>1. 0 \in Good
  <2> SUFFICES ASSUME NEW b \in X, Height[b] = 0 PROVE Ancestors[b] \subseteq X
    OBVIOUS
  <2>1. b = Genesis
    BY TreeAssumption
  <2> QED
    BY <2>1, TreeAssumption
<1>2. ASSUME NEW n \in Nat, n \in Good PROVE n + 1 \in Good
  <2> SUFFICES ASSUME NEW b \in X, Height[b] = n + 1 PROVE Ancestors[b] \subseteq X
    OBVIOUS
  <2>1. b # Genesis
    BY TreeAssumption
  <2>2. Parent[b] \in X /\ Height[Parent[b]] = n /\ Ancestors[b] = Ancestors[Parent[b]] \cup {b}
    BY <2>1, TreeAssumption
  <2> QED
    BY <2>2, <1>2
<1>3. \A n \in Nat : n \in Good
  <2> HIDE DEF Good
  <2> QED
    BY <1>1, <1>2, NaturalsByInduction
<1> QED
  BY <1>3, TreeAssumption

(* The genesis block is an ancestor of every block.                        *)
LEMMA GenesisIsAncestor == \A b \in Blocks : Genesis \in Ancestors[b]
<1> DEFINE Good == {n \in Nat : \A b \in Blocks : Height[b] = n => Genesis \in Ancestors[b]}
<1>1. 0 \in Good
  <2> SUFFICES ASSUME NEW b \in Blocks, Height[b] = 0 PROVE Genesis \in Ancestors[b]
    OBVIOUS
  <2>1. b = Genesis
    BY TreeAssumption
  <2> QED
    BY <2>1, TreeAssumption
<1>2. ASSUME NEW n \in Nat, n \in Good PROVE n + 1 \in Good
  <2> SUFFICES ASSUME NEW b \in Blocks, Height[b] = n + 1 PROVE Genesis \in Ancestors[b]
    OBVIOUS
  <2>1. b # Genesis
    BY TreeAssumption
  <2>2. /\ Parent[b] \in Blocks /\ Height[Parent[b]] = n
        /\ Ancestors[b] = Ancestors[Parent[b]] \cup {b}
    BY <2>1, TreeAssumption
  <2> QED
    BY <2>2, <1>2
<1>3. \A n \in Nat : n \in Good
  <2> HIDE DEF Good
  <2> QED
    BY <1>1, <1>2, NaturalsByInduction
<1> QED
  BY <1>3, TreeAssumption

(* A block is among its ancestors, which are blocks.                       *)
LEMMA OwnAncestor == \A b \in Blocks : b \in Ancestors[b] /\ Ancestors[b] \subseteq Blocks
  BY TreeAssumption

(* No block is higher than there are blocks.                               *)
LEMMA HeightBounded ==
    /\ Cardinality(Blocks) \in Nat
    /\ \A b \in Blocks : Height[b] \in Nat /\ Height[b] <= Cardinality(Blocks)
<1> DEFINE Size(b) == IsFiniteSet(Ancestors[b]) /\ Cardinality(Ancestors[b]) = Height[b] + 1
           Good == {n \in Nat : \A b \in Blocks : Height[b] = n => Size(b)}
<1>1. 0 \in Good
  <2> SUFFICES ASSUME NEW b \in Blocks, Height[b] = 0 PROVE Size(b)
    OBVIOUS
  <2>1. b = Genesis /\ Ancestors[b] = {Genesis}
    BY TreeAssumption
  <2>2. IsFiniteSet({Genesis}) /\ Cardinality({Genesis}) = 1
    BY FS_Singleton
  <2> QED
    BY <2>1, <2>2, TreeAssumption
<1>2. ASSUME NEW n \in Nat, n \in Good PROVE n + 1 \in Good
  <2> SUFFICES ASSUME NEW b \in Blocks, Height[b] = n + 1 PROVE Size(b)
    OBVIOUS
  <2>1. b # Genesis
    BY TreeAssumption
  <2> DEFINE A == Ancestors[Parent[b]]
  <2>2. Parent[b] \in Blocks /\ Height[Parent[b]] = n /\ Ancestors[b] = A \cup {b} /\ b \notin A
    BY <2>1, TreeAssumption
  <2>3. IsFiniteSet(A) /\ Cardinality(A) = n + 1
    BY <2>2, <1>2
  <2> HIDE DEF A
  <2>4. IsFiniteSet(A \cup {b}) /\ Cardinality(A \cup {b}) = Cardinality(A) + 1
    BY <2>2, <2>3, FS_AddElement
  <2> QED
    BY <2>2, <2>3, <2>4
<1>3. \A n \in Nat : n \in Good
  <2> HIDE DEF Good
  <2> QED
    BY <1>1, <1>2, NaturalsByInduction
<1>4. Cardinality(Blocks) \in Nat
  BY TreeAssumption, FS_CardinalityType
<1>5. ASSUME NEW b \in Blocks PROVE Height[b] \in Nat /\ Height[b] <= Cardinality(Blocks)
  <2>1. Height[b] \in Nat /\ Cardinality(Ancestors[b]) = Height[b] + 1
    BY <1>3, TreeAssumption
  <2>2. Cardinality(Ancestors[b]) <= Cardinality(Blocks)
    BY OwnAncestor, TreeAssumption, FS_Subset
  <2> QED
    BY <2>1, <2>2, <1>4
<1> QED
  BY <1>4, <1>5

-----------------------------------------------------------------------------
(* Transactions and their outputs.                                         *)

TxsOf(b) == {BlockTxs[b][i] : i \in Positions(b)}
Coinbase(b) == BlockTxs[b][1]

(* The positions of a block's transactions.                                *)
LEMMA BlockTransactions ==
    ASSUME NEW b \in Blocks
    PROVE  /\ Len(BlockTxs[b]) \in Nat \ {0}
           /\ 1 \in Positions(b)
           /\ \A i \in Positions(b) : i \in Nat \ {0} /\ BlockTxs[b][i] \in DOMAIN TxIn
           /\ \A i \in Positions(b) : \A k \in 1..(i - 1) : k \in Positions(b) /\ k < i
           /\ TxsOf(b) \subseteq DOMAIN TxIn
<1>1. BlockTxs[b] \in Seq(DOMAIN TxIn) /\ Len(BlockTxs[b]) > 0
  BY TxAssumption
<1>2. Len(BlockTxs[b]) \in Nat \ {0} /\ \A i \in Positions(b) : BlockTxs[b][i] \in DOMAIN TxIn
  BY <1>1 DEF Positions
<1>3. \A i \in Positions(b) : \A k \in 1..(i - 1) : k \in Positions(b) /\ k < i
  BY <1>2 DEF Positions
<1> QED
  BY <1>2, <1>3 DEF Positions, TxsOf

(* What a block spends and creates, by transaction.                        *)
LEMMA ByTransaction ==
    ASSUME NEW b \in Blocks, NEW o
    PROVE  /\ o \in Ins(b) <=> \E t \in TxsOf(b) : o \in TxIn[t]
           /\ o \in Outs(b) <=> \E t \in TxsOf(b) : o \in TxOut[t]
           /\ o \in Ins(b) <=> \E i \in Positions(b) : o \in TxIn[BlockTxs[b][i]]
           /\ o \in Outs(b) <=> \E i \in Positions(b) : o \in TxOut[BlockTxs[b][i]]
           /\ o \in Ins(b) \cup Outs(b) => o \in Outputs
           /\ \A i \in Positions(b) :
                 o \in InFlight(b, i) <=> \E k \in 1..(i - 1) : o \in TxOut[BlockTxs[b][k]]
<1>1. /\ o \in Ins(b) <=> \E i \in Positions(b) : o \in TxIn[BlockTxs[b][i]]
      /\ o \in Outs(b) <=> \E i \in Positions(b) : o \in TxOut[BlockTxs[b][i]]
  BY DEF Ins, Outs
<1>2. /\ o \in Ins(b) <=> \E t \in TxsOf(b) : o \in TxIn[t]
      /\ o \in Outs(b) <=> \E t \in TxsOf(b) : o \in TxOut[t]
  BY <1>1 DEF TxsOf
<1>3. o \in Ins(b) \cup Outs(b) => o \in Outputs
  BY <1>2, BlockTransactions, TxAssumption
<1>4. \A i \in Positions(b) :
         o \in InFlight(b, i) <=> \E k \in 1..(i - 1) : o \in TxOut[BlockTxs[b][k]]
  BY DEF InFlight
<1> QED
  BY <1>1, <1>2, <1>3, <1>4

(* An output has one creator.                                              *)
LEMMA OneCreator ==
    ASSUME NEW t \in DOMAIN TxIn, NEW u \in DOMAIN TxIn, NEW o, o \in TxOut[t], o \in TxOut[u]
    PROVE  t = u
  BY TxAssumption

(* The entry of an output is an entry of a database.                       *)
LEMMA EntryOf ==
    ASSUME NEW b \in Blocks, NEW o
    PROVE  NewEntry(b, o) \in Entry /\ NewEntry(b, o) # NoEntry /\ NewEntry(b, o) # SpentEntry
<1>1. NewEntry(b, o) \in Entry
  BY TreeAssumption DEF NewEntry, Entry
<1> QED
  BY <1>1, TxAssumption

(* What it says.                                                           *)
LEMMA EntryFields ==
    ASSUME NEW b, NEW o
    PROVE  /\ NewEntry(b, o).height = Height[b]
           /\ NewEntry(b, o).coinbase <=> o \in TxOut[Coinbase(b)]
<1>1. NewEntry(b, o).height = Height[b]
  BY DEF NewEntry
<1>2. NewEntry(b, o).coinbase = (o \in TxOut[Coinbase(b)])
  BY DEF NewEntry, Coinbase
<1> QED
  BY <1>1, <1>2, Zenon

(* A block is higher than the ancestors of its parent.                     *)
LEMMA AncestorsLower ==
    ASSUME NEW b \in Blocks
    PROVE  \A a \in Ancestors[b] : Height[a] <= Height[b]
<1> DEFINE X == {a \in Blocks : \A c \in Ancestors[a] : Height[c] <= Height[a]}
           Good == {n \in Nat : \A a \in Blocks : Height[a] = n => a \in X}
<1>1. 0 \in Good
  <2> SUFFICES ASSUME NEW a \in Blocks, Height[a] = 0 PROVE a \in X
    OBVIOUS
  <2>1. a = Genesis /\ Ancestors[a] = {Genesis}
    BY TreeAssumption
  <2> QED
    BY <2>1, TreeAssumption
<1>2. ASSUME NEW n \in Nat, n \in Good PROVE n + 1 \in Good
  <2> SUFFICES ASSUME NEW a \in Blocks, Height[a] = n + 1 PROVE a \in X
    OBVIOUS
  <2>1. a # Genesis
    BY TreeAssumption
  <2>2. /\ Parent[a] \in Blocks /\ Height[Parent[a]] = n
        /\ Ancestors[a] = Ancestors[Parent[a]] \cup {a}
    BY <2>1, TreeAssumption
  <2>3. \A c \in Ancestors[Parent[a]] : c \in Blocks /\ Height[c] <= n
    BY <1>2, <2>2, TreeAssumption
  <2>4. \A c \in Ancestors[a] : Height[c] \in Nat /\ Height[c] <= n + 1
    BY <2>2, <2>3, TreeAssumption
  <2> QED
    BY <2>4
<1>3. \A n \in Nat : n \in Good
  <2> HIDE DEF Good
  <2> QED
    BY <1>1, <1>2, NaturalsByInduction
<1> QED
  BY <1>3, TreeAssumption

-----------------------------------------------------------------------------
(* Chains without replays.                                                 *)

(* No transaction appears twice, no output is spent twice, and what is     *)
(* spent was created.                                                      *)
NoReplay(S) ==
    /\ \A a, c \in S \ {Genesis} : a # c => TxsOf(a) \cap TxsOf(c) = {} /\ Ins(a) \cap Ins(c) = {}
    /\ \A a \in S \ {Genesis} : \A o \in Ins(a) : \E c \in Ancestors[a] \ {Genesis} : o \in Outs(c)

GoodChain(S) ==
    /\ S \subseteq Blocks
    /\ S \ {Genesis} \subseteq Sane
    /\ \A a \in S : Ancestors[a] \subseteq S
    /\ NoReplay(S)

(* The blocks of a good chain create different outputs.                    *)
LEMMA OneCreatingBlock ==
    ASSUME NEW S, GoodChain(S), NEW a \in S \ {Genesis}, NEW c \in S \ {Genesis},
           NEW o, o \in Outs(a), o \in Outs(c)
    PROVE  a = c
<1>1. PICK t \in TxsOf(a) : o \in TxOut[t]
  BY ByTransaction DEF GoodChain
<1>2. PICK u \in TxsOf(c) : o \in TxOut[u]
  BY ByTransaction DEF GoodChain
<1>3. t \in DOMAIN TxIn /\ u \in DOMAIN TxIn
  BY <1>1, <1>2, BlockTransactions DEF GoodChain
<1>4. t = u
  BY <1>1, <1>2, <1>3, OneCreator
<1> QED
  BY <1>1, <1>2, <1>4 DEF GoodChain, NoReplay

(* UtxoOf on a good chain: the entry of an output that is created and not  *)
(* spent, and the creator that the journal refers to.                      *)
LEMMA UtxoEntry ==
    ASSUME NEW S, GoodChain(S), NEW o \in Outputs
    PROVE  /\ \A c \in S \ {Genesis} : o \in Outs(c) => CreatorIn(S \ {Genesis}, o) = c
           /\ \A c \in S \ {Genesis} :
                 o \in Outs(c) /\ (\A b \in S \ {Genesis} : o \notin Ins(b))
                    => UtxoOf(S)[o] = NewEntry(c, o)
           /\ (\A c \in S \ {Genesis} : o \notin Outs(c)) => UtxoOf(S)[o] = NoEntry
           /\ (\E b \in S \ {Genesis} : o \in Ins(b)) => UtxoOf(S)[o] = NoEntry
<1>1. ASSUME NEW c \in S \ {Genesis}, o \in Outs(c)
      PROVE  (CHOOSE b \in S \ {Genesis} : o \in Outs(b)) = c
  <2> DEFINE x == CHOOSE b \in S \ {Genesis} : o \in Outs(b)
  <2>1. x \in S \ {Genesis} /\ o \in Outs(x)
    BY <1>1
  <2> HIDE DEF x
  <2>2. x = c
    BY <1>1, <2>1, OneCreatingBlock
  <2> QED
    BY <2>2 DEF x
<1>2. UtxoOf(S)[o] = IF /\ \E b \in S \ {Genesis} : o \in Outs(b)
                        /\ \A b \in S \ {Genesis} : o \notin Ins(b)
                     THEN NewEntry(CHOOSE b \in S \ {Genesis} : o \in Outs(b), o)
                     ELSE NoEntry
  BY DEF UtxoOf
<1> QED
  BY <1>1, <1>2, Zenon DEF CreatorIn

(* The second fact, for one creator.                                       *)
LEMMA UnspentEntry ==
    ASSUME NEW S, GoodChain(S), NEW o \in Outputs, NEW c \in S \ {Genesis}, o \in Outs(c),
           \A b \in S \ {Genesis} : o \notin Ins(b)
    PROVE  UtxoOf(S)[o] = NewEntry(c, o)
<1>1. \A d \in S \ {Genesis} :
         o \in Outs(d) /\ (\A b \in S \ {Genesis} : o \notin Ins(b))
            => UtxoOf(S)[o] = NewEntry(d, o)
  BY UtxoEntry, Zenon
<1> QED
  BY <1>1, Zenon

(* A block whose inputs are all there repeats nothing of the chain below   *)
(* it, if the coinbases of the chain differ: a repeated transaction spends *)
(* what is spent already, or what another repeated transaction of the      *)
(* block creates, and so on down to the coinbase.                          *)
LEMMA NothingRepeated ==
    ASSUME NEW S, GoodChain(S), NEW n \in Sane \ {Genesis}, CoinbasesDiffer(S \cup {n}),
           \A a \in S : Height[a] # Height[n], ~MissingInput(UtxoOf(S), n)
    PROVE  \A c \in S \ {Genesis} : TxsOf(n) \cap TxsOf(c) = {}
<1> DEFINE Fresh(i) == \A c \in S \ {Genesis} : BlockTxs[n][i] \notin TxsOf(c)
           Good == {m \in Nat : \A i \in Positions(n) : i <= m => Fresh(i)}
<1>1. n \in Blocks
  BY TxAssumption
<1>2. 0 \in Good
  BY <1>1, BlockTransactions
<1>3. ASSUME NEW m \in Nat, m \in Good PROVE m + 1 \in Good
  <2>1. SUFFICES ASSUME NEW i \in Positions(n), i <= m + 1, NEW c \in S \ {Genesis},
                        BlockTxs[n][i] \in TxsOf(c)
                 PROVE  FALSE
    OBVIOUS
  <2> DEFINE t == BlockTxs[n][i]
  <2>2. PICK j \in Positions(c) : t = BlockTxs[c][j]
    BY <2>1 DEF TxsOf
  <2>3. /\ c \in Sane /\ c \in Blocks /\ t \in DOMAIN TxIn
        /\ i \in Nat \ {0} /\ j \in Nat \ {0}
    BY <1>1, <2>1, <2>2, BlockTransactions DEF GoodChain
  <2>4. /\ TxIn[t] = {} <=> i = 1
        /\ TxIn[t] = {} <=> j = 1
    BY <2>2, <2>3, TxAssumption DEF Positions
  <2>5. CASE i = 1
    BY <2>1, <2>2, <2>3, <2>4, <2>5 DEF CoinbasesDiffer
  <2>6. CASE i # 1
    <3>1. PICK o \in TxIn[t] : TRUE
      BY <2>4, <2>6
    <3>2. o \in Ins(c) /\ o \in Outputs
      BY <2>1, <2>3, <3>1, ByTransaction
    <3>3. UtxoOf(S)[o] = NoEntry
      BY <3>2, UtxoEntry
    <3>4. o \in InFlight(n, i)
      BY <3>1, <3>3 DEF MissingInput
    <3>5. PICK k \in 1..(i - 1) : o \in TxOut[BlockTxs[n][k]]
      BY <1>1, <3>4, ByTransaction
    <3>6. k \in Positions(n) /\ k < i /\ k \in Nat /\ BlockTxs[n][k] \in DOMAIN TxIn
      BY <1>1, <3>5, BlockTransactions
    <3>7. Fresh(k)
      BY <1>3, <2>1, <2>3, <3>6
    <3>8. PICK d \in Ancestors[c] \ {Genesis} : o \in Outs(d)
      BY <2>1, <3>2 DEF GoodChain, NoReplay
    <3>9. d \in S \ {Genesis} /\ d \in Blocks
      BY <2>1, <3>8 DEF GoodChain
    <3>10. PICK u \in TxsOf(d) : o \in TxOut[u]
      BY <3>8, <3>9, ByTransaction
    <3>11. u = BlockTxs[n][k]
      BY <3>5, <3>6, <3>9, <3>10, BlockTransactions, OneCreator
    <3> QED
      BY <3>7, <3>9, <3>10, <3>11
  <2> QED
    BY <2>5, <2>6
<1>4. \A m \in Nat : m \in Good
  <2> HIDE DEF Good
  <2> QED
    BY <1>2, <1>3, NaturalsByInduction
<1>5. \A i \in Positions(n) : i \in Nat /\ Fresh(i)
  BY <1>1, <1>4, BlockTransactions
<1> QED
  BY <1>5 DEF TxsOf

(* So the chain with the block on top is good.                             *)
LEMMA GoodChainExtends ==
    ASSUME NEW n \in Sane \ {Genesis}, CoinbasesDiffer(Ancestors[n]),
           NEW S, S = Ancestors[Parent[n]], GoodChain(S),
           ~MissingInput(UtxoOf(S), n)
    PROVE  /\ GoodChain(S \cup {n})
           /\ n \notin S /\ n \in Blocks
           /\ \A c \in S \ {Genesis} : Ins(n) \cap Ins(c) = {}
           /\ \A c \in S \ {Genesis} : \A o \in Outs(n) : o \notin Outs(c) /\ o \notin Ins(c)
           /\ \A o \in Ins(n) : o \in Outs(n) \/ \E c \in S \ {Genesis} : o \in Outs(c)
<1>1. /\ n \in Blocks /\ Parent[n] \in Blocks /\ n \notin S /\ Ancestors[n] = S \cup {n}
      /\ Height[n] = Height[Parent[n]] + 1
  BY TxAssumption, TreeAssumption
<1>2. (\A a \in S : Height[a] # Height[n]) /\ CoinbasesDiffer(S \cup {n})
  BY <1>1, AncestorsLower, TreeAssumption
<1>3. \A c \in S \ {Genesis} : TxsOf(n) \cap TxsOf(c) = {}
  BY <1>2, NothingRepeated
<1>4. ASSUME NEW c \in S \ {Genesis}, NEW o, o \in Outs(n) PROVE o \notin Outs(c)
  <2>1. SUFFICES ASSUME o \in Outs(c) PROVE FALSE
    OBVIOUS
  <2>2. PICK t \in TxsOf(n) : o \in TxOut[t]
    BY <1>1, <1>4, ByTransaction
  <2>3. PICK u \in TxsOf(c) : o \in TxOut[u]
    BY <2>1, ByTransaction DEF GoodChain
  <2>4. t = u
    BY <1>1, <2>2, <2>3, BlockTransactions, OneCreator DEF GoodChain
  <2> QED
    BY <1>3, <2>4
<1>5. ASSUME NEW c \in S \ {Genesis}, NEW o, o \in Ins(c) PROVE o \notin Outs(n)
  <2>1. PICK d \in Ancestors[c] \ {Genesis} : o \in Outs(d)
    BY <1>5 DEF GoodChain, NoReplay
  <2>2. d \in S \ {Genesis}
    BY <2>1 DEF GoodChain
  <2> QED
    BY <1>4, <2>1, <2>2
<1>6. ASSUME NEW o \in Ins(n)
      PROVE  /\ o \in Outs(n) \/ UtxoOf(S)[o] # NoEntry
             /\ o \in Outputs
  <2>1. PICK i \in Positions(n) : o \in TxIn[BlockTxs[n][i]]
    BY <1>1, ByTransaction
  <2>2. o \in InFlight(n, i) \/ UtxoOf(S)[o] # NoEntry
    BY <2>1 DEF MissingInput
  <2>3. o \in InFlight(n, i) => o \in Outs(n)
    BY <1>1, BlockTransactions, ByTransaction
  <2> QED
    BY <1>1, <2>2, <2>3, ByTransaction
<1>7. \A o \in Ins(n) : o \in Outs(n) \/ \E c \in S \ {Genesis} : o \in Outs(c)
  BY <1>6, UtxoEntry
<1>8. ASSUME NEW c \in S \ {Genesis}, NEW o, o \in Ins(n) PROVE o \notin Ins(c)
  BY <1>5, <1>6, <1>8, UtxoEntry
<1>9. NoReplay(S \cup {n})
  <2>1. ASSUME NEW a \in (S \cup {n}) \ {Genesis}, NEW c \in (S \cup {n}) \ {Genesis}, a # c
        PROVE  TxsOf(a) \cap TxsOf(c) = {} /\ Ins(a) \cap Ins(c) = {}
    <3>1. CASE a = n
      BY <2>1, <3>1, <1>3, <1>8
    <3>2. CASE c = n
      BY <2>1, <3>2, <1>3, <1>8
    <3>3. CASE a # n /\ c # n
      BY <2>1, <3>3 DEF GoodChain, NoReplay
    <3> QED
      BY <3>1, <3>2, <3>3
  <2>2. ASSUME NEW a \in (S \cup {n}) \ {Genesis}, NEW o \in Ins(a)
        PROVE  \E c \in Ancestors[a] \ {Genesis} : o \in Outs(c)
    <3>1. CASE a = n
      BY <1>1, <1>7, <2>2, <3>1
    <3>2. CASE a # n
      BY <2>2, <3>2 DEF GoodChain, NoReplay
    <3> QED
      BY <3>1, <3>2
  <2> QED
    BY <2>1, <2>2 DEF NoReplay
<1>10. GoodChain(S \cup {n})
  BY <1>1, <1>9 DEF GoodChain
<1> QED
  BY <1>1, <1>4, <1>5, <1>7, <1>8, <1>10

-----------------------------------------------------------------------------
(* What connectBlock and disconnectBlock do to the utxo set and the        *)
(* journal of a good chain.                                                *)

(* The spend journal of the blocks of a chain.                             *)
JournalOf(S) ==
    [b \in Blocks |-> [o \in Outputs |->
        IF b \in S \ {Genesis} /\ o \in Ins(b)
        THEN NewEntry(CreatorIn(S \ {Genesis}, o), o) ELSE NoEntry]]

(* The utxo bucket holds no spent entry.                                   *)
LEMMA UtxoNotSpent ==
    ASSUME NEW S \in SUBSET Blocks, NEW o \in Outputs
    PROVE  UtxoOf(S)[o] \in Entry \cup {NoEntry} /\ UtxoOf(S)[o] # SpentEntry
<1>1. CASE \E b \in S \ {Genesis} : o \in Outs(b)
  <2> DEFINE x == CHOOSE b \in S \ {Genesis} : o \in Outs(b)
  <2>1. x \in Blocks
    BY <1>1
  <2>2. UtxoOf(S)[o] = NoEntry \/ UtxoOf(S)[o] = NewEntry(x, o)
    BY DEF UtxoOf
  <2> HIDE DEF x
  <2> QED
    BY <2>1, <2>2, EntryOf, TxAssumption
<1>2. CASE ~ \E b \in S \ {Genesis} : o \in Outs(b)
  BY <1>2, TxAssumption DEF UtxoOf
<1> QED
  BY <1>1, <1>2

(* A good chain is good without its tip.                                   *)
LEMMA GoodChainShrinks ==
    ASSUME NEW n \in Blocks \ {Genesis}, NEW S, S = Ancestors[Parent[n]],
           GoodChain(S \cup {n})
    PROVE  GoodChain(S) /\ n \notin S
<1>1. Parent[n] \in Blocks /\ n \notin S /\ S \subseteq Blocks
  BY TreeAssumption
<1>2. ASSUME NEW a \in S PROVE Ancestors[a] \subseteq S
  <2>1. Ancestors[a] \subseteq S \cup {n}
    BY <1>2 DEF GoodChain
  <2>2. a \in Blocks /\ Height[a] <= Height[Parent[n]]
    BY <1>1, <1>2, AncestorsLower
  <2>3. n \in Ancestors[a] => Height[n] <= Height[a]
    BY <2>2, AncestorsLower
  <2>4. n \notin Ancestors[a]
    BY <2>2, <2>3, <1>1, TreeAssumption
  <2> QED
    BY <2>1, <2>4
<1>3. NoReplay(S)
  BY DEF GoodChain, NoReplay
<1> QED
  BY <1>1, <1>2, <1>3 DEF GoodChain

(* What a block neither spends nor creates has the same entry with and     *)
(* without it.                                                             *)
LEMMA UntouchedEntry ==
    ASSUME NEW S, GoodChain(S), NEW n, GoodChain(S \cup {n}),
           NEW o \in Outputs, o \notin Ins(n), o \notin Outs(n)
    PROVE  UtxoOf(S \cup {n})[o] = UtxoOf(S)[o]
<1> DEFINE T == S \cup {n}
<1>1. T \ {Genesis} = (S \ {Genesis}) \cup ({n} \ {Genesis}) /\ GoodChain(T)
  OBVIOUS
<1> HIDE DEF T
<1>2. CASE \E b \in S \ {Genesis} : o \in Ins(b)
  <2>1. \E b \in T \ {Genesis} : o \in Ins(b)
    BY <1>1, <1>2
  <2>2. UtxoOf(S)[o] = NoEntry
    BY <1>2, UtxoEntry
  <2>3. UtxoOf(T)[o] = NoEntry
    BY <1>1, <2>1, UtxoEntry
  <2> QED
    BY <2>2, <2>3 DEF T
<1>3. CASE \A c \in S \ {Genesis} : o \notin Outs(c)
  <2>1. \A c \in T \ {Genesis} : o \notin Outs(c)
    BY <1>1, <1>3
  <2>2. UtxoOf(S)[o] = NoEntry
    BY <1>3, UtxoEntry
  <2>3. UtxoOf(T)[o] = NoEntry
    BY <1>1, <2>1, UtxoEntry
  <2> QED
    BY <2>2, <2>3 DEF T
<1>4. CASE /\ \A b \in S \ {Genesis} : o \notin Ins(b)
           /\ \E c \in S \ {Genesis} : o \in Outs(c)
  <2>1. PICK c \in S \ {Genesis} : o \in Outs(c)
    BY <1>4
  <2>2. c \in T \ {Genesis} /\ \A b \in T \ {Genesis} : o \notin Ins(b)
    BY <1>1, <1>4
  <2>3. UtxoOf(S)[o] = NewEntry(c, o)
    BY <1>4, <2>1, UnspentEntry
  <2>4. UtxoOf(T)[o] = NewEntry(c, o)
    BY <1>1, <2>1, <2>2, UnspentEntry
  <2> QED
    BY <2>3, <2>4 DEF T
<1> QED
  BY <1>2, <1>3, <1>4

(* The journal entries of the other blocks are the same with and without   *)
(* a block.                                                                *)
LEMMA UntouchedJournal ==
    ASSUME NEW S, GoodChain(S), NEW T, GoodChain(T), S \subseteq T,
           NEW b \in Blocks, b \in T => b \in S
    PROVE  JournalOf(T)[b] = JournalOf(S)[b]
<1>1. S \ {Genesis} \subseteq T \ {Genesis}
  OBVIOUS
<1>2. ASSUME NEW o \in Outputs
      PROVE  JournalOf(S)[b][o] = JournalOf(T)[b][o]
  <2>1. CASE b \notin S \ {Genesis} \/ o \notin Ins(b)
    BY <1>1, <2>1 DEF JournalOf
  <2>2. CASE b \in S \ {Genesis} /\ o \in Ins(b)
    <3>1. PICK c \in Ancestors[b] \ {Genesis} : o \in Outs(c)
      BY <2>2 DEF GoodChain, NoReplay
    <3>2. c \in S \ {Genesis} /\ c \in T \ {Genesis}
      BY <1>1, <2>2, <3>1 DEF GoodChain
    <3>3. CreatorIn(S \ {Genesis}, o) = c /\ CreatorIn(T \ {Genesis}, o) = c
      BY <1>1, <3>1, <3>2, UtxoEntry
    <3> QED
      BY <1>1, <2>2, <3>3 DEF JournalOf
  <2> QED
    BY <2>1, <2>2
<1>3. /\ JournalOf(S)[b] = [o \in Outputs |-> JournalOf(S)[b][o]]
      /\ JournalOf(T)[b] = [o \in Outputs |-> JournalOf(T)[b][o]]
  BY DEF JournalOf
<1> QED
  BY <1>2, <1>3

(* The utxo set after connectBlock is that of the longer chain.            *)
LEMMA UtxoConnects ==
    ASSUME NEW n \in Sane \ {Genesis}, CoinbasesDiffer(Ancestors[n]),
           NEW S, S = Ancestors[Parent[n]], GoodChain(S),
           ~MissingInput(UtxoOf(S), n)
    PROVE  Commit(ConnectTransactions(UtxoOf(S), n)) = UtxoOf(S \cup {n})
<1> DEFINE T == S \cup {n}
           U == UtxoOf(S)
           V == UtxoOf(T)
<1>1. /\ GoodChain(T) /\ n \notin S /\ n \in Blocks /\ n \in T \ {Genesis}
      /\ \A c \in S \ {Genesis} : Ins(n) \cap Ins(c) = {}
      /\ \A c \in S \ {Genesis} : \A o \in Outs(n) : o \notin Outs(c) /\ o \notin Ins(c)
  BY GoodChainExtends
<1>2. ASSUME NEW o \in Outputs
      PROVE  /\ o \in Ins(n) => V[o] = NoEntry
             /\ o \in Outs(n) /\ o \notin Ins(n) => V[o] = NewEntry(n, o)
             /\ o \notin Ins(n) /\ o \notin Outs(n) => V[o] = U[o]
             /\ U[o] # SpentEntry
  <2> HIDE DEF T
  <2>1. o \in Ins(n) => V[o] = NoEntry
    BY <1>1, UtxoEntry
  <2>2. ASSUME o \in Outs(n), o \notin Ins(n) PROVE V[o] = NewEntry(n, o)
    <3>1. \A b \in T \ {Genesis} : o \notin Ins(b)
      BY <1>1, <2>2 DEF T
    <3> QED
      BY <1>1, <2>2, <3>1, UnspentEntry
  <2>3. o \notin Ins(n) /\ o \notin Outs(n) => V[o] = U[o]
    BY <1>1, UntouchedEntry DEF T
  <2>4. U[o] # SpentEntry
    BY UtxoNotSpent DEF GoodChain
  <2> QED
    BY <2>1, <2>2, <2>3, <2>4
<1>3. \A o \in Outputs : Commit(ConnectTransactions(U, n))[o] = V[o]
  <2> HIDE DEF U, V
  <2> QED
    BY <1>1, <1>2, EntryOf DEF Commit, ConnectTransactions
<1>4. V = [o \in Outputs |-> V[o]]
  BY DEF UtxoOf
<1>5. Commit(ConnectTransactions(U, n)) = [o \in Outputs |-> Commit(ConnectTransactions(U, n))[o]]
  BY DEF Commit
<1> HIDE DEF U, V
<1>6. Commit(ConnectTransactions(U, n)) = V
  BY <1>3, <1>4, <1>5
<1> QED
  BY <1>6 DEF U, V

(* The journal records the entries that the block spends.                  *)
LEMMA JournalConnects ==
    ASSUME NEW n \in Sane \ {Genesis}, CoinbasesDiffer(Ancestors[n]),
           NEW S, S = Ancestors[Parent[n]], GoodChain(S),
           ~MissingInput(UtxoOf(S), n)
    PROVE  [JournalOf(S) EXCEPT ![n] = SpentTxOuts(UtxoOf(S), n)] = JournalOf(S \cup {n})
<1> DEFINE T == S \cup {n}
           U == UtxoOf(S)
           K == SpentTxOuts(U, n)
           J == [JournalOf(S) EXCEPT ![n] = K]
<1>1. /\ GoodChain(T) /\ n \notin S /\ n \in Blocks /\ n \in T \ {Genesis}
      /\ \A c \in S \ {Genesis} : Ins(n) \cap Ins(c) = {}
      /\ \A o \in Ins(n) : o \in Outs(n) \/ \E c \in S \ {Genesis} : o \in Outs(c)
      /\ \A c \in S \ {Genesis} : \A o \in Outs(n) : o \notin Outs(c) /\ o \notin Ins(c)
  BY GoodChainExtends
<1>2. \A o \in Outputs, c \in T \ {Genesis} :
         o \in Outs(c) => CreatorIn(T \ {Genesis}, o) = c
  BY <1>1, UtxoEntry
<1>3. ASSUME NEW o \in Outputs
      PROVE  K[o] = JournalOf(T)[n][o]
  <2>1. CASE o \notin Ins(n)
    BY <1>1, <2>1 DEF SpentTxOuts, JournalOf
  <2>2. CASE o \in Ins(n) /\ o \in Outs(n)
    <3>1. CreatorIn(T \ {Genesis}, o) = n
      BY <1>1, <1>2, <2>2
    <3>2. JournalOf(T)[n][o] = NewEntry(n, o)
      BY <1>1, <2>2, <3>1 DEF JournalOf
    <3> QED
      BY <2>2, <3>2 DEF SpentTxOuts, InputEntry
  <2>3. CASE o \in Ins(n) /\ o \notin Outs(n)
    <3>1. PICK c \in S \ {Genesis} : o \in Outs(c)
      BY <1>1, <2>3
    <3>2. CreatorIn(T \ {Genesis}, o) = c
      BY <1>2, <3>1
    <3>3. JournalOf(T)[n][o] = NewEntry(c, o)
      BY <1>1, <2>3, <3>2 DEF JournalOf
    <3>4. \A b \in S \ {Genesis} : o \notin Ins(b)
      BY <1>1, <2>3
    <3>5. U[o] = NewEntry(c, o)
      BY <3>1, <3>4, UnspentEntry
    <3>6. K[o] = U[o]
      <4> HIDE DEF U
      <4> QED
        BY <2>3 DEF SpentTxOuts, InputEntry
    <3> QED
      BY <3>3, <3>5, <3>6
  <2> QED
    BY <2>1, <2>2, <2>3
<1>4. \A b \in Blocks \ {n} : JournalOf(T)[b] = JournalOf(S)[b]
  <2>1. S \subseteq T /\ \A b \in Blocks \ {n} : b \in T => b \in S
    OBVIOUS
  <2> HIDE DEF J, K, U, T
  <2> QED
    BY <1>1, <2>1, UntouchedJournal
<1>5. \A b \in Blocks : J[b] = JournalOf(T)[b]
  <2>1. ASSUME NEW b \in Blocks \ {n} PROVE J[b] = JournalOf(T)[b]
    <3>1. J[b] = JournalOf(S)[b]
      BY DEF JournalOf
    <3> QED
      BY <1>4, <3>1
  <2>2. J[n] = JournalOf(T)[n]
    <3>1. J[n] = K
      BY <1>1 DEF JournalOf
    <3>2. /\ K = [o \in Outputs |-> K[o]]
          /\ JournalOf(T)[n] = [o \in Outputs |-> JournalOf(T)[n][o]]
      BY <1>1 DEF SpentTxOuts, JournalOf
    <3> QED
      BY <1>3, <3>1, <3>2
  <2> QED
    BY <2>1, <2>2
<1>6. J = [b \in Blocks |-> J[b]] /\ JournalOf(T) = [b \in Blocks |-> JournalOf(T)[b]]
  BY DEF JournalOf
<1> HIDE DEF J, T
<1>7. J = JournalOf(T)
  BY <1>5, <1>6
<1> QED
  BY <1>7 DEF J, T

(* What the tip of a good chain has to do with the blocks below it.        *)
LEMMA TipOfGoodChain ==
    ASSUME NEW n \in Blocks \ {Genesis}, NEW S, S = Ancestors[Parent[n]],
           GoodChain(S \cup {n})
    PROVE  /\ GoodChain(S) /\ n \notin S
           /\ \A c \in S \ {Genesis} : \A o \in Outs(n) : o \notin Outs(c) /\ o \notin Ins(c)
           /\ \A c \in S \ {Genesis} : \A o \in Ins(n) : o \notin Ins(c)
           /\ \A o \in Ins(n) : o \in Outs(n) \/ \E c \in S \ {Genesis} : o \in Outs(c)
<1> DEFINE T == S \cup {n}
<1>1. GoodChain(S) /\ n \notin S /\ GoodChain(T) /\ Ancestors[n] = T
  BY GoodChainShrinks, TreeAssumption
<1>2. ASSUME NEW c \in S \ {Genesis}, NEW o \in Outs(n) PROVE o \notin Outs(c)
  BY <1>1, OneCreatingBlock
<1>3. ASSUME NEW c \in S \ {Genesis}, NEW o \in Outs(n) PROVE o \notin Ins(c)
  <2>1. SUFFICES ASSUME o \in Ins(c) PROVE FALSE
    OBVIOUS
  <2>2. PICK d \in Ancestors[c] \ {Genesis} : o \in Outs(d)
    BY <1>1, <2>1 DEF GoodChain, NoReplay
  <2> QED
    BY <1>1, <1>2, <2>2 DEF GoodChain
<1>4. ASSUME NEW c \in S \ {Genesis}, NEW o \in Ins(n) PROVE o \notin Ins(c)
  BY <1>1 DEF GoodChain, NoReplay
<1>5. ASSUME NEW o \in Ins(n) PROVE o \in Outs(n) \/ \E c \in S \ {Genesis} : o \in Outs(c)
  BY <1>1 DEF GoodChain, NoReplay
<1> QED
  BY <1>1, <1>2, <1>3, <1>4, <1>5

(* disconnectBlock restores the utxo set of the shorter chain.             *)
LEMMA UtxoDisconnects ==
    ASSUME NEW n \in Blocks \ {Genesis}, NEW S, S = Ancestors[Parent[n]],
           GoodChain(S \cup {n})
    PROVE  Commit(DisconnectTransactions(UtxoOf(S \cup {n}), n, JournalOf(S \cup {n})[n]))
              = UtxoOf(S)
<1> DEFINE T == S \cup {n}
           U == UtxoOf(S)
           V == UtxoOf(T)
           K == JournalOf(T)[n]
           D == Commit(DisconnectTransactions(V, n, K))
<1>1. /\ GoodChain(S) /\ n \notin S /\ GoodChain(T)
      /\ \A c \in S \ {Genesis} : \A o \in Outs(n) : o \notin Outs(c) /\ o \notin Ins(c)
      /\ \A c \in S \ {Genesis} : \A o \in Ins(n) : o \notin Ins(c)
      /\ \A o \in Ins(n) : o \in Outs(n) \/ \E c \in S \ {Genesis} : o \in Outs(c)
  BY TipOfGoodChain
<1>2. ASSUME NEW o \in Outputs
      PROVE  /\ o \in Outs(n) => U[o] = NoEntry
             /\ o \in Ins(n) /\ o \notin Outs(n) => K[o] = U[o]
             /\ o \notin Ins(n) /\ o \notin Outs(n) => V[o] = U[o]
             /\ U[o] # SpentEntry
  <2>1. o \in Outs(n) => U[o] = NoEntry
    BY <1>1, UtxoEntry
  <2>2. ASSUME o \in Ins(n), o \notin Outs(n) PROVE K[o] = U[o]
    <3>1. PICK c \in S \ {Genesis} : o \in Outs(c)
      BY <1>1, <2>2
    <3>2. CreatorIn(T \ {Genesis}, o) = c
      <4>1. c \in T \ {Genesis}
        OBVIOUS
      <4> HIDE DEF T
      <4> QED
        BY <1>1, <3>1, <4>1, UtxoEntry
    <3>3. K[o] = NewEntry(c, o)
      BY <2>2, <3>2 DEF JournalOf
    <3>4. \A b \in S \ {Genesis} : o \notin Ins(b)
      BY <1>1, <2>2
    <3>5. U[o] = NewEntry(c, o)
      BY <1>1, <3>1, <3>4, UnspentEntry
    <3> QED
      BY <3>3, <3>5
  <2>3. o \notin Ins(n) /\ o \notin Outs(n) => V[o] = U[o]
    BY <1>1, UntouchedEntry
  <2>4. U[o] # SpentEntry
    BY <1>1, UtxoNotSpent DEF GoodChain
  <2> QED
    BY <2>1, <2>2, <2>3, <2>4
<1> HIDE DEF U, V, K
<1>3. \A o \in Outputs : D[o] = U[o]
  BY <1>2 DEF Commit, DisconnectTransactions
<1>4. U = [o \in Outputs |-> U[o]] /\ D = [o \in Outputs |-> D[o]]
  BY DEF UtxoOf, Commit, U
<1> HIDE DEF D
<1>5. D = U
  BY <1>3, <1>4
<1> QED
  BY <1>5 DEF D, U, V, K

(* And the journal.                                                        *)
LEMMA JournalDisconnects ==
    ASSUME NEW n \in Blocks \ {Genesis}, NEW S, S = Ancestors[Parent[n]],
           GoodChain(S \cup {n})
    PROVE  [JournalOf(S \cup {n}) EXCEPT ![n] = EmptyUtxo] = JournalOf(S)
<1> DEFINE T == S \cup {n}
           J == [JournalOf(T) EXCEPT ![n] = EmptyUtxo]
<1>1. GoodChain(S) /\ n \notin S /\ GoodChain(T)
  BY TipOfGoodChain
<1>2. ASSUME NEW b \in Blocks \ {n} PROVE J[b] = JournalOf(S)[b]
  <2>1. J[b] = JournalOf(T)[b]
    BY DEF JournalOf
  <2>2. JournalOf(T)[b] = JournalOf(S)[b]
    <3>1. S \subseteq T /\ (b \in T => b \in S)
      OBVIOUS
    <3> HIDE DEF J, T
    <3> QED
      BY <1>1, <3>1, UntouchedJournal
  <2> QED
    BY <2>1, <2>2
<1>3. J[n] = JournalOf(S)[n]
  BY <1>1 DEF JournalOf, EmptyUtxo
<1>4. J = [b \in Blocks |-> J[b]] /\ JournalOf(S) = [b \in Blocks |-> JournalOf(S)[b]]
  BY DEF JournalOf
<1> HIDE DEF J
<1>5. J = JournalOf(S)
  BY <1>2, <1>3, <1>4
<1> QED
  BY <1>5 DEF J

-----------------------------------------------------------------------------
(* Checking a block.                                                       *)

(* What checkConnectBlock finds out about a block whatever the tip was: no *)
(* output is spent twice within it, and what it spends one of the blocks R *)
(* that have been accepted has created, deep enough if by its coinbase.    *)
Sound(R, b) ==
    /\ b \in RulesOK
    /\ \A i \in Positions(b) : \A o \in TxIn[BlockTxs[b][i]] :
          /\ \A j \in 1..(i - 1) : o \notin TxIn[BlockTxs[b][j]]
          /\ \E c \in R \ {Genesis} :
                /\ o \in Outs(c)
                /\ o \in TxOut[Coinbase(c)] => Height[b] - Height[c] >= CoinbaseMaturity

(* A view holds entries that accepted blocks have created.                 *)
ViewOK(R, v) ==
    /\ v \in [Outputs -> Entry \cup {NoEntry, SpentEntry}]
    /\ \A o \in Outputs : v[o] \in Entry =>
          \E c \in R \ {Genesis} : o \in Outs(c) /\ v[o] = NewEntry(c, o)

(* Both stay true when more blocks are accepted.                           *)
LEMMA MoreAccepted ==
    ASSUME NEW R, NEW T, R \subseteq T
    PROVE  /\ \A b : Sound(R, b) => Sound(T, b)
           /\ \A v : ViewOK(R, v) => ViewOK(T, v)
<1>1. \A b : Sound(R, b) => Sound(T, b)
  BY DEF Sound
<1>2. \A v : ViewOK(R, v) => ViewOK(T, v)
  BY DEF ViewOK
<1> QED
  BY <1>1, <1>2

(* A transaction without inputs is the coinbase of every block it is in.   *)
LEMMA CoinbaseOfItsBlocks ==
    ASSUME NEW R, CoinbasesDiffer(R), R \ {Genesis} \subseteq Sane,
           NEW c \in R \ {Genesis}, NEW d \in R \ {Genesis}, NEW o \in Outs(d),
           o \in TxOut[Coinbase(c)]
    PROVE  Height[d] = Height[c] /\ o \in TxOut[Coinbase(d)]
<1>1. c \in Blocks /\ d \in Blocks /\ c \in Sane /\ d \in Sane
  BY TxAssumption
<1>2. PICK i \in Positions(d) : o \in TxOut[BlockTxs[d][i]]
  BY <1>1, ByTransaction
<1>3. /\ 1 \in Positions(c) /\ Coinbase(c) \in DOMAIN TxIn /\ BlockTxs[d][i] \in DOMAIN TxIn
  BY <1>1, BlockTransactions DEF Coinbase
<1>4. BlockTxs[d][i] = Coinbase(c)
  BY <1>2, <1>3, OneCreator
<1>5. TxIn[Coinbase(c)] = {}
  BY <1>1, <1>3, TxAssumption DEF Coinbase, Positions
<1>6. i = 1
  BY <1>1, <1>4, <1>5, TxAssumption DEF Positions
<1> QED
  BY <1>2, <1>4, <1>6, <1>1, TreeAssumption DEF Coinbase, CoinbasesDiffer

(* An accepted block that checkConnectBlock has passed on any view of      *)
(* accepted blocks is sound.                                               *)
LEMMA CheckSound ==
    ASSUME NEW R, NEW n \in R \ {Genesis}, n \in Sane, NEW v, ViewOK(R, v),
           CheckConnectBlock(v, n)
    PROVE  Sound(R, n)
<1>1. n \in Blocks /\ Height[n] \in Nat
  BY TxAssumption, TreeAssumption
<1>2. SUFFICES ASSUME NEW i \in Positions(n), NEW o \in TxIn[BlockTxs[n][i]]
               PROVE  \E c \in R \ {Genesis} :
                         /\ o \in Outs(c)
                         /\ o \in TxOut[Coinbase(c)]
                               => Height[n] - Height[c] >= CoinbaseMaturity
  BY DEF CheckConnectBlock, InputsSpendable, Sound
<1>3. /\ o \in InFlight(n, i) \/ Unspent(v, o)
      /\ InputEntry(v, n, o).coinbase =>
            Height[n] - InputEntry(v, n, o).height >= CoinbaseMaturity
  BY DEF CheckConnectBlock, InputsSpendable
<1>4. CASE o \in Outs(n)
  <2>1. InputEntry(v, n, o) = NewEntry(n, o)
    BY <1>4 DEF InputEntry
  <2> QED
    BY <1>1, <1>3, <1>4, <2>1, EntryFields
<1>5. CASE o \notin Outs(n)
  <2>1. o \notin InFlight(n, i) /\ o \in Outputs
    BY <1>1, <1>5, BlockTransactions, ByTransaction
  <2>2. PICK d \in R \ {Genesis} : o \in Outs(d) /\ v[o] = NewEntry(d, o)
    BY <1>3, <2>1 DEF ViewOK, Unspent
  <2>3. InputEntry(v, n, o) = NewEntry(d, o)
    BY <1>5, <2>2 DEF InputEntry
  <2> QED
    BY <1>1, <1>3, <2>2, <2>3, EntryFields
<1> QED
  BY <1>4, <1>5

(* checkConnectBlock finds no input missing.                               *)
LEMMA CheckFindsInputs ==
    ASSUME NEW n, NEW v, CheckConnectBlock(v, n)
    PROVE  ~MissingInput(v, n)
  BY TxAssumption DEF CheckConnectBlock, InputsSpendable, MissingInput, Unspent

(* And a sound block all of whose inputs are there passes the check on top *)
(* of its parent's chain.                                                  *)
LEMMA SoundChecks ==
    ASSUME NEW R, CoinbasesDiffer(R), R \ {Genesis} \subseteq Sane,
           NEW n \in Sane \ {Genesis}, Ancestors[n] \subseteq R \cup {Genesis}, Sound(R, n),
           NEW S, S = Ancestors[Parent[n]], GoodChain(S), ~MissingInput(UtxoOf(S), n)
    PROVE  CheckConnectBlock(UtxoOf(S), n)
<1> DEFINE U == UtxoOf(S)
<1>1. /\ n \in Blocks /\ Height[n] \in Nat /\ S \in SUBSET Blocks
      /\ \A c \in S \ {Genesis} : \A o \in Outs(n) : o \notin Outs(c) /\ o \notin Ins(c)
      /\ S \ {Genesis} \subseteq R \ {Genesis}
      /\ n \in R \ {Genesis}
  <2>1. n \in Blocks /\ Height[n] \in Nat /\ S \in SUBSET Blocks
    BY TxAssumption, TreeAssumption DEF GoodChain
  <2>2. \A c \in S \ {Genesis} : \A o \in Outs(n) : o \notin Outs(c) /\ o \notin Ins(c)
    <3>1. CoinbasesDiffer(Ancestors[n])
      BY DEF CoinbasesDiffer
    <3>2. ~MissingInput(UtxoOf(S), n)
      OBVIOUS
    <3> HIDE DEF U
    <3> QED
      BY <3>1, <3>2, GoodChainExtends, ZenonT(120)
  <2>3. Ancestors[n] = S \cup {n}
    BY <2>1, TreeAssumption
  <2> QED
    BY <2>1, <2>2, <2>3
<1>2. ~OverwritesUnspent(U, n)
  <2>1. ASSUME NEW o \in Outs(n) PROVE U[o] = NoEntry
    <3>1. o \in Outputs
      BY <1>1, ByTransaction
    <3> QED
      BY <1>1, <3>1, UtxoEntry
  <2> HIDE DEF U
  <2> QED
    BY <2>1, TxAssumption DEF OverwritesUnspent, Unspent
<1>3. ASSUME NEW i \in Positions(n), NEW o \in TxIn[BlockTxs[n][i]]
      PROVE  /\ o \in InFlight(n, i) \/ Unspent(U, o)
             /\ InputEntry(U, n, o).coinbase =>
                   Height[n] - InputEntry(U, n, o).height >= CoinbaseMaturity
  <2>1. o \in Outputs /\ (o \in InFlight(n, i) => o \in Outs(n))
    BY <1>1, BlockTransactions, ByTransaction
  <2>2. o \in InFlight(n, i) \/ U[o] # NoEntry
    BY DEF MissingInput
  <2>3. U[o] \in Entry \cup {NoEntry}
    BY <1>1, <2>1, UtxoNotSpent
  <2>4. \A c \in R \ {Genesis} : o \in Outs(c) =>
           (o \in TxOut[Coinbase(c)] => Height[n] - Height[c] >= CoinbaseMaturity)
    <3>1. PICK d \in R \ {Genesis} :
             /\ o \in Outs(d)
             /\ o \in TxOut[Coinbase(d)] => Height[n] - Height[d] >= CoinbaseMaturity
      BY DEF Sound
    <3> QED
      BY <3>1, CoinbaseOfItsBlocks
  <2>5. CASE o \in Outs(n)
    <3>1. InputEntry(U, n, o) = NewEntry(n, o)
      BY <2>5 DEF InputEntry
    <3> QED
      BY <1>1, <2>2, <2>3, <2>4, <2>5, <3>1, EntryFields DEF Unspent
  <2>6. CASE o \notin Outs(n)
    <3>1. U[o] # NoEntry
      BY <2>1, <2>2, <2>6
    <3>2. PICK c \in S \ {Genesis} : o \in Outs(c) /\ U[o] = NewEntry(c, o)
      BY <2>1, <3>1, UtxoEntry
    <3>3. InputEntry(U, n, o) = NewEntry(c, o)
      BY <2>6, <3>2 DEF InputEntry
    <3>4. c \in R \ {Genesis}
      BY <1>1, <3>2
    <3> QED
      BY <2>3, <2>4, <3>1, <3>2, <3>3, <3>4, EntryFields DEF Unspent
  <2> QED
    BY <2>5, <2>6
<1>4. InputsSpendable(U, n)
  BY <1>3 DEF InputsSpendable, Sound
<1> QED
  BY <1>2, <1>4 DEF CheckConnectBlock, Sound


-----------------------------------------------------------------------------
(* The order of the transactions in a block.                               *)

(* No output is spent twice within the block, and what the block spends of *)
(* its own an earlier transaction of it has created.                       *)
Ordered(b) ==
    \A i \in Positions(b) : \A o \in TxIn[BlockTxs[b][i]] :
        /\ \A j \in 1..(i - 1) : o \notin TxIn[BlockTxs[b][j]]
        /\ o \in Outs(b) => o \in InFlight(b, i)

(* A block that checkConnectBlock passes is ordered.                       *)
LEMMA CheckOrders ==
    ASSUME NEW n \in Sane \ {Genesis}, CoinbasesDiffer(Ancestors[n]),
           NEW S, S = Ancestors[Parent[n]], GoodChain(S),
           CheckConnectBlock(UtxoOf(S), n)
    PROVE  Ordered(n)
<1> DEFINE U == UtxoOf(S)
<1>1. n \in Blocks /\ \A c \in S \ {Genesis} : \A o \in Outs(n) : o \notin Outs(c)
  <2>1. ~MissingInput(UtxoOf(S), n)
    BY CheckFindsInputs
  <2>2. \A c \in S \ {Genesis} : \A o \in Outs(n) : o \notin Outs(c) /\ o \notin Ins(c)
    BY <2>1, GoodChainExtends
  <2> QED
    BY <2>2, TxAssumption
<1>2. \A o \in Outputs : (\A c \in S \ {Genesis} : o \notin Outs(c)) => U[o] = NoEntry
  BY UtxoEntry
<1> HIDE DEF U
<1>3. InputsSpendable(U, n)
  BY DEF U, CheckConnectBlock
<1>4. ASSUME NEW i \in Positions(n), NEW o \in TxIn[BlockTxs[n][i]], o \in Outs(n)
      PROVE  o \in InFlight(n, i)
  <2>1. U[o] = NoEntry
    BY <1>1, <1>2, <1>4, ByTransaction
  <2> QED
    BY <1>3, <2>1, TxAssumption DEF InputsSpendable, Unspent
<1> QED
  BY <1>3, <1>4 DEF Ordered, InputsSpendable

(* A transaction has one position in an ordered block.                     *)
LEMMA OnePosition ==
    ASSUME NEW n \in Sane, Ordered(n), NEW i \in Positions(n), NEW j \in Positions(n),
           BlockTxs[n][i] = BlockTxs[n][j]
    PROVE  i = j
<1>1. n \in Blocks /\ i \in Nat \ {0} /\ j \in Nat \ {0}
  BY TxAssumption, BlockTransactions
<1>2. ASSUME NEW p \in Positions(n), NEW q \in Positions(n), p < q, p \in Nat \ {0},
             q \in Nat \ {0}, BlockTxs[n][p] = BlockTxs[n][q]
      PROVE  FALSE
  <2>1. TxIn[BlockTxs[n][q]] # {}
    BY <1>2, TxAssumption DEF Positions
  <2>2. PICK o \in TxIn[BlockTxs[n][q]] : TRUE
    BY <2>1
  <2>3. p \in 1..(q - 1)
    BY <1>2
  <2> QED
    BY <1>2, <2>2, <2>3 DEF Ordered
<1>3. ~(i < j)
  BY <1>1, <1>2
<1>4. ~(j < i)
  BY <1>1, <1>2
<1> QED
  BY <1>1, <1>3, <1>4

(* What a transaction of a good chain of ordered blocks spends, a          *)
(* transaction before it has created.                                      *)
LEMMA CreatedEarlier ==
    ASSUME NEW S, GoodChain(S), NEW b \in S \ {Genesis}, Ordered(b), NEW i \in Positions(b),
           NEW o \in TxIn[BlockTxs[b][i]]
    PROVE  \E c \in Ancestors[b] \ {Genesis} : \E j \in Positions(c) :
              o \in TxOut[BlockTxs[c][j]] /\ (c = b => j < i)
<1>1. /\ b \in Blocks /\ Ancestors[b] \subseteq Blocks /\ b \in Ancestors[b]
      /\ o \in Ins(b)
  <2>1. b \in Blocks
    BY DEF GoodChain
  <2> QED
    BY <2>1, OwnAncestor DEF Ins
<1>2. PICK c \in Ancestors[b] \ {Genesis} : o \in Outs(c)
  BY <1>1 DEF GoodChain, NoReplay
<1>3. CASE o \in Outs(b)
  <2>1. o \in InFlight(b, i)
    BY <1>3 DEF Ordered
  <2>2. PICK k \in 1..(i - 1) : o \in TxOut[BlockTxs[b][k]]
    BY <1>1, <2>1, ByTransaction
  <2> QED
    BY <1>1, <2>2, BlockTransactions
<1>4. CASE o \notin Outs(b)
  <2>1. PICK j \in Positions(c) : o \in TxOut[BlockTxs[c][j]]
    BY <1>1, <1>2, ByTransaction
  <2> QED
    BY <1>2, <1>4, <2>1
<1> QED
  BY <1>3, <1>4

(* What a good chain has spent is not unspent.                             *)
LEMMA SpentInChain ==
    ASSUME NEW S, GoodChain(S), NEW b \in S \ {Genesis}, NEW o \in Ins(b)
    PROVE  ~Unspent(UtxoOf(S), o)
<1>1. o \in Outputs
  BY ByTransaction DEF GoodChain
<1>2. UtxoOf(S)[o] = NoEntry
  BY <1>1, UtxoEntry
<1> QED
  BY <1>2, TxAssumption DEF Unspent

(* The genesis block is a good chain, and nothing is unspent.              *)
LEMMA GenesisChain ==
    GoodChain(Ancestors[Genesis]) /\ UtxoOf(Ancestors[Genesis]) = EmptyUtxo
<1>1. GoodChain(Ancestors[Genesis])
  BY TreeAssumption DEF GoodChain, NoReplay
<1>2. Ancestors[Genesis] \ {Genesis} = {}
  BY TreeAssumption
<1> QED
  BY <1>1, <1>2 DEF UtxoOf, EmptyUtxo

=============================================================================
