------------------------------ MODULE UtxoSet ------------------------------
(***************************************************************************)
(* The block tree a node may be handed, and what connecting a block to and *)
(* disconnecting it from a set of unspent outputs does.                    *)
(*                                                                         *)
(* Blocks, transactions and outputs are opaque: a block is its hash, and   *)
(* the constants say which transactions it holds, which outputs those      *)
(* spend and create and how much work it carries.  A set of unspent        *)
(* outputs (the utxo bucket of the database as well as a UtxoViewpoint     *)
(* laid over it) is a function on outputs that gives each one its entry,   *)
(* NoEntry for a nil entry, or SpentEntry for an entry that is in the view *)
(* with tfSpent set.  The database never holds the last kind.              *)
(***************************************************************************)
EXTENDS Integers, Sequences, FiniteSets

CONSTANTS
    Blocks,            \* every block that can arrive, the genesis block included
    Genesis,           \* params.GenesisHash
    Parent,            \* Header.PrevBlock
    Height,            \* node.height
    Ancestors,         \* a block and all its ancestors, along Header.PrevBlock
    Work,              \* CalcWork(bits, height, version) of the block
    BlockTxs,          \* the transactions of a block, the coinbase first
    TxIn,              \* the outputs a transaction spends
    TxOut,             \* the spendable outputs a transaction creates
    Outputs,           \* every output of every transaction
    Sane,              \* blocks that pass checkBlockSanity and the checkpoint test
    Blacklisted,       \* blocks that pay a blacklisted address
    RulesOK,           \* blocks whose fees, subsidy, sigops, locks and scripts are valid
    CoinbaseMaturity,  \* params.CoinbaseMaturity
    BIP0034Height,     \* below this height checkBIP0030 runs
    NoBlock, NoEntry, SpentEntry

Entry == [height : Nat, coinbase : BOOLEAN]

(* The tree is well founded: a block is one higher than its parent, and    *)
(* its ancestors are itself and its parent's.                              *)
ASSUME TreeAssumption ==
    /\ Genesis \in Blocks
    /\ NoBlock \notin Blocks
    /\ IsFiniteSet(Blocks)
    /\ Parent \in [Blocks \ {Genesis} -> Blocks]
    /\ Height \in [Blocks -> Nat]
    /\ Ancestors \in [Blocks -> SUBSET Blocks]
    /\ Height[Genesis] = 0
    /\ Ancestors[Genesis] = {Genesis}
    /\ \A b \in Blocks \ {Genesis} :
          /\ Height[b] = Height[Parent[b]] + 1
          /\ Ancestors[b] = Ancestors[Parent[b]] \cup {b}
          /\ b \notin Ancestors[Parent[b]]
    /\ Work \in [Blocks -> Nat]

(* An output belongs to one transaction.  A sane block starts with its     *)
(* coinbase, which spends nothing, and no other transaction of it is one   *)
(* (checkBlockSanity) or spends nothing (CheckTransactionSanity).          *)
ASSUME TxAssumption ==
    /\ BlockTxs \in [Blocks -> Seq(DOMAIN TxIn)]
    /\ \A b \in Blocks : Len(BlockTxs[b]) > 0
    /\ DOMAIN TxOut = DOMAIN TxIn
    /\ \A t \in DOMAIN TxIn : TxIn[t] \subseteq Outputs /\ TxOut[t] \subseteq Outputs
    /\ \A t, u \in DOMAIN TxIn : t # u => TxOut[t] \cap TxOut[u] = {}
    /\ Sane \subseteq Blocks
    /\ \A b \in Sane : \A i \in 1..Len(BlockTxs[b]) : TxIn[BlockTxs[b][i]] = {} <=> i = 1
    /\ NoEntry \notin Entry /\ SpentEntry \notin Entry /\ NoEntry # SpentEntry
    /\ CoinbaseMaturity \in Nat
    /\ BIP0034Height \in Nat

-----------------------------------------------------------------------------

Positions(b) == 1..Len(BlockTxs[b])

(* What the block's transactions spend and create, the part its first i-1  *)
(* transactions create, and the entry of an output it creates.             *)
Ins(b) == UNION {TxIn[BlockTxs[b][i]] : i \in Positions(b)}
Outs(b) == UNION {TxOut[BlockTxs[b][i]] : i \in Positions(b)}
InFlight(b, i) == UNION {TxOut[BlockTxs[b][j]] : j \in 1..(i - 1)}
NewEntry(b, o) == [height |-> Height[b], coinbase |-> o \in TxOut[BlockTxs[b][1]]]

(* The entry an input of the block finds once fetchInputUtxos has run.     *)
InputEntry(view, b, o) == IF o \in Outs(b) THEN NewEntry(b, o) ELSE view[o]

(* connectTransactions on a view: inputs are marked spent, outputs added.  *)
(* It fails (AssertError) on an input that has no entry at all, and takes  *)
(* an entry already marked spent without a word.                           *)
MissingInput(view, b) ==
    \E i \in Positions(b) : \E o \in TxIn[BlockTxs[b][i]] :
        o \notin InFlight(b, i) /\ view[o] = NoEntry

ConnectTransactions(view, b) ==
    [o \in Outputs |-> IF o \in Ins(b) THEN SpentEntry
                       ELSE IF o \in Outs(b) THEN NewEntry(b, o) ELSE view[o]]

(* The spent outputs the block's journal entry records.                    *)
SpentTxOuts(view, b) ==
    [o \in Outputs |-> IF o \in Ins(b) THEN InputEntry(view, b, o) ELSE NoEntry]

(* Mutant: transactions are undone first to last.                          *)
DisconnectForwards(view, b, stxos) ==
    [o \in Outputs |-> IF o \in Ins(b) THEN stxos[o]
                       ELSE IF o \in Outs(b) THEN SpentEntry ELSE view[o]]

(* disconnectTransactions: outputs of the block are marked spent, inputs   *)
(* come back as the journal recorded them; an output that the block both   *)
(* created and spent ends up spent, since transactions are undone last     *)
(* first.                                                                  *)
DisconnectTransactions(view, b, stxos) ==
    [o \in Outputs |-> IF o \in Outs(b) THEN SpentEntry
                       ELSE IF o \in Ins(b) THEN stxos[o] ELSE view[o]]

CommitKeepsSpent(view) == view   \* mutant: spent entries are not pruned

(* dbPutUtxoView and view.commit: a spent entry leaves the utxo bucket.    *)
Commit(view) == [o \in Outputs |-> IF view[o] = SpentEntry THEN NoEntry ELSE view[o]]

Unspent(view, o) == view[o] \in Entry

(* checkBIP0030: no output of the block may overwrite an unspent one.      *)
OverwritesUnspent(view, b) ==
    Height[b] < BIP0034Height /\ \E o \in Outs(b) : Unspent(view, o)

(* CheckTransactionInputs: every input is unspent when its transaction is  *)
(* reached, and a coinbase output is CoinbaseMaturity blocks deep.         *)
InputsSpendable(view, b) ==
    \A i \in Positions(b) : \A o \in TxIn[BlockTxs[b][i]] :
        /\ o \in InFlight(b, i) \/ Unspent(view, o)
        /\ \A j \in 1..(i - 1) : o \notin TxIn[BlockTxs[b][j]]
        /\ InputEntry(view, b, o).coinbase =>
              Height[b] - InputEntry(view, b, o).height >= CoinbaseMaturity

(* checkConnectBlock returns nil; every way it fails is a RuleError.       *)
CheckConnectBlock(view, b) ==
    /\ b # Genesis
    /\ ~OverwritesUnspent(view, b)
    /\ InputsSpendable(view, b)
    /\ b \in RulesOK

-----------------------------------------------------------------------------

(* The coinbases of blocks of different heights differ.  A template of the *)
(* miner starts its coinbase script with the height, but nothing the code  *)
(* does to a block it is handed makes sure of it: checkBlockContext, which *)
(* compares the height, is not reached, because maybeAcceptBlock looks for *)
(* the last block of the same algorithm and never finds one; checkBIP0030  *)
(* is skipped from BIP0034Height on, and below it looks at the outputs of  *)
(* the tip, not of the branch.  What needs it says so, of the blocks that  *)
(* have been accepted.                                                     *)
CoinbasesDiffer(accepted) ==
    \A a, b \in accepted \ {Genesis} :
        Height[a] # Height[b] => BlockTxs[a][1] # BlockTxs[b][1]

(* Reference: the transactions a chain of blocks counts.                   *)
TxnsOf(S) == UNION {{b} \X Positions(b) : b \in S}

(* The block of a chain that created an output.                            *)
CreatorIn(S, o) == CHOOSE b \in S : o \in Outs(b)

(* Reference: the unspent outputs of a chain, from its blocks alone.  The  *)
(* genesis coinbase is never inserted (createChainState).                  *)
UtxoOf(S) ==
    LET body == S \ {Genesis}
    IN  [o \in Outputs |->
            IF /\ \E b \in body : o \in Outs(b)
               /\ \A b \in body : o \notin Ins(b)
            THEN NewEntry(CHOOSE b \in body : o \in Outs(b), o)
            ELSE NoEntry]

EmptyUtxo == [o \in Outputs |-> NoEntry]

=============================================================================
