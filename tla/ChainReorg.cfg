CONSTANTS
    TreesUsed = {"reorg", "repeat"}
    Blocks <- BranchBlocks
    Genesis = "g"
    Parent <- MCParent
    Height <- MCHeight
    Ancestors <- MCAncestors
    Work <- MCWork
    BlockTxs <- MCBlockTxs
    TxIn <- MCTxIn
    TxOut <- MCTxOut
    Outputs <- MCOutputs
    Sane <- MCSane
    Blacklisted <- MCBlacklisted
    RulesOK <- MCRulesOK
    CoinbaseMaturity = 1
    BIP0034Height = 10
    NoBlock = NoBlock
    NoEntry = NoEntry
    SpentEntry = SpentEntry
    MaxOrphanBlocks = 2
    Hour = 1
    MaxTime = 0
    FastAdd = {FALSE}
    MayCrash = TRUE
SPECIFICATION BranchSpec
INVARIANTS TypeOK UtxoIsReplay Recoverable MemoryMatchesDB
