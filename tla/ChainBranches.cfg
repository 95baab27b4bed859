CONSTANTS
    TreesUsed = {"offBranch", "invalid", "fork", "repeat"}
    Blocks <- BranchBlocks
    Genesis = "g"
    Parent <- MCParent
    Height <- MCHeight
    Ancestors <- MCAncestors
    Work <- MCWork
    BlockTxs <- MCBlockTxs
    TxIn <- MCTxIn
    TxOut <- MCTxOut
    Outputs <- MCOutputs
    Sane <- MCSane
    Blacklisted <- MCBlacklisted
    RulesOK <- MCRulesOK
    CoinbaseMaturity = 1
    BIP0034Height = 10
    NoBlock = NoBlock
    NoEntry = NoEntry
    SpentEntry = SpentEntry
    MaxOrphanBlocks = 2
    Hour = 1
    MaxTime = 2
    FastAdd = {FALSE, TRUE}
    MayCrash = TRUE
SPECIFICATION BranchSpec
INVARIANTS BestStateConsistent IdleIsClean MainChainNotInvalid
PROPERTIES ImplementsLedger CallReturns
