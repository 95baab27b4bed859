CONSTANTS
    Blocks <- LongBlocks
    Genesis = "g"
    Parent <- MCParent
    Height <- MCHeight
    Ancestors <- MCAncestors
    Work <- MCWork
    BlockTxs <- MCBlockTxs
    TxIn <- MCTxIn
    TxOut <- MCTxOut
    Outputs <- MCOutputs
    Sane <- MCSane
    Blacklisted <- MCBlacklisted
    RulesOK <- MCRulesOK
    CoinbaseMaturity = 1
    BIP0034Height = 10
    NoBlock = NoBlock
    NoEntry = NoEntry
    SpentEntry = SpentEntry
    MaxOrphanBlocks = 3
    Hour = 1
    MaxTime = 0
    FastAdd = {FALSE}
    MayCrash = FALSE
SPECIFICATION Spec
INVARIANT MostWorkIsBest
