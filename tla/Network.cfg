SPECIFICATION MCSpec
CONSTANTS
    h1 = h1
    h2 = h2
    a1 = a1
    a2 = a2
    a3 = a3
    Hosts = {h1, h2}
    GroupKey <- MCGroup
    Permanent = {h2}
    TargetOutbound = 1
    MaxPeers = 2
    MaxConnReqs = 2
    MaxConns = 3
    MaxInbound = 1
    Addrs = {a1, a2, a3}
    Sources = {1, 2}
    Keys = {1}
    NewBuckets = {1, 2}
    TriedBuckets = {1, 2}
    NewBucketOf <- MCNewBucketOf
    TriedBucketOf <- MCTriedBucketOf
    newBucketSize = 1
    triedBucketSize = 1
    newBucketsPerAddress = 2
    Blocks <- MCBlocks
    Genesis = "g"
    Parent <- MCParent
    Height <- MCHeight
    Ancestors <- MCAncestors
    Work <- MCWork
    BlockTxs <- MCBlockTxs
    TxIn <- MCTxIn
    TxOut <- MCTxOut
    Outputs <- MCOutputs
    Sane <- MCBlocks
    Blacklisted = {}
    RulesOK <- MCBlocks
    CoinbaseMaturity = 1
    BIP0034Height = 0
    NoBlock = NoBlock
    NoEntry = NoEntry
    SpentEntry = SpentEntry
    Txs <- MCTxs
    Clean <- MCTxs
    ScriptsOK <- MCScriptsOK
    Peers = {p1, p2}
    MaxOrphanTxs = 3
    NoTx = NoTx
INVARIANTS
    ConnectionsAreKept
    AddressesAreKept
    OutpointsMatchPool
    OrphanIndexMatches
    PoolsDisjoint
    AgreesWithChain
PROPERTIES
    NotificationHandled
CHECK_DEADLOCK FALSE
