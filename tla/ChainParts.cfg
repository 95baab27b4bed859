CONSTANTS
    Hashes <- MCHashes
    PrevBlock <- MCPrevBlock
    MaxOrphanBlocks = 3
    Hour = 1
    MaxTime = 3
    NoOrphan = NoOrphan
    level0MaxEntries = 2
    MaxLevel = 4
    MaxEntries = 20
    IdxBlocks <- MCIdxBlocks
    IdxGenesis = "g"
    IdxPrev <- MCIdxPrev
    Spends = {"b1"}
    ScanIncrement = 2
    MaxFailed = 1
    Nodes <- MCNodes
    NodeParent <- MCNodeParent
    NoNode <- MCNoNode
    MinerConfirmationWindow = 2
    RuleChangeActivationThreshold = 2
    medianTimeBlocks = 3
    Changes <- MCChanges
    VersionBits = {1, 2}
    NodeVersions <- MCNodeVersions
    NodeTimes <- MCNodeTimes
SPECIFICATION PartsSpec
INVARIANTS
    PoolBounded
    MapsAgree
    PointerIsOldest
    AddressEntriesAreKept
    IndexesAreSound
    RuleChangesAreSound
PROPERTIES
    StartEnds
CHECK_DEADLOCK FALSE
