SPECIFICATION MCSpec
CONSTANTS
    b1 = b1
    b2 = b2
    r1 = r1
    r2 = r2
    Blocks = {b1, b2}
    Size <- MCSize
    maxBlockFileSize = 2
    maxOpenFiles = 1
    Readers = {r1, r2}
    PowerLoss = FALSE
    MaxTxs = 2
    MaxFaults = 1
    TreapKeys = {1, 2, 3}
    Priorities = {1, 2}
    MaxNodes = 4
    StartKey = 0
    LimitKey = 3
    CursorKeys = {1, 2, 3}
    BucketNames = {1, 2}
    BucketKeys = {1, 2}
    MaxBucketID = 3
INVARIANTS
    BlocksAreKept
PROPERTIES
    ImplementsAtomicStore
    CommitEnds
    OrderedMapsAgree
