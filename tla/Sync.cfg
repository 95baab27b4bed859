SPECIFICATION MCSpec
CONSTANTS
  p1 = p1
  p2 = p2
  Peers = {p1, p2}
  Nil = Nil
  t1 = t1
  Blocks <- MCBlocks
  Genesis = 0
  Prev <- MCPrev
  Checkpoints <- MCCheckpoints
  Txs = {t1}
  FirstTips <- MCFirstTips
  Mined <- MCMined
  Submitted = {1, 2, 5, 8}
  FullNodes = {p1, p2}
  Witness = {}
  SegwitActive = FALSE
  RecentHeight = 3
  MaxInvPerMsg = 1
  MaxBlocksPerMsg = 1
  MaxBlockHeadersPerMsg = 1
  minInFlightBlocks = 2
  maxRequestedBlocks = 10
  maxRequestedTxns = 10
  maxRejectedTxns = 2
  MaxLeaves = 1
INVARIANTS
    HeadersFirstIsSafe
    RequestedIsOnItsWay
    ProtocolPeersAreKept
PROPERTIES
    SyncCompletes
CHECK_DEADLOCK FALSE
