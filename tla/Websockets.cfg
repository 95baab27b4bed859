CONSTANTS
    Servers = {s1}
    WebsocketSendBufferSize = 3
    MaxNtfns <- ManagerTells
    MaxRequests = 2
    c1 = c1
    c2 = c2
    Clients = {c1, c2}
    Blocks <- BlockSet
    parentOf <- Parents
    txsOf <- BlockTxs
    Txs <- TxSet
    insOf <- TxIns
    outsOf <- TxOuts
    MaxInvPerMsg = 2
    MaxQueued = 3
SPECIFICATION Spec
INVARIANTS
    NotificationsAreRight
PROPERTIES
    ClientsComeAndGo
CHECK_DEADLOCK FALSE
