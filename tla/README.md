# A TLA+ model of the ParallelCoin node (p9c/node9)

`pod` is a Bitcoin-derived full node with several proof-of-work algorithms, with a
wallet and RPC clients beside it. This directory holds TLA+ modules for the parts of
it that keep state or agree on a format, TLC configurations that check them on small
instances, and TLAPS proofs for every instance. `PROJECT.json` maps each definition
to the lines it models and lists runs, mutants, findings, hazards and theorems.

    tlc -config ChainReorg.cfg MCBranches        # a run
    tlapm BlockChainProofs.tla                   # a proof module

## 1. The system

| Component | State | Operations | Talks to |
|---|---|---|---|
| **Block chain** (`pkg/chain`: chain, process, accept, blockindex, chainview) | block index with a status per node and a dirty set; best-chain view; work sums | `ProcessBlock` -> `maybeAcceptBlock` -> `connectBestChain` -> `reorganizeChain`, `processOrphans` | database transactions; notifications to the sync manager with the chain lock released |
| **Block orphan pool** (`pkg/chain/chain.go`) | `orphans`, `prevOrphans`, `oldestOrphan` | `addOrphanBlock`, `removeOrphanBlock`, expiry, eviction | called by `ProcessBlock` and `processOrphans` |
| **Utxo set and chain state** (utxoviewpoint, chainio) | utxo bucket, spend journal, index rows, hash index, best state | `connectTransactions`, `disconnectTransactions`, `dbPutUtxoView`, `initChainState` | ffldb |
| **Validation** (validate, scriptval, difficulty, ...) | none | `checkBlockSanity`, `checkConnectBlock`, `CheckTransactionInputs` | utxo views, script engine |
| **Deployments** (thresholdstate, versionbits) | a cache of threshold states per change | `thresholdState`, `CalcNextBlockVersion`, the two warnings | block index |
| **Optional indexes** (`pkg/chain/index`) | one tip and one drop mark per index, the block ids, the levels of an address | `Init` (catch up, roll back), `ConnectBlock`, `DisconnectBlock`, drops | called inside the chain's transactions |
| **Memory pool** (`cmd/node/mempool`) | `pool`, `outpoints`, `orphans`, `orphansByPrev` under one lock | `ProcessTransaction`, `ProcessOrphans`, `RemoveTransaction`, `RemoveDoubleSpends`, `RemoveOrphan`, `RemoveOrphansByTag`, `MaybeAcceptTransaction` | reads the chain; called by sync manager, RPC server and peer handler |
| **Sync manager** (`pkg/chain/sync`) | sync peer, headers list, requested blocks and transactions (global and per peer) | one `blockHandler` goroutine over a message channel; `handleBlockchainNotification` | chain, mempool, peers |
| **Peer** (`pkg/peer`) | queues, pending deadlines, the quit channel | `inHandler`, `queueHandler`, `outHandler`, `stallHandler`, one goroutine each | the network, the server |
| **Server** (`cmd/node/rpc/server.go`) | lists of peers, groups, bans | `PeerHandler`, `OnGetData`, `RelayInventory`, `Stop` | peers, connection manager, sync manager |
| **Connection manager, address manager** | pending, connected and failed requests; new and tried buckets with counters, a file | `connHandler`; `AddAddress`, `Good`, `savePeers`, `loadPeers` | server, disk |
| **ffldb** (`pkg/db/ffldb`) | block files with a write cursor, leveldb, a treap cache, open file handles | transactions, cursors, buckets, cache flush, `reconcileDB` | disk |
| **RPC server** (`cmd/node/rpc`), **wallet RPC** (`pkg/rpc/legacy`) | tables of handlers; per websocket client queues and filters; the notification manager's maps | `ServiceRequest`, notifications, rescans | everything |
| **RPC client** (`pkg/rpc/client`) | request list, connection, registrations | `sendRequest`, handlers for in, out and reconnect, `Shutdown` | an RPC server |
| **Script engine** (`pkg/chain/tx/script`) | stacks, position, conditionals of one run | opcodes, `Step`, `Execute`, signing | - |
| **Wire** (`pkg/chain/wire`), **JSON types** (`pkg/rpc/btcjson`) | a free list of script buffers; the registered commands | encode, decode | - |
| Fee estimator, mining, controller and workers, wallet store, configuration | - | - | not modelled, see section 7 |

### What is hard here

* A call of `ProcessBlock` is not atomic: it is a dozen database transactions, and
  `connectBlock`, `disconnectBlock` and `maybeAcceptBlock` release the chain lock to
  send a notification. Readers see every intermediate state, and the process can die
  in any.
* ffldb flushes its cache when it wants to, so a crash loses a suffix of the
  committed transactions; blocks and metadata are written to different files.
* This fork of btcd calls `checkConnectBlock` and `connectBlock` for *every* block,
  also for one whose parent is not the tip, and then compares work sums of two blocks
  instead of whole chains. Whether the bookkeeping survives that is not obvious.
* The memory pool is changed by three goroutines while the chain moves, and the
  notification of one block is four pool calls per transaction.
* A download depends on what several peers announce, answer and fail to answer, and
  goes on only if each batch leads to the next request.
* Peers, websocket clients and the RPC client are bundles of goroutines with bounded
  channels that end in any order.
* An index is created, rolled back and dropped over many transactions and many runs
  of the program, each of which may enable other indexes.
* Client and server, and the two ends of a connection, describe the same format twice.
* Pools at their limits, pointers and caches that outlive what they point to.

`PROJECT.json` ("hazards") lists these at their lines, with the properties that would
catch each of them, or the reason why none does.

## 2. Modules

| Module | Models | Uses |
|---|---|---|
| `UtxoSet` | the block tree as constants; connecting and disconnecting a block on a set of unspent outputs; `checkConnectBlock`; a reference definition `UtxoOf` | - |
| `OrphanPool` | the block orphan pool with its callers reduced to what they do to it | - |
| `BlockChain` | `ProcessBlock` from its first check to its return, with index, best chain, database, crash and restart | `UtxoSet`, `OrphanPool` (INSTANCE) |
| `Ledger` | the abstract specification: what the database promises about the main chain | `UtxoSet` |
| `TxPool` | the memory pool and the handler of chain notifications, on a chain that is the `Ledger` | `Ledger` |
| `Deployments` | the threshold states and their caches | - |
| `Indexes` | the index manager with its indexes; in its second part the levels of one address | - |
| `SyncManager` | the block handler, the remote peers and the messages between them | - |
| `Connections` | connection manager and peer lists | - |
| `AddrManager` | new and tried addresses, their file; local addresses | - |
| `PeerConn`, `ServerPeer`, `PeerGoroutines` | the goroutines of a peer; getdata and the stop of the server; each of them on its own | the first two |
| `BlockDB`, `AtomicStore` | a transaction of ffldb from begin to flush, readers, crashes; what it promises | `AtomicStore` (INSTANCE) |
| `DbCursor`, `Treap` | iteration over three layers and nested buckets; the ordered maps | - |
| `WsClient`, `WsNotify` | the goroutines of a websocket client; who is told what, and rescans | - |
| `RpcClient` | requests, connections and goroutines of the RPC client | - |
| `Wire`, `WireTx` | every message of the protocol, frames, transactions and blocks | - |
| `BtcJson`, `RpcCalls`, `RpcServers` | registered commands and their marshalling; the calls of the client; who answers what | each other |
| `Script`, `ScriptEngine` | items, numbers and opcodes; the run of an engine, signing and counting | `ScriptEngine` uses `Script` |
| `MC...` | instances for TLC; `MCCodec` (wire, RPC) and `MCEncodings` (scripts) also state the properties of pure functions | |
| `SliceLemmas`, `BlockChainProofs`, `UtxoProofs`, `PoolProofs`, `NetworkProofs`, `SyncProofs`, `RpcClientProofs`, `BlockDBProofs` | theorems, section 5 | the module each is named for; `PoolProofs` the memory pool and the orphan blocks, `NetworkProofs` the connections, the addresses and the peers |

### How the state and the steps correspond to the code

**UtxoSet.** Blocks, transactions and outputs are opaque. The constants say which
transactions a block has, what they spend and create, and which blocks pass the checks
that do not depend on the unspent outputs (`Sane` for `checkBlockSanity` and the
checkpoint test, `RulesOK` for fees, subsidy, signature operations, lock times and
scripts). A view and the utxo bucket are functions from outputs to entries. What the
code computes transaction by transaction is stated for the block as a whole; order
matters in two places, an output that is spent in the block that creates it
(`InFlight`) and the fact that transactions are undone last first
(`DisconnectTransactions`). `TreeAssumption` says that a block is one higher than its
parent and that `Ancestors` is what following parents gives; `TxAssumption` that
transactions have distinct outputs, every block has a coinbase, and the marks for nil
and spent entries are not entries.

**OrphanPool.** `oldestOrphan` points to a record, but is used by hash, so it is
modelled as the hash and the expiration of the record. It is not cleared when the
orphan leaves in another way and can be stale, which is modelled. `Without` is the
loop of `removeOrphanBlock` over the slice of a parent. `Tick` is the clock.

**BlockChain.** There is one caller of `ProcessBlock`, the block handler (peers,
miners and `submitblock` go through it). `pc` names the next step of the call:

| pc | Step | Code |
|---|---|---|
| idle | `ProcessRejected`, `ProcessOrphanBlock`, `ProcessBlock` | process.go:32 |
| accept | `RejectBlock`, `StoreBlock` | accept.go:13 |
| addnode | `AddNode` | accept.go:99 |
| check | `CheckFails`, `CheckPasses` | chain.go:1010 |
| connect | `ConnectToTip` | chain.go:1032, connectBlock |
| choose | `KeepBestChain`, `RefuseBranch`, `StartReorganize` | chain.go:1066, getReorganizeNodes |
| verify | `VerifyDetach`, `VerifyAttach`, `VerifyFails`, `VerifyDone` | reorganizeChain, check phase |
| switch | `FlushStatuses`, `DetachBlock`, `AttachBlock`, `StopReorganize` | reorganizeChain, second phase |
| reorganized | `EndReorganize` | chain.go:1104 |
| accepted | `BlockAccepted` | accept.go:113 |
| orphans | `NextOrphan`, `NextHash`, `FinishProcess` | processOrphans |
| down | `Restart` | initChainState |

`db` is the database after its last committed transaction, `disk` the part the cache
has flushed. `FlushCache` may happen at any time (dbcache flushes by size and by
time); `Crash` goes back to `disk` and loses memory; `Restart` is `initChainState`.
The peculiarities of the code are kept: `initBlockNode` adds the work of the parent
only and resets the parent's sum, `connectBestChain` overwrites the sum with the
block's own work, an error of `connectBlock` is only logged, a fast-added block that
spends anything collects its spent outputs twice and is not connected, and a failing
orphan ends the call. `GetLastWithAlgo` always returns nil at this commit
(blockindex.go:259), so the contextual checks that depend on it do not run for received
blocks (accept.go:44-81), and the model has none: neither the rule that a timestamp is
after the median time of the parent nor the rule that a coinbase commits to its height.

**Ledger.** `Extend` (one sane and valid block on top of the best one), `Rewind` (one
block), `Save`, `Recover`. The unspent outputs are always `UtxoOf` the chain. `BlockChain`
implements it under `best <- db.tip, coins <- db.utxo, saved <- disk.tip` and `repeated`,
which says that a block was accepted whose coinbase transaction an earlier one has already;
from then on (`Void`) the ledger promises nothing, see section 6.

**TxPool.** Every pool call holds `mp.mtx` and is one step, except `processOrphans`,
which reads the chain once per orphan it tries: it is one step per output, and the
chain may move in between. `step` and `todo` are where `handleBlockchainNotification`
is: for a connected block RemoveTransaction, RemoveDoubleSpends, RemoveOrphan,
ProcessOrphans per transaction, for a disconnected one MaybeAcceptTransaction and, on
an error, RemoveTransaction with redeemers. The RPC server can call
`ProcessTransaction` between any two of them. Abstractions: a transaction either
passes the checks before its inputs are fetched (`Clean`) or not, and those after
(`ScriptsOK`) or not; none is too large for the orphan pool or below the relay fee;
which orphans have expired is left open; recently rejected transactions are not
remembered (that only turns more of them away).

**Deployments.** A change is a deployment or a warning for a bit; both are checkers
with a cache. `thresholdState` walks back to a cached window and forward again, filling
the cache. Callers (rules, miner, warnings) ask for any node of a chain that grows on
two branches, in any order. Versions and timestamps are chosen at the start, and the
timestamps in any order, so median times may fall along a branch.
`CalcNextBlockVersion` has no caller in the repository and is modelled as one more
question.

**Indexes.** A run of the program enables some indexes and may ask for a drop. Each
database transaction of `Init` and of a drop is a step, and the program can stop
between any two. The chain grows and reorganizes while it runs, with the indexes that
are enabled. One address is paid by every block, one entry is deleted per transaction
of a drop, and the three buckets of the filter index are one. The second part is the
level scheme of `dbPutAddrIndexEntry`, `dbRemoveAddrIndexEntries` and
`dbFetchAddrIndexEntries` against the plain list.

**SyncManager.** A remote peer runs the same program: it answers from its own chain
in order, announces, and remembers `continueHash`. `link` holds the messages on their
way. The chain is the set `have` with its tip and orphans; `chainTakes` is what
`ProcessBlock` does to them. A block that extends the tip becomes the tip; whether one of
a side chain does is a choice (`TipsAfter`), since the code compares the work of single
blocks and not heights (chain.go:1066). `Handle` takes the next message of a peer, whatever
its type. A remote node that is not current does not answer getheaders (server.go:1791).
Blocks of the node itself come at any moment, headers-first mode or not. What `limitMap`
evicts at its limit is a choice. `fellBack`, `handedIn`, `blamed` and `wasCurrent` are
observations: the tip fell back below the next checkpoint, a block was handed in below it,
who was disconnected and for what, and whether a peer has answered every getheaders.

**Connections, AddrManager.** Requests and peers are numbers. `connHandler` and
`PeerHandler` take from their channels in any order select allows; dials, timers and
the end of a peer are steps of their own. Which addresses are bad and which is oldest
is a choice, because timestamps come from others. Buckets are given by constants.

**PeerConn, ServerPeer.** One step per receive, send or write of each goroutine; a
channel is its contents. `quit` is enabled in every select that has it. The remote
peer answers or does not. The requests of the model are of one class, and as in the code
the class has one deadline (`pendingResponse`): a request sets it, a later one pushes it
on, and the first answer takes it away for all of them. `excused` is an observation: the
requests that were unanswered when an answer to another one did so.

**BlockDB.** `tx.stage` is where a write transaction is: pending blocks written to
the files record by record, the write cursor, the cache, a flush with its own batches.
A write fails part way at most `MaxFaults` times. `Die` forgets memory (and, with
`PowerLoss`, what was not synced); `reconcileDB` compares the cursor row with the files.
A file that is shorter than the offset of a write or of a truncation is filled up with
zeros (`Resize`), which only a power loss makes possible. A reader takes the leveldb snapshot and the
cache in two steps, as `dbCache.Snapshot` does. It implements `AtomicStore` under
`state <-` leveldb under the cache, `saved <-` what leveldb has, and `view <-` how far each
reader is and what it sees. A reader of `AtomicStore` begins and opens in two steps too:
if nothing was saved in between it sees `state`, else it may miss what was saved meanwhile,
and that only (`MaySee`).
`DbCursor` merges layers with `skipPendingUpdates` and `chooseIterator`; `Treap` is a
heap of nodes with the rotations of the code.

**WsClient, WsNotify, RpcClient.** One step per channel operation. In `WsNotify`
outputs pay addresses of several kinds, and what a client is told is compared with what
it watches; the rescan fetches ranges, finds reorganizations and pauses the sync
manager as the code does. In `RpcClient` connections are numbered, and the handlers of
an old connection read the current one, as the code does. `again` is an observation: how
many `resendRequests` goroutines had not yet copied the list when a request was added.

**Wire, BtcJson, scripts.** A message is a list of fields with widths, counts and
limits, once as its encoder writes it and once as its decoder reads it. A command is
its registered fields with kinds and defaults. A script item is a sequence of small
bytes or an opaque term for a hash, key or signature. Their MC modules choose an input
and then evaluate; they have no other state.

## 3. Runs

All runs are exhaustive within their bounds. Where several machines share a run, a
variable chosen at the start says which one moves; the others rest. Some properties
that a run checks are conjunctions of named parts, each a property of its own with a
comment at its definition; the table has the parts in brackets, and TLC reports the
part that fails when it is put in the configuration alone.

| Run | Shows |
|---|---|
| `chain_reorg` | six blocks, two branches above a common block, two reorganizations, a block that spends in a chain within itself, crash and restart at any step; and a tree with a block that repeats a coinbase. `UtxoIsReplay`: utxo bucket and journal are what the blocks of the main chain determine. `Recoverable`: every state on disk loads. `MemoryMatchesDB`: index, best chain and database agree between any two steps. |
| `chain_branches` | four trees: a block that spends an output only the other branch has, so that the second phase of a reorganization stops half way; an invalid block with descendants, pooled or not, and crashes that lose its status; fast-added blocks, insane and blacklisted ones, orphans that expire; a coinbase that is repeated. `BestStateConsistent`, `IdleIsClean`, `MainChainNotInvalid`, `ImplementsLedger`, `CallReturns`. |
| `chain_parts` | the orphan pool: `MapsAgree`, `PointerIsOldest`, `PoolBounded`; the levels of an address against a list: `AddressEntriesAreKept` (`LevelsKeepTheList`, `FetchesAsAsked`); the index manager: `IndexesAreSound` (`IndexesAreExact`, `AddrNeedsTx`, `ChainIsNotHeld`, `KnownFailures`) and `StartEnds`; the rule changes: `RuleChangesAreSound` (`StatesFollowTheBranch`: a cached state is the one a walk from the genesis gives, `RulesStayEnforced`, `WarnedForACause`). |
| `sync` | six scenarios: a plain download in batches of one, transactions, a peer whose chain leaves out a checkpoint, one whose chain ends before it, two chains of one height, and blocks that are handed in locally at any moment. `RequestedIsOnItsWay` (a mark never outlives its request), `HeadersFirstIsSafe` (`TypeOK`, `HeadersFirstHasSyncPeer`, `FastAddedUnderCheckpoint`), `ProtocolPeersAreKept`, `SyncCompletes`. |
| `database` | two blocks over files of two records, one open file; a failing write or two readers. `BlocksAreKept` (`BlockDBTypeOK`, `IndexedBlocksAreWhole`, `ReadsSucceed`, `NeverCorrupt`), `ImplementsAtomicStore`, `CommitEnds`; treaps (four nodes share the versions of the cache's, the pending one has three), walks of a cursor and buckets: `OrderedMapsAgree` (`SearchTrees`, `SnapshotUnchanged`, `IteratorKeepsItsPlace`; `WalkVisitsAll`; `NewBucketsAreEmpty`). |
| `network` | two hosts of one group, one of them permanent, three connections, one inbound: `ConnectionsAreKept` (`SlotsAreKept`, `OnePeerPerRequest`, `GroupsAreCounted`); three addresses in buckets of one, and every set of local addresses: `AddressesAreKept` (`AddressesAreAccounted`, `BucketsAreBounded`; `SuggestsTheBest`). The memory pool with six transactions (a chain of three, one that joins two of their outputs, a conflict, a bad signature), two peers and five blocks on two branches: `OutpointsMatchPool` and `OrphanIndexMatches` (the indexes of both pools are exact, no double spend), `PoolsDisjoint`, `AgreesWithChain` (a pool transaction contradicts the main chain only as long as the notification is being handled), `NotificationHandled`. |
| `peers` | a peer with two requests of one class and a reject; getdata with up to four entries; the stop of the server. `MessagesKeepOrder` (`OneInFlight`, `SignalledOnce`, `DeadlinesAreOwed`; `ChannelsHoldOne` for getdata) and `EverythingEnds` (`PeerWindsDown`, `StalledPeersLeave`; `GetDataReturns`; `StopsWithRoom`). |
| `websockets` | one client with one serving goroutine; the manager with two clients; a rescan over five blocks on two branches. `NotificationsAreRight` (`NtfnsKeepOrder`; `MapsAgree`, `GoneAreForgotten`, `ScansAgree`; `RescanIsComplete`) and `ClientsComeAndGo` (`NotifierGoesOn`, `GoneIsRemoved`). |
| `rpc_client` | two connections, two requests and a registration, in the three modes of the client. `NothingTwice` (`AnsweredOnce`, `RepeatedOnlyByReconnects`), `ClientGoesOn` (`RequestIsAnswered`, `ShutdownEnds`). |
| `encodings` | every message at the boundaries of its lists and at the versions at which its layout changes, cut and spoiled frames, transactions with and without witness; every command and every call of the client against both servers; scripts of all short forms under two sets of flags, signers in any order, hash types. `WireAgrees`, `RpcAgrees` (both in `MCCodec`) and `ScriptsAgree` (in `MCEncodings`) have 10, 7 and 12 parts, and each part compares two pieces of code: writer and reader, client and server, counted and made checks. |
| `claim_most_work_is_best` | expects a violation: chain.go:976 says that the chain which "cumulatively has the most proof of work" is selected; the code compares the work of one block (and its parent). |
| `claim_snapshot_is_one_point` | expects a violation of `SnapshotsAreOfOnePoint`: dbcache.go:359 says that `Snapshot` is one "at a particular point in time"; a reader that begins before a flush and opens after it has the last transaction without blocks of an earlier one. |

### Bounds

`BIP0034Height = 10` is above every tree, so `checkBIP0030` always runs in the chain
runs; maturity 1 lets the next block spend a coinbase. The trees are chosen so that
each action and each disjunct fires; a bigger tree adds repetitions of the same steps,
and the safety properties that matter most are proved for every tree (section 5). The
orphan pool has five blocks, limit 3, lifetime 1 and a clock up to 3: expiry, eviction,
an eviction that hits a stale pointer, an orphan that comes back. Address levels have a
base of two entries, five levels and at most 20 entries, so level 2 fills and empties
several times. Indexes: six blocks on two branches, one of which spends; batches of two
when dropping; one failed commit. Deployments: a window of two, so three states in a
row need six blocks; nine nodes on two branches, two changes, two assignments of versions
and two of timestamps, one of which lets the median times fall behind the end of one change
and the start of the other. Sync:
batches of one make every batch a boundary; the request maps stay below their limits
(above them `ProtocolPeersAreKept` is false, see section 6). BlockDB: a file holds two
records, so every second block opens one. Peers: a queue of two, two requests that share a
deadline and a message with a waiter. A ping has no deadline (peer.go:972) and no waiter, so
it is queued and written like these and the run does without one. The send buffer of a websocket
client is three with one server, because the code has 50 for 20 servers: what matters
is that everyone who has found the client connected has room, which the assumption of
`WsClient` states. Numbers in scripts have two bytes (four in the code), lock times
three (five), and the limits are scaled with them.

Runs that may stop say `CHECK_DEADLOCK FALSE`: clocks end, numbers run out, peers leave
for good, a machine shuts down. `chain_reorg`, `chain_branches` and `database` check
for deadlock.

## 4. Fairness

* `BlockChain`: weak fairness of the goroutine in `ProcessBlock` (it only waits for the
  chain lock, which readers hold briefly) and of `Restart`. Nothing obliges anyone to
  submit blocks.
* `TxPool`: weak fairness of the notification handler and of the holder of `mp.mtx`;
  only finitely many transactions can enter between two of its pool calls.
* `SyncManager`: the block handler takes the messages of every peer in turn (one
  channel), a connected peer answers, and a handshake ends. Leaving, mining and
  announcing are not fair. `SyncCompletes` assumes in addition that only sync peers
  leave, that an orphan is not at the end of a batch, that the sync peer's chain has the
  checkpoints and it is current whenever it is asked for headers, and that no block is handed
  in below a checkpoint; section 6 says what happens otherwise.
* `BlockDB`: strong fairness of the writer, whose file mutexes do not starve it (Go's
  mutexes hand over after a millisecond); reads end.
* `PeerConn`, `ServerPeer`: goroutines that can run do, timers fire, and select, which
  chooses at random among the ready channels, does not pass over a closed one for ever
  (strong fairness of the quit cases). Nothing is assumed of the remote peer:
  `StalledPeersLeave` says that a request which is never answered costs the peer its
  connection, unless an answer to another request of its class took the deadline away.
* `Indexes`: the start goes on unless it is stopped. `RpcClient`, `WsClient`: each
  goroutine goes on when it can, and the server answers; callers, users and the
  network need not act.

## 5. Proofs

Everything below holds for every finite block tree, every contents of its blocks, any
transactions, peers, requests and limits that satisfy the assumptions that the modules
name (`TreeAssumption`, `TxAssumption`, `PoolAssumption`, `ChainAssumption`,
`TxPoolAssumption`, `ConnectionsConstants`, `AddrManagerConstants`, `PeerConnConstants`,
`ServerPeerConstants`, `SyncAssumption`, `SyncTreeAssumption`, `ClientAssumption`,
`BlockDBConstants`, `DeploymentsAssumption`), which TLC evaluates in every run
whose module extends theirs. `SyncTreeAssumption` says of the
computed heights and ancestors what makes `Prev` a tree with one root, as the hash of the
parent in each header does, and that the last checkpoint is the highest, as
params-defs.go:161 asks ("Checkpoints ordered from oldest to newest"). `DeploymentsAssumption`
numbers the nodes of the block index in the order they were added, a parent before its
children. Of versions and timestamps it assumes nothing but their types, and nothing is
assumed of coinbases: no theorem has a rule as its hypothesis that received blocks do not meet.

| Module | Theorems | Invariant |
|---|---|---|
| `SliceLemmas` | what filtering a slice keeps, by induction on its length; queues | - |
| `BlockChainProofs` | `MemoryAlwaysMatches`, `AlwaysRecoverable`, `MainChainNeverInvalid`, `IdleIsAlwaysClean`, `ChainTypes`, `BestStateAlwaysConsistent`; `UtxoIsAlwaysReplay`, `ChainImplementsLedger`; `RuleChangesStaySound` | `ChainInv`, `TypeInv`; `LedgerInv`; `DeployInv` |
| `UtxoProofs` | lemmas on connecting and disconnecting a block | - |
| `PoolProofs` | `MapsAlwaysAgree`, `PointerAlwaysOldest`, `PoolIsBounded`, `OvershootAlwaysClears`, `PoolTypes`; `NoDoubleSpendInPool`, `OrphanIndexIsExact`, `OrphanTxsAreBounded`, `PoolsStayDisjoint`, `TxPoolTypes`, `PoolAlwaysAgreesWithChain` | `PoolInv`; `TxPoolInv`, `AgreeInv` |
| `NetworkProofs` | `ConnectionsAlwaysKept`, `RequestsNeverCancelled`; `AddressesAlwaysKept`, `SavedPeersAlwaysLoad`; `MessagesAlwaysKeepOrder` | `NetInv`; `AddrInv`; `GoroutinesInv` |
| `SyncProofs` | `RequestedAlwaysOnItsWay`, `HeadersFirstStaysSafe` | `SyncInv`, `FirstInv` |
| `RpcClientProofs` | `CommandsNeverRunTwice` | `ClientInv` |
| `BlockDBProofs` | `BlocksAreAlwaysKept`, `DBImplementsAtomicStore` | `DBInv`, `MetaInv` |

**Orphan pool.** `PoolInv` is the conjunction of the properties and
`NothingFromTheFuture` (an expiration is at most an hour away), without which a new
orphan might be older than the pointer. The bound rests on two cases: below the limit an
add makes the pool larger by one; at the limit it evicts what the pointer names, which
is pooled unless the pointer is stale, and then the add clears the pointer, so that the
next one picks a pooled orphan. The filter of `removeOrphanBlock` is a recursive
function; its lemmas go by the least counterexample (`LeastNatural`).

**Block chain, memory and database.** None of the four properties is inductive, and they
need each other and the middle of a call: `NodeOK` (a node is added only after its block
is stored and its parent indexed, and a block being checked is not on the main chain
yet), `ReorgOK` (the second phase attaches only blocks that the check phase found valid,
and no block that is to be detached), `DirtyOK` (statuses wait for a flush only during a
reorganization), `OrphansOK` (what is pooled is not indexed), and `DBOK` of both `db` and
`disk`, so that a crash goes back to something good. `TypeInv` adds the types of
everything else, and `CountOK`, that the transaction count of the best state is the sum
over the chain; the sum changes by one block's transactions because the ancestors of a
block are those of its parent and itself.

**Unspent outputs, and the refinement of `Ledger`.** The utxo bucket is `UtxoOf` the
chain, and the journal is what undoes each block. Both directions of a step are lemmas of
`UtxoProofs`: connecting a block is one step of the replay, and disconnecting it with its
journal entry gives back the state before. The second is true only on a chain on which no
transaction appears twice and no output is spent twice (`GoodChain`, part of
`LedgerOK`). That the main chain is one does not follow from what the code checks. Two
blocks may have the same coinbase transaction: the rule that a coinbase commits to its
height is part of the contextual checks that are not reached, and `checkBIP0030`, which
looks for such outputs, is skipped from `BIP0034Height` on. So the statements except
exactly that: `CoinbaseRepeated` says that among the accepted blocks two of different
heights have a coinbase in common. An accepted block is forgotten only by a crash, so this stays true until one, and
`LedgerInv` says of the flushed part what it says of the database, each for the blocks
accepted in it. As long as no coinbase is repeated, `NoReplay` follows block by block: an
input of a repeated transaction is missing, and only a coinbase has no input. `StatusSound`
bridges the peculiarity that a block may be marked valid while it was checked on top of
another tip: what `checkConnectBlock` found then and does not depend on the tip (`Sound`),
and the fact that no input is missing when the block is attached, are together what the
check would say now. The refinement maps `AttachBlock` and `ConnectToTip` to `Extend`,
`DetachBlock` to `Rewind`, a flush to `Save`, `Crash` to `Recover`, everything else to a
stutter.

**Rule changes.** `StateOf` looks at a whole branch at once: the windows of it that have
started, and the first of them with enough votes. `thresholdState` goes back to a window it
knows, or one before the start knows, or one before the start time, and forward again. The two agree because the state of
`StateOf` moves from one window to the next as `NextThreshold` does (`StateStep`), and because
both forget what lies before a window whose median time is before the start: a walk that
stops there does not look at the windows before it, whatever is cached of them. Median
times need not rise for this, and nothing makes them. The walk, the
heights and the branches are recursive functions, proved to exist by `TreeRecursion` over the
ranks of the nodes. `DeployInv` then says that a cache holds nothing but ends of windows, each
with the state of its branch, so it does not matter who filled it: also not that the count of
unexpected versions asks, in the middle of one change's count, for the states of all others
(`AskedForIs`, on the fold over the blocks asked for in whatever order).

**Memory pool.** `TxPoolInv` holds the types and the exactness of the indexes; removal is
proved for any set of transactions, so nothing depends on how far `removeTransaction`
recurses. For the agreement with the chain, `AgreeInv` says in addition that the chain is
a good one and blocks list a transaction after those it spends (`GoodLedger`), that the
handler still has exactly the last transactions of the block before it (`TodoOK`), and that
the transaction just removed does not come back before its double spends are gone
(`HeadGone`): what it spends cannot be found any more, by whichever goroutine.

**Connections.** That no outbound slot is lost needs to know who holds a request: a peer
that is up, the word of its end on the way to `PeerHandler`, or the call of `Disconnect`
on its way to `connHandler`, and only one of them at a time (`HoldersOK`). It follows that
`connHandler` never cancels a request that it is still trying (`RequestsNeverCancelled`),
the case in which a slot would go for good. `ListsOK` says that a peer waits to be listed
or is listed, once, so that a group is counted up and down once.

**Address manager.** `KnownOK` ties the index to the buckets: which new buckets hold an
address is what it counts as references, and a tried address is in the bucket its key
hashes to and in no other, which the property does not say and an eviction needs.
`updateAddress` and `Good` each change two things, and in between a part of it is
suspended: an address that has just joined the index is in no bucket, and a full tried
bucket holds one too many (`KnownBut`). The file holds neither references nor counters;
`ReadBack` shows that `deserializePeers` finds the same ones again, so that `loadPeers`
never throws away what `savePeers` finished (`SavedPeersAlwaysLoad`). The best local address is a recursive walk; that
it ends at the best one, in whatever order, is proved by induction over the naturals
stated for a set (`NaturalsByInduction`).

**Peers and getdata.** A message that was queued and is not done with is in exactly one of
the output queue, `pendingMsgs`, `sendQueue` and the hands of `outHandler` (`PlacesOK`),
which is why whoever waits for it is signalled once. `waiting` says whether `outHandler`
has a message: it has one at most, and while it has none nothing is pending (`WaitingOK`).
So, until the peer is disconnected, what was written followed by what those places hold,
in that order, is what was queued (`LineOK`); after that only that what was written is a
beginning of it. A deadline of `stallHandler` is there only while a request is at the remote peer, about
to be written, or answered on the way, the answer of an `inHandler` that has not told
`stallHandler` yet included (`DeadlineOK`). For getdata, a channel
is given away once: that of an entry when the loop passes it, `doneChan` with the last entry
or, when something was not found, with the notfound message (`Given`). It has its signal, or one message on the way
that will give it, or neither (`TokensOK`), and so `outHandler` never blocks on one.

**Sync manager.** That a mark never outlives its request needs to know who carries it: a
peer the manager knows, with the mark in its own state, that still has the getdata to
answer, has answered it with the block on the way, or is closed, in which case
`handleDonePeerMsg` takes the mark away (`MarksOK`). A newpeer message is the first of its
peer and comes while the peer is unknown (`NewcomersOK`), so the state of a known peer, and
with it a mark, is never overwritten. Whatever `limitMap` evicts, only marks go. What the
recursive walks over an inventory, a getdata and a header list keep is proved by induction
over naturals stated for a set, as for the address manager.

A block that is first on the header list is processed without validation, and the list
does not say who filled it. Why it is always an ancestor of a checkpoint takes `FirstInv`:

* headers are asked of the sync peer only, and one request or answer is under way at a
  time (`FlightOK`), so headers always meet the list they were asked for, and a peer that
  was sync peer before has none left to send;
* the list is linked, and it is in one of two stages (`ListOK`): headers are still
  collected, and no block has been asked for yet; or it ends in the next checkpoint, what
  was asked for comes before `startHeader`, and no more headers come;
* below the next checkpoint nothing but the list says which blocks are asked for
  (`OnlyListed`), because `handleInvMsg` keeps no inventory of a block in this mode.

A block that is added fast is the head of a list of the second stage, and linked to its
end. When the sync peer goes, `resetHeaderState` throws the list away before another one is
asked; a checkpoint that a peer contradicts ends that peer, not the mode.

**RPC client.** A request is on the pending list once, and it is there only as long as
it is unanswered (`PendingOK`, `AnsweredOnce`). How often it can still be executed is counted by
where it is: in the channels, on the wire, and in the copy of the list that a
`resendRequests` goroutine works through (`CopiesCounted`). A new connection adds one
such goroutine, and with it one to the bound, which therefore is one, one for each
connection made since the request, and one for each goroutine that had not copied the list yet.

**Block database.** A row of the metadata stays readable because nothing is written,
deleted or truncated below one position of the files, and all that is listed lies below
it: `Safe`, where a rollback would go back to. It is the write cursor while no blocks are
being written, the cursor before the first block while they are, the target of a
rollback while one runs, and the cursor row of leveldb when the program is down, which is
where `reconcileDB` goes back to. `DBInv` says so of the rows of leveldb and of the cache
(`MetaOK`), of the write transaction, whose pending rows lie below the write cursor
(`TxOK`), and of what a reader sees and has open (`ReadsOK`); `CursorOK` says that the
next write leaves no hole in the files. None of it can be left out: a step such as
`CommitToCache` turns pending rows into rows of the cache, and a crash in a
rollback leaves a target from leveldb. `BlocksAreAlwaysKept` has the hypothesis
`~PowerLoss`: the blocks of a full file are never synced (blockio.go:277), so a power
loss may take them and the statement is false then. `DBImplementsAtomicStore` has no
hypothesis. Its invariant, `MetaInv`, is about the metadata only: the three stages of a
flush (`sync`, `flush`, `clear`) leave the view through the cache as it is, a commit writes
one row more than the view it began with (`count`), and a cache that is written through is
empty. `CommitToCache` and `WriteThrough` map to `Committed`, `FlushToDB` and
`Close` to `Save`, `Die` to `Lose`, the two halves of a snapshot to `Begin` and `Open`, the
end of a reader to `End`, every other step to a stutter. For `Open` it has to be known that
what leveldb has gained since the reader began is all that its view may lack.

The invariants were model-checked before they were proved, each over the states of the run of
its module: 270,360 of `chain_reorg` and 80,705 of `chain_branches` for `LedgerInv`, 516,601 of
`network`, 129,350 of `peers`, 40,120 of `sync`, 303,934 of `database`, 232,910 of
`chain_parts`, 146,463 of `rpc_client`, and `MetaInv` in an instance with power losses too.
What a theorem of types states is no longer among
the properties of a run.

**Only model-checked.** Liveness under fairness is beyond the prover, and so is what a
recursive definition computes for every input: the levels of an address, the filter and
the drops of `Indexes` (`AddressEntriesAreKept`, `IndexesAreSound`), the treap and the cursor (`OrderedMapsAgree`), what a
rescan finds (`NotificationsAreRight`), the codecs and the scripts (`WireAgrees`, `RpcAgrees`,
`ScriptsAgree`). Of `SyncManager`, `ProtocolPeersAreKept` depends on what the network did
before, and it is false above the limits of `limitMap`.

## 6. Seen while modelling

Where the code does something other than what one would expect, the model follows the
code. Two of these have a run of their own, the first one and the snapshot of the database.

*Chain.* Chain selection compares sums of one or two blocks (`claim_most_work_is_best`).
reorganizeChain's check phase says it catches failures "before ever modifying the chain"
(chain.go:859), but blocks that were found valid against another tip are not checked
again, and an attach that fails leaves the chain shorter (chain.go:953); the database is
consistent all the same. A valid side-chain block can be marked as failed because it is
checked against the tip of the main chain (chain.go:1019). `ProcessBlock` reports a
fast-added block as on the main chain even when connecting it failed (chain.go:1060); a
failing orphan leaves its siblings in the pool although their parent has arrived
(process.go:262); the orphan pool can hold one block more than `maxOrphanBlocks`
(chain.go:284, stated by `PoolBounded`). validate.go:105 says that "duplicate coinbases are no
longer possible due to its requirement for including the block height in the coinbase", and
`checkBIP0030` is skipped on those grounds from `BIP0034Height` on (validate.go:106), which is 0
on testnet and simnet; but a received block is never asked for the height (accept.go:44-81 and blockindex.go:259), and
below that height the check looks at the outputs of the current tip also for a block of a side
chain. A block that repeats a coinbase is therefore taken: its outputs overwrite those of the
first, and when it is disconnected the first one's are gone. In the same way nothing refuses a
timestamp at or below the median time: the states of rule changes that
thresholdstate.go:169 calls terminal ("Active", "Failed") are forgotten when the median time of a
window is before the start again (`RulesStayEnforced` says so). `deploymentState` tests `>` where `>=` is meant
(thresholdstate.go:206); no caller passes such an id.

*Indexes.* A stop after the bucket of an index was deleted and before its tip was
removed makes the next start fail on a nil bucket. An index that was disabled during a
reorganization cannot be rolled back over a block that spends, since its journal entry
is gone. A failed commit leaves the block id of the transaction index too high or in
use again. cmd/node/main.go:112 says "drop indexes and exit if requested"; the code
goes on. dropIndex returns nil when listing the buckets fails.

*Memory pool.* A transaction that is submitted again before the handler reinserts it is
removed by the handler (manager.go:741); dependents of a transaction that was not
reinserted stay (manager.go:736); an invalid orphan ends the search on its output.

*Sync.* A hash that `limitMap` evicts is asked for again, and its sender is then
disconnected for an unrequested block. A block that was pending with a peer that leaves
waits for the next announcement. When the last block of a batch is already an orphan,
it is not requested and the sender never offers the next batch. A sync peer whose chain
ends before the next checkpoint stalls headers-first mode, and so does one that is not current
when it is asked for headers: the request is ignored and not repeated (server.go:1791). A block
handed in locally below a checkpoint (getwork and submitblock have no guard) makes later headers
not link, and the honest sync peer is disconnected for it: `ProtocolPeersAreKept` excepts that,
or the mode stalls. A tip that has reached the height of the next checkpoint on another branch
and falls below it mixes blocks of inventory with those of the header list;
`FastAddedUnderCheckpoint` excepts it (`fellBack`). A peer that is dropped while it
negotiates is reported gone before it is reported new and stays in the sync manager,
although server.go:857 says "Only tell sync manager we are gone if we ever told it we
existed."

*Network.* addnode "remove" disconnects a permanent peer and the connection manager
dials it again (`ConnManager.Remove` has no caller). A request that is not permanent and
fails stays pending. A new bucket holds one address more than its size.
`GetBestLocalAddress` may choose an unreachable address with a score. `OnGetData` hangs
when the last entry has an unknown type, earlier ones were found and none was missing; a
missing entry breaks its pacing. The requests of a class have one deadline in `stallHandler`,
which each later request pushes on (peer.go:976) and the first answer removes for all
(peer.go:1034): a peer that answers one of two requests owes nothing any more.
A message queued as the peer goes may leave its waiter
for good (`LostWaiter`), and `stallHandler` can end before its senders (`LostControl`):
`PeerWindsDown` excepts both. At shutdown the server hangs if the block handler has more
to relay than fits in the channel; `StopsWithRoom` is the case in which it does fit.

*Database.* `dbCache.Snapshot` takes the leveldb snapshot before the cache; a flush in
between hides from the reader what was in the cache, transactions that were committed before
it began among them, and shows it what was committed after the flush, although its comment
speaks of "a particular point in time" (dbcache.go:359-360; `claim_snapshot_is_one_point`).
`BlocksAreKept` shows that what such a reader lists is readable all the same. `Seek`, `First`
and `Last` of a treap iterator leave the key of an earlier change behind (treapiter.go:184), and
the next move starts from it; `IteratorKeepsItsPlace` excepts such a key. A cursor that turns around skips a key
(db.go:299); no caller turns. `Delete` of a treap raises the child with the larger
priority, which breaks the heap order and not the search order. A power loss can take
unsynced blocks of a full file that the metadata lists (blockio.go:277).

*RPC server and websockets.* `NotifyForNewTx` returns at the first verbose client: it
and the clients after it are not told, and those before it get an empty message first.
A rescan does not scan its end block; from a block to itself it has no last block. A
block may slip between its last look and the registration, because `Pause` returns before
the block handler is held and getwork does not go through it. `RecoverFromReorg` is not
reached. A registration that is served after the client was removed stays. A usage text
is cached without regard to who asked; limited users can start but not stop
notifications; `getwork` is listed as handled and as unimplemented, and its help fails;
`debuglevel` and nine other commands of the client have no handler on any server;
arguments behind a nil option are not sent (searchrawtransactions loses `reverse` and
`filteraddrs`, listsinceblock `minconfirms`); `walletlockstate` and `newtx` have no
matching parser. The field of parameters is tagged `netparams` instead of `params` on
both sides (jsonrpc.go:20, infrastructure.go:238).

*RPC client.* After a reconnect a request may be executed twice, be lost to the old
`wsOutHandler`, or, if it is a rescan, never be answered; an end of file is not noticed;
a refused registration leads to endless reconnects. `RequestIsAnswered` excepts these.
With three connections a request that was made on the last of them may be executed three
times: the goroutine that resends for the second may copy the list only now. The bound of
`RepeatedOnlyByReconnects` counts it (`again`).

*Wire and scripts.* `PkScriptLocs` asks only the first input for a witness where the
encoder asks all (msgtx.go:583), so its offsets are two short when only a later input has
one; `PkScriptLocsAreStarts` excepts this, and nothing but a test calls it. cfcheckpt is written without a limit and read with one; a merkleblock
at its limit of hashes exceeds its payload; a witness item of more than 11000 bytes is
written and not read; a transaction without inputs, written without witness, is misread
as one with. Signing a pay-to-script-hash output to one key twice appends the redeem
script twice (sign.go:173), and the result no longer spends it.

## 7. Not modelled

* *Fee estimator, block templates*: floating-point arithmetic over sorted samples; the
  bookkeeping of blocks registered and rolled back would be worth a module.
* *Difficulty, ban scores, chances of addresses*: floating point as well. A ban is a
  choice; a block's proof of work is a constant.
* *CPU miner, controller, kopach worker*: identical workers that hash; the receiving
  side of the multicast is a stub at this commit.
* *Wallet*: key derivation and encryption are cryptography. The transaction store
  (credits, debits, unconfirmed transactions across rollbacks) has state worth a module
  and has none yet; only the wallet's RPC commands are modelled.
* *A second caller of `ProcessBlock`* (getwork), which interleaves with the block handler
  where the chain lock is released.
* *Serialized forms of the chain state* and the v1 upgrade; bloom and Golomb filters;
  JSON syntax; help texts; configuration; logging.
* Within modelled parts, what each component's note in `PROJECT.json` says.

## 8. Plan

1. Proofs: `ProtocolPeersAreKept` below the limits of `limitMap`, `MapsAgree` of `WsNotify`.
2. `BlockChain` with two call records, for getwork.
3. The wallet's transaction store; registration and rollback in the fee estimator.
