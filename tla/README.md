# BeonPush: a TLA+ development

BeonPush is a Peercoin/NovaCoin-style node: a C++ daemon and Qt wallet with a
hybrid proof-of-work and proof-of-stake block chain and checkpoints that a master
key signs and broadcasts.  The repository holds the node (`src/BOP-base`) and a
variant of it that stores keys in MySQL (`src/BOP-mysql`, whose `main.cpp`
differs in a handful of lines).  This directory models the node's core in TLA+,
checks it with TLC and proves most of its safety properties with TLAPS.

## Inventory

| component | state | operations | who calls it | what is hard |
|---|---|---|---|---|
| Block chain (`main.cpp`) | `mapBlockIndex`, `pnext` links, `pindexBest`, `setStakeSeen`, `mapOrphanBlocks`, `setStakeSeenOrphan`, `nBestInvalidTrust` | `ProcessBlock`, `AcceptBlock`, `AddToBlockIndex`, `SetBestChain`, `Reorganize`, `ConnectBlock`, `DisconnectBlock`, `LoadBlockIndex` | the message thread ("block"), the miner, checkpoints, startup | order of arrival, reorganisation, several commits per handler, crashes between them |
| Synchronized checkpoints (`checkpoints.cpp`) | `hashSyncCheckpoint`, `hashPendingCheckpoint`, `hashInvalidCheckpoint` | `ProcessSyncCheckpoint`, `AcceptPendingSyncCheckpoint`, `ValidateSyncCheckpoint`, `CheckSync`, `ResetSyncCheckpoint`, `WriteSyncCheckpoint` | the message thread ("checkpoint"), the end of `AcceptBlock`, startup | a checkpoint before its block, a change of the master key |
| Chain database (`txdb-leveldb.cpp`) | LevelDB records `tx`, `blockindex`, `hashBestChain`, `hashSyncCheckpoint`, `strCheckpointPubKey`, `bnBestInvalidTrust`; the active batch | `TxnBegin/Commit/Abort`, `Read/Write...` | the two above | reads that must see the batch, atomic commits |
| Memory pool and orphan transactions (`main.cpp`) | `mapTx`, `mapNextTx`, `mapOrphanTransactions` (at most 10,000), `mapOrphanTransactionsByPrev` | `accept`, `remove`, `removeConflicts`, `AddOrphanTx`, `EraseOrphanTx`, `LimitOrphanTxSize` | "tx" messages, RPC, every block connected | two maps that must agree, conflicts, limits |
| Miner and staking thread (`miner.cpp`) | the block in the making: `vtx`, `vecPriority`, `vOrphan`, `mapDependers` | `CreateNewBlock`, `SignBlock`, `CheckWork`, `CheckStake` | two threads, RPC | the chain moves while a proof is searched for |
| Peer connections (`net.cpp`) | `vNodes`, `vNodesDisconnected`, reference counts, `semOutbound`, bans, one-shots | socket handler, message handler, threads that open connections | the operating system | lifetime of a node shared by threads, grants that change hands |
| Address manager (`addrman.cpp`, `db.cpp`) | `mapInfo`, `mapAddr`, `vRandom`, new and tried buckets, `peers.dat` | `Add`, `Good`, `GetAddr`, dump, load (`Attempt`, `Connected`, `Select` touch no table) | net and "addr" messages | five structures that must agree, and are rebuilt from a file |
| Wallet: spent coins (`wallet.cpp`) | `mapWallet`, `vfSpent` | `CommitTransaction`, `AddToWallet`, `WalletUpdateSpent`, `DisableTransaction`, `ReacceptWalletTransactions`, `FixSpentCoins` | RPC, the staking thread, every block | flags written inside a chain transaction that may abort, in branches with stakes of the wallet; crashes between writes |
| Wallet database (`db.cpp`, `walletdb.cpp`) | `mapFileUseCount`, `mapDb`, `nWalletDBUpdated`, the files | `CDB`, `Close`, flush thread, backup, `Rewrite`, `Flush` | wallet, RPC, shutdown | closing a file in use, a log removed too early, a rewrite interrupted |
| Shutdown (`init.cpp`, `net.cpp`) | `fShutdown`, `fRequestShutdown`, `vnThreadsRunning` | `Shutdown`, `StopNode`, the loops of the threads | signals, the RPC command stop | threads that wake, start or stay while others are counted |
| Key store and key pool, alerts, network time, kernel, rewards, script, RPC, UI, translations | see `PROJECT.json` | | | |

Handlers of the first three components all run under `cs_main`, so two of them
never interleave; but each commits to the database several times, and calls the
other component in between.  That, and the order in which blocks and checkpoints
arrive, is where the difficulty lies, and it is the part modelled first.

## Modules

- **`BlockData`** - blocks and transactions as constants, with the operators on the
  transaction index (`ConnectPos`, `ConnectSpent`, `DisconnectPos`, ...), the checks
  of `ConnectBlock` (`FetchInput`, `ConnectInput`, `NoOverwrite`), and reference
  definitions that have no counterpart in the code: `ChainPos`, `ChainSpent` (the
  index a chain must have) and `ValidChain`.
- **`BlockChain`** - the state machine: process start and crash, `ProcessBlock` with
  its orphan loop, `SetBestChain`, `Reorganize`, synchronized checkpoints, and the
  database.
- **`BlockDataProofs`** - lemmas about the block tree, trust and the transaction index that
  the proofs about `BlockChain` and `MemPool` share.
- **`BlockChainProofs`** - theorems about `BlockChain`.
- **`MainChain`** - what the block chain promises to the parts above it: one committed
  best block, of a valid chain, that one commit moves to a child or to another branch.
  `BlockChain` implements it (`ImplementsMainChain`).
- **`MemPool`** - the memory pool and the orphan transactions on top of `MainChain`.
- **`MemPoolProofs`** - theorems about `MemPool` and about `Miner`.
- **`Miner`** - the block that a node makes of its own; it EXTENDS `MemPool`, so that the
  pool, the chain and the miner run together.
- **`Peers`** - the life of a `CNode` under the threads of net.cpp.  **`PeersProofs`** -
  theorems about it.
- **`AddrTable`** - what the address manager promises: a table of new and a table of
  tried addresses, and the tables last saved.  **`AddrMan`** - the structures of
  `CAddrman`.  **`AddrDB`** - `AddrMan` with `peers.dat` and restarts; it implements
  `AddrTable` (`ImplementsSavedTable`).  **`AddrManProofs`** - theorems about both, the
  refinement among them.
- **`WalletCoins`**, **`WalletCoinsProofs`** - the spent flags of the wallet.
- **`WalletDB`**, **`WalletDBProofs`** - the handle, the log and the files of wallet.dat.
- **`Shutdown`**, **`ShutdownProofs`** - the end of the process.
- **`MC...`** - instances for TLC: block trees (`MCBlockChain`, `MCStake`, `MCMemPool`,
  `MCMiner`), hosts and buckets (`MCAddrDB`), and bare instances of the others.

Composition: `BlockChain` implements `MainChain`, `MemPool` runs on `MainChain`, `Miner`
on `MemPool`.  `WalletCoins` has a chain and a pool of its own, reduced to what the
flags depend on, because it must stop inside the database transaction, where `MainChain`
has nothing to show.  `Peers`, `AddrDB`, `WalletDB` and `Shutdown` share no state with
the others but `fShutdown`.

Each module with a state of its own has a type invariant `TypeOK` (what `Miner` adds is
typed by `WorkShape` of its proof), and all of them are proved.  Definitions marked "Mutant of" are faulty
versions of the definition that follows: with one in its place the property named in
`PROJECT.json` fails, which shows that the property depends on that piece of code.

### How BlockChain corresponds to the code

A handler is a sequence of steps, one per database commit (and one per block inside
the transaction of `Reorganize`); `pc` names the next step, and `caller`, `pblock`,
`pindexNew`, `pindexTip`, `vWorkQueue` are its locals.  `pc = "idle"` means that
`cs_main` is free.  `db` is what LevelDB holds; `txn` is what a reader inside the
open transaction sees, so that an abort is `txn' = db`.

| action | code |
|---|---|
| `LoadBlockIndex`, `GenesisIndex`, `GenesisBest`, `GenesisSync`, `MasterKey`, `ResetSyncCheckpoint` | `LoadBlockIndex` of main.cpp and of `CTxDB`, one step per commit |
| `ProcessOrphanBlock`, `ProcessBlock` | `ProcessBlock` up to the holding area, or through `AcceptBlock` and the commit in `AddToBlockIndex` |
| `ExtendBestChain` | `SetBestChain` when the parent is the best block |
| `BeginReorganize`, `DisconnectBlock`, `ConnectBlock`, `CommitReorganize` | `Reorganize` |
| `ConnectSecondary`, `NewBest` | the postponed blocks and the end of `SetBestChain` |
| `AcceptPendingSyncCheckpoint`, `ProcessSyncCheckpoint`, `WriteSyncCheckpoint` | checkpoints.cpp |
| `AcceptOrphan`, `NextInWorkQueue` | the orphan loop at the end of `ProcessBlock` |
| `Crash`, `Upgrade` | the process stops; another release is installed |

Abstractions, and why they are harmless for the properties stated:

- A block or transaction is its hash.  Its contents are constant functions
  (`hashPrevBlock`, `vtx`, `vin`, `vout`, `kernel`, ...).  Checks that depend on the
  block alone are constant sets of blocks that fail them: `Malformed` (`CheckBlock`),
  `TooLittleWork`, `Misplaced` (target, time, finality, stake proof), `Unconnectable`
  (scripts, sigops, fees, rewards).  The reward check reads `pindexBest`, so it is
  not quite a property of the block: during `Reorganize` that is still the tip of the
  branch being left.  Amounts are not modelled.
- `Branch[b]`, the set of ancestors of `b`, replaces the `pprev` walks; `nHeight` is
  derived from it; `nChainTrust` is the recursive function that `AddToBlockIndex` computes
  block by block (a constant of the tree); `mapOrphanBlocksByPrev` from `mapOrphanBlocks`;
  `nBestChainTrust`, `nBestHeight`, `hashBestChain` from `pindexBest`.
- An orphan leaves the holding area in the step that accepts it; in the code it does
  so when `AcceptBlock` returns.  Nothing reads the holding area in between, and a
  crash in between loses it.
- The orphans of one parent are taken in any order; the code takes them in the order
  in which they came, which is any order too.
- `LoadBlockIndex`'s verification of the last blocks finds no fault: blocks on disk
  have passed `CheckBlock`.  The only hardened checkpoint is the genesis block
  (checkpoints.cpp, `mapCheckpoints`), so `ResetSyncCheckpoint` always goes there.
- Failures of the disk and of the database itself are not modelled other than by
  `Crash`.  The memory pool (a module of its own), wallet callbacks, relaying and misbehaviour scores do
  not feed back into the chain and are left out.

### How MemPool corresponds to the code

All of it runs under `cs_main`.  A loop is one step per element; while a queue is not
empty its handler is running and nothing else happens (`Idle` is false).

| action | code |
|---|---|
| `SetBestChainInner` | a block is connected on the best block; its transactions leave the pool |
| `ReorganizeTo`, `ResurrectTx`, `DeleteTx` | `Reorganize`: the commit, then `vResurrect` (accepted without looking at inputs), then `vDelete` (`remove` and `removeConflicts`) |
| `AcceptWalletTransaction` | `AcceptToMemoryPool` from the wallet or an RPC call, previous supporting transactions one by one |
| `ReceiveTx`, `TryOrphan`, `NextInWorkQueue` | the "tx" message and its loop over released orphans |
| `ReceiveOrphanTx` | `AddOrphanTx` and `LimitOrphanTxSize` |

A "tx" message that is refused changes nothing and has no action.  The transaction
index is `ChainTxs(best)` and `ChainSpent(best)`, which `TxIndexMatchesBestChain` and
`ImplementsMainChain` justify for `BlockChain`.  `WithDescendants` states what the
recursive `remove` takes out as the least set closed under spending.  Fees, scripts and
standardness are the constant sets `NonStandard` and `BadInputs`; the rate limit of
`accept` is never reached, as the fee it looks for is below the minimum that was
checked before.  Transaction replacement is disabled in the code (`return false` before
it), so it is not modelled.  An absent and an empty entry of
`mapOrphanTransactionsByPrev` are the same value; the code leaves empty ones behind.

### How Miner corresponds to the code

`CreateNewBlock` is the part before the lock (the best block is read there); `CollectPool`,
`AddToBlock`, `PassOver` and `Assembled` are what it does under `cs_main`, so that no
`PoolStep` comes in between; `SignBlock` and `Abandon` happen without the lock;
`ProcessOwnBlock` is `CheckWork` or `CheckStake` up to `ProcessBlock`.  Priorities, fees
and sizes are abstracted: the queue is a set from which any element may come next, and a
limit may keep out any transaction of `Skippable`.  `PoolStep` is the rest of the node: a
step of `MemPool`, which may move the best block to a branch of more trust or, by a
checkpoint (checkpoints.cpp:159, 399), to any valid block, back to one that was left too.
`fOnPrev` and `fForced` are history variables: `pindexPrev` was still the best block when the
pool was collected, and the best block was moved to one without more trust.  The loop of `SignBlock` that erases
what is later than the coinstake is `UpTo`, stated through the indexes that stay.  Time stamps are kept, because
`CreateNewBlock` and `SignBlock` compare them.

### How Peers corresponds to the code

A step is what a thread does under one hold of `cs_vNodes`, or one access to a node
without it.

| action | code |
|---|---|
| `DisconnectNodes`, `Accept`, `NoAccept`, `NetCopy`, `ServiceSocket`, `NetRelease` | one turn of `ThreadSocketHandler2` |
| `MsgCopy`, `ProcessMessages`, `Misbehaving`, `MsgRelease` | one turn of `ThreadMessageHandler2` |
| `Acquire`, `ProcessOneShot`, `OpenNetworkConnection`, `FindExisting`, `NotFound`, `ConnectNode`, `ConnectFails`, `MoveGrant`, `MarkNetworkNode`, `MarkOneShot`, `Opened` | a turn of an opening thread: the grant, the two looks at `vNodes`, the socket, and what is done to the node after it is published |
| `AddRefRead`, `AddRefWrite` | `nRefCount++` in `ConnectNode`, without the lock |
| `BanExpires` | -bantime is over |

What a thread does to a deleted node is undefined; in the model it has no step then.
`shared` is a history variable, the nodes that `ConnectNode` found to exist.

### How AddrMan and AddrDB correspond to the code

| action | code |
|---|---|
| `AddUnknown`, `AddKnown` | `Add_`, with `Create`, `ShrinkNew` and the choice of buckets |
| `GoodTried`, `GoodRoom`, `GoodFull`, `InspectTried`, `Evict` | `Good_` and `MakeTried`; the turns of `SelectTried` are steps |
| `GetAddr`, `GetAddrStep`, `GetAddrDone` | the shuffle of `GetAddr_` |
| `DumpAddresses`, `Restart` | `CAddrDB::Write` and `Read` with the serialization of `CAddrman` |

Keyed hashes are constant functions.  `nTime`, `nLastTry` and `nAttempts` only decide
between alternatives, and the alternatives are choices.

### How WalletCoins corresponds to the code

| action | code |
|---|---|
| `Pay`, `MarkSpent`, `Broadcast` | `CreateTransaction` and `CommitTransaction`: the record, the marks, the pool, one write each |
| `ReceiveBlock`, `SyncCheckpoint` | a block of others enters the index, on any block, and may become the best one; a checkpoint makes any indexed block the best one |
| `SignBlock`, `CheckStake`, `StakeRejected` | the staking thread chooses a coin, and its block is processed or refused |
| `DisconnectBlock`, `ConnectBlock` | one block of the database transaction of `SetBestChain`; the wallet is told of it (`SyncWithWallets`) before the commit |
| `CommitBlock`, `CommitReorganize`, `AbortReorganize` | the transaction commits, for a block on the best one or for a branch, or a block of it fails and it is aborted |
| `Crash` | the process ends between two writes and starts again (`ReacceptWalletTransactions`) |
| `Repair` | `FixSpentCoins` |

A transaction spends one coin and makes one; a stake may be split in two.  A block is the
sequence of the blocks up to it, each with its transactions and a nonce that tells it from
others with the same contents, so a branch is of any depth and holds payments and stakes of
the wallet alike.  The blocks that `SetBestChain` postpones are connected by further
extensions of the chain (`SyncCheckpoint` may choose one).  `SyncWithWallets` of a whole
block is one step.  `fConfChange` is -confchange, which is off by default (init.cpp:472).
`faults` and `phantom` are history variables: which of a reorganisation, an aborted one, a
crash and a repair happened, and the stakes that the wallet was told of in a branch that was
given up.  The rescan at startup from the best block of the wallet file is not modelled.

### How WalletDB corresponds to the code

| action | code |
|---|---|
| `CDB`, `Update`, `Write`, `CloseBegins`, `CloseEnds` | an object of `CWalletDB` from its constructor to `Close`, which gives up the handle before it is counted out |
| `FlushStarts`, `FlushLooks`, `FlushWallet` | `ThreadFlushWalletDB` |
| `BackupWallet` | the turn of `BackupWallet` in which the file is not in use |
| `RewriteBegins`, `RewriteCopies`, `RewriteRemoves`, `RewriteRenames` | `CDB::Rewrite`, each step of which may fail; `cs_db` is held throughout |
| `StartsShutdown`, `Flush`, `Restart` | `bitdb.Flush` at the end; the end of the process at any time and its next start |

Berkeley DB is external: its log keeps a write as soon as it is made, and the file has
the write without the log after the handle is closed and the environment checkpointed.
`nFirst` (what was counted when the flush thread started) and `fUnnoticed` (a failed copy
was taken for complete) are history variables.

### How Shutdown corresponds to the code

The message handler, the RPC listener, one thread per RPC connection, the stake miner
and the timer of walletpassphrase are small state machines with the places at which they
test `fShutdown` and count themselves; `Stopper` are the threads of `Shutdown`.
`StopNodeCounts` may go on while threads are counted (20 seconds are over; the history
variable `fLate` records it), `StopNodeWaits` may not.
Two more threads use the wallet without being counted: `ThreadTopUpKeyPool`, started by
walletpassphrase (rpcwallet.cpp:1458), is not modelled, and the flush thread is in `WalletDB`.

## Runs

| run | question | expected |
|---|---|---|
| `Chain` | every order of arrival of eight blocks, without crashes | pass |
| `Crash` | stops between any two commits, restarts, three checkpoints, a key change | pass |
| `Stake` | repeated stakes, refused and orphaned proof-of-stake blocks | pass |
| `Postponed` | a postponed block that does not connect | violation of `BestChainCommitted` |
| `MemPool` | transactions arrive in any order while the chain moves between two branches | pass |
| `PoolGap` | a transaction that conflicts with a connected block | violation of `PoolConnects` |
| `Miner` | blocks assembled, signed and submitted while the chain and the pool move | pass |
| `Peers` | connections in and out, bans, one-shots, under three threads | pass |
| `AddrDB` | addresses added, tried, evicted, shuffled, saved and loaded | pass |
| `Wallet` | payments, stakes, reorganisations, crashes, repairs | pass |
| `WalletDB` | users, flushes, backups, rewrites, crashes of wallet.dat | pass |
| `Shutdown` | signals and stop commands among working threads | pass |

**`Chain`.** The tree of `MCBlockChain`: above a common block `r1`, the branches
`a2 a3` and `b2 b3 b4`, with trusts chosen so that the best block changes branch; `x4`,
on `b3`, holds a transaction that spends what `b3` has already spent, and `y5` follows
it.  Transactions of the two branches spend a common output, so a reorganisation must
undo one spender and record the other.  Shown: the index in the database equals the
reference index of the committed chain in every state, the committed best block
behaves as `MainChain` promises (only valid chains, never a step back), the most
trusted valid chain wins, and orphans wait only for a parent that is missing or invalid.

**`Crash`.** The same tree without the invalid blocks; the process may stop at every
value of `pc`.  Shown in addition: memory and database agree between
handlers, `pnext` links exactly the main chain after any restart, the index is closed under parents, the checkpoint is in the main chain and
only moves to descendants, and only a crash during the very first start (before a
checkpoint is recorded) leaves a database that `LoadBlockIndex` refuses, which it
does for good.  With invalid blocks in the tree `TxIndexMatchesBestChain` does not
hold across crashes, for the same reason as in the finding of run `Postponed`: a block
that was indexed but not connected before the crash can become a postponed one.

**`Stake`.** Blocks that repeat the stake of another branch, refused at first and
needed later.  `Converges` says that the node ends on the most trusted acceptable
chain; it needs the exception that `ProcessBlock` makes for the parent of an orphan.
Every handler ends (`HandlerTerminates`).

**`MemPool`.** Two branches over a block that funds three outputs; transactions that are
in one branch, in both, in none, that spend each other through three generations, that
conflict, that only a block may hold, that spend an immature reward or an output that
does not exist.  Shown: `mapNextTx` mirrors the pool, nothing is loose and confirmed at
once, every input of the pool is known, nothing is lost without a conflict, the two
orphan maps agree, and the orphan loop leaves no orphan behind
that it could have taken.  In this tree nothing spends a transaction of a block that
conflicts with another one; `PoolGap` adds a transaction that does.

**`Miner`.** A block that is still on the best block when it is submitted connects,
although the best block was read without a lock and the chain may have left it and come back
since, after the pool was collected or before.  The dependency order forgets nothing that
could have been taken.

**`Peers`.** Nothing that a handler copied from `vNodes` is deleted while it uses it, the
limits on connections hold, no outbound slot is made or lost, and an inbound connection
that is to end is deleted.  The first and the last hold of nodes that `ConnectNode` did
not find to exist; see *Behaviour that the properties step around*.

**`AddrDB`.** `Check` is the function `Check_` of addrman.cpp, which is only compiled for
debugging: it holds in every state, also in the middle of a shuffle and after a restart.
No bucket outgrows its size ("there is certainly place there", addrman.cpp:250).  The
tables implement `AddrTable`: an eviction loses no address, and a restart brings back the
tables of the last dump.

**`Wallet`.** With -confchange and as long as nothing went wrong no payment is refused by
the node's own pool (`CommitSucceeds`), although the staking thread chooses among the
same coins without a lock.  A coin that is marked as spent is spent in the chain or by a
payment the wallet keeps, or by a stake that the wallet was told of in a branch that was
given up (`CoinsNotLost`): there is no other way to lose a coin, through reorganisations in
and out of branches with stakes of the wallet, aborts at every block of them, crashes and
repairs.  Every coin that the chain spends is marked, as the chain moves back and forth,
unless a branch failed since the last restart or repair; the second half of a split stake may
be missed by a restart (`SpentCoinsKnown`).

**`WalletDB`.** No object of `CWalletDB` loses its handle, the log is removed only when
wallet.dat has every update, one of the two files has the keys whenever the process ends,
and wallet.dat gets every update once the wallet is left alone.

**`Shutdown`.** The wallet is deleted once, when no handler works on a message or a
request; and the process ends once it has been told to.

### Behaviour that the properties step around

These are cases that the code does not handle and that the models contain; the properties
are conditional on a history variable, or leave the case out, where it would break them.

- *Nodes found to exist* (`shared` in `Peers`).  `ConnectNode` counts its reference to a
  node found by `FindNode` after the lock was given up, with a plain `++` (net.cpp:478):
  the node may have been deleted, and the increment may overwrite those of the handlers.
- *A slot that never comes back.*  A connection may break after it is in `vNodes` and
  before `OpenNetworkConnection` has moved the grant and set `fNetworkNode`
  (net.cpp:1565).  Its reference is not released (net.cpp:686), the node is never
  deleted, and the grant that is moved to it afterwards is never released.
  `SlotsConserved` counts that grant as the node's; nothing is said about outbound nodes
  being deleted.
- *A peer banned while it is being connected to* (net.cpp:1551) is connected to.
- *Change that is spent before it is confirmed* (`fConfChange` in `WalletCoins`).  Without
  -confchange, the confirmation of a payment marks its change as unspent although an
  unconfirmed payment has spent it (wallet.cpp:402), and the next payment may choose it.
- *A crash, a repair, a reorganisation* (`faults`).  A crash between the record of a
  payment and the mark of its coin leaves the coin to be chosen again (wallet.cpp:1774);
  `FixSpentCoins` frees the coins of payments in the pool (wallet.cpp:2267); an aborted
  reorganisation has refunded the stakes of blocks that stay in the chain
  (main.cpp:1516), and the next restart marks them again.
- *A stake of a branch that is given up* (`phantom`).  The connection of a block with a stake
  of the wallet marks its coin (main.cpp:1655); when a later block of the branch fails, or
  the process ends before the commit, nothing takes the mark back (main.cpp:1822).  The coin
  is lost until the stake is in the best chain again or the wallet is repaired.
- *The second half of a split stake.*  `ReacceptWalletTransactions` skips a coinstake whose
  output 1 is marked (wallet.cpp:884), so it does not learn that output 2 is spent in the
  chain.
- *A checkpoint that moves the chain back* (`fForced` in `Miner`).  `CreateNewBlock` reads the
  best block before it takes the lock (miner.cpp:120).  If the chain moves in between, the
  transactions are collected for another block than `pindexPrev`; that block is stale, unless
  a checkpoint moves the chain back to `pindexPrev` before it is submitted.
- *Updates before the flush thread runs* (`nFirst` in `WalletDB`) count as flushed
  (walletdb.cpp:549) and wait for the next update.
- *A copy that fails unnoticed* (`fUnnoticed`).  `Rewrite` takes a missing cursor and the
  negative errors of Berkeley DB for success (db.cpp:387, 416) and replaces wallet.dat.
- *Threads that are late* (`fLate` in `Shutdown`).  After 20 seconds the wallet is deleted
  although the stake miner may use it (net.cpp:1908).  The timer of walletpassphrase is
  not counted at all and may lock a deleted wallet (rpcwallet.cpp:1413): no property
  covers it.  A client that keeps its connection open and says nothing keeps `StopNode`
  waiting (net.cpp:1927): `StopsEventually` is checked for clients that leave.
- *The least recently tried entry.*  `SelectTried` remembers the position the oldest entry
  had before the swap (addrman.cpp:142), so that `MakeTried` may evict another one.
  `AddrTable` lets any entry be evicted.
- *The time of a staked block* may become that of its latest transaction, later than its
  coinstake (main.cpp:2376); `CheckBlock` then refuses it, and `ProcessOwnBlock` needs
  `CheckCoinStakeTimestamp`.
- *mapDependers* keeps a pointer to a list element that was removed (miner.cpp:210); the
  model has no pointers there.

### Configurations that fail

Six configurations are kept for cases that the code does not handle, and TLC finds each
violated (`tlc -config X.cfg M`).  They are not among the runs of `PROJECT.json`.  The first
three state what a comment of the code says, the others a property of the runs without its
exception.

- `MCStuckOrphan.cfg` (`MCBlockChain`, `OrphansHaveNoParent`).  `AcceptBlock` fails after
  `AddToBlockIndex` has indexed the block, and `ProcessBlock` returns before its orphan
  loop (main.cpp:2317): the orphans of the block stay in the holding area, "until we get
  it" (main.cpp:2285), although their parent is in the index.
- `MCKeyChange.cfg` (`MCBlockChain`, `SyncCheckpointOfThisKey`).  The new master key is
  committed before the checkpoint is reset (main.cpp:2594); after a crash in between the
  next start finds the key unchanged and keeps the old checkpoint: "if checkpoint master
  key changed must reset sync-checkpoint" (main.cpp:2587).
- `MCOrphanStake.cfg` (`MCStake`, `DuplicateStakeHasChild`).  Erasing the stake of one
  orphan also forgets another with the same stake (main.cpp:2333); a third one is then
  let in: "Duplicate stake allowed only when there is orphan child block"
  (main.cpp:2294).
- `MCForced.cfg` (`MCMiner`, `EveryOwnBlockConnects`).  The chain leaves `pindexPrev` before
  the pool is collected, and a checkpoint moves it back.
- `MCLostStake.cfg` (`MCWalletCoins`, `NoCoinLost`).  A block with a stake of the wallet is
  connected and then given up; its coin stays marked.
- `MCSplitStake.cfg` (`MCWalletCoins`, `EverySpentCoinKnown`, four transactions).  A restart
  skips a split stake, of which one half is marked and both are spent.

### Findings

1. *A failed postponed block becomes the best block* (`Postponed`).  `SetBestChain`
   reorganises to `pindexIntermediate` in one transaction and connects the blocks
   above it one by one; if one fails the loop breaks, but `pindexBest = pindexNew`
   follows all the same.  Memory and database then name different best blocks and
   later blocks are connected against the wrong transaction index.
2. *A gap in the pool* (`PoolGap`).  `SetBestChainInner` does not take out what conflicts
   with the block it connects.  When that block is disconnected, its transaction is
   refused because of the one still in the pool, and what spends it is left in the pool
   with an input that is nowhere; `CreateNewBlock` says of that case that it should never
   happen.

### Bounds

The trees have at most thirteen blocks and the runs explore every order of arrival, so
every interleaving of reorganisations over two branches with a fork depth of two or
three occurs.  `MaxMasterKey` (at most 2) bounds how often another release is
installed: one change is enough to interrupt one.  `MAX_ORPHAN_TRANSACTIONS` is 2, so
that the limit is met and two generations of orphans fit.  `CrashPoints` is the set of steps
at which the process may stop (none, or all of them).  No other counter of the
chain is bounded; the sets of blocks make the state space finite.

`Miner`: seven blocks, seven coinbases and eight other transactions, two time stamps; the
orphan maps are off (`MAX_ORPHAN_TRANSACTIONS` is 0).  `Peers`: two node objects, so that
one is inbound and one outbound or one follows the other at the same address, two slots,
one inbound place, one opening thread and a one-shot for the same address; an object is
not used again, so each behaviour makes at most two connections.  `AddrDB`: three hosts of
one port, two sources and new buckets, buckets of one entry, so that every addition and
every promotion may meet a full bucket, and eviction finds its own new bucket full too;
`MaxId` = 3 ids between restarts.  With tried buckets of one entry the swap of
`SelectTried` moves nothing; buckets of two were run as well, at which the second case
does not occur with three ids.  `Wallet`: one coin, three transactions (`MaxTx`), four
blocks (`MaxBlocks`), a maturity of one: the coin may be paid or staked and the result paid or
staked again, and three blocks make two branches of which one has two blocks, so that one
fails after a stake in it was connected.  With a fourth transaction the state space is some
ten times larger; only `MCSplitStake.cfg` uses it.  `WalletDB`: two users, three updates, two
rewrites: the second meets what the first left.  `Shutdown`: three threads of `Shutdown`,
two connections, one timer; a further thread of `Shutdown` would only wait.

### Fairness

`FairSpec` assumes that a handler that has begun goes on (one thread,
`ThreadMessageHandler`, executes it to the end), that a started process goes on, and
that peers keep offering every block (`getblocks` and `AskFor` repeat the request
until the block is there).  Crashes are not taken in the run `Stake`, which checks liveness.

`Peers`: the two handlers loop for ever (`WF` of their unconditional steps) and an opening
thread finishes what it began; nothing is assumed of peers.  `WalletDB`: the flush thread
and a rewrite in progress go on, and an object of `CWalletDB` is closed when the function
that has it returns; restarts may happen at any time, and `SelfContained` is about
behaviours in which the wallet is left alone for good.  `Shutdown`: every thread is
scheduled, and, in `ActiveSpec`, a client that sends nothing closes its connection; how
long anything takes is open.

## Proofs

Every theorem holds for every value of the constants that satisfies the assumptions of
its module, which TLC evaluates in the runs; each proof is an inductive invariant that TLC
checked on the runs first, one lemma per action (or group of actions) that says the step
keeps it, and a temporal step.  The theorems are listed in `PROJECT.json`.

### BlockData

`BlockDataProofs` has no state.  Its lemmas say that branches are ordered
(`Comparable`, `OneChild`, `AncestorsOrdered`), that trust grows along a branch
(`TrustMonotone`), what `pnext` must be for the chain of a block (`Links`, `LinksStep`),
and what the operators on the transaction index do: connecting a block on an index that
matches its parent's valid chain gives the index of its own chain, which is then valid,
disconnecting goes back, and `ConnectBlock` refuses no block that makes a valid chain
(`ValidConnects`, `ValidDisconnects`).  Trust is defined by recursion; that the defining
equation has a solution (`TrustExists`) is proved by taking a block of least height at
which none exists, since induction theorems cannot be applied here.

### BlockChain

For every tree of blocks, every set of invalid blocks, every policy and every set of crash
points:

- `TypeCorrect`: `Spec => []TypeOK`;
- `IndexAlwaysClosed`: `Spec => []IndexClosed`;
- `CheckpointAdvances`: `Spec => SyncCheckpointAdvances`;
- `LoadAlwaysSucceeds`: `Spec => []LoadFailsOnlyInFirstRun`;
- `OrphanStakesAreHeld`: `Spec => []OrphanStakeReleased`.

All but the last rest on the inductive invariant `IndInv`.  None of the properties
is inductive alone: that `db.best` stays indexed when `CommitReorganize` writes it
needs that the walk back from `pindexNew` ends on its branch (`IntermediateFacts`)
and that the whole branch of an indexed block is indexed (`BranchesIndexed`); that
the checkpoint only moves to a descendant needs that the block being moved to was
validated against the *current* checkpoint several steps earlier (`CheckpointInv`)
and that memory and database agree on it (`IndexInv`); and the handler's locals must
hold indexed blocks (`CallInv`).  Assumptions: the blocks form a finite tree
(`TreeAssumption`), transactions have the types of `TxAssumption`, and the parameters
those of `PolicyAssumption`.

The correctness of the chain itself is false in general: finding 1 (run `Postponed`) is a
counterexample.  It is therefore proved of the behaviours in which that does not happen.
`PostponedConnect` is the state predicate "the block that `SetBestChain` connects next
after the commit of `Reorganize` does connect"; TLC finds it true in every state of the
runs `Chain` and `Crash` and false in `Postponed`.  With `Spec /\ []PostponedConnect` on
the left:

- `TxIndexMatches`: `[]TxIndexMatchesBestChain`;
- `MemoryMatchesDatabase`: `[]BestChainCommitted`;
- `ChainIsLinked`: `[]MainChainLinked`;
- `MainChainImplemented`: `ImplementsMainChain`, the refinement of `MainChain`;
- `SyncCheckpointKept`: `[]SyncCheckpointInMainChain`, for the strict policy;
- `OrphansAreReleased`: `[]OrphansWait`.

So the postponed blocks are the only thing that can go wrong.  The invariant is
`ChainInv`: the database holds the index and the links of a valid chain (`CommittedInv`);
memory lags behind it in a known way while `SetBestChain` runs (`MemoryInv`); and the open
transaction of `Reorganize` holds the index of `pindexTip`, which is not below the fork
(`ReorganizeInv`).  The last needs that `pindexIntermediate` is never on the branch being
left, which is where trust comes in (`IntermediateLeads`).  The refinement needs in
addition that a commit never steps back along the chain (`BestMoves`); the checkpoint
needs that the strict policy lets no block into the index beside it (`SyncInv`); the
holding area needs that `SetBestChain` fails on invalid chains only (`FailsInvalid`), and
that the parent of every other orphan is in the work queue or is the block `AcceptBlock`
is at work on (`OrphanInv`).

When does nothing go wrong?  `NoForcedChain` says that no checkpoint is signed for a block
of a valid chain and that the process does not stop inside `SetBestChain` (run `Chain` is
an instance: its checkpoint is for an invalid block, and it does not crash).  Under it

- `NothingPostponed`: `Spec => [](ChainInv /\ QuietInv /\ PostponedConnect)`, so that the
  theorems above hold without their hypothesis;
- `MostTrustIsBest`: `Spec => []MostTrustWins`.

The invariant `QuietInv` says that no valid chain on disk leads the best one, but for the
one that `SetBestChain` was called for: then `pindexIntermediate` cannot be a proper
ancestor of it, so nothing is postponed.  A crash between the commit of `AddToBlockIndex`
and the end of `SetBestChain`, or a checkpoint that takes the node to a branch of less
trust, leaves an unconnected chain in the lead, and both conclusions may then fail.

### MemPool

For every tree of blocks and every set of transactions:

- `PoolTypeCorrect`, `NextTxAlwaysMirrors`, `OrphanIndexAlwaysExact`, `OrphansAlwaysBounded`:
  the invariants `TypeOK`, `NextTxMirrorsPool`, `OrphanIndexExact`, `OrphansBounded`;
- `PoolNeverConfirmed`: `Spec => []PoolNotConfirmed`;
- `NothingEverLost`: `Spec => NothingLost`;
- `OrphansAlwaysRetried`: `Spec => OrphansRetried`;

- `PoolConnectsWhileGrowing`: `Spec /\ Growing => []PoolConnects`.

`PoolNotConfirmed` speaks of the moments between handlers; inside a reorganisation it
is false.  The inductive invariant (`ReorgInv`) says instead that what is in the pool
and in the chain, or is about to be put back and is in the chain, is still on `vDelete`;
that it holds at the start of a reorganisation needs that no transaction is twice in the
chain being left (`ValidChainFacts`).  `NothingEverLost` rests on two facts about
`WithDescendants`: it is the least closed set, so everything in it but its root spends
something in it, and, a valid chain containing what it spends, nothing that descends
from a conflict is in the chain (`ConflictNotInChain`).  `OrphansAlwaysRetried` has an
invariant of its own (`RetryInv`): an orphan that spends a transaction of the queue lacks an
input, is to be erased, or will be tried again, because the queue grows behind the place
where the loop is.  `PoolAssumption` adds to the
assumptions that `Tx` is finite.

`PoolConnects` is false in general (finding 2).  `Growing`, "the best block only moves to a
descendant", is a hypothesis on the chain only: the blocks
that arrive, the transactions and the conflicts among them stay arbitrary.  Then nothing is
put back, a transaction of the pool keeps the outputs of the chain that it spends, and
`remove` takes out what spends the rest (`ConnectInv`).  So only a disconnected block opens
a gap in the pool.

### Miner

For every tree, pool and set of transactions that a block's limits may keep out, while the
chain and the pool move in between, the chain by checkpoints too (`MinerSpec`, in which
`PoolStep`s of `MemPool` alternate with the steps of `CreateNewBlock`, `SignBlock` and
`CheckWork`):

- `OwnBlockAlwaysConnects`: `MinerSpec => []OwnBlockConnects`;
- `NothingEverForgotten`: `MinerSpec => []NothingForgotten`.

Both follow from `MinerInvariance`, whose invariant `MinerInv` adds five parts to the one of
the pool: the shape of the block in the making (`WorkShape`); while transactions are
chosen, `setDependsOn` holds exactly the parents that are still missing, and what is
neither in the block, nor in the queue, nor passed over does not connect (`SelectInv`); until
a checkpoint moves it, the best block is `pindexPrev` or has more trust (`PrevTrust`); the pool
has no coinbases (`PoolLoose`); and, as nothing in the pool is confirmed while it is read, the
transactions of a block collected on `pindexPrev` connect one after the other to it (`OwnInv`).
Such a block connects whenever `pindexPrev` is the best block, however often the chain left it
meanwhile.  A block collected on another best block has `pindexPrev` behind it for good unless
a checkpoint moved the chain, which is the exception of `OwnBlockConnects`.  `SignBlock` erases nothing that a later transaction needs: it sets the time of the block to that of the
latest transaction first, so it erases nothing at all (`UpToAll`).

### Address manager

For any hosts, sources, hash functions and bucket sizes, of `AddrMan` between restarts and
of `AddrDB` with dumps and restarts at any time (`Spec` and `DBSpec`):

- `AddrManTypeCorrect`, `AddrDBTypeCorrect`: `[]TypeOK`;
- `AddrManCheck`, `AddrDBCheck`: `[]Check`;
- `AddrManBounded`, `AddrDBBounded`: `[]BucketsBounded`;
- `AddrDBRefines`: `DBSpec => ImplementsSavedTable`.

The inductive invariant (`TablesInv`) says one thing of each structure: `vRandom` is a
permutation of the entries and each knows its place in it (`RandomInv`); `mapAddr` is the
inverse of the entries' addresses (`AddrInv`); a new entry is in one to
`NEW_BUCKETS_PER_ADDRESS` buckets and counts them in `nRefCount` (`NewInv`); a tried one is in
the bucket of its address and only there (`TriedInv`); the buckets keep their sizes
(`NewSizes`, `TriedSizes`) and the two counters are exact (`CountsInv`).  In the middle of
`MakeTried` the entry that moves is in none of the tables, so the invariant excepts it,
and `BusyInv` says what makes the end of the operation possible: the bucket it goes to
has an entry to evict, and the new bucket it left has room for that one ("there is certainly
place there").  `FileInv` says what of all this `peers.dat` keeps: `Read` numbers the
entries anew in the order in which they were written, and the invariant of the tables so
rebuilt follows from the file being a faithful list, which `Serialize` ensures.
The refinement maps the tables to the sets of their addresses, and needs
the invariant to know that an evicted address was tried and is put into a new bucket, and
that what is read is what was written.  Assumptions: `AddrAssumption` (finite sets, positive
sizes) and `NoneAssumption` (the value for "no file" is no file).

### Peers

For any number of nodes, addresses and opening threads and any limits: `TypeCorrect`,
`SlotsAreConserved` (`SlotsConserved`), `NodesAreSafe` (`NodesSafe`), `LimitsAreKept`
(`LimitsHold`).  A node is safe because its reference count is at least the number of
places that have it (`RefsInv`: the copies of the two handlers, and `vNodes` or the opener
that has not set `fNetworkNode` yet); that needs to know what every opener has at every
step (`OpenerInv`) and that two of them share a node only if `ConnectNode` found it
(`OpenersApart`).  The limit on outbound nodes needs that a node in `vNodes` without a grant
has an opener about to move one to it (`OutboundHeld`).  `PeersAssumption`: the sets of
nodes and openers are finite, and the two special values are no nodes' members.

### WalletCoins

For any maturity and any number of coins, transactions and blocks: `TypeCorrect`,
`MarkedCoinsAreSpent` (`CoinsNotLost`), `SpentCoinsAreMarked` (`SpentCoinsKnown`),
`OwnPaymentsAccepted` (`CommitSucceeds`).  Between the call of the wallet and the commit of a
block the wallet is ahead of the chain, so the invariants speak of the transactions *as the
wallet has been told of them* (`Where`, the ones of the block that the database transaction
has come to): every mark has a spender there, among the payments, or in `phantom`
(`MarkedInv`), and every coin spent there is marked (`KnownInv`).  Both need that a block that
is disconnected frees only what it alone spends: a block of the index holds no transaction
twice and no coin is spent twice on a branch (`IndexInv`); and that one that is connected
frees nothing that is spent (`Connected` marks the coins it makes as unspent): a coin is
spent on a branch only after it is made.  `CommitSucceeds` needs more (`ConfInv`): payments
spend confirmed coins only, everything spent is marked, and the payment in work spends a coin
that nothing else does; and that the database transaction comes to no block twice (`PathInv`),
so that without a reorganisation it is at the best block or on its child.
`WalletAssumption`: the maturity and the number of coins are not 0 (the code adds 10 to
nCoinbaseMaturity).

### WalletDB

For any number of users, updates and rewrites: `TypeCorrect`, `HandleStaysLive`
(`HandleLive`), `LogRemovedSafely` (`LogNotNeeded`), `KeysKept` (`KeysSomewhere`).
`mapFileUseCount` is the number of objects of `CDB` that are not counted out, that of
`Rewrite` included, and its absence means a closed and complete file (`UseCountExact`).

### Shutdown

For any number of threads of `Shutdown`, RPC clients and timers: `TypeCorrect`,
`OneInCharge` (`OneStops`), `WalletDeletedIdle` (`HandlersGone`).  The counters are exact
(`CountersExact`), and what the thread in charge has seen stays true because a handler that
counts itself afterwards finds `fShutdown` set (`StopperKnows`).

### Only model-checked

- Liveness, which is out of the prover's reach: `HandlerTerminates`, `Converges`,
  `InboundReclaimed`, `SelfContained`, `StopsEventually`.
- `PoolConnects` in behaviours with reorganisations: it is false in general (finding 2),
  and run `MemPool` shows that it holds in a tree where no transaction spends what
  conflicts with a block.

The theorems of the chain that follow `Spec /\ []PostponedConnect` are proved, but their
hypothesis is only known to hold under `NoForcedChain`; the runs `Chain` and `Crash` check
the conclusions in two trees, of which the second goes beyond it.

## Not modelled, and the plan

In this order:

1. The requests of peers: `mapAskFor`, `mapAlreadyAskedFor`, the inventory a peer is known
   to have, and the download of blocks with getblocks.
2. The key pool and the key store: reservations against refills, encryption interrupted,
   unlocking with a timer.
3. `TxDB`: LevelDB with an active batch (`ScanBatch`) as a refinement of the
   transactional store that `BlockChain` assumes.
4. Alerts, the median-time filter, rewards and money supply as small modules and pure
   operators.

Out of scope: scripts, serialisation, hash functions, RPC formatting and the Qt
interface (sequential conversions without protocol), and the vendored libraries.  The
files of `qt/locale`, by far the most lines of the repository, are translations: XML that
Qt Linguist generates, with nothing to execute.
