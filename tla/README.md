# A verification development for primmonero

TLA+ modules, TLC configurations and TLAPS proofs about the node in
`src/servilo` (a Primecoin node: peer-to-peer network, block chain, coin
database; no wallet and no RPC).  Paths below are relative to `src/servilo`.

To check a run: `tlc -config <run>.cfg <module>.tla`, with the module named in
the tables below; to check proofs: `tlapm <module>_proofs.tla`.

## 1. The system

One process.  Its threads: the message handler (`ThreadMessageHandler`), the
socket handler, two connection openers, `ThreadImport` (block files given on the
command line), the script check workers, `DetectShutdownThread`, and the main
thread, which runs `AppInit2` and then waits for the others.  The lock
`cs_main` serialises everything that touches the block chain; smaller locks
protect the memory pool (`mempool.cs`), the peers (`cs_vNodes`, and one per
peer and direction), the address manager (`CAddrMan::cs`), the synchronized
checkpoint (`cs_hashSyncCheckpoint`), the last block file
(`cs_LastBlockFile`) and the check queue.

| Component | State it keeps | Operations | Interacts with | What makes it correct |
|---|---|---|---|---|
| Chain state (`main.cpp`, `txdb.cpp`, `leveldb.h`) | `mapBlockIndex`, `setBlockIndexValid`, `pindexBest`, `pnext`, `pcoinsTip`; the block tree and coin databases | `AcceptBlock`, `AddToBlockIndex`, `ConnectBestBlock`, `SetBestChain`, `ConnectBlock`, `DisconnectBlock`, `InvalidBlockFound`, loading, `VerifyDB`, `Shutdown` | called by the message handler, `ThreadImport` and `AppInit2`; hands scripts to the check queue; drives the memory pool and the sync checkpoint | the best chain is the valid one with most work, unless the node enforces synchronized checkpoints; the coins are its unspent outputs in every cache layer; every crash leaves a pair of databases it restarts from |
| Script check queue (`checkqueue.h`) | queue, counters, verdict, the workers' batches | `Control`, `Add`, `Wait`, `Loop` | `ConnectBlock` (master), workers, thread interruption | the verdict includes every check, no lost wake-up, counters balanced |
| Synchronized checkpoints (`checkpointsync.cpp`) | accepted, pending and invalid checkpoint, `hashConnectedBlock`; two database records | accept, validate, enforce, reset, select, send | `AcceptBlock` (check, pending), `SetBestChain` (both directions), peers | only descendants replace a checkpoint; the memo `hashConnectedBlock` never changes a verdict |
| Memory pool, orphan transactions and blocks | `mapTx`, `mapNextTx`, `mapOrphanTransactions`, `mapOrphanBlocks`, each with an index by parent | `accept`, `remove`, `removeConflicts`, `pruneSpent`, orphan add, erase, limit, `ProcessBlock` | `SetBestChain` (resurrection, removal), peers | `mapNextTx` is the inverse of `mapTx`; everything in the pool can be mined; no orphan waits for what has come |
| Address manager (`addrman.cpp`) | `mapInfo`, `mapAddr`, `vRandom`, `vvTried`, `vvNew`, counts; `peers.dat` | `Add_`, `Good_`, `Attempt_`, `Connected_`, `Select_`, `GetAddr_`, saving, loading | connection openers, `addr` messages | `Check_()`: tables, counts and reference counts agree; loading gives back what was saved |
| Peer connections (`net.cpp`) | `vNodes`, `vNodesDisconnected`, reference counts, the outbound semaphore, bans, one-shots | connect, accept, disconnect, delete | the two openers, the socket and the message thread | a peer is deleted only when no thread holds it; outbound slots come back when its references do (section 5) |
| The wire (`net.cpp`, `ProcessMessages`) | send and receive buffers of a connection | `PushMessage`, `SocketSendData`, `ReceiveMsgBytes`, `ProcessMessages`, time-outs | sockets | messages arrive whole, in order, or the connection ends |
| Block download (message handlers) | inventories, requests, `pnodeSync`, `hashContinue` | `inv`, `getblocks`, `getdata`, `block`, `AskFor`, `StartSync` | other nodes | what is announced is fetched; connected nodes end at the same height |
| Script interpreter and signing (`script.cpp`, `keystore.cpp`) | stacks; signature cache; key store | `EvalScript`, `VerifyScript`, `Solver`, `SignSignature`, `CombineSignatures` | `CheckInputs`, the memory pool | what can be signed verifies, and signs no more than its hash type says |
| Difficulty and prime chains (`prime.cpp`) | none (the sieve: miner only) | `TargetGetNext`, `CheckPrimeProofOfWork`, `Weave` | `AcceptBlock`, `CheckProofOfWork` | the target moves with the spacing, by a bounded step; the sieve loses no candidate |
| Addresses (`netbase.cpp`, `net.cpp`, `init.cpp`) | networks, proxies, local addresses | classification, groups, `SetProxy`, `AddLocal`, `SeenLocal` | address manager, openers | one group per IPv4 address; no connection past the settings |
| Filters and partial trees (`bloom.cpp`, `main.cpp`) | a peer's filter | `insert`, `IsRelevantAndUpdate`, building and extracting | relay, `getdata` | a filtering peer misses nothing of its own and cannot be told of what is not in the block |
| Containers, codecs, files (`mruset.h`, `limitedmap.h`, `allocators.h`, `serialize.h`, `util.cpp`, `base58.h`, `bignum.h`) | local | insert, erase; encode, decode; allocate | everywhere | bounded size; decoding is the inverse of encoding; ranges never overlap |
| Berkeley DB environment (`db.cpp`), locks (`sync.cpp`) | | | nothing that opens a `CDB`; `DEBUG_LOCKORDER` | not modelled |

Hard behaviours: forks arriving in any order; invalid blocks discovered only
when their chain is about to win; reorganisations that replay undo data across
several blocks; two cache layers above a database; two databases that are
synced at different moments; a process that may die between any two writes, or
run out of disk in the middle of a reorganisation; threads interrupted inside
`cond.wait` or between two blocks; workers that share a verdict; objects shared
by four threads with counts that are not atomic; streams cut anywhere; peers
that go away before they answer.  The list, with source lines, is under
`hazards` in `PROJECT.json`.

## 2. The modules

| Module | Models |
|---|---|
| `BlockTree` | the universe of block headers: parent, height, work, ancestry as constants with the equations `AddToBlockIndex` gives them |
| `Coins` | pure part of the coins: `CCoins`, `CTxInUndo`, `UpdateCoins`, `CheckInputs`, `ConnectBlock`, `DisconnectBlock` as operators |
| `Utxo` | reference definitions over sets: which outputs a chain leaves unspent, which chains are valid |
| `Ledger` | abstract specification of the chain state |
| `ChainState`, `ChainProperties`, `MCChainState` | the chain state machine; what it must satisfy, and the refinement mapping to `Ledger`; a small universe of blocks for TLC |
| `CheckQueue` | the script check queue |
| `SyncCheckpoint`, `SyncProperties`, `MCSyncCheckpoint` | synchronized checkpoints over a chain with less detail |
| `MemPool`, `MCMemPool` | memory pool, orphan transactions, orphan blocks, over `Utxo` |
| `AddrMan`, `MCAddrMan` | the address manager and `peers.dat` |
| `Peers`, `MCPeers` | the connections and the four threads that share them |
| `Wire` | the bytes of one connection |
| `BlockSync`, `MCBlockSync` | several nodes that announce and fetch blocks |
| `Script`, `Standard`, `Rules` | the interpreter and signature hashes; standard scripts, key stores, signing, combining; rules and fees of transactions |
| `Prime` | target, prime chains, sieve |
| `NetAddr` | addresses, groups, proxies, local addresses |
| `Filter`, `Codec`, `Stores` | partial Merkle trees and Bloom filters; encodings; bounded containers, locked pages, network time, block files |
| `ScriptProperties`, `PrimeProperties`, `NetAddrProperties`, `DataProperties` | what those algorithms promise, one operator (`...Trial`) per promise, with the inputs as parameters |
| `Algorithms` | the bounded inputs of every trial, and the invariants over them |
| `Coins_proofs` | lemmas about chains in the tree of blocks; what `ConnectBlock` and `DisconnectBlock` do, loop by loop, against `Utxo` |
| `ChainState_proofs` | theorems about the chain state: index, links and work; coins and undo data; validity and the refinement of `Ledger` |
| `CheckQueue_proofs`, `Sync_proofs`, `Peers_proofs`, `MemPool_proofs`, `AddrMan_proofs`, `Wire_proofs` | theorems about these machines |

Operators whose name has a suffix after an underscore and that precede the
operator of the name before it (`Finish_NoNotify`, ...) are not part of the
models: each is a plausible mistake in the code, kept to show that a property
would notice it.

How the modules compose: `ChainState` shows that the coins are what `Utxo` says of the
best chain and that the best chain of a node that does not enforce synchronized
checkpoints is the heaviest valid one; `MemPool` and `BlockSync` build on these facts and
model such a node, `BlockSync` also on `Wire`, which shows that a connection is a queue of
whole messages.  `SyncCheckpoint` has both kinds of node.
`CheckQueue` shows that the verdict on a block's scripts, one choice in
`ChainState`, is the right one.

### ChainState

The handlers run under `cs_main`, so one runs at a time; each is cut where the
process may die between two disk writes, or where another thread may act.
`pc` names the next step: `off` (no process), `idle` (no handler), `best` (the
top of `ConnectBestBlock`'s loop), `mark` (marking descendants of a failed
block), `switch` (its loop over `vAttach`), `chain` (inside `SetBestChain`'s
connecting and disconnecting), `update` (its memory structures).

| Action | Code |
|---|---|
| `Start` | opening the databases, `LoadBlockIndexDB`, `InitBlockIndex`, `VerifyDB` |
| `AcceptBlock` | `AcceptBlock` of a block that passes its checks, and `AddToBlockIndex` up to `ConnectBestBlock` |
| `EnforceCheckpoint` | `ProcessSyncCheckpoint` or `AcceptPendingSyncCheckpoint` with `-checkpointenforce`: `SetBestChain` for the checkpoint's block, whatever its work |
| `NoBetterBlock`, `FindFailed`, `MarkFailedChild`, `MarkedAll`, `Attach`, `SwitchedAll` | `ConnectBestBlock` |
| `BeginSwitch`, `Disconnect`, `Connect`, `ConnectGenesis`, `FlushView`, `UpdateMemory` | `SetBestChain` with `DisconnectBlock` and `ConnectBlock` |
| `ConnectFails` | `ConnectBlock` returns false: `InvalidBlockFound` |
| `ConnectDiskFull`, `FlushDiskFull` | `CheckDiskSpace` fails: `AbortNode` |
| `Interrupt`, `InterruptConnect` | a thread of `threadGroup` is interrupted at the interruption point between two blocks, or in `control.Wait()` |
| `StartShutdown`, `Shutdown` | a signal; `Shutdown()` |
| `Crash` | the process is killed, or the power fails |

Every write of a block index entry is a step, so a crash may fall between any
two.  A database is what it reads as now (`mapBlockIndex`, `coinsDB`) and the
set of values a failure may leave (`treeImages`, `coinsImages`): a process
crash leaves the present one, a power failure any since the last synced write.
Undo data and the block itself are part of the block's tree entry.

The mode is chosen at each start (`EnforceModes`): `fEnforced` says that this process
enforces synchronized checkpoints, `hashCheckpoint` is the block it is switching to, and
`NoBlock` when `SetBestChain` was called by `ConnectBestBlock`.  Which blocks a checkpoint
may name is the matter of `SyncCheckpoint`; here it may be any indexed block off the main
chain, so also a lighter one or one on an invalid chain.  What is said of the work of the
best block is said of processes that do not enforce (`BestIsMostWork`), or excepts the
switch to a checkpoint (`OnlyMoreWork`, `Ledger`).  `DiskFullModes` bounds where the disk may
fill: it has the values of `fEnforced` of the processes in which `CheckDiskSpace` may fail.

`ConnectBlock` has the checks of the code in their order: BIP30, the count of signature
operations with those of redeemed scripts (`GetP2SHSigOpCount` through the view),
`HaveInputs`, maturity and `MoneyRange` of each input and of their sum, fees, and the
coinbase's value.  An output is its value and whether it is a pay-to-script-hash one; the
operations in a script, and in what an input redeems, are constants (`SigOps`,
`RedeemSigOps`).

Abstractions: entries `GetCoins` copies into a cache without a change are not
in the model's cache; an entry absent from the coins is the pruned entry, since
every test goes through `IsPruned` or `IsAvailable`; blocks of equal work are
chosen between freely (the code compares hashes); the flush decision
(`!IsInitialBlockDownload()` or a full cache) is free; `GetMinFee` and
`TargetGetMint` are constants; script checks are always on, and so is BIP16; the
`CheckBlock` that `ConnectBlock` repeats is an assumption about blocks (`TransactionAssumption`); the memory pool,
`nBestInvalidWork`, the transaction index and logging are left out, and the two
index writes of `ConnectBlock` are one.

Three code paths are left out because they are not reachable: `DisconnectBlock`'s error
returns (invariant `DisconnectsCleanly`), the nested `ConnectBestBlock` of
`InvalidBlockFound` for a block of the main chain, and the `SetBestChain` in
`ResetSyncCheckpoint`, which runs at the first start, when the hardened checkpoint is not
indexed or is the genesis block and so on the main chain.

### CheckQueue

A step is one holding of the queue's mutex.  The thread's own checks run
between two such steps and touch nothing shared; their result is worked out
when the thread takes the mutex again.  The master's `Wait`, the workers'
`Thread` and the destructor's second `Wait` after an interruption are the same
`Loop`.  `fQuit` is never set in the code and is left out.

### SyncCheckpoint

The chain is `ChainState`'s with less detail: `SetBestChain` is one step that
succeeds (`BestBecomes`) or meets an invalid block (`BestFails`), a block is on
the main chain when the best block descends from it (the invariant
`MainChainLinks` of `ChainState`), and descendants of failed blocks are left out
of the candidates instead of being marked one by one.  `InvalidBlocks` stands for
what `ConnectBlock` rejects.

| Action | Code |
|---|---|
| `FirstStart`, `InitCheckpoint`, `CheckCheckpointPubKey`, `ResetSyncCheckpoint` | `InitBlockIndex` on an empty database, cut between its writes |
| `Start` | `LoadBlockIndexDB`; `InitBlockIndex` returns at once |
| `Attach`, `AttachNext`, `AttachFails`, `AttachedAll`, `NothingBetter` | `ConnectBestBlock` |
| `CheckBest` | the advisory check at the end of `SetBestChain` |
| `AcceptBlock` | `AcceptBlock` of a block that passes its checks, hardened and (in enforce mode) synchronized checkpoints included |
| `NoPending`, `RejectPending` | `AcceptPendingSyncCheckpoint` |
| `KeepPending`, `Receive` | a `checkpoint` message: `ProcessSyncCheckpoint` |
| `Send`, `Finish` | the end of `ProcessBlock` |
| `SwitchToCheckpoint`, `SwitchFails`, `AcceptCheckpoint` | the common part of `AcceptPendingSyncCheckpoint` and `ProcessSyncCheckpoint` |
| `Shutdown`, `Crash`, `AssertFails` | the ways to stop |

The mode is chosen at each start.  Signed messages arrive at any time, in any
order and any number of times; those the key did not sign change nothing.  The
interruption of a reorganisation by a shutdown, which `ChainState` has, is not
repeated here.

### MemPool

A handler runs under `cs_main` from its first to its last change, so each is one
action: `ReceiveTx` (the `tx` message: `CTxMemPool::accept`, then either the
orphans that wait for it, erased together with its own entry, or `AddOrphanTx` and
`LimitOrphanTxSize`),
`ProcessBlock` (`ProcessBlock` with its work queue of orphan blocks, and per
accepted block the switch of the best chain, with what it does to the pool) and
`Restart`.  The coins are `Utxo` of the best chain and the switch goes to the
heaviest valid chain: that is what `CoinsMatchChain` and the refinement of
`Ledger` show of `ChainState`, for a node that does not enforce synchronized checkpoints.
The eviction of a random orphan is a choice.  Whether `SetBestChain` writes the coins is
another: `FlushSets` has the possible sets of blocks, in one `ProcessBlock`, whose switch
writes them, `{}` as in the initial download, or all.  When it does not, `pcoinsTip` keeps
an empty entry (`pruned`) for what the switch spent completely or took off the chain, and
`accept` takes a transaction with an entry for known, in `ReceiveTx` and in `Resurrect`.
The rate limit for free transactions and the priority are left out, as
`RelayFee` says what each must pay.  `View` is `CCoinsViewMemPool`, where the coins
of the chain hide the pool's transaction of the same hash, and `HaveInputs` the
function of that name.  `Lost` is what `SetBestChain` does not resurrect when it
leaves a chain.  `CoinBaseAssumption` stands for the rule of `AcceptBlock` that a
coinbase starts with the height of its block: the coinbases of a chain differ.  The
code enforces it on top of 750 blocks of version 2 (51 on the test network), and stores
no others; of the lowest blocks it is an assumption about the chain that the hard-coded
checkpoints fix, the first of them at height 74722.

### AddrMan

Every public operation runs under `CAddrMan::cs` and is one action: `AddNew` and
`AddKnown` (`Add_`), `Good` (`Good_` with `MakeTried`), `Attempt`, `Connected`,
`GetAddr`, and `Restart` (`CAddrDB::Write` and `Read`, or a file that cannot be
read).  The buckets an address hashes to are constants; every random choice is
nondeterministic.  `Select_` changes nothing; its result is the operator
`SelectFrom`.  `Consistent` is the code's own `Check_`, which is compiled only
with `DEBUG_ADDRMAN`.

### Peers

An object lives at a place in memory, which is used again after `delete`; a
pointer is the place.  One holding of `cs_vNodes` is one step, and what touches a
`CNode` outside is a step of its own: the socket thread goes through
`DisconnectNodes`, `Accept` or `AcceptsNone`, and `ServiceSockets`, the message
thread through `CopyForMessages`, `ProcessNodes` and `ReleaseCopies`, each opener
through `OpenNetworkConnection` or `ProcessOneShot`, `FindsNode` or
`FindsNone`, `ReadRefCount` and `WriteRefCount`, `Connects` or `CannotConnect`,
`MoveGrant` and `SetNetworkNode`.  `nRefCount++` in `ConnectNode` is a read and a
write, as it holds no lock.  `SlotsTaken` are the grants of nodes and threads; a node that
is never deleted keeps its own for ever, which `SlotsConserved` allows of a node with a
reference that no copy of `vNodes` holds.  When a thread uses an object that was deleted, the
program's behaviour is undefined and the model stops there (`Undefined`).

### Wire

Two ends that run this program.  A message is a sequence of units of which the
first `HeaderSize` are its header; a unit knows its message and its place, so
that a cut, a swap or a loss shows.  The kernel takes and gives any number of
units (`ServiceSend`, `ServiceRecv`).  `SelectsSend` and `SelectsRecv` are
the conditions under which `ThreadSocketHandler` puts a socket into its sets,
`MayProcess` those of `ProcessMessages`.  `TimesOut` stands for the 90 minutes
without sending or receiving; it happens only when both ends wait.

### BlockSync

Nodes with an index, orphan blocks and a `CNode` per peer; the messages under
way are a queue per direction, which is what `Wire` shows of a connection.
The actions are the handlers of `version`, `inv`, `getblocks`, `getdata` and
`block`, `ProcessGetData`, `SendMessages`, `StartSync`, finding a block, the loss
of a connection and the passing of time.  A block is valid, and the highest chain
has the most work: the nodes do not enforce synchronized checkpoints.  A block that became
the best one is announced to the peers that `AcceptBlock` relays to (`Relays`): the node must be
higher than the peer was at the start less `RelayDepth` (2000 in the code), or than
`nBlockEstimate` if the peer has not said.  `setInventoryKnown` forgets nothing here.  No link leads from a
node to itself: the code drops such a connection when it reads its own nonce.
`AskFor` and `SendMessages` find their place in `mapAskFor` by counting the
requests that are due, as the code's map is ordered by time.

### The algorithms

`Script`, `Standard`, `Rules`, `Prime`, `NetAddr`, `Filter`, `Codec` and `Stores`
are operators: each function of the code that computes something without shared
state is an operator of the same name.  `Algorithms` has one variable, the trial:
a step chooses a kind of trial and its inputs, the five invariants say what must
hold of it.  Sequences of calls (filters, containers, files, the clock, local
addresses) are folds over a sequence of operations chosen by the trial, restarts
and failures among them.

Data is as small as the promises allow: keys, hashes and signatures are symbolic
and ideal, a script is a sequence of instructions, the target has 5 fractional
bits, an amount 8 bits, a page 4 bytes.  What depends on a width (compact sizes,
wrapping amounts, the sign bit of numbers) is parameterised by it.

## 3. The runs

Each takes 2 workers less than a minute, but `chain_crash` two and a quarter minutes and `mempool`
a little over one.

| Run | Module | Specification | Shows |
|---|---|---|---|
| `chain_crash` | `MCChainState` | `Spec` | eight blocks on two forks, three of them on invalid chains, every order of arrival, both flush outcomes, full disks, shutdowns, interruptions and process crashes at every step, in processes that enforce synchronized checkpoints and switch to any indexed block, and in others after them: the coins in every layer, the money supply, `ConnectBlock`'s verdicts, the marks of failure, the best block and the refinement of `Ledger` |
| `chain_power` | `MCChainState` | `FairSpec` | seven blocks, two of them on an invalid chain; a power failure may lose any unsynced suffix of either database's writes, in any combination: restarts, the refinement of `Ledger`; and every handler ends |
| `check_queue` | `CheckQueue` | `FairSpec` | asserts and verdict; the master returns from `Wait` |
| `sync_power` | `MCSyncCheckpoint` | `Spec` | checkpoints in every mode and order, crashes and power failures at any moment, the first initialisation included |
| `addrman` | `MCAddrMan` | `Spec` | `Check_` holds after every sequence of operations, saving and loading lose nothing, tried entries stay |
| `mempool` | `MCMemPool` | `Spec` | transactions and blocks in every order, as orphans too, across reorganisations, with the coins written or kept in the cache: the pool's index, its content, what hides it, what returns to it, the orphan maps |
| `peers` | `MCPeers` | `Spec` | slots counted, released once and kept only by a reference, references and deletion under every interleaving of four threads |
| `wire` | `Wire` | `Spec` (fair) | whole messages, accounts of the send buffer, delivery or a time-out |
| `blocksync` | `MCBlockSync` | `Spec` (fair) | nothing announced is forgotten; the nodes end at the same height, two answers to `getblocks` from the fork, although one loses its synchronisation node |
| `algorithms` | `Algorithms` | `Spec` | signing and verifying, costs, target and sieve, addresses, encodings, filters, containers, files |
| `mempool_orphan`, `blocksync_fork` | `MCMemPool`, `MCBlockSync` | `Spec` | two statements of comments in the code that the code does not keep: `findings` in `PROJECT.json` |

The `algorithms` run in detail:

| Invariant | Trials |
|---|---|
| `SignaturesVerify` | what `SignSignature` signs verifies, exactly when the key store suffices, and stops verifying when what its hash type covers changes; combinations of partial signatures in any order; the signature cache |
| `ScriptsAreCharged` | what running a script costs is at most what it is charged in signature operations; laws of the stack opcodes; encodings of scripts; blocks, fees and amounts within their limits |
| `WorkIsSound` | steps of the target, alone and along a chain of blocks; the sieve against divisibility; the fast chain test against the full one; what mining finds passes the check, unless it is refused as not normalized |
| `AddressesAreRight` | tunnels have the group of the IPv4 address; Tor names read back; proxies by the settings; the best local address; the offset of the clock against the median of honest peers |
| `KeptIsFound` | encodings read back and are shortest; partial trees give exactly the matched transactions; a filtering peer is told of everything of its own; `mruset` and `limitedmap` against sequences; locked pages against the union of ranges; stored blocks never overlap, across crashes, full disks and restarts |

Bounds.  The universe of `MCChainState` has two forks of unequal work that overtake each
other, so that a switch leaves one block and joins two and, for an enforced checkpoint, leaves two for
one.  A chain of spends inside one block, a transaction present on both forks, a double
spend across the forks, and a transaction id reused after it was fully spent (`b3`, which
BIP30 allows) are on valid chains.  Each rule of `ConnectBlock` has a block that breaks it:
`z3` overwrites an unspent coinbase (BIP30), `x3` spends an immature one, the inputs of `m3`
are worth more than `MAX_MONEY`, and `p3` has one signature operation more than a block may
when those of the script it redeems are counted (`b3` has as many as it may).  `y4` is a
descendant of the invalid `x3` that has the most work.  `MCBlocks` leaves out `x3` and `y4`,
`PowerBlocks` the blocks `z3`, `m3` and `p3`, so that the runs end in time; in `chain_crash` the disk
fills only in processes that do not enforce (`DiskFullModes`).  No counter is unbounded; the number of
crashes is not bounded.

The check queue has two workers, so that one can be on its way to sleep while the
other completes the last batch, five checks with batches of at most two so that
batches of several sizes occur, and any number of blocks one after the other.

The checkpoint run has two forks of which the shorter has more work, so that
height and work disagree, an invalid block with a child on the longer one,
checkpoints on valid and invalid blocks, and a hardened checkpoint above the
genesis block (pending after initialisation).  `CrashPoints` says where the
process may die.

The pool's universe has the cases of a reorganisation: a transaction confirmed on
one fork only, its spender two blocks up, one that conflicts with it on the other
fork, spenders of a coinbase that the switch removes, a transaction with parents
of both kinds, an invalid heaviest block, and room for two orphans where three
may come.  Within one `ProcessBlock` the coins are written at each switch or at none.

The address manager's buckets hold two and one entries so that every addition and
every move evicts, with one address known under two ports and one in two buckets;
`MaxTime` bounds the clock, `MaxId` the ids that are given out.  `Peers` has one
address, because every hazard there needs two connections to the same one, and
two places, so that one is used again.  `Wire` cuts the stream in pieces of any
size up to the kernel's three units, less than a message with data; `MaxMessages`
bounds what an end sends.  In `BlockSync` an answer to `getblocks` has two blocks
(`Limit`) and the chain to fetch four above the fork, so that the first answer is not enough
and `hashContinue` has to bring the next; one connection may be lost (`MaxBreaks`).
`RelayDepth` is 2 and `nBlockEstimate` 1, so that there are peers a block is not announced to.

The widths of `algorithms.cfg` are chosen so that every boundary in the code is
passed: sums of amounts that wrap, a sieve of more
than one word and more than one piece of the cache, a block file that two blocks
fill, trees of one to nine leaves, containers smaller than the sequence of
operations, an offset limit between the offsets tried.

Fairness.  `ChainState`: a running handler goes on, because `cs_main` is held
until it returns and it waits for nothing that needs `cs_main`; nothing is
assumed about blocks arriving, shutdown or crashes.  `FairSpec` states it as
"infinitely often no handler runs, or a handler takes infinitely many steps",
which is weak fairness of the handler's steps, as only a `StartShutdown`, once,
can come between two of them.  `CheckQueue`: weak fairness of each thread's loop
steps: script checks end and the mutex lets every thread in; spurious wake-ups
are not assumed.  `Wire`: weak fairness of what `select` and the message thread
do at each end, and of the time-out.  `BlockSync`: weak fairness of the message
threads together, since each goes on as long as there is a message, a request or an
announcement to handle (`Busy`, in place of `ENABLED`), and of time; no block need be found
and no connection lost.

Properties that are more than the shape of the model: `CoinsMatchChain` compares
every cache layer with `Utxo`, a definition without undo data, caches or order;
`ConnectIsExact`, `FailedIsInvalid` and the refinement compare the code's verdicts
with `ValidChain`, a definition of the consensus rules; `PoolIsMinable` compares the
pool with the same `Utxo`; the trials of `Algorithms` compare each function with
a definition over sets, or with its inverse.

## 4. The proofs

Proved for every tree of blocks (`BlockTreeAssumption`, `GenesisAssumption`,
`ChildAssumption`), every set of transactions with inputs, outputs and blocks as
`CheckTransaction` and `CheckBlock` let them through (`TransactionAssumption`: no
input twice in a transaction, no transaction twice in a block, the first and only the
first a coinbase) and all modes (`ModeAssumption`).  `UndoAssumption` says that
`NoUndo` is not undo data, as `BLOCK_HAVE_UNDO` is not.

* `CandidatesNotFailed`, `RestartsFindChain`, `LinksFollowBest`,
  `BestGainsWork` in `ChainState_proofs` (of `NoFailedCandidate`, `RestartFindsChain`,
  `MainChainLinks` and `OnlyMoreWork`; only the second has a run, as the others are steps of its
  proof and of those below), from the inductive invariant `IInv`, a conjunction of
  `IndexInv` (types, parents indexed before children in every image of the
  tree, no failed candidate), `TipInv` (the cache tip is the best block outside
  `update`), `DiskInv` (the chain of every coin image is in every tree image),
  `LinkInv` (what `pnext`, `vConnect` and `vDisconnect` look like at each `pc`;
  the walk of `ConnectBestBlock` meets the main chain at the fork) and
  `WorkInv` (blocks of `vAttach` all have more work than the best block and
  than those switched to before them, unless the one block is an enforced checkpoint's).  `LinkInv` is the part a weaker
  invariant lacks: without it `pnext` could run along a chain that was left.
* The first part of `Coins_proofs`: finite chains have a lowest block and two chains a highest
  common ancestor, below which they agree.  `Sync_proofs` uses these lemmas too, and those about folds.  Minima of non-empty sets of heights come from the
  well-foundedness of the natural numbers.
* `AssertsHold` and `VerdictsAreRight` in `CheckQueue_proofs`, from `QInv`:
  `nTodo` is the number of checks queued or in a batch, `nTotal - nIdle` the
  number of busy threads, and `fAllOk` decides the checks that completed.  The
  four uses of the loop's critical section share one lemma (`SectionInv`).
* `CheckSyncCheckpointIsRight` and `CheckpointOnlyDescends` in
  `Sync_proofs`, under `SyncAssumption`, from `SInv`: every image of the block tree
  database has the same checkpoint (`DiskSInv`; a write that is not synced breaks
  it), the process agrees with it and the memo `hashConnectedBlock`
  is on its chain (`MemoInv`), and a checkpoint in hand is still valid while
  `SetBestChain` runs (`HandSInv`).  The first theorem then rests on
  `ConnectedDescends`: the walk may stop at the memo, because two blocks on one
  chain at one height are the same.

* `RelaysOnlyAccepted` and `NoPendingIsForgotten`, from `SInv` with `RelayInv` (from
  the start of a process to the reset nothing is relayed yet) and `PendInv` (a pending
  checkpoint whose block is indexed is still going to be looked at by the handler that
  indexed it).
* `ConnectBlockExact` and `DisconnectsWhatWasConnected` in `Coins_proofs`, for any
  coins in normal form (`NormalCoins`: no entry ends in a spent output, and a spent
  entry is `Pruned`, which is what `CCoins::Cleanup` maintains).  A loop of the code is
  a function on `0 .. n`; a lemma per loop says that a function with its equations
  exists (`ConnectLoopExists`), and facts about every turn are proved by induction over
  the set of turns they hold for (`InductionTo`).  `ConnectsChain` and `DisconnectsChain`
  put the two together with `Utxo`: from the coins of a parent to those of a valid block
  and back.  The undo data of the last output of a transaction carries its height and
  coinbase flag, of the others none; that a height of 0 is unambiguous rests on the
  genesis coinbase not being spendable.
* `CoinsAlwaysMatch`, `AlwaysDisconnects`, `VerdictsExact` and `RestartsVerify` in
  `ChainState_proofs`, from `IInv` and `DataInv`.  `SavedMatch`, `TipMatch` and
  `ViewMatch` say of each layer that its coins are in normal form and those of its
  chain; equality of the sets of outputs alone would not be inductive, as `Spend` and
  `Cleanup` see the vector and not the set.  `UndoMatch` says that all undo data there is,
  in any image of the tree, is what `ConnectBlock` makes of the coins of the parent's
  chain, so that it fits whichever process wrote it; `UndoKept` that no chain a coin image, the
  cache or the view ends lacks it: `SetBestChain` writes the tree before the coins, and a
  power failure may lose the second write without the first but not the reverse.
* The third part of `ChainState_proofs`, from `IInv`, `VerdictsExact` and five more parts: `CacheInv` (where
  the coin cache may be when a full disk stops `SetBestChain` half way), `CandidateInv`
  (every block not marked failed is a candidate: this is where a crash between the write
  of an index entry and its marking matters), `BoundInv` (no candidate has more work
  than the last block to switch to, when `ConnectBestBlock` chose it), `ValidInv` (failed blocks end invalid chains,
  tips valid ones) and `HeavierInv` (in a process that does not enforce checkpoints, at most one clean block
  outweighs the best one; which it is depends on `pc`).  `OnlyInvalidIsFailed`, `BestHasMostWork` and
  `LedgerImplemented` follow, so that the node's promise is proved from the loops of
  `ConnectBlock` up: its best block is the valid chain with most work if it does not enforce
  synchronized checkpoints, whatever processes before it did, and a valid chain if it does.
* `SlotsAreConserved`, `NoFreedNodeIsHeld` and `PoolCountsAreRight` in
  `Peers_proofs`, under `PeersAssumption`, for any number of openers, places and
  slots.  `PInv` says what each opener holds at each `pc` (`OpenersInv`), that copies
  of `vNodes` have no deleted node (`CopiesInv`), and for each node that was not handed
  to a second thread what its reference count is, whether it is still listed and
  whether its creator has set its flags yet (`RefInv`): the deletion test reads the
  count of a node whose creator may not have finished with it.  `SlotsConserved` says that
  no slot is released twice or taken uncounted, and that an unlisted node which still has one
  has a reference beside those of the copies: this is the part of `RefInv` on nodes whose maker
  is not done with them.  That each slot comes back does not follow, and is not so: the maker's reference need
  not be released (section 5).  `PoolCountsHolders` speaks of accepted nodes only, for the same reason.

* `SupplyMatches`, from `DataInv` and `MoneyInv`: every block of any image of the tree
  that has undo data has the money supply of its own chain.  `Total` chooses an output, adds its
  value and goes on with the others; `AnyLast` shows by induction over the subsets of a
  finite set that the choice does not matter, `TotalOfList` that a list of different
  outputs adds the sum of its values, and `SupplyIs` follows the loop of `ConnectBlock`
  with both.  The set of unspent outputs is finite because each connected block adds a
  finite number.

* `PoolMatches`, `OrphansIndexed`, `BlocksWait`, `PoolIsAlwaysMinable` and
  `PoolIsAlwaysVisible` in `MemPool_proofs`, under `MemPoolAssumption` (the last two also
  under `CoinBaseAssumption`), from `MemPoolInv`, which `MemPoolHolds` states.  `IsPool` says
  that `mapNextTx` is a function on exactly the outpoints that `mapTx` spends; `IsBook`
  that the index of orphans by parent is a function of the set of orphans and its own
  domain (the domain keeps entries of accepted transactions, which no equation
  determines).  The handlers are loops over sequences, which `FoldLeft` defines over the
  subsets of the positions: `FoldExists` shows that such a function exists, `LeftFold`
  that it runs through the states of the loop in order, and one lemma per loop
  (`ConflictsLoop`, `ResurrectLoop`, `TurnLoop`, ...) that it stays among the values of its
  type.  For orphan blocks, `Waits` is the invariant in the middle of `ProcessBlock`: the
  parent of an orphan may be stored only if its chain is invalid or its turn in
  `vWorkQueue` is still to come.  That alone would also hold of a loop that stops early;
  `TurnIs` shows that a turn with a block leaves less of queue and orphans together, so
  that the queue is empty in the end (`QueueEmpties`).

  `PoolIsAlwaysMinable` is the theorem about what a reorganisation does to the pool.
  `PoolIsMinable` alone is not inductive: that an input is unspent now says nothing of it
  after a switch.  `Minable` says instead that the pool shares no transaction and no input
  with the chain (`Points(p.mapTx) \cap Points(ChainTxs(b)) = {}`), and that whatever an
  input names was made by the pool, by the chain, or is `Lost`.  Three lemmas carry it:
    * `ChainIsExact`: for a valid chain of accepted blocks an output is unspent exactly if
      a transaction of the chain made it and none spends it, and a chain spends only what
      it made.  Here a block must not repeat a transaction of its chain; for the coinbase
      this is `CoinBaseAssumption`, and any other transaction would spend an input twice
      (`BlockIsNew`).
    * `WithSpendersIs`: as many turns as the pool has transactions find all that depends
      on a removed one, since each turn adds one or there is none left (`GrowsOn`).
    * `SwitchMoves`: which transactions the two lists of `SetBestChain` hold, up to those of
      the fork, and what of the old chain is in neither the new chain, nor `Lost`, nor
      resurrected: nothing.
  In the loop that resurrects (`Risen`), what is still to come counts as made, so that the
  order of the list, parents first, is not what keeps the pool sound: a transaction that
  comes too early is removed with all that depends on it.  The pool may then share
  transactions with the new chain; the loop that deletes (`Purged`) removes these alone and
  what conflicts with them with all that depends on it.  `Held` is the invariant through
  `AcceptBlock` and the loops of `ProcessBlock`.  For `PoolIsAlwaysVisible` the pool is also
  disjoint from `pruned`: a switch empties entries of the transactions it takes off the chain, which the
  pool has not got, and of those of the new chain, which `Purged` has removed from the
  pool, and what `Resurrect` puts back has no entry (`SwitchKeepsVisible`).

* `AddressesAreConsistent`, `TriedAddressesStay` and `SavingLosesNothing` in
  `AddrMan_proofs`, under `AddrAssumption`, from `AddrInv`.
  `Sound(m, X)` is `Check_()` without its count of failures, with what makes it inductive:
  the place of every id in `vRandom` and in the tried buckets is its own, `mapAddr` has no
  address that no entry has, ids are below `nIdCount`.  In the middle of an operation the
  entries in `X` may be in more or fewer buckets than they have references: `Add_` counts a
  reference before `ShrinkNew`, which may delete another entry and move ids in `vRandom`,
  and inserts the id after it; `MakeTried` takes an id out of all its buckets first.
  `SelectTried` is a loop that permutes the bucket it inspects (`SelectTriedKeeps`).
  Loading is proved against the file: `Serialize` writes entries that are `Written` and
  `Distinct` (`SerializeIs`), whatever order the map has; each entry read keeps the manager
  in order up to the buckets that come at the end of the file (`LoadNewKeeps`, `RebucketKeeps`), and
  the tried entries follow (`LoadTriedKeeps`).  Beside the invariant, the lemma of each
  operation says what it leaves of the tried entries (`Stays`), which is all that
  `TriedAddressesStay` needs.  `SavingLosesNothing` needs one invariant more, `Homed`: a
  tried entry is in the bucket of its address.  `Unserialize` puts it there whatever the file
  says and drops it if the bucket is full; as the bucket it comes from had room for all of its entries
  (`RoomInFile`), so has every bucket while it is loaded (`RoomForNext`), and the loop keeps
  them all (`LoadAll`).  The ids differ: `Copies` relates the entries one by one, by their
  places in the file.

* `MessagesComeThrough` and `SendBufferIsRight` in `Wire_proofs`, under `WireAssumption`
  (sizes are natural numbers; a header, the kernel's buffer and the send buffer are not
  empty), from `WireInv`.  Every unit of a message knows what comes after it (`After`), so
  a stretch of the stream leads from one place in a message to another (`Run`); runs may
  be joined and split anywhere.  The invariant says that what is under way leads from what
  the receiver waits for (`Expected`, a function of its half-read message) to what the sender puts
  on the wire next (`Upcoming`, of `vSendMsg` and `nSendOffset`); it says nothing of what
  the pieces are, as `send` and `recv` may cut anywhere.  On the sender's side `CutRuns` follows the
  concatenation of `vSendMsg` and `WholeIs` finds the message in which a position lies,
  which the deletion from the front of `vSendMsg` rests on (`SendKeeps`); on the receiver's
  side `AbsorbKeeps` covers a unit that begins a message, one of the header and one of the
  data, and `ReceiveKeeps` the loop of `ReceiveMsgBytes` by induction over its turns.

* `AnnouncedIsNeverForgotten` in `Sync_proofs`, for any set of nodes, links, blocks and
  breaks (`BlockSyncAssumption`), from `Fine`.  A node is `Sound`: it announces and sends
  only blocks of its index, which has the chain of each.  Of every two nodes `Heard` says
  that a block which one lists in `setInventoryKnown` for the other is in the index of
  one of them, and that the other has it, or it is on the way, or still to be served or
  asked for.  The first half is what makes the second inductive: `ProcessGetData` drops a
  request for a block that it does not have, and the asker then has it already.  Each
  handler is a `Step`, a relation between the sets of blocks that a node and its record of
  the peer speak of before and after; steps compose (`StepsCompose`), so a handler's step
  is put together from those of the functions it calls, a loop's by induction over its
  turns (`TakeAllStep`, `LeaveOutIs`).  `TurnFine` then serves every handler, and
  `KeepsAll` what changes no record of a peer (a block found, time, the choice of a node
  to synchronise with).

Before an invariant was first proved TLC checked it: `WireInv` on `wire`, `MemPoolInv`,
`HoldsNow` and `Exact` of every valid chain on `mempool`, `Fine` on `blocksync`, `AddrInv`
and `Homed` on `addrman` (`Homed` with two tried buckets too), `MoneyInv` on
`chain_crash` and `chain_power`, `PInv` on `peers`, the parts of the third part of
`ChainState_proofs` and those of `DataInv` it can evaluate (all but `UndoMatch`, for which
there is `RestartVerifies`) on `chain_crash` and `chain_power`, `RelayInv` and `PendInv` on
`sync_power`.

Only model-checked: `NothingIsForgotten` of the memory pool, which is a fact about the
instance of `mempool` and not about every value of the constants (the transactions of the
blocks up to the last checkpoint do not return; and within one `ProcessBlock` a transaction
that the first switch drops, because it spends a coinbase that is not mature at that height,
may be acceptable again after a second); all algorithms, whose inputs the trials bound and many of
whose operators are recursive; and all liveness, which is beyond the prover.

## 5. Known divergences

Two have a run and an entry under `findings`:
* orphan transactions are not accepted when their parent is (`main.cpp:3270`);
* the block download stops at a fork as long as one answer (`main.cpp:3125`).

The others were met while modelling; they have no run.

Synchronized checkpoints:
* An enforced checkpoint switches the chain once; the chain left stays a candidate
  and the next `ConnectBestBlock` switches back when it has more work
  (`checkpointsync.cpp:178`, against the comment at line 58).  Until then the node stands
  on a lighter chain, which is why `BestIsMostWork` leaves enforcing processes out.
* `strCheckpointWarning` is computed when the best block changes, not when the
  checkpoint does, and nothing displays it (`main.cpp:1724`, against
  `checkpointsync.cpp:59`).
* A crash between the genesis block's index entry and the first checkpoint leaves
  `hashSyncCheckpoint` 0 for good, and the assertion at `checkpointsync.cpp:223`
  fails at the next block (`main.cpp:2657`).
* A changed master key is noticed only with a new database (`main.cpp:2589`, against
  the comment at line 2664).
* One pending checkpoint fits, and it is not persisted (`checkpointsync.cpp:442`).  It may
  stay pending with its block indexed when a block of its chain turned out to be invalid:
  `PendingIsMissing` leaves out processes in which one did.

Resurrection: while the coins are not written (`main.cpp:1651`: initial download, and room in the
cache), `pcoinsTip` keeps an empty entry for each transaction that `DisconnectBlock` took off the
chain.  `accept` finds it, takes the transaction for known and refuses it (`main.cpp:627`), and
`main.cpp:1683` removes it with what spends it, so that a reorganisation forgets the transactions it should
resurrect.  The model does the same; `NothingIsForgotten` excepts what such an entry refuses.

Memory pool and orphans: `mapOrphanTransactionsByPrev[...]` makes an empty entry
for every accepted transaction (`main.cpp:3258`); transactions that spend a
coinbase whose block left the chain, or a transaction of a block that did so below the
last checkpoint, stay in the pool (`PoolIsMinable` excepts them); an orphan block
whose predecessor could not be connected stays in the maps (`OrphanBlocksWait` excepts
it).

Connections: `FindNode` lets go of `cs_vNodes` before `ConnectNode` takes its
reference, and `nRefCount++` is not atomic (`net.cpp:455`, `net.h:314`):
`HeldNodesExist` and `PoolCountsHolders` hold up to that, and the model marks the
objects concerned as `Contested`; `PoolCountsHolders` holds of accepted nodes only, as an
outbound one may keep its maker's reference: if the socket thread closes it after `ConnectNode` has
listed it (`net.cpp:493`) and before `OpenNetworkConnection` sets `fNetworkNode`
(`net.cpp:1359`), nothing releases that reference (`net.cpp:768`), and the node stays in
`vNodesDisconnected` for ever, with the outbound slot if it was moved to it after the
closing (`net.cpp:1358`); a descriptor leaks when all inbound slots are
taken and the address is in `setservAddNodeAddresses` (`net.cpp:926`);
`ProcessOneShot` forgets a destination when there is no slot (`net.cpp:1147`);
`pnodeSync` is compared as a plain pointer (`net.cpp:1417`).  The comment at
`net.cpp:839` says that one of three things is always possible: when both ends
have full send buffers, the one that remains is the time-out.

Difficulty and mining: timestamps that step back by more than three and a half
days make the divisor of `TargetGetNext` zero or negative, so that the difficulty
falls to the minimum or the division throws (`prime.cpp:353`); the search may
find certificates that `CheckPrimeProofOfWork` refuses as not normalized
(`prime.cpp:575`); the sieve never offers the multiplier 1;
`GetCandidateCount` also counts bits beyond `nSieveSize`.

Scripts: `IsMine` accepts a nested pay-to-script-hash script, `SignSignature` does
not (`script.cpp:1406`, `1544`); the signature cache holds one entry more than
its limit (`script.cpp:1064`).

Addresses and time: with `-socks=4` the proxy is for IPv4 only (`init.cpp:493`);
votes of peers may pass the score of `-externalip`; the network time no longer
changes once the median filter is full, as its size stays even (`util.cpp:1285`;
`AddressesAreRight` checks the median below that size and says nothing of it);
`SelectTried` evicts the entry of oldest success, where `addrman.cpp:131` says
"least recently tried".

Containers, filters and files: `limitedmap` keeps at most one entry less than its
size and may evict a higher value for a lower one, where `limitedmap.h:10` says it
keeps the N highest; a filter of no hash functions matches everything before it
is sent and nothing after (`bloom.cpp:171`); a partial tree may have more than
the 2N-1 flag bits of `main.h:1175` when a level has an odd width (three
transactions, the last one matched: two hashes, four bits); a transaction that was
announced but never fetched is left out of filtered blocks (`main.cpp:2819`);
`-reindex` counts the sizes of blocks and not their places, so that a gap makes a
later block overwrite the last one (`main.cpp:1813`).

## 6. Not modelled

* Power loss combined with an unflushed cache or a full disk: `Shutdown()` calls
  `pblocktree->Flush()`, which does nothing for LevelDB (`leveldb.h:138`), so the
  coins it writes may become durable before the block tree they need.
  `ModeAssumption` excludes the combination; `chain_power` covers power loss with
  a flush at every block, where nothing is left to write at shutdown.
* The memory pool and the block download of a node that enforces synchronized checkpoints.
* `-reindex`, `-txindex`, `-loadblock`; the time rules of `AcceptBlock`;
  `IsStandardTx` and the priority of transactions.
* `getheaders`, `ping`, and the rebroadcast of addresses.
* The miner's loop does not exist in this repository (`MineProbablePrimeChain` has no
  caller, there is no `CreateNewBlock`); one round of it is modelled.
* `CCryptoKeyStore`, `CCrypter`, `CDB` and the recovery of `CDBEnv`: nothing creates
  them.  The change of a `limitedmap`'s size: nothing calls it.
* Locks and `DEBUG_LOCKORDER`: the locks are the atomicity of the actions; that
  they are taken in an order without cycles is not checked.
* What LevelDB, Boost, OpenSSL and Berkeley DB do inside; sockets and resolvers;
  the streams and macros of `serialize.h`; argument parsing, logging, and the
  measurements of speed.
* Tampered partial trees beyond what `pmt_tests.cpp` does to them.

## 7. Plan

The plan is done: the modules above cover what TLC can explore on instances large enough to
show the hazards, and every safety property of a machine but `NothingIsForgotten` is a
theorem.  What stays with TLC, and why, is at the end of section 4.
