----------------------------- MODULE ChainState ------------------------------
(***************************************************************************)
(* The chain state of one node (main.cpp, txdb.cpp, init.cpp): which       *)
(* blocks are indexed, which chain is active, the unspent outputs in the   *)
(* coin cache and in the coin database, and how a process crash, a power   *)
(* failure, a full disk and a shutdown leave them.                         *)
(*                                                                         *)
(* Everything that changes this state runs under cs_main, so one handler   *)
(* runs at a time; it is cut into steps where the process can die between  *)
(* two writes to disk.  Steps of one handler:                              *)
(*                                                                         *)
(*   AcceptBlock or Start, then ConnectBestBlock ("best"), which marks the *)
(*   descendants of a failed block ("mark") or calls SetBestChain for each *)
(*   block of vAttach ("switch"): it disconnects, connects and flushes     *)
(*   ("chain"), then updates the memory structures ("update").             *)
(*                                                                         *)
(* A node that enforces synchronized checkpoints calls SetBestChain too,   *)
(* for the block of a checkpoint that is not on the active chain.          *)
(***************************************************************************)
EXTENDS Coins

CONSTANTS
    NoUndo,        \* the undo data of a block that was never connected
    FlushModes,    \* the outcomes of !IsInitialBlockDownload() || the cache is full
    PowerLoss,     \* unsynced database writes can be lost
    EnforceModes,  \* the values of IsSyncCheckpointEnforced() a process may start with
    DiskFullModes  \* those with which CheckDiskSpace can fail

ASSUME ModeAssumption ==
    /\ FlushModes \in (SUBSET BOOLEAN) \ {{}}
    /\ PowerLoss \in BOOLEAN
    /\ DiskFullModes \subseteq BOOLEAN
    /\ EnforceModes \in (SUBSET BOOLEAN) \ {{}}
    \* See README, "What is not modelled": both write the coin database at
    \* shutdown without syncing the block tree first.
    /\ PowerLoss => FlushModes = {TRUE} /\ DiskFullModes = {}

\* BLOCK_HAVE_UNDO tells whether a block has undo data, even empty one.
ASSUME UndoAssumption ==
    NoUndo \notin Seq(Seq([txout : CTxOut, nHeight : Nat, fCoinBase : BOOLEAN]))

VARIABLES
    mapBlockIndex,      \* the indexed blocks, as the block tree database holds them
    setBlockIndexValid, \* the candidates for the best chain
    pnext,              \* CBlockIndex::pnext
    pindexBest,
    pcoinsTip,          \* the coin cache: cacheCoins and pindexTip
    coinsDB,            \* the coin database: coins and hashBestChain
    treeImages,         \* what the block tree database may read as after a failure
    coinsImages,        \* what the coin database may read as after a failure
    pc,                 \* the next step of the handler
    fStarting,          \* AppInit2 has not returned yet
    fRequestShutdown,
    fEnforced,          \* IsSyncCheckpointEnforced() of this process
    hashCheckpoint,     \* the checkpoint SetBestChain is called for, or NoBlock
    vAttach,            \* ConnectBestBlock: the blocks still to mark or to switch to
    pindexNew,          \* SetBestChain: its argument
    view,               \* SetBestChain: its cache on top of pcoinsTip
    vDisconnect,        \* SetBestChain: the blocks to disconnect
    vConnect            \* SetBestChain: the blocks to connect

index  == <<mapBlockIndex, setBlockIndexValid>>
memory == <<pnext, pindexBest>>
disk   == <<treeImages, coinsImages>>
mode   == <<fStarting, fRequestShutdown, fEnforced, hashCheckpoint>>
handler == <<vAttach, pindexNew, view, vDisconnect, vConnect>>
vars   == <<index, memory, pcoinsTip, coinsDB, disk, pc, mode, handler>>

-----------------------------------------------------------------------------
\* Views of the coins

Cache(cacheCoins, pindexTip) == [cacheCoins |-> cacheCoins, pindexTip |-> pindexTip]

EmptyCache(pindexTip) == Cache(<<>>, pindexTip)

\* CCoinsViewCache::GetCoins: the entry in the cache, or else the one below it.
Over(cacheCoins, coins) ==
    [t \in Txids |-> IF t \in DOMAIN cacheCoins THEN cacheCoins[t] ELSE coins[t]]

TipCoins  == Over(pcoinsTip.cacheCoins, coinsDB.coins)
ViewCoins == Over(view.cacheCoins, TipCoins)

\* CCoinsViewCache::SetCoins on each of the entries of touched.
SetCoins(cacheCoins, touched, coins) ==
    [t \in DOMAIN cacheCoins \cup touched |->
        IF t \in touched THEN coins[t] ELSE cacheCoins[t]]

\* Mutant: entries the lower cache already has are not overwritten.
BatchWrite_KeepsOld(lower, upper) ==
    Cache(lower.cacheCoins @@ upper.cacheCoins, upper.pindexTip)

\* CCoinsViewCache::BatchWrite: the entries of the upper cache win.
BatchWrite(lower, upper) ==
    Cache([t \in DOMAIN lower.cacheCoins \cup DOMAIN upper.cacheCoins |->
              IF t \in DOMAIN upper.cacheCoins THEN upper.cacheCoins[t]
                                               ELSE lower.cacheCoins[t]],
          upper.pindexTip)

\* CCoinsViewDB::BatchWrite of the cache: pruned entries are erased, and
\* hashBestChain is written with them, in one atomic batch.
DBBatchWrite(db, cache) ==
    [coins |-> Over(cache.cacheCoins, db.coins),
     hashBestChain |-> IF cache.pindexTip = NoBlock THEN db.hashBestChain
                       ELSE cache.pindexTip]

EmptyDB == [coins |-> [t \in Txids |-> Pruned], hashBestChain |-> NoBlock]

-----------------------------------------------------------------------------
\* The block index

\* A new entry: BLOCK_VALID_TRANSACTIONS | BLOCK_HAVE_DATA, no undo data yet.
NewIndex == [fScripts |-> FALSE, fFailedValid |-> FALSE, fFailedChild |-> FALSE,
             undo |-> NoUndo, nMoneySupply |-> 0]

\* AddToBlockIndex: the tree with a new entry for b.
AddToBlockIndex(tree, b) ==
    [c \in DOMAIN tree \cup {b} |-> IF c = b THEN NewIndex ELSE tree[c]]

Failed(entry) == entry.fFailedValid \/ entry.fFailedChild

Indexed == DOMAIN mapBlockIndex

\* WriteBlockIndex: the entries of tree are the durable ones only after a sync.
WriteTree(tree) ==
    /\ mapBlockIndex' = tree
    /\ treeImages' = IF PowerLoss THEN treeImages \cup {tree} ELSE {tree}

WriteCoins(db) ==
    /\ coinsDB' = db
    /\ coinsImages' = IF PowerLoss THEN coinsImages \cup {db} ELSE {db}

\* IsInMainChain() of all blocks: pnext set along the chain that ends in b.
MainChainTo(b) ==
    [p \in Blocks |-> IF \E c \in ChainOf(b) : Parent[c] = p
                      THEN CHOOSE c \in ChainOf(b) : Parent[c] = p
                      ELSE NoBlock]

Init ==
    /\ mapBlockIndex = <<>>
    /\ setBlockIndexValid = {}
    /\ pnext = [b \in Blocks |-> NoBlock]
    /\ pindexBest = NoBlock
    /\ pcoinsTip = EmptyCache(NoBlock)
    /\ coinsDB = EmptyDB
    /\ treeImages = {mapBlockIndex}
    /\ coinsImages = {coinsDB}
    /\ pc = "off"
    /\ fStarting = FALSE
    /\ fRequestShutdown = FALSE
    /\ fEnforced = FALSE
    /\ hashCheckpoint = NoBlock
    /\ vAttach = {}
    /\ pindexNew = NoBlock
    /\ view = EmptyCache(NoBlock)
    /\ vDisconnect = {}
    /\ vConnect = {}

-----------------------------------------------------------------------------
\* Starting up

\* VerifyDB at its default level: every block of the active chain disconnects
\* cleanly.
VerifyDB(tree, db) ==
    LET tip == db.hashBestChain
        verify(b, s) ==
            LET after == DisconnectBlock(s.coins, b, tree[b].undo)
            IN  IF tree[b].undo = NoUndo THEN [s EXCEPT !.fClean = FALSE]
                ELSE [coins |-> after.coins, fClean |-> s.fClean /\ after.fClean]
        verified[k \in 0 .. Height[tip]] ==
            IF k = 0 THEN [coins |-> db.coins, fClean |-> TRUE]
            ELSE verify(CHOOSE c \in ChainOf(tip) : Height[c] = Height[tip] - k + 1,
                        verified[k - 1])
    IN  tip \in DOMAIN tree => verified[Height[tip]].fClean

\* Mutant: only blocks that were connected before are candidates again.
Candidates_ScriptsOnly(tree) == {b \in DOMAIN tree : tree[b].fScripts /\ ~Failed(tree[b])}

\* The candidates LoadBlockIndexDB finds in the tree.
Candidates(tree) == {b \in DOMAIN tree : ~Failed(tree[b])}

\* Opening the databases makes what they read as durable: LevelDB's recovery
\* writes the log it replays to a synced table.
Start ==
    LET best == IF coinsDB.hashBestChain \in Indexed THEN coinsDB.hashBestChain
                ELSE NoBlock
        tree == IF Genesis \in Indexed THEN mapBlockIndex
                ELSE AddToBlockIndex(mapBlockIndex, Genesis)
    IN  /\ pc = "off"
        /\ VerifyDB(mapBlockIndex, coinsDB)
        /\ mapBlockIndex' = tree
        /\ treeImages' = IF PowerLoss THEN {mapBlockIndex, tree} ELSE {tree}
        /\ coinsImages' = {coinsDB}
        /\ setBlockIndexValid' = Candidates(tree)
        /\ pindexBest' = best
        /\ pnext' = MainChainTo(best)
        /\ pcoinsTip' = EmptyCache(best)
        /\ pc' = "best"
        /\ fStarting' = TRUE
        /\ fEnforced' \in EnforceModes
        /\ UNCHANGED <<coinsDB, fRequestShutdown, hashCheckpoint, handler>>

-----------------------------------------------------------------------------
\* Handlers

\* The handler is over, with the result of ConnectBestBlock; AppInit2 exits the
\* node when its call fails.
Return(fResult) ==
    /\ pc' = "idle"
    /\ fStarting' = FALSE
    /\ fRequestShutdown' = (fRequestShutdown \/ (fStarting /\ ~fResult))
    /\ hashCheckpoint' = NoBlock
    /\ UNCHANGED fEnforced
    /\ vAttach' = {}
    /\ pindexNew' = NoBlock
    /\ view' = EmptyCache(NoBlock)
    /\ vDisconnect' = {}
    /\ vConnect' = {}

\* CheckDiskSpace failed: AbortNode, and the handler returns false.
ReturnDiskFull ==
    /\ fEnforced \in DiskFullModes
    /\ pc' = "idle"
    /\ fStarting' = FALSE
    /\ fRequestShutdown' = TRUE
    /\ hashCheckpoint' = NoBlock
    /\ UNCHANGED fEnforced
    /\ vAttach' = {}
    /\ pindexNew' = NoBlock
    /\ view' = EmptyCache(NoBlock)
    /\ vDisconnect' = {}
    /\ vConnect' = {}

\* CBlock::AcceptBlock of a block that passes its checks, and AddToBlockIndex.
AcceptBlock(b) ==
    /\ pc = "idle"
    /\ b \notin Indexed
    /\ Parent[b] \in Indexed
    /\ WriteTree(AddToBlockIndex(mapBlockIndex, b))
    /\ setBlockIndexValid' = setBlockIndexValid \cup {b}
    /\ pc' = "best"
    /\ UNCHANGED <<memory, pcoinsTip, coinsDB, coinsImages, mode, handler>>

IsInMainChain(b) == pnext[b] # NoBlock \/ b = pindexBest

\* ProcessSyncCheckpoint, or AcceptPendingSyncCheckpoint after a block was processed:
\* SetBestChain for a checkpoint off the active chain, whatever its work.  Which blocks
\* a checkpoint may name is SyncCheckpoint's matter: here it may be any indexed one.
\* (ResetSyncCheckpoint has the same call, but runs when the hardened checkpoint is
\* not indexed yet or is the genesis block.)
EnforceCheckpoint(b) ==
    /\ pc = "idle"
    /\ fEnforced
    /\ b \in Indexed
    /\ ~IsInMainChain(b)
    /\ hashCheckpoint' = b
    /\ vAttach' = {b}
    /\ pc' = "switch"
    /\ UNCHANGED <<index, memory, pcoinsTip, coinsDB, disk, fStarting, fRequestShutdown,
                   fEnforced, pindexNew, view, vDisconnect, vConnect>>

\* The last of setBlockIndexValid; the comparator breaks ties by hash.
BestCandidates ==
    {b \in setBlockIndexValid :
        \A c \in setBlockIndexValid : ChainWork[c] <= ChainWork[b]}

\* The walk from b down to a block of the main chain that has a successor there,
\* or to the genesis block.
WalkFrom(b) ==
    {a \in ChainOf(b) :
        \A c \in ChainOf(b) : Height[c] > Height[a] =>
            pnext[c] = NoBlock /\ Parent[c] # NoBlock}

FailedOn(walk) == {a \in walk : Failed(mapBlockIndex[a])}

\* Mutant: a chain of equal work is preferred too.
BetterThanBest_OrEqual(b) ==
    pindexBest = NoBlock \/ ChainWork[b] >= ChainWork[pindexBest]

BetterThanBest(b) == pindexBest = NoBlock \/ ChainWork[b] > ChainWork[pindexBest]

NothingToDo(b) ==
    pindexBest # NoBlock /\ (b = pindexBest \/ ChainWork[b] = ChainWork[pindexBest])

\* ConnectBestBlock returns: there is no better candidate.
NoBetterBlock ==
    /\ pc = "best"
    /\ setBlockIndexValid = {} \/ \E b \in BestCandidates : NothingToDo(b)
    /\ Return(TRUE)
    /\ UNCHANGED <<index, memory, pcoinsTip, coinsDB, disk>>

\* The best candidate descends from a failed block.
FindFailed(b) ==
    LET failed == FailedOn(WalkFrom(b))
    IN  /\ pc = "best"
        /\ b \in BestCandidates
        /\ ~NothingToDo(b)
        /\ failed # {}
        /\ vAttach' = {a \in WalkFrom(b) : \A f \in failed : Height[a] > Height[f]}
        /\ pc' = "mark"
        /\ UNCHANGED <<index, memory, pcoinsTip, coinsDB, disk, mode,
                       pindexNew, view, vDisconnect, vConnect>>

\* "mark descendants failed", from the candidate downwards.
MarkFailedChild ==
    /\ pc = "mark"
    /\ \E b \in vAttach :
        /\ \A c \in vAttach : Height[c] <= Height[b]
        /\ WriteTree([mapBlockIndex EXCEPT ![b].fFailedChild = TRUE])
        /\ setBlockIndexValid' = setBlockIndexValid \ {b}
        /\ vAttach' = vAttach \ {b}
    /\ UNCHANGED <<memory, pcoinsTip, coinsDB, coinsImages, pc, mode,
                   pindexNew, view, vDisconnect, vConnect>>

MarkedAll ==
    /\ pc = "mark"
    /\ vAttach = {}
    /\ pc' = "best"
    /\ UNCHANGED <<index, memory, pcoinsTip, coinsDB, disk, mode, handler>>

\* The best candidate has a clean ancestry: switch to its blocks, in order.
Attach(b) ==
    /\ pc = "best"
    /\ b \in BestCandidates
    /\ ~NothingToDo(b)
    /\ FailedOn(WalkFrom(b)) = {}
    /\ vAttach' = {a \in WalkFrom(b) : BetterThanBest(a)}
    /\ pc' = "switch"
    /\ UNCHANGED <<index, memory, pcoinsTip, coinsDB, disk, mode,
                   pindexNew, view, vDisconnect, vConnect>>

SwitchedAll ==
    /\ pc = "switch"
    /\ vAttach = {}
    /\ Return(TRUE)
    /\ UNCHANGED <<index, memory, pcoinsTip, coinsDB, disk>>

\* Between two blocks, boost::this_thread::interruption_point() ends the thread;
\* others may run handlers until they come to such a point too.
Interrupt ==
    /\ pc = "switch"
    /\ vAttach # {}
    /\ hashCheckpoint = NoBlock
    /\ fRequestShutdown
    /\ ~fStarting
    /\ Return(FALSE)
    /\ UNCHANGED <<index, memory, pcoinsTip, coinsDB, disk>>

-----------------------------------------------------------------------------
\* SetBestChain

\* "Find the fork": what to disconnect and what to connect.
BeginSwitch ==
    LET new  == Lowest(vAttach)
        tip  == pcoinsTip.pindexTip
        fork == ForkOf(tip, new)
    IN  /\ pc = "switch"
        /\ vAttach # {}
        /\ pindexNew' = new
        /\ vAttach' = vAttach \ {new}
        /\ view' = EmptyCache(tip)
        /\ vDisconnect' = ChainOf(tip) \ ChainOf(fork)
        /\ vConnect' = ChainOf(new) \ ChainOf(fork)
        /\ pc' = "chain"
        /\ UNCHANGED <<index, memory, pcoinsTip, coinsDB, disk, mode>>

\* "Disconnect shorter branch": one block of it, in the view.  The error return
\* of DisconnectBlock is not taken: see DisconnectsCleanly.
Disconnect ==
    LET b     == view.pindexTip
        undo  == mapBlockIndex[b].undo
        after == DisconnectBlock(ViewCoins, b, undo)
    IN  /\ pc = "chain"
        /\ b \in vDisconnect
        /\ undo # NoUndo /\ after.fClean
        /\ view' = Cache(SetCoins(view.cacheCoins, Touched(b), after.coins), Parent[b])
        /\ UNCHANGED <<index, memory, pcoinsTip, coinsDB, disk, pc, mode,
                       vAttach, pindexNew, vDisconnect, vConnect>>

\* The next block of the longer branch.
Connecting(b) ==
    /\ pc = "chain"
    /\ view.pindexTip \notin vDisconnect
    /\ b \in vConnect
    /\ Parent[b] = view.pindexTip

\* "Special case for the genesis block, skipping connection of its transactions".
ConnectGenesis ==
    /\ Connecting(Genesis)
    /\ view' = Cache(view.cacheCoins, Genesis)
    /\ UNCHANGED <<index, memory, pcoinsTip, coinsDB, disk, pc, mode,
                   vAttach, pindexNew, vDisconnect, vConnect>>

\* Mutant: counted from the best block instead of the block's parent.
MoneySupply_FromBest(b, connected) ==
    mapBlockIndex[pindexBest].nMoneySupply + connected.nSupply

\* CBlockIndex::nMoneySupply after the block's transactions.
MoneySupply(b, connected) ==
    mapBlockIndex[Parent[b]].nMoneySupply + connected.nSupply

\* ConnectBlock succeeds: the money supply, and the undo data if there is none
\* yet, are written to the block tree.
Connect(b) ==
    LET connected == ConnectBlock(ViewCoins, b)
    IN  /\ Connecting(b)
        /\ b # Genesis
        /\ connected.fValid
        /\ WriteTree([mapBlockIndex EXCEPT
                ![b].nMoneySupply = MoneySupply(b, connected),
                ![b].undo = IF @ = NoUndo THEN connected.vtxundo ELSE @,
                ![b].fScripts = TRUE])
        /\ view' = Cache(SetCoins(view.cacheCoins, Touched(b), connected.coins), b)
        /\ UNCHANGED <<setBlockIndexValid, memory, pcoinsTip, coinsDB, coinsImages, pc,
                       mode, vAttach, pindexNew, vDisconnect, vConnect>>

\* Mutant: the invalid block stays a candidate.
ConnectFails_KeepsCandidate(b) ==
    LET connected == ConnectBlock(ViewCoins, b)
    IN  /\ Connecting(b)
        /\ b # Genesis
        /\ ~connected.fValid
        /\ WriteTree([mapBlockIndex EXCEPT ![b].fFailedValid = TRUE])
        /\ Return(FALSE)
        /\ UNCHANGED <<setBlockIndexValid, memory, pcoinsTip, coinsDB, coinsImages>>

\* ConnectBlock finds the block invalid: InvalidBlockFound, and SetBestChain and
\* ConnectBestBlock return false.
ConnectFails(b) ==
    LET connected == ConnectBlock(ViewCoins, b)
    IN  /\ Connecting(b)
        /\ b # Genesis
        /\ ~connected.fValid
        /\ WriteTree([mapBlockIndex EXCEPT
                ![b].nMoneySupply = IF connected.fOk THEN MoneySupply(b, connected) ELSE @,
                ![b].fFailedValid = TRUE])
        /\ setBlockIndexValid' = setBlockIndexValid \ {b}
        /\ Return(FALSE)
        /\ UNCHANGED <<memory, pcoinsTip, coinsDB, coinsImages>>

\* FindUndoPos finds no disk space for the undo data of a valid block.
ConnectDiskFull(b) ==
    LET connected == ConnectBlock(ViewCoins, b)
    IN  /\ Connecting(b)
        /\ b # Genesis
        /\ connected.fValid
        /\ mapBlockIndex[b].undo = NoUndo
        /\ WriteTree([mapBlockIndex EXCEPT ![b].nMoneySupply = MoneySupply(b, connected)])
        /\ ReturnDiskFull
        /\ UNCHANGED <<setBlockIndexValid, memory, pcoinsTip, coinsDB, coinsImages>>

\* The thread is interrupted while it waits for the script checks of the block.
InterruptConnect(b) ==
    LET connected == ConnectBlock(ViewCoins, b)
    IN  /\ Connecting(b)
        /\ b # Genesis
        /\ connected.fOk
        /\ fRequestShutdown
        /\ ~fStarting
        /\ WriteTree([mapBlockIndex EXCEPT ![b].nMoneySupply = MoneySupply(b, connected)])
        /\ Return(FALSE)
        /\ UNCHANGED <<setBlockIndexValid, memory, pcoinsTip, coinsDB, coinsImages>>

\* Mutant: the block tree is not synced before the coins are written.
FlushView_NoSync(fFlush) ==
    LET tip == BatchWrite(pcoinsTip, view)
    IN  /\ pc = "chain"
        /\ view.pindexTip = pindexNew
        /\ IF fFlush
           THEN /\ WriteCoins(DBBatchWrite(coinsDB, tip))
                /\ pcoinsTip' = EmptyCache(tip.pindexTip)
                /\ UNCHANGED treeImages
           ELSE /\ pcoinsTip' = tip
                /\ UNCHANGED <<coinsDB, disk>>
        /\ pc' = "update"
        /\ UNCHANGED <<index, memory, mode, handler>>

\* "Flush changes to global coin state", to disk too when flushing is due:
\* FlushBlockFile and Sync come before the coin database is written.
FlushView(fFlush) ==
    LET tip == BatchWrite(pcoinsTip, view)
    IN  /\ pc = "chain"
        /\ view.pindexTip = pindexNew
        /\ IF fFlush
           THEN /\ treeImages' = {mapBlockIndex}
                /\ WriteCoins(DBBatchWrite(coinsDB, tip))
                /\ pcoinsTip' = EmptyCache(tip.pindexTip)
           ELSE /\ pcoinsTip' = tip
                /\ UNCHANGED <<coinsDB, disk>>
        /\ pc' = "update"
        /\ UNCHANGED <<index, memory, mode, handler>>

\* CheckDiskSpace fails after the view was flushed to the coin cache.
FlushDiskFull ==
    /\ pc = "chain"
    /\ view.pindexTip = pindexNew
    /\ TRUE \in FlushModes
    /\ pcoinsTip' = BatchWrite(pcoinsTip, view)
    /\ ReturnDiskFull
    /\ UNCHANGED <<index, memory, coinsDB, disk>>

\* The pnext pointers after the switch.
NextAfterSwitch ==
    [p \in Blocks |->
        IF \E b \in vConnect : Parent[b] = p
        THEN CHOOSE b \in vConnect : Parent[b] = p
        ELSE IF \E b \in vDisconnect : Parent[b] = p THEN NoBlock ELSE pnext[p]]

\* "Proceed by updating the memory structures."
UpdateMemory ==
    /\ pc = "update"
    /\ pnext' = NextAfterSwitch
    /\ pindexBest' = pindexNew
    /\ pc' = "switch"
    /\ pindexNew' = NoBlock
    /\ view' = EmptyCache(NoBlock)
    /\ vDisconnect' = {}
    /\ vConnect' = {}
    /\ UNCHANGED <<index, pcoinsTip, coinsDB, disk, mode, vAttach>>

-----------------------------------------------------------------------------
\* Stopping

PowerOff ==
    /\ setBlockIndexValid' = {}
    /\ pnext' = [b \in Blocks |-> NoBlock]
    /\ pindexBest' = NoBlock
    /\ pcoinsTip' = EmptyCache(NoBlock)
    /\ pc' = "off"
    /\ fStarting' = FALSE
    /\ fRequestShutdown' = FALSE
    /\ fEnforced' = FALSE
    /\ hashCheckpoint' = NoBlock
    /\ vAttach' = {}
    /\ pindexNew' = NoBlock
    /\ view' = EmptyCache(NoBlock)
    /\ vDisconnect' = {}
    /\ vConnect' = {}

\* StartShutdown: a signal, or the stop RPC, at any time.
StartShutdown ==
    /\ pc # "off"
    /\ ~fRequestShutdown
    /\ fRequestShutdown' = TRUE
    /\ UNCHANGED <<index, memory, pcoinsTip, coinsDB, disk, pc, fStarting,
                   fEnforced, hashCheckpoint, handler>>

\* Shutdown(), under cs_main: pblocktree->Flush() is empty for LevelDB, then the
\* coin cache is written.
Shutdown ==
    /\ pc = "idle"
    /\ fRequestShutdown
    /\ WriteCoins(DBBatchWrite(coinsDB, pcoinsTip))
    /\ UNCHANGED <<mapBlockIndex, treeImages>>
    /\ PowerOff

\* The process is killed, or the power fails: each database reads as one of its
\* images.
Crash ==
    /\ pc # "off" \/ PowerLoss
    /\ \E tree \in treeImages, db \in coinsImages :
        /\ mapBlockIndex' = tree
        /\ treeImages' = {tree}
        /\ coinsDB' = db
        /\ coinsImages' = {db}
    /\ PowerOff

-----------------------------------------------------------------------------

HandlerStep ==
    \/ NoBetterBlock \/ MarkFailedChild \/ MarkedAll \/ SwitchedAll
    \/ \E b \in Blocks : FindFailed(b) \/ Attach(b)
    \/ Interrupt \/ BeginSwitch \/ Disconnect \/ ConnectGenesis
    \/ \E b \in Blocks : Connect(b) \/ ConnectFails(b) \/ ConnectDiskFull(b) \/ InterruptConnect(b)
    \/ \E fFlush \in FlushModes : FlushView(fFlush)
    \/ FlushDiskFull \/ UpdateMemory

Next ==
    \/ Start
    \/ \E b \in Blocks : AcceptBlock(b) \/ EnforceCheckpoint(b)
    \/ HandlerStep
    \/ StartShutdown \/ Shutdown \/ Crash

Spec == Init /\ [][Next]_vars

HandlerRuns == pc \notin {"off", "idle"}

\* cs_main is released only by a handler that returns, and nothing it waits for needs
\* another thread to take cs_main: while a handler runs, steps are taken.  (This is
\* WF_vars(HandlerStep): a handler that runs can take a step, and between its steps
\* there is at most one StartShutdown.  TLC evaluates it much faster.)
FairSpec == Spec /\ ([]<>~HandlerRuns \/ []<><<HandlerRuns>>_vars)
=============================================================================
