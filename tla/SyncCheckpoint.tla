---------------------------- MODULE SyncCheckpoint ----------------------------
(***************************************************************************)
(* Synchronized checkpoints (checkpointsync.cpp, with its callers in       *)
(* main.cpp): the holder of a master key broadcasts signed checkpoints; a  *)
(* node keeps the last one it accepted, keeps one it lacks the block of as *)
(* pending, and either warns when its chain does not contain the accepted  *)
(* one (advisory mode) or rejects blocks that do not descend from it and   *)
(* switches to its chain (enforce mode, and the master itself).            *)
(*                                                                         *)
(* The chain is that of ChainState with less detail: which blocks are      *)
(* indexed, which were found invalid and which is the best; SetBestChain   *)
(* is one step, and blocks with a failed ancestor are no candidates.       *)
(* Handlers run under cs_main, and are cut where the process may die       *)
(* between two writes.  hashInvalidCheckpoint, which nothing reads, is     *)
(* left out.  pc, between the steps of a handler:                          *)
(*                                                                         *)
(*   "off"      no process            "connect"  ConnectBestBlock          *)
(*   "init"     InitBlockIndex, after "attach"   its loop over vAttach     *)
(*              the genesis block     "check"    SetBestChain, at the end  *)
(*   "key"      CheckCheckpointPubKey "pending"  AcceptPendingSyncCheckp.. *)
(*   "reset"    ResetSyncCheckpoint   "accepted" ProcessBlock, after that  *)
(*   "idle"     no handler            "process"  ProcessSyncCheckpoint     *)
(*   "stopping" AppInit2 failed                                            *)
(***************************************************************************)
EXTENDS BlockTree, FiniteSets

CONSTANTS
    InvalidBlocks,    \* the blocks ConnectBlock rejects
    Hardened,         \* Checkpoints::mapCheckpoints
    Signed,           \* the checkpoints in messages the master key signed
    NoKey,            \* no checkpoint master key in the database
    MasterKeys,       \* the master keys of the versions that run on this database
    Modes,            \* how the node may be configured
    nCheckpointDepth, \* -checkpointdepth
    FlushModes,       \* whether SetBestChain flushes the coins
    CrashPoints,      \* where the process may die: "init", "run"
    PowerLoss         \* unsynced database writes can be lost

ASSUME SyncAssumption ==
    /\ InvalidBlocks \subseteq Blocks \ {Genesis}
    /\ Genesis \in Hardened /\ Hardened \subseteq Blocks
    /\ Signed \subseteq Blocks
    /\ NoKey \notin MasterKeys
    /\ Modes \subseteq {"advisory", "enforce", "master"}
    /\ nCheckpointDepth \in Nat
    /\ FlushModes \in (SUBSET BOOLEAN) \ {{}}
    /\ CrashPoints \subseteq {"init", "run"}
    /\ PowerLoss \in BOOLEAN
    /\ PowerLoss => FlushModes = {TRUE}

VARIABLES
    blocktree,                \* the block tree database, and the index in memory
    treeImages,               \* what the database may read as after a failure
    dbBest,                   \* the best block of the coin database
    pindexBest,
    hashSyncCheckpoint,
    hashConnectedBlock,       \* the last block found to descend from it
    hashPendingCheckpoint,
    checkpointMessage,        \* what is relayed to peers
    checkpointMessagePending,
    strCheckpointWarning,     \* whether it is not empty
    mode,
    strMasterPubKey,
    pc,
    caller,                   \* of ConnectBestBlock: AppInit2, AcceptBlock
    vAttach,
    hashCheckpoint            \* the checkpoint ProcessSyncCheckpoint works on

disk    == <<blocktree, treeImages, dbBest>>
sync    == <<hashSyncCheckpoint, hashConnectedBlock>>
pending == <<hashPendingCheckpoint, checkpointMessagePending>>
config  == <<mode, strMasterPubKey>>
handler == <<caller, vAttach, hashCheckpoint>>
vars == <<disk, pindexBest, sync, pending, checkpointMessage, strCheckpointWarning,
          config, pc, handler>>

\* A database without a block.
EmptyTree == [indexed |-> {}, failed |-> {}, hashSyncCheckpoint |-> NoBlock, key |-> NoKey]

Indexed == blocktree.indexed

IsInMainChain(b) == b \in ChainOf(pindexBest)

AncestorAt(b, n) == CHOOSE a \in ChainOf(b) : Height[a] = n

\* IsSyncCheckpointEnforced: the master node always enforces.
Enforced == mode \in {"enforce", "master"}

WriteTree(tree) ==
    /\ blocktree' = tree
    /\ treeImages' = IF PowerLoss THEN treeImages \cup {tree} ELSE {tree}

Init ==
    /\ blocktree = EmptyTree /\ treeImages = {EmptyTree} /\ dbBest = NoBlock
    /\ pindexBest = NoBlock
    /\ hashSyncCheckpoint = NoBlock /\ hashConnectedBlock = NoBlock
    /\ hashPendingCheckpoint = NoBlock /\ checkpointMessagePending = NoBlock
    /\ checkpointMessage = NoBlock
    /\ strCheckpointWarning = FALSE
    /\ mode \in Modes /\ strMasterPubKey \in MasterKeys
    /\ pc = "off"
    /\ caller = "start" /\ vAttach = {} /\ hashCheckpoint = NoBlock

-----------------------------------------------------------------------------
\* The accepted checkpoint

\* "only descendant of current sync-checkpoint is allowed"
ValidateSyncCheckpoint(h) ==
    /\ {hashSyncCheckpoint, h} \subseteq Indexed
    /\ Height[h] > Height[hashSyncCheckpoint]
    /\ AncestorAt(h, Height[hashSyncCheckpoint]) = hashSyncCheckpoint

\* Mutant: the memo is kept when the checkpoint changes.
WriteSyncCheckpoint_KeepsMemo(h) ==
    /\ blocktree' = [blocktree EXCEPT !.hashSyncCheckpoint = h]
    /\ treeImages' = {blocktree'}
    /\ hashSyncCheckpoint' = h
    /\ hashConnectedBlock' = IF hashConnectedBlock = NoBlock THEN h ELSE hashConnectedBlock

\* Mutant: the write is not synced.
WriteSyncCheckpoint_NoSync(h) ==
    /\ WriteTree([blocktree EXCEPT !.hashSyncCheckpoint = h])
    /\ hashSyncCheckpoint' = h
    /\ hashConnectedBlock' = h

\* The write is synced before the globals change.
WriteSyncCheckpoint(h) ==
    /\ blocktree' = [blocktree EXCEPT !.hashSyncCheckpoint = h]
    /\ treeImages' = {blocktree'}
    /\ hashSyncCheckpoint' = h
    /\ hashConnectedBlock' = h

\* The block CheckSyncCheckpoint has walked to from b's parent when it compares
\* with hashConnectedBlock.
WalkedTo(b) ==
    IF hashConnectedBlock \in Indexed /\ Height[Parent[b]] > Height[hashConnectedBlock]
    THEN AncestorAt(Parent[b], Height[hashConnectedBlock])
    ELSE Parent[b]

\* fIsConnected, or else the walk goes on to the height of the checkpoint.
Connected(b) ==
    \/ hashConnectedBlock \in Indexed /\ WalkedTo(b) = hashConnectedBlock
    \/ /\ Height[WalkedTo(b)] >= Height[hashSyncCheckpoint]
       /\ AncestorAt(WalkedTo(b), Height[hashSyncCheckpoint]) = hashSyncCheckpoint

\* The result of CheckSyncCheckpoint for b and its parent.
CheckSyncCheckpoint(b) ==
    \/ Height[b] > Height[hashSyncCheckpoint] /\ Connected(b)
    \/ b = hashSyncCheckpoint
    \/ Height[b] < Height[hashSyncCheckpoint] /\ b \in Indexed

\* hashConnectedBlock after it.
ConnectedAfter(b) ==
    IF CheckSyncCheckpoint(b) /\ Height[b] > Height[hashSyncCheckpoint]
    THEN Parent[b] ELSE hashConnectedBlock

-----------------------------------------------------------------------------
\* SetBestChain

\* The invalid blocks that SetBestChain would have to connect.
InvalidOn(new) == (ChainOf(new) \ ChainOf(pindexBest)) \cap InvalidBlocks

\* Everything connects; the coins, after the block tree is synced, are flushed.
BestBecomes(new, fFlush) ==
    /\ InvalidOn(new) = {}
    /\ pindexBest' = new
    /\ dbBest' = IF fFlush THEN new ELSE dbBest
    /\ treeImages' = IF fFlush THEN {blocktree} ELSE treeImages
    /\ UNCHANGED blocktree

\* ConnectBlock rejects the first invalid block: InvalidBlockFound.
BestFails(new) ==
    /\ InvalidOn(new) # {}
    /\ WriteTree([blocktree EXCEPT !.failed = @ \cup {Lowest(InvalidOn(new))}])
    /\ UNCHANGED <<dbBest, pindexBest>>

-----------------------------------------------------------------------------
\* ConnectBestBlock

Candidates == {b \in Indexed : ChainOf(b) \cap blocktree.failed = {}}

BestCandidates == {b \in Candidates : \A c \in Candidates : ChainWork[c] <= ChainWork[b]}

\* ConnectBestBlock returns fResult to its caller.
ReturnBest(fResult) ==
    /\ pc' = CASE caller = "start"  -> IF fResult THEN "idle" ELSE "stopping"
               [] caller = "block"  -> IF fResult THEN "pending" ELSE "idle"
               [] caller = "orphan" -> IF fResult THEN "pending" ELSE "accepted"
    /\ vAttach' = {}
    /\ UNCHANGED <<caller, hashCheckpoint>>

NothingBetter ==
    /\ pc = "connect"
    /\ \E b \in BestCandidates : WorkOf(b) = WorkOf(pindexBest)
    /\ ReturnBest(TRUE)
    /\ UNCHANGED <<disk, pindexBest, sync, pending, checkpointMessage, strCheckpointWarning,
                   config>>

Attach(b) ==
    /\ pc = "connect"
    /\ b \in BestCandidates
    /\ WorkOf(b) # WorkOf(pindexBest)
    /\ vAttach' = {a \in ChainOf(b) : WorkOf(a) > WorkOf(pindexBest)}
    /\ pc' = "attach"
    /\ UNCHANGED <<disk, pindexBest, sync, pending, checkpointMessage, strCheckpointWarning,
                   config, caller, hashCheckpoint>>

\* SetBestChain of the next block; in advisory mode it checks the new best block.
AttachNext(fFlush) ==
    LET new == Lowest(vAttach)
    IN  /\ pc = "attach"
        /\ vAttach # {}
        /\ BestBecomes(new, fFlush)
        /\ vAttach' = vAttach \ {new}
        /\ pc' = IF Enforced THEN "attach" ELSE "check"
        /\ UNCHANGED <<sync, pending, checkpointMessage, strCheckpointWarning, config,
                       caller, hashCheckpoint>>

AttachFails ==
    /\ pc = "attach"
    /\ vAttach # {}
    /\ BestFails(Lowest(vAttach))
    /\ ReturnBest(FALSE)
    /\ UNCHANGED <<sync, pending, checkpointMessage, strCheckpointWarning, config>>

AttachedAll ==
    /\ pc = "attach"
    /\ vAttach = {}
    /\ ReturnBest(TRUE)
    /\ UNCHANGED <<disk, pindexBest, sync, pending, checkpointMessage, strCheckpointWarning,
                   config>>

WarningFor(best) == best # Genesis /\ ~CheckSyncCheckpoint(best)

\* The end of SetBestChain, in advisory mode.
CheckBest ==
    /\ pc = "check"
    /\ pindexBest # Genesis => hashSyncCheckpoint \in Indexed
    /\ strCheckpointWarning' = WarningFor(pindexBest)
    /\ hashConnectedBlock' = IF pindexBest = Genesis THEN hashConnectedBlock
                             ELSE ConnectedAfter(pindexBest)
    /\ pc' = "attach"
    /\ UNCHANGED <<disk, pindexBest, hashSyncCheckpoint, pending, checkpointMessage, config,
                   handler>>

-----------------------------------------------------------------------------
\* Starting up

\* The globals of a process that begins.
NewProcess ==
    /\ hashPendingCheckpoint' = NoBlock /\ checkpointMessagePending' = NoBlock
    /\ checkpointMessage' = NoBlock
    /\ strCheckpointWarning' = FALSE
    /\ hashConnectedBlock' = NoBlock
    /\ vAttach' = {} /\ hashCheckpoint' = NoBlock
    /\ caller' = "start"

\* LoadBlockIndexDB; InitBlockIndex finds a genesis block and returns.
Start ==
    /\ pc = "off"
    /\ Indexed # {}
    /\ hashSyncCheckpoint' = blocktree.hashSyncCheckpoint
    /\ pindexBest' = dbBest
    /\ treeImages' = {blocktree}
    /\ mode' \in Modes /\ strMasterPubKey' \in MasterKeys
    /\ NewProcess
    /\ pc' = "connect"
    /\ UNCHANGED <<blocktree, dbBest>>

\* InitBlockIndex adds the genesis block, which becomes the best block.
FirstStart(fFlush) ==
    /\ pc = "off"
    /\ Indexed = {}
    /\ blocktree' = [blocktree EXCEPT !.indexed = {Genesis}]
    /\ treeImages' = IF PowerLoss /\ ~fFlush THEN treeImages \cup {blocktree'} ELSE {blocktree'}
    /\ pindexBest' = Genesis
    /\ dbBest' = IF fFlush THEN Genesis ELSE NoBlock
    /\ hashSyncCheckpoint' = NoBlock
    /\ mode' \in Modes /\ strMasterPubKey' \in MasterKeys
    /\ NewProcess
    /\ pc' = "init"

\* "initialize synchronized checkpoint"
InitCheckpoint ==
    /\ pc = "init"
    /\ WriteSyncCheckpoint(Genesis)
    /\ pc' = "key"
    /\ UNCHANGED <<dbBest, pindexBest, pending, checkpointMessage, strCheckpointWarning,
                   config, handler>>

\* "Verify sync checkpoint master pubkey"; the write is synced.
CheckCheckpointPubKey ==
    /\ pc = "key"
    /\ pc' = IF blocktree.key = strMasterPubKey THEN "connect" ELSE "reset"
    /\ blocktree' = [blocktree EXCEPT !.key = strMasterPubKey]
    /\ treeImages' = {blocktree'}
    /\ UNCHANGED <<dbBest, pindexBest, sync, pending, checkpointMessage, strCheckpointWarning,
                   config, handler>>

LatestHardened == CHOOSE h \in Hardened : \A k \in Hardened : Height[k] <= Height[h]

\* "reset synchronized checkpoint to last hardened checkpoint".  Only the genesis
\* block is indexed here, so the branch with SetBestChain is not taken.
ResetSyncCheckpoint ==
    LET known == LatestHardened \in Indexed
    IN  /\ pc = "reset"
        /\ known => IsInMainChain(LatestHardened)
        /\ hashPendingCheckpoint' = IF known THEN hashPendingCheckpoint ELSE LatestHardened
        /\ checkpointMessagePending' = IF known THEN checkpointMessagePending ELSE NoBlock
        /\ WriteSyncCheckpoint(IF known THEN LatestHardened ELSE Genesis)
        /\ pc' = "connect"
        /\ UNCHANGED <<dbBest, pindexBest, checkpointMessage, strCheckpointWarning, config,
                       handler>>

-----------------------------------------------------------------------------
\* Blocks

\* What AcceptBlock has to check b against the checkpoints for.
Acceptable(b) ==
    /\ b \notin Indexed
    /\ Parent[b] \in Indexed
    /\ \A h \in Hardened : Height[h] = Height[b] => h = b

\* AcceptBlock and AddToBlockIndex, up to ConnectBestBlock: of the block in hand, or
\* of orphans that waited for it.  Which orphans is left open: the blocks that come
\* without a peer, one after the other, have the same effect.
AcceptBlock(b) ==
    /\ pc \in {"idle", "accepted"}
    /\ Acceptable(b)
    /\ Enforced => hashSyncCheckpoint \in Indexed /\ CheckSyncCheckpoint(b)
    /\ hashConnectedBlock' = IF Enforced THEN ConnectedAfter(b) ELSE hashConnectedBlock
    /\ WriteTree([blocktree EXCEPT !.indexed = @ \cup {b}])
    /\ caller' = IF pc = "idle" THEN "block" ELSE "orphan"
    /\ pc' = "connect"
    /\ UNCHANGED <<dbBest, pindexBest, hashSyncCheckpoint, pending, checkpointMessage,
                   strCheckpointWarning, config, vAttach, hashCheckpoint>>

-----------------------------------------------------------------------------
\* Checkpoints

\* ProcessSyncCheckpoint of a signed message for a block the node does not have.
KeepPending(h) ==
    /\ pc = "idle"
    /\ h \in Signed \ Indexed
    /\ hashPendingCheckpoint' = h
    /\ checkpointMessagePending' = h
    /\ UNCHANGED <<disk, pindexBest, sync, checkpointMessage, strCheckpointWarning, config,
                   pc, handler>>

\* ProcessSyncCheckpoint of a signed message; nothing changes unless it is valid.
Receive(h) ==
    /\ pc = "idle"
    /\ h \in Signed
    /\ ValidateSyncCheckpoint(h)
    /\ hashCheckpoint' = h
    /\ pc' = "process"
    /\ UNCHANGED <<disk, pindexBest, sync, pending, checkpointMessage, strCheckpointWarning,
                   config, caller, vAttach>>

\* AutoSelectSyncCheckpoint: "Search backward for a block with specified depth".
AutoSelectSyncCheckpoint ==
    AncestorAt(pindexBest,
        IF Height[pindexBest] > nCheckpointDepth THEN Height[pindexBest] - nCheckpointDepth
                                                 ELSE 0)

\* ProcessBlock on the master node, after a block from a peer: SendSyncCheckpoint.  A
\* master with the default -checkpointdepth=-1 does not, as in mode "enforce".
Send ==
    /\ pc = "accepted"
    /\ mode = "master"
    /\ ValidateSyncCheckpoint(AutoSelectSyncCheckpoint)
    /\ hashCheckpoint' = AutoSelectSyncCheckpoint
    /\ pc' = "process"
    /\ UNCHANGED <<disk, pindexBest, sync, pending, checkpointMessage, strCheckpointWarning,
                   config, caller, vAttach>>

\* ProcessBlock returns without a new checkpoint: there is none to send, or the block
\* did not come from a peer.
Finish ==
    /\ pc = "accepted"
    /\ pc' = "idle"
    /\ UNCHANGED <<disk, pindexBest, sync, pending, checkpointMessage, strCheckpointWarning,
                   config, handler>>

\* Mutant: a pending checkpoint is looked at only when its block arrives.
NoPending_OtherBlock ==
    /\ pc = "pending"
    /\ hashPendingCheckpoint # pindexBest
    /\ pc' = "accepted"
    /\ UNCHANGED <<disk, pindexBest, sync, pending, checkpointMessage, strCheckpointWarning,
                   config, handler>>

\* AcceptPendingSyncCheckpoint: none, or its block has not arrived.
NoPending ==
    /\ pc = "pending"
    /\ hashPendingCheckpoint \notin Indexed
    /\ pc' = "accepted"
    /\ UNCHANGED <<disk, pindexBest, sync, pending, checkpointMessage, strCheckpointWarning,
                   config, handler>>

RejectPending ==
    /\ pc = "pending"
    /\ hashPendingCheckpoint \in Indexed
    /\ ~ValidateSyncCheckpoint(hashPendingCheckpoint)
    /\ hashPendingCheckpoint' = NoBlock
    /\ checkpointMessagePending' = NoBlock
    /\ pc' = "accepted"
    /\ UNCHANGED <<disk, pindexBest, sync, checkpointMessage, strCheckpointWarning, config,
                   handler>>

\* AcceptPendingSyncCheckpoint or ProcessSyncCheckpoint have a valid checkpoint h.
InHand(h) ==
    \/ pc = "pending" /\ h = hashPendingCheckpoint /\ ValidateSyncCheckpoint(h)
    \/ pc = "process" /\ h = hashCheckpoint

MustSwitchTo(h) == Enforced /\ ~IsInMainChain(h)

\* The handler with h in hand is over.
Processed ==
    /\ pc' = IF pc = "pending" THEN "accepted" ELSE "idle"
    /\ hashCheckpoint' = NoBlock

\* "checkpoint chain received but not yet main chain": SetBestChain.
SwitchToCheckpoint(h, fFlush) ==
    /\ InHand(h)
    /\ MustSwitchTo(h)
    /\ BestBecomes(h, fFlush)
    /\ UNCHANGED <<sync, pending, checkpointMessage, strCheckpointWarning, config, pc, handler>>

\* SetBestChain fails for the checkpoint's chain; a pending one stays pending.
SwitchFails(h) ==
    /\ InHand(h)
    /\ MustSwitchTo(h)
    /\ BestFails(h)
    /\ Processed
    /\ UNCHANGED <<sync, pending, checkpointMessage, strCheckpointWarning, config, caller, vAttach>>

\* Mutant: the message of a checkpoint that was pending is not kept for the relay.
MessageFor_Old(h) == IF pc = "pending" THEN checkpointMessage ELSE h

\* The message that is relayed from now on: none for a hardened checkpoint.
MessageFor(h) == IF pc = "pending" THEN checkpointMessagePending ELSE h

AcceptCheckpoint(h) ==
    /\ InHand(h)
    /\ ~MustSwitchTo(h)
    /\ WriteSyncCheckpoint(h)
    /\ checkpointMessage' = MessageFor(h)
    /\ hashPendingCheckpoint' = NoBlock
    /\ checkpointMessagePending' = NoBlock
    /\ Processed
    /\ UNCHANGED <<dbBest, pindexBest, strCheckpointWarning, config, caller, vAttach>>

-----------------------------------------------------------------------------
\* Stopping

PowerOff ==
    /\ pindexBest' = NoBlock
    /\ hashSyncCheckpoint' = NoBlock
    /\ NewProcess
    /\ pc' = "off"
    /\ UNCHANGED config

\* Shutdown() writes the coins; a power failure may follow.
Shutdown ==
    /\ pc \in {"idle", "stopping"}
    /\ dbBest' = pindexBest
    /\ PowerOff
    /\ UNCHANGED <<blocktree, treeImages>>

CanDie ==
    \/ pc \in {"init", "key", "reset"} /\ "init" \in CrashPoints
    \/ pc \notin {"init", "key", "reset", "off"} /\ "run" \in CrashPoints
    \/ pc = "off" /\ PowerLoss

\* The process is killed, or the power fails.
Crash ==
    /\ CanDie
    /\ \E tree \in treeImages :
        /\ blocktree' = tree
        /\ treeImages' = {tree}
    /\ PowerOff
    /\ UNCHANGED dbBest

\* CheckSyncCheckpoint's "sync-checkpoint should always be accepted block" fails.
AssertFails ==
    /\ hashSyncCheckpoint \notin Indexed
    /\ \/ pc = "check" /\ pindexBest # Genesis
       \/ pc \in {"idle", "accepted"} /\ Enforced /\ \E b \in Blocks : Acceptable(b)
    /\ PowerOff
    /\ UNCHANGED disk

-----------------------------------------------------------------------------

Next ==
    \/ Start \/ InitCheckpoint \/ CheckCheckpointPubKey \/ ResetSyncCheckpoint
    \/ \E fFlush \in FlushModes :
        \/ FirstStart(fFlush) \/ AttachNext(fFlush)
        \/ \E h \in Blocks : SwitchToCheckpoint(h, fFlush)
    \/ NothingBetter \/ AttachFails \/ AttachedAll \/ CheckBest
    \/ Send \/ Finish \/ NoPending \/ RejectPending
    \/ \E b \in Blocks :
        \/ Attach(b) \/ AcceptBlock(b) \/ KeepPending(b) \/ Receive(b)
        \/ SwitchFails(b) \/ AcceptCheckpoint(b)
    \/ Shutdown \/ Crash \/ AssertFails

Spec == Init /\ [][Next]_vars
=============================================================================
