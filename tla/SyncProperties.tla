---------------------------- MODULE SyncProperties ----------------------------
(***************************************************************************)
(* What synchronized checkpoints promise.                                  *)
(***************************************************************************)
EXTENDS SyncCheckpoint

MaybeBlock == Blocks \cup {NoBlock}

Trees == [indexed : SUBSET Blocks, failed : SUBSET InvalidBlocks,
          hashSyncCheckpoint : MaybeBlock, key : MasterKeys \cup {NoKey}]

\* The types of the variables.
TypeOK ==
    /\ blocktree \in Trees
    /\ treeImages \subseteq Trees /\ blocktree \in treeImages
    /\ dbBest \in MaybeBlock
    /\ pindexBest \in MaybeBlock
    /\ hashSyncCheckpoint \in MaybeBlock /\ hashConnectedBlock \in MaybeBlock
    /\ hashPendingCheckpoint \in MaybeBlock
    /\ checkpointMessage \in MaybeBlock /\ checkpointMessagePending \in MaybeBlock
    /\ strCheckpointWarning \in BOOLEAN
    /\ mode \in Modes /\ strMasterPubKey \in MasterKeys
    /\ pc \in {"off", "init", "key", "reset", "connect", "attach", "check", "pending",
               "accepted", "process", "idle", "stopping"}
    /\ caller \in {"start", "block", "orphan"}
    /\ vAttach \subseteq Blocks
    /\ hashCheckpoint \in MaybeBlock

\* LoadBlockIndexDB has run, and InitBlockIndex.
Running == pc \notin {"off", "init", "key", "reset"}

\* What CheckSyncCheckpoint is for: b is on the checkpoint's chain, or is an accepted
\* block lower than the checkpoint.
OnCheckpointChain(b) ==
    \/ hashSyncCheckpoint \in ChainOf(b)
    \/ Height[b] < Height[hashSyncCheckpoint] /\ b \in Indexed

\* Whatever blocks were checked before and whatever checkpoints were accepted since,
\* the shortcut through hashConnectedBlock gives the answer of the whole walk.
CheckIsRight ==
    Running /\ hashSyncCheckpoint \in Indexed =>
        \A b \in Blocks \ {Genesis} :
            Parent[b] \in Indexed => (CheckSyncCheckpoint(b) <=> OnCheckpointChain(b))

\* What is relayed to a peer is the accepted checkpoint, and what is going to be
\* relayed the pending one.
RelaysAccepted ==
    /\ checkpointMessage \in {NoBlock, hashSyncCheckpoint}
    /\ checkpointMessagePending \in {NoBlock, hashPendingCheckpoint}

\* Once its block has arrived, a checkpoint is pending no more when the handler is
\* over, unless a block turned out to be invalid.
PendingIsMissing ==
    pc = "idle" /\ hashPendingCheckpoint \in Indexed => blocktree.failed # {}

\* The checkpoint a restart would find is replaced only by descendants, across crashes
\* and power failures.
OnlyDescendants ==
    [][\A old \in treeImages, new \in treeImages' :
            \/ old.hashSyncCheckpoint = NoBlock
            \/ old.hashSyncCheckpoint \in ChainOf(new.hashSyncCheckpoint)]_vars

=============================================================================
