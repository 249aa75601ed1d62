----------------------------- MODULE Sync_proofs -----------------------------
(***************************************************************************)
(* For every tree of blocks and every order of blocks, checkpoints and     *)
(* failures: the memo of CheckSyncCheckpoint never changes its answer, and *)
(* only descendants replace an accepted checkpoint.  And for all nodes and *)
(* links: a block that a node was told of is not forgotten.  Of            *)
(* Coins_proofs only the facts about chains and folds are used.            *)
(***************************************************************************)
EXTENDS SyncProperties, BlockSync, Coins_proofs

-----------------------------------------------------------------------------
\* Ancestors by height

\* The walk along pprev meets a block at every height below its start.
LEMMA AncestorExists ==
    ASSUME NEW b \in Blocks, NEW n \in Nat, n <= Height[b]
    PROVE  \E a \in Ancestry[b] : Height[a] = n
<1> DEFINE Bad == {c \in Blocks : n <= Height[c] /\ \A a \in Ancestry[c] : Height[a] # n}
<1>1. ASSUME Bad # {} PROVE FALSE
    <2>1. PICK c \in Bad : \A d \in Bad : Height[c] <= Height[d]
        <3>1. Bad \in SUBSET Blocks
            OBVIOUS
        <3> QED
            BY <1>1, <3>1, LowestExists
    <2>2. c \in Ancestry[c] /\ Height[c] \in Nat
        BY SelfOnChain, BlockTreeAssumption
    <2>3. Height[c] > n
        BY <2>2
    <2>4. c # Genesis
        BY <2>3, GenesisAssumption
    <2>5. /\ Parent[c] \in Blocks
          /\ Height[c] = Height[Parent[c]] + 1
          /\ Ancestry[c] = {c} \cup Ancestry[Parent[c]]
        <3>1. c \in Blocks \ {Genesis}
            BY <2>4
        <3> QED
            BY <3>1, ChildAssumption
    <2>6. Height[Parent[c]] \in Nat
        BY <2>5, BlockTreeAssumption
    <2>7. n <= Height[Parent[c]] /\ Height[Parent[c]] < Height[c]
        BY <2>2, <2>3, <2>5, <2>6
    <2>8. Parent[c] \in Bad
        BY <2>5, <2>7
    <2> QED
        BY <2>1, <2>2, <2>6, <2>7, <2>8
<1>2. b \notin Bad
    BY <1>1
<1> QED
    BY <1>2

\* The walk ends at the one ancestor of its height.
LEMMA AncestorAtProperty ==
    ASSUME NEW b \in Blocks, NEW n \in Nat, n <= Height[b]
    PROVE  /\ AncestorAt(b, n) \in Ancestry[b]
           /\ Height[AncestorAt(b, n)] = n
           /\ \A a \in Ancestry[b] : Height[a] = n => a = AncestorAt(b, n)
<1>1. ChainOf(b) = Ancestry[b]
    BY BlockTreeAssumption DEF ChainOf
<1>2. \E a \in ChainOf(b) : Height[a] = n
    BY <1>1, AncestorExists
<1>3. AncestorAt(b, n) \in ChainOf(b) /\ Height[AncestorAt(b, n)] = n
    BY <1>2 DEF AncestorAt
<1>4. \A a \in Ancestry[b] : Height[a] = n => a = AncestorAt(b, n)
    BY <1>1, <1>3, ChainOrdered
<1> QED
    BY <1>1, <1>3, <1>4

\* The walk from b to the height of a decides whether b descends from a.
LEMMA WalkDecides ==
    ASSUME NEW a \in Blocks, NEW b \in Blocks
    PROVE  a \in Ancestry[b] <=> Height[a] <= Height[b] /\ AncestorAt(b, Height[a]) = a
<1>1. Height[a] \in Nat /\ Height[b] \in Nat
    BY BlockTreeAssumption
<1>2. ASSUME a \in Ancestry[b] PROVE Height[a] <= Height[b] /\ AncestorAt(b, Height[a]) = a
    <2>1. Height[a] <= Height[b]
        BY <1>1, <1>2, OnChain
    <2> QED
        BY <1>1, <1>2, <2>1, AncestorAtProperty
<1>3. ASSUME Height[a] <= Height[b], AncestorAt(b, Height[a]) = a PROVE a \in Ancestry[b]
    BY <1>1, <1>3, AncestorAtProperty
<1> QED
    BY <1>2, <1>3

-----------------------------------------------------------------------------
\* The inductive invariant

TreeOK(tree) ==
    /\ tree.indexed \subseteq Blocks
    /\ tree.hashSyncCheckpoint \in MaybeBlock
    /\ tree.indexed = {} => tree.hashSyncCheckpoint = NoBlock

\* Every image of the database has the checkpoint of the present one: it is written
\* with a sync.
DiskSInv ==
    /\ blocktree \in treeImages
    /\ \A tree \in treeImages :
        /\ tree = [indexed |-> tree.indexed, failed |-> tree.failed,
                   hashSyncCheckpoint |-> tree.hashSyncCheckpoint, key |-> tree.key]
        /\ TreeOK(tree)
        /\ tree.hashSyncCheckpoint = blocktree.hashSyncCheckpoint

\* The memory of the process agrees with the database, and the memo is on the chain of
\* the checkpoint.
MemoInv ==
    /\ pc # "off" => hashSyncCheckpoint = blocktree.hashSyncCheckpoint /\ Indexed # {}
    /\ hashConnectedBlock \in MaybeBlock
    /\ hashConnectedBlock \in Blocks => hashSyncCheckpoint \in ChainOf(hashConnectedBlock)

\* What the handlers hold.
HandSInv ==
    /\ caller \in {"start", "block", "orphan"}
    /\ vAttach \subseteq Blocks
    /\ pc = "check" => pindexBest \in Blocks
    /\ pc = "process" => hashCheckpoint \in Blocks /\ ValidateSyncCheckpoint(hashCheckpoint)
    /\ pc \in {"init", "key", "reset"} => hashSyncCheckpoint \in {NoBlock, Genesis}

SInv == DiskSInv /\ MemoInv /\ HandSInv

\* The steps that change no database record and keep hashSyncCheckpoint.
LEMMA KeepsDisk ==
    ASSUME DiskSInv, blocktree' = blocktree, treeImages' \in {treeImages, {blocktree}}
    PROVE  DiskSInv'
<1>1. \A tree : TreeOK(tree)' <=> TreeOK(tree)
    BY DEF TreeOK, MaybeBlock
<1>2. CASE treeImages' = treeImages
    BY <1>1, <1>2 DEF DiskSInv
<1>3. CASE treeImages' = {blocktree}
    BY <1>1, <1>3 DEF DiskSInv
<1> QED
    BY <1>2, <1>3

\* A new record of the block index, with the same checkpoint.
LEMMA WriteTreeKeepsDisk ==
    ASSUME DiskSInv, NEW tree, WriteTree(tree), TreeOK(tree),
           tree = [indexed |-> tree.indexed, failed |-> tree.failed,
                   hashSyncCheckpoint |-> tree.hashSyncCheckpoint, key |-> tree.key],
           tree.hashSyncCheckpoint = blocktree.hashSyncCheckpoint
    PROVE  DiskSInv'
<1>1. \A x : TreeOK(x)' <=> TreeOK(x)
    BY DEF TreeOK, MaybeBlock
<1>2. blocktree' = tree /\ treeImages' \subseteq treeImages \cup {tree} /\ tree \in treeImages'
    BY DEF WriteTree
<1> QED
    BY <1>1, <1>2 DEF DiskSInv

\* WriteSyncCheckpoint leaves one image, and memory and memo on the new checkpoint.
LEMMA WriteSyncKeeps ==
    ASSUME DiskSInv, Indexed # {}, NEW h \in Blocks, WriteSyncCheckpoint(h)
    PROVE  DiskSInv' /\ MemoInv'
<1>1. \A x : TreeOK(x)' <=> TreeOK(x)
    BY DEF TreeOK, MaybeBlock
<1>2. blocktree = [indexed |-> blocktree.indexed, failed |-> blocktree.failed,
                   hashSyncCheckpoint |-> blocktree.hashSyncCheckpoint, key |-> blocktree.key]
      /\ TreeOK(blocktree)
    BY DEF DiskSInv
<1>3. blocktree' = [indexed |-> blocktree.indexed, failed |-> blocktree.failed,
                    hashSyncCheckpoint |-> h, key |-> blocktree.key]
    BY <1>2 DEF WriteSyncCheckpoint
<1>4. TreeOK(blocktree') /\ treeImages' = {blocktree'}
    BY <1>2, <1>3 DEF TreeOK, MaybeBlock, WriteSyncCheckpoint, Indexed
<1>5. DiskSInv'
    BY <1>1, <1>3, <1>4 DEF DiskSInv
<1>6. h \in ChainOf(h) /\ h # NoBlock
    BY SelfOnChain, BlockTreeAssumption DEF ChainOf
<1>7. /\ hashSyncCheckpoint' = h /\ hashConnectedBlock' = h
      /\ blocktree'.hashSyncCheckpoint = h /\ Indexed' # {}
    BY <1>3 DEF WriteSyncCheckpoint, Indexed
<1>8. MemoInv'
    BY <1>6, <1>7 DEF MemoInv, MaybeBlock, ChainOf
<1> QED
    BY <1>5, <1>8

\* A block that passes the check descends from the checkpoint, if it is higher.
LEMMA ConnectedDescends ==
    ASSUME NEW b \in Blocks \ {Genesis}, DiskSInv, MemoInv, hashSyncCheckpoint \in Indexed,
           Height[b] > Height[hashSyncCheckpoint]
    PROVE  Connected(b) <=> hashSyncCheckpoint \in Ancestry[Parent[b]]
<1> DEFINE c == hashSyncCheckpoint
           m == hashConnectedBlock
           p == Parent[b]
           w == WalkedTo(b)
<1>1. Indexed \subseteq Blocks /\ c \in Blocks
    BY DEF DiskSInv, TreeOK, Indexed
<1>2. p \in Blocks /\ Height[b] = Height[p] + 1
    BY ChildAssumption
<1>3. Height[p] \in Nat /\ Height[c] \in Nat /\ Height[b] \in Nat /\ Height[c] <= Height[p]
    BY <1>1, <1>2, BlockTreeAssumption
<1>4. ASSUME m \in Indexed
      PROVE  m \in Blocks /\ c \in Ancestry[m] /\ Height[m] \in Nat /\ Height[c] <= Height[m]
    <2>1. m \in Blocks
        BY <1>1, <1>4
    <2>2. c \in Ancestry[m]
        BY <2>1, BlockTreeAssumption DEF MemoInv, ChainOf
    <2>3. Height[m] \in Nat
        BY <2>1, BlockTreeAssumption
    <2> QED
        BY <1>3, <2>1, <2>2, <2>3, OnChain
<1>5. w \in Ancestry[p] /\ Height[c] <= Height[w]
    <2>1. CASE m \in Indexed /\ Height[p] > Height[m]
        <3>1. w = AncestorAt(p, Height[m])
            BY <2>1 DEF WalkedTo
        <3>2. Height[m] <= Height[p] /\ Height[m] \in Nat
            BY <1>3, <1>4, <2>1
        <3>3. w \in Ancestry[p] /\ Height[w] = Height[m]
            BY <1>2, <3>1, <3>2, AncestorAtProperty
        <3> QED
            BY <1>4, <2>1, <3>3
    <2>2. CASE ~(m \in Indexed /\ Height[p] > Height[m])
        <3>1. w = p
            BY <2>2 DEF WalkedTo
        <3> QED
            BY <1>2, <1>3, <3>1, SelfOnChain
    <2> QED
        BY <2>1, <2>2
<1>6. w \in Blocks /\ Ancestry[w] \subseteq Ancestry[p]
    BY <1>2, <1>5, OnChain
<1>7. c \in Ancestry[w] <=> AncestorAt(w, Height[c]) = c
    BY <1>1, <1>5, <1>6, WalkDecides
<1>8. c \in Ancestry[w] <=> c \in Ancestry[p]
    <2>1. ASSUME c \in Ancestry[p] PROVE c \in Ancestry[w]
        <3>1. AncestorAt(w, Height[c]) \in Ancestry[w] /\ Height[AncestorAt(w, Height[c])] = Height[c]
            BY <1>3, <1>5, <1>6, AncestorAtProperty
        <3>2. AncestorAt(w, Height[c]) \in Ancestry[p]
            BY <1>6, <3>1
        <3>3. AncestorAt(w, Height[c]) = c
            BY <1>2, <2>1, <3>1, <3>2, ChainOrdered
        <3> QED
            BY <3>1, <3>3
    <2> QED
        BY <1>6, <2>1
<1>9. Connected(b) <=> (m \in Indexed /\ w = m) \/ c \in Ancestry[w]
    BY <1>5, <1>7 DEF Connected
<1>10. m \in Indexed /\ w = m => c \in Ancestry[w]
    BY <1>4
<1> HIDE DEF c, m, p, w
<1>11. Connected(b) <=> c \in Ancestry[p]
    BY <1>8, <1>9, <1>10
<1> QED
    BY <1>11 DEF c, p

\* A check updates the memo with a block on the chain of the checkpoint.
LEMMA CheckKeepsMemo ==
    ASSUME NEW b \in Blocks \ {Genesis}, DiskSInv, MemoInv, hashSyncCheckpoint \in Indexed
    PROVE  /\ ConnectedAfter(b) \in MaybeBlock
           /\ ConnectedAfter(b) \in Blocks => hashSyncCheckpoint \in ChainOf(ConnectedAfter(b))
<1>1. CASE CheckSyncCheckpoint(b) /\ Height[b] > Height[hashSyncCheckpoint]
    <2>1. hashSyncCheckpoint \in Blocks
        BY DEF DiskSInv, TreeOK, Indexed
    <2>2. Height[b] \in Nat /\ Height[hashSyncCheckpoint] \in Nat
        BY <2>1, BlockTreeAssumption
    <2>3. Connected(b)
        BY <1>1, <2>2 DEF CheckSyncCheckpoint
    <2>4. hashSyncCheckpoint \in Ancestry[Parent[b]]
        BY <1>1, <2>3, ConnectedDescends
    <2>5. Parent[b] \in Blocks /\ Parent[b] # NoBlock
        BY ParentBelow, BlockTreeAssumption
    <2>6. ConnectedAfter(b) = Parent[b]
        BY <1>1 DEF ConnectedAfter
    <2> QED
        BY <2>4, <2>5, <2>6 DEF MaybeBlock, ChainOf
<1>2. CASE ~(CheckSyncCheckpoint(b) /\ Height[b] > Height[hashSyncCheckpoint])
    BY <1>2 DEF ConnectedAfter, MemoInv
<1> QED
    BY <1>1, <1>2

-----------------------------------------------------------------------------
\* SInv is inductive

\* It holds before the first start.
LEMMA InitSInv == Init => SInv
<1> SUFFICES ASSUME Init PROVE SInv
    OBVIOUS
<1>1. DiskSInv
    BY DEF Init, DiskSInv, TreeOK, EmptyTree, MaybeBlock
<1>2. MemoInv
    BY BlockTreeAssumption DEF Init, MemoInv, MaybeBlock
<1>3. HandSInv
    BY DEF Init, HandSInv
<1> QED
    BY <1>1, <1>2, <1>3 DEF SInv

\* The globals of a new process: no memo, nothing in hand.
LEMMA NewProcessKeeps ==
    ASSUME NewProcess, pc' \notin {"check", "process"},
           pc' # "off" => hashSyncCheckpoint' = blocktree'.hashSyncCheckpoint /\ Indexed' # {},
           pc' \in {"init", "key", "reset"} => hashSyncCheckpoint' \in {NoBlock, Genesis}
    PROVE  MemoInv' /\ HandSInv'
<1>1. MemoInv'
    BY BlockTreeAssumption DEF NewProcess, MemoInv, MaybeBlock
<1>2. HandSInv'
    BY DEF NewProcess, HandSInv
<1> QED
    BY <1>1, <1>2

\* The steps that keep checkpoint, memo and index, and put no checkpoint in hand.
LEMMA KeepsMemo ==
    ASSUME MemoInv, UNCHANGED sync, pc # "off", Indexed # {} => Indexed' # {},
           blocktree'.hashSyncCheckpoint = blocktree.hashSyncCheckpoint
    PROVE  MemoInv'
BY DEF MemoInv, sync, MaybeBlock, ChainOf

\* LoadBlockIndexDB reads the one checkpoint all images have.
LEMMA StartSInv == SInv /\ Start => SInv'
<1> SUFFICES ASSUME SInv, Start PROVE SInv'
    OBVIOUS
<1>1. DiskSInv'
    BY KeepsDisk DEF SInv, Start
<1>2. MemoInv' /\ HandSInv'
    BY NewProcessKeeps DEF Start, Indexed
<1> QED
    BY <1>1, <1>2 DEF SInv

\* InitBlockIndex writes the genesis block to a database that has no checkpoint.
LEMMA FirstStartSInv ==
    ASSUME SInv, NEW fFlush \in FlushModes, FirstStart(fFlush)
    PROVE  SInv'
<1>1. blocktree = [indexed |-> blocktree.indexed, failed |-> blocktree.failed,
                   hashSyncCheckpoint |-> blocktree.hashSyncCheckpoint, key |-> blocktree.key]
      /\ TreeOK(blocktree) /\ Indexed = {}
    BY DEF SInv, DiskSInv, FirstStart
<1>2. blocktree' = [indexed |-> {Genesis}, failed |-> blocktree.failed,
                    hashSyncCheckpoint |-> blocktree.hashSyncCheckpoint, key |-> blocktree.key]
    BY <1>1 DEF FirstStart
<1>3. blocktree.hashSyncCheckpoint = NoBlock
    BY <1>1 DEF TreeOK, Indexed
<1>4. \A x : TreeOK(x)' <=> TreeOK(x)
    BY DEF TreeOK, MaybeBlock
<1>5. TreeOK(blocktree')
    BY <1>2, <1>3, GenesisAssumption, BlockTreeAssumption DEF TreeOK, MaybeBlock
<1>6. treeImages' \subseteq treeImages \cup {blocktree'} /\ blocktree' \in treeImages'
    BY DEF FirstStart
<1>7. DiskSInv'
    BY <1>2, <1>4, <1>5, <1>6 DEF SInv, DiskSInv
<1>8. MemoInv' /\ HandSInv'
    BY <1>2, <1>3, NewProcessKeeps DEF FirstStart, Indexed
<1> QED
    BY <1>7, <1>8 DEF SInv

\* The first checkpoint is the genesis block, which has just been indexed.
LEMMA InitCheckpointSInv == SInv /\ InitCheckpoint => SInv'
<1> SUFFICES ASSUME SInv, InitCheckpoint PROVE SInv'
    OBVIOUS
<1>1. DiskSInv' /\ MemoInv'
    BY WriteSyncKeeps, BlockTreeAssumption DEF SInv, MemoInv, InitCheckpoint
<1>2. HandSInv'
    BY DEF SInv, HandSInv, InitCheckpoint, WriteSyncCheckpoint, handler
<1> QED
    BY <1>1, <1>2 DEF SInv

\* A new master key is written with the checkpoint as it is.
LEMMA CheckCheckpointPubKeySInv == SInv /\ CheckCheckpointPubKey => SInv'
<1> SUFFICES ASSUME SInv, CheckCheckpointPubKey PROVE SInv'
    OBVIOUS
<1>1. blocktree = [indexed |-> blocktree.indexed, failed |-> blocktree.failed,
                   hashSyncCheckpoint |-> blocktree.hashSyncCheckpoint, key |-> blocktree.key]
      /\ TreeOK(blocktree)
    BY DEF SInv, DiskSInv
<1>2. blocktree' = [indexed |-> blocktree.indexed, failed |-> blocktree.failed,
                    hashSyncCheckpoint |-> blocktree.hashSyncCheckpoint,
                    key |-> strMasterPubKey] /\ treeImages' = {blocktree'}
    BY <1>1 DEF CheckCheckpointPubKey
<1>3. TreeOK(blocktree') /\ \A x : TreeOK(x)' <=> TreeOK(x)
    BY <1>1, <1>2 DEF TreeOK, MaybeBlock
<1>4. DiskSInv'
    BY <1>2, <1>3 DEF DiskSInv
<1>5. MemoInv'
    BY <1>2, KeepsMemo DEF SInv, CheckCheckpointPubKey, Indexed
<1>6. HandSInv'
    BY DEF SInv, HandSInv, CheckCheckpointPubKey, sync, handler
<1> QED
    BY <1>4, <1>5, <1>6 DEF SInv

\* The reset writes an indexed checkpoint.
LEMMA ResetSyncCheckpointSInv == SInv /\ ResetSyncCheckpoint => SInv'
<1> SUFFICES ASSUME SInv, ResetSyncCheckpoint PROVE SInv'
    OBVIOUS
<1> DEFINE h == IF LatestHardened \in Indexed THEN LatestHardened ELSE Genesis
<1>1. h \in Blocks /\ WriteSyncCheckpoint(h)
    BY BlockTreeAssumption DEF SInv, DiskSInv, TreeOK, Indexed, ResetSyncCheckpoint
<1>2. DiskSInv' /\ MemoInv'
    <2> HIDE DEF h
    <2> QED
        BY <1>1, WriteSyncKeeps DEF SInv, MemoInv, ResetSyncCheckpoint
<1>3. HandSInv'
    BY DEF SInv, HandSInv, ResetSyncCheckpoint, handler
<1> QED
    BY <1>2, <1>3 DEF SInv

\* The steps of ConnectBestBlock that change neither checkpoint nor database.
LEMMA ConnectSInv ==
    ASSUME SInv, NothingBetter \/ AttachedAll \/ \E b \in Blocks : Attach(b)
    PROVE  SInv'
<1> DEFINE Kept == /\ UNCHANGED <<disk, sync, caller>> /\ pc \notin {"off", "init", "key", "reset"}
                  /\ pc' \notin {"off", "init", "key", "reset", "check", "process"}
                  /\ vAttach' \subseteq Blocks
<1>1. Kept
    <2>1. CASE NothingBetter
        BY <2>1 DEF NothingBetter, ReturnBest, SInv, HandSInv
    <2>2. CASE AttachedAll
        BY <2>2 DEF AttachedAll, ReturnBest, SInv, HandSInv
    <2>3. ASSUME NEW b \in Blocks, Attach(b) PROVE Kept
        <3>1. ChainOf(b) \subseteq Blocks
            BY SelfOnChain, BlockTreeAssumption DEF ChainOf
        <3> QED
            BY <2>3, <3>1 DEF Attach
    <2> QED
        BY <2>1, <2>2, <2>3
<1>2. DiskSInv'
    BY <1>1, KeepsDisk DEF SInv, disk
<1>3. MemoInv'
    BY <1>1, KeepsMemo DEF SInv, disk, Indexed
<1>4. HandSInv'
    BY <1>1 DEF SInv, HandSInv
<1> QED
    BY <1>2, <1>3, <1>4 DEF SInv

\* The database after SetBestChain: the same, or a block more is marked failed.
LEMMA BestKeepsDisk ==
    ASSUME DiskSInv, NEW new,
           BestFails(new) \/ \E fFlush \in FlushModes : BestBecomes(new, fFlush)
    PROVE  /\ DiskSInv' /\ Indexed' = Indexed
           /\ blocktree'.hashSyncCheckpoint = blocktree.hashSyncCheckpoint
<1>1. CASE \E fFlush \in FlushModes : BestBecomes(new, fFlush)
    BY <1>1, KeepsDisk DEF BestBecomes, Indexed
<1>2. CASE BestFails(new)
    <2> DEFINE tree == [blocktree EXCEPT !.failed = @ \cup {Lowest(InvalidOn(new))}]
    <2>1. blocktree = [indexed |-> blocktree.indexed, failed |-> blocktree.failed,
                       hashSyncCheckpoint |-> blocktree.hashSyncCheckpoint, key |-> blocktree.key]
          /\ TreeOK(blocktree)
        BY DEF DiskSInv
    <2>2. tree = [indexed |-> blocktree.indexed,
                  failed |-> blocktree.failed \cup {Lowest(InvalidOn(new))},
                  hashSyncCheckpoint |-> blocktree.hashSyncCheckpoint, key |-> blocktree.key]
        BY <2>1
    <2>3. TreeOK(tree) /\ WriteTree(tree)
        BY <1>2, <2>1, <2>2 DEF TreeOK, BestFails
    <2> HIDE DEF tree
    <2>4. DiskSInv'
        BY <2>2, <2>3, WriteTreeKeepsDisk
    <2> QED
        BY <2>2, <2>3, <2>4 DEF WriteTree, Indexed
<1> QED
    BY <1>1, <1>2

\* SetBestChain of the next block, whether it connects or not.
LEMMA AttachNextSInv ==
    ASSUME SInv, AttachFails \/ \E fFlush \in FlushModes : AttachNext(fFlush)
    PROVE  SInv'
<1>1. CASE AttachFails
    <2>1. DiskSInv' /\ MemoInv'
        BY <1>1, BestKeepsDisk, KeepsMemo DEF SInv, AttachFails
    <2>2. HandSInv'
        BY <1>1 DEF SInv, HandSInv, AttachFails, ReturnBest
    <2> QED
        BY <2>1, <2>2 DEF SInv
<1>2. ASSUME NEW fFlush \in FlushModes, AttachNext(fFlush) PROVE SInv'
    <2>1. DiskSInv' /\ MemoInv'
        BY <1>2, BestKeepsDisk, KeepsMemo DEF SInv, AttachNext
    <2>2. Lowest(vAttach) \in Blocks
        BY <1>2, LowestProperty DEF SInv, HandSInv, AttachNext
    <2>3. HandSInv'
        BY <1>2, <2>2 DEF SInv, HandSInv, AttachNext, BestBecomes
    <2> QED
        BY <2>1, <2>3 DEF SInv
<1> QED
    BY <1>1, <1>2

\* The check at the end of SetBestChain moves the memo along the checkpoint's chain.
LEMMA CheckBestSInv == SInv /\ CheckBest => SInv'
<1> SUFFICES ASSUME SInv, CheckBest PROVE SInv'
    OBVIOUS
<1>1. DiskSInv'
    BY KeepsDisk DEF SInv, CheckBest, disk
<1>2. MemoInv'
    <2>1. CASE pindexBest = Genesis
        BY <2>1, KeepsMemo DEF SInv, CheckBest, disk, sync, Indexed
    <2>2. CASE pindexBest # Genesis
        <3>1. pindexBest \in Blocks \ {Genesis} /\ hashSyncCheckpoint \in Indexed
            BY <2>2 DEF SInv, HandSInv, CheckBest
        <3>2. /\ hashConnectedBlock' = ConnectedAfter(pindexBest)
              /\ UNCHANGED <<blocktree, hashSyncCheckpoint>> /\ pc # "off"
            BY <2>2 DEF CheckBest, disk
        <3> QED
            BY <3>1, <3>2, CheckKeepsMemo DEF SInv, MemoInv, MaybeBlock, ChainOf, Indexed
    <2> QED
        BY <2>1, <2>2
<1>3. HandSInv'
    BY DEF SInv, HandSInv, CheckBest, handler
<1> QED
    BY <1>1, <1>2, <1>3 DEF SInv

\* So does the check in AcceptBlock; the new record has the checkpoint of the old.
LEMMA AcceptBlockSInv ==
    ASSUME SInv, NEW b \in Blocks, AcceptBlock(b)
    PROVE  SInv'
<1> DEFINE tree == [blocktree EXCEPT !.indexed = @ \cup {b}]
<1>1. blocktree = [indexed |-> blocktree.indexed, failed |-> blocktree.failed,
                   hashSyncCheckpoint |-> blocktree.hashSyncCheckpoint, key |-> blocktree.key]
      /\ TreeOK(blocktree)
    BY DEF SInv, DiskSInv
<1>2. tree = [indexed |-> blocktree.indexed \cup {b}, failed |-> blocktree.failed,
              hashSyncCheckpoint |-> blocktree.hashSyncCheckpoint, key |-> blocktree.key]
    BY <1>1
<1>3. WriteTree(tree) /\ TreeOK(tree)
    BY <1>1, <1>2 DEF AcceptBlock, TreeOK
<1> HIDE DEF tree
<1>4. DiskSInv'
    BY <1>2, <1>3, WriteTreeKeepsDisk DEF SInv
<1>5. blocktree' = tree
    BY <1>3 DEF WriteTree
<1>6. Parent[b] \in Blocks /\ b # Genesis
    BY <1>1, GenesisAssumption, BlockTreeAssumption DEF AcceptBlock, Acceptable, TreeOK, Indexed
<1>7. MemoInv'
    <2>1. Indexed' # {} /\ blocktree'.hashSyncCheckpoint = blocktree.hashSyncCheckpoint
        BY <1>2, <1>5 DEF Indexed
    <2>2. CASE Enforced
        <3>1. /\ hashConnectedBlock' = ConnectedAfter(b) /\ hashSyncCheckpoint \in Indexed
              /\ UNCHANGED hashSyncCheckpoint /\ pc # "off"
            BY <2>2 DEF AcceptBlock
        <3> QED
            BY <1>6, <2>1, <3>1, CheckKeepsMemo DEF SInv, MemoInv, MaybeBlock, ChainOf
    <2>3. CASE ~Enforced
        BY <2>1, <2>3, KeepsMemo DEF SInv, AcceptBlock, sync
    <2> QED
        BY <2>2, <2>3
<1>8. HandSInv'
    BY DEF SInv, HandSInv, AcceptBlock
<1> QED
    BY <1>4, <1>7, <1>8 DEF SInv

\* The steps that only decide what to do with a checkpoint.
LEMMA DecideSInv ==
    ASSUME SInv,
           \/ Finish \/ NoPending \/ RejectPending \/ Send
           \/ \E h \in Blocks : KeepPending(h) \/ Receive(h)
    PROVE  SInv'
<1>1. /\ UNCHANGED <<disk, sync, caller, vAttach>> /\ pc \in {"idle", "accepted", "pending"}
      /\ pc' \in {"idle", "accepted", "process"}
    BY DEF Finish, NoPending, RejectPending, Send, KeepPending, Receive, handler
<1>2. pc' = "process" =>
        \E h : hashCheckpoint' = h /\ ValidateSyncCheckpoint(h)
    BY DEF Finish, NoPending, RejectPending, Send, KeepPending, Receive
<1>3. DiskSInv' /\ MemoInv'
    BY <1>1, KeepsDisk, KeepsMemo DEF SInv, disk, Indexed
<1>4. \A h : ValidateSyncCheckpoint(h) => h \in Blocks
    BY DEF SInv, DiskSInv, TreeOK, Indexed, ValidateSyncCheckpoint
<1>5. \A h : ValidateSyncCheckpoint(h)' <=> ValidateSyncCheckpoint(h)
    BY <1>1 DEF ValidateSyncCheckpoint, Indexed, AncestorAt, ChainOf, disk, sync
<1>6. HandSInv'
    BY <1>1, <1>2, <1>4, <1>5 DEF SInv, HandSInv
<1> QED
    BY <1>3, <1>6 DEF SInv

\* A checkpoint a handler is about to accept descends from the accepted one.
LEMMA InHandDescends ==
    ASSUME SInv, NEW h, InHand(h)
    PROVE  /\ h \in Blocks /\ ValidateSyncCheckpoint(h) /\ pc \in {"pending", "process"}
           /\ hashSyncCheckpoint \in Blocks /\ hashSyncCheckpoint \in Ancestry[h]
<1>1. ValidateSyncCheckpoint(h) /\ pc \in {"pending", "process"}
    BY DEF InHand, SInv, HandSInv
<1>2. h \in Blocks /\ hashSyncCheckpoint \in Blocks
    BY <1>1 DEF ValidateSyncCheckpoint, SInv, DiskSInv, TreeOK, Indexed
<1>3. Height[h] \in Nat /\ Height[hashSyncCheckpoint] \in Nat
    BY <1>2, BlockTreeAssumption
<1>4. hashSyncCheckpoint \in Ancestry[h]
    BY <1>1, <1>2, <1>3, WalkDecides DEF ValidateSyncCheckpoint
<1> QED
    BY <1>1, <1>2, <1>4

\* The switch to the chain of a checkpoint keeps that checkpoint valid.
LEMMA SwitchSInv ==
    ASSUME SInv, NEW h \in Blocks,
           SwitchFails(h) \/ \E fFlush \in FlushModes : SwitchToCheckpoint(h, fFlush)
    PROVE  SInv'
<1>1. pc \in {"pending", "process"}
    BY InHandDescends DEF SwitchFails, SwitchToCheckpoint
<1>2. BestFails(h) \/ \E fFlush \in FlushModes : BestBecomes(h, fFlush)
    BY DEF SwitchFails, SwitchToCheckpoint
<1>3. /\ DiskSInv' /\ Indexed' = Indexed
      /\ blocktree'.hashSyncCheckpoint = blocktree.hashSyncCheckpoint
    BY <1>2, BestKeepsDisk DEF SInv
<1>4. UNCHANGED <<sync, caller, vAttach>>
    BY DEF SwitchFails, SwitchToCheckpoint, handler
<1>5. MemoInv'
    BY <1>1, <1>3, <1>4, KeepsMemo DEF SInv
<1>6. \A x : ValidateSyncCheckpoint(x)' <=> ValidateSyncCheckpoint(x)
    BY <1>3, <1>4 DEF ValidateSyncCheckpoint, AncestorAt, ChainOf, sync
<1>7. pc' = "process" => pc = "process" /\ hashCheckpoint' = hashCheckpoint
    BY DEF SwitchFails, SwitchToCheckpoint, Processed, handler
<1>8. pc' \notin {"check", "init", "key", "reset"}
    BY <1>1 DEF SwitchFails, SwitchToCheckpoint, Processed
<1>9. HandSInv'
    BY <1>4, <1>6, <1>7, <1>8 DEF SInv, HandSInv
<1> QED
    BY <1>3, <1>5, <1>9 DEF SInv

\* The checkpoint in hand is accepted.
LEMMA AcceptCheckpointSInv ==
    ASSUME SInv, NEW h \in Blocks, AcceptCheckpoint(h)
    PROVE  SInv'
<1>1. pc \in {"pending", "process"}
    BY InHandDescends DEF AcceptCheckpoint
<1>2. DiskSInv' /\ MemoInv'
    BY <1>1, WriteSyncKeeps DEF SInv, MemoInv, AcceptCheckpoint
<1>3. HandSInv'
    BY DEF SInv, HandSInv, AcceptCheckpoint, Processed
<1> QED
    BY <1>2, <1>3 DEF SInv

\* What the process knew is gone; the database is one of its images.
LEMMA StopSInv == SInv /\ (Shutdown \/ Crash \/ AssertFails) => SInv'
<1> SUFFICES ASSUME SInv, Shutdown \/ Crash \/ AssertFails PROVE SInv'
    OBVIOUS
<1>1. PowerOff
    BY DEF Shutdown, Crash, AssertFails
<1>2. MemoInv' /\ HandSInv'
    BY <1>1, NewProcessKeeps DEF PowerOff
<1>3. DiskSInv'
    <2>1. CASE Shutdown \/ AssertFails
        BY <2>1, KeepsDisk DEF SInv, Shutdown, AssertFails, disk
    <2>2. CASE Crash
        <3>1. PICK tree \in treeImages : blocktree' = tree /\ treeImages' = {tree}
            BY <2>2 DEF Crash
        <3>2. \A x : TreeOK(x)' <=> TreeOK(x)
            BY DEF TreeOK, MaybeBlock
        <3> QED
            BY <3>1, <3>2 DEF SInv, DiskSInv
    <2> QED
        BY <2>1, <2>2
<1> QED
    BY <1>2, <1>3 DEF SInv

\* Nothing the invariant reads has changed.
LEMMA StutterSInv == SInv /\ UNCHANGED vars => SInv'
<1> SUFFICES ASSUME SInv, UNCHANGED vars PROVE SInv'
    OBVIOUS
<1>1. UNCHANGED <<blocktree, treeImages, hashSyncCheckpoint, hashConnectedBlock, pindexBest,
                  pc, caller, vAttach, hashCheckpoint>>
    BY DEF vars, disk, sync, handler
<1>2. DiskSInv'
    BY <1>1, KeepsDisk DEF SInv
<1>3. MemoInv'
    BY <1>1 DEF SInv, MemoInv, MaybeBlock, ChainOf, Indexed
<1>4. HandSInv'
    BY <1>1 DEF SInv, HandSInv, ValidateSyncCheckpoint, AncestorAt, ChainOf, Indexed
<1> QED
    BY <1>2, <1>3, <1>4 DEF SInv

\* Every step keeps the invariant.
LEMMA NextSInv == SInv /\ [Next]_vars => SInv'
<1> SUFFICES ASSUME SInv, [Next]_vars PROVE SInv'
    OBVIOUS
<1>1. CASE Start \/ InitCheckpoint \/ CheckCheckpointPubKey \/ ResetSyncCheckpoint
    BY <1>1, StartSInv, InitCheckpointSInv, CheckCheckpointPubKeySInv, ResetSyncCheckpointSInv
<1>2. ASSUME NEW fFlush \in FlushModes, FirstStart(fFlush) PROVE SInv'
    BY <1>2, FirstStartSInv
<1>3. CASE NothingBetter \/ AttachedAll \/ \E b \in Blocks : Attach(b)
    BY <1>3, ConnectSInv
<1>4. CASE AttachFails \/ \E fFlush \in FlushModes : AttachNext(fFlush)
    BY <1>4, AttachNextSInv
<1>5. CASE CheckBest
    BY <1>5, CheckBestSInv
<1>6. ASSUME NEW b \in Blocks, AcceptBlock(b) PROVE SInv'
    BY <1>6, AcceptBlockSInv
<1>7. CASE \/ Finish \/ NoPending \/ RejectPending \/ Send
           \/ \E h \in Blocks : KeepPending(h) \/ Receive(h)
    BY <1>7, DecideSInv
<1>8. ASSUME NEW h \in Blocks,
             SwitchFails(h) \/ \E fFlush \in FlushModes : SwitchToCheckpoint(h, fFlush)
      PROVE  SInv'
    BY <1>8, SwitchSInv
<1>9. ASSUME NEW h \in Blocks, AcceptCheckpoint(h) PROVE SInv'
    BY <1>9, AcceptCheckpointSInv
<1>10. CASE Shutdown \/ Crash \/ AssertFails
    BY <1>10, StopSInv
<1>11. CASE UNCHANGED vars
    BY <1>11, StutterSInv
<1> QED
    BY <1>1, <1>2, <1>3, <1>4, <1>5, <1>6, <1>7, <1>8, <1>9, <1>10, <1>11 DEF Next

\* The memory of the process, the database and all it may read as after a failure agree
\* on the checkpoint, and the memo of CheckSyncCheckpoint is on its chain.
THEOREM SyncInvariance == Spec => []SInv
<1> QED
    BY InitSInv, NextSInv, PTL DEF Spec

-----------------------------------------------------------------------------
\* What follows from it

\* The invariant makes the shortcut right.
LEMMA SInvCheckIsRight == SInv => CheckIsRight
<1> SUFFICES ASSUME SInv, hashSyncCheckpoint \in Indexed,
                    NEW b \in Blocks \ {Genesis}, Parent[b] \in Indexed
             PROVE  CheckSyncCheckpoint(b) <=> OnCheckpointChain(b)
    BY DEF CheckIsRight
<1> DEFINE c == hashSyncCheckpoint
<1>1. c \in Blocks
    BY DEF SInv, DiskSInv, TreeOK, Indexed
<1>2. Height[b] \in Nat /\ Height[c] \in Nat
    BY <1>1, BlockTreeAssumption
<1>3. /\ ChainOf(b) = Ancestry[b] /\ Ancestry[b] = {b} \cup Ancestry[Parent[b]]
      /\ Parent[b] \in Blocks
    BY ChildAssumption, BlockTreeAssumption DEF ChainOf
<1>4. CASE Height[b] > Height[c]
    <2>1. Connected(b) <=> c \in Ancestry[Parent[b]]
        BY <1>4, ConnectedDescends DEF SInv
    <2>2. b # c
        BY <1>2, <1>4
    <2>3. c \in ChainOf(b) <=> c \in Ancestry[Parent[b]]
        BY <1>3, <2>2
    <2> QED
        BY <1>2, <1>4, <2>1, <2>2, <2>3 DEF CheckSyncCheckpoint, OnCheckpointChain
<1>5. CASE ~(Height[b] > Height[c])
    <2>1. c \in Ancestry[b] => Height[b] = Height[c]
        <3>1. c \in Ancestry[b] => Height[c] <= Height[b]
            BY <1>1, <1>2, OnChain
        <3> QED
            BY <1>2, <1>5, <3>1
    <2>2. b \in Ancestry[b]
        BY SelfOnChain
    <2>3. c \in ChainOf(b) <=> b = c
        BY <1>3, <2>1, <2>2, ChainOrdered
    <2> QED
        BY <1>5, <2>3 DEF CheckSyncCheckpoint, OnCheckpointChain
<1> QED
    BY <1>4, <1>5

\* CheckSyncCheckpoint answers as the whole walk to the checkpoint would, whatever
\* blocks and checkpoints came before.
THEOREM CheckSyncCheckpointIsRight == Spec => []CheckIsRight
<1> QED
    BY SyncInvariance, SInvCheckIsRight, PTL

\* A checkpoint that begins the chain of everything: none yet, or the genesis block.
LEMMA FromGenesis ==
    ASSUME NEW old \in {NoBlock, Genesis}, NEW new \in Blocks
    PROVE  old = NoBlock \/ old \in ChainOf(new)
BY GenesisOnChain, BlockTreeAssumption DEF ChainOf

\* A step of a process keeps the checkpoint of the database, or writes a descendant.
LEMMA NextDescends ==
    ASSUME SInv, [Next]_vars
    PROVE  LET old == blocktree.hashSyncCheckpoint
               new == blocktree'.hashSyncCheckpoint
           IN  old \in {NoBlock, new} \/ old \in ChainOf(new)
<1> DEFINE old == blocktree.hashSyncCheckpoint
           new == blocktree'.hashSyncCheckpoint
           Goal == old \in {NoBlock, new} \/ old \in ChainOf(new)
<1>1. /\ blocktree = [indexed |-> blocktree.indexed, failed |-> blocktree.failed,
                      hashSyncCheckpoint |-> old, key |-> blocktree.key]
      /\ TreeOK(blocktree)
      /\ pc # "off" => hashSyncCheckpoint = old
    BY DEF SInv, DiskSInv, MemoInv
<1>2. \A h : WriteSyncCheckpoint(h) => new = h
    BY <1>1 DEF WriteSyncCheckpoint
<1>3. CASE Start \/ CheckCheckpointPubKey
    BY <1>1, <1>3 DEF Start, CheckCheckpointPubKey
<1>4. CASE InitCheckpoint
    BY <1>1, <1>2, <1>4, FromGenesis, BlockTreeAssumption DEF InitCheckpoint, SInv, HandSInv
<1>5. CASE ResetSyncCheckpoint
    <2>1. PICK h \in Blocks : WriteSyncCheckpoint(h)
        BY <1>1, <1>5, BlockTreeAssumption DEF ResetSyncCheckpoint, TreeOK, Indexed
    <2>2. old \in {NoBlock, Genesis}
        BY <1>1, <1>5 DEF ResetSyncCheckpoint, SInv, HandSInv
    <2> QED
        BY <1>2, <2>1, <2>2, FromGenesis
<1>6. ASSUME NEW fFlush \in FlushModes, FirstStart(fFlush) PROVE Goal
    BY <1>1, <1>6 DEF FirstStart
<1>7. CASE NothingBetter \/ AttachedAll \/ CheckBest \/ \E b \in Blocks : Attach(b)
    BY <1>7 DEF NothingBetter, AttachedAll, CheckBest, Attach, disk
<1>8. ASSUME NEW x, BestFails(x) \/ \E fFlush \in FlushModes : BestBecomes(x, fFlush)
      PROVE  Goal
    BY <1>8, BestKeepsDisk DEF SInv
<1>9. CASE \/ AttachFails \/ \E fFlush \in FlushModes : AttachNext(fFlush)
           \/ \E h \in Blocks :
                SwitchFails(h) \/ \E fFlush \in FlushModes : SwitchToCheckpoint(h, fFlush)
    BY <1>8, <1>9 DEF AttachFails, AttachNext, SwitchFails, SwitchToCheckpoint
<1>10. ASSUME NEW b \in Blocks, AcceptBlock(b) PROVE Goal
    BY <1>1, <1>10 DEF AcceptBlock, WriteTree
<1>11. CASE \/ Finish \/ NoPending \/ RejectPending \/ Send
            \/ \E h \in Blocks : KeepPending(h) \/ Receive(h)
    BY <1>11 DEF Finish, NoPending, RejectPending, Send, KeepPending, Receive, disk
<1>12. ASSUME NEW h \in Blocks, AcceptCheckpoint(h) PROVE Goal
    <2>1. hashSyncCheckpoint \in Ancestry[h] /\ pc # "off" /\ WriteSyncCheckpoint(h)
        BY <1>12, InHandDescends DEF AcceptCheckpoint
    <2> QED
        BY <1>1, <1>2, <2>1, BlockTreeAssumption DEF ChainOf
<1>13. CASE Shutdown \/ Crash \/ AssertFails
    BY <1>13 DEF Shutdown, Crash, AssertFails, disk, SInv, DiskSInv
<1>14. CASE UNCHANGED vars
    BY <1>14 DEF vars, disk
<1> QED
    BY <1>3, <1>4, <1>5, <1>6, <1>7, <1>9, <1>10, <1>11, <1>12, <1>13, <1>14 DEF Next

\* The checkpoint a restart would find, after whatever failure, is replaced only by its
\* descendants.
THEOREM CheckpointOnlyDescends == Spec => OnlyDescendants
<1> DEFINE Step == \A old \in treeImages, new \in treeImages' :
                       \/ old.hashSyncCheckpoint = NoBlock
                       \/ old.hashSyncCheckpoint \in ChainOf(new.hashSyncCheckpoint)
<1>1. ASSUME SInv, SInv', [Next]_vars PROVE Step
    <2>1. SUFFICES ASSUME NEW old \in treeImages, NEW new \in treeImages',
                          old.hashSyncCheckpoint # NoBlock
                   PROVE  old.hashSyncCheckpoint \in ChainOf(new.hashSyncCheckpoint)
        OBVIOUS
    <2>2. old.hashSyncCheckpoint = blocktree.hashSyncCheckpoint
        BY <1>1 DEF SInv, DiskSInv
    <2>3. new.hashSyncCheckpoint = blocktree'.hashSyncCheckpoint
        BY <1>1 DEF SInv, DiskSInv
    <2>4. old.hashSyncCheckpoint \in Blocks
        BY <1>1, <2>1 DEF SInv, DiskSInv, TreeOK, MaybeBlock
    <2>5. old.hashSyncCheckpoint \in ChainOf(old.hashSyncCheckpoint)
        BY <2>4, SelfOnChain, BlockTreeAssumption DEF ChainOf
    <2>6. \/ blocktree.hashSyncCheckpoint \in {NoBlock, blocktree'.hashSyncCheckpoint}
          \/ blocktree.hashSyncCheckpoint \in ChainOf(blocktree'.hashSyncCheckpoint)
        BY <1>1, NextDescends
    <2> QED
        BY <2>1, <2>2, <2>3, <2>5, <2>6
<1>2. SInv /\ SInv' /\ [Next]_vars => [Step]_vars
    BY <1>1
<1> QED
    BY <1>2, SyncInvariance, PTL DEF Spec, OnlyDescendants

-----------------------------------------------------------------------------
\* What is relayed and what is pending

\* From the start of a process to the reset, nothing is relayed yet.
RelayInv ==
    /\ RelaysAccepted
    /\ pc \in {"init", "key", "reset"} => checkpointMessage = NoBlock

\* A pending checkpoint whose block is indexed is still going to be looked at, by the
\* handler that indexed it, or else a block of its chain was rejected.
PendInv ==
    hashPendingCheckpoint \in Indexed =>
        \/ blocktree.failed # {}
        \/ caller # "start" /\ pc \in {"connect", "attach", "check", "pending"}

\* The message goes with the checkpoint: both change in one handler, or neither.
LEMMA NextRelay == SInv /\ RelayInv /\ [Next]_vars => RelayInv'
<1> SUFFICES ASSUME SInv, RelayInv, [Next]_vars PROVE RelayInv'
    OBVIOUS
<1>1. ASSUME NewProcess PROVE RelayInv'
    BY <1>1 DEF NewProcess, RelayInv, RelaysAccepted
<1>2. CASE Start \/ (\E fFlush \in FlushModes : FirstStart(fFlush)) \/ Shutdown \/ Crash
           \/ AssertFails
    BY <1>1, <1>2 DEF Start, FirstStart, Shutdown, Crash, AssertFails, PowerOff
<1>3. CASE InitCheckpoint
    BY <1>3 DEF InitCheckpoint, RelayInv, RelaysAccepted, pending
<1>4. CASE CheckCheckpointPubKey
    BY <1>4 DEF CheckCheckpointPubKey, RelayInv, RelaysAccepted, pending, sync
<1>5. CASE ResetSyncCheckpoint
    BY <1>5 DEF ResetSyncCheckpoint, RelayInv, RelaysAccepted
<1>6. ASSUME UNCHANGED <<hashSyncCheckpoint, pending, checkpointMessage>>,
             pc \notin {"off", "init", "key"}, pc' \notin {"init", "key", "reset"}
      PROVE  RelayInv'
    BY <1>6 DEF RelayInv, RelaysAccepted, pending
<1>7. CASE NothingBetter \/ AttachFails \/ AttachedAll \/ CheckBest
           \/ (\E b \in Blocks : Attach(b)) \/ \E fFlush \in FlushModes : AttachNext(fFlush)
    BY <1>6, <1>7 DEF NothingBetter, AttachFails, AttachedAll, CheckBest, Attach, AttachNext,
                      ReturnBest, sync, SInv, HandSInv
<1>8. CASE Send \/ Finish \/ NoPending \/ \E b \in Blocks : AcceptBlock(b) \/ Receive(b)
    BY <1>6, <1>8 DEF Send, Finish, NoPending, AcceptBlock, Receive, sync
<1>9. CASE RejectPending
    BY <1>9 DEF RejectPending, RelayInv, RelaysAccepted, sync
<1>10. ASSUME NEW b \in Blocks, KeepPending(b) PROVE RelayInv'
    BY <1>10 DEF KeepPending, RelayInv, RelaysAccepted, sync
<1>11. CASE \E h \in Blocks : SwitchFails(h) \/ \E fFlush \in FlushModes : SwitchToCheckpoint(h, fFlush)
    BY <1>6, <1>11 DEF SwitchFails, SwitchToCheckpoint, InHand, Processed, sync
<1>12. ASSUME NEW h \in Blocks, AcceptCheckpoint(h) PROVE RelayInv'
    <2>1. hashSyncCheckpoint' = h /\ checkpointMessage' = MessageFor(h)
        BY <1>12 DEF AcceptCheckpoint, WriteSyncCheckpoint
    <2>2. MessageFor(h) \in {NoBlock, h}
        BY <1>12 DEF AcceptCheckpoint, InHand, MessageFor, RelayInv, RelaysAccepted
    <2>3. pc' \notin {"init", "key", "reset"}
        BY <1>12 DEF AcceptCheckpoint, Processed
    <2> QED
        BY <1>12, <2>1, <2>2, <2>3 DEF AcceptCheckpoint, RelayInv, RelaysAccepted
<1>13. CASE UNCHANGED vars
    BY <1>13 DEF vars, RelayInv, RelaysAccepted, sync, pending
<1> QED
    BY <1>2, <1>3, <1>4, <1>5, <1>7, <1>8, <1>9, <1>10, <1>11, <1>12, <1>13 DEF Next

\* ProcessSyncCheckpoint and AcceptPendingSyncCheckpoint relay the message of the
\* checkpoint they accepted, whatever arrives or goes pending in between: a peer is never
\* sent one that this node does not hold.
THEOREM RelaysOnlyAccepted == Spec => []RelaysAccepted
<1>1. Init => RelayInv
    BY DEF Init, RelayInv, RelaysAccepted
<1>2. RelayInv => RelaysAccepted
    BY DEF RelayInv
<1> QED
    BY <1>1, <1>2, NextRelay, SyncInvariance, PTL DEF Spec

\* The steps after which the set of failed blocks has not shrunk.
LEMMA FailedStays ==
    ASSUME SInv, [Next]_vars, ~(Crash \/ Shutdown \/ AssertFails)
    PROVE  blocktree.failed \subseteq blocktree'.failed
<1>1. blocktree = [indexed |-> blocktree.indexed, failed |-> blocktree.failed,
                   hashSyncCheckpoint |-> blocktree.hashSyncCheckpoint, key |-> blocktree.key]
    BY DEF SInv, DiskSInv
<1>2. \A h : WriteSyncCheckpoint(h) => blocktree'.failed = blocktree.failed
    BY <1>1 DEF WriteSyncCheckpoint
<1>3. \A new : BestFails(new) => blocktree.failed \subseteq blocktree'.failed
    <2> SUFFICES ASSUME NEW new, BestFails(new) PROVE blocktree.failed \subseteq blocktree'.failed
        OBVIOUS
    <2>1. PICK x : blocktree' = [blocktree EXCEPT !.failed = @ \cup {x}]
        BY DEF BestFails, WriteTree
    <2> QED
        BY <1>1, <2>1
<1>4. CASE Start \/ InitCheckpoint \/ CheckCheckpointPubKey \/ ResetSyncCheckpoint
    BY <1>1, <1>2, <1>4 DEF Start, InitCheckpoint, CheckCheckpointPubKey, ResetSyncCheckpoint
<1>5. ASSUME NEW fFlush \in FlushModes, FirstStart(fFlush)
      PROVE  blocktree.failed \subseteq blocktree'.failed
    BY <1>1, <1>5 DEF FirstStart
<1>6. ASSUME NEW fFlush \in FlushModes, NEW new, BestBecomes(new, fFlush)
      PROVE  blocktree.failed \subseteq blocktree'.failed
    BY <1>6 DEF BestBecomes
<1>7. CASE NothingBetter \/ AttachedAll \/ CheckBest \/ Send \/ Finish \/ NoPending
           \/ RejectPending \/ UNCHANGED vars
           \/ \E b \in Blocks : Attach(b) \/ KeepPending(b) \/ Receive(b)
    BY <1>7 DEF NothingBetter, AttachedAll, CheckBest, Send, Finish, NoPending, RejectPending,
                vars, Attach, KeepPending, Receive, disk
<1>8. CASE AttachFails \/ \E h \in Blocks : SwitchFails(h)
    BY <1>3, <1>8 DEF AttachFails, SwitchFails
<1>9. CASE \E fFlush \in FlushModes :
                AttachNext(fFlush) \/ \E h \in Blocks : SwitchToCheckpoint(h, fFlush)
    BY <1>6, <1>9 DEF AttachNext, SwitchToCheckpoint
<1>10. ASSUME NEW b \in Blocks, AcceptBlock(b)
       PROVE  blocktree.failed \subseteq blocktree'.failed
    BY <1>1, <1>10 DEF AcceptBlock, WriteTree
<1>11. ASSUME NEW h \in Blocks, AcceptCheckpoint(h)
       PROVE  blocktree.failed \subseteq blocktree'.failed
    BY <1>2, <1>11 DEF AcceptCheckpoint
<1> QED
    BY <1>4, <1>5, <1>7, <1>8, <1>9, <1>10, <1>11 DEF Next

LEMMA NextPending == SInv /\ PendInv /\ [Next]_vars => PendInv'
<1> SUFFICES ASSUME SInv, PendInv, [Next]_vars, hashPendingCheckpoint' \in Indexed',
                    blocktree'.failed = {}
             PROVE  caller' # "start" /\ pc' \in {"connect", "attach", "check", "pending"}
    BY DEF PendInv
<1> DEFINE Goal == caller' # "start" /\ pc' \in {"connect", "attach", "check", "pending"}
<1>1. /\ blocktree = [indexed |-> blocktree.indexed, failed |-> blocktree.failed,
                      hashSyncCheckpoint |-> blocktree.hashSyncCheckpoint,
                      key |-> blocktree.key]
      /\ Indexed \subseteq Blocks /\ NoBlock \notin Indexed
    BY BlockTreeAssumption DEF SInv, DiskSInv, TreeOK, Indexed
<1>2. NoBlock \notin Indexed'
    BY NextSInv, BlockTreeAssumption DEF SInv, DiskSInv, TreeOK, Indexed
<1>3. ~NewProcess
    BY <1>2 DEF NewProcess
<1>4. ~Start /\ ~Crash /\ ~Shutdown /\ ~AssertFails /\ \A fFlush \in FlushModes : ~FirstStart(fFlush)
    BY <1>3 DEF Start, Crash, Shutdown, AssertFails, FirstStart, PowerOff
<1>5. blocktree.failed = {}
    BY <1>4, FailedStays
<1>6. ASSUME hashPendingCheckpoint \in Indexed
      PROVE  caller # "start" /\ pc \in {"connect", "attach", "check", "pending"}
    BY <1>5, <1>6 DEF PendInv
<1>7. \A h : WriteSyncCheckpoint(h) => Indexed' = Indexed
    BY <1>1 DEF WriteSyncCheckpoint, Indexed
<1>8. \A new : ~BestFails(new)
    <2> SUFFICES ASSUME NEW new, BestFails(new) PROVE FALSE
        OBVIOUS
    <2>1. PICK x : blocktree' = [blocktree EXCEPT !.failed = @ \cup {x}]
        BY DEF BestFails, WriteTree
    <2> QED
        BY <1>1, <2>1
<1>9. CASE InitCheckpoint
    <2>1. hashPendingCheckpoint \in Indexed /\ pc = "init"
        BY <1>7, <1>9 DEF InitCheckpoint, pending
    <2> QED
        BY <1>6, <2>1
<1>10. CASE CheckCheckpointPubKey
    <2>1. blocktree' = [blocktree EXCEPT !.key = strMasterPubKey]
        BY <1>10 DEF CheckCheckpointPubKey
    <2>2. Indexed' = Indexed
        BY <1>1, <2>1 DEF Indexed
    <2>3. hashPendingCheckpoint \in Indexed /\ pc = "key"
        BY <1>10, <2>2 DEF CheckCheckpointPubKey, pending
    <2> QED
        BY <1>6, <2>3
<1>11. CASE ResetSyncCheckpoint
    <2>1. Indexed' = Indexed /\ pc = "reset"
        BY <1>7, <1>11 DEF ResetSyncCheckpoint
    <2>2. hashPendingCheckpoint' = IF LatestHardened \in Indexed THEN hashPendingCheckpoint
                                                                 ELSE LatestHardened
        BY <1>11 DEF ResetSyncCheckpoint
    <2>3. hashPendingCheckpoint \in Indexed
        BY <2>1, <2>2
    <2> QED
        BY <1>6, <2>1, <2>3
<1>12. CASE NothingBetter \/ AttachedAll \/ CheckBest \/ \E b \in Blocks : Attach(b)
    <2>1. /\ hashPendingCheckpoint \in Indexed
          /\ caller' = caller
          /\ pc' \in {"attach", "idle", "stopping", "accepted", "pending"}
          /\ caller \in {"block", "orphan"} => pc' \in {"attach", "pending"}
        BY <1>12 DEF NothingBetter, AttachedAll, CheckBest, Attach, ReturnBest, disk, pending,
                     Indexed, handler, SInv, HandSInv
    <2> QED
        BY <1>6, <2>1 DEF SInv, HandSInv
<1>13. CASE AttachFails \/ \E h \in Blocks : SwitchFails(h)
    BY <1>8, <1>13 DEF AttachFails, SwitchFails
<1>14. ASSUME NEW fFlush \in FlushModes, AttachNext(fFlush) PROVE Goal
    <2>1. hashPendingCheckpoint \in Indexed /\ caller' = caller /\ pc' \in {"attach", "check"}
        BY <1>14 DEF AttachNext, BestBecomes, pending, Indexed
    <2> QED
        BY <1>6, <2>1
<1>15. ASSUME NEW fFlush \in FlushModes, NEW h \in Blocks, SwitchToCheckpoint(h, fFlush)
       PROVE  Goal
    <2>1. hashPendingCheckpoint \in Indexed /\ caller' = caller /\ pc' = pc
        BY <1>15 DEF SwitchToCheckpoint, BestBecomes, pending, Indexed, handler
    <2> QED
        BY <1>6, <2>1
<1>16. ASSUME NEW b \in Blocks, AcceptBlock(b) PROVE Goal
    BY <1>16 DEF AcceptBlock
<1>17. CASE Send \/ Finish \/ NoPending \/ UNCHANGED vars \/ \E h \in Blocks : Receive(h)
    <2>1. /\ hashPendingCheckpoint \in Indexed
          /\ \/ caller' = caller /\ pc' = pc
             \/ pc \in {"idle", "accepted"}
        BY <1>17 DEF Send, Finish, NoPending, vars, Receive, disk, pending, Indexed, handler
    <2> QED
        BY <1>6, <2>1
<1>18. CASE RejectPending \/ \E h \in Blocks : AcceptCheckpoint(h)
    BY <1>2, <1>18 DEF RejectPending, AcceptCheckpoint
<1>19. ASSUME NEW h \in Blocks, KeepPending(h) PROVE Goal
    BY <1>19 DEF KeepPending, disk, Indexed
<1> QED
    BY <1>4, <1>9, <1>10, <1>11, <1>12, <1>13, <1>14, <1>15, <1>16, <1>17, <1>18, <1>19 DEF Next

\* AcceptPendingSyncCheckpoint runs after every block that ConnectBestBlock connected,
\* an orphan's included: no checkpoint whose block has come is left pending.
THEOREM NoPendingIsForgotten == Spec => []PendingIsMissing
<1>1. Init => PendInv
    BY DEF Init, PendInv, EmptyTree, Indexed
<1>2. PendInv => PendingIsMissing
    BY DEF PendInv, PendingIsMissing
<1> QED
    BY <1>1, <1>2, NextPending, SyncInvariance, PTL DEF Spec

-----------------------------------------------------------------------------
\* The download of blocks: types

Messages ==
    [type : {"version"}, height : Nat]
    \cup [type : {"getblocks"}, begin : Blocks, end : Tips]
    \cup [type : {"inv", "getdata"}, vInv : Seq(Blocks)]
    \cup [type : {"block"}, block : Blocks]

Requests == [inv : Blocks, time : Int]

PeerType ==
    [open : BOOLEAN, fInbound : BOOLEAN, version : BOOLEAN, nStartingHeight : Int,
     fStartSync : BOOLEAN, begin : Tips, end : Tips, hashContinue : Tips,
     setInventoryKnown : SUBSET Blocks, vInventoryToSend : Seq(Blocks), mapAskFor : Seq(Requests),
     vRecvGetData : Seq(Blocks), out : Seq(Messages)]

NodeType ==
    [mapBlockIndex : SUBSET Blocks, mapOrphanBlocks : SUBSET Blocks, pindexBest : Blocks,
     mapAlreadyAskedFor : [Blocks -> Int], pnodeSync : Nodes, peer : [Nodes -> PeerType]]

\* What a node's record of a peer says of blocks: those the peer knows of, those it hears
\* of, those it is to be sent because it asked, and those that it is asked for.
Known(p)  == p.setInventoryKnown
Offers(p) == Carried(p.out, "inv") \cup Carried(p.out, "block")
Serves(p) == ToSet(p.vRecvGetData)
Asks(p)   == Carried(p.out, "getdata") \cup {ask.inv : ask \in ToSet(p.mapAskFor)}

LEMMA CarriedAppend ==
    ASSUME NEW out \in Seq(Messages), NEW msg, NEW type
    PROVE  Carried(Append(out, msg), type) = Carried(out, type) \cup Load(msg, type)
<1> DEFINE n == Len(out)
           new == Append(out, msg)
<1>1. n \in Nat /\ DOMAIN out = 1 .. n /\ DOMAIN new = 1 .. n + 1
    OBVIOUS
<1>2. new[n + 1] = msg /\ \A i \in 1 .. n : new[i] = out[i]
    OBVIOUS
<1>3. 1 .. n + 1 = (1 .. n) \cup {n + 1}
    BY <1>1
<1> HIDE DEF n, new
<1>4. \A e : e \in Carried(new, type) <=> e \in Carried(out, type) \/ e \in Load(msg, type)
    BY <1>1, <1>2, <1>3 DEF Carried
<1> QED
    BY <1>4 DEF new

LEMMA CarriedTail ==
    ASSUME NEW out \in Seq(Messages), out # <<>>, NEW type
    PROVE  /\ Tail(out) \in Seq(Messages) /\ Head(out) \in Messages
           /\ Carried(out, type) = Load(Head(out), type) \cup Carried(Tail(out), type)
<1> DEFINE n == Len(out)
           new == Tail(out)
<1>1. n \in Nat \ {0} /\ DOMAIN out = 1 .. n /\ DOMAIN new = 1 .. n - 1
    OBVIOUS
<1>2. Head(out) = out[1] /\ \A i \in 1 .. n - 1 : new[i] = out[i + 1]
    OBVIOUS
<1>3. new \in Seq(Messages) /\ Head(out) \in Messages
    OBVIOUS
<1>4. (\A i \in 1 .. n : i = 1 \/ i - 1 \in 1 .. n - 1) /\ (\A i \in 1 .. n - 1 : i + 1 \in 1 .. n)
      /\ (\A i \in 1 .. n : (i - 1) + 1 = i) /\ 1 \in 1 .. n
    BY <1>1
<1> HIDE DEF n, new
<1>5. ASSUME NEW e \in Carried(out, type) PROVE e \in Load(Head(out), type) \cup Carried(new, type)
    <2>1. PICK i \in 1 .. n : e \in Load(out[i], type)
        BY <1>1, <1>5 DEF Carried
    <2>2. CASE i = 1
        BY <1>2, <2>1, <2>2
    <2>3. CASE i # 1
        <3>1. i - 1 \in 1 .. n - 1 /\ out[i] = new[i - 1]
            BY <1>2, <1>4, <2>3
        <3> QED
            BY <1>1, <2>1, <3>1 DEF Carried
    <2> QED
        BY <2>2, <2>3
<1>6. ASSUME NEW e \in Carried(new, type) PROVE e \in Carried(out, type)
    <2>1. PICK i \in 1 .. n - 1 : e \in Load(new[i], type)
        BY <1>1, <1>6 DEF Carried
    <2>2. new[i] = out[i + 1] /\ i + 1 \in 1 .. n
        BY <1>2, <1>4
    <2> QED
        BY <1>1, <2>1, <2>2 DEF Carried
<1>7. ASSUME NEW e \in Load(Head(out), type) PROVE e \in Carried(out, type)
    BY <1>1, <1>2, <1>4, <1>7 DEF Carried
<1>8. Carried(out, type) = Load(Head(out), type) \cup Carried(new, type)
    BY <1>5, <1>6, <1>7
<1> QED
    BY <1>3, <1>8 DEF new

LEMMA CarriedNone ==
    ASSUME NEW type
    PROVE  Carried(<<>>, type) = {}
BY DEF Carried

\* The kinds of messages
LEMMA MessageTypes ==
    /\ \A h \in Nat : [type |-> "version", height |-> h] \in Messages
    /\ \A b \in Blocks, e \in Tips : [type |-> "getblocks", begin |-> b, end |-> e] \in Messages
    /\ \A q \in Seq(Blocks), t \in {"inv", "getdata"} : [type |-> t, vInv |-> q] \in Messages
    /\ \A b \in Blocks : [type |-> "block", block |-> b] \in Messages
BY DEF Messages

LEMMA MessageFields ==
    ASSUME NEW msg \in Messages
    PROVE  /\ msg.type = "version" => msg.height \in Nat
           /\ msg.type = "getblocks" => msg.begin \in Blocks /\ msg.end \in Tips
           /\ msg.type \in {"inv", "getdata"} => msg.vInv \in Seq(Blocks)
           /\ msg.type = "block" => msg.block \in Blocks
BY DEF Messages

LEMMA PeerFields ==
    ASSUME NEW p \in PeerType
    PROVE  /\ p.setInventoryKnown \in SUBSET Blocks /\ p.vInventoryToSend \in Seq(Blocks)
           /\ p.mapAskFor \in Seq(Requests) /\ p.vRecvGetData \in Seq(Blocks)
           /\ p.out \in Seq(Messages) /\ p.begin \in Tips /\ p.end \in Tips
           /\ p.hashContinue \in Tips
BY DEF PeerType

LEMMA NodeFields ==
    ASSUME NEW x \in NodeType
    PROVE  /\ x.mapBlockIndex \in SUBSET Blocks /\ x.mapOrphanBlocks \in SUBSET Blocks
           /\ x.pindexBest \in Blocks /\ x.mapAlreadyAskedFor \in [Blocks -> Int]
           /\ x.pnodeSync \in Nodes /\ x.peer \in [Nodes -> PeerType]
BY DEF NodeType

-----------------------------------------------------------------------------
\* What a handler does to its node, in terms of sets of blocks

\* A node that only tells others of blocks that it has, and has the chain of each.
Sound(x) ==
    /\ x \in NodeType
    /\ x.pindexBest \in x.mapBlockIndex
    /\ \A b \in x.mapBlockIndex : Ancestry[b] \subseteq x.mapBlockIndex
    /\ IsFiniteSet(x.mapOrphanBlocks)
    /\ \A k \in Nodes : /\ ToSet(x.peer[k].vInventoryToSend) \subseteq x.mapBlockIndex
                        /\ Offers(x.peer[k]) \subseteq x.mapBlockIndex

SameTo(p, q) ==
    Known(q) = Known(p) /\ Offers(q) = Offers(p) /\ Serves(q) = Serves(p) /\ Asks(q) = Asks(p)

\* O is what the peer announces; a request goes only when the block is there, and what
\* is in the index I is served before it is forgotten.
PeerStep(p, q, I, H, O) ==
    /\ Known(q) \subseteq Known(p) \cup O \cup Offers(q)
    /\ Offers(p) \subseteq Offers(q)
    /\ Asks(p) \subseteq Asks(q) \cup H
    /\ Serves(p) \cap I \subseteq Serves(q) \cup Offers(q)

Step(x, y, m, O) ==
    /\ x.mapBlockIndex \subseteq y.mapBlockIndex
    /\ Have(x) \subseteq Have(y)
    /\ PeerStep(x.peer[m], y.peer[m], x.mapBlockIndex, Have(y), O)
    /\ \A k \in Nodes \ {m} : SameTo(x.peer[k], y.peer[k])

\* Steps follow each other.
LEMMA StepsCompose ==
    ASSUME NEW x, NEW y, NEW z, NEW m, NEW O, NEW Q, Step(x, y, m, O), Step(y, z, m, Q), O \subseteq Q
    PROVE  Step(x, z, m, Q)
<1>1. /\ x.mapBlockIndex \subseteq z.mapBlockIndex /\ Have(x) \subseteq Have(z)
      /\ \A k \in Nodes \ {m} : SameTo(x.peer[k], z.peer[k])
    BY DEF Step, SameTo
<1>2. PeerStep(x.peer[m], z.peer[m], x.mapBlockIndex, Have(z), Q)
    <2>1. /\ PeerStep(x.peer[m], y.peer[m], x.mapBlockIndex, Have(y), O)
          /\ PeerStep(y.peer[m], z.peer[m], y.mapBlockIndex, Have(z), Q)
          /\ x.mapBlockIndex \subseteq y.mapBlockIndex /\ Have(y) \subseteq Have(z)
        BY DEF Step
    <2> QED
        BY <2>1 DEF PeerStep
<1> QED
    BY <1>1, <1>2 DEF Step

LEMMA StepStays ==
    ASSUME NEW x, NEW m, NEW O
    PROVE  Step(x, x, m, O)
BY DEF Step, PeerStep, SameTo

\* A handler that changes its record of the peer only
PutPeer(x, m, q) == [x EXCEPT !.peer[m] = q]

LEMMA PutPeerIs ==
    ASSUME NEW x \in NodeType, NEW m \in Nodes, NEW q \in PeerType, NEW y, y = PutPeer(x, m, q)
    PROVE  /\ y \in NodeType
           /\ y.peer[m] = q
           /\ \A k \in Nodes \ {m} : y.peer[k] = x.peer[k]
           /\ y.mapBlockIndex = x.mapBlockIndex /\ y.mapOrphanBlocks = x.mapOrphanBlocks
           /\ y.pindexBest = x.pindexBest /\ y.mapAlreadyAskedFor = x.mapAlreadyAskedFor
           /\ y.pnodeSync = x.pnodeSync
BY DEF PutPeer, NodeType

LEMMA PutPeerAgain ==
    ASSUME NEW x \in NodeType, NEW m \in Nodes, NEW p \in PeerType, NEW q
    PROVE  PutPeer(PutPeer(x, m, p), m, q) = PutPeer(x, m, q)
BY DEF PutPeer, NodeType

LEMMA PutPeerStep ==
    ASSUME NEW x, Sound(x), NEW m \in Nodes, NEW q \in PeerType, NEW O,
           PeerStep(x.peer[m], q, x.mapBlockIndex, Have(x), O),
           ToSet(q.vInventoryToSend) \subseteq x.mapBlockIndex,
           Offers(q) \subseteq x.mapBlockIndex
    PROVE  Sound(PutPeer(x, m, q)) /\ Step(x, PutPeer(x, m, q), m, O)
<1> DEFINE y == PutPeer(x, m, q)
<1>1. x \in NodeType
    BY DEF Sound
<1>2. /\ y \in NodeType
      /\ y.peer[m] = q
      /\ \A k \in Nodes \ {m} : y.peer[k] = x.peer[k]
      /\ y.mapBlockIndex = x.mapBlockIndex /\ y.mapOrphanBlocks = x.mapOrphanBlocks
      /\ y.pindexBest = x.pindexBest
    BY <1>1, PutPeerIs
<1> HIDE DEF y
<1>3. Have(y) = Have(x)
    BY <1>2 DEF Have
<1>4. Sound(y)
    BY <1>2 DEF Sound
<1>5. Step(x, y, m, O)
    <2>1. \A k \in Nodes \ {m} : SameTo(x.peer[k], y.peer[k])
        BY <1>2 DEF SameTo
    <2> QED
        BY <1>2, <1>3, <2>1 DEF Step
<1> QED
    BY <1>4, <1>5 DEF y

\* A handler that changes the state of the node, and no record of a peer
LEMMA OwnStep ==
    ASSUME NEW x, NEW y, NEW m, NEW O, y.peer = x.peer,
           x.mapBlockIndex \subseteq y.mapBlockIndex, Have(x) \subseteq Have(y)
    PROVE  Step(x, y, m, O)
BY DEF Step, PeerStep, SameTo

-----------------------------------------------------------------------------
\* Messages, announcements and requests

LEMMA OutSet ==
    ASSUME NEW p \in PeerType, NEW o \in Seq(Messages), NEW q, q = [p EXCEPT !.out = o]
    PROVE  /\ q \in PeerType /\ q.out = o /\ Known(q) = Known(p) /\ Serves(q) = Serves(p)
           /\ q.vInventoryToSend = p.vInventoryToSend /\ q.mapAskFor = p.mapAskFor
           /\ q.hashContinue = p.hashContinue /\ q.vRecvGetData = p.vRecvGetData
BY DEF PeerType, Known, Serves

\* y is x after msg was sent to m.
Sent(x, y, m, msg) ==
    /\ Sound(y) /\ Step(x, y, m, {})
    /\ Offers(y.peer[m]) = Offers(x.peer[m]) \cup Load(msg, "inv") \cup Load(msg, "block")
    /\ Asks(y.peer[m]) = Asks(x.peer[m]) \cup Load(msg, "getdata")
    /\ Known(y.peer[m]) = Known(x.peer[m]) /\ Serves(y.peer[m]) = Serves(x.peer[m])
    /\ y.peer[m].vRecvGetData = x.peer[m].vRecvGetData
    /\ Have(y) = Have(x) /\ y.mapBlockIndex = x.mapBlockIndex
    /\ y.pindexBest = x.pindexBest

\* What the message announces is in the index.
Announces(msg, I) == Load(msg, "inv") \cup Load(msg, "block") \subseteq I

\* Sends appends to what goes to the peer.
LEMMA SendsStep ==
    ASSUME NEW x, Sound(x), NEW m \in Nodes, NEW msg \in Messages, Announces(msg, x.mapBlockIndex)
    PROVE  Sent(x, Sends(x, m, msg), m, msg)
<1> DEFINE p == x.peer[m]
           o == Append(p.out, msg)
           q == [p EXCEPT !.out = o]
           y == Sends(x, m, msg)
<1>1. x \in NodeType /\ p \in PeerType /\ p.out \in Seq(Messages)
    <2>1. x \in NodeType /\ p \in PeerType
        BY NodeFields DEF Sound
    <2> QED
        BY <2>1, PeerFields
<1>2. y = PutPeer(x, m, q)
    BY DEF Sends, PutPeer
<1>3. o \in Seq(Messages)
    BY <1>1
<1>4. \A type : Carried(o, type) = Carried(p.out, type) \cup Load(msg, type)
    BY <1>1, CarriedAppend
<1> HIDE DEF o, y
<1>5. /\ q \in PeerType /\ q.out = o /\ Known(q) = Known(p) /\ Serves(q) = Serves(p)
      /\ q.vInventoryToSend = p.vInventoryToSend /\ q.mapAskFor = p.mapAskFor
      /\ q.vRecvGetData = p.vRecvGetData
    <2> HIDE DEF p
    <2> QED
        BY <1>1, <1>3, OutSet
<1> HIDE DEF q
<1>6. /\ Offers(q) = Offers(p) \cup Load(msg, "inv") \cup Load(msg, "block")
      /\ Asks(q) = Asks(p) \cup Load(msg, "getdata")
    BY <1>4, <1>5 DEF Offers, Asks
<1>7. Offers(p) \subseteq x.mapBlockIndex /\ ToSet(p.vInventoryToSend) \subseteq x.mapBlockIndex
    BY DEF Sound
<1>8. PeerStep(p, q, x.mapBlockIndex, Have(x), {})
    BY <1>5, <1>6 DEF PeerStep
<1>9. Sound(y) /\ Step(x, y, m, {})
    BY <1>2, <1>5, <1>6, <1>7, <1>8, PutPeerStep DEF Announces
<1>10. y.peer[m] = q /\ y.mapBlockIndex = x.mapBlockIndex /\ y.mapOrphanBlocks = x.mapOrphanBlocks
       /\ y.pindexBest = x.pindexBest
    BY <1>1, <1>2, <1>5, PutPeerIs
<1> QED
    BY <1>5, <1>6, <1>9, <1>10 DEF y, Have, Sent

\* The effect of a handler that no block notices
Quiet(x, y, m) ==
    /\ Sound(y) /\ Step(x, y, m, {})
    /\ SameTo(x.peer[m], y.peer[m])
    /\ Have(y) = Have(x) /\ y.mapBlockIndex = x.mapBlockIndex /\ y.pindexBest = x.pindexBest

LEMMA QuietStays ==
    ASSUME NEW x, Sound(x), NEW m
    PROVE  Quiet(x, x, m)
BY StepStays DEF Quiet, SameTo

\* A new record of the peer that says the same of blocks
LEMMA PutPeerQuiet ==
    ASSUME NEW x, Sound(x), NEW m \in Nodes, NEW q \in PeerType, SameTo(x.peer[m], q),
           ToSet(q.vInventoryToSend) \subseteq x.mapBlockIndex
    PROVE  Quiet(x, PutPeer(x, m, q), m)
<1> DEFINE y == PutPeer(x, m, q)
<1>1. PeerStep(x.peer[m], q, x.mapBlockIndex, Have(x), {})
    BY DEF PeerStep, SameTo
<1>2. Offers(q) \subseteq x.mapBlockIndex
    BY DEF Sound, SameTo
<1>3. Sound(y) /\ Step(x, y, m, {})
    BY <1>1, <1>2, PutPeerStep
<1>4. x \in NodeType
    BY DEF Sound
<1>5. y.peer[m] = q /\ y.mapBlockIndex = x.mapBlockIndex /\ y.mapOrphanBlocks = x.mapOrphanBlocks
      /\ y.pindexBest = x.pindexBest
    BY <1>4, PutPeerIs
<1> HIDE DEF y
<1>6. Quiet(x, y, m)
    BY <1>3, <1>5 DEF Quiet, Have
<1> QED
    BY <1>6 DEF y

LEMMA PushGetBlocksQuiet ==
    ASSUME NEW x, Sound(x), NEW m \in Nodes, NEW begin \in Blocks, NEW end \in Tips
    PROVE  Quiet(x, PushGetBlocks(x, m, begin, end), m)
<1> DEFINE p == x.peer[m]
           q == [p EXCEPT !.begin = begin, !.end = end]
           z == PutPeer(x, m, q)
           msg == [type |-> "getblocks", begin |-> begin, end |-> end]
           y == Sends(z, m, msg)
<1>1. p \in PeerType
    BY NodeFields DEF Sound
<1>2. q \in PeerType /\ SameTo(p, q) /\ q.vInventoryToSend = p.vInventoryToSend
    <2> HIDE DEF p
    <2> QED
        BY <1>1 DEF Tips, PeerType, SameTo, Known, Offers, Serves, Asks
<1> HIDE DEF q
<1>3. Quiet(x, z, m)
    <2>1. ToSet(q.vInventoryToSend) \subseteq x.mapBlockIndex
        BY <1>2 DEF Sound
    <2> QED
        BY <1>2, <2>1, PutPeerQuiet
<1>4. msg \in Messages /\ \A type \in {"inv", "block", "getdata"} : Load(msg, type) = {}
    BY MessageTypes DEF Load
<1>5. PushGetBlocksAnew(x, m, begin, end) = y
    BY DEF PushGetBlocksAnew, PutPeer, q
<1> HIDE DEF z, msg, p
<1>6. /\ Sound(y) /\ Step(z, y, m, {}) /\ SameTo(z.peer[m], y.peer[m])
      /\ Have(y) = Have(z) /\ y.mapBlockIndex = z.mapBlockIndex /\ y.pindexBest = z.pindexBest
    <2>1. Sound(z) /\ Announces(msg, z.mapBlockIndex)
        BY <1>3, <1>4 DEF Quiet, Announces
    <2>2. Sent(z, y, m, msg)
        BY <1>4, <2>1, SendsStep
    <2> HIDE DEF y
    <2> QED
        BY <1>4, <2>2 DEF SameTo, Sent
<1> HIDE DEF y
<1>7. Step(x, y, m, {})
    BY <1>3, <1>6, StepsCompose DEF Quiet
<1>8. Quiet(x, y, m)
    BY <1>3, <1>6, <1>7 DEF Quiet, SameTo
<1>9. PushGetBlocks(x, m, begin, end) \in {x, y}
    BY <1>5 DEF PushGetBlocks
<1> QED
    BY <1>8, <1>9, QuietStays

LEMMA GetOrphanRootType ==
    ASSUME NEW x \in NodeType, NEW b \in Blocks
    PROVE  GetOrphanRoot(x, b) \in Blocks
<1> DEFINE S == {r \in Ancestry[b] : Parent[r] \notin x.mapOrphanBlocks}
<1>1. S \in SUBSET Blocks /\ Genesis \in S
    <2>1. Ancestry[b] \in SUBSET Blocks /\ Genesis \in Ancestry[b]
        BY SelfOnChain, GenesisOnChain
    <2>2. Parent[Genesis] \notin x.mapOrphanBlocks
        BY NodeFields, GenesisAssumption, BlockTreeAssumption
    <2> QED
        BY <2>1, <2>2
<1>2. \E r \in S : \A c \in S : ~(Height[c] > Height[r])
    <2> DEFINE Tops == {Height[b] - Height[r] : r \in S}
    <2>1. \A r \in S : Height[r] \in Nat /\ Height[r] <= Height[b] /\ Height[b] \in Nat
        BY <1>1, OnChain, BlockTreeAssumption
    <2>2. Tops \in SUBSET Nat /\ Tops # {}
        <3> HIDE DEF S
        <3> QED
            BY <1>1, <2>1
    <2>3. PICK t \in Tops : \A k \in Tops : t <= k
        <3> HIDE DEF Tops
        <3> QED
            BY <2>2, SmallestExists
    <2>4. PICK r \in S : t = Height[b] - Height[r]
        OBVIOUS
    <2>5. ASSUME NEW c \in S PROVE ~(Height[c] > Height[r])
        <3>1. Height[b] - Height[r] <= Height[b] - Height[c]
            BY <2>3, <2>4
        <3> HIDE DEF S
        <3>2. Height[b] \in Nat /\ Height[r] \in Nat /\ Height[c] \in Nat
            BY <2>1
        <3> QED
            BY <3>1, <3>2
    <2> QED
        BY <2>5
<1>3. PICK r \in S : \A c \in S : ~(Height[c] > Height[r])
    BY <1>2
<1>4. GetOrphanRoot(x, b) \in Ancestry[b]
    BY <1>3 DEF GetOrphanRoot
<1> QED
    BY <1>4, SelfOnChain

LEMMA AddInventoryKnownStep ==
    ASSUME NEW x, Sound(x), NEW m \in Nodes, NEW b \in Blocks
    PROVE  LET y == AddInventoryKnown(x, m, b)
           IN  /\ Sound(y) /\ Step(x, y, m, {b})
               /\ y.mapBlockIndex = x.mapBlockIndex /\ y.mapOrphanBlocks = x.mapOrphanBlocks
               /\ y.pindexBest = x.pindexBest
<1> DEFINE p == x.peer[m]
           q == [p EXCEPT !.setInventoryKnown = @ \cup {b}]
           y == AddInventoryKnown(x, m, b)
<1>1. x \in NodeType /\ p \in PeerType
    BY NodeFields DEF Sound
<1>2. y = PutPeer(x, m, q)
    BY DEF AddInventoryKnown, PutPeer
<1>3. /\ q \in PeerType /\ Known(q) = Known(p) \cup {b} /\ Offers(q) = Offers(p)
      /\ Serves(q) = Serves(p) /\ Asks(q) = Asks(p) /\ q.vInventoryToSend = p.vInventoryToSend
    <2> HIDE DEF p
    <2> QED
        BY <1>1 DEF PeerType, Known, Offers, Serves, Asks
<1> HIDE DEF q, y
<1>4. PeerStep(p, q, x.mapBlockIndex, Have(x), {b})
    BY <1>3 DEF PeerStep
<1>5. ToSet(q.vInventoryToSend) \subseteq x.mapBlockIndex /\ Offers(q) \subseteq x.mapBlockIndex
    BY <1>3 DEF Sound
<1>6. Sound(y) /\ Step(x, y, m, {b})
    BY <1>2, <1>3, <1>4, <1>5, PutPeerStep
<1>7. y.mapBlockIndex = x.mapBlockIndex /\ y.mapOrphanBlocks = x.mapOrphanBlocks
      /\ y.pindexBest = x.pindexBest
    BY <1>1, <1>2, <1>3, PutPeerIs
<1> QED
    BY <1>6, <1>7 DEF y

LEMMA UntilType ==
    ASSUME NEW queue \in Seq(Requests), NEW time \in Int
    PROVE  Until(queue, time) \in 0 .. Len(queue)
<1> DEFINE S == {i \in DOMAIN queue : queue[i].time <= time}
<1>1. DOMAIN queue = 1 .. Len(queue) /\ Len(queue) \in Nat
    OBVIOUS
<1>2. IsFiniteSet(DOMAIN queue) /\ Cardinality(DOMAIN queue) = Len(queue)
    BY <1>1, FS_Interval
<1>3. S \subseteq DOMAIN queue
    OBVIOUS
<1> HIDE DEF S
<1>4. IsFiniteSet(S) /\ Cardinality(S) <= Cardinality(DOMAIN queue)
    BY <1>2, <1>3, FS_Subset
<1>5. Cardinality(S) \in Nat
    BY <1>4, FS_CardinalityType
<1>6. Cardinality(S) \in 0 .. Len(queue)
    BY <1>1, <1>2, <1>4, <1>5
<1> QED
    BY <1>6 DEF Until, S

\* A sequence with one more element in its midst
LEMMA InsertAtIs ==
    ASSUME NEW X, NEW q \in Seq(X), NEW e \in X, NEW k \in 1 .. Len(q) + 1
    PROVE  InsertAt(q, k, e) \in Seq(X) /\ ToSet(InsertAt(q, k, e)) = ToSet(q) \cup {e}
<1> DEFINE n == Len(q)
           a == SubSeq(q, 1, k - 1)
           b == SubSeq(q, k, n)
           c == a \o <<e>>
           r == c \o b
<1>1. n \in Nat /\ k \in Nat \ {0} /\ k <= n + 1 /\ DOMAIN q = 1 .. n
    OBVIOUS
<1>2. a \in Seq(X) /\ Len(a) = k - 1 /\ \A i \in 1 .. k - 1 : a[i] = q[i]
    BY <1>1
<1>3. b \in Seq(X) /\ Len(b) = n - k + 1 /\ \A i \in 1 .. n - k + 1 : b[i] = q[k + i - 1]
    BY <1>1
<1>4. InsertAt(q, k, e) = r
    BY DEF InsertAt
<1> HIDE DEF a, b, n
<1>5. c \in Seq(X) /\ Len(c) = k /\ c[k] = e /\ \A i \in 1 .. k - 1 : c[i] = a[i]
    BY <1>1, <1>2
<1> HIDE DEF c
<1>6. r \in Seq(X) /\ Len(r) = n + 1
    BY <1>1, <1>3, <1>5
<1>7. \A i \in 1 .. k : r[i] = c[i]
    BY <1>1, <1>3, <1>5
<1>8. \A i \in 1 .. n - k + 1 : r[k + i] = b[i]
    BY <1>1, <1>3, <1>5
<1> HIDE DEF r
<1>9. ASSUME NEW i \in 1 .. n + 1 PROVE r[i] \in ToSet(q) \cup {e}
    <2>1. CASE i < k
        <3>1. i \in 1 .. k - 1 /\ i \in 1 .. k /\ i \in DOMAIN q
            BY <1>1, <2>1
        <3> QED
            BY <1>2, <1>5, <1>7, <3>1 DEF ToSet
    <2>2. CASE i = k
        <3>1. k \in 1 .. k
            BY <1>1
        <3> QED
            BY <1>5, <1>7, <2>2, <3>1
    <2>3. CASE i > k
        <3> DEFINE j == i - k
        <3>1. j \in 1 .. n - k + 1 /\ k + j = i /\ k + j - 1 \in DOMAIN q
            BY <1>1, <2>3
        <3> HIDE DEF j
        <3> QED
            BY <1>3, <1>8, <3>1 DEF ToSet
    <2> QED
        BY <1>1, <2>1, <2>2, <2>3
<1>10. ASSUME NEW i \in 1 .. n PROVE \E j \in 1 .. n + 1 : r[j] = q[i]
    <2>1. CASE i < k
        <3>1. i \in 1 .. k - 1 /\ i \in 1 .. k /\ i \in 1 .. n + 1
            BY <1>1, <2>1
        <3> QED
            BY <1>2, <1>5, <1>7, <3>1
    <2>2. CASE ~(i < k)
        <3> DEFINE j == i - k + 1
        <3>1. j \in 1 .. n - k + 1 /\ k + j - 1 = i /\ k + j \in 1 .. n + 1
            BY <1>1, <2>2
        <3> HIDE DEF j
        <3> QED
            BY <1>3, <1>8, <3>1
    <2> QED
        BY <2>1, <2>2
<1>11. DOMAIN r = 1 .. n + 1 /\ k \in 1 .. n + 1 /\ k \in 1 .. k
    BY <1>1, <1>6
<1>12. ToSet(r) = ToSet(q) \cup {e}
    <2>1. ASSUME NEW f \in ToSet(r) PROVE f \in ToSet(q) \cup {e}
        BY <1>9, <1>11, <2>1 DEF ToSet
    <2>2. ASSUME NEW f \in ToSet(q) PROVE f \in ToSet(r)
        BY <1>1, <1>10, <1>11, <2>2 DEF ToSet
    <2>3. e \in ToSet(r)
        BY <1>5, <1>7, <1>11 DEF ToSet
    <2> QED
        BY <2>1, <2>2, <2>3
<1> QED
    BY <1>4, <1>6, <1>12

\* AskFor remembers to ask the peer for the block.
LEMMA AskForStep ==
    ASSUME NEW x, Sound(x), NEW m \in Nodes, NEW b \in Blocks
    PROVE  LET y == AskFor(x, m, b)
           IN  Sound(y) /\ Step(x, y, m, {}) /\ b \in Asks(y.peer[m])
<1> DEFINE p == x.peer[m]
           queue == p.mapAskFor
           time == x.mapAlreadyAskedFor[b] + 1
           r == [inv |-> b, time |-> time]
           new == InsertAt(queue, Until(queue, time) + 1, r)
           q == [p EXCEPT !.mapAskFor = new]
           z == [x EXCEPT !.mapAlreadyAskedFor[b] = time]
           y == AskFor(x, m, b)
<1>1. x \in NodeType /\ p \in PeerType /\ queue \in Seq(Requests) /\ time \in Int
    <2>1. x \in NodeType /\ p \in PeerType
        BY NodeFields DEF Sound
    <2>2. queue \in Seq(Requests)
        BY <2>1, PeerFields
    <2>3. time \in Int
        BY <2>1, NodeFields
    <2> QED
        BY <2>1, <2>2, <2>3
<1>2. y = PutPeer(z, m, q)
    <2>1. z.peer = x.peer
        BY <1>1 DEF NodeType
    <2>2. y = [z EXCEPT !.peer[m].mapAskFor = new]
        BY <1>1 DEF AskFor, NodeType
    <2> QED
        BY <2>1, <2>2 DEF PutPeer
<1>3. z.peer = x.peer /\ Sound(z) /\ z.mapBlockIndex = x.mapBlockIndex /\ Have(z) = Have(x)
    <2>1. /\ z \in NodeType /\ z.peer = x.peer /\ z.mapBlockIndex = x.mapBlockIndex
          /\ z.mapOrphanBlocks = x.mapOrphanBlocks /\ z.pindexBest = x.pindexBest
        <3> HIDE DEF time
        <3> QED
            BY <1>1 DEF NodeType
    <2> HIDE DEF z
    <2> QED
        BY <2>1 DEF Sound, Have
<1>4. r \in Requests /\ r.inv = b
    <2> HIDE DEF time
    <2> QED
        BY <1>1 DEF Requests
<1> HIDE DEF r, z, y
<1>5. new \in Seq(Requests) /\ ToSet(new) = ToSet(queue) \cup {r}
    <2> DEFINE k == Until(queue, time) + 1
    <2>1. k \in 1 .. Len(queue) + 1
        <3> HIDE DEF queue, time
        <3>1. Until(queue, time) \in 0 .. Len(queue) /\ Len(queue) \in Nat
            BY <1>1, UntilType
        <3> DEFINE u == Until(queue, time)
                   l == Len(queue)
        <3> HIDE DEF u, l
        <3>2. u + 1 \in 1 .. l + 1
            BY <3>1 DEF u, l
        <3> QED
            BY <3>2 DEF u, l
    <2> HIDE DEF k
    <2>2. InsertAt(queue, k, r) \in Seq(Requests) /\ ToSet(InsertAt(queue, k, r)) = ToSet(queue) \cup {r}
        <3> HIDE DEF queue
        <3> QED
            BY <1>1, <1>4, <2>1, InsertAtIs
    <2> QED
        BY <2>2 DEF k
<1> HIDE DEF new
<1>6. /\ q \in PeerType /\ Known(q) = Known(p) /\ Offers(q) = Offers(p) /\ Serves(q) = Serves(p)
      /\ q.out = p.out /\ q.mapAskFor = new /\ q.vInventoryToSend = p.vInventoryToSend
    <2> HIDE DEF p
    <2> QED
        BY <1>1, <1>5 DEF PeerType, Known, Offers, Serves
<1> HIDE DEF q
<1>7. Asks(p) \subseteq Asks(q) /\ b \in Asks(q)
    <2>1. \A ask \in ToSet(queue) : ask \in ToSet(new)
        BY <1>5
    <2>2. r \in ToSet(new)
        BY <1>5
    <2> HIDE DEF p
    <2> QED
        BY <1>4, <1>6, <2>1, <2>2 DEF Asks
<1>8. PeerStep(z.peer[m], q, z.mapBlockIndex, Have(z), {})
    BY <1>3, <1>6, <1>7 DEF PeerStep
<1>9. ToSet(q.vInventoryToSend) \subseteq z.mapBlockIndex /\ Offers(q) \subseteq z.mapBlockIndex
    BY <1>3, <1>6 DEF Sound
<1>10. Sound(y) /\ Step(z, y, m, {})
    BY <1>2, <1>3, <1>6, <1>8, <1>9, PutPeerStep
<1>11. y.peer[m] = q
    <2>1. z \in NodeType
        BY <1>3 DEF Sound
    <2> QED
        BY <1>2, <1>6, <2>1, PutPeerIs
<1>12. Step(x, z, m, {})
    BY <1>3, OwnStep
<1>13. Step(x, y, m, {})
    BY <1>10, <1>12, StepsCompose
<1> QED
    BY <1>7, <1>10, <1>11, <1>13 DEF y

\* What is done with one block that the peer announces
LEMMA TakeInvStep ==
    ASSUME NEW x, Sound(x), NEW m \in Nodes, NEW b \in Blocks, NEW last
    PROVE  LET y == TakeInv(x, m, b, last)
           IN  Sound(y) /\ Step(x, y, m, {b}) /\ b \in Have(y) \cup Asks(y.peer[m])
<1> DEFINE z == AddInventoryKnown(x, m, b)
           y == TakeInv(x, m, b, last)
<1>1. Sound(z) /\ Step(x, z, m, {b})
    BY AddInventoryKnownStep
<1> HIDE DEF z
<1>2. \A w : Step(z, w, m, {}) => Step(x, w, m, {b})
    <2>1. ASSUME NEW w, Step(z, w, m, {}) PROVE Step(x, w, m, {b})
        <3>1. Step(z, w, m, {b})
            BY <2>1 DEF Step, PeerStep
        <3> QED
            BY <1>1, <3>1, StepsCompose
    <2> QED
        BY <2>1
<1>3. y = IF ~AlreadyHave(z, b) THEN AskFor(z, m, b)
          ELSE IF b \in z.mapOrphanBlocks THEN PushGetBlocks(z, m, z.pindexBest, GetOrphanRoot(z, b))
          ELSE IF last THEN PushGetBlocks(z, m, b, NoBlock)
          ELSE z
    BY DEF TakeInv, z
<1> HIDE DEF y
<1>4. CASE ~AlreadyHave(z, b)
    <2>1. y = AskFor(z, m, b)
        BY <1>3, <1>4
    <2>2. Sound(y) /\ Step(z, y, m, {}) /\ b \in Asks(y.peer[m])
        BY <1>1, <2>1, AskForStep
    <2> QED
        BY <1>2, <2>2 DEF y
<1>5. CASE AlreadyHave(z, b)
    <2>1. b \in Have(z)
        BY <1>5 DEF AlreadyHave
    <2>2. Quiet(z, y, m)
        <3>1. z.pindexBest \in Blocks /\ NoBlock \in Tips /\ GetOrphanRoot(z, b) \in Tips
            <4>1. z \in NodeType
                BY <1>1 DEF Sound
            <4>2. GetOrphanRoot(z, b) \in Blocks /\ z.pindexBest \in Blocks
                BY <4>1, GetOrphanRootType, NodeFields
            <4> QED
                BY <4>2 DEF Tips
        <3>2. \A begin \in Blocks, end \in Tips : Quiet(z, PushGetBlocks(z, m, begin, end), m)
            BY <1>1, PushGetBlocksQuiet
        <3>3. Quiet(z, z, m)
            BY <1>1, QuietStays
        <3>4. \/ y = z \/ y = PushGetBlocks(z, m, z.pindexBest, GetOrphanRoot(z, b))
              \/ y = PushGetBlocks(z, m, b, NoBlock)
            BY <1>3, <1>5
        <3> QED
            BY <3>1, <3>2, <3>3, <3>4
    <2>3. Sound(y) /\ Step(z, y, m, {}) /\ b \in Have(y)
        BY <2>1, <2>2 DEF Quiet
    <2> QED
        BY <1>2, <2>3 DEF y
<1> QED
    BY <1>4, <1>5

\* LeaveOut leaves out what is in S, and nothing else.
LEMMA LeaveOutIs ==
    ASSUME NEW X, NEW q \in Seq(X), NEW S
    PROVE  /\ LeaveOut(q, S) \in Seq(X)
           /\ ToSet(LeaveOut(q, S)) \subseteq ToSet(q)
           /\ ToSet(q) \ S \subseteq ToSet(LeaveOut(q, S))
<1> DEFINE n == Len(q)
           Y == ToSet(q)
           P == Seq(Y)
           F == [a \in P \X (1 .. n) |-> IF q[a[2]] \in S THEN a[1] ELSE Append(a[1], q[a[2]])]
           start == <<>>
           e == LeaveOut(q, S)
<1>1. q \in Seq(Y) /\ Y \subseteq X /\ n \in Nat /\ DOMAIN q = 1 .. n
    BY DEF ToSet
<1>2. e = Dropped(q, S)
    BY DEF LeaveOut, Dropped
<1>3. PICK h \in [0 .. n -> P] : Runs(h, n, start, F) /\ h[n] = e
    <2>1. LoopEnds(n, P, start, F, e)
        <3> HIDE DEF Y
        <3> QED
            BY <1>1, <1>2, DroppedLoop
    <2> HIDE DEF P, F, e, start
    <2> QED
        BY <2>1 DEF LoopEnds
<1> HIDE DEF Y, n, e
<1>4. e \in P
    BY <1>1, <1>3
<1>5. e \in Seq(X) /\ ToSet(e) \subseteq Y
    BY <1>1, <1>4 DEF ToSet
<1> DEFINE T == {i \in 0 .. n : \A j \in 1 .. i : q[j] \in S \cup ToSet(h[i])}
<1>6. 0 .. n \subseteq T
    <2>1. 0 \in T
        BY <1>1
    <2>2. ASSUME NEW k \in 0 .. n, k \in T, k < n PROVE k + 1 \in T
        <3>1. k + 1 \in 1 .. n /\ (k + 1) - 1 = k /\ k + 1 \in 0 .. n
            BY <1>1, <2>2
        <3>2. h[k] \in P /\ h[k + 1] = F[<<h[k], k + 1>>]
            <4>1. h[k] \in P
                OBVIOUS
            <4>2. h[k + 1] = F[<<h[(k + 1) - 1], k + 1>>]
                BY <1>3, <3>1 DEF Runs
            <4> HIDE DEF P, F
            <4> QED
                BY <3>1, <4>1, <4>2
        <3>3. h[k + 1] = IF q[k + 1] \in S THEN h[k] ELSE Append(h[k], q[k + 1])
            <4> HIDE DEF P
            <4> QED
                BY <3>1, <3>2
        <3>4. q[k + 1] \in Y
            BY <1>1, <3>1
        <3>5. ToSet(h[k]) \subseteq ToSet(h[k + 1]) /\ q[k + 1] \in S \cup ToSet(h[k + 1])
            <4>1. \A s \in P, v \in Y : ToSet(s) \subseteq ToSet(Append(s, v)) /\ v \in ToSet(Append(s, v))
                <5>1. ASSUME NEW s \in P, NEW v \in Y
                      PROVE  ToSet(s) \subseteq ToSet(Append(s, v)) /\ v \in ToSet(Append(s, v))
                    <6>1. /\ DOMAIN s = 1 .. Len(s) /\ Len(s) \in Nat
                          /\ DOMAIN Append(s, v) = 1 .. Len(s) + 1
                          /\ Append(s, v)[Len(s) + 1] = v
                          /\ \A i \in 1 .. Len(s) : Append(s, v)[i] = s[i]
                        OBVIOUS
                    <6> QED
                        BY <6>1 DEF ToSet
                <5> QED
                    BY <5>1
            <4> HIDE DEF P
            <4> QED
                BY <3>2, <3>3, <3>4, <4>1
        <3>6. \A j \in 1 .. k + 1 : j \in 1 .. k \/ j = k + 1
            BY <3>1
        <3> HIDE DEF F, P
        <3> QED
            BY <2>2, <3>1, <3>5, <3>6
    <2> HIDE DEF T
    <2> QED
        BY <1>1, <2>1, <2>2, InductionTo
<1>7. n \in T
    BY <1>1, <1>6
<1>8. Y \ S \subseteq ToSet(e)
    BY <1>1, <1>3, <1>7 DEF ToSet, Y
<1> QED
    BY <1>5, <1>8 DEF e, Y

LEMMA JoinedSet ==
    ASSUME NEW X, NEW a \in Seq(X), NEW b \in Seq(X)
    PROVE  a \o b \in Seq(X) /\ ToSet(a \o b) \subseteq ToSet(a) \cup ToSet(b)
<1>1. a \o b \in Seq(X)
    OBVIOUS
<1>2. ASSUME NEW i \in DOMAIN (a \o b) PROVE (a \o b)[i] \in ToSet(a) \cup ToSet(b)
    <2>1. CASE i <= Len(a)
        <3>1. i \in DOMAIN a /\ (a \o b)[i] = a[i]
            BY <2>1
        <3> QED
            BY <3>1 DEF ToSet
    <2>2. CASE ~(i <= Len(a))
        <3>1. i - Len(a) \in DOMAIN b /\ (a \o b)[i] = b[i - Len(a)]
            BY <2>2
        <3> QED
            BY <3>1 DEF ToSet
    <2> QED
        BY <2>1, <2>2
<1> QED
    BY <1>1, <1>2 DEF ToSet

LEMMA ToSendSet ==
    ASSUME NEW p \in PeerType, NEW s \in Seq(Blocks), NEW q, q = [p EXCEPT !.vInventoryToSend = s]
    PROVE  q \in PeerType /\ SameTo(p, q) /\ q.vInventoryToSend = s
BY DEF PeerType, SameTo, Known, Offers, Serves, Asks

\* What PushInventory queues, for a peer p
Queued(p, q) == p.vInventoryToSend \o LeaveOut(q, p.setInventoryKnown)

LEMMA QueuedIs ==
    ASSUME NEW p \in PeerType, NEW q \in Seq(Blocks), NEW I,
           ToSet(p.vInventoryToSend) \subseteq I, ToSet(q) \subseteq I
    PROVE  Queued(p, q) \in Seq(Blocks) /\ ToSet(Queued(p, q)) \subseteq I
<1> DEFINE a == p.vInventoryToSend
           b == LeaveOut(q, p.setInventoryKnown)
<1>1. a \in Seq(Blocks)
    BY PeerFields
<1>2. b \in Seq(Blocks) /\ ToSet(b) \subseteq ToSet(q)
    BY LeaveOutIs
<1> HIDE DEF a, b
<1>3. a \o b \in Seq(Blocks) /\ ToSet(a \o b) \subseteq ToSet(a) \cup ToSet(b)
    BY <1>1, <1>2, JoinedSet
<1> QED
    BY <1>2, <1>3 DEF a, b, Queued

LEMMA PushInventoryQuiet ==
    ASSUME NEW x, Sound(x), NEW m \in Nodes, NEW q \in Seq(Blocks), ToSet(q) \subseteq x.mapBlockIndex
    PROVE  Quiet(x, PushInventory(x, m, q), m)
<1> DEFINE p == x.peer[m]
           s == Queued(p, q)
           r == [p EXCEPT !.vInventoryToSend = s]
<1>1. p \in PeerType /\ ToSet(p.vInventoryToSend) \subseteq x.mapBlockIndex
    BY NodeFields DEF Sound
<1>2. s \in Seq(Blocks) /\ ToSet(s) \subseteq x.mapBlockIndex
    <2> HIDE DEF p
    <2> QED
        BY <1>1, QueuedIs
<1>3. PushInventory(x, m, q) = PutPeer(x, m, r)
    BY DEF PushInventory, PutPeer, Queued
<1> HIDE DEF s
<1>4. r \in PeerType /\ SameTo(p, r) /\ r.vInventoryToSend = s
    <2> HIDE DEF p
    <2> QED
        BY <1>1, <1>2, ToSendSet
<1> HIDE DEF r
<1> QED
    BY <1>2, <1>3, <1>4, PutPeerQuiet

-----------------------------------------------------------------------------
\* Acceptance of a block, and of the orphans that wait for it

\* y is x after the blocks in s were accepted.
Accepted(x, y, s) ==
    /\ y \in NodeType
    /\ y.mapBlockIndex = x.mapBlockIndex \cup s /\ y.mapOrphanBlocks = x.mapOrphanBlocks \ s
    /\ y.pindexBest \in y.mapBlockIndex
    /\ \A k \in Nodes : /\ SameTo(x.peer[k], y.peer[k])
                        /\ ToSet(y.peer[k].vInventoryToSend) \subseteq y.mapBlockIndex

\* The records of the peers after a new best block
Told(x, b) ==
    [m \in Nodes |-> IF Relays(x.peer[m], Height[b])
                     THEN PushInventory(x, m, <<b>>).peer[m] ELSE x.peer[m]]

LEMMA ToldIs ==
    ASSUME NEW x \in NodeType, NEW b \in Blocks, NEW I, b \in I, NEW k \in Nodes,
           ToSet(x.peer[k].vInventoryToSend) \subseteq I
    PROVE  /\ Told(x, b)[k] \in PeerType /\ SameTo(x.peer[k], Told(x, b)[k])
           /\ ToSet(Told(x, b)[k].vInventoryToSend) \subseteq I
<1> DEFINE p == x.peer[k]
           one == <<b>>
           s == Queued(p, one)
           r == [p EXCEPT !.vInventoryToSend = s]
<1>1. p \in PeerType /\ ToSet(p.vInventoryToSend) \subseteq I
    BY NodeFields
<1>2. one \in Seq(Blocks) /\ ToSet(one) \subseteq I
    BY DEF ToSet
<1>3. PushInventory(x, k, one) = PutPeer(x, k, r)
    BY DEF PushInventory, PutPeer, Queued
<1>4. s \in Seq(Blocks) /\ ToSet(s) \subseteq I
    <2> HIDE DEF p, one
    <2> QED
        BY <1>1, <1>2, QueuedIs
<1> HIDE DEF s
<1>5. r \in PeerType /\ SameTo(p, r) /\ r.vInventoryToSend = s
    <2> HIDE DEF p
    <2> QED
        BY <1>1, <1>4, ToSendSet
<1> HIDE DEF r
<1>6. SameTo(p, p)
    BY DEF SameTo
<1>7. PushInventory(x, k, one).peer[k] = r
    BY <1>3, <1>5, PutPeerIs
<1>8. Told(x, b)[k] \in {p, r}
    BY <1>7 DEF Told
<1> QED
    BY <1>1, <1>4, <1>5, <1>6, <1>8

LEMMA AcceptBlockIs ==
    ASSUME NEW x \in NodeType, NEW b \in Blocks
    PROVE  LET y == AcceptBlockAt(x, b)
           IN  /\ y \in NodeType
               /\ y.mapBlockIndex = x.mapBlockIndex \cup {b}
               /\ y.mapOrphanBlocks = x.mapOrphanBlocks \ {b}
               /\ \/ y.pindexBest = x.pindexBest /\ y.peer = x.peer
                  \/ y.pindexBest = b /\ y.peer = Told(x, b)
<1> DEFINE z == [x EXCEPT !.mapBlockIndex = @ \cup {b}, !.mapOrphanBlocks = @ \ {b}]
           told == Told(x, b)
           w == [z EXCEPT !.pindexBest = b, !.peer = told]
           y == AcceptBlockAt(x, b)
<1>1. z \in NodeType /\ z.mapBlockIndex = x.mapBlockIndex \cup {b}
      /\ z.mapOrphanBlocks = x.mapOrphanBlocks \ {b} /\ z.pindexBest = x.pindexBest /\ z.peer = x.peer
    BY DEF NodeType
<1>2. told \in [Nodes -> PeerType]
    <2>1. ASSUME NEW k \in Nodes PROVE told[k] \in PeerType
        <3> DEFINE I == {b} \cup ToSet(x.peer[k].vInventoryToSend)
        <3>1. b \in I /\ ToSet(x.peer[k].vInventoryToSend) \subseteq I
            OBVIOUS
        <3> HIDE DEF I
        <3> QED
            BY <3>1, ToldIs
    <2> QED
        BY <2>1 DEF Told
<1>3. y = z \/ y = w
    <2> DEFINE new == [m \in Nodes |-> IF Relays(x.peer[m], Height[b])
                                      THEN PushInventory(x, m, <<b>>).peer[m] ELSE z.peer[m]]
    <2>1. y = IF Height[b] <= Height[x.pindexBest] THEN z
              ELSE [z EXCEPT !.pindexBest = b, !.peer = new]
        BY DEF AcceptBlockAt
    <2> HIDE DEF z
    <2>2. new = told
        BY <1>1 DEF Told
    <2> HIDE DEF y, new, told
    <2> QED
        BY <2>1, <2>2
<1> HIDE DEF z, told, y
<1>4. w \in NodeType /\ w.mapBlockIndex = z.mapBlockIndex /\ w.mapOrphanBlocks = z.mapOrphanBlocks
      /\ w.pindexBest = b /\ w.peer = told
    BY <1>1, <1>2 DEF NodeType
<1> HIDE DEF w
<1> QED
    BY <1>1, <1>3, <1>4 DEF y, told

LEMMA AcceptedMore ==
    ASSUME NEW x, NEW y, NEW s, Accepted(x, y, s), NEW b \in Blocks
    PROVE  Accepted(x, AcceptBlockAt(y, b), s \cup {b})
<1> DEFINE z == AcceptBlockAt(y, b)
<1>1. y \in NodeType
    BY DEF Accepted
<1>2. /\ z \in NodeType
      /\ z.mapBlockIndex = y.mapBlockIndex \cup {b}
      /\ z.mapOrphanBlocks = y.mapOrphanBlocks \ {b}
      /\ \/ z.pindexBest = y.pindexBest /\ z.peer = y.peer
         \/ z.pindexBest = b /\ z.peer = Told(y, b)
    BY <1>1, AcceptBlockIs
<1> HIDE DEF z
<1>3. z.mapBlockIndex = x.mapBlockIndex \cup (s \cup {b})
      /\ z.mapOrphanBlocks = x.mapOrphanBlocks \ (s \cup {b})
      /\ z.pindexBest \in z.mapBlockIndex
    BY <1>2 DEF Accepted
<1>4. ASSUME NEW k \in Nodes
      PROVE  /\ SameTo(x.peer[k], z.peer[k])
             /\ ToSet(z.peer[k].vInventoryToSend) \subseteq z.mapBlockIndex
    <2> DEFINE I == z.mapBlockIndex
    <2>1. SameTo(x.peer[k], y.peer[k]) /\ ToSet(y.peer[k].vInventoryToSend) \subseteq I /\ b \in I
        BY <1>2 DEF Accepted
    <2> HIDE DEF I
    <2>2. SameTo(y.peer[k], Told(y, b)[k]) /\ ToSet(Told(y, b)[k].vInventoryToSend) \subseteq I
        BY <1>1, <2>1, ToldIs
    <2>3. z.peer[k] \in {y.peer[k], Told(y, b)[k]}
        BY <1>2
    <2>4. SameTo(x.peer[k], Told(y, b)[k])
        BY <2>1, <2>2 DEF SameTo
    <2> QED
        BY <2>1, <2>2, <2>3, <2>4 DEF I
<1> QED
    BY <1>2, <1>3, <1>4 DEF Accepted, z

\* A finite set of blocks has a highest one.
LEMMA HighestPicks ==
    ASSUME NEW S \in SUBSET Blocks, IsFiniteSet(S), NEW s \in (SUBSET S) \ {{}}
    PROVE  Highest(s) \in s
<1> DEFINE Top(t, b) == b \in t /\ \A c \in t : Height[b] >= Height[c]
           T == {t \in SUBSET S : t = {} \/ \E b \in t : Top(t, b)}
<1>1. {} \in T
    OBVIOUS
<1>2. ASSUME NEW t \in (SUBSET S) \ {{}}, \A b \in t : t \ {b} \in T PROVE t \in T
    <2>1. PICK b \in t : TRUE
        OBVIOUS
    <2>2. t \ {b} \in T
        BY <1>2
    <2>3. \A c \in t : Height[c] \in Nat
        BY BlockTreeAssumption
    <2>4. CASE t \ {b} = {}
        <3>1. Top(t, b)
            BY <2>3, <2>4
        <3> HIDE DEF Top
        <3> QED
            BY <3>1
    <2>5. CASE t \ {b} # {}
        <3>1. PICK a \in t \ {b} : \A c \in t \ {b} : Height[a] >= Height[c]
            BY <2>2, <2>5
        <3>2. CASE Height[a] >= Height[b]
            <4>1. Top(t, a)
                BY <3>1, <3>2
            <4> HIDE DEF Top
            <4> QED
                BY <4>1
        <3>3. CASE ~(Height[a] >= Height[b])
            <4>1. ASSUME NEW c \in t PROVE Height[b] >= Height[c]
                <5>1. CASE c = b
                    BY <2>3, <5>1
                <5>2. CASE c # b
                    <6>1. Height[a] >= Height[c] /\ {Height[a], Height[b], Height[c]} \subseteq Nat
                        BY <2>3, <3>1, <5>2
                    <6> QED
                        BY <3>3, <6>1
                <5> QED
                    BY <5>1, <5>2
            <4>2. Top(t, b)
                BY <4>1
            <4> HIDE DEF Top
            <4> QED
                BY <4>2
        <3> QED
            BY <3>2, <3>3
    <2> QED
        BY <2>4, <2>5
<1>3. SUBSET S \subseteq T
    <2> HIDE DEF T
    <2> QED
        BY <1>1, <1>2, SubsetInduction
<1>4. PICK b \in s : Top(s, b)
    BY <1>3
<1> QED
    BY <1>4 DEF Highest

\* The orphans that AcceptWithOrphans takes
Waiting(x, b) ==
    {o \in x.mapOrphanBlocks : b \in Ancestry[o] /\ Ancestry[o] \ Ancestry[b] \subseteq x.mapOrphanBlocks}

LEMMA AcceptsAll ==
    ASSUME NEW x, Sound(x), NEW b \in Blocks
    PROVE  Accepted(x, AcceptWithOrphans(x, b), {b} \cup Waiting(x, b))
<1> DEFINE S == Waiting(x, b)
           P == NodeType
           base == AcceptBlockAt(x, b)
           Body(g) == g = [s \in SUBSET S |->
                              IF s = {} THEN base
                              ELSE AcceptBlockAt(g[s \ {Highest(s)}], Highest(s))]
           total == CHOOSE g : Body(g)
           pick == [s \in (SUBSET S) \ {{}} |-> Highest(s)]
           F == [a \in P \X S |-> AcceptBlockAt(a[1], a[2])]
<1>1. AcceptWithOrphans(x, b) = total[S]
    BY DEF AcceptWithOrphans, MapThenFoldSet, Waiting
<1>2. x \in NodeType /\ S \in SUBSET Blocks /\ IsFiniteSet(S)
    <2>1. x \in NodeType /\ x.mapOrphanBlocks \in SUBSET Blocks /\ IsFiniteSet(x.mapOrphanBlocks)
        BY NodeFields DEF Sound
    <2>2. S \subseteq x.mapOrphanBlocks
        BY DEF Waiting
    <2> HIDE DEF S
    <2> QED
        BY <2>1, <2>2, FS_Subset
<1>3. Accepted(x, base, {b})
    <2>1. Accepted(x, x, {})
        BY <1>2 DEF Accepted, Sound, SameTo
    <2> DEFINE none == {}
    <2> HIDE DEF none
    <2>2. Accepted(x, base, none \cup {b})
        BY <2>1, AcceptedMore DEF none
    <2> QED
        BY <2>2 DEF none
<1> HIDE DEF S
<1>4. base \in P
    BY <1>3 DEF Accepted
<1>5. F \in [P \X S -> P]
    <2>1. ASSUME NEW y \in P, NEW o \in S PROVE AcceptBlockAt(y, o) \in P
        BY <1>2, AcceptBlockIs
    <2> HIDE DEF P
    <2> QED
        BY <2>1
<1>6. Picks(pick, S) /\ \A s \in (SUBSET S) \ {{}} : pick[s] = Highest(s) /\ Highest(s) \in s
    <2>1. ASSUME NEW s \in (SUBSET S) \ {{}} PROVE pick[s] = Highest(s) /\ Highest(s) \in s
        BY <1>2, HighestPicks
    <2> HIDE DEF pick
    <2> QED
        BY <2>1 DEF Picks
<1> HIDE DEF pick, base, P
<1>7. Body(total)
    <2>1. PICK g \in [SUBSET S -> P] : IsFold(g, S, base, F, pick)
        <3> HIDE DEF F, total, Body
        <3> QED
            BY <1>2, <1>4, <1>5, <1>6, FoldExists
    <2>2. ASSUME NEW s \in (SUBSET S) \ {{}}
          PROVE  g[s] = AcceptBlockAt(g[s \ {Highest(s)}], Highest(s))
        <3>1. g[s \ {Highest(s)}] \in P /\ Highest(s) \in S
            BY <1>6
        <3>2. g[s] = F[<<g[s \ {Highest(s)}], Highest(s)>>]
            <4> HIDE DEF F
            <4> QED
                BY <1>6, <2>1 DEF IsFold, Folds
        <3> QED
            BY <3>1, <3>2
    <2>3. g[{}] = base
        BY <2>1 DEF IsFold, Folds
    <2>4. Body(g)
        BY <2>2, <2>3
    <2> HIDE DEF Body
    <2> QED
        BY <2>4
<1>8. total[{}] = base /\ \A s \in (SUBSET S) \ {{}} :
          total[s] = AcceptBlockAt(total[s \ {Highest(s)}], Highest(s))
    <2> HIDE DEF total
    <2> QED
        BY <1>7
<1> HIDE DEF total
<1> DEFINE T == {s \in SUBSET S : Accepted(x, total[s], {b} \cup s)}
<1>9. SUBSET S \subseteq T
    <2>1. {} \in T
        <3>1. {b} \cup {} = {b}
            OBVIOUS
        <3> QED
            BY <1>3, <1>8, <3>1
    <2>2. ASSUME NEW s \in (SUBSET S) \ {{}}, \A o \in s : s \ {o} \in T PROVE s \in T
        <3> DEFINE o == Highest(s)
                   rest == s \ {o}
                   before == {b} \cup rest
        <3>1. o \in s /\ o \in Blocks /\ before \cup {o} = {b} \cup s
            BY <1>2, <1>6
        <3>2. Accepted(x, total[rest], before)
            BY <2>2, <3>1
        <3>3. total[s] = AcceptBlockAt(total[rest], o)
            BY <1>8
        <3> HIDE DEF o, rest, before
        <3>4. Accepted(x, AcceptBlockAt(total[rest], o), before \cup {o})
            BY <3>1, <3>2, AcceptedMore
        <3> QED
            BY <3>1, <3>3, <3>4
    <2> HIDE DEF T
    <2> QED
        BY <1>2, <2>1, <2>2, SubsetInduction
<1>10. Accepted(x, total[S], {b} \cup S)
    BY <1>9
<1> QED
    BY <1>1, <1>10 DEF S

\* The chains of all these blocks end up in the index.
LEMMA AcceptStep ==
    ASSUME NEW x, Sound(x), NEW b \in Blocks, Parent[b] \in x.mapBlockIndex, NEW m \in Nodes
    PROVE  LET y == AcceptWithOrphans(x, b)
           IN  Sound(y) /\ Step(x, y, m, {}) /\ b \in Have(y)
<1> DEFINE y == AcceptWithOrphans(x, b)
           s == {b} \cup Waiting(x, b)
           I == x.mapBlockIndex
<1>1. Accepted(x, y, s)
    BY AcceptsAll
<1>2. x \in NodeType /\ I \in SUBSET Blocks /\ x.mapOrphanBlocks \in SUBSET Blocks
    BY NodeFields DEF Sound
<1>3. Ancestry[b] \subseteq I \cup {b}
    <2>1. b # Genesis
        BY <1>2, GenesisAssumption, BlockTreeAssumption
    <2>2. Ancestry[b] = {b} \cup Ancestry[Parent[b]]
        BY <2>1, ChildAssumption
    <2>3. Ancestry[Parent[b]] \subseteq I
        BY DEF Sound
    <2> QED
        BY <2>2, <2>3
<1>4. ASSUME NEW o \in Waiting(x, b) PROVE Ancestry[o] \subseteq I \cup s
    <2>1. o \in Blocks /\ b \in Ancestry[o] /\ Ancestry[o] \ Ancestry[b] \subseteq x.mapOrphanBlocks
        BY <1>2 DEF Waiting
    <2>2. ASSUME NEW c \in Ancestry[o], c \notin Ancestry[b] PROVE c \in Waiting(x, b)
        <3>1. c \in Blocks /\ Ancestry[c] \subseteq Ancestry[o]
            BY <2>1, OnChain
        <3>2. b \in Ancestry[c]
            <4>1. Height[b] \in Nat /\ Height[c] \in Nat
                BY <3>1, BlockTreeAssumption
            <4>2. Height[c] <= Height[b] => c \in Ancestry[b]
                BY <2>1, LowerOnChain
            <4>3. Height[b] <= Height[c] => b \in Ancestry[c]
                BY <2>1, LowerOnChain
            <4> QED
                BY <2>2, <4>1, <4>2, <4>3
        <3> QED
            BY <2>1, <2>2, <3>1, <3>2 DEF Waiting
    <2> QED
        BY <1>3, <2>2
<1> HIDE DEF y
<1>5. y.mapBlockIndex = I \cup s /\ y.mapOrphanBlocks = x.mapOrphanBlocks \ s
    BY <1>1 DEF Accepted
<1>6. \A c \in y.mapBlockIndex : Ancestry[c] \subseteq y.mapBlockIndex
    <2>1. ASSUME NEW c \in I \cup s PROVE Ancestry[c] \subseteq I \cup s
        <3>1. CASE c \in I
            BY <3>1 DEF Sound
        <3>2. CASE c = b
            BY <1>3, <3>2
        <3>3. CASE c \in Waiting(x, b)
            BY <1>4, <3>3
        <3> QED
            BY <3>1, <3>2, <3>3
    <2> HIDE DEF s
    <2> QED
        BY <1>5, <2>1
<1>7. IsFiniteSet(y.mapOrphanBlocks)
    <2>1. IsFiniteSet(x.mapOrphanBlocks) /\ y.mapOrphanBlocks \subseteq x.mapOrphanBlocks
        BY <1>5 DEF Sound
    <2> QED
        BY <2>1, FS_Subset
<1>8. ASSUME NEW k \in Nodes
      PROVE  /\ SameTo(x.peer[k], y.peer[k])
             /\ ToSet(y.peer[k].vInventoryToSend) \subseteq y.mapBlockIndex
             /\ Offers(y.peer[k]) \subseteq y.mapBlockIndex
    <2>1. /\ SameTo(x.peer[k], y.peer[k])
          /\ ToSet(y.peer[k].vInventoryToSend) \subseteq y.mapBlockIndex
        BY <1>1 DEF Accepted
    <2>2. Offers(x.peer[k]) \subseteq I
        BY DEF Sound
    <2> QED
        BY <1>5, <2>1, <2>2 DEF SameTo
<1>9. Sound(y)
    BY <1>1, <1>6, <1>7, <1>8 DEF Sound, Accepted
<1>10. x.mapBlockIndex \subseteq y.mapBlockIndex /\ Have(x) \subseteq Have(y) /\ b \in Have(y)
    BY <1>5 DEF Have
<1>11. Step(x, y, m, {})
    <2>1. PeerStep(x.peer[m], y.peer[m], x.mapBlockIndex, Have(y), {})
        BY <1>8 DEF PeerStep, SameTo
    <2> QED
        BY <1>8, <1>10, <2>1 DEF Step
<1> QED
    BY <1>9, <1>10, <1>11 DEF y

\* A block arrives: the node has it then.
LEMMA ProcessBlockStep ==
    ASSUME NEW x, Sound(x), NEW m \in Nodes, NEW b \in Blocks
    PROVE  LET y == ProcessBlock(x, m, b)
           IN  Sound(y) /\ Step(x, y, m, {}) /\ b \in Have(y)
<1> DEFINE y == [x EXCEPT !.mapAlreadyAskedFor[b] = -1]
           z == [y EXCEPT !.mapOrphanBlocks = @ \cup {b}]
           w == ProcessBlock(x, m, b)
<1>1. w = IF AlreadyHave(x, b) THEN x
          ELSE IF Parent[b] \in x.mapBlockIndex THEN AcceptWithOrphans(y, b)
          ELSE PushGetBlocks(z, m, z.pindexBest, GetOrphanRoot(z, b))
    BY DEF ProcessBlock
<1>2. x \in NodeType
    BY DEF Sound
<1>3. /\ Sound(y) /\ y.peer = x.peer /\ y.mapBlockIndex = x.mapBlockIndex
      /\ y.mapOrphanBlocks = x.mapOrphanBlocks
    <2>1. /\ y \in NodeType /\ y.peer = x.peer /\ y.mapBlockIndex = x.mapBlockIndex
          /\ y.mapOrphanBlocks = x.mapOrphanBlocks /\ y.pindexBest = x.pindexBest
        BY <1>2 DEF NodeType
    <2> HIDE DEF y
    <2> QED
        BY <2>1 DEF Sound
<1> HIDE DEF y
<1>4. /\ Sound(z) /\ z.peer = y.peer /\ z.mapBlockIndex = y.mapBlockIndex
      /\ z.mapOrphanBlocks = y.mapOrphanBlocks \cup {b}
    <2>1. /\ z \in NodeType /\ z.peer = y.peer /\ z.mapBlockIndex = y.mapBlockIndex
          /\ z.mapOrphanBlocks = y.mapOrphanBlocks \cup {b} /\ z.pindexBest = y.pindexBest
        BY <1>3 DEF NodeType, Sound
    <2> HIDE DEF z
    <2>2. IsFiniteSet(z.mapOrphanBlocks)
        <3>1. IsFiniteSet(y.mapOrphanBlocks)
            BY <1>3 DEF Sound
        <3> QED
            BY <2>1, <3>1, FS_AddElement
    <2> QED
        BY <1>3, <2>1, <2>2 DEF Sound
<1> HIDE DEF z, w
<1>5. CASE AlreadyHave(x, b)
    <2>1. w = x /\ b \in Have(x)
        BY <1>1, <1>5 DEF AlreadyHave
    <2> QED
        BY <2>1, StepStays DEF w
<1>6. CASE ~AlreadyHave(x, b) /\ Parent[b] \in x.mapBlockIndex
    <2>1. w = AcceptWithOrphans(y, b)
        BY <1>1, <1>6
    <2>2. Sound(w) /\ Step(y, w, m, {}) /\ b \in Have(w)
        BY <1>3, <1>6, <2>1, AcceptStep
    <2>3. Step(x, y, m, {})
        BY <1>3, OwnStep DEF Have
    <2>4. Step(x, w, m, {})
        BY <2>2, <2>3, StepsCompose
    <2> QED
        BY <2>2, <2>4 DEF w
<1>7. CASE ~AlreadyHave(x, b) /\ Parent[b] \notin x.mapBlockIndex
    <2>1. w = PushGetBlocks(z, m, z.pindexBest, GetOrphanRoot(z, b))
        BY <1>1, <1>7
    <2>2. z.pindexBest \in Blocks /\ GetOrphanRoot(z, b) \in Tips
        <3>1. z \in NodeType
            BY <1>4 DEF Sound
        <3>2. z.pindexBest \in Blocks /\ GetOrphanRoot(z, b) \in Blocks
            BY <3>1, NodeFields, GetOrphanRootType
        <3> QED
            BY <3>2 DEF Tips
    <2>3. Quiet(z, w, m)
        BY <1>4, <2>1, <2>2, PushGetBlocksQuiet
    <2>4. Step(x, z, m, {}) /\ b \in Have(z)
        BY <1>3, <1>4, OwnStep DEF Have
    <2>5. Step(x, w, m, {})
        BY <2>3, <2>4, StepsCompose DEF Quiet
    <2> QED
        BY <2>3, <2>4, <2>5 DEF w, Quiet
<1> QED
    BY <1>5, <1>6, <1>7

\* All of a message of announcements
TakeAll(x, m, vInv) == FoldLeftDomain(LAMBDA y, i : TakeInv(y, m, vInv[i], i = Len(vInv)), x, vInv)

LEMMA TakeAllStep ==
    ASSUME NEW x, Sound(x), NEW m \in Nodes, NEW vInv \in Seq(Blocks)
    PROVE  LET y == TakeAll(x, m, vInv)
           IN  /\ Sound(y) /\ Step(x, y, m, ToSet(vInv))
               /\ ToSet(vInv) \subseteq Have(y) \cup Asks(y.peer[m])
<1> DEFINE n == Len(vInv)
           O == ToSet(vInv)
           P == {y \in NodeType : Sound(y) /\ Step(x, y, m, O)}
           op(y, i) == TakeInv(y, m, vInv[i], i = n)
           F == [a \in P \X (1 .. n) |-> op(a[1], a[2])]
           at == [i \in DOMAIN vInv |-> i]
           Body(g) == g = [s \in SUBSET DOMAIN at |->
                              IF s = {} THEN x ELSE op(g[s \ {Max(s)}], at[Max(s)])]
           total == CHOOSE g : Body(g)
           e == TakeAll(x, m, vInv)
<1>1. e = total[DOMAIN at]
    BY DEF TakeAll, FoldLeftDomain, FoldLeft, MapThenFoldSet
<1>2. n \in Nat /\ DOMAIN vInv = 1 .. n /\ DOMAIN at = 1 .. n /\ \A i \in 1 .. n : at[i] = i /\ vInv[i] \in Blocks
    OBVIOUS
<1>3. x \in P
    BY StepStays DEF Sound
<1>4. \A i \in 1 .. n : vInv[i] \in O
    BY <1>2 DEF ToSet
<1> HIDE DEF n, O, at, e
<1>5. ASSUME NEW y \in P, NEW i \in 1 .. n
      PROVE  /\ op(y, i) \in P
             /\ Step(y, op(y, i), m, O)
             /\ vInv[i] \in Have(op(y, i)) \cup Asks(op(y, i).peer[m])
    <2> DEFINE b == vInv[i]
               z == op(y, i)
    <2>1. b \in Blocks /\ b \in O
        BY <1>2, <1>4
    <2>2. Sound(y) /\ Step(x, y, m, O)
        OBVIOUS
    <2> HIDE DEF b
    <2>3. Sound(z) /\ Step(y, z, m, {b}) /\ b \in Have(z) \cup Asks(z.peer[m])
        BY <2>1, <2>2, TakeInvStep DEF b
    <2> HIDE DEF z, P, op
    <2>4. Step(y, z, m, O)
        BY <2>1, <2>3 DEF Step, PeerStep
    <2>5. Step(x, z, m, O)
        BY <2>2, <2>4, StepsCompose
    <2>6. z \in P
        BY <2>3, <2>5 DEF P, Sound
    <2> QED
        BY <2>3, <2>4, <2>6 DEF z, b
<1> HIDE DEF op
<1>6. F \in [P \X (1 .. n) -> P]
    <2> HIDE DEF P
    <2> QED
        BY <1>5
<1>7. ASSUME NEW s \in (SUBSET (1 .. n)) \ {{}}, NEW g, g[s \ {Max(s)}] \in P
      PROVE  /\ F[<<g[s \ {FromLast(n)[s]}], FromLast(n)[s]>>] = op(g[s \ {Max(s)}], at[Max(s)])
             /\ FromLast(n)[s] = Max(s)
    <2>1. FromLast(n)[s] = Max(s) /\ Max(s) \in 1 .. n
        BY <1>2, FromLastPicks DEF FromLast, Picks
    <2>2. at[Max(s)] = Max(s)
        BY <1>2, <2>1
    <2> HIDE DEF P
    <2> QED
        BY <1>7, <2>1, <2>2
<1>8. Body(total)
    <2>1. PICK g \in [SUBSET (1 .. n) -> P] : IsFold(g, 1 .. n, x, F, FromLast(n))
        <3> HIDE DEF F, P, total, Body
        <3> QED
            BY <1>2, <1>3, <1>6, LeftFoldExists
    <2> HIDE DEF F, P
    <2>2. Body(g)
        <3>1. ASSUME NEW s \in (SUBSET (1 .. n)) \ {{}}
              PROVE  g[s] = op(g[s \ {Max(s)}], at[Max(s)])
            <4>1. g[s \ {Max(s)}] \in P
                OBVIOUS
            <4> QED
                BY <1>7, <2>1, <4>1 DEF IsFold, Folds
        <3>2. g[{}] = x
            BY <2>1 DEF IsFold, Folds
        <3> QED
            BY <1>2, <3>1, <3>2
    <2> HIDE DEF Body
    <2> QED
        BY <2>2
<1>9. IsFoldIn(total, 1 .. n, P, x, F, FromLast(n))
    <2> HIDE DEF total, F, P
    <2>1. ASSUME NEW s \in SUBSET (1 .. n), s # {}, total[s \ {FromLast(n)[s]}] \in P
          PROVE  total[s] = F[<<total[s \ {FromLast(n)[s]}], FromLast(n)[s]>>]
        <3>1. FromLast(n)[s] = Max(s)
            BY <2>1 DEF FromLast
        <3>2. total[s] = op(total[s \ {Max(s)}], at[Max(s)])
            BY <1>2, <1>8, <2>1
        <3> QED
            BY <1>7, <2>1, <3>1, <3>2
    <2>2. total[{}] = x
        BY <1>8
    <2> QED
        BY <2>1, <2>2 DEF IsFoldIn, Folds
<1> HIDE DEF F, P, total, Body
<1>10. LoopEnds(n, P, x, F, total[1 .. n])
    BY <1>2, <1>3, <1>6, <1>9, LeftFold
<1>11. PICK h \in [0 .. n -> P] : Runs(h, n, x, F) /\ h[n] = e
    BY <1>1, <1>2, <1>10 DEF LoopEnds
<1> DEFINE Held(y, b) == b \in Have(y) \cup Asks(y.peer[m])
           T == {i \in 0 .. n : \A j \in 1 .. i : Held(h[i], vInv[j])}
<1>12. 0 .. n \subseteq T
    <2>1. 0 \in T
        BY <1>2
    <2>2. ASSUME NEW k \in 0 .. n, k \in T, k < n PROVE k + 1 \in T
        <3>1. k + 1 \in 1 .. n /\ (k + 1) - 1 = k /\ k + 1 \in 0 .. n
            BY <1>2, <2>2
        <3>2. h[k] \in P /\ h[k + 1] = F[<<h[k], k + 1>>]
            BY <1>11, <3>1 DEF Runs
        <3>3. h[k + 1] = op(h[k], k + 1)
            BY <3>1, <3>2 DEF F
        <3>4. Step(h[k], h[k + 1], m, O) /\ Held(h[k + 1], vInv[k + 1])
            BY <1>5, <3>1, <3>2, <3>3
        <3>5. Have(h[k]) \subseteq Have(h[k + 1]) /\ Asks(h[k].peer[m]) \subseteq Asks(h[k + 1].peer[m]) \cup Have(h[k + 1])
            BY <3>4 DEF Step, PeerStep
        <3>6. \A j \in 1 .. k : Held(h[k + 1], vInv[j])
            BY <2>2, <3>5
        <3>7. \A j \in 1 .. k + 1 : j \in 1 .. k \/ j = k + 1
            BY <3>1
        <3> HIDE DEF Held
        <3> QED
            BY <3>1, <3>4, <3>6, <3>7
    <2> HIDE DEF T
    <2> QED
        BY <1>2, <2>1, <2>2, InductionTo
<1>13. \A j \in 1 .. n : Held(e, vInv[j])
    <2>1. n \in T
        BY <1>2, <1>12
    <2> HIDE DEF Held
    <2> QED
        BY <1>11, <2>1
<1>14. O \subseteq Have(e) \cup Asks(e.peer[m])
    BY <1>2, <1>13 DEF O, ToSet
<1>15. Sound(e) /\ Step(x, e, m, O)
    <2>1. e \in P
        BY <1>2, <1>11
    <2> QED
        BY <2>1 DEF P
<1> QED
    BY <1>14, <1>15 DEF e, O

-----------------------------------------------------------------------------
\* Answers

\* A chain has a block of every height.
LEMMA EveryHeight ==
    ASSUME NEW b \in Blocks, NEW h \in Nat, h <= Height[b]
    PROVE  \E c \in Ancestry[b] : Height[c] = h
<1> DEFINE S == {c \in Ancestry[b] : h <= Height[c]}
<1>1. S \in SUBSET Blocks /\ b \in S
    BY SelfOnChain
<1>2. PICK c \in S : \A d \in S : Height[c] <= Height[d]
    <2> HIDE DEF S
    <2> QED
        BY <1>1, LowestExists
<1>3. c \in Blocks /\ c \in Ancestry[b] /\ Height[c] \in Nat /\ h <= Height[c]
    BY <1>1, BlockTreeAssumption
<1>4. ASSUME Height[c] # h PROVE FALSE
    <2>1. c # Genesis
        BY <1>3, <1>4, GenesisAssumption
    <2>2. /\ Parent[c] \in Blocks /\ Height[c] = Height[Parent[c]] + 1
          /\ Ancestry[c] = {c} \cup Ancestry[Parent[c]]
        BY <1>3, <2>1, ChildAssumption
    <2>3. Height[Parent[c]] \in Nat
        BY <2>2, BlockTreeAssumption
    <2>4. h <= Height[Parent[c]] /\ Height[Parent[c]] < Height[c]
        BY <1>3, <1>4, <2>2, <2>3
    <2>5. Parent[c] \in Ancestry[c] /\ Ancestry[c] \subseteq Ancestry[b]
        BY <1>3, <2>2, SelfOnChain, OnChain
    <2>6. Parent[c] \in S
        BY <2>4, <2>5
    <2>7. Height[c] <= Height[Parent[c]]
        BY <1>2, <2>6
    <2> QED
        BY <1>3, <2>3, <2>4, <2>7
<1> QED
    BY <1>3, <1>4

LEMMA MinOfTwo ==
    ASSUME NEW a \in Nat, NEW b \in Nat
    PROVE  Min({a, b}) \in Nat /\ Min({a, b}) <= b
BY DEF Min

\* The answer to getblocks names blocks of the best chain.
LEMMA AfterLocatorIs ==
    ASSUME NEW best \in Blocks, NEW begin \in Blocks, NEW hashStop
    PROVE  LET answer == AfterLocator(best, begin, hashStop)
           IN  answer \in Seq(Blocks) /\ ToSet(answer) \subseteq Ancestry[best]
<1> DEFINE fork == Height[ForkOf(best, begin)]
           stop == IF hashStop \in Ancestry[best] /\ Height[hashStop] > fork
                   THEN Height[hashStop] - 1 ELSE Height[best]
           n == Min({Limit, stop - fork})
           answer == AfterLocator(best, begin, hashStop)
<1>1. fork \in Nat /\ fork <= Height[best] /\ Height[best] \in Nat
    <2>1. best \in Tips /\ begin \in Tips /\ ChainOf(best) = Ancestry[best] /\ ChainOf(begin) = Ancestry[begin]
        BY BlockTreeAssumption DEF Tips, ChainOf
    <2>2. Genesis \in ChainOf(best) \cap ChainOf(begin)
        BY <2>1, GenesisOnChain
    <2>3. ForkOf(best, begin) \in Blocks /\ ChainOf(ForkOf(best, begin)) \subseteq Ancestry[best]
        BY <2>1, <2>2, ForkProperty DEF Tips
    <2>4. ForkOf(best, begin) \in Ancestry[best]
        <3>1. ChainOf(ForkOf(best, begin)) = Ancestry[ForkOf(best, begin)]
            BY <2>3, BlockTreeAssumption DEF ChainOf
        <3> QED
            BY <2>3, <3>1, SelfOnChain
    <2> DEFINE f == ForkOf(best, begin)
    <2> HIDE DEF f
    <2>5. f \in Ancestry[best] /\ f \in Blocks
        BY <2>3, <2>4 DEF f
    <2>6. Height[f] \in Nat /\ Height[best] \in Nat /\ Height[f] <= Height[best]
        <3>1. f = best \/ Height[f] < Height[best]
            BY <2>5, OnChain
        <3> QED
            BY <2>5, <3>1, BlockTreeAssumption
    <2> QED
        BY <2>6 DEF f
<1> HIDE DEF fork
<1>2. stop \in Nat /\ fork <= stop /\ stop <= Height[best]
    <2>1. CASE hashStop \in Ancestry[best] /\ Height[hashStop] > fork
        <3>1. hashStop \in Blocks /\ Height[hashStop] \in Nat /\ Height[hashStop] <= Height[best]
            <4>1. hashStop \in Blocks /\ (hashStop = best \/ Height[hashStop] < Height[best])
                BY <2>1, OnChain
            <4> QED
                BY <1>1, <4>1, BlockTreeAssumption
        <3> QED
            BY <1>1, <2>1, <3>1
    <2>2. CASE ~(hashStop \in Ancestry[best] /\ Height[hashStop] > fork)
        BY <1>1, <2>2
    <2> QED
        BY <2>1, <2>2
<1>3. answer = [i \in 1 .. n |-> CHOOSE c \in Ancestry[best] : Height[c] = fork + i]
    BY DEF AfterLocator, fork
<1> HIDE DEF answer, stop
<1>4. n \in Nat /\ n <= stop - fork
    <2> DEFINE d == stop - fork
    <2>1. d \in Nat
        BY <1>1, <1>2
    <2>2. Limit \in Nat
        BY BlockSyncAssumption DEF BlockSyncAssumption
    <2> HIDE DEF d
    <2>3. Min({Limit, d}) \in Nat /\ Min({Limit, d}) <= d
        BY <2>1, <2>2, MinOfTwo
    <2> QED
        BY <2>3 DEF d
<1> HIDE DEF n
<1>5. ASSUME NEW i \in 1 .. n PROVE answer[i] \in Ancestry[best]
    <2> DEFINE h == fork + i
    <2>1. h \in Nat /\ h <= Height[best]
        BY <1>1, <1>2, <1>4
    <2>2. answer[i] = CHOOSE c \in Ancestry[best] : Height[c] = h
        BY <1>3
    <2> HIDE DEF h
    <2>3. \E c \in Ancestry[best] : Height[c] = h
        BY <2>1, EveryHeight
    <2> QED
        BY <2>2, <2>3
<1>6. answer \in [1 .. n -> Blocks]
    <2>1. Ancestry[best] \in SUBSET Blocks
        BY SelfOnChain
    <2> QED
        BY <1>3, <1>5, <2>1
<1>7. answer \in Seq(Blocks) /\ DOMAIN answer = 1 .. n
    BY <1>4, <1>6
<1> QED
    BY <1>5, <1>7 DEF ToSet, answer

LEMMA PutPeerSound ==
    ASSUME NEW x, Sound(x), NEW m \in Nodes, NEW q \in PeerType,
           ToSet(q.vInventoryToSend) \subseteq x.mapBlockIndex, Offers(q) \subseteq x.mapBlockIndex
    PROVE  LET y == PutPeer(x, m, q)
           IN  /\ Sound(y) /\ y.peer[m] = q /\ \A k \in Nodes \ {m} : y.peer[k] = x.peer[k]
               /\ y.mapBlockIndex = x.mapBlockIndex /\ Have(y) = Have(x) /\ y.pindexBest = x.pindexBest
<1> DEFINE y == PutPeer(x, m, q)
<1>1. x \in NodeType
    BY DEF Sound
<1>2. /\ y \in NodeType
      /\ y.peer[m] = q
      /\ \A k \in Nodes \ {m} : y.peer[k] = x.peer[k]
      /\ y.mapBlockIndex = x.mapBlockIndex /\ y.mapOrphanBlocks = x.mapOrphanBlocks
      /\ y.pindexBest = x.pindexBest
    BY <1>1, PutPeerIs
<1> HIDE DEF y
<1>3. Sound(y)
    BY <1>2 DEF Sound
<1> QED
    BY <1>2, <1>3 DEF y, Have

LEMMA FreshIs ==
    ASSUME NEW q \in Seq(Blocks), NEW known
    PROVE  Fresh(q, known) \in Seq(Blocks) /\ ToSet(Fresh(q, known)) \subseteq ToSet(q)
<1> DEFINE n == Len(q)
           Y == ToSet(q)
           P == Seq(Y)
           start == <<>>
           op(s, b) == IF b \in known \/ b \in ToSet(s) THEN s ELSE Append(s, b)
           F == [a \in P \X (1 .. n) |-> op(a[1], q[a[2]])]
           Body(g) == g = [s \in SUBSET DOMAIN q |->
                              IF s = {} THEN start ELSE op(g[s \ {Max(s)}], q[Max(s)])]
           total == CHOOSE g : Body(g)
           e == Fresh(q, known)
<1>1. e = total[DOMAIN q]
    BY DEF Fresh, FoldLeft, MapThenFoldSet
<1>2. n \in Nat /\ DOMAIN q = 1 .. n /\ start \in P /\ Y \subseteq Blocks /\ \A i \in 1 .. n : q[i] \in Y
    BY DEF ToSet
<1> HIDE DEF n, Y, e
<1>3. F \in [P \X (1 .. n) -> P]
    <2>1. ASSUME NEW r \in P, NEW i \in 1 .. n PROVE op(r, q[i]) \in P
        <3>1. q[i] \in Y
            BY <1>2
        <3> QED
            BY <3>1
    <2> HIDE DEF P, op
    <2> QED
        BY <2>1
<1>4. ASSUME NEW s \in (SUBSET (1 .. n)) \ {{}}, NEW g, g[s \ {Max(s)}] \in P
      PROVE  /\ F[<<g[s \ {FromLast(n)[s]}], FromLast(n)[s]>>] = op(g[s \ {Max(s)}], q[Max(s)])
             /\ FromLast(n)[s] = Max(s)
    <2>1. FromLast(n)[s] = Max(s) /\ Max(s) \in 1 .. n
        BY <1>2, FromLastPicks DEF FromLast, Picks
    <2> HIDE DEF P, op
    <2> QED
        BY <1>4, <2>1
<1> HIDE DEF op
<1>5. Body(total)
    <2>1. PICK g \in [SUBSET (1 .. n) -> P] : IsFold(g, 1 .. n, start, F, FromLast(n))
        <3> HIDE DEF F, P, total, Body, start
        <3> QED
            BY <1>2, <1>3, LeftFoldExists
    <2> HIDE DEF F, P, start
    <2>2. Body(g)
        <3>1. ASSUME NEW s \in (SUBSET (1 .. n)) \ {{}}
              PROVE  g[s] = op(g[s \ {Max(s)}], q[Max(s)])
            <4>1. g[s \ {Max(s)}] \in P
                OBVIOUS
            <4> QED
                BY <1>4, <2>1, <4>1 DEF IsFold, Folds
        <3>2. g[{}] = start
            BY <2>1 DEF IsFold, Folds
        <3> QED
            BY <1>2, <3>1, <3>2
    <2> HIDE DEF Body
    <2> QED
        BY <2>2
<1>6. IsFoldIn(total, 1 .. n, P, start, F, FromLast(n))
    <2> HIDE DEF total, F, P, start
    <2>1. ASSUME NEW s \in SUBSET (1 .. n), s # {}, total[s \ {FromLast(n)[s]}] \in P
          PROVE  total[s] = F[<<total[s \ {FromLast(n)[s]}], FromLast(n)[s]>>]
        <3>1. FromLast(n)[s] = Max(s)
            BY <2>1 DEF FromLast
        <3>2. total[s] = op(total[s \ {Max(s)}], q[Max(s)])
            BY <1>2, <1>5, <2>1
        <3> QED
            BY <1>4, <2>1, <3>1, <3>2
    <2>2. total[{}] = start
        BY <1>5
    <2> QED
        BY <2>1, <2>2 DEF IsFoldIn, Folds
<1>7. e \in P
    <2> HIDE DEF F, P, total, Body, start
    <2>1. LoopEnds(n, P, start, F, total[1 .. n])
        BY <1>2, <1>3, <1>6, LeftFold
    <2> QED
        BY <1>1, <1>2, <2>1, LoopEndsIn
<1> QED
    BY <1>2, <1>7 DEF e, Y, ToSet

LEMMA SendInventoryStep ==
    ASSUME NEW x, Sound(x), NEW m \in Nodes
    PROVE  LET z == SendInventory(x, m) IN Sound(z) /\ Step(x, z, m, {})
<1> DEFINE p == x.peer[m]
           new == Fresh(p.vInventoryToSend, p.setInventoryKnown)
           none == <<>>
           told == p.setInventoryKnown \cup ToSet(new)
           q == [p EXCEPT !.vInventoryToSend = none, !.setInventoryKnown = told]
           y == PutPeer(x, m, q)
           msg == [type |-> "inv", vInv |-> new]
           z == SendInventory(x, m)
<1>1. p \in PeerType /\ ToSet(p.vInventoryToSend) \subseteq x.mapBlockIndex /\ Offers(p) \subseteq x.mapBlockIndex
    BY NodeFields DEF Sound
<1>2. new \in Seq(Blocks) /\ ToSet(new) \subseteq x.mapBlockIndex /\ ToSet(new) \in SUBSET Blocks
    <2> HIDE DEF p
    <2>1. new \in Seq(Blocks) /\ ToSet(new) \subseteq ToSet(p.vInventoryToSend)
        BY <1>1, PeerFields, FreshIs
    <2> HIDE DEF new
    <2> QED
        BY <1>1, <2>1 DEF ToSet
<1>3. z = IF new = <<>> THEN y ELSE Sends(y, m, msg)
    <2> DEFINE w == [x EXCEPT !.peer[m].vInventoryToSend = none, !.peer[m].setInventoryKnown = told]
    <2>1. z = IF new = <<>> THEN w ELSE Sends(w, m, msg)
        BY DEF SendInventory
    <2>2. w = y
        <3> HIDE DEF none, told
        <3> QED
            BY DEF PutPeer
    <2> HIDE DEF z, w, y
    <2> QED
        BY <2>1, <2>2
<1> HIDE DEF new, z
<1>4. /\ q \in PeerType /\ Known(q) = Known(p) \cup ToSet(new) /\ Offers(q) = Offers(p)
      /\ Serves(q) = Serves(p) /\ Asks(q) = Asks(p) /\ q.vInventoryToSend = <<>>
    <2>1. told = Known(p) \cup ToSet(new) /\ told \in SUBSET Blocks
        BY <1>1, <1>2, PeerFields DEF Known
    <2>2. none \in Seq(Blocks)
        OBVIOUS
    <2> HIDE DEF p, told, none
    <2>3. q \in PeerType /\ Known(q) = told /\ Offers(q) = Offers(p)
          /\ Serves(q) = Serves(p) /\ Asks(q) = Asks(p) /\ q.vInventoryToSend = none
        BY <1>1, <2>1, <2>2 DEF PeerType, Known, Offers, Serves, Asks
    <2> QED
        BY <2>1, <2>3 DEF none
<1> HIDE DEF q
<1>5. /\ Sound(y) /\ y.peer[m] = q /\ \A k \in Nodes \ {m} : y.peer[k] = x.peer[k]
      /\ y.mapBlockIndex = x.mapBlockIndex /\ Have(y) = Have(x)
    <2>1. ToSet(q.vInventoryToSend) \subseteq x.mapBlockIndex /\ Offers(q) \subseteq x.mapBlockIndex
        BY <1>1, <1>4 DEF ToSet
    <2> QED
        BY <1>4, <2>1, PutPeerSound
<1> HIDE DEF y
<1>6. \A k \in Nodes \ {m} : SameTo(x.peer[k], y.peer[k])
    BY <1>5 DEF SameTo
<1>7. CASE new = <<>>
    <2>1. ToSet(new) = {} /\ z = y
        BY <1>3, <1>7 DEF ToSet
    <2>2. PeerStep(p, q, x.mapBlockIndex, Have(y), {})
        BY <1>4, <2>1 DEF PeerStep
    <2> QED
        BY <1>5, <1>6, <2>1, <2>2 DEF Step, z
<1>8. CASE new # <<>>
    <2>1. z = Sends(y, m, msg)
        BY <1>3, <1>8
    <2>2. msg \in Messages /\ Load(msg, "inv") = ToSet(new) /\ Load(msg, "block") = {}
          /\ Load(msg, "getdata") = {}
        BY <1>2, MessageTypes DEF Load
    <2> HIDE DEF msg
    <2>3. Announces(msg, y.mapBlockIndex)
        BY <1>2, <1>5, <2>2 DEF Announces
    <2> DEFINE w == Sends(y, m, msg)
    <2>4. Sent(y, w, m, msg)
        BY <1>5, <2>2, <2>3, SendsStep
    <2> HIDE DEF w
    <2>5. PeerStep(p, w.peer[m], x.mapBlockIndex, Have(w), {})
        BY <1>4, <1>5, <2>2, <2>4 DEF PeerStep, Sent
    <2>6. \A k \in Nodes \ {m} : SameTo(x.peer[k], w.peer[k])
        BY <1>6, <2>4 DEF Step, SameTo, Sent
    <2>7. Step(x, w, m, {})
        BY <1>5, <2>4, <2>5, <2>6 DEF Step, Sent
    <2> QED
        BY <2>1, <2>4, <2>7 DEF z, w, Sent
<1> QED
    BY <1>7, <1>8

\* The requests that are due, and the others
Due(asks) == [i \in 1 .. Until(asks, 0) |-> asks[i].inv]

Invs(asks) == {ask.inv : ask \in ToSet(asks)}

LEMMA DueOrNot ==
    ASSUME NEW asks \in Seq(Requests)
    PROVE  /\ Due(asks) \in Seq(Blocks) /\ NotDue(asks) \in Seq(Requests)
           /\ Invs(asks) \subseteq ToSet(Due(asks)) \cup Invs(NotDue(asks))
<1> DEFINE n == Len(asks)
           k == Until(asks, 0)
           rest == SubSeq(asks, k + 1, n)
           due == Due(asks)
<1>1. k \in 0 .. n /\ n \in Nat /\ DOMAIN asks = 1 .. n
    BY UntilType
<1>2. \A i \in 1 .. n : asks[i] \in Requests /\ asks[i].inv \in Blocks
    <2>1. \A i \in 1 .. n : asks[i] \in Requests
        OBVIOUS
    <2> QED
        BY <2>1 DEF Requests
<1>3. due = [i \in 1 .. k |-> asks[i].inv] /\ NotDue(asks) = rest
    BY DEF Due, NotDue
<1> HIDE DEF k, due
<1>4. rest \in Seq(Requests) /\ DOMAIN rest = 1 .. n - k /\ \A i \in 1 .. n - k : rest[i] = asks[k + i]
    <2> DEFINE j == k + 1
    <2>1. j \in 1 .. n + 1 /\ n - j + 1 = n - k /\ \A i \in 1 .. n - k : j + i - 1 = k + i
        BY <1>1
    <2>2. /\ SubSeq(asks, j, n) \in Seq(Requests) /\ DOMAIN SubSeq(asks, j, n) = 1 .. n - j + 1
          /\ \A i \in 1 .. n - j + 1 : SubSeq(asks, j, n)[i] = asks[j + i - 1]
        <3> HIDE DEF j
        <3> QED
            BY <1>1, <2>1
    <2> HIDE DEF n
    <2> QED
        BY <2>1, <2>2
<1> HIDE DEF rest, n
<1>5. due \in [1 .. k -> Blocks] /\ DOMAIN due = 1 .. k /\ \A i \in 1 .. k : i \in 1 .. n
    BY <1>1, <1>2, <1>3
<1>6. due \in Seq(Blocks)
    BY <1>1, <1>5
<1>7. ASSUME NEW e \in Invs(asks) PROVE e \in ToSet(due) \cup Invs(rest)
    <2>1. PICK i \in 1 .. n : e = asks[i].inv
        BY <1>1 DEF Invs, ToSet
    <2>2. CASE i <= k
        <3>1. i \in 1 .. k
            BY <1>1, <2>2
        <3>2. due[i] = e
            BY <1>3, <2>1, <3>1
        <3> QED
            BY <1>5, <3>1, <3>2 DEF ToSet
    <2>3. CASE ~(i <= k)
        <3> DEFINE j == i - k
        <3>1. j \in 1 .. n - k /\ k + j = i
            BY <1>1, <2>3
        <3> HIDE DEF j
        <3>2. rest[j] = asks[i]
            BY <1>4, <3>1
        <3> QED
            BY <1>4, <2>1, <3>1, <3>2 DEF Invs, ToSet
    <2> QED
        BY <2>2, <2>3
<1> QED
    BY <1>3, <1>4, <1>6, <1>7 DEF due, rest, n, k

LEMMA SendGetDataStep ==
    ASSUME NEW x, Sound(x), NEW m \in Nodes
    PROVE  LET z == SendGetData(x, m) IN Sound(z) /\ Step(x, z, m, {})
<1> DEFINE p == x.peer[m]
           asks == p.mapAskFor
           rest == NotDue(asks)
           want == LeaveOut(Due(asks), Have(x))
           q == [p EXCEPT !.mapAskFor = rest]
           y == PutPeer(x, m, q)
           msg == [type |-> "getdata", vInv |-> want]
           z == SendGetData(x, m)
<1>1. p \in PeerType /\ ToSet(p.vInventoryToSend) \subseteq x.mapBlockIndex /\ Offers(p) \subseteq x.mapBlockIndex
    BY NodeFields DEF Sound
<1>2. asks \in Seq(Requests)
    <2> HIDE DEF p
    <2> QED
        BY <1>1, PeerFields
<1>3. z = IF want = <<>> THEN y ELSE Sends(y, m, msg)
    BY DEF SendGetData, PutPeer, Due
<1>4. Due(asks) \in Seq(Blocks) /\ rest \in Seq(Requests)
      /\ Invs(asks) \subseteq ToSet(Due(asks)) \cup Invs(rest)
    <2> HIDE DEF asks
    <2> QED
        BY <1>2, DueOrNot
<1>5. want \in Seq(Blocks) /\ ToSet(Due(asks)) \subseteq Have(x) \cup ToSet(want)
    <2> DEFINE due == Due(asks)
               H == Have(x)
    <2>1. due \in Seq(Blocks)
        BY <1>4
    <2> HIDE DEF due, H
    <2>2. LeaveOut(due, H) \in Seq(Blocks) /\ ToSet(due) \ H \subseteq ToSet(LeaveOut(due, H))
        BY <2>1, LeaveOutIs
    <2> QED
        BY <2>2 DEF due, H
<1> HIDE DEF rest, want, z
<1>6. /\ q \in PeerType /\ Known(q) = Known(p) /\ Offers(q) = Offers(p)
      /\ Serves(q) = Serves(p) /\ q.vInventoryToSend = p.vInventoryToSend
      /\ Asks(p) \subseteq Asks(q) \cup Have(x) \cup ToSet(want)
    <2>1. Invs(asks) \subseteq Have(x) \cup ToSet(want) \cup Invs(rest)
        BY <1>4, <1>5
    <2>2. asks = p.mapAskFor
        OBVIOUS
    <2> HIDE DEF p, asks
    <2>3. q \in PeerType /\ q.out = p.out /\ q.mapAskFor = rest /\ q.vInventoryToSend = p.vInventoryToSend
          /\ q.setInventoryKnown = p.setInventoryKnown /\ q.vRecvGetData = p.vRecvGetData
        BY <1>1, <1>4 DEF PeerType
    <2> HIDE DEF q
    <2>4. Asks(p) = Carried(p.out, "getdata") \cup Invs(asks) /\ Asks(q) = Carried(p.out, "getdata") \cup Invs(rest)
        BY <2>2, <2>3 DEF Asks, Invs
    <2> QED
        BY <2>1, <2>3, <2>4 DEF Known, Offers, Serves
<1> HIDE DEF q
<1>7. /\ Sound(y) /\ y.peer[m] = q /\ \A k \in Nodes \ {m} : y.peer[k] = x.peer[k]
      /\ y.mapBlockIndex = x.mapBlockIndex /\ Have(y) = Have(x)
    <2>1. ToSet(q.vInventoryToSend) \subseteq x.mapBlockIndex /\ Offers(q) \subseteq x.mapBlockIndex
        BY <1>1, <1>6
    <2> QED
        BY <1>6, <2>1, PutPeerSound
<1> HIDE DEF y
<1>8. \A k \in Nodes \ {m} : SameTo(x.peer[k], y.peer[k])
    BY <1>7 DEF SameTo
<1>9. CASE want = <<>>
    <2>1. ToSet(want) = {} /\ z = y
        BY <1>3, <1>9 DEF ToSet
    <2>2. PeerStep(p, q, x.mapBlockIndex, Have(y), {})
        BY <1>6, <1>7, <2>1 DEF PeerStep
    <2> QED
        BY <1>7, <1>8, <2>1, <2>2 DEF Step, z
<1>10. CASE want # <<>>
    <2>1. z = Sends(y, m, msg)
        BY <1>3, <1>10
    <2>2. msg \in Messages /\ Load(msg, "inv") = {} /\ Load(msg, "block") = {}
          /\ Load(msg, "getdata") = ToSet(want)
        BY <1>5, MessageTypes DEF Load
    <2> HIDE DEF msg
    <2>3. Announces(msg, y.mapBlockIndex)
        BY <2>2 DEF Announces
    <2> DEFINE w == Sends(y, m, msg)
    <2>4. Sent(y, w, m, msg)
        BY <1>7, <2>2, <2>3, SendsStep
    <2> HIDE DEF w
    <2>5. PeerStep(p, w.peer[m], x.mapBlockIndex, Have(w), {})
        BY <1>6, <1>7, <2>2, <2>4 DEF PeerStep, Sent
    <2>6. \A k \in Nodes \ {m} : SameTo(x.peer[k], w.peer[k])
        BY <1>8, <2>4 DEF Step, SameTo, Sent
    <2>7. Step(x, w, m, {})
        BY <1>7, <2>4, <2>5, <2>6 DEF Step, Sent
    <2> QED
        BY <2>1, <2>4, <2>7 DEF z, w, Sent
<1> QED
    BY <1>9, <1>10

LEMMA SendGetBlocksStep ==
    ASSUME NEW x, Sound(x), NEW m \in Nodes
    PROVE  LET z == SendGetBlocks(x, m) IN Sound(z) /\ Step(x, z, m, {})
<1> DEFINE p == x.peer[m]
           q == [p EXCEPT !.fStartSync = FALSE]
           y == PutPeer(x, m, q)
           best == x.pindexBest
           w == PushGetBlocks(y, m, best, NoBlock)
           z == SendGetBlocks(x, m)
<1>1. p \in PeerType /\ ToSet(p.vInventoryToSend) \subseteq x.mapBlockIndex /\ best \in Blocks
    BY NodeFields DEF Sound
<1>2. z = IF p.fStartSync THEN w ELSE x
    <2>1. PutPeer(x, m, q) = [x EXCEPT !.peer[m].fStartSync = FALSE]
        BY DEF PutPeer
    <2>2. [x EXCEPT !.peer[m].fStartSync = FALSE].pindexBest = x.pindexBest
        BY NodeFields DEF Sound, NodeType
    <2> QED
        BY <2>1, <2>2 DEF SendGetBlocks
<1>3. q \in PeerType /\ SameTo(p, q) /\ q.vInventoryToSend = p.vInventoryToSend
    <2> HIDE DEF p
    <2> QED
        BY <1>1 DEF PeerType, SameTo, Known, Offers, Serves, Asks
<1> HIDE DEF q, z
<1>4. Quiet(x, y, m)
    BY <1>1, <1>3, PutPeerQuiet
<1>5. Quiet(y, w, m)
    <2>1. Sound(y) /\ NoBlock \in Tips
        BY <1>4 DEF Quiet, Tips
    <2> HIDE DEF y, best
    <2> QED
        BY <1>1, <2>1, PushGetBlocksQuiet
<1> HIDE DEF y, w
<1>6. Step(x, w, m, {})
    BY <1>4, <1>5, StepsCompose DEF Quiet
<1> QED
    BY <1>2, <1>5, <1>6, StepStays DEF z, Quiet

\* SendMessages
LEMMA SendAllStep ==
    ASSUME NEW x, Sound(x), NEW m \in Nodes
    PROVE  LET z == SendGetData(SendInventory(SendGetBlocks(x, m), m), m)
           IN  Sound(z) /\ Step(x, z, m, {})
<1> DEFINE y == SendGetBlocks(x, m)
           w == SendInventory(y, m)
           z == SendGetData(w, m)
<1>1. Sound(y) /\ Step(x, y, m, {})
    BY SendGetBlocksStep
<1> HIDE DEF y
<1>2. Sound(w) /\ Step(y, w, m, {})
    BY <1>1, SendInventoryStep
<1> HIDE DEF w
<1>3. Sound(z) /\ Step(w, z, m, {})
    BY <1>2, SendGetDataStep
<1> HIDE DEF z
<1>4. Step(x, z, m, {})
    BY <1>1, <1>2, <1>3, StepsCompose
<1> QED
    BY <1>3, <1>4 DEF z, w, y

\* A request is served: the block goes out when the node has it.
ServedTo(x, w, m, b) ==
    /\ Sound(w) /\ Step(x, w, m, {})
    /\ w.mapBlockIndex = x.mapBlockIndex /\ w.peer[m].vRecvGetData = x.peer[m].vRecvGetData
    /\ b \in x.mapBlockIndex => b \in Offers(w.peer[m])

LEMMA ServeBlockStep ==
    ASSUME NEW x, Sound(x), NEW m \in Nodes, NEW b \in Blocks
    PROVE  ServedTo(x, ServeBlock(x, m, b), m, b)
<1> DEFINE msg == [type |-> "block", block |-> b]
           y == Sends(x, m, msg)
           p == y.peer[m]
           q == [p EXCEPT !.hashContinue = NoBlock]
           z == PutPeer(y, m, q)
           best == x.pindexBest
           last == <<best>>
           inv == [type |-> "inv", vInv |-> last]
           v == Sends(z, m, inv)
           w == ServeBlock(x, m, b)
<1>1. msg \in Messages /\ Load(msg, "inv") = {} /\ Load(msg, "block") = {b} /\ Load(msg, "getdata") = {}
    BY MessageTypes DEF Load
<1>2. w = IF b \notin x.mapBlockIndex THEN x
          ELSE IF b # x.peer[m].hashContinue THEN y
          ELSE v
    <2>1. z = [y EXCEPT !.peer[m].hashContinue = NoBlock]
        BY DEF PutPeer
    <2> QED
        BY <2>1 DEF ServeBlock
<1> HIDE DEF msg, w
<1>3. CASE b \notin x.mapBlockIndex
    <2>1. w = x
        BY <1>2, <1>3
    <2> QED
        BY <1>3, <2>1, StepStays DEF ServedTo, w
<1>4. CASE b \in x.mapBlockIndex
    <2>1. Announces(msg, x.mapBlockIndex)
        BY <1>1, <1>4 DEF Announces
    <2>2. Sent(x, y, m, msg)
        BY <1>1, <2>1, SendsStep
    <2> HIDE DEF y
    <2>3. /\ Sound(y) /\ Step(x, y, m, {}) /\ y.mapBlockIndex = x.mapBlockIndex
          /\ b \in Offers(p) /\ p.vRecvGetData = x.peer[m].vRecvGetData
        BY <1>1, <2>2 DEF Sent
    <2>4. ServedTo(x, y, m, b)
        BY <2>3 DEF ServedTo
    <2>5. p \in PeerType /\ ToSet(p.vInventoryToSend) \subseteq y.mapBlockIndex
        BY <2>3, NodeFields DEF Sound
    <2>6. q \in PeerType /\ SameTo(p, q) /\ q.vInventoryToSend = p.vInventoryToSend
          /\ q.vRecvGetData = p.vRecvGetData
        <3>1. NoBlock \in Tips
            BY DEF Tips
        <3> HIDE DEF p
        <3> QED
            BY <2>5, <3>1 DEF PeerType, SameTo, Known, Offers, Serves, Asks
    <2> HIDE DEF q, p
    <2>7. Quiet(y, z, m) /\ z.peer[m] = q
        <3>1. Quiet(y, z, m)
            BY <2>3, <2>5, <2>6, PutPeerQuiet DEF p
        <3>2. y \in NodeType
            BY <2>3 DEF Sound
        <3>3. z.peer[m] = q
            BY <2>6, <3>2, PutPeerIs
        <3> QED
            BY <3>1, <3>3
    <2> HIDE DEF z
    <2>8. best \in Blocks /\ best \in z.mapBlockIndex
        <3>1. best \in x.mapBlockIndex /\ best \in Blocks
            BY NodeFields DEF Sound
        <3> QED
            BY <2>3, <2>7, <3>1 DEF Quiet
    <2>9. inv \in Messages /\ Load(inv, "inv") = {best} /\ Load(inv, "block") = {}
        <3> HIDE DEF best
        <3>1. last \in Seq(Blocks) /\ ToSet(last) = {best}
            BY <2>8 DEF ToSet
        <3> HIDE DEF last
        <3> QED
            BY <3>1, MessageTypes DEF Load
    <2> HIDE DEF inv, best
    <2>10. Sent(z, v, m, inv)
        <3>1. Announces(inv, z.mapBlockIndex)
            BY <2>8, <2>9 DEF Announces
        <3>2. Sound(z)
            BY <2>7 DEF Quiet
        <3> QED
            BY <2>9, <3>1, <3>2, SendsStep
    <2> HIDE DEF v
    <2>11. ServedTo(x, v, m, b)
        <3>1. Step(x, v, m, {})
            <4>1. Step(x, y, m, {}) /\ Step(y, z, m, {}) /\ Step(z, v, m, {})
                BY <2>3, <2>7, <2>10 DEF Quiet, Sent
            <4> QED
                BY <4>1, StepsCompose
        <3>2. v.mapBlockIndex = x.mapBlockIndex /\ v.peer[m].vRecvGetData = x.peer[m].vRecvGetData
            BY <2>3, <2>6, <2>7, <2>10 DEF Quiet, Sent
        <3>3. b \in Offers(v.peer[m])
            <4>1. Offers(q) = Offers(p)
                BY <2>6 DEF SameTo
            <4> QED
                BY <2>3, <2>7, <2>10, <4>1 DEF Sent
        <3> QED
            BY <2>10, <3>1, <3>2, <3>3 DEF ServedTo, Sent
    <2>12. w = y \/ w = v
        BY <1>2, <1>4
    <2> QED
        BY <2>4, <2>11, <2>12 DEF w
<1> QED
    BY <1>3, <1>4

\* ProcessGetData takes the first request.
LEMMA ProcessGetDataStep ==
    ASSUME NEW x, Sound(x), NEW m \in Nodes, x.peer[m].vRecvGetData # <<>>
    PROVE  LET y == ServeBlock(x, m, Head(x.peer[m].vRecvGetData))
               z == [y EXCEPT !.peer[m].vRecvGetData = Tail(x.peer[m].vRecvGetData)]
           IN  Sound(z) /\ Step(x, z, m, {})
<1> DEFINE queue == x.peer[m].vRecvGetData
           b == Head(queue)
           rest == Tail(queue)
           y == ServeBlock(x, m, b)
           p == y.peer[m]
           q == [p EXCEPT !.vRecvGetData = rest]
           z == [y EXCEPT !.peer[m].vRecvGetData = rest]
<1>1. queue \in Seq(Blocks) /\ queue # <<>>
    <2>1. x.peer[m] \in PeerType
        BY NodeFields DEF Sound
    <2> QED
        BY <2>1, PeerFields
<1>2. b \in Blocks /\ rest \in Seq(Blocks) /\ ToSet(queue) \subseteq {b} \cup ToSet(rest)
    <2> HIDE DEF queue
    <2>1. b \in Blocks /\ rest \in Seq(Blocks)
        BY <1>1
    <2>2. /\ DOMAIN queue = 1 .. Len(queue) /\ DOMAIN rest = 1 .. Len(queue) - 1 /\ b = queue[1]
          /\ Len(queue) \in Nat /\ \A i \in 1 .. Len(queue) - 1 : rest[i] = queue[i + 1]
        BY <1>1
    <2> DEFINE n == Len(queue)
    <2> HIDE DEF b, rest, n
    <2>3. ASSUME NEW i \in 1 .. n PROVE queue[i] \in {b} \cup ToSet(rest)
        <3>1. CASE i = 1
            BY <2>2, <3>1
        <3>2. CASE i # 1
            <4> DEFINE j == i - 1
            <4>1. j \in 1 .. n - 1 /\ j + 1 = i
                BY <2>2, <3>2 DEF n
            <4> HIDE DEF j
            <4>2. rest[j] = queue[i]
                BY <2>2, <4>1 DEF n
            <4> QED
                BY <2>2, <4>1, <4>2 DEF n, ToSet
        <3> QED
            BY <3>1, <3>2
    <2> QED
        BY <2>1, <2>2, <2>3 DEF ToSet, n
<1> HIDE DEF b, rest
<1>3. ServedTo(x, y, m, b)
    BY <1>2, ServeBlockStep
<1> HIDE DEF y
<1>4. z = PutPeer(y, m, q)
    BY DEF PutPeer
<1>5. /\ Sound(y) /\ p \in PeerType /\ p.vRecvGetData = queue
      /\ ToSet(p.vInventoryToSend) \subseteq y.mapBlockIndex /\ Offers(p) \subseteq y.mapBlockIndex
      /\ b \in y.mapBlockIndex => b \in Offers(p)
    BY <1>3, NodeFields DEF ServedTo, Sound
<1>6. /\ q \in PeerType /\ Known(q) = Known(p) /\ Offers(q) = Offers(p) /\ Asks(q) = Asks(p)
      /\ Serves(q) = ToSet(rest) /\ q.vInventoryToSend = p.vInventoryToSend
    <2> HIDE DEF p
    <2> QED
        BY <1>2, <1>5 DEF PeerType, Known, Offers, Serves, Asks
<1> HIDE DEF q, z, queue
<1>7. PeerStep(p, q, y.mapBlockIndex, Have(y), {})
    BY <1>2, <1>5, <1>6 DEF PeerStep, Serves
<1>8. Sound(z) /\ Step(y, z, m, {})
    BY <1>4, <1>5, <1>6, <1>7, PutPeerStep
<1>9. Step(x, z, m, {})
    BY <1>3, <1>8, StepsCompose DEF ServedTo
<1> QED
    BY <1>8, <1>9 DEF z, y, b, rest, queue

-----------------------------------------------------------------------------
\* All nodes together

\* m, whose state is w, holds each block that n, whose state is x, knows of through it, or
\* n does; and n has it, or is still to ask or be sent or told.
Heard(w, n, x, m) ==
    /\ Known(w.peer[n]) \subseteq w.mapBlockIndex \cup x.mapBlockIndex
    /\ Known(w.peer[n]) \subseteq
           Have(x) \cup Offers(w.peer[n]) \cup Serves(w.peer[n]) \cup Asks(x.peer[m])

\* The inductive invariant.  A request for a block that m cannot serve is dropped, which is
\* harmless because n has the block then: hence the first conjunct of Heard.
Fine(s) ==
    /\ s \in [Nodes -> NodeType]
    /\ \A n \in Nodes : Sound(s[n]) /\ Known(s[n].peer[n]) = {}
    /\ \A n, m \in Nodes : n # m => Heard(s[m], n, s[n], m)

\* A node that forgets nothing, and whose record of m says the same of blocks
Keeps(x, y, m) ==
    /\ x.mapBlockIndex \subseteq y.mapBlockIndex /\ Have(x) \subseteq Have(y)
    /\ SameTo(x.peer[m], y.peer[m])

LEMMA HeardStays ==
    ASSUME NEW w, NEW n, NEW x, NEW m, NEW z, NEW y,
           Heard(w, n, x, m), Keeps(w, z, n), Keeps(x, y, m)
    PROVE  Heard(z, n, y, m)
<1>1. /\ Known(z.peer[n]) = Known(w.peer[n]) /\ Offers(z.peer[n]) = Offers(w.peer[n])
      /\ Serves(z.peer[n]) = Serves(w.peer[n]) /\ Asks(y.peer[m]) = Asks(x.peer[m])
      /\ w.mapBlockIndex \subseteq z.mapBlockIndex /\ x.mapBlockIndex \subseteq y.mapBlockIndex
      /\ Have(x) \subseteq Have(y)
    BY DEF Keeps, SameTo
<1> QED
    BY <1>1 DEF Heard

LEMMA KeepsAll ==
    ASSUME NEW s, Fine(s), NEW t \in [Nodes -> NodeType],
           \A n \in Nodes : Sound(t[n]) /\ \A k \in Nodes : Keeps(s[n], t[n], k)
    PROVE  Fine(t)
<1>1. \A n \in Nodes : Known(t[n].peer[n]) = {}
    BY DEF Fine, Keeps, SameTo
<1>2. ASSUME NEW n \in Nodes, NEW m \in Nodes, n # m PROVE Heard(t[m], n, t[n], m)
    <2>1. Heard(s[m], n, s[n], m)
        BY <1>2 DEF Fine
    <2> QED
        BY <2>1, HeardStays
<1> QED
    BY <1>1, <1>2 DEF Fine

\* n takes a message from the record z that m has of it: O is what the message announces,
\* G what it asks for.
Delivered(w, z, n, O, G) ==
    /\ Sound(z)
    /\ z.mapBlockIndex = w.mapBlockIndex /\ Have(z) = Have(w)
    /\ \A k \in Nodes \ {n} : SameTo(w.peer[k], z.peer[k])
    /\ Known(z.peer[n]) = Known(w.peer[n]) /\ Serves(z.peer[n]) = Serves(w.peer[n])
    /\ Offers(w.peer[n]) = Offers(z.peer[n]) \cup O
    /\ Asks(w.peer[n]) \subseteq Asks(z.peer[n]) \cup G

\* m's announcements to n, after n's turn
LEMMA HearsMore ==
    ASSUME NEW w, NEW z, NEW x, NEW y, NEW n, NEW m, NEW O, NEW G,
           Heard(w, n, x, m), Step(x, y, m, O), Delivered(w, z, n, O, G),
           O \subseteq Have(y) \cup Asks(y.peer[m])
    PROVE  Heard(z, n, y, m)
<1>1. /\ x.mapBlockIndex \subseteq y.mapBlockIndex /\ Have(x) \subseteq Have(y)
      /\ Asks(x.peer[m]) \subseteq Asks(y.peer[m]) \cup Have(y)
    BY DEF Step, PeerStep
<1>2. /\ z.mapBlockIndex = w.mapBlockIndex /\ Known(z.peer[n]) = Known(w.peer[n])
      /\ Serves(z.peer[n]) = Serves(w.peer[n]) /\ Offers(w.peer[n]) = Offers(z.peer[n]) \cup O
    BY DEF Delivered
<1>3. Known(z.peer[n]) \subseteq z.mapBlockIndex \cup y.mapBlockIndex
    BY <1>1, <1>2 DEF Heard
<1>4. Known(z.peer[n]) \subseteq
          Have(y) \cup Offers(z.peer[n]) \cup Serves(z.peer[n]) \cup Asks(y.peer[m])
    BY <1>1, <1>2 DEF Heard
<1> QED
    BY <1>3, <1>4 DEF Heard

\* n's announcements to m, after n's turn
LEMMA TellsMore ==
    ASSUME NEW w, NEW z, NEW x, NEW y, NEW n, NEW m \in Nodes, NEW O, NEW G,
           Heard(x, m, w, n), Step(x, y, m, O), Delivered(w, z, n, O, G), Sound(y),
           Offers(w.peer[n]) \subseteq w.mapBlockIndex, G \subseteq Serves(y.peer[m])
    PROVE  Heard(y, m, z, n)
<1>1. /\ x.mapBlockIndex \subseteq y.mapBlockIndex
      /\ Known(y.peer[m]) \subseteq Known(x.peer[m]) \cup O \cup Offers(y.peer[m])
      /\ Offers(x.peer[m]) \subseteq Offers(y.peer[m])
      /\ Serves(x.peer[m]) \cap x.mapBlockIndex \subseteq Serves(y.peer[m]) \cup Offers(y.peer[m])
    BY DEF Step, PeerStep
<1>2. /\ z.mapBlockIndex = w.mapBlockIndex /\ Have(z) = Have(w) /\ O \subseteq w.mapBlockIndex
      /\ Asks(w.peer[n]) \subseteq Asks(z.peer[n]) \cup Serves(y.peer[m])
    BY DEF Delivered
<1>3. Offers(y.peer[m]) \subseteq y.mapBlockIndex
    BY DEF Sound
<1>4. w.mapBlockIndex \subseteq Have(w)
    BY DEF Have
<1>5. Known(y.peer[m]) \subseteq y.mapBlockIndex \cup z.mapBlockIndex
    BY <1>1, <1>2, <1>3 DEF Heard
<1>6. Known(y.peer[m]) \subseteq
          Have(z) \cup Offers(y.peer[m]) \cup Serves(y.peer[m]) \cup Asks(z.peer[n])
    BY <1>1, <1>2, <1>4 DEF Heard
<1> QED
    BY <1>5, <1>6 DEF Heard

\* n's turn, in which it may take a message from m
LEMMA TurnFine ==
    ASSUME NEW s, Fine(s), NEW n \in Nodes, NEW m \in Nodes, n # m, NEW y, NEW z, NEW O, NEW G,
           Sound(y), Step(s[n], y, m, O), Delivered(s[m], z, n, O, G),
           O \subseteq Have(y) \cup Asks(y.peer[m]), G \subseteq Serves(y.peer[m])
    PROVE  Fine([s EXCEPT ![n] = y, ![m] = z])
<1> DEFINE t == [s EXCEPT ![n] = y, ![m] = z]
<1>1. Sound(z) /\ y \in NodeType /\ z \in NodeType /\ s \in [Nodes -> NodeType]
    BY DEF Delivered, Sound, Fine
<1>2. /\ t \in [Nodes -> NodeType] /\ t[n] = y /\ t[m] = z
      /\ \A k \in Nodes \ {n, m} : t[k] = s[k]
    BY <1>1
<1> HIDE DEF t
<1>3. \A k \in Nodes : Sound(t[k])
    BY <1>1, <1>2 DEF Fine
<1>4. /\ \A k \in Nodes \ {m} : Keeps(s[n], t[n], k)
      /\ \A k \in Nodes \ {n} : Keeps(s[m], t[m], k)
    BY <1>2 DEF Step, Delivered, Keeps
<1>5. \A j \in Nodes \ {n, m}, k \in Nodes : Keeps(s[j], t[j], k)
    BY <1>2 DEF Keeps, SameTo
<1>6. \A j, k \in Nodes : {j, k} # {n, m} => Keeps(s[j], t[j], k)
    BY <1>4, <1>5
<1>7. ASSUME NEW k \in Nodes PROVE Known(t[k].peer[k]) = {}
    <2>1. Known(s[k].peer[k]) = {}
        BY DEF Fine
    <2>2. Keeps(s[k], t[k], k)
        BY <1>6
    <2> QED
        BY <2>1, <2>2 DEF Keeps, SameTo
<1>8. Heard(t[m], n, t[n], m)
    <2>1. Heard(s[m], n, s[n], m)
        BY DEF Fine
    <2>2. Heard(z, n, y, m)
        BY <2>1, HearsMore
    <2> QED
        BY <1>2, <2>2
<1>9. Heard(t[n], m, t[m], n)
    <2>1. Heard(s[n], m, s[m], n)
        BY DEF Fine
    <2>2. Offers(s[m].peer[n]) \subseteq s[m].mapBlockIndex
        BY DEF Fine, Sound
    <2>3. Heard(y, m, z, n)
        BY <2>1, <2>2, TellsMore
    <2> QED
        BY <1>2, <2>3
<1>10. ASSUME NEW j \in Nodes, NEW k \in Nodes, j # k PROVE Heard(t[k], j, t[j], k)
    <2>1. CASE {j, k} = {n, m}
        <3>1. (j = n /\ k = m) \/ (j = m /\ k = n)
            BY <1>10, <2>1
        <3> QED
            BY <1>8, <1>9, <3>1
    <2>2. CASE {j, k} # {n, m}
        <3>1. Heard(s[k], j, s[j], k)
            BY <1>10 DEF Fine
        <3>2. Keeps(s[j], t[j], k) /\ Keeps(s[k], t[k], j)
            BY <1>6, <2>2
        <3> QED
            BY <3>1, <3>2, HeardStays
    <2> QED
        BY <2>1, <2>2
<1>11. Fine(t)
    BY <1>2, <1>3, <1>7, <1>10 DEF Fine
<1> QED
    BY <1>11 DEF t

\* A turn in which nothing is received
LEMMA NothingDelivered ==
    ASSUME NEW w, Sound(w), NEW n
    PROVE  Delivered(w, w, n, {}, {})
BY DEF Delivered, SameTo

LEMMA TurnAlone ==
    ASSUME NEW s, Fine(s), NEW n \in Nodes, NEW m \in Nodes, n # m, NEW y,
           Sound(y), Step(s[n], y, m, {})
    PROVE  Fine([s EXCEPT ![n] = y])
<1> DEFINE w == s[m]
           none == {}
<1>1. Sound(w) /\ s \in [Nodes -> NodeType]
    BY DEF Fine
<1>2. Delivered(w, w, n, none, none)
    BY <1>1, NothingDelivered
<1>3. [s EXCEPT ![n] = y, ![m] = w] = [s EXCEPT ![n] = y]
    BY <1>1
<1>4. none \subseteq Have(y) \cup Asks(y.peer[m]) /\ none \subseteq Serves(y.peer[m]) /\ Step(s[n], y, m, none)
    OBVIOUS
<1> HIDE DEF none
<1>5. Fine([s EXCEPT ![n] = y, ![m] = w])
    BY <1>2, <1>4, TurnFine
<1> QED
    BY <1>3, <1>5

\* The head of what m sends is taken out.
LEMMA HeadDelivered ==
    ASSUME NEW w, Sound(w), NEW n \in Nodes, w.peer[n].out # <<>>
    PROVE  LET msg == Head(w.peer[n].out)
           IN  /\ msg \in Messages
               /\ Delivered(w, [w EXCEPT !.peer[n].out = Tail(@)], n,
                            Load(msg, "inv") \cup Load(msg, "block"), Load(msg, "getdata"))
<1> DEFINE p == w.peer[n]
           msg == Head(p.out)
           o == Tail(p.out)
           q == [p EXCEPT !.out = o]
           z == PutPeer(w, n, q)
<1>1. w \in NodeType /\ p \in PeerType /\ p.out \in Seq(Messages)
    <2>1. w \in NodeType /\ p \in PeerType
        BY NodeFields DEF Sound
    <2> QED
        BY <2>1, PeerFields
<1>2. o \in Seq(Messages) /\ msg \in Messages
      /\ \A type : Carried(p.out, type) = Load(msg, type) \cup Carried(o, type)
    BY <1>1, CarriedTail
<1> HIDE DEF o
<1>3. /\ q \in PeerType /\ q.out = o /\ Known(q) = Known(p) /\ Serves(q) = Serves(p)
      /\ q.vInventoryToSend = p.vInventoryToSend /\ q.mapAskFor = p.mapAskFor
    <2> HIDE DEF p
    <2> QED
        BY <1>1, <1>2, OutSet
<1>4. [w EXCEPT !.peer[n].out = Tail(@)] = z
    BY DEF PutPeer, o
<1> HIDE DEF q, msg
<1>5. /\ Offers(p) = Offers(q) \cup Load(msg, "inv") \cup Load(msg, "block")
      /\ Asks(p) = Asks(q) \cup Load(msg, "getdata")
    BY <1>2, <1>3 DEF Offers, Asks
<1>6. Offers(p) \subseteq w.mapBlockIndex /\ ToSet(p.vInventoryToSend) \subseteq w.mapBlockIndex
    BY DEF Sound
<1>7. /\ Sound(z) /\ z.peer[n] = q /\ \A k \in Nodes \ {n} : z.peer[k] = w.peer[k]
      /\ z.mapBlockIndex = w.mapBlockIndex /\ Have(z) = Have(w)
    <2>1. Offers(q) \subseteq w.mapBlockIndex /\ ToSet(q.vInventoryToSend) \subseteq w.mapBlockIndex
        BY <1>3, <1>5, <1>6
    <2> QED
        BY <1>3, <2>1, PutPeerSound
<1> HIDE DEF z
<1>8. \A k \in Nodes \ {n} : SameTo(w.peer[k], z.peer[k])
    BY <1>7 DEF SameTo
<1>9. Delivered(w, z, n, Load(msg, "inv") \cup Load(msg, "block"), Load(msg, "getdata"))
    BY <1>3, <1>5, <1>7, <1>8 DEF Delivered
<1> QED
    BY <1>2, <1>4, <1>9 DEF msg

-----------------------------------------------------------------------------
\* The actions

\* The blocks that a message is about
Announced(msg) == Load(msg, "inv") \cup Load(msg, "block")
Wanted(msg)    == Load(msg, "getdata")

LEMMA MessageLoads ==
    ASSUME NEW msg
    PROVE  /\ msg.type \in {"version", "getblocks"} => Announced(msg) = {} /\ Wanted(msg) = {}
           /\ msg.type = "inv" => Announced(msg) = ToSet(msg.vInv) /\ Wanted(msg) = {}
           /\ msg.type = "getdata" => Announced(msg) = {} /\ Wanted(msg) = ToSet(msg.vInv)
           /\ msg.type = "block" => Announced(msg) = {msg.block} /\ Wanted(msg) = {}
BY DEF Announced, Wanted, Load

\* A message that n receives
LEMMA Received ==
    ASSUME Fine(node), NEW n \in Nodes, NEW m \in Nodes, n # m, NEW type, Receives(n, m, type),
           NEW y, Becomes(n, m, y), Sound(y), Step(node[n], y, m, Announced(Message(n, m))),
           Announced(Message(n, m)) \subseteq Have(y) \cup Asks(y.peer[m]),
           Wanted(Message(n, m)) \subseteq Serves(y.peer[m])
    PROVE  Fine(node')
<1> DEFINE w == node[m]
           z == [w EXCEPT !.peer[n].out = Tail(@)]
           O == Announced(Message(n, m))
           G == Wanted(Message(n, m))
<1>1. Sound(w) /\ node \in [Nodes -> NodeType] /\ w.peer[n].out # <<>>
    BY DEF Fine, Receives
<1>2. Delivered(w, z, n, O, G)
    BY <1>1, HeadDelivered DEF Announced, Wanted, Message
<1>3. node' = [node EXCEPT ![n] = y, ![m] = z]
    BY <1>1 DEF Becomes
<1> HIDE DEF z, O, G
<1>4. Fine([node EXCEPT ![n] = y, ![m] = z])
    BY <1>2, TurnFine DEF O, G
<1> QED
    BY <1>3, <1>4

\* What Receives says of the message
LEMMA ReceivedIs ==
    ASSUME Fine(node), NEW n \in Nodes, NEW m \in Nodes, NEW type, Receives(n, m, type)
    PROVE  Message(n, m) \in Messages /\ Message(n, m).type = type /\ Sound(node[n])
<1>1. Sound(node[m]) /\ Sound(node[n]) /\ node[m].peer[n].out # <<>>
    BY DEF Fine, Receives
<1>2. Head(node[m].peer[n].out) \in Messages
    BY <1>1, HeadDelivered
<1> QED
    BY <1>1, <1>2 DEF Receives, Message

\* A message that no block notices
LEMMA ReceivedQuietly ==
    ASSUME Fine(node), NEW n \in Nodes, NEW m \in Nodes, n # m, NEW type \in {"version", "getblocks"},
           Receives(n, m, type), NEW y, Becomes(n, m, y), Sound(y), Step(node[n], y, m, {})
    PROVE  Fine(node')
<1> DEFINE msg == Message(n, m)
           none == {}
<1>1. msg.type \in {"version", "getblocks"}
    BY ReceivedIs
<1>2. Announced(msg) = none /\ Wanted(msg) = none /\ none \subseteq Have(y) \cup Asks(y.peer[m])
      /\ none \subseteq Serves(y.peer[m]) /\ Step(node[n], y, m, none)
    BY <1>1, MessageLoads
<1> HIDE DEF none
<1>3. /\ Step(node[n], y, m, Announced(msg)) /\ Announced(msg) \subseteq Have(y) \cup Asks(y.peer[m])
      /\ Wanted(msg) \subseteq Serves(y.peer[m])
    BY <1>2
<1> HIDE DEF msg
<1> QED
    BY <1>3, Received DEF msg

LEMMA ReceiveVersionFine ==
    ASSUME Fine(node), NEW n \in Nodes, NEW m \in Nodes, n # m, ReceiveVersion(n, m)
    PROVE  Fine(node')
<1> DEFINE w == node[n]
           p == w.peer[m]
           h == Message(n, m).height
           heard == TRUE
           q == [p EXCEPT !.version = heard, !.nStartingHeight = h]
           x == [w EXCEPT !.peer[m].version = TRUE, !.peer[m].nStartingHeight = h]
           hello == VersionMessage(x)
           y == IF x.peer[m].fInbound THEN Sends(x, m, hello) ELSE x
<1>1. Receives(n, m, "version") /\ Becomes(n, m, y)
    BY DEF ReceiveVersion
<1>2. Sound(w) /\ h \in Nat /\ p \in PeerType
    <2>1. Message(n, m) \in Messages /\ Message(n, m).type = "version" /\ Sound(w)
        BY <1>1, ReceivedIs
    <2>2. h \in Nat
        BY <2>1, MessageFields
    <2>3. p \in PeerType
        BY <2>1, NodeFields DEF Sound
    <2> QED
        BY <2>1, <2>2, <2>3
<1>3. x = PutPeer(w, m, q)
    BY DEF PutPeer
<1> HIDE DEF w, h
<1>4. q \in PeerType /\ SameTo(p, q) /\ q.vInventoryToSend = p.vInventoryToSend
    <2>1. heard \in BOOLEAN /\ h \in Int
        BY <1>2
    <2> HIDE DEF p, heard
    <2>2. q \in PeerType
        BY <1>2, <2>1 DEF PeerType
    <2>3. /\ q.out = p.out /\ q.setInventoryKnown = p.setInventoryKnown /\ q.mapAskFor = p.mapAskFor
          /\ q.vRecvGetData = p.vRecvGetData /\ q.vInventoryToSend = p.vInventoryToSend
        BY <1>2 DEF PeerType
    <2> HIDE DEF q
    <2> QED
        BY <2>2, <2>3 DEF SameTo, Known, Offers, Serves, Asks
<1> HIDE DEF q
<1>5. Quiet(w, x, m)
    <2>1. ToSet(q.vInventoryToSend) \subseteq w.mapBlockIndex
        BY <1>2, <1>4 DEF Sound
    <2> QED
        BY <1>2, <1>3, <1>4, <2>1, PutPeerQuiet
<1> HIDE DEF x
<1>6. hello \in Messages /\ Announces(hello, x.mapBlockIndex)
    <2>1. Height[x.pindexBest] \in Nat
        <3>1. x \in NodeType
            BY <1>5 DEF Quiet, Sound
        <3> QED
            BY <3>1, NodeFields, BlockTreeAssumption
    <2> QED
        BY <2>1, MessageTypes DEF VersionMessage, Announces, Load
<1> HIDE DEF hello
<1>7. Sound(y) /\ Step(w, y, m, {})
    <2>1. Sound(x) /\ Step(w, x, m, {})
        BY <1>5 DEF Quiet
    <2>2. Sound(Sends(x, m, hello)) /\ Step(x, Sends(x, m, hello), m, {})
        BY <1>6, <2>1, SendsStep DEF Sent
    <2>3. Step(w, Sends(x, m, hello), m, {})
        BY <2>1, <2>2, StepsCompose
    <2> QED
        BY <2>1, <2>2, <2>3
<1> HIDE DEF y
<1> QED
    BY <1>1, <1>7, ReceivedQuietly DEF w

LEMMA ReceiveInvFine ==
    ASSUME Fine(node), NEW n \in Nodes, NEW m \in Nodes, n # m, ReceiveInv(n, m)
    PROVE  Fine(node')
<1> DEFINE msg == Message(n, m)
           y == TakeAll(node[n], m, msg.vInv)
<1>1. Receives(n, m, "inv") /\ Becomes(n, m, y)
    BY DEF ReceiveInv, TakeAll
<1>2. Sound(node[n]) /\ msg.vInv \in Seq(Blocks) /\ Announced(msg) = ToSet(msg.vInv) /\ Wanted(msg) = {}
    BY <1>1, ReceivedIs, MessageFields, MessageLoads
<1>3. Sound(y) /\ Step(node[n], y, m, ToSet(msg.vInv)) /\ ToSet(msg.vInv) \subseteq Have(y) \cup Asks(y.peer[m])
    BY <1>2, TakeAllStep
<1> HIDE DEF y
<1>4. /\ Step(node[n], y, m, Announced(msg)) /\ Announced(msg) \subseteq Have(y) \cup Asks(y.peer[m])
      /\ Wanted(msg) \subseteq Serves(y.peer[m])
    BY <1>2, <1>3
<1> HIDE DEF msg
<1> QED
    BY <1>1, <1>3, <1>4, Received DEF msg

LEMMA ReceiveGetDataFine ==
    ASSUME Fine(node), NEW n \in Nodes, NEW m \in Nodes, n # m, ReceiveGetData(n, m)
    PROVE  Fine(node')
<1> DEFINE msg == Message(n, m)
           x == node[n]
           p == x.peer[m]
           new == msg.vInv
           q == [p EXCEPT !.vRecvGetData = new]
           y == PutPeer(x, m, q)
           none == {}
<1>1. Receives(n, m, "getdata") /\ Becomes(n, m, y) /\ Serves(p) = {}
    BY DEF ReceiveGetData, PutPeer, Receives, Serves, ToSet
<1>2. Sound(x) /\ new \in Seq(Blocks) /\ Announced(msg) = {} /\ Wanted(msg) = ToSet(new) /\ p \in PeerType
    BY <1>1, ReceivedIs, MessageFields, MessageLoads, NodeFields DEF Sound
<1> HIDE DEF msg, x, new
<1>3. /\ q \in PeerType /\ Known(q) = Known(p) /\ Offers(q) = Offers(p) /\ Asks(q) = Asks(p)
      /\ Serves(q) = ToSet(new) /\ q.vInventoryToSend = p.vInventoryToSend
    <2> HIDE DEF p
    <2> QED
        BY <1>2 DEF PeerType, Known, Offers, Serves, Asks
<1> HIDE DEF q
<1>4. PeerStep(p, q, x.mapBlockIndex, Have(x), none)
    BY <1>1, <1>3 DEF PeerStep
<1>5. ToSet(q.vInventoryToSend) \subseteq x.mapBlockIndex /\ Offers(q) \subseteq x.mapBlockIndex
    BY <1>2, <1>3 DEF Sound
<1>6. /\ Sound(y) /\ Step(x, y, m, none)
      /\ Announced(msg) = none /\ none \subseteq Have(y) \cup Asks(y.peer[m])
      /\ Wanted(msg) \subseteq Serves(y.peer[m])
    <2> HIDE DEF none
    <2>1. Sound(y) /\ Step(x, y, m, none)
        BY <1>2, <1>3, <1>4, <1>5, PutPeerStep
    <2>2. y.peer[m] = q
        BY <1>2, <1>3, PutPeerIs DEF Sound
    <2> HIDE DEF y
    <2> QED
        BY <1>2, <1>3, <2>1, <2>2 DEF none
<1> HIDE DEF y, none
<1> QED
    BY <1>1, <1>6, Received DEF msg, x

LEMMA ReceiveBlockFine ==
    ASSUME Fine(node), NEW n \in Nodes, NEW m \in Nodes, n # m, ReceiveBlock(n, m)
    PROVE  Fine(node')
<1> DEFINE msg == Message(n, m)
           x == node[n]
           b == msg.block
           z == AddInventoryKnown(x, m, b)
           y == ProcessBlock(z, m, b)
           one == {b}
<1>1. Receives(n, m, "block") /\ Becomes(n, m, y)
    BY DEF ReceiveBlock
<1>2. Sound(x) /\ b \in Blocks /\ Announced(msg) = one /\ Wanted(msg) = {}
    BY <1>1, ReceivedIs, MessageFields, MessageLoads
<1> HIDE DEF msg, x, b
<1>3. Sound(z) /\ Step(x, z, m, one)
    BY <1>2, AddInventoryKnownStep
<1> HIDE DEF z
<1>4. Sound(y) /\ Step(z, y, m, {}) /\ b \in Have(y)
    BY <1>2, <1>3, ProcessBlockStep
<1> HIDE DEF y
<1>5. Step(x, y, m, one)
    <2>1. Step(z, y, m, one)
        BY <1>4 DEF Step, PeerStep
    <2> HIDE DEF one
    <2> QED
        BY <1>3, <2>1, StepsCompose
<1>6. Announced(msg) \subseteq Have(y) \cup Asks(y.peer[m]) /\ Wanted(msg) \subseteq Serves(y.peer[m])
      /\ Step(x, y, m, Announced(msg))
    BY <1>2, <1>4, <1>5
<1> QED
    BY <1>1, <1>4, <1>6, Received DEF msg, x

LEMMA ContinuationType ==
    ASSUME NEW answer \in Seq(Blocks)
    PROVE  Continuation(answer) \in Tips
<1>1. Limit \in Nat \ {0}
    BY BlockSyncAssumption DEF BlockSyncAssumption
<1>2. Len(answer) \in Nat /\ DOMAIN answer = 1 .. Len(answer)
    OBVIOUS
<1>3. CASE Len(answer) >= Limit
    <2>1. Limit \in DOMAIN answer
        BY <1>1, <1>2, <1>3
    <2>2. answer[Limit] \in Blocks
        BY <2>1
    <2> QED
        BY <1>3, <2>2 DEF Continuation, Tips
<1>4. CASE ~(Len(answer) >= Limit)
    BY <1>4 DEF Continuation, Tips
<1> QED
    BY <1>3, <1>4

LEMMA ReceiveGetBlocksFine ==
    ASSUME Fine(node), NEW n \in Nodes, NEW m \in Nodes, n # m, ReceiveGetBlocks(n, m)
    PROVE  Fine(node')
<1> DEFINE msg == Message(n, m)
           w == node[n]
           answer == AfterLocator(w.pindexBest, msg.begin, msg.end)
           c == Continuation(answer)
           x == PushInventory(w, m, answer)
           z == [x EXCEPT !.peer[m].hashContinue = c]
           y == IF c = NoBlock THEN x ELSE z
           p == x.peer[m]
           q == [p EXCEPT !.hashContinue = c]
<1>1. Receives(n, m, "getblocks") /\ Becomes(n, m, y)
    BY DEF ReceiveGetBlocks
<1>2. Sound(w) /\ msg.begin \in Blocks /\ w.pindexBest \in Blocks
    BY <1>1, ReceivedIs, MessageFields, NodeFields DEF Sound
<1> HIDE DEF msg, w
<1>3. answer \in Seq(Blocks) /\ ToSet(answer) \subseteq w.mapBlockIndex
    <2>1. answer \in Seq(Blocks) /\ ToSet(answer) \subseteq Ancestry[w.pindexBest]
        BY <1>2, AfterLocatorIs
    <2> HIDE DEF answer
    <2> QED
        BY <1>2, <2>1 DEF Sound
<1>4. c \in Tips
    <2> HIDE DEF answer
    <2> QED
        BY <1>3, ContinuationType
<1> HIDE DEF answer, c
<1>5. Quiet(w, x, m)
    BY <1>2, <1>3, PushInventoryQuiet
<1> HIDE DEF x
<1>6. Sound(x) /\ Step(w, x, m, {}) /\ p \in PeerType
    BY <1>5, NodeFields DEF Quiet, Sound
<1>7. q \in PeerType /\ SameTo(p, q) /\ q.vInventoryToSend = p.vInventoryToSend
    <2> HIDE DEF p
    <2> QED
        BY <1>4, <1>6 DEF PeerType, SameTo, Known, Offers, Serves, Asks
<1>8. z = PutPeer(x, m, q)
    BY DEF PutPeer
<1> HIDE DEF q, z
<1>9. Sound(z) /\ Step(w, z, m, {})
    <2>1. ToSet(q.vInventoryToSend) \subseteq x.mapBlockIndex
        BY <1>6, <1>7 DEF Sound
    <2>2. Quiet(x, z, m)
        BY <1>6, <1>7, <1>8, <2>1, PutPeerQuiet
    <2>3. Sound(z) /\ Step(x, z, m, {})
        BY <2>2 DEF Quiet
    <2> QED
        BY <1>6, <2>3, StepsCompose
<1>10. Sound(y) /\ Step(w, y, m, {})
    BY <1>6, <1>9
<1> HIDE DEF y
<1> QED
    BY <1>1, <1>10, ReceivedQuietly DEF w

LEMMA ProcessGetDataFine ==
    ASSUME Fine(node), NEW n \in Nodes, NEW m \in Nodes, n # m, ProcessGetData(n, m)
    PROVE  Fine(node')
<1> DEFINE x == node[n]
           queue == x.peer[m].vRecvGetData
           y == [ServeBlock(x, m, Head(queue)) EXCEPT !.peer[m].vRecvGetData = Tail(queue)]
<1>1. queue # <<>> /\ node' = [node EXCEPT ![n] = y]
    BY DEF ProcessGetData
<1>2. Sound(x)
    BY DEF Fine
<1>3. Sound(y) /\ Step(x, y, m, {})
    <2> HIDE DEF x
    <2> QED
        BY <1>1, <1>2, ProcessGetDataStep
<1> HIDE DEF y
<1>4. Fine([node EXCEPT ![n] = y])
    BY <1>3, TurnAlone
<1> QED
    BY <1>1, <1>4

LEMMA SendMessagesFine ==
    ASSUME Fine(node), NEW n \in Nodes, NEW m \in Nodes, n # m, SendMessages(n, m)
    PROVE  Fine(node')
<1> DEFINE x == node[n]
           y == SendGetData(SendInventory(SendGetBlocks(x, m), m), m)
<1>1. node' = [node EXCEPT ![n] = y]
    BY DEF SendMessages
<1>2. Sound(x)
    BY DEF Fine
<1>3. Sound(y) /\ Step(x, y, m, {})
    <2> HIDE DEF x
    <2> QED
        BY <1>2, SendAllStep
<1> HIDE DEF y
<1>4. Fine([node EXCEPT ![n] = y])
    BY <1>3, TurnAlone
<1> QED
    BY <1>1, <1>4

\* One node that keeps all its records
LEMMA KeepsOne ==
    ASSUME NEW s, Fine(s), NEW n \in Nodes, NEW y, Sound(y), \A k \in Nodes : Keeps(s[n], y, k)
    PROVE  Fine([s EXCEPT ![n] = y])
<1> DEFINE t == [s EXCEPT ![n] = y]
<1>1. s \in [Nodes -> NodeType] /\ y \in NodeType
    BY DEF Fine, Sound
<1>2. t \in [Nodes -> NodeType] /\ t[n] = y /\ \A j \in Nodes \ {n} : t[j] = s[j]
    BY <1>1
<1> HIDE DEF t
<1>3. ASSUME NEW j \in Nodes PROVE Sound(t[j]) /\ \A k \in Nodes : Keeps(s[j], t[j], k)
    <2>1. CASE j = n
        BY <1>2, <2>1
    <2>2. CASE j # n
        <3>1. Sound(s[j])
            BY DEF Fine
        <3> QED
            BY <1>2, <2>2, <3>1 DEF Keeps, SameTo
    <2> QED
        BY <2>1, <2>2
<1>4. Fine(t)
    BY <1>2, <1>3, KeepsAll
<1> QED
    BY <1>4 DEF t

LEMMA FindBlockFine ==
    ASSUME Fine(node), NEW n \in Nodes, NEW b \in Blocks, FindBlock(n, b)
    PROVE  Fine(node')
<1> DEFINE x == node[n]
           y == AcceptWithOrphans(x, b)
           s == {b} \cup Waiting(x, b)
<1>1. node' = [node EXCEPT ![n] = y] /\ Sound(x) /\ Parent[b] \in x.mapBlockIndex
    BY DEF FindBlock, Fine, Sound
<1> HIDE DEF x
<1>2. Accepted(x, y, s)
    BY <1>1, AcceptsAll
<1>3. Sound(y)
    BY <1>1, AcceptStep
<1> HIDE DEF y, s
<1>4. \A k \in Nodes : Keeps(x, y, k)
    BY <1>2 DEF Accepted, Keeps, Have
<1>5. Fine([node EXCEPT ![n] = y])
    BY <1>3, <1>4, KeepsOne DEF x
<1> QED
    BY <1>1, <1>5

LEMMA StartSyncFine ==
    ASSUME Fine(node), NEW n \in Nodes, NEW m \in Nodes, StartSync(n, m)
    PROVE  Fine(node')
<1> DEFINE x == node[n]
           z == [x EXCEPT !.pnodeSync = m]
           chosen == TRUE
           p == x.peer[m]
           q == [p EXCEPT !.fStartSync = chosen]
           y == PutPeer(z, m, q)
<1>1. Sound(x) /\ node \in [Nodes -> NodeType] /\ x \in NodeType /\ p \in PeerType
    BY NodeFields DEF Fine, Sound
<1>2. /\ z \in NodeType /\ z.peer = x.peer /\ z.mapBlockIndex = x.mapBlockIndex
      /\ z.mapOrphanBlocks = x.mapOrphanBlocks /\ z.pindexBest = x.pindexBest
    <2> HIDE DEF x
    <2> QED
        BY <1>1 DEF NodeType
<1>3. node' = [node EXCEPT ![n] = y]
    <2>1. node' = [node EXCEPT ![n] = [z EXCEPT !.peer[m].fStartSync = TRUE]]
        BY <1>1 DEF StartSync
    <2>2. [z EXCEPT !.peer[m].fStartSync = TRUE] = y
        BY <1>2 DEF PutPeer
    <2> QED
        BY <2>1, <2>2
<1> HIDE DEF x, z
<1>4. q \in PeerType /\ SameTo(p, q) /\ q.vInventoryToSend = p.vInventoryToSend
    <2>1. chosen \in BOOLEAN
        OBVIOUS
    <2> HIDE DEF p, chosen
    <2> QED
        BY <1>1, <2>1 DEF PeerType, SameTo, Known, Offers, Serves, Asks
<1> HIDE DEF q
<1>5. Sound(z) /\ Have(z) = Have(x)
    BY <1>1, <1>2 DEF Sound, Have
<1>6. Quiet(z, y, m)
    <2>1. SameTo(z.peer[m], q) /\ ToSet(q.vInventoryToSend) \subseteq z.mapBlockIndex
        BY <1>2, <1>4, <1>5 DEF Sound
    <2> QED
        BY <1>4, <1>5, <2>1, PutPeerQuiet
<1> HIDE DEF y
<1>7. Sound(y) /\ \A k \in Nodes : Keeps(x, y, k)
    BY <1>2, <1>5, <1>6 DEF Quiet, Step, Keeps
<1>8. Fine([node EXCEPT ![n] = y])
    BY <1>7, KeepsOne DEF x
<1> QED
    BY <1>3, <1>8

\* The record of a peer that is not connected
LEMMA ClosedIs ==
    /\ Closed \in PeerType /\ Known(Closed) = {} /\ Offers(Closed) = {} /\ Serves(Closed) = {}
    /\ Asks(Closed) = {} /\ ToSet(Closed.vInventoryToSend) = {}
<1> DEFINE none == <<>>
           empty == {}
           no == FALSE
           low == -1
<1>1. /\ none \in Seq(Blocks) /\ none \in Seq(Requests) /\ none \in Seq(Messages)
      /\ empty \in SUBSET Blocks /\ low \in Int /\ NoBlock \in Tips
    BY DEF Tips
<1>2. no \in BOOLEAN
    OBVIOUS
<1>3. Closed = [open |-> no, fInbound |-> no, version |-> no, nStartingHeight |-> low,
                fStartSync |-> no, begin |-> NoBlock, end |-> NoBlock, hashContinue |-> NoBlock,
                setInventoryKnown |-> empty, vInventoryToSend |-> none, mapAskFor |-> none,
                vRecvGetData |-> none, out |-> none]
    BY DEF Closed
<1>4. ToSet(none) = {} /\ \A type : Carried(none, type) = {}
    BY CarriedNone DEF ToSet
<1>5. empty = {}
    OBVIOUS
<1> HIDE DEF none, empty, no, low
<1>6. Closed \in PeerType
    BY <1>1, <1>2, <1>3 DEF PeerType
<1>7. /\ Closed.setInventoryKnown = empty /\ Closed.vInventoryToSend = none
      /\ Closed.mapAskFor = none /\ Closed.vRecvGetData = none /\ Closed.out = none
    BY <1>3
<1> QED
    BY <1>4, <1>5, <1>6, <1>7 DEF Known, Offers, Serves, Asks

\* The node forgets the peer.
Left(x, m, k) == [x EXCEPT !.peer[m] = Closed, !.pnodeSync = k]

LEMMA LeftIs ==
    ASSUME NEW x, Sound(x), NEW m \in Nodes, NEW k \in Nodes
    PROVE  LET y == Left(x, m, k)
           IN  Sound(y) /\ Known(y.peer[m]) = {} /\ \A j \in Nodes \ {m} : Keeps(x, y, j)
<1> DEFINE z == PutPeer(x, m, Closed)
           y == Left(x, m, k)
<1>1. x \in NodeType /\ ToSet(Closed.vInventoryToSend) \subseteq x.mapBlockIndex
      /\ Offers(Closed) \subseteq x.mapBlockIndex /\ Closed \in PeerType
    BY ClosedIs DEF Sound
<1>2. /\ Sound(z) /\ z.peer[m] = Closed /\ \A j \in Nodes \ {m} : z.peer[j] = x.peer[j]
      /\ z.mapBlockIndex = x.mapBlockIndex /\ Have(z) = Have(x) /\ z.pindexBest = x.pindexBest
    BY <1>1, PutPeerSound
<1>3. y = [z EXCEPT !.pnodeSync = k]
    BY <1>1 DEF Left, PutPeer, NodeType
<1> HIDE DEF z, y
<1>4. z \in NodeType
    BY <1>2 DEF Sound
<1>5. /\ y \in NodeType /\ y.peer = z.peer /\ y.mapBlockIndex = z.mapBlockIndex
      /\ y.mapOrphanBlocks = z.mapOrphanBlocks /\ y.pindexBest = z.pindexBest
    BY <1>3, <1>4 DEF NodeType
<1>6. Sound(y) /\ Have(y) = Have(x)
    BY <1>2, <1>5 DEF Sound, Have
<1>7. \A j \in Nodes \ {m} : Keeps(x, y, j)
    BY <1>2, <1>5, <1>6 DEF Keeps, SameTo
<1>8. Known(y.peer[m]) = {}
    BY <1>2, <1>5, ClosedIs
<1> QED
    BY <1>6, <1>7, <1>8 DEF y

LEMMA BreakFine ==
    ASSUME Fine(node), NEW n \in Nodes, NEW m \in Nodes, n # m, Break(n, m)
    PROVE  Fine(node')
<1> DEFINE x == node[n]
           w == node[m]
           j == SyncAfterBreak(n, m)
           k == SyncAfterBreak(m, n)
           y == Left(x, m, j)
           z == Left(w, n, k)
           t == [node EXCEPT ![n] = y, ![m] = z]
<1>1. Sound(x) /\ Sound(w) /\ node \in [Nodes -> NodeType]
    BY DEF Fine
<1>2. j \in Nodes /\ k \in Nodes
    BY <1>1, NodeFields DEF SyncAfterBreak, Sound
<1>3. node' = t
    BY <1>1 DEF Break, Left
<1> HIDE DEF j, k
<1>4. Sound(y) /\ Known(y.peer[m]) = {} /\ \A i \in Nodes \ {m} : Keeps(x, y, i)
    <2> HIDE DEF x
    <2> QED
        BY <1>1, <1>2, LeftIs
<1>5. Sound(z) /\ Known(z.peer[n]) = {} /\ \A i \in Nodes \ {n} : Keeps(w, z, i)
    <2> HIDE DEF w
    <2> QED
        BY <1>1, <1>2, LeftIs
<1> HIDE DEF y, z
<1>6. y \in NodeType /\ z \in NodeType
    BY <1>4, <1>5 DEF Sound
<1>7. /\ t \in [Nodes -> NodeType] /\ t[n] = y /\ t[m] = z
      /\ \A i \in Nodes \ {n, m} : t[i] = node[i]
    BY <1>1, <1>6
<1> HIDE DEF t
<1>8. \A i \in Nodes : Sound(t[i])
    BY <1>4, <1>5, <1>7 DEF Fine
<1>9. \A i, l \in Nodes : {i, l} # {n, m} => Keeps(node[i], t[i], l)
    <2>1. \A i \in Nodes \ {n, m}, l \in Nodes : Keeps(node[i], t[i], l)
        BY <1>7 DEF Keeps, SameTo
    <2> QED
        BY <1>4, <1>5, <1>7, <2>1
<1>10. ASSUME NEW i \in Nodes PROVE Known(t[i].peer[i]) = {}
    <2>1. Known(node[i].peer[i]) = {} /\ Keeps(node[i], t[i], i)
        BY <1>9 DEF Fine
    <2> QED
        BY <2>1 DEF Keeps, SameTo
<1>11. ASSUME NEW i \in Nodes, NEW l \in Nodes, i # l PROVE Heard(t[l], i, t[i], l)
    <2>1. CASE {i, l} = {n, m}
        <3>1. Known(t[l].peer[i]) = {}
            BY <1>4, <1>5, <1>7, <1>11, <2>1
        <3> QED
            BY <3>1 DEF Heard
    <2>2. CASE {i, l} # {n, m}
        <3>1. Heard(node[l], i, node[i], l)
            BY <1>11 DEF Fine
        <3>2. Keeps(node[i], t[i], l) /\ Keeps(node[l], t[l], i)
            BY <1>9, <2>2
        <3> QED
            BY <3>1, <3>2, HeardStays
    <2> QED
        BY <2>1, <2>2
<1>12. Fine(t)
    BY <1>7, <1>8, <1>10, <1>11 DEF Fine
<1> QED
    BY <1>3, <1>12

\* Requests as time passes
LEMMA LaterIs ==
    ASSUME NEW asks \in Seq(Requests)
    PROVE  Later(asks) \in Seq(Requests) /\ Invs(Later(asks)) = Invs(asks)
<1> DEFINE n == Len(asks)
           r == Later(asks)
<1>1. n \in Nat /\ DOMAIN asks = 1 .. n /\ \A i \in 1 .. n : asks[i] \in Requests
    OBVIOUS
<1>2. ASSUME NEW i \in 1 .. n PROVE r[i] \in Requests /\ r[i].inv = asks[i].inv
    <2> DEFINE e == asks[i]
               time == Earlier(e.time, 0)
    <2>1. e \in Requests /\ r[i] = [e EXCEPT !.time = time]
        BY <1>1 DEF Later
    <2>2. time \in Int
        BY <2>1 DEF Requests, Earlier
    <2> HIDE DEF e, time, r
    <2> QED
        BY <2>1, <2>2 DEF Requests, e
<1>3. DOMAIN r = 1 .. n /\ r = [i \in 1 .. n |-> r[i]]
    BY <1>1 DEF Later
<1> HIDE DEF r
<1>4. r \in [1 .. n -> Requests]
    BY <1>2, <1>3
<1>5. r \in Seq(Requests)
    BY <1>1, <1>4
<1>6. Invs(r) = Invs(asks)
    <2>1. ToSet(r) = {r[i] : i \in 1 .. n} /\ ToSet(asks) = {asks[i] : i \in 1 .. n}
        BY <1>1, <1>3 DEF ToSet
    <2> HIDE DEF n
    <2> QED
        BY <1>2, <2>1 DEF Invs
<1> QED
    BY <1>5, <1>6 DEF r

LaterPeer(p) == [p EXCEPT !.mapAskFor = Later(p.mapAskFor)]

LEMMA LaterPeerIs ==
    ASSUME NEW p \in PeerType
    PROVE  /\ LaterPeer(p) \in PeerType /\ SameTo(p, LaterPeer(p))
           /\ LaterPeer(p).vInventoryToSend = p.vInventoryToSend
<1> DEFINE new == Later(p.mapAskFor)
           q == LaterPeer(p)
<1>1. p.mapAskFor \in Seq(Requests)
    BY PeerFields
<1>2. new \in Seq(Requests) /\ Invs(new) = Invs(p.mapAskFor)
    BY <1>1, LaterIs
<1>3. q = [p EXCEPT !.mapAskFor = new]
    BY DEF LaterPeer
<1> HIDE DEF new, q
<1>4. /\ q \in PeerType /\ q.mapAskFor = new /\ q.out = p.out /\ q.vRecvGetData = p.vRecvGetData
      /\ q.setInventoryKnown = p.setInventoryKnown /\ q.vInventoryToSend = p.vInventoryToSend
    BY <1>2, <1>3 DEF PeerType
<1>5. SameTo(p, q)
    BY <1>2, <1>4 DEF SameTo, Known, Offers, Serves, Asks, Invs
<1> QED
    BY <1>4, <1>5 DEF q

TimesLater(x) == [b \in Blocks |-> Earlier(x.mapAlreadyAskedFor[b], -1)]

PeersLater(x) == [m \in Nodes |-> LaterPeer(x.peer[m])]

NodeLater(x) == [x EXCEPT !.mapAlreadyAskedFor = TimesLater(x), !.peer = PeersLater(x)]

LEMMA NodeLaterIs ==
    ASSUME NEW x, Sound(x)
    PROVE  Sound(NodeLater(x)) /\ \A k \in Nodes : Keeps(x, NodeLater(x), k)
<1> DEFINE times == TimesLater(x)
           peers == PeersLater(x)
           y == NodeLater(x)
<1>1. x \in NodeType /\ \A k \in Nodes : x.peer[k] \in PeerType
    BY NodeFields DEF Sound
<1>2. times \in [Blocks -> Int]
    BY <1>1, NodeFields DEF TimesLater, Earlier
<1>3. /\ peers \in [Nodes -> PeerType]
      /\ \A k \in Nodes : /\ SameTo(x.peer[k], peers[k])
                          /\ peers[k].vInventoryToSend = x.peer[k].vInventoryToSend
    <2>1. \A k \in Nodes : peers[k] = LaterPeer(x.peer[k])
        BY DEF PeersLater
    <2>2. \A k \in Nodes : /\ peers[k] \in PeerType /\ SameTo(x.peer[k], peers[k])
                           /\ peers[k].vInventoryToSend = x.peer[k].vInventoryToSend
        <3> HIDE DEF peers
        <3> QED
            BY <1>1, <2>1, LaterPeerIs
    <2>3. peers = [k \in Nodes |-> peers[k]]
        BY DEF PeersLater
    <2> HIDE DEF peers
    <2> QED
        BY <2>2, <2>3
<1>4. y = [x EXCEPT !.mapAlreadyAskedFor = times, !.peer = peers]
    BY DEF NodeLater
<1> HIDE DEF times, peers, y
<1>5. /\ y \in NodeType /\ y.peer = peers /\ y.mapBlockIndex = x.mapBlockIndex
      /\ y.mapOrphanBlocks = x.mapOrphanBlocks /\ y.pindexBest = x.pindexBest
    BY <1>1, <1>2, <1>3, <1>4 DEF NodeType
<1>6. Sound(y)
    BY <1>3, <1>5 DEF Sound, SameTo
<1>7. \A k \in Nodes : Keeps(x, y, k)
    BY <1>3, <1>5 DEF Keeps, Have
<1> QED
    BY <1>6, <1>7 DEF y

LEMMA TimePassesFine ==
    ASSUME Fine(node), TimePasses
    PROVE  Fine(node')
<1> DEFINE t == [n \in Nodes |-> NodeLater(node[n])]
<1>1. node' = t
    <2> DEFINE new(x) == [x EXCEPT !.mapAlreadyAskedFor = TimesLater(x)]
               Aged(x, y) == [y EXCEPT !.peer = [m \in Nodes |->
                                  [y.peer[m] EXCEPT !.mapAskFor = Later(x.peer[m].mapAskFor)]]]
    <2>1. ASSUME NEW n \in Nodes PROVE Aged(node[n], new(node[n])) = NodeLater(node[n])
        <3> DEFINE x == node[n]
                   y == new(x)
        <3>1. x \in NodeType
            BY DEF Fine
        <3> HIDE DEF x
        <3>2. y.peer = x.peer
            BY <3>1 DEF NodeType
        <3> HIDE DEF new
        <3>3. Aged(x, y) = [y EXCEPT !.peer = PeersLater(x)]
            BY <3>2 DEF PeersLater, LaterPeer
        <3> QED
            BY <3>3 DEF NodeLater, x, new
    <2>2. node' = [n \in Nodes |-> Aged(node[n], new(node[n]))]
        BY DEF TimePasses, TimesLater
    <2> HIDE DEF Aged, new
    <2> QED
        BY <2>1, <2>2
<1>2. ASSUME NEW n \in Nodes
      PROVE  /\ t[n] \in NodeType /\ Sound(t[n])
             /\ \A k \in Nodes : Keeps(node[n], t[n], k)
    <2>1. Sound(node[n])
        BY DEF Fine
    <2>2. Sound(NodeLater(node[n])) /\ \A k \in Nodes : Keeps(node[n], NodeLater(node[n]), k)
        BY <2>1, NodeLaterIs
    <2> QED
        BY <2>2 DEF Sound
<1>3. t \in [Nodes -> NodeType]
    BY <1>2
<1> HIDE DEF t
<1> QED
    BY <1>1, <1>2, <1>3, KeepsAll

LEMMA LinkedApart ==
    ASSUME NEW l \in Linked
    PROVE  l[1] \in Nodes /\ l[2] \in Nodes /\ l[1] # l[2]
<1>1. Links \subseteq Nodes \X Nodes /\ \A n \in Nodes : <<n, n>> \notin Links
    BY BlockSyncAssumption DEF BlockSyncAssumption
<1>2. PICK k \in Links : l = k \/ l = <<k[2], k[1]>>
    BY DEF Linked
<1>3. k \in Nodes \X Nodes /\ k = <<k[1], k[2]>>
    BY <1>1
<1>4. k[1] \in Nodes /\ k[2] \in Nodes /\ k[1] # k[2]
    BY <1>1, <1>3
<1> QED
    BY <1>2, <1>4

LEMMA NextFine ==
    ASSUME Fine(node), [DownloadNext]_downloadVars
    PROVE  Fine(node')
<1>1. CASE UNCHANGED downloadVars
    <2>1. node' = node
        BY <1>1 DEF downloadVars
    <2> QED
        BY <2>1
<1>2. ASSUME NEW l \in Linked, MessageThread(l[1], l[2]) PROVE Fine(node')
    <2> DEFINE n == l[1]
               m == l[2]
    <2>1. n \in Nodes /\ m \in Nodes /\ n # m
        BY LinkedApart
    <2>2. \/ ReceiveVersion(n, m) \/ ReceiveInv(n, m) \/ ReceiveGetBlocks(n, m)
          \/ ReceiveGetData(n, m) \/ ReceiveBlock(n, m) \/ ProcessGetData(n, m)
          \/ SendMessages(n, m) \/ StartSync(n, m)
        BY <1>2 DEF MessageThread
    <2> HIDE DEF n, m
    <2> QED
        BY <2>1, <2>2, ReceiveVersionFine, ReceiveInvFine, ReceiveGetBlocksFine, ReceiveGetDataFine,
           ReceiveBlockFine, ProcessGetDataFine, SendMessagesFine, StartSyncFine
<1>3. ASSUME NEW l \in Linked, Break(l[1], l[2]) PROVE Fine(node')
    <2>1. l[1] \in Nodes /\ l[2] \in Nodes /\ l[1] # l[2]
        BY LinkedApart
    <2> QED
        BY <1>3, <2>1, BreakFine
<1>4. ASSUME NEW n \in Nodes, NEW b \in Blocks, FindBlock(n, b) PROVE Fine(node')
    BY <1>4, FindBlockFine
<1>5. ASSUME TimePasses PROVE Fine(node')
    BY <1>5, TimePassesFine
<1>6. CASE DownloadNext
    BY <1>2, <1>3, <1>4, <1>5, <1>6 DEF DownloadNext
<1> QED
    BY <1>1, <1>6

\* A peer at start
LEMMA NewNodeIs ==
    ASSUME NEW p \in {Closed, NewNode(FALSE), NewNode(TRUE)}, NEW o \in Seq(Messages),
           Carried(o, "inv") = {}, Carried(o, "block") = {}
    PROVE  LET q == [p EXCEPT !.out = o]
           IN  /\ p \in PeerType /\ q \in PeerType
               /\ Known(p) = {} /\ Offers(p) = {} /\ ToSet(p.vInventoryToSend) = {}
               /\ Known(q) = {} /\ Offers(q) = {} /\ ToSet(q.vInventoryToSend) = {}
<1> DEFINE q == [p EXCEPT !.out = o]
           c == Closed
<1>1. c \in PeerType /\ Known(c) = {} /\ Offers(c) = {} /\ ToSet(c.vInventoryToSend) = {}
    BY ClosedIs
<1>2. PICK open \in BOOLEAN, inbound \in BOOLEAN :
          p = c \/ p = [c EXCEPT !.open = open, !.fInbound = inbound]
    BY DEF NewNode
<1> HIDE DEF c
<1>3. p \in PeerType
    BY <1>1, <1>2 DEF PeerType
<1>4. /\ p.out = c.out /\ p.setInventoryKnown = c.setInventoryKnown
      /\ p.vInventoryToSend = c.vInventoryToSend
    BY <1>1, <1>2 DEF PeerType
<1>5. q \in PeerType /\ Known(q) = Known(p) /\ q.vInventoryToSend = p.vInventoryToSend /\ q.out = o
    BY <1>3, OutSet
<1> HIDE DEF q
<1>6. Known(p) = {} /\ Offers(p) = {} /\ ToSet(p.vInventoryToSend) = {}
    BY <1>1, <1>4 DEF Known, Offers
<1>7. Offers(q) = {}
    BY <1>5 DEF Offers
<1> QED
    BY <1>3, <1>5, <1>6, <1>7 DEF q

LEMMA InitFine ==
    ASSUME DownloadInit
    PROVE  Fine(node)
<1>1. node = [n \in Nodes |-> StartingNode(n)]
    BY DEF DownloadInit
<1>2. ASSUME NEW n \in Nodes
      PROVE  Sound(StartingNode(n)) /\ \A k \in Nodes : Known(StartingNode(n).peer[k]) = {}
    <2> DEFINE tip == Tip[n]
               index == Ancestry[tip]
               none == {}
               times == [b \in Blocks |-> -1]
               opened == [m \in Nodes |-> IF <<n, m>> \in Links THEN NewNode(FALSE)
                                          ELSE IF <<m, n>> \in Links THEN NewNode(TRUE) ELSE Closed]
               x == [mapBlockIndex |-> index, mapOrphanBlocks |-> none, pindexBest |-> tip,
                     mapAlreadyAskedFor |-> times, pnodeSync |-> n, peer |-> opened]
               hello == VersionMessage(x)
               o == <<hello>>
               peers == [m \in Nodes |-> IF opened[m].open /\ ~opened[m].fInbound
                                         THEN [opened[m] EXCEPT !.out = o] ELSE opened[m]]
               y == [x EXCEPT !.peer = peers]
    <2>1. tip \in Blocks /\ Height[tip] \in Nat
        BY BlockSyncAssumption, BlockTreeAssumption DEF BlockSyncAssumption
    <2>2. /\ index \in SUBSET Blocks /\ tip \in index
          /\ \A b \in index : Ancestry[b] \subseteq index
        <3> HIDE DEF tip
        <3>1. index \in SUBSET Blocks /\ tip \in index
            BY <2>1, SelfOnChain
        <3> QED
            BY <2>1, <3>1, OnChain
    <2>3. y = StartingNode(n)
        BY DEF StartingNode
    <2>4. \A m \in Nodes : opened[m] \in {Closed, NewNode(FALSE), NewNode(TRUE)}
        OBVIOUS
    <2>5. o \in Seq(Messages) /\ Carried(o, "inv") = {} /\ Carried(o, "block") = {}
        <3>1. hello = [type |-> "version", height |-> Height[tip]]
            BY DEF VersionMessage
        <3> HIDE DEF tip, hello
        <3>2. hello \in Messages /\ Load(hello, "inv") = {} /\ Load(hello, "block") = {}
            BY <2>1, <3>1, MessageTypes DEF Load
        <3> DEFINE start == <<>>
        <3>3. o = Append(start, hello) /\ start \in Seq(Messages) /\ \A type : Carried(start, type) = {}
            BY CarriedNone
        <3> HIDE DEF o, start
        <3>4. \A type : Carried(o, type) = Carried(start, type) \cup Load(hello, type)
            BY <3>3, CarriedAppend
        <3>5. o \in Seq(Messages)
            BY <3>2, <3>3
        <3> QED
            BY <3>2, <3>3, <3>4, <3>5
    <2> HIDE DEF opened, o
    <2>6. \A m \in Nodes : peers[m] \in {opened[m], [opened[m] EXCEPT !.out = o]}
        OBVIOUS
    <2>7. \A m \in Nodes : /\ peers[m] \in PeerType /\ Known(peers[m]) = {}
                           /\ Offers(peers[m]) = {} /\ ToSet(peers[m].vInventoryToSend) = {}
        <3> HIDE DEF peers
        <3> SUFFICES ASSUME NEW m \in Nodes
                     PROVE  /\ peers[m] \in PeerType /\ Known(peers[m]) = {}
                            /\ Offers(peers[m]) = {} /\ ToSet(peers[m].vInventoryToSend) = {}
            OBVIOUS
        <3> DEFINE p == opened[m]
                   q == [p EXCEPT !.out = o]
        <3>1. p \in {Closed, NewNode(FALSE), NewNode(TRUE)}
            BY <2>4
        <3>2. peers[m] \in {p, q}
            BY <2>6
        <3> HIDE DEF p
        <3>3. /\ p \in PeerType /\ q \in PeerType
              /\ Known(p) = {} /\ Offers(p) = {} /\ ToSet(p.vInventoryToSend) = {}
              /\ Known(q) = {} /\ Offers(q) = {} /\ ToSet(q.vInventoryToSend) = {}
            BY <2>5, <3>1, NewNodeIs
        <3> HIDE DEF q
        <3> QED
            BY <3>2, <3>3
    <2>8. peers \in [Nodes -> PeerType]
        <3>1. peers = [m \in Nodes |-> peers[m]]
            OBVIOUS
        <3> HIDE DEF peers
        <3> QED
            BY <2>7, <3>1
    <2>9. times \in [Blocks -> Int] /\ none \in SUBSET Blocks /\ IsFiniteSet(none)
        BY FS_EmptySet
    <2>10. y = [mapBlockIndex |-> index, mapOrphanBlocks |-> none, pindexBest |-> tip,
                mapAlreadyAskedFor |-> times, pnodeSync |-> n, peer |-> peers]
        <3> HIDE DEF index, none, tip, times, peers
        <3> QED
            OBVIOUS
    <2> HIDE DEF index, none, tip, times, peers, y
    <2>11. /\ y \in NodeType /\ y.peer = peers /\ y.mapBlockIndex = index
           /\ y.mapOrphanBlocks = none /\ y.pindexBest = tip
        BY <2>1, <2>2, <2>8, <2>9, <2>10 DEF NodeType
    <2>12. Sound(y)
        BY <2>2, <2>7, <2>9, <2>11 DEF Sound
    <2> QED
        BY <2>3, <2>7, <2>11, <2>12
<1>3. node \in [Nodes -> NodeType] /\ \A n \in Nodes : node[n] = StartingNode(n)
    <2>1. \A n \in Nodes : StartingNode(n) \in NodeType
        BY <1>2 DEF Sound
    <2> QED
        BY <1>1, <2>1
<1>4. \A n \in Nodes : Sound(node[n]) /\ \A k \in Nodes : Known(node[n].peer[k]) = {}
    BY <1>2, <1>3
<1>5. \A n, m \in Nodes : Heard(node[m], n, node[n], m)
    BY <1>4 DEF Heard
<1> QED
    BY <1>3, <1>4, <1>5 DEF Fine

\* What every node has been told is not forgotten.
LEMMA FineIsEnough ==
    ASSUME Fine(node)
    PROVE  AnnouncedIsNotForgotten
<1> SUFFICES ASSUME NEW n \in Nodes, NEW m \in Nodes
             PROVE  node[m].peer[n].setInventoryKnown \subseteq
                        Have(node[n]) \cup UnderWay(m, n, "inv") \cup UnderWay(n, m, "getdata")
                        \cup UnderWay(m, n, "block") \cup ToSet(node[m].peer[n].vRecvGetData)
                        \cup {ask.inv : ask \in ToSet(node[n].peer[m].mapAskFor)}
    BY DEF AnnouncedIsNotForgotten
<1> DEFINE p == node[m].peer[n]
           q == node[n].peer[m]
<1>1. Known(p) \subseteq Have(node[n]) \cup Offers(p) \cup Serves(p) \cup Asks(q)
    <2>1. CASE n = m
        BY <2>1 DEF Fine
    <2>2. CASE n # m
        BY <2>2 DEF Fine, Heard
    <2> QED
        BY <2>1, <2>2
<1> QED
    BY <1>1 DEF Known, Offers, Serves, Asks, UnderWay

\* No block that a node was told of is forgotten, by whatever nodes, links and chains:
\* the announcements, requests and retries of all peers may come in any order, links may
\* break between any two messages, and blocks are found meanwhile.
THEOREM AnnouncedIsNeverForgotten == DownloadSpec => []AnnouncedIsNotForgotten
<1>1. DownloadInit => Fine(node)
    BY InitFine
<1>2. Fine(node) /\ [DownloadNext]_downloadVars => Fine(node)'
    BY NextFine
<1>3. Fine(node) => AnnouncedIsNotForgotten
    BY FineIsEnough
<1> QED
    BY <1>1, <1>2, <1>3, PTL DEF DownloadSpec
=============================================================================
