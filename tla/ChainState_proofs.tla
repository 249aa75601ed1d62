-------------------------- MODULE ChainState_proofs --------------------------
(***************************************************************************)
(* Theorems about ChainState, for every tree of blocks, every set of       *)
(* transactions and every mode of failure.                                 *)
(*                                                                         *)
(* The first part leaves open what the coins of a view contain.  IInv is   *)
(* its inductive invariant.  IndexInv and TipInv say of which blocks each  *)
(* variable may speak; DiskInv, LinkInv and WorkInv strengthen             *)
(* RestartFindsChain, MainChainLinks and OnlyMoreWork to the states in the *)
(* middle of a handler.                                                    *)
(*                                                                         *)
(* The second part shows that the coins in every layer of the caches are   *)
(* those of the layer's chain: while SetBestChain disconnects and          *)
(* connects, after a flush, a full disk or a shutdown, and in whatever a   *)
(* crash or a power failure leaves on disk.  DataInv is its inductive      *)
(* invariant.  SavedMatch, TipMatch and ViewMatch are CoinsMatchChain with *)
(* what a step needs besides: coins in their normal form, and chains that  *)
(* end in known blocks.  UndoMatch says that undo data is always that of   *)
(* the block, UndoKept that no chain the node can be at, now or after a    *)
(* failure, lacks it.  MoneyInv adds what the index says of the money      *)
(* supply.                                                                 *)
(*                                                                         *)
(* The third part is what the node promises with its best block: it        *)
(* implements Ledger, it only marks invalid blocks as failed, and when it  *)
(* is idle no clean block has more work than the best one.  Which blocks   *)
(* are valid is said by Utxo; VerdictsExact, that ConnectBlock finds just  *)
(* these valid, is all it needs of the coins.  CacheInv relates the coin   *)
(* cache to the best block when a full disk has stopped SetBestChain       *)
(* between the two.  ValidInv says where only valid blocks, or only        *)
(* invalid ones, may stand.  CandidateInv, BoundInv and HeavierInv follow  *)
(* ConnectBestBlock: every block not marked failed is a candidate, none    *)
(* has more work than the last block to switch to, and at most one clean   *)
(* block is heavier than the best one.                                     *)
(***************************************************************************)
EXTENDS ChainProperties, Coins_proofs

Entry(e) ==
    e = [fScripts |-> e.fScripts, fFailedValid |-> e.fFailedValid,
         fFailedChild |-> e.fFailedChild, undo |-> e.undo,
         nMoneySupply |-> e.nMoneySupply]

\* A block tree holds the ancestors of each of its blocks.
Tree(tree) ==
    /\ tree = [b \in DOMAIN tree |-> tree[b]]
    /\ DOMAIN tree \subseteq Blocks
    /\ \A b \in DOMAIN tree : Entry(tree[b]) /\ Ancestry[b] \subseteq DOMAIN tree

IndexInv ==
    /\ \A tree \in treeImages : Tree(tree)
    /\ mapBlockIndex \in treeImages
    /\ setBlockIndexValid \subseteq Indexed
    /\ NoFailedCandidate

TipInv ==
    /\ pcoinsTip.pindexTip \in Indexed \cup {NoBlock}
    /\ pindexBest \in Indexed \cup {NoBlock}
    /\ pindexNew \in Indexed \cup {NoBlock}
    /\ vAttach \subseteq Indexed
    /\ pc = "off" => pindexBest = NoBlock
    /\ pc \in {"chain", "update"} => pindexNew \in Indexed

DiskInv ==
    /\ coinsDB \in coinsImages
    /\ RestartFindsChain
    /\ ~PowerLoss => treeImages = {mapBlockIndex}
    /\ PowerLoss => pcoinsTip.pindexTip \in {NoBlock, coinsDB.hashBestChain}

LinkInv ==
    pc # "off" /\ ~fRequestShutdown =>
        /\ pnext = MainChainTo(pindexBest)
        /\ pcoinsTip.pindexTip = IF pc = "update" THEN pindexNew ELSE pindexBest
        /\ pc \in {"chain", "update"} =>
            LET fork == ForkOf(pindexBest, pindexNew)
            IN  /\ vDisconnect = ChainOf(pindexBest) \ ChainOf(fork)
                /\ vConnect = ChainOf(pindexNew) \ ChainOf(fork)

WorkInv ==
    /\ \A a, b \in vAttach : Height[a] <= Height[b] => a = b \/ ChainWork[a] < ChainWork[b]
    /\ pc \in {"switch", "chain", "update"} \/ hashCheckpoint = NoBlock
    /\ hashCheckpoint = NoBlock \/ fEnforced
    /\ pc = "switch" => \A a \in vAttach : a = hashCheckpoint \/ BetterThanBest(a)
    /\ pc \in {"chain", "update"} =>
        /\ pindexNew = hashCheckpoint \/ BetterThanBest(pindexNew)
        /\ \A a \in vAttach : ChainWork[pindexNew] < ChainWork[a]

IInv == IndexInv /\ TipInv /\ DiskInv /\ LinkInv /\ WorkInv

-----------------------------------------------------------------------------
\* The initial state

\* The invariant holds of a fresh data directory.
LEMMA InitInv == Init => IInv
<1> SUFFICES ASSUME Init PROVE IInv
    OBVIOUS
<1> USE DEF Init, Cache, EmptyCache
<1>1. IndexInv
    BY DEF IndexInv, Tree, NoFailedCandidate, Indexed
<1>2. TipInv
    BY DEF TipInv
<1>3. DiskInv
    BY DEF DiskInv, RestartFindsChain, EmptyDB, ChainOf
<1>4. LinkInv
    BY DEF LinkInv
<1>5. WorkInv
    BY DEF WorkInv
<1> QED
    BY <1>1, <1>2, <1>3, <1>4, <1>5 DEF IInv

-----------------------------------------------------------------------------
\* The block index

\* A tree written over the indexed one keeps the index well formed.
LEMMA WriteTreeInv ==
    ASSUME IndexInv, NEW tree, Tree(tree), Indexed \subseteq DOMAIN tree, WriteTree(tree)
    PROVE  /\ \A t \in treeImages' : Tree(t)
           /\ mapBlockIndex' \in treeImages'
           /\ Indexed' = DOMAIN tree
BY DEF IndexInv, WriteTree, Indexed

\* AddToBlockIndex keeps parents before children, and adds no failed candidate.
LEMMA AddBlockInv ==
    ASSUME NEW tree, Tree(tree), NEW b \in Blocks, Ancestry[b] \subseteq DOMAIN tree \cup {b}
    PROVE  /\ Tree(AddToBlockIndex(tree, b))
           /\ DOMAIN AddToBlockIndex(tree, b) = DOMAIN tree \cup {b}
           /\ \A c \in DOMAIN tree \ {b} : AddToBlockIndex(tree, b)[c] = tree[c]
           /\ ~Failed(AddToBlockIndex(tree, b)[b])
BY DEF Tree, Entry, NewIndex, Failed, AddToBlockIndex

\* A tree in which only the entry of b has changed.
Rewritten(tree, b) ==
    /\ Tree(tree)
    /\ DOMAIN tree = Indexed
    /\ \A c \in Indexed \ {b} : tree[c] = mapBlockIndex[c]

\* Writing such a tree keeps the index well formed, if b is no candidate any more or
\* was not marked failed.
LEMMA RewrittenStep ==
    ASSUME IndexInv, NEW tree, NEW b, Rewritten(tree, b), WriteTree(tree),
           \/ setBlockIndexValid' = setBlockIndexValid \ {b}
           \/ /\ setBlockIndexValid' = setBlockIndexValid
              /\ b \in Indexed => Failed(tree[b]) = Failed(mapBlockIndex[b])
    PROVE  IndexInv'
<1>1. /\ \A t \in treeImages' : Tree(t)
      /\ mapBlockIndex' \in treeImages'
      /\ Indexed' = Indexed
    BY WriteTreeInv DEF Rewritten
<1>2. mapBlockIndex' = tree
    BY DEF WriteTree
<1> QED
    BY <1>1, <1>2 DEF IndexInv, NoFailedCandidate, Rewritten

\* Every action keeps the index, the candidates and the images of the tree consistent.
LEMMA IndexStep == IInv /\ Next => IndexInv'
<1> SUFFICES ASSUME IInv, Next PROVE IndexInv'
    OBVIOUS
<1>0. IndexInv /\ Tree(mapBlockIndex)
    BY DEF IInv, IndexInv
<1>1. CASE Start
    <2> DEFINE tree == IF Genesis \in Indexed THEN mapBlockIndex
                       ELSE AddToBlockIndex(mapBlockIndex, Genesis)
    <2>1. Tree(tree)
        BY <1>0, AddBlockInv, GenesisAssumption, BlockTreeAssumption
    <2> QED
        BY <1>0, <1>1, <2>1 DEF Start, IndexInv, NoFailedCandidate, Candidates, Indexed
<1>2. ASSUME NEW b \in Blocks, AcceptBlock(b) PROVE IndexInv'
    <2> DEFINE tree == AddToBlockIndex(mapBlockIndex, b)
    <2>1. Ancestry[b] \subseteq DOMAIN mapBlockIndex \cup {b}
        <3>1. CASE b = Genesis
            BY <3>1, GenesisAssumption
        <3>2. CASE b # Genesis
            BY <3>2, <1>0, <1>2, ChildAssumption DEF AcceptBlock, Tree, Indexed
        <3> QED
            BY <3>1, <3>2
    <2>2. /\ Tree(tree)
          /\ DOMAIN tree = DOMAIN mapBlockIndex \cup {b}
          /\ \A c \in DOMAIN mapBlockIndex \ {b} : tree[c] = mapBlockIndex[c]
          /\ ~Failed(tree[b])
        BY <1>0, <2>1, AddBlockInv
    <2> HIDE DEF tree
    <2>3. WriteTree(tree) /\ setBlockIndexValid' = setBlockIndexValid \cup {b}
        BY <1>2 DEF AcceptBlock, tree
    <2>4. /\ \A t \in treeImages' : Tree(t)
          /\ mapBlockIndex' \in treeImages'
          /\ Indexed' = DOMAIN tree
        BY <2>2, <2>3, WriteTreeInv DEF IInv, Indexed
    <2>5. mapBlockIndex' = tree
        BY <2>3 DEF WriteTree
    <2> QED
        BY <2>2, <2>3, <2>4, <2>5, <1>2
        DEF IInv, IndexInv, NoFailedCandidate, Indexed, AcceptBlock
<1>3. CASE MarkFailedChild
    <2>1. PICK b \in vAttach :
            /\ WriteTree([mapBlockIndex EXCEPT ![b].fFailedChild = TRUE])
            /\ setBlockIndexValid' = setBlockIndexValid \ {b}
        BY <1>3 DEF MarkFailedChild
    <2> DEFINE tree == [mapBlockIndex EXCEPT ![b].fFailedChild = TRUE]
    <2> HIDE DEF tree
    <2>2. Rewritten(tree, b)
        BY <1>0 DEF tree, Rewritten, Tree, Entry, Indexed
    <2>3. WriteTree(tree)
        BY <2>1 DEF tree
    <2> QED
        BY <1>0, <2>1, <2>2, <2>3, RewrittenStep
<1>4. ASSUME NEW b \in Blocks, Connect(b) PROVE IndexInv'
    <2> DEFINE nMoneySupply == MoneySupply(b, ConnectBlock(ViewCoins, b))
               vtxundo == ConnectBlock(ViewCoins, b).vtxundo
               tree == [mapBlockIndex EXCEPT
                            ![b].nMoneySupply = nMoneySupply,
                            ![b].undo = IF @ = NoUndo THEN vtxundo ELSE @,
                            ![b].fScripts = TRUE]
    <2>1. WriteTree(tree) /\ setBlockIndexValid' = setBlockIndexValid
        BY <1>4 DEF Connect
    <2> HIDE DEF nMoneySupply, vtxundo
    <2>2. Rewritten(tree, b)
        BY <1>0 DEF Rewritten, Tree, Entry, Indexed
    <2>3. ASSUME b \in Indexed
          PROVE  /\ tree[b].fFailedValid = mapBlockIndex[b].fFailedValid
                 /\ tree[b].fFailedChild = mapBlockIndex[b].fFailedChild
        <3>1. Entry(mapBlockIndex[b])
            BY <1>0, <2>3 DEF Tree, Indexed
        <3>2. tree[b] = [mapBlockIndex[b] EXCEPT
                            !.nMoneySupply = nMoneySupply,
                            !.undo = IF @ = NoUndo THEN vtxundo ELSE @,
                            !.fScripts = TRUE]
            BY <2>3 DEF Indexed
        <3> HIDE DEF tree
        <3> QED
            BY <3>1, <3>2 DEF Entry
    <2>4. b \in Indexed => Failed(tree[b]) = Failed(mapBlockIndex[b])
        BY <2>3 DEF Failed
    <2> HIDE DEF tree
    <2> QED
        BY <1>0, <2>1, <2>2, <2>4, RewrittenStep
<1>5. ASSUME NEW b \in Blocks, ConnectFails(b) PROVE IndexInv'
    <2> DEFINE connected == ConnectBlock(ViewCoins, b)
               nMoneySupply == MoneySupply(b, connected)
               tree == [mapBlockIndex EXCEPT
                            ![b].nMoneySupply = IF connected.fOk THEN nMoneySupply ELSE @,
                            ![b].fFailedValid = TRUE]
    <2>1. WriteTree(tree) /\ setBlockIndexValid' = setBlockIndexValid \ {b}
        BY <1>5 DEF ConnectFails
    <2> HIDE DEF nMoneySupply, connected
    <2>2. Rewritten(tree, b)
        BY <1>0 DEF Rewritten, Tree, Entry, Indexed
    <2> HIDE DEF tree
    <2> QED
        BY <1>0, <2>1, <2>2, RewrittenStep
<1>6. ASSUME NEW b \in Blocks, ConnectDiskFull(b) \/ InterruptConnect(b) PROVE IndexInv'
    <2> DEFINE nMoneySupply == MoneySupply(b, ConnectBlock(ViewCoins, b))
               tree == [mapBlockIndex EXCEPT ![b].nMoneySupply = nMoneySupply]
    <2>1. WriteTree(tree) /\ setBlockIndexValid' = setBlockIndexValid
        BY <1>6 DEF ConnectDiskFull, InterruptConnect
    <2> HIDE DEF nMoneySupply
    <2>2. Rewritten(tree, b) /\ (b \in Indexed => Failed(tree[b]) = Failed(mapBlockIndex[b]))
        BY <1>0 DEF Rewritten, Tree, Entry, Failed, Indexed
    <2> HIDE DEF tree
    <2> QED
        BY <1>0, <2>1, <2>2, RewrittenStep
<1>7. CASE Shutdown
    BY <1>7 DEF Shutdown, PowerOff, IInv, IndexInv, NoFailedCandidate, Indexed
<1>8. CASE Crash
    BY <1>8 DEF Crash, PowerOff, IInv, IndexInv, NoFailedCandidate, Indexed
<1>9. ASSUME NEW fFlush \in FlushModes, FlushView(fFlush) PROVE IndexInv'
    BY <1>9 DEF FlushView, WriteCoins, IInv, IndexInv, NoFailedCandidate, Indexed, index, disk
<1>10. CASE UNCHANGED <<index, treeImages>>
    BY <1>10 DEF IInv, IndexInv, NoFailedCandidate, Indexed, index
<1> QED
    BY <1>1, <1>2, <1>3, <1>4, <1>5, <1>6, <1>7, <1>8, <1>9, <1>10
    DEF Next, HandlerStep, NoBetterBlock, MarkedAll, SwitchedAll, FindFailed, Attach,
        Interrupt, BeginSwitch, Disconnect, ConnectGenesis, FlushDiskFull, UpdateMemory,
        StartShutdown, EnforceCheckpoint, disk

\* Only a failure takes blocks out of the index.
LEMMA IndexGrows == IInv /\ Next => Indexed \subseteq Indexed' \/ Crash
<1> SUFFICES ASSUME IInv, Next, ~Crash PROVE Indexed \subseteq Indexed'
    OBVIOUS
<1>1. CASE Start
    BY <1>1 DEF Start, AddToBlockIndex, Indexed
<1>2. ASSUME NEW b \in Blocks, AcceptBlock(b) PROVE Indexed \subseteq Indexed'
    BY <1>2 DEF AcceptBlock, WriteTree, AddToBlockIndex, Indexed
<1>3. CASE MarkFailedChild
    BY <1>3 DEF MarkFailedChild, WriteTree, Indexed
<1>4. ASSUME NEW b \in Blocks, Connect(b) \/ ConnectFails(b) \/ ConnectDiskFull(b) \/ InterruptConnect(b)
      PROVE  Indexed \subseteq Indexed'
    BY <1>4 DEF Connect, ConnectFails, ConnectDiskFull, InterruptConnect, WriteTree, Indexed
<1>5. CASE UNCHANGED mapBlockIndex
    BY <1>5 DEF Indexed
<1> QED
    BY <1>1, <1>2, <1>3, <1>4, <1>5
    DEF Next, HandlerStep, NoBetterBlock, MarkedAll, SwitchedAll, FindFailed, Attach,
        Interrupt, BeginSwitch, Disconnect, ConnectGenesis, FlushView, FlushDiskFull,
        UpdateMemory, StartShutdown, Shutdown, EnforceCheckpoint, index

\* The blocks of ConnectBestBlock's walk are indexed.
LEMMA WalkIndexed ==
    ASSUME IInv, NEW b \in BestCandidates
    PROVE  b \in Indexed /\ WalkFrom(b) \subseteq Indexed /\ WalkFrom(b) \subseteq Ancestry[b]
<1>1. b \in Indexed /\ Tree(mapBlockIndex)
    BY DEF IInv, IndexInv, BestCandidates
<1>2. b # NoBlock
    BY <1>1, BlockTreeAssumption DEF Tree, Indexed
<1> QED
    BY <1>1, <1>2 DEF WalkFrom, ChainOf, Tree, Indexed

-----------------------------------------------------------------------------
\* The blocks the variables speak of

\* Every action keeps the tip of the coin cache in step with the best block.
LEMMA TipStep == IInv /\ Next => TipInv'
<1> SUFFICES ASSUME IInv, Next PROVE TipInv'
    OBVIOUS
<1>0. /\ TipInv
      /\ Tree(mapBlockIndex)
      /\ Indexed \subseteq Blocks
    BY DEF IInv, IndexInv, Tree, Indexed
<1>1. Indexed \subseteq Indexed' \/ Crash
    BY IndexGrows
<1>2. CASE Start
    BY <1>0, <1>1, <1>2 DEF Start, TipInv, EmptyCache, Cache, Crash, PowerOff, handler
<1>3. ASSUME NEW b \in Blocks, AcceptBlock(b) PROVE TipInv'
    BY <1>0, <1>1, <1>3 DEF AcceptBlock, TipInv, Crash, PowerOff, handler, memory
<1>4. ASSUME NEW b \in Blocks, FindFailed(b) \/ Attach(b) PROVE TipInv'
    <2>1. WalkFrom(b) \subseteq Indexed
        BY <1>4, WalkIndexed DEF FindFailed, Attach
    <2>2. vAttach' \subseteq Indexed
        BY <1>4, <2>1 DEF FindFailed, Attach
    <2> QED
        BY <1>0, <1>4, <2>2
        DEF FindFailed, Attach, TipInv, index, memory, Indexed
<1>5. CASE BeginSwitch
    <2>1. Lowest(vAttach) \in Indexed
        BY <1>0, <1>5, LowestProperty DEF BeginSwitch, TipInv
    <2> QED
        BY <1>0, <1>5, <2>1 DEF BeginSwitch, TipInv, index, memory, Indexed
<1>6. ASSUME NEW fFlush \in FlushModes, FlushView(fFlush) PROVE TipInv'
    <2>1. pcoinsTip'.pindexTip = pindexNew
        BY <1>6 DEF FlushView, BatchWrite, EmptyCache, Cache
    <2> QED
        BY <1>0, <1>6, <2>1 DEF FlushView, TipInv, index, memory, handler, Indexed
<1>7. CASE FlushDiskFull
    <2>1. pcoinsTip'.pindexTip = pindexNew
        BY <1>7 DEF FlushDiskFull, BatchWrite, Cache
    <2> QED
        BY <1>0, <1>7, <2>1 DEF FlushDiskFull, ReturnDiskFull, TipInv, index, memory, Indexed
<1>8. CASE UpdateMemory
    BY <1>0, <1>8 DEF UpdateMemory, TipInv, index, Indexed
<1>9. CASE Shutdown \/ Crash
    BY <1>9 DEF Shutdown, Crash, PowerOff, TipInv, EmptyCache, Cache
<1>10. ASSUME NEW b \in Blocks, ConnectFails(b) \/ ConnectDiskFull(b) \/ InterruptConnect(b)
      PROVE  TipInv'
    BY <1>0, <1>1, <1>10
    DEF ConnectFails, ConnectDiskFull, InterruptConnect, Return, ReturnDiskFull, TipInv,
        memory, Crash, PowerOff
<1>11. ASSUME NEW b \in Blocks, Connect(b) PROVE TipInv'
    BY <1>0, <1>1, <1>11 DEF Connect, Connecting, TipInv, memory, Crash, PowerOff
<1>12. CASE MarkFailedChild
    BY <1>0, <1>1, <1>12 DEF MarkFailedChild, TipInv, memory, Crash, PowerOff
<1>13. CASE NoBetterBlock \/ SwitchedAll \/ Interrupt
    BY <1>0, <1>13 DEF NoBetterBlock, SwitchedAll, Interrupt, Return, TipInv, index, memory, Indexed
<1>14. CASE MarkedAll \/ Disconnect \/ ConnectGenesis \/ StartShutdown
    BY <1>0, <1>14
    DEF MarkedAll, Disconnect, ConnectGenesis, Connecting, StartShutdown,
        TipInv, index, memory, handler, Indexed
<1>15. ASSUME NEW b \in Blocks, EnforceCheckpoint(b) PROVE TipInv'
    BY <1>0, <1>15 DEF EnforceCheckpoint, TipInv, index, memory, Indexed
<1> QED
    BY <1>2, <1>3, <1>4, <1>5, <1>6, <1>7, <1>8, <1>9, <1>10, <1>11, <1>12, <1>13, <1>14,
       <1>15
    DEF Next, HandlerStep

-----------------------------------------------------------------------------
\* What a failure leaves on disk

\* The chain of an indexed tip lies in the index.
LEMMA TipChainIndexed ==
    ASSUME IInv, NEW tip \in Indexed \cup {NoBlock}
    PROVE  ChainOf(tip) \subseteq Indexed
BY DEF IInv, IndexInv, Tree, ChainOf, Indexed

\* Writing a larger tree keeps what the saved chains need.
LEMMA DiskTreeWritten ==
    ASSUME IInv, NEW tree, Indexed \subseteq DOMAIN tree, WriteTree(tree),
           UNCHANGED <<coinsDB, coinsImages>>,
           PowerLoss => pcoinsTip'.pindexTip \in {pcoinsTip.pindexTip, NoBlock}
    PROVE  DiskInv'
BY DEF IInv, IndexInv, DiskInv, RestartFindsChain, WriteTree, Indexed

\* Saving the coins of an indexed tip, once the tree on disk is the index itself.
LEMMA DiskCoinsWritten ==
    ASSUME IInv, NEW cache, cache.pindexTip \in Indexed \cup {NoBlock},
           WriteCoins(DBBatchWrite(coinsDB, cache)),
           mapBlockIndex' = mapBlockIndex, treeImages' = {mapBlockIndex},
           PowerLoss => pcoinsTip'.pindexTip \in {cache.pindexTip, NoBlock}
    PROVE  DiskInv'
<1>1. coinsDB'.hashBestChain \in {coinsDB.hashBestChain, cache.pindexTip}
    BY DEF WriteCoins, DBBatchWrite
<1>2. cache.pindexTip # NoBlock => coinsDB'.hashBestChain = cache.pindexTip
    BY DEF WriteCoins, DBBatchWrite
<1>3. ChainOf(cache.pindexTip) \subseteq Indexed
    BY TipChainIndexed
<1>4. coinsImages' \subseteq coinsImages \cup {coinsDB'} /\ coinsDB' \in coinsImages'
    BY DEF WriteCoins
<1>5. RestartFindsChain'
    BY <1>1, <1>3, <1>4 DEF IInv, IndexInv, DiskInv, RestartFindsChain, Indexed
<1> QED
    BY <1>2, <1>4, <1>5 DEF DiskInv

\* Every action leaves the chain of each coin image inside each tree image.
LEMMA DiskStep == IInv /\ Next => DiskInv'
<1> SUFFICES ASSUME IInv, Next PROVE DiskInv'
    OBVIOUS
<1>0. DiskInv /\ TipInv /\ IndexInv
    BY DEF IInv
<1>1. CASE Start
    <2> DEFINE tree == IF Genesis \in Indexed THEN mapBlockIndex
                       ELSE AddToBlockIndex(mapBlockIndex, Genesis)
    <2>1. Indexed \subseteq DOMAIN tree
        BY DEF AddToBlockIndex, Indexed
    <2>2. /\ mapBlockIndex' = tree
          /\ treeImages' = IF PowerLoss THEN {mapBlockIndex, tree} ELSE {tree}
          /\ coinsImages' = {coinsDB} /\ coinsDB' = coinsDB
          /\ pcoinsTip'.pindexTip \in {coinsDB.hashBestChain, NoBlock}
        BY <1>1 DEF Start, EmptyCache, Cache
    <2> HIDE DEF tree
    <2> QED
        BY <1>0, <2>1, <2>2 DEF DiskInv, IndexInv, RestartFindsChain, Indexed
<1>2. ASSUME NEW b \in Blocks, AcceptBlock(b) PROVE DiskInv'
    <2>1. Indexed \subseteq DOMAIN AddToBlockIndex(mapBlockIndex, b)
        BY DEF AddToBlockIndex, Indexed
    <2> QED
        BY <1>2, <2>1, DiskTreeWritten DEF AcceptBlock
<1>3. CASE MarkFailedChild
    <2>1. PICK b \in vAttach : WriteTree([mapBlockIndex EXCEPT ![b].fFailedChild = TRUE])
        BY <1>3 DEF MarkFailedChild
    <2>2. Indexed \subseteq DOMAIN [mapBlockIndex EXCEPT ![b].fFailedChild = TRUE]
        BY DEF Indexed
    <2> QED
        BY <1>3, <2>1, <2>2, DiskTreeWritten DEF MarkFailedChild
<1>4. ASSUME NEW b \in Blocks, Connect(b) \/ ConnectFails(b) \/ ConnectDiskFull(b) \/ InterruptConnect(b)
      PROVE  DiskInv'
    <2>1. PICK tree : Indexed \subseteq DOMAIN tree /\ WriteTree(tree)
        BY <1>4 DEF Connect, ConnectFails, ConnectDiskFull, InterruptConnect, Indexed
    <2>2. UNCHANGED <<coinsDB, coinsImages, pcoinsTip>>
        BY <1>4 DEF Connect, ConnectFails, ConnectDiskFull, InterruptConnect
    <2> QED
        BY <2>1, <2>2, DiskTreeWritten
<1>5. ASSUME NEW fFlush \in FlushModes, FlushView(fFlush) PROVE DiskInv'
    <2> DEFINE tip == BatchWrite(pcoinsTip, view)
    <2>1. tip.pindexTip = pindexNew /\ pindexNew \in Indexed
        BY <1>0, <1>5 DEF FlushView, BatchWrite, Cache, TipInv
    <2>2. CASE fFlush
        <3>1. /\ WriteCoins(DBBatchWrite(coinsDB, tip))
              /\ treeImages' = {mapBlockIndex}
              /\ mapBlockIndex' = mapBlockIndex
              /\ pcoinsTip'.pindexTip = tip.pindexTip
            BY <1>5, <2>2 DEF FlushView, EmptyCache, Cache, index
        <3> HIDE DEF tip
        <3> QED
            BY <2>1, <3>1, DiskCoinsWritten
    <2>3. CASE ~fFlush
        <3>1. ~PowerLoss
            BY <2>3, ModeAssumption
        <3> QED
            BY <1>0, <1>5, <2>3, <3>1
            DEF FlushView, DiskInv, RestartFindsChain, index, disk
    <2> QED
        BY <2>2, <2>3
<1>6. CASE FlushDiskFull
    <2>1. ~PowerLoss
        BY <1>6, ModeAssumption DEF FlushDiskFull, ReturnDiskFull
    <2> QED
        BY <1>0, <1>6, <2>1 DEF FlushDiskFull, DiskInv, RestartFindsChain, index, disk
<1>7. CASE Shutdown
    <2>1. CASE PowerLoss
        <3>1. coinsDB'.hashBestChain = coinsDB.hashBestChain
            BY <1>0, <1>7, <2>1 DEF Shutdown, WriteCoins, DBBatchWrite, DiskInv
        <3>2. coinsImages' \subseteq coinsImages \cup {coinsDB'} /\ coinsDB' \in coinsImages'
            BY <1>7 DEF Shutdown, WriteCoins
        <3>3. treeImages' = treeImages /\ pcoinsTip'.pindexTip = NoBlock
            BY <1>7 DEF Shutdown, PowerOff, EmptyCache, Cache
        <3>4. RestartFindsChain'
            BY <1>0, <3>1, <3>2, <3>3 DEF DiskInv, RestartFindsChain
        <3> QED
            BY <2>1, <3>2, <3>3, <3>4 DEF DiskInv
    <2>2. CASE ~PowerLoss
        <3>1. /\ WriteCoins(DBBatchWrite(coinsDB, pcoinsTip))
              /\ mapBlockIndex' = mapBlockIndex
              /\ treeImages' = {mapBlockIndex}
            BY <1>0, <1>7, <2>2 DEF Shutdown, DiskInv
        <3>2. pcoinsTip.pindexTip \in Indexed \cup {NoBlock}
            BY <1>0 DEF TipInv
        <3> QED
            BY <2>2, <3>1, <3>2, DiskCoinsWritten
    <2> QED
        BY <2>1, <2>2
<1>8. CASE Crash
    <2>1. PICK tree \in treeImages, db \in coinsImages :
            /\ mapBlockIndex' = tree /\ treeImages' = {tree}
            /\ coinsDB' = db /\ coinsImages' = {db}
        BY <1>8 DEF Crash
    <2>2. pcoinsTip'.pindexTip = NoBlock
        BY <1>8 DEF Crash, PowerOff, EmptyCache, Cache
    <2> QED
        BY <1>0, <2>1, <2>2 DEF DiskInv, RestartFindsChain
<1>9. CASE UNCHANGED <<mapBlockIndex, pcoinsTip, coinsDB, disk>>
    BY <1>0, <1>9 DEF DiskInv, RestartFindsChain, disk
<1> QED
    BY <1>1, <1>2, <1>3, <1>4, <1>5, <1>6, <1>7, <1>8, <1>9
    DEF Next, HandlerStep, NoBetterBlock, MarkedAll, SwitchedAll, FindFailed, Attach,
        Interrupt, BeginSwitch, Disconnect, ConnectGenesis, UpdateMemory, StartShutdown,
        EnforceCheckpoint, index

-----------------------------------------------------------------------------
\* The work of the best block

\* Every action keeps the blocks still to attach in order of work.
LEMMA WorkStep == IInv /\ Next => WorkInv'
<1> SUFFICES ASSUME IInv, Next PROVE WorkInv'
    OBVIOUS
<1>0. WorkInv /\ TipInv /\ Indexed \subseteq Blocks
    BY DEF IInv, IndexInv, Tree, Indexed
<1>1. ASSUME NEW b \in Blocks, FindFailed(b) \/ Attach(b) PROVE WorkInv'
    <2>1. b \in BestCandidates /\ vAttach' \subseteq WalkFrom(b)
        BY <1>1 DEF FindFailed, Attach
    <2>2. vAttach' \subseteq Ancestry[b]
        BY <2>1, WalkIndexed
    <2>3. ASSUME NEW a \in vAttach', NEW c \in vAttach', Height[a] <= Height[c]
          PROVE  a = c \/ ChainWork[a] < ChainWork[c]
        <3>1. a \in Blocks /\ c \in Blocks
            BY <2>2, OnChain
        <3>2. Height[a] \in Nat /\ Height[c] \in Nat
            BY <3>1, BlockTreeAssumption
        <3>3. /\ Height[a] = Height[c] => a = c
              /\ Height[a] < Height[c] => ChainWork[a] < ChainWork[c]
            BY <2>2, ChainOrdered
        <3> QED
            BY <2>3, <3>2, <3>3
    <2>4. pc' = "switch" => \A a \in vAttach' : BetterThanBest(a)'
        BY <1>1 DEF FindFailed, Attach, BetterThanBest, memory
    <2>5. pc = "best" /\ pc' \in {"mark", "switch"} /\ hashCheckpoint' = hashCheckpoint
        BY <1>1 DEF FindFailed, Attach, mode
    <2> QED
        BY <1>0, <2>3, <2>4, <2>5 DEF WorkInv
<1>2. CASE MarkFailedChild
    BY <1>0, <1>2 DEF MarkFailedChild, WorkInv, mode
<1>3. CASE BeginSwitch
    <2> DEFINE new == Lowest(vAttach)
    <2>1. /\ new \in vAttach /\ \A c \in vAttach : Height[new] <= Height[c]
        BY <1>0, <1>3, LowestProperty DEF BeginSwitch, TipInv
    <2>2. /\ pc = "switch" /\ pc' = "chain" /\ pindexNew' = new
          /\ vAttach' = vAttach \ {new} /\ pindexBest' = pindexBest
          /\ UNCHANGED <<hashCheckpoint, fEnforced>>
        BY <1>3 DEF BeginSwitch, memory, mode
    <2> HIDE DEF new
    <2> QED
        BY <1>0, <2>1, <2>2 DEF WorkInv, BetterThanBest
<1>4. CASE UpdateMemory
    <2>1. /\ pc = "update" /\ pc' = "switch" /\ pindexBest' = pindexNew
          /\ vAttach' = vAttach /\ UNCHANGED <<hashCheckpoint, fEnforced>>
        BY <1>4 DEF UpdateMemory, mode
    <2>2. pindexNew \in Blocks
        BY <1>0, <2>1 DEF TipInv
    <2>3. \A a \in vAttach : ChainWork[pindexNew] \in Nat /\ ChainWork[a] \in Nat
        BY <1>0, <2>2, BlockTreeAssumption DEF TipInv
    <2> QED
        BY <1>0, <2>1, <2>3 DEF WorkInv, BetterThanBest
<1>5. CASE pc' \in {"off", "idle"} /\ vAttach' = {} /\ hashCheckpoint' = NoBlock
    BY <1>5 DEF WorkInv
<1>6. CASE /\ UNCHANGED <<pindexBest, vAttach, pindexNew, hashCheckpoint, fEnforced>>
           /\ \/ pc' = pc
              \/ pc \in {"idle", "mark"} /\ pc' = "best"
              \/ pc \in {"chain", "update"} /\ pc' \in {"chain", "update"}
    BY <1>0, <1>6 DEF WorkInv, BetterThanBest
<1>7. CASE Start
    BY <1>0, <1>7 DEF Start, WorkInv, handler
<1>8. CASE NoBetterBlock \/ SwitchedAll \/ Interrupt \/ FlushDiskFull \/ Shutdown \/ Crash
    BY <1>5, <1>8
    DEF NoBetterBlock, SwitchedAll, Interrupt, FlushDiskFull, Return, ReturnDiskFull,
        Shutdown, Crash, PowerOff
<1>9. ASSUME NEW b \in Blocks, ConnectFails(b) \/ ConnectDiskFull(b) \/ InterruptConnect(b)
      PROVE  WorkInv'
    BY <1>5, <1>9 DEF ConnectFails, ConnectDiskFull, InterruptConnect, Return, ReturnDiskFull
<1>10. ASSUME NEW b \in Blocks, AcceptBlock(b) \/ Connect(b) PROVE WorkInv'
    BY <1>6, <1>10 DEF AcceptBlock, Connect, memory, mode, handler
<1>11. ASSUME NEW fFlush \in FlushModes, FlushView(fFlush) PROVE WorkInv'
    BY <1>6, <1>11 DEF FlushView, memory, mode, handler
<1>12. CASE MarkedAll \/ Disconnect \/ ConnectGenesis \/ StartShutdown
    BY <1>6, <1>12
    DEF MarkedAll, Disconnect, ConnectGenesis, Connecting, StartShutdown, memory, mode,
        handler
<1>13. ASSUME NEW b \in Blocks, EnforceCheckpoint(b) PROVE WorkInv'
    BY <1>13 DEF EnforceCheckpoint, WorkInv
<1> QED
    BY <1>1, <1>2, <1>3, <1>4, <1>7, <1>8, <1>9, <1>10, <1>11, <1>12, <1>13
    DEF Next, HandlerStep

-----------------------------------------------------------------------------
\* The links of the main chain

\* Relinking the blocks disconnected and connected gives the links of the new chain.
LEMMA Relinked ==
    ASSUME NEW old \in Tips, NEW new \in Tips,
           NEW left, left = ChainOf(old) \ ChainOf(ForkOf(old, new)),
           NEW joined, joined = ChainOf(new) \ ChainOf(ForkOf(old, new)),
           NEW p \in Blocks
    PROVE  MainChainTo(new)[p] =
                IF \E b \in joined : Parent[b] = p
                THEN CHOOSE b \in joined : Parent[b] = p
                ELSE IF \E b \in left : Parent[b] = p THEN NoBlock ELSE MainChainTo(old)[p]
<1> DEFINE shared == ChainOf(ForkOf(old, new))
<1>1. /\ ChainOf(old) = left \cup shared
      /\ ChainOf(new) = joined \cup shared
      /\ left \cap shared = {} /\ joined \cap shared = {}
    BY ForkProperty
<1>2. \A a, c \in ChainOf(new) : Parent[a] = Parent[c] => a = c
    BY OneChild DEF ChainOf, Tips
<1>3. \A a, c \in ChainOf(old) : Parent[a] = Parent[c] => a = c
    BY OneChild DEF ChainOf, Tips
<1> HIDE DEF shared
<1>4. CASE \E b \in joined : Parent[b] = p
    <2>1. PICK b \in joined : Parent[b] = p
        BY <1>4
    <2>2. (CHOOSE c \in ChainOf(new) : Parent[c] = p) = b
        BY <1>1, <1>2, <2>1
    <2>3. (CHOOSE c \in joined : Parent[c] = p) = b
        BY <1>1, <1>2, <2>1
    <2>4. \E c \in ChainOf(new) : Parent[c] = p
        BY <1>1, <2>1
    <2> QED
        BY <1>4, <2>2, <2>3, <2>4 DEF MainChainTo
<1>5. CASE /\ ~\E b \in joined : Parent[b] = p
           /\ \E b \in left : Parent[b] = p
    <2>1. ~\E c \in ChainOf(new) : Parent[c] = p
        BY <1>1, <1>3, <1>5
    <2> QED
        BY <1>5, <2>1 DEF MainChainTo
<1>6. CASE /\ ~\E b \in joined : Parent[b] = p
           /\ ~\E b \in left : Parent[b] = p
    <2>1. CASE \E b \in shared : Parent[b] = p
        <3>1. PICK b \in shared : Parent[b] = p
            BY <2>1
        <3>2. (CHOOSE c \in ChainOf(new) : Parent[c] = p) = b
            BY <1>1, <1>2, <3>1
        <3>3. (CHOOSE c \in ChainOf(old) : Parent[c] = p) = b
            BY <1>1, <1>3, <3>1
        <3>4. /\ \E c \in ChainOf(new) : Parent[c] = p
              /\ \E c \in ChainOf(old) : Parent[c] = p
            BY <1>1, <3>1
        <3> QED
            BY <1>6, <3>2, <3>3, <3>4 DEF MainChainTo
    <2>2. CASE ~\E b \in shared : Parent[b] = p
        <3>1. /\ ~\E c \in ChainOf(new) : Parent[c] = p
              /\ ~\E c \in ChainOf(old) : Parent[c] = p
            BY <1>1, <1>6, <2>2
        <3> QED
            BY <1>6, <3>1 DEF MainChainTo
    <2> QED
        BY <2>1, <2>2
<1> QED
    BY <1>4, <1>5, <1>6

\* Every action keeps what the pnext pointers look like at its pc.
LEMMA LinkStep == IInv /\ Next => LinkInv'
<1> SUFFICES ASSUME IInv, Next, pc' # "off", ~fRequestShutdown'
             PROVE  /\ pnext' = MainChainTo(pindexBest')
                    /\ pcoinsTip'.pindexTip = IF pc' = "update" THEN pindexNew' ELSE pindexBest'
                    /\ pc' \in {"chain", "update"} =>
                        LET fork == ForkOf(pindexBest', pindexNew')
                        IN  /\ vDisconnect' = ChainOf(pindexBest') \ ChainOf(fork)
                            /\ vConnect' = ChainOf(pindexNew') \ ChainOf(fork)
    BY DEF LinkInv, MainChainTo, ForkOf, ChainOf
<1>0. LinkInv /\ TipInv /\ Indexed \subseteq Blocks
    BY DEF IInv, IndexInv, Tree, Indexed
<1>1. CASE Start
    BY <1>1 DEF Start, EmptyCache, Cache
<1>2. CASE BeginSwitch
    <2>1. /\ pc = "switch" /\ pc' = "chain"
          /\ pnext' = pnext /\ pindexBest' = pindexBest /\ pcoinsTip' = pcoinsTip
          /\ ~fRequestShutdown
        BY <1>2 DEF BeginSwitch, memory, mode
    <2>2. pcoinsTip.pindexTip = pindexBest /\ pnext = MainChainTo(pindexBest)
        BY <1>0, <2>1 DEF LinkInv
    <2>3. LET fork == ForkOf(pcoinsTip.pindexTip, pindexNew')
          IN  /\ vDisconnect' = ChainOf(pcoinsTip.pindexTip) \ ChainOf(fork)
              /\ vConnect' = ChainOf(pindexNew') \ ChainOf(fork)
        BY <1>2 DEF BeginSwitch
    <2> QED
        BY <2>1, <2>2, <2>3
<1>3. ASSUME NEW fFlush \in FlushModes, FlushView(fFlush) PROVE LinkInv'
    <2>1. pcoinsTip'.pindexTip = pindexNew
        BY <1>3 DEF FlushView, BatchWrite, EmptyCache, Cache
    <2>2. /\ pc = "chain" /\ pc' = "update" /\ ~fRequestShutdown
          /\ UNCHANGED <<pnext, pindexBest, pindexNew, vDisconnect, vConnect>>
        BY <1>3 DEF FlushView, memory, mode, handler
    <2> QED
        BY <1>0, <2>1, <2>2 DEF LinkInv
<1>4. CASE UpdateMemory
    <2>1. /\ pc = "update" /\ pc' = "switch" /\ ~fRequestShutdown
          /\ pnext' = NextAfterSwitch
          /\ pindexBest' = pindexNew /\ pcoinsTip' = pcoinsTip
        BY <1>4 DEF UpdateMemory, mode
    <2>2. /\ pindexBest \in Tips /\ pindexNew \in Tips
        BY <1>0 DEF TipInv, Tips
    <2>3. /\ pnext = MainChainTo(pindexBest)
          /\ pcoinsTip.pindexTip = pindexNew
          /\ vDisconnect = ChainOf(pindexBest) \ ChainOf(ForkOf(pindexBest, pindexNew))
          /\ vConnect = ChainOf(pindexNew) \ ChainOf(ForkOf(pindexBest, pindexNew))
        BY <1>0, <2>1 DEF LinkInv
    <2>4. \A p \in Blocks : MainChainTo(pindexNew)[p] = NextAfterSwitch[p]
        BY <2>2, <2>3, Relinked DEF NextAfterSwitch
    <2>5. NextAfterSwitch = MainChainTo(pindexNew)
        BY <2>4 DEF NextAfterSwitch, MainChainTo
    <2> QED
        BY <2>1, <2>3, <2>5
<1>5. CASE /\ UNCHANGED <<pnext, pindexBest, pcoinsTip>>
           /\ ~fRequestShutdown
           /\ pc \notin {"off", "update"}
           /\ pc' \notin {"chain", "update"}
    BY <1>0, <1>5 DEF LinkInv
<1>6. CASE UNCHANGED <<pnext, pindexBest, pcoinsTip, fRequestShutdown, pc,
                       pindexNew, vDisconnect, vConnect>>
    BY <1>0, <1>6 DEF LinkInv
<1>7. ASSUME NEW b \in Blocks,
             AcceptBlock(b) \/ EnforceCheckpoint(b) \/ FindFailed(b) \/ Attach(b)
      PROVE  LinkInv'
    BY <1>5, <1>7
    DEF AcceptBlock, EnforceCheckpoint, FindFailed, Attach, memory, mode, LinkInv
<1>8. ASSUME NEW b \in Blocks, ConnectFails(b) PROVE LinkInv'
    BY <1>5, <1>8 DEF ConnectFails, Connecting, Return, memory, LinkInv
<1>9. CASE NoBetterBlock \/ SwitchedAll \/ MarkedAll
    BY <1>0, <1>9 DEF NoBetterBlock, SwitchedAll, MarkedAll, Return, memory, mode, LinkInv
<1>10. ASSUME NEW b \in Blocks, Connect(b) PROVE LinkInv'
    BY <1>6, <1>10 DEF Connect, memory, mode, LinkInv
<1>11. CASE MarkFailedChild \/ Disconnect \/ ConnectGenesis
    BY <1>6, <1>11 DEF MarkFailedChild, Disconnect, ConnectGenesis, memory, mode
<1>12. ASSUME \E b \in Blocks : ConnectDiskFull(b) \/ InterruptConnect(b) PROVE FALSE
    BY <1>12 DEF ConnectDiskFull, InterruptConnect, Return, ReturnDiskFull
<1>13. ASSUME FlushDiskFull \/ StartShutdown PROVE FALSE
    BY <1>13 DEF FlushDiskFull, ReturnDiskFull, StartShutdown
<1>14. CASE Interrupt
    BY <1>14 DEF Interrupt, Return
<1>15. CASE Shutdown \/ Crash
    BY <1>15 DEF Shutdown, Crash, PowerOff
<1> QED
    BY <1>1, <1>2, <1>3, <1>4, <1>7, <1>8, <1>9, <1>10, <1>11, <1>12, <1>13, <1>14, <1>15
    DEF Next, HandlerStep, LinkInv

-----------------------------------------------------------------------------
\* The theorems

\* IInv is inductive.
LEMMA StepInv == IInv /\ [Next]_vars => IInv'
<1> SUFFICES ASSUME IInv, [Next]_vars PROVE IInv'
    OBVIOUS
<1>1. CASE Next
    BY <1>1, IndexStep, TipStep, DiskStep, LinkStep, WorkStep DEF IInv
<1>2. CASE UNCHANGED vars
    <2> USE <1>2 DEF vars, index, memory, disk, mode, handler
    <2>1. IndexInv'
        BY DEF IInv, IndexInv, NoFailedCandidate, Indexed
    <2>2. TipInv'
        BY DEF IInv, TipInv, Indexed
    <2>3. DiskInv'
        BY DEF IInv, DiskInv, RestartFindsChain
    <2>4. LinkInv'
        BY DEF IInv, LinkInv
    <2>5. WorkInv'
        BY DEF IInv, WorkInv, BetterThanBest
    <2> QED
        BY <2>1, <2>2, <2>3, <2>4, <2>5 DEF IInv
<1> QED
    BY <1>1, <1>2

\* The inductive invariant holds in every state of the node.
THEOREM Invariance == Spec => []IInv
BY InitInv, StepInv, PTL DEF Spec

\* No candidate for the best chain is marked failed: whatever blocks arrive in
\* whatever order, and wherever the node stops, ConnectBestBlock never chooses a
\* block it has already found invalid.
THEOREM CandidatesNotFailed == Spec => []NoFailedCandidate
<1>1. IInv => NoFailedCandidate
    BY DEF IInv, IndexInv
<1> QED
    BY <1>1, Invariance, PTL

\* Crash consistency: after a crash, a power failure or a shutdown at any moment,
\* any pair of images of the two databases has the best block of the coins in the
\* block tree, with all its ancestors.
THEOREM RestartsFindChain == Spec => []RestartFindsChain
<1>1. IInv => RestartFindsChain
    BY DEF IInv, DiskInv
<1> QED
    BY <1>1, Invariance, PTL

\* Between handlers pnext runs along the chain of the best block, which is the
\* block the coin cache stands at, through any reorganisation.
THEOREM LinksFollowBest == Spec => []MainChainLinks
<1>1. IInv => MainChainLinks
    BY DEF IInv, LinkInv, MainChainLinks
<1> QED
    BY <1>1, Invariance, PTL

\* The best block never gives way to one with the same or less work while the node
\* runs, but to the block of the checkpoint an enforcing process switches to.
THEOREM BestGainsWork == Spec => OnlyMoreWork
<1> DEFINE Gain == \/ ChainWork[pindexBest'] > ChainWork[pindexBest]
                   \/ fEnforced /\ pindexBest' = hashCheckpoint
<1>1. ASSUME IInv, [Next]_vars, pindexBest' \notin {pindexBest, NoBlock}, pindexBest # NoBlock
      PROVE  Gain
    <2>1. WorkInv /\ TipInv
        BY <1>1 DEF IInv
    <2>2. CASE UpdateMemory
        <3>1. pc = "update" /\ pindexBest' = pindexNew
            BY <2>2 DEF UpdateMemory
        <3>2. \/ pindexNew = hashCheckpoint /\ fEnforced
              \/ ChainWork[pindexNew] > ChainWork[pindexBest]
            BY <1>1, <2>1, <3>1 DEF WorkInv, BetterThanBest
        <3> QED
            BY <3>1, <3>2
    <2>3. CASE Start
        BY <1>1, <2>1, <2>3 DEF Start, TipInv
    <2>4. CASE Shutdown \/ Crash
        BY <1>1, <2>4 DEF Shutdown, Crash, PowerOff
    <2>5. CASE UNCHANGED pindexBest
        BY <1>1, <2>5
    <2> QED
        BY <1>1, <2>2, <2>3, <2>4, <2>5
        DEF Next, HandlerStep, AcceptBlock, EnforceCheckpoint, NoBetterBlock,
            MarkFailedChild, MarkedAll, SwitchedAll, FindFailed, Attach, Interrupt,
            BeginSwitch, Disconnect, ConnectGenesis, Connect, ConnectFails,
            ConnectDiskFull, InterruptConnect, FlushView, FlushDiskFull, StartShutdown,
            memory, vars
<1>2. IInv /\ [Next]_vars =>
        [pindexBest' \notin {pindexBest, NoBlock} /\ pindexBest # NoBlock => Gain]_pindexBest
    BY <1>1
<1> QED
    BY <1>2, Invariance, PTL DEF Spec, OnlyMoreWork

-----------------------------------------------------------------------------
\* The coins of the views

SavedMatch ==
    \A db \in coinsImages :
        db.hashBestChain \in Tips /\ CoinsOfChain(db.coins, db.hashBestChain)

TipMatch ==
    pc # "off" =>
        /\ CoinsOfChain(TipCoins, pcoinsTip.pindexTip)
        /\ pcoinsTip.pindexTip = NoBlock => coinsDB.hashBestChain = NoBlock

ViewMatch ==
    pc = "chain" =>
        /\ view.pindexTip \in Indexed \cup {NoBlock}
        /\ CoinsOfChain(ViewCoins, view.pindexTip)
        /\ vConnect \subseteq Indexed
        /\ vDisconnect \subseteq Indexed \ {Genesis}

\* All undo data of the tree is that of its block.
UndoRight(tree) ==
    \A b \in DOMAIN tree \ {Genesis} : tree[b].undo # NoUndo => UndoOfBlock(tree[b].undo, b)

UndoMatch == \A tree \in treeImages : UndoRight(tree)

\* No block of the chain that ends in tip lacks undo data.
HasUndo(tree, tip) ==
    \A b \in ChainOf(tip) \ {Genesis} : b \in DOMAIN tree => tree[b].undo # NoUndo

UndoKept ==
    /\ \A tree \in treeImages, db \in coinsImages : HasUndo(tree, db.hashBestChain)
    /\ pc # "off" => HasUndo(mapBlockIndex, pcoinsTip.pindexTip)
    /\ pc = "chain" => HasUndo(mapBlockIndex, view.pindexTip)

DataInv == SavedMatch /\ TipMatch /\ ViewMatch /\ UndoMatch /\ UndoKept

-----------------------------------------------------------------------------
\* Views

\* Without cached entries a view shows the coins below it.
LEMMA OverNothing ==
    ASSUME NEW coins, NormalCoins(coins)
    PROVE  Over(<<>>, coins) = coins
<1>1. coins = [t \in Txids |-> coins[t]]
    BY DEF NormalCoins, AllCoins
<1>2. DOMAIN <<>> = {}
    OBVIOUS
<1> QED
    BY <1>1, <1>2 DEF Over

\* The entries of an upper cache, written to the lower one, show the same coins.
LEMMA OverWritten ==
    ASSUME NEW lower, NEW upper, NEW coins
    PROVE  Over(BatchWrite(lower, upper).cacheCoins, coins)
            = Over(upper.cacheCoins, Over(lower.cacheCoins, coins))
<1> DEFINE written == [t \in DOMAIN lower.cacheCoins \cup DOMAIN upper.cacheCoins |->
                          IF t \in DOMAIN upper.cacheCoins THEN upper.cacheCoins[t]
                                                           ELSE lower.cacheCoins[t]]
<1>1. BatchWrite(lower, upper).cacheCoins = written
    BY DEF BatchWrite, Cache
<1>2. ASSUME NEW t \in Txids
      PROVE  Over(written, coins)[t] = Over(upper.cacheCoins, Over(lower.cacheCoins, coins))[t]
    BY DEF Over
<1> HIDE DEF written
<1> QED
    BY <1>1, <1>2 DEF Over

\* The entries set in a cache show the new coins, if the others have not changed.
LEMMA OverSet ==
    ASSUME NEW cacheCoins, NEW below, NEW touched, NEW coins, NormalCoins(coins),
           \A t \in Txids \ touched : coins[t] = Over(cacheCoins, below)[t]
    PROVE  Over(SetCoins(cacheCoins, touched, coins), below) = coins
<1>1. coins = [t \in Txids |-> coins[t]]
    BY DEF NormalCoins, AllCoins
<1>2. ASSUME NEW t \in Txids
      PROVE  Over(SetCoins(cacheCoins, touched, coins), below)[t] = coins[t]
    BY DEF Over, SetCoins
<1> QED
    BY <1>1, <1>2 DEF Over

\* A fresh cache on top of coins shows them.
LEMMA FreshCache ==
    ASSUME NEW coins, NormalCoins(coins), NEW tip
    PROVE  /\ EmptyCache(tip).pindexTip = tip
           /\ Over(EmptyCache(tip).cacheCoins, coins) = coins
BY OverNothing DEF EmptyCache, Cache

\* ConnectBlock is valid only if its loop completed.
LEMMA ValidIsOk ==
    ASSUME NEW coins, NEW b, ConnectBlock(coins, b).fValid
    PROVE  ConnectBlock(coins, b).fOk
BY DEF ConnectBlock

\* The coins of no chain at all.
LEMMA NoCoins == CoinsOfChain(EmptyDB.coins, NoBlock)
<1> DEFINE coins == [t \in Txids |-> Pruned]
<1>1. Pruned \in CoinType /\ \A m : ~IsAvailable(Pruned, m)
    <2>1. <<>> \in Vouts
        BY DEF Vouts
    <2> QED
        BY <2>1 DEF Pruned, CoinType, IsAvailable
<1>2. NormalCoins(coins) /\ coins \in AllCoins
    BY <1>1 DEF NormalCoins, AllCoins, Normal
<1>3. \A t \in Txids, m \in Nat : ~IsAvailable(coins[t], m)
    BY <1>1
<1> HIDE DEF coins
<1>4. Unspent(coins) = {}
    BY <1>2, <1>3, UnspentIs
<1>5. EmptyDB.coins = coins
    BY DEF EmptyDB, coins
<1> QED
    BY <1>2, <1>4, <1>5, UtxoIs DEF CoinsOfChain

-----------------------------------------------------------------------------
\* What the actions change

\* The actions that write coins.
LEMMA CoinsChange ==
    ASSUME Next
    PROVE  \/ Start \/ Shutdown \/ Crash \/ FlushDiskFull
           \/ \E fFlush \in FlushModes : FlushView(fFlush)
           \/ UNCHANGED <<pcoinsTip, coinsDB, coinsImages>> /\ pc # "off"
<1>1. ASSUME NEW b \in Blocks,
             \/ AcceptBlock(b) \/ EnforceCheckpoint(b) \/ FindFailed(b) \/ Attach(b)
             \/ Connect(b) \/ ConnectFails(b) \/ ConnectDiskFull(b) \/ InterruptConnect(b)
      PROVE  UNCHANGED <<pcoinsTip, coinsDB, coinsImages>> /\ pc # "off"
    BY <1>1
    DEF AcceptBlock, EnforceCheckpoint, FindFailed, Attach, Connecting, Connect, ConnectFails, ConnectDiskFull,
        InterruptConnect, disk
<1>2. ASSUME \/ NoBetterBlock \/ MarkFailedChild \/ MarkedAll \/ SwitchedAll \/ Interrupt
             \/ BeginSwitch \/ Disconnect \/ ConnectGenesis \/ UpdateMemory \/ StartShutdown
      PROVE  UNCHANGED <<pcoinsTip, coinsDB, coinsImages>> /\ pc # "off"
    BY <1>2
    DEF NoBetterBlock, MarkFailedChild, MarkedAll, SwitchedAll, Interrupt, BeginSwitch,
        Disconnect, ConnectGenesis, Connecting, UpdateMemory, StartShutdown, disk
<1> QED
    BY <1>1, <1>2 DEF Next, HandlerStep

\* The actions after which SetBestChain's view is in use.
LEMMA ViewChange ==
    ASSUME Next, pc' = "chain"
    PROVE  \/ BeginSwitch \/ Disconnect \/ ConnectGenesis
           \/ \E b \in Blocks : Connect(b)
           \/ StartShutdown /\ pc = "chain" /\ UNCHANGED <<mapBlockIndex, pcoinsTip, coinsDB, handler>>
<1>1. ASSUME NEW b \in Blocks,
             \/ AcceptBlock(b) \/ EnforceCheckpoint(b) \/ FindFailed(b) \/ Attach(b)
             \/ ConnectFails(b) \/ ConnectDiskFull(b) \/ InterruptConnect(b)
      PROVE  FALSE
    BY <1>1
    DEF AcceptBlock, EnforceCheckpoint, FindFailed, Attach, ConnectFails, ConnectDiskFull, InterruptConnect,
        Return, ReturnDiskFull
<1>2. ASSUME \/ Start \/ Shutdown \/ Crash \/ NoBetterBlock \/ MarkFailedChild \/ MarkedAll
             \/ SwitchedAll \/ Interrupt \/ FlushDiskFull \/ UpdateMemory
             \/ \E fFlush \in FlushModes : FlushView(fFlush)
      PROVE  FALSE
    BY <1>2
    DEF Start, Shutdown, Crash, PowerOff, NoBetterBlock, MarkFailedChild, MarkedAll,
        SwitchedAll, Interrupt, FlushDiskFull, UpdateMemory, FlushView, Return, ReturnDiskFull
<1>3. ASSUME StartShutdown
      PROVE  pc = "chain" /\ UNCHANGED <<mapBlockIndex, pcoinsTip, coinsDB, handler>>
    BY <1>3 DEF StartShutdown, index
<1> QED
    BY <1>1, <1>2, <1>3 DEF Next, HandlerStep

\* In tree the blocks outside of changed have the undo data of the index, and new ones none.
SameUndo(tree, changed) ==
    \A c \in DOMAIN tree \ changed :
        tree[c].undo = IF c \in Indexed THEN mapBlockIndex[c].undo ELSE NoUndo

\* Only a connected block gets undo data.
LEMMA UndoChange ==
    ASSUME IInv, Next, ~Crash
    PROVE  /\ \A b \in Blocks : Connect(b) =>
                /\ SameUndo(mapBlockIndex', {b})
                /\ b \in Indexed =>
                    mapBlockIndex'[b].undo = IF mapBlockIndex[b].undo = NoUndo
                                             THEN ConnectBlock(ViewCoins, b).vtxundo
                                             ELSE mapBlockIndex[b].undo
           /\ (\E b \in Blocks : Connect(b)) \/ SameUndo(mapBlockIndex', {})
<1>0. Tree(mapBlockIndex) /\ Indexed \subseteq Blocks /\ vAttach \subseteq Indexed
    BY DEF IInv, IndexInv, TipInv, Tree, Indexed
<1>1. ASSUME Start PROVE SameUndo(mapBlockIndex', {})
    <2> DEFINE tree == IF Genesis \in Indexed THEN mapBlockIndex
                       ELSE AddToBlockIndex(mapBlockIndex, Genesis)
    <2>1. mapBlockIndex' = tree
        BY <1>1 DEF Start
    <2>2. SameUndo(tree, {})
        BY <1>0 DEF SameUndo, AddToBlockIndex, NewIndex, Indexed
    <2> QED
        BY <2>1, <2>2
<1>2. ASSUME NEW b \in Blocks, AcceptBlock(b) PROVE SameUndo(mapBlockIndex', {})
    <2>1. mapBlockIndex' = AddToBlockIndex(mapBlockIndex, b) /\ b \notin Indexed
        BY <1>2 DEF AcceptBlock, WriteTree
    <2>2. SameUndo(AddToBlockIndex(mapBlockIndex, b), {})
        BY <2>1 DEF SameUndo, AddToBlockIndex, NewIndex, Indexed
    <2> QED
        BY <2>1, <2>2
\* A tree in which the entry of one block has changed, but not its undo data.
<1>3. ASSUME NEW b, NEW entry,
             b \in Indexed => entry.undo = mapBlockIndex[b].undo,
             mapBlockIndex' = [mapBlockIndex EXCEPT ![b] = entry]
      PROVE  SameUndo(mapBlockIndex', {})
    BY <1>3 DEF SameUndo, Indexed
<1>4. ASSUME MarkFailedChild PROVE SameUndo(mapBlockIndex', {})
    <2>1. PICK b \in vAttach : mapBlockIndex' = [mapBlockIndex EXCEPT ![b].fFailedChild = TRUE]
        BY <1>4 DEF MarkFailedChild, WriteTree
    <2> DEFINE entry == [mapBlockIndex[b] EXCEPT !.fFailedChild = TRUE]
    <2>2. b \in Indexed => entry.undo = mapBlockIndex[b].undo
        BY <1>0 DEF Tree, Entry, Indexed
    <2>3. mapBlockIndex' = [mapBlockIndex EXCEPT ![b] = entry]
        BY <2>1
    <2> HIDE DEF entry
    <2> QED
        BY <1>3, <2>2, <2>3
<1>5. ASSUME NEW b \in Blocks, ConnectFails(b) PROVE SameUndo(mapBlockIndex', {})
    <2> DEFINE connected == ConnectBlock(ViewCoins, b)
               nMoneySupply == MoneySupply(b, connected)
               entry == [mapBlockIndex[b] EXCEPT
                            !.nMoneySupply = IF connected.fOk THEN nMoneySupply ELSE @,
                            !.fFailedValid = TRUE]
    <2>1. mapBlockIndex' = [mapBlockIndex EXCEPT
                ![b].nMoneySupply = IF connected.fOk THEN nMoneySupply ELSE @,
                ![b].fFailedValid = TRUE]
        BY <1>5 DEF ConnectFails, WriteTree
    <2> HIDE DEF connected, nMoneySupply
    <2>2. b \in Indexed => entry.undo = mapBlockIndex[b].undo
        BY <1>0 DEF Tree, Entry, Indexed
    <2>3. mapBlockIndex' = [mapBlockIndex EXCEPT ![b] = entry]
        BY <1>0, <2>1 DEF Tree
    <2> HIDE DEF entry
    <2> QED
        BY <1>3, <2>2, <2>3
<1>6. ASSUME NEW b \in Blocks, ConnectDiskFull(b) \/ InterruptConnect(b)
      PROVE  SameUndo(mapBlockIndex', {})
    <2> DEFINE nMoneySupply == MoneySupply(b, ConnectBlock(ViewCoins, b))
               entry == [mapBlockIndex[b] EXCEPT !.nMoneySupply = nMoneySupply]
    <2>1. mapBlockIndex' = [mapBlockIndex EXCEPT ![b].nMoneySupply = nMoneySupply]
        BY <1>6 DEF ConnectDiskFull, InterruptConnect, WriteTree
    <2> HIDE DEF nMoneySupply
    <2>2. b \in Indexed => entry.undo = mapBlockIndex[b].undo
        BY <1>0 DEF Tree, Entry, Indexed
    <2>3. mapBlockIndex' = [mapBlockIndex EXCEPT ![b] = entry]
        BY <2>1
    <2> HIDE DEF entry
    <2> QED
        BY <1>3, <2>2, <2>3
<1>7. ASSUME NEW b \in Blocks, Connect(b)
      PROVE  /\ SameUndo(mapBlockIndex', {b})
             /\ b \in Indexed =>
                 mapBlockIndex'[b].undo = IF mapBlockIndex[b].undo = NoUndo
                                          THEN ConnectBlock(ViewCoins, b).vtxundo
                                          ELSE mapBlockIndex[b].undo
    <2> DEFINE nMoneySupply == MoneySupply(b, ConnectBlock(ViewCoins, b))
               vtxundo == ConnectBlock(ViewCoins, b).vtxundo
    <2>1. mapBlockIndex' = [mapBlockIndex EXCEPT
                ![b].nMoneySupply = nMoneySupply,
                ![b].undo = IF @ = NoUndo THEN vtxundo ELSE @,
                ![b].fScripts = TRUE]
        BY <1>7 DEF Connect, WriteTree
    <2> HIDE DEF nMoneySupply, vtxundo
    <2>2. SameUndo(mapBlockIndex', {b})
        BY <2>1 DEF SameUndo, Indexed
    <2>3. ASSUME b \in Indexed
          PROVE  mapBlockIndex'[b].undo = IF mapBlockIndex[b].undo = NoUndo
                                          THEN vtxundo ELSE mapBlockIndex[b].undo
        <3>1. Entry(mapBlockIndex[b])
            BY <1>0, <2>3 DEF Tree, Indexed
        <3>2. mapBlockIndex'[b] = [mapBlockIndex[b] EXCEPT
                    !.nMoneySupply = nMoneySupply,
                    !.undo = IF @ = NoUndo THEN vtxundo ELSE @,
                    !.fScripts = TRUE]
            BY <2>1, <2>3 DEF Indexed
        <3> QED
            BY <3>1, <3>2 DEF Entry
    <2> QED
        BY <2>2, <2>3 DEF vtxundo
<1>8. ASSUME UNCHANGED mapBlockIndex PROVE SameUndo(mapBlockIndex', {})
    BY <1>8 DEF SameUndo, Indexed
<1>9. \/ Start \/ MarkFailedChild \/ UNCHANGED mapBlockIndex
      \/ \E b \in Blocks : \/ AcceptBlock(b) \/ Connect(b) \/ ConnectFails(b)
                          \/ ConnectDiskFull(b) \/ InterruptConnect(b)
    BY DEF Next, HandlerStep, NoBetterBlock, MarkedAll, SwitchedAll, FindFailed, Attach,
        Interrupt, BeginSwitch, Disconnect, ConnectGenesis, FlushView, FlushDiskFull,
        UpdateMemory, StartShutdown, Shutdown, EnforceCheckpoint, index
<1> QED
    BY <1>1, <1>2, <1>4, <1>5, <1>6, <1>7, <1>8, <1>9

\* The images of the block tree are the older ones and the index as it is now.
LEMMA TreeImages == IInv /\ Next => treeImages' \subseteq treeImages \cup {mapBlockIndex'}
<1> SUFFICES ASSUME IInv, Next PROVE treeImages' \subseteq treeImages \cup {mapBlockIndex'}
    OBVIOUS
<1>0. mapBlockIndex \in treeImages
    BY DEF IInv, IndexInv
<1>1. CASE \E tree : WriteTree(tree)
    BY <1>1 DEF WriteTree
<1>2. CASE Start \/ Crash
    BY <1>0, <1>2 DEF Start, Crash
<1>3. CASE treeImages' \in {treeImages, {mapBlockIndex}}
    BY <1>0, <1>3
<1>4. ASSUME NEW b \in Blocks,
             \/ AcceptBlock(b) \/ EnforceCheckpoint(b) \/ FindFailed(b) \/ Attach(b)
             \/ Connect(b) \/ ConnectFails(b) \/ ConnectDiskFull(b) \/ InterruptConnect(b)
      PROVE  (\E tree : WriteTree(tree)) \/ treeImages' = treeImages
    <2>1. CASE EnforceCheckpoint(b) \/ FindFailed(b) \/ Attach(b)
        BY <2>1 DEF EnforceCheckpoint, FindFailed, Attach, disk
    <2>2. CASE AcceptBlock(b)
        BY <2>2 DEF AcceptBlock
    <2>3. CASE Connect(b)
        BY <2>3 DEF Connect
    <2>4. CASE ConnectFails(b)
        BY <2>4 DEF ConnectFails
    <2>5. CASE ConnectDiskFull(b) \/ InterruptConnect(b)
        BY <2>5 DEF ConnectDiskFull, InterruptConnect
    <2> QED
        BY <1>4, <2>1, <2>2, <2>3, <2>4, <2>5
<1>5. ASSUME MarkFailedChild PROVE \E tree : WriteTree(tree)
    BY <1>5 DEF MarkFailedChild
<1>6. ASSUME \/ Shutdown \/ NoBetterBlock \/ MarkedAll \/ SwitchedAll \/ Interrupt \/ BeginSwitch
             \/ Disconnect \/ ConnectGenesis \/ FlushDiskFull \/ UpdateMemory \/ StartShutdown
             \/ \E fFlush \in FlushModes : FlushView(fFlush)
      PROVE  treeImages' \in {treeImages, {mapBlockIndex}}
    BY <1>6
    DEF Shutdown, NoBetterBlock, MarkedAll, SwitchedAll, Interrupt, BeginSwitch, Disconnect,
        ConnectGenesis, FlushDiskFull, UpdateMemory, StartShutdown, FlushView, disk
<1> QED
    BY <1>1, <1>2, <1>3, <1>4, <1>5, <1>6 DEF Next, HandlerStep

\* Only SetBestChain and Shutdown add an image of the coins.
LEMMA CoinImages ==
    ASSUME IInv, Next
    PROVE  \/ Shutdown \/ \E fFlush \in FlushModes : FlushView(fFlush)
           \/ coinsImages' \subseteq coinsImages
<1>1. coinsDB \in coinsImages
    BY DEF IInv, DiskInv
<1>2. ASSUME Start PROVE coinsImages' \subseteq coinsImages
    BY <1>1, <1>2 DEF Start
<1>3. ASSUME Crash PROVE coinsImages' \subseteq coinsImages
    BY <1>3 DEF Crash
<1>4. ASSUME FlushDiskFull PROVE coinsImages' \subseteq coinsImages
    BY <1>4 DEF FlushDiskFull, disk
<1> QED
    BY <1>2, <1>3, <1>4, CoinsChange

-----------------------------------------------------------------------------
\* The coins of the saved chains and of the tip

\* A view of a chain of the index, flushed to the coin cache.
LEMMA ViewFlushed ==
    ASSUME IInv, DataInv, pc = "chain", view.pindexTip = pindexNew,
           NEW tip, tip = BatchWrite(pcoinsTip, view)
    PROVE  /\ tip.pindexTip = pindexNew /\ pindexNew \in Blocks /\ pindexNew # NoBlock
           /\ Over(tip.cacheCoins, coinsDB.coins) = ViewCoins
           /\ CoinsOfChain(ViewCoins, pindexNew)
           /\ NormalCoins(ViewCoins)
<1>1. pindexNew \in Blocks /\ pindexNew # NoBlock
    BY BlockTreeAssumption DEF IInv, IndexInv, TipInv, Tree, Indexed
<1>2. tip.pindexTip = pindexNew
    BY DEF BatchWrite, Cache
<1>3. Over(tip.cacheCoins, coinsDB.coins) = ViewCoins
    BY OverWritten DEF ViewCoins, TipCoins
<1>4. CoinsOfChain(ViewCoins, pindexNew)
    BY DEF DataInv, ViewMatch
<1> QED
    BY <1>1, <1>2, <1>3, <1>4 DEF CoinsOfChain

\* Writing the coins of a cache that shows those of its chain saves them.
LEMMA CoinsSaved ==
    ASSUME SavedMatch, NEW cache, WriteCoins(DBBatchWrite(coinsDB, cache)),
           cache.pindexTip \in Tips,
           CoinsOfChain(Over(cache.cacheCoins, coinsDB.coins), cache.pindexTip),
           cache.pindexTip = NoBlock => coinsDB.hashBestChain = NoBlock
    PROVE  /\ SavedMatch'
           /\ coinsDB'.coins = Over(cache.cacheCoins, coinsDB.coins)
           /\ coinsDB'.hashBestChain = cache.pindexTip
           /\ coinsImages' \subseteq coinsImages \cup {coinsDB'}
<1>1. /\ coinsDB'.coins = Over(cache.cacheCoins, coinsDB.coins)
      /\ coinsDB'.hashBestChain = cache.pindexTip
    BY DEF WriteCoins, DBBatchWrite
<1>2. coinsImages' \subseteq coinsImages \cup {coinsDB'}
    BY DEF WriteCoins
<1>3. \A db \in coinsImages :
        db.hashBestChain \in Tips /\ CoinsOfChain(db.coins, db.hashBestChain)
    BY DEF SavedMatch
<1>4. coinsDB'.hashBestChain \in Tips /\ CoinsOfChain(coinsDB'.coins, coinsDB'.hashBestChain)
    BY <1>1
<1>5. SavedMatch'
    BY <1>2, <1>3, <1>4 DEF SavedMatch
<1> QED
    BY <1>1, <1>2, <1>5

\* Every action keeps the coins on disk, and those of the cache, at their chains.
LEMMA SavedStep == IInv /\ DataInv /\ Next => SavedMatch' /\ TipMatch'
<1> SUFFICES ASSUME IInv, DataInv, Next PROVE SavedMatch' /\ TipMatch'
    OBVIOUS
<1>0. /\ SavedMatch /\ TipMatch /\ DiskInv /\ TipInv
      /\ coinsDB \in coinsImages /\ Indexed \subseteq Blocks
    BY DEF DataInv, IInv, IndexInv, DiskInv, Tree, Indexed
<1>1. CASE Start
    <2>1. /\ coinsImages' = {coinsDB} /\ coinsDB' = coinsDB
          /\ pcoinsTip' = EmptyCache(IF coinsDB.hashBestChain \in Indexed
                                     THEN coinsDB.hashBestChain ELSE NoBlock)
        BY <1>1 DEF Start
    <2>2. SavedMatch'
        BY <1>0, <2>1 DEF SavedMatch
    <2>3. /\ coinsDB.hashBestChain \in Tips
          /\ CoinsOfChain(coinsDB.coins, coinsDB.hashBestChain)
        BY <1>0 DEF SavedMatch
    <2>4. coinsDB.hashBestChain \in Indexed \cup {NoBlock}
        <3>1. ChainOf(coinsDB.hashBestChain) \subseteq Indexed
            BY <1>0 DEF DiskInv, RestartFindsChain, IInv, IndexInv, Indexed
        <3> QED
            BY <2>3, <3>1, SelfOnChain DEF ChainOf, Tips
    <2>5. /\ pcoinsTip'.pindexTip = coinsDB.hashBestChain
          /\ Over(pcoinsTip'.cacheCoins, coinsDB.coins) = coinsDB.coins
        BY <2>1, <2>3, <2>4, FreshCache DEF CoinsOfChain
    <2>6. TipCoins' = coinsDB.coins
        BY <2>1, <2>5 DEF TipCoins, Over
    <2> QED
        BY <2>1, <2>2, <2>3, <2>5, <2>6 DEF TipMatch
<1>2. CASE Crash
    <2>1. coinsImages' \subseteq coinsImages /\ pc' = "off"
        BY <1>0, <1>2 DEF Crash, PowerOff
    <2> QED
        BY <1>0, <2>1 DEF SavedMatch, TipMatch
<1>3. CASE Shutdown
    <2>1. pc = "idle" /\ pc' = "off" /\ WriteCoins(DBBatchWrite(coinsDB, pcoinsTip))
        BY <1>3 DEF Shutdown, PowerOff
    <2>2. pcoinsTip.pindexTip \in Tips
        BY <1>0 DEF TipInv, Tips
    <2>3. /\ CoinsOfChain(Over(pcoinsTip.cacheCoins, coinsDB.coins), pcoinsTip.pindexTip)
          /\ pcoinsTip.pindexTip = NoBlock => coinsDB.hashBestChain = NoBlock
        BY <1>0, <2>1 DEF TipMatch, TipCoins
    <2>4. SavedMatch'
        BY <1>0, <2>1, <2>2, <2>3, CoinsSaved
    <2> QED
        BY <2>1, <2>4 DEF TipMatch
<1>4. ASSUME NEW fFlush \in FlushModes, FlushView(fFlush) PROVE SavedMatch' /\ TipMatch'
    <2> DEFINE tip == BatchWrite(pcoinsTip, view)
    <2>1. pc = "chain" /\ view.pindexTip = pindexNew
        BY <1>4 DEF FlushView
    <2>2. /\ tip.pindexTip = pindexNew /\ pindexNew \in Blocks /\ pindexNew # NoBlock
          /\ Over(tip.cacheCoins, coinsDB.coins) = ViewCoins
          /\ CoinsOfChain(ViewCoins, pindexNew)
          /\ NormalCoins(ViewCoins)
        BY <2>1, ViewFlushed
    <2>3. IF fFlush
          THEN WriteCoins(DBBatchWrite(coinsDB, tip)) /\ pcoinsTip' = EmptyCache(tip.pindexTip)
          ELSE pcoinsTip' = tip /\ UNCHANGED <<coinsDB, coinsImages>>
        BY <1>4 DEF FlushView, disk
    <2> HIDE DEF tip
    <2>4. CASE fFlush
        <3>1. WriteCoins(DBBatchWrite(coinsDB, tip)) /\ pcoinsTip' = EmptyCache(pindexNew)
            BY <2>2, <2>3, <2>4
        <3>2. /\ SavedMatch'
              /\ coinsDB'.coins = ViewCoins
            BY <1>0, <2>2, <3>1, CoinsSaved DEF Tips
        <3>3. /\ pcoinsTip'.pindexTip = pindexNew
              /\ Over(pcoinsTip'.cacheCoins, ViewCoins) = ViewCoins
            BY <2>2, <3>1, FreshCache
        <3>4. TipCoins' = ViewCoins
            BY <3>2, <3>3 DEF TipCoins, Over
        <3> QED
            BY <2>2, <3>2, <3>3, <3>4 DEF TipMatch
    <2>5. CASE ~fFlush
        <3>1. pcoinsTip' = tip /\ coinsDB' = coinsDB /\ coinsImages' = coinsImages
            BY <2>3, <2>5
        <3>2. TipCoins' = ViewCoins
            BY <2>2, <3>1 DEF TipCoins, Over
        <3>3. SavedMatch'
            BY <1>0, <3>1 DEF SavedMatch
        <3> QED
            BY <2>2, <3>1, <3>2, <3>3 DEF TipMatch
    <2> QED
        BY <2>4, <2>5
<1>5. CASE FlushDiskFull
    <2> DEFINE tip == BatchWrite(pcoinsTip, view)
    <2>1. /\ pc = "chain" /\ view.pindexTip = pindexNew
          /\ pcoinsTip' = tip /\ coinsDB' = coinsDB /\ coinsImages' = coinsImages
        BY <1>5 DEF FlushDiskFull, disk
    <2>2. /\ tip.pindexTip = pindexNew /\ pindexNew \in Blocks /\ pindexNew # NoBlock
          /\ Over(tip.cacheCoins, coinsDB.coins) = ViewCoins
          /\ CoinsOfChain(ViewCoins, pindexNew)
        BY <2>1, ViewFlushed
    <2> HIDE DEF tip
    <2>3. TipCoins' = ViewCoins
        BY <2>1, <2>2 DEF TipCoins, Over
    <2>4. SavedMatch'
        BY <1>0, <2>1 DEF SavedMatch
    <2> QED
        BY <2>1, <2>2, <2>3, <2>4 DEF TipMatch
<1>6. CASE UNCHANGED <<pcoinsTip, coinsDB, coinsImages>> /\ pc # "off"
    BY <1>0, <1>6 DEF SavedMatch, TipMatch, TipCoins, Over
<1> QED
    BY <1>1, <1>2, <1>3, <1>4, <1>5, <1>6, CoinsChange

-----------------------------------------------------------------------------
\* SetBestChain's view

\* The chain of the cache's tip, and what BeginSwitch has to disconnect of it.
LEMMA ForkBounds ==
    ASSUME IInv, NEW new \in Indexed
    PROVE  LET tip == pcoinsTip.pindexTip
               fork == ForkOf(tip, new)
           IN  /\ tip \in Indexed \cup {NoBlock}
               /\ ChainOf(tip) \ ChainOf(fork) \subseteq Indexed \ {Genesis}
               /\ ChainOf(new) \ ChainOf(fork) \subseteq Indexed
<1> DEFINE tip == pcoinsTip.pindexTip
           fork == ForkOf(tip, new)
<1>1. tip \in Indexed \cup {NoBlock} /\ new \in Blocks /\ tip \in Tips /\ new \in Tips
    BY DEF IInv, IndexInv, TipInv, Tree, Indexed, Tips
<1>2. ChainOf(tip) \subseteq Indexed /\ ChainOf(new) \subseteq Indexed
    BY <1>1, TipChainIndexed
<1>3. CASE tip = NoBlock
    BY <1>1, <1>2, <1>3 DEF ChainOf
<1>4. CASE tip # NoBlock
    <2>1. tip \in Blocks /\ new # NoBlock
        BY <1>1, <1>4, BlockTreeAssumption DEF Tips
    <2>2. Genesis \in ChainOf(tip) /\ Genesis \in ChainOf(new)
        BY <1>1, <1>4, <2>1, GenesisOnChain DEF ChainOf
    <2>3. fork \in Tips /\ fork # NoBlock
        BY <1>1, <2>2, ForkProperty
    <2>4. Genesis \in ChainOf(fork)
        BY <2>3, GenesisOnChain DEF ChainOf, Tips
    <2> HIDE DEF fork
    <2>5. /\ ChainOf(tip) \ ChainOf(fork) \subseteq Indexed \ {Genesis}
          /\ ChainOf(new) \ ChainOf(fork) \subseteq Indexed
        BY <1>2, <2>4
    <2> QED
        BY <1>1, <2>5 DEF fork
<1> QED
    BY <1>3, <1>4

\* SetBestChain disconnects a block of the index, with the coins of its chain,
LEMMA DisconnectBounds ==
    ASSUME IInv, ViewMatch, pc = "chain", view.pindexTip \in vDisconnect
    PROVE  /\ view.pindexTip \in Blocks \ {Genesis}
           /\ view.pindexTip \in Indexed
           /\ Parent[view.pindexTip] \in Indexed
           /\ CoinsOfChain(ViewCoins, view.pindexTip)
<1>1. /\ view.pindexTip \in Indexed /\ view.pindexTip # Genesis
      /\ CoinsOfChain(ViewCoins, view.pindexTip)
    BY DEF ViewMatch
<1>2. Tree(mapBlockIndex) /\ Indexed \subseteq Blocks
    BY DEF IInv, IndexInv, Tree, Indexed
<1>3. /\ Parent[view.pindexTip] \in Blocks
      /\ Ancestry[view.pindexTip] = {view.pindexTip} \cup Ancestry[Parent[view.pindexTip]]
    BY <1>1, <1>2, ParentBelow
<1>4. Parent[view.pindexTip] \in Ancestry[Parent[view.pindexTip]]
    BY <1>3, SelfOnChain
<1>5. Ancestry[view.pindexTip] \subseteq Indexed
    BY <1>1, <1>2 DEF Tree, Indexed
<1> QED
    BY <1>1, <1>2, <1>3, <1>4, <1>5

\* ... and the block it connects next, with those of its parent's chain.
LEMMA ConnectBounds ==
    ASSUME IInv, ViewMatch, NEW b \in Blocks, Connecting(b)
    PROVE  /\ b \in Indexed /\ pc = "chain"
           /\ CoinsOfChain(ViewCoins, Parent[b])
           /\ view.pindexTip = Parent[b]
BY DEF ViewMatch, Connecting

\* Every action keeps the coins of the view at its chain.
LEMMA ViewStep == IInv /\ DataInv /\ Next => ViewMatch'
<1> SUFFICES ASSUME IInv, DataInv, Next, pc' = "chain" PROVE ViewMatch'
    BY DEF ViewMatch
<1>0. ViewMatch /\ TipMatch /\ TipInv /\ Indexed \subseteq Blocks
    BY DEF DataInv, IInv, IndexInv, Tree, Indexed
<1>1. CASE BeginSwitch
    <2> DEFINE new == Lowest(vAttach)
               tip == pcoinsTip.pindexTip
    <2>1. /\ pc = "switch" /\ vAttach # {}
          /\ view' = EmptyCache(tip)
          /\ vDisconnect' = ChainOf(tip) \ ChainOf(ForkOf(tip, new))
          /\ vConnect' = ChainOf(new) \ ChainOf(ForkOf(tip, new))
          /\ UNCHANGED <<mapBlockIndex, pcoinsTip, coinsDB>>
        BY <1>1 DEF BeginSwitch, index
    <2>2. new \in Indexed
        BY <1>0, <2>1, LowestProperty DEF TipInv
    <2> HIDE DEF new
    <2>3. /\ tip \in Indexed \cup {NoBlock}
          /\ vDisconnect' \subseteq Indexed \ {Genesis}
          /\ vConnect' \subseteq Indexed
        BY <2>1, <2>2, ForkBounds
    <2>4. CoinsOfChain(TipCoins, tip)
        BY <1>0, <2>1 DEF TipMatch
    <2>5. view'.pindexTip = tip /\ Over(view'.cacheCoins, TipCoins) = TipCoins
        BY <2>1, <2>4, FreshCache DEF CoinsOfChain
    <2>6. ViewCoins' = TipCoins
        BY <2>1, <2>5 DEF ViewCoins, TipCoins, Over
    <2> HIDE DEF tip
    <2> QED
        BY <2>1, <2>3, <2>4, <2>5, <2>6 DEF ViewMatch, Indexed
<1>2. CASE Disconnect
    <2> DEFINE b == view.pindexTip
               after == DisconnectBlock(ViewCoins, b, mapBlockIndex[b].undo)
    <2>1. /\ pc = "chain" /\ b \in vDisconnect /\ mapBlockIndex[b].undo # NoUndo
          /\ view' = Cache(SetCoins(view.cacheCoins, Touched(b), after.coins), Parent[b])
          /\ UNCHANGED <<mapBlockIndex, pcoinsTip, coinsDB, vConnect, vDisconnect>>
        BY <1>2 DEF Disconnect, index
    <2>2. /\ b \in Blocks \ {Genesis} /\ b \in Indexed /\ Parent[b] \in Indexed
          /\ CoinsOfChain(ViewCoins, b)
        BY <1>0, <2>1, DisconnectBounds
    <2>3. UndoOfBlock(mapBlockIndex[b].undo, b)
        BY <2>1, <2>2 DEF DataInv, UndoMatch, UndoRight, IInv, IndexInv, Indexed
    <2>4. /\ CoinsOfChain(after.coins, Parent[b])
          /\ \A x \in Txids \ Touched(b) : after.coins[x] = ViewCoins[x]
        BY <2>2, <2>3, DisconnectsChain
    <2> HIDE DEF after, b
    <2>5. /\ view'.cacheCoins = SetCoins(view.cacheCoins, Touched(b), after.coins)
          /\ view'.pindexTip = Parent[b]
        BY <2>1 DEF Cache
    <2>6. Over(view'.cacheCoins, TipCoins) = after.coins
        BY <2>4, <2>5, OverSet DEF CoinsOfChain, ViewCoins
    <2>7. ViewCoins' = after.coins
        BY <2>1, <2>6 DEF ViewCoins, TipCoins, Over
    <2> QED
        BY <1>0, <2>1, <2>2, <2>4, <2>5, <2>7 DEF ViewMatch, Indexed
<1>3. CASE ConnectGenesis
    <2>1. /\ Connecting(Genesis) /\ Genesis \in Blocks
          /\ view' = Cache(view.cacheCoins, Genesis)
          /\ UNCHANGED <<mapBlockIndex, pcoinsTip, coinsDB, vConnect, vDisconnect>>
        BY <1>3, BlockTreeAssumption DEF ConnectGenesis, index
    <2>2. /\ Genesis \in Indexed /\ pc = "chain"
          /\ CoinsOfChain(ViewCoins, Parent[Genesis])
        BY <1>0, <2>1, ConnectBounds
    <2>3. CoinsOfChain(ViewCoins, Genesis)
        BY <2>2, GenesisAssumption, UtxoIs DEF CoinsOfChain
    <2>4. view'.cacheCoins = view.cacheCoins /\ view'.pindexTip = Genesis
        BY <2>1 DEF Cache
    <2>5. ViewCoins' = ViewCoins
        BY <2>1, <2>4 DEF ViewCoins, TipCoins, Over
    <2> QED
        BY <1>0, <2>1, <2>2, <2>3, <2>4, <2>5 DEF ViewMatch, Indexed
<1>4. ASSUME NEW b \in Blocks, Connect(b) PROVE ViewMatch'
    <2> DEFINE connected == ConnectBlock(ViewCoins, b)
    <2>1. /\ Connecting(b) /\ b # Genesis /\ connected.fValid
          /\ view' = Cache(SetCoins(view.cacheCoins, Touched(b), connected.coins), b)
          /\ UNCHANGED <<pcoinsTip, coinsDB, vConnect, vDisconnect>>
        BY <1>4 DEF Connect
    <2>2. b \in Indexed /\ pc = "chain" /\ CoinsOfChain(ViewCoins, Parent[b])
        BY <1>0, <2>1, ConnectBounds
    <2>3. connected.fOk
        BY <2>1, ValidIsOk
    <2>4. /\ CoinsOfChain(connected.coins, b)
          /\ \A x \in Txids \ Touched(b) : connected.coins[x] = ViewCoins[x]
        BY <2>1, <2>2, <2>3, ConnectsChain
    <2> HIDE DEF connected
    <2>5. /\ view'.cacheCoins = SetCoins(view.cacheCoins, Touched(b), connected.coins)
          /\ view'.pindexTip = b
        BY <2>1 DEF Cache
    <2>6. Over(view'.cacheCoins, TipCoins) = connected.coins
        BY <2>4, <2>5, OverSet DEF CoinsOfChain, ViewCoins
    <2>7. ViewCoins' = connected.coins
        BY <2>1, <2>6 DEF ViewCoins, TipCoins, Over
    <2>8. Indexed \subseteq Indexed'
        BY <1>4, IndexGrows DEF Connect, Connecting, Crash, PowerOff
    <2> QED
        BY <1>0, <2>1, <2>2, <2>4, <2>5, <2>7, <2>8 DEF ViewMatch
<1>5. CASE StartShutdown /\ pc = "chain" /\ UNCHANGED <<mapBlockIndex, pcoinsTip, coinsDB, handler>>
    BY <1>0, <1>5 DEF ViewMatch, ViewCoins, TipCoins, Over, Indexed, handler
<1> QED
    BY <1>1, <1>2, <1>3, <1>4, <1>5, ViewChange

-----------------------------------------------------------------------------
\* Undo data

\* What a connection leaves is the block's undo data.
LEMMA ConnectUndo ==
    ASSUME IInv, DataInv, NEW b \in Blocks, Connect(b)
    PROVE  /\ b \in Indexed /\ b # Genesis
           /\ UndoOfBlock(ConnectBlock(ViewCoins, b).vtxundo, b)
           /\ ConnectBlock(ViewCoins, b).vtxundo # NoUndo
<1>1. Connecting(b) /\ b # Genesis /\ ConnectBlock(ViewCoins, b).fValid
    BY DEF Connect
<1>2. b \in Indexed /\ CoinsOfChain(ViewCoins, Parent[b])
    BY <1>1, ConnectBounds DEF DataInv
<1>3. ConnectBlock(ViewCoins, b).fOk
    BY <1>1, ValidIsOk
<1>4. /\ UndoOfBlock(ConnectBlock(ViewCoins, b).vtxundo, b)
      /\ ConnectBlock(ViewCoins, b).vtxundo \in Seq(Seq(UndoType))
    BY <1>1, <1>2, <1>3, ConnectsChain
<1>5. NoUndo \notin Seq(Seq(UndoType))
    BY UndoAssumption DEF UndoAssumption, UndoType
<1> QED
    BY <1>1, <1>2, <1>4, <1>5

\* While the node runs, undo data stays.
LEMMA UndoStays ==
    ASSUME IInv, DataInv, Next, ~Crash, NEW c \in Indexed, mapBlockIndex[c].undo # NoUndo
    PROVE  c \in Indexed' /\ mapBlockIndex'[c].undo = mapBlockIndex[c].undo
<1>1. c \in DOMAIN mapBlockIndex' /\ c \in Blocks
    BY IndexGrows DEF Indexed, IInv, IndexInv, Tree
<1>2. CASE SameUndo(mapBlockIndex', {})
    BY <1>1, <1>2 DEF SameUndo, Indexed
<1>3. ASSUME NEW b \in Blocks, Connect(b) PROVE mapBlockIndex'[c].undo = mapBlockIndex[c].undo
    <2>1. /\ SameUndo(mapBlockIndex', {b})
          /\ b \in Indexed =>
                mapBlockIndex'[b].undo = IF mapBlockIndex[b].undo = NoUndo
                                         THEN ConnectBlock(ViewCoins, b).vtxundo
                                         ELSE mapBlockIndex[b].undo
        BY <1>3, UndoChange
    <2> QED
        BY <1>1, <2>1 DEF SameUndo
<1> QED
    BY <1>1, <1>2, <1>3, UndoChange DEF Indexed

\* Every action keeps all undo data that of its block.
LEMMA UndoStep == IInv /\ DataInv /\ Next => UndoMatch'
<1> SUFFICES ASSUME IInv, DataInv, Next PROVE UndoMatch'
    OBVIOUS
<1>0. /\ \A tree \in treeImages : UndoRight(tree)
      /\ UndoRight(mapBlockIndex)
    BY DEF DataInv, UndoMatch, IInv, IndexInv
<1>1. CASE Crash
    BY <1>0, <1>1 DEF Crash, UndoMatch
<1>2. CASE ~Crash
    <2>1. CASE SameUndo(mapBlockIndex', {})
        BY <1>0, <2>1, TreeImages DEF SameUndo, UndoRight, UndoMatch, Indexed
    <2>2. ASSUME NEW b \in Blocks, Connect(b) PROVE UndoMatch'
        <3>1. /\ SameUndo(mapBlockIndex', {b})
              /\ b \in Indexed =>
                    mapBlockIndex'[b].undo = IF mapBlockIndex[b].undo = NoUndo
                                             THEN ConnectBlock(ViewCoins, b).vtxundo
                                             ELSE mapBlockIndex[b].undo
            BY <1>2, <2>2, UndoChange
        <3>2. b \in Indexed /\ b # Genesis /\ UndoOfBlock(ConnectBlock(ViewCoins, b).vtxundo, b)
            BY <2>2, ConnectUndo
        <3>3. mapBlockIndex[b].undo # NoUndo => UndoOfBlock(mapBlockIndex[b].undo, b)
            BY <1>0, <3>2 DEF UndoRight, Indexed
        <3>4. UndoOfBlock(mapBlockIndex'[b].undo, b)
            BY <3>1, <3>2, <3>3
        <3>5. UndoRight(mapBlockIndex')
            BY <1>0, <3>1, <3>4 DEF SameUndo, UndoRight, Indexed
        <3> QED
            BY <1>0, <3>5, TreeImages DEF UndoMatch
    <2> QED
        BY <1>2, <2>1, <2>2, UndoChange
<1> QED
    BY <1>1, <1>2

\* A chain of the index that has its undo data keeps it.
LEMMA HasUndoKept ==
    ASSUME IInv, DataInv, Next, ~Crash, NEW tip, ChainOf(tip) \subseteq Indexed,
           HasUndo(mapBlockIndex, tip)
    PROVE  HasUndo(mapBlockIndex', tip)
BY UndoStays DEF HasUndo, Indexed

\* The chain the view is brought to has its undo data.
LEMMA ViewKeepsUndo ==
    ASSUME IInv, DataInv, Next, pc' = "chain"
    PROVE  HasUndo(mapBlockIndex', view'.pindexTip)
<1>0. /\ ViewMatch /\ TipInv /\ Indexed \subseteq Blocks
      /\ pc # "off" => HasUndo(mapBlockIndex, pcoinsTip.pindexTip)
      /\ pc = "chain" => HasUndo(mapBlockIndex, view.pindexTip)
    BY DEF DataInv, UndoKept, IInv, IndexInv, Tree, Indexed
<1>1. CASE BeginSwitch
    BY <1>0, <1>1 DEF BeginSwitch, EmptyCache, Cache, index
<1>2. CASE Disconnect
    <2>1. /\ pc = "chain" /\ view.pindexTip \in vDisconnect
          /\ view'.pindexTip = Parent[view.pindexTip] /\ mapBlockIndex' = mapBlockIndex
        BY <1>2 DEF Disconnect, Cache, index
    <2>2. /\ view.pindexTip \in Blocks \ {Genesis} /\ Parent[view.pindexTip] \in Indexed
        BY <1>0, <2>1, DisconnectBounds
    <2>3. ChainOf(Parent[view.pindexTip]) \subseteq ChainOf(view.pindexTip)
        BY <1>0, <2>2, ParentBelow, BlockTreeAssumption DEF ChainOf
    <2> QED
        BY <1>0, <2>1, <2>3 DEF HasUndo
<1>3. CASE ConnectGenesis
    <2>1. view'.pindexTip = Genesis
        BY <1>3 DEF ConnectGenesis, Cache
    <2> QED
        BY <2>1, GenesisAssumption, BlockTreeAssumption DEF HasUndo, ChainOf
<1>4. ASSUME NEW b \in Blocks, Connect(b) PROVE HasUndo(mapBlockIndex', view'.pindexTip)
    <2>1. Connecting(b) /\ view'.pindexTip = b /\ ~Crash
        BY <1>4 DEF Connect, Connecting, Cache, Crash, PowerOff
    <2>2. /\ pc = "chain" /\ view.pindexTip = Parent[b]
        BY <2>1 DEF Connecting
    <2>3. /\ b \in Indexed /\ b # Genesis
          /\ ConnectBlock(ViewCoins, b).vtxundo # NoUndo
        BY <1>4, ConnectUndo
    <2>4. ChainOf(Parent[b]) \subseteq Indexed
        BY <1>0, <2>2, TipChainIndexed DEF ViewMatch
    <2>5. HasUndo(mapBlockIndex', Parent[b])
        BY <1>0, <2>1, <2>2, <2>4, HasUndoKept
    <2>6. mapBlockIndex'[b].undo # NoUndo
        BY <1>4, <2>1, <2>3, UndoChange
    <2>7. ChainOf(b) = {b} \cup ChainOf(Parent[b])
        BY <2>3, ParentBelow, BlockTreeAssumption DEF ChainOf
    <2> QED
        BY <2>1, <2>5, <2>6, <2>7 DEF HasUndo
<1>5. CASE StartShutdown /\ pc = "chain" /\ UNCHANGED <<mapBlockIndex, pcoinsTip, coinsDB, handler>>
    BY <1>0, <1>5 DEF handler
<1> QED
    BY <1>1, <1>2, <1>3, <1>4, <1>5, ViewChange

\* Every action keeps undo data for each chain the node is at, or may restart from.
LEMMA KeptStep == IInv /\ DataInv /\ Next => UndoKept'
<1> SUFFICES ASSUME IInv, DataInv, Next PROVE UndoKept'
    OBVIOUS
<1>0. /\ \A tree \in treeImages, db \in coinsImages : HasUndo(tree, db.hashBestChain)
      /\ pc # "off" => HasUndo(mapBlockIndex, pcoinsTip.pindexTip)
      /\ pc = "chain" => HasUndo(mapBlockIndex, view.pindexTip)
      /\ mapBlockIndex \in treeImages /\ coinsDB \in coinsImages
      /\ TipInv /\ SavedMatch /\ TipMatch
    BY DEF DataInv, UndoKept, IInv, IndexInv, DiskInv
<1>1. \A db \in coinsImages : ChainOf(db.hashBestChain) \subseteq Indexed
    BY <1>0 DEF IInv, DiskInv, RestartFindsChain, Indexed
<1>2. ChainOf(pcoinsTip.pindexTip) \subseteq Indexed
    BY <1>0, TipChainIndexed DEF TipInv
<1>3. CASE Crash
    <2>1. /\ treeImages' \subseteq treeImages /\ coinsImages' \subseteq coinsImages
          /\ pc' = "off"
        BY <1>3 DEF Crash, PowerOff
    <2> QED
        BY <1>0, <2>1 DEF UndoKept
<1>4. CASE ~Crash
    <2>1. \A tree \in treeImages', db \in coinsImages : HasUndo(tree, db.hashBestChain)
        <3>1. \A db \in coinsImages : HasUndo(mapBlockIndex', db.hashBestChain)
            BY <1>0, <1>1, <1>4, HasUndoKept
        <3> QED
            BY <1>0, <3>1, TreeImages
    <2>2. pc' = "chain" => HasUndo(mapBlockIndex', view'.pindexTip)
        BY ViewKeepsUndo
    <2>3. CASE UNCHANGED pcoinsTip /\ pc # "off" /\ coinsImages' \subseteq coinsImages
        <3>1. HasUndo(mapBlockIndex', pcoinsTip.pindexTip)
            BY <1>0, <1>2, <1>4, <2>3, HasUndoKept
        <3> QED
            BY <2>1, <2>2, <2>3, <3>1 DEF UndoKept
    <2>4. CASE Start
        <3>1. coinsImages' = {coinsDB} /\ pcoinsTip'.pindexTip \in {coinsDB.hashBestChain, NoBlock}
            BY <2>4 DEF Start, EmptyCache, Cache
        <3>2. mapBlockIndex' \in treeImages'
            BY IndexStep DEF IndexInv
        <3>3. HasUndo(mapBlockIndex', pcoinsTip'.pindexTip)
            BY <1>0, <2>1, <3>1, <3>2 DEF HasUndo, ChainOf
        <3> QED
            BY <1>0, <2>1, <2>2, <3>1, <3>3 DEF UndoKept
    <2>5. CASE Shutdown
        <3>1. /\ pc = "idle" /\ pc' = "off" /\ treeImages' = treeImages
              /\ WriteCoins(DBBatchWrite(coinsDB, pcoinsTip))
            BY <2>5 DEF Shutdown, PowerOff
        <3>2. /\ coinsImages' \subseteq coinsImages \cup {coinsDB'}
              /\ coinsDB'.hashBestChain = IF pcoinsTip.pindexTip = NoBlock THEN coinsDB.hashBestChain
                                          ELSE pcoinsTip.pindexTip
            BY <3>1 DEF WriteCoins, DBBatchWrite
        <3>3. ASSUME NEW tree \in treeImages PROVE HasUndo(tree, coinsDB'.hashBestChain)
            <4>1. CASE PowerLoss
                BY <1>0, <3>2, <4>1 DEF IInv, DiskInv
            <4>2. CASE ~PowerLoss
                <5>1. tree = mapBlockIndex
                    BY <4>2 DEF IInv, DiskInv
                <5> QED
                    BY <1>0, <3>1, <3>2, <5>1
            <4> QED
                BY <4>1, <4>2
        <3> QED
            BY <1>0, <3>1, <3>2, <3>3 DEF UndoKept
    <2>6. ASSUME NEW fFlush \in FlushModes, FlushView(fFlush) PROVE UndoKept'
        <3>1. /\ pc = "chain" /\ view.pindexTip = pindexNew /\ pc' = "update"
              /\ pcoinsTip'.pindexTip = pindexNew
              /\ mapBlockIndex' = mapBlockIndex
            BY <2>6 DEF FlushView, BatchWrite, EmptyCache, Cache, index
        <3>2. HasUndo(mapBlockIndex', pindexNew) /\ pindexNew # NoBlock
            BY <1>0, <3>1, BlockTreeAssumption DEF TipInv, IInv, IndexInv, Tree, Indexed
        <3>3. CASE fFlush
            <4>1. /\ treeImages' = {mapBlockIndex}
                  /\ WriteCoins(DBBatchWrite(coinsDB, BatchWrite(pcoinsTip, view)))
                BY <2>6, <3>3 DEF FlushView
            <4>2. /\ coinsImages' \subseteq coinsImages \cup {coinsDB'}
                  /\ coinsDB'.hashBestChain = pindexNew
                BY <3>1, <3>2, <4>1 DEF WriteCoins, DBBatchWrite, BatchWrite, Cache
            <4> QED
                BY <1>0, <3>1, <3>2, <4>1, <4>2 DEF UndoKept
        <3>4. CASE ~fFlush
            <4>1. coinsImages' = coinsImages
                BY <2>6, <3>4 DEF FlushView, disk
            <4> QED
                BY <2>1, <3>1, <3>2, <4>1 DEF UndoKept
        <3> QED
            BY <3>3, <3>4
    <2>7. CASE FlushDiskFull
        <3>1. /\ pc = "chain" /\ view.pindexTip = pindexNew /\ pc' = "idle"
              /\ pcoinsTip'.pindexTip = pindexNew
              /\ mapBlockIndex' = mapBlockIndex /\ coinsImages' = coinsImages
            BY <2>7 DEF FlushDiskFull, ReturnDiskFull, BatchWrite, Cache, index, disk
        <3>2. HasUndo(mapBlockIndex', pindexNew)
            BY <1>0, <3>1
        <3> QED
            BY <2>1, <3>1, <3>2 DEF UndoKept
    <2> QED
        BY <1>4, <2>3, <2>4, <2>5, <2>6, <2>7, CoinsChange
<1> QED
    BY <1>3, <1>4

-----------------------------------------------------------------------------
\* VerifyDB

\* VerifyDB's turn for block b.
VerifyTurn(tree, b, s) ==
    IF tree[b].undo = NoUndo THEN [s EXCEPT !.fClean = FALSE]
    ELSE [coins  |-> DisconnectBlock(s.coins, b, tree[b].undo).coins,
          fClean |-> s.fClean /\ DisconnectBlock(s.coins, b, tree[b].undo).fClean]

\* If the coins are those of the chain and all undo data is there, VerifyDB is content.
LEMMA Verifies ==
    ASSUME NEW tree, NEW db, db.hashBestChain \in Blocks,
           ChainOf(db.hashBestChain) \subseteq DOMAIN tree,
           CoinsOfChain(db.coins, db.hashBestChain),
           UndoRight(tree), HasUndo(tree, db.hashBestChain)
    PROVE  VerifyDB(tree, db)
<1> DEFINE tip == db.hashBestChain
           n == Height[tip]
           CoinsAt(h) == CHOOSE c : CoinsOfChain(c, BlockAt(tip, h))
           state(k) == [coins |-> CoinsAt(n - k), fClean |-> TRUE]
           T == {k \in 0 .. n : \E c : CoinsOfChain(c, BlockAt(tip, n - k))}
<1>1. /\ n \in Nat /\ BlockAt(tip, n) = tip /\ ChainOf(tip) = Ancestry[tip]
      /\ \A h \in 1 .. n :
            /\ BlockAt(tip, h) \in Ancestry[tip] /\ BlockAt(tip, h) \in Blocks \ {Genesis}
            /\ Parent[BlockAt(tip, h)] = BlockAt(tip, h - 1)
    BY BlockAtIs, BlockTreeAssumption DEF ChainOf
<1>2. ASSUME NEW h \in 1 .. n
      PROVE  /\ tree[BlockAt(tip, h)].undo # NoUndo
             /\ UndoOfBlock(tree[BlockAt(tip, h)].undo, BlockAt(tip, h))
    BY <1>1 DEF UndoRight, HasUndo
<1>3. ASSUME NEW h \in 1 .. n, NEW c, CoinsOfChain(c, BlockAt(tip, h))
      PROVE  /\ DisconnectBlock(c, BlockAt(tip, h), tree[BlockAt(tip, h)].undo).fClean
             /\ CoinsOfChain(DisconnectBlock(c, BlockAt(tip, h), tree[BlockAt(tip, h)].undo).coins,
                             BlockAt(tip, h - 1))
    BY <1>1, <1>2, <1>3, DisconnectsChain
<1> HIDE DEF tip
<1>4. 0 .. n \subseteq T
    <2>1. 0 \in T
        <3>1. n - 0 = n /\ 0 \in 0 .. n
            BY <1>1
        <3> QED
            BY <1>1, <3>1 DEF tip
    <2>2. ASSUME NEW k \in 0 .. n, k \in T, k < n PROVE k + 1 \in T
        <3>1. n - k \in 1 .. n /\ (n - k) - 1 = n - (k + 1) /\ k + 1 \in 0 .. n
            BY <1>1, <2>2
        <3>2. PICK c : CoinsOfChain(c, BlockAt(tip, n - k))
            BY <2>2
        <3>3. \E d : CoinsOfChain(d, BlockAt(tip, n - (k + 1)))
            BY <1>3, <3>1, <3>2
        <3> QED
            BY <3>1, <3>3
    <2> HIDE DEF T, n
    <2> QED
        BY <1>1, <2>1, <2>2, InductionTo
<1>5. ASSUME NEW h \in 0 .. n PROVE CoinsOfChain(CoinsAt(h), BlockAt(tip, h))
    <2>1. n - h \in T /\ n - (n - h) = h
        <3>1. n - h \in 0 .. n /\ n - (n - h) = h
            BY <1>1
        <3> HIDE DEF T
        <3> QED
            BY <1>4, <3>1
    <2>2. \E c : CoinsOfChain(c, BlockAt(tip, h))
        BY <2>1
    <2> QED
        BY <2>2
<1> HIDE DEF T, CoinsAt
<1>6. state(0) = [coins |-> db.coins, fClean |-> TRUE]
    <2>1. n - 0 = n /\ n \in 0 .. n
        BY <1>1
    <2>2. CoinsAt(n) = db.coins
        BY <1>1, <1>5, <2>1, CoinsUnique DEF tip
    <2> QED
        BY <2>1, <2>2
<1>7. ASSUME NEW k \in 1 .. n
      PROVE  VerifyTurn(tree, BlockAt(tip, n - k + 1), state(k - 1)) = state(k)
    <2> DEFINE b == BlockAt(tip, n - k + 1)
    <2>1. /\ n - k + 1 \in 1 .. n /\ n - k + 1 \in 0 .. n /\ n - k \in 0 .. n
          /\ n - (k - 1) = n - k + 1 /\ (n - k + 1) - 1 = n - k
        BY <1>1
    <2>2. /\ CoinsOfChain(CoinsAt(n - k + 1), b)
          /\ CoinsOfChain(CoinsAt(n - k), BlockAt(tip, n - k))
        BY <1>5, <2>1
    <2>3. /\ DisconnectBlock(CoinsAt(n - k + 1), b, tree[b].undo).fClean
          /\ CoinsOfChain(DisconnectBlock(CoinsAt(n - k + 1), b, tree[b].undo).coins,
                          BlockAt(tip, n - k))
        BY <1>3, <2>1, <2>2
    <2>4. DisconnectBlock(CoinsAt(n - k + 1), b, tree[b].undo).coins = CoinsAt(n - k)
        BY <2>2, <2>3, CoinsUnique
    <2>5. state(k - 1) = [coins |-> CoinsAt(n - k + 1), fClean |-> TRUE]
        BY <2>1
    <2>6. tree[b].undo # NoUndo
        BY <1>2, <2>1
    <2>7. /\ state(k - 1).coins = CoinsAt(n - k + 1) /\ state(k - 1).fClean
          /\ state(k) = [coins |-> CoinsAt(n - k), fClean |-> TRUE]
        BY <2>5
    <2> HIDE DEF b, state
    <2>8. /\ DisconnectBlock(state(k - 1).coins, b, tree[b].undo).coins = CoinsAt(n - k)
          /\ DisconnectBlock(state(k - 1).coins, b, tree[b].undo).fClean
        BY <2>3, <2>4, <2>7
    <2> QED
        BY <2>6, <2>7, <2>8 DEF VerifyTurn, b
<1> DEFINE first == [coins |-> db.coins, fClean |-> TRUE]
           Loop(v) == v = [k \in 0 .. n |-> IF k = 0 THEN first
                                            ELSE VerifyTurn(tree, BlockAt(tip, n - k + 1), v[k - 1])]
           states == [k \in 0 .. n |-> state(k)]
           verified == CHOOSE v : Loop(v)
<1>8. Loop(states)
    <2>1. \A k \in 0 .. n : state(k) = IF k = 0 THEN first
                                       ELSE VerifyTurn(tree, BlockAt(tip, n - k + 1), states[k - 1])
        <3> SUFFICES ASSUME NEW k \in 0 .. n
                     PROVE  state(k) = IF k = 0 THEN first
                                       ELSE VerifyTurn(tree, BlockAt(tip, n - k + 1), states[k - 1])
            OBVIOUS
        <3>1. CASE k = 0
            BY <1>6, <3>1
        <3>2. CASE k # 0
            <4>1. k \in 1 .. n /\ k - 1 \in 0 .. n
                BY <1>1, <3>2
            <4>2. states[k - 1] = state(k - 1)
                BY <4>1
            <4> HIDE DEF states, state
            <4> QED
                BY <1>7, <3>2, <4>1, <4>2
        <3> QED
            BY <3>1, <3>2
    <2> HIDE DEF state, first
    <2> QED
        BY <2>1
<1> HIDE DEF states
<1>9. Loop(verified)
    <2> HIDE DEF Loop
    <2> QED
        BY <1>8
<1> HIDE DEF verified
<1>10. verified[n].fClean
    <2>1. Follows(verified, states, n)
        <3>1. verified[0] = states[0]
            BY <1>1, <1>8, <1>9
        <3>2. ASSUME NEW k \in 1 .. n, verified[k - 1] = states[k - 1]
              PROVE  verified[k] = states[k]
            <4>1. k \in 0 .. n /\ k # 0
                BY <1>1
            <4> HIDE DEF n, state, first
            <4>2. states[k] = VerifyTurn(tree, BlockAt(tip, n - k + 1), states[k - 1])
                BY <1>8, <4>1
            <4>3. verified[k] = VerifyTurn(tree, BlockAt(tip, n - k + 1), verified[k - 1])
                BY <1>9, <4>1
            <4> QED
                BY <3>2, <4>2, <4>3
        <3> QED
            BY <3>1, <3>2 DEF Follows
    <2>2. n \in 0 .. n
        BY <1>1
    <2>3. verified[n] = states[n]
        BY <1>1, <2>1, <2>2, LoopIs
    <2> QED
        BY <2>2, <2>3 DEF states
<1> QED
    BY <1>10 DEF VerifyDB, VerifyTurn, BlockAt, verified, tip

-----------------------------------------------------------------------------
\* The money supply

\* The money supply of each connected block of the tree is what its chain leaves unspent.
MoneyRight(tree) ==
    /\ Genesis \in DOMAIN tree => tree[Genesis].nMoneySupply = 0
    /\ \A b \in DOMAIN tree \ {Genesis} : tree[b].undo # NoUndo =>
        Valued(Utxo(b)) /\ tree[b].nMoneySupply = Total(Utxo(b))

MoneyInv ==
    /\ \A tree \in treeImages : MoneyRight(tree)
    /\ pc = "off" => pcoinsTip.pindexTip = NoBlock

\* In tree the blocks outside of changed have the undo data and the money supply of the
\* index, and new ones none.
SameMoney(tree, changed) ==
    /\ SameUndo(tree, changed)
    /\ \A c \in DOMAIN tree \ changed :
        tree[c].nMoneySupply = IF c \in Indexed THEN mapBlockIndex[c].nMoneySupply ELSE 0

\* Only ConnectBlock writes a money supply, once its loop has completed.
LEMMA MoneyChange ==
    ASSUME IInv, Next, ~Crash
    PROVE  \/ SameMoney(mapBlockIndex', {})
           \/ \E b \in Blocks \ {Genesis} :
                /\ Connecting(b) /\ ConnectBlock(ViewCoins, b).fOk
                /\ SameMoney(mapBlockIndex', {b})
                /\ b \in Indexed =>
                    mapBlockIndex'[b].nMoneySupply = MoneySupply(b, ConnectBlock(ViewCoins, b))
<1> DEFINE Written(b) ==
                /\ Connecting(b) /\ ConnectBlock(ViewCoins, b).fOk
                /\ SameMoney(mapBlockIndex', {b})
                /\ b \in Indexed =>
                    mapBlockIndex'[b].nMoneySupply = MoneySupply(b, ConnectBlock(ViewCoins, b))
<1>0. Tree(mapBlockIndex) /\ Indexed \subseteq Blocks /\ vAttach \subseteq Indexed
    BY DEF IInv, IndexInv, TipInv, Tree, Indexed
<1>u. ASSUME NEW b \in Blocks, SameUndo(mapBlockIndex', {}) \/ Connect(b)
      PROVE  SameUndo(mapBlockIndex', {b})
    BY <1>u, UndoChange DEF SameUndo
\* A tree in which the entry of one block has changed.
<1>1. ASSUME NEW b, NEW entry, mapBlockIndex' = [mapBlockIndex EXCEPT ![b] = entry]
      PROVE  /\ \A c \in DOMAIN mapBlockIndex' \ {b} :
                    mapBlockIndex'[c].nMoneySupply = IF c \in Indexed THEN mapBlockIndex[c].nMoneySupply
                                                     ELSE 0
             /\ b \in Indexed => mapBlockIndex'[b] = entry
    BY <1>1 DEF Indexed
<1>2. ASSUME Start PROVE SameMoney(mapBlockIndex', {})
    <2> DEFINE tree == IF Genesis \in Indexed THEN mapBlockIndex
                       ELSE AddToBlockIndex(mapBlockIndex, Genesis)
    <2>1. mapBlockIndex' = tree
        BY <1>2 DEF Start
    <2>2. SameMoney(tree, {})
        BY <1>0 DEF SameMoney, SameUndo, AddToBlockIndex, NewIndex, Indexed
    <2> QED
        BY <2>1, <2>2
<1>3. ASSUME NEW b \in Blocks, AcceptBlock(b) PROVE SameMoney(mapBlockIndex', {})
    <2>1. mapBlockIndex' = AddToBlockIndex(mapBlockIndex, b) /\ b \notin Indexed
        BY <1>3 DEF AcceptBlock, WriteTree
    <2>2. SameMoney(AddToBlockIndex(mapBlockIndex, b), {})
        BY <2>1 DEF SameMoney, SameUndo, AddToBlockIndex, NewIndex, Indexed
    <2> QED
        BY <2>1, <2>2
<1>4. ASSUME MarkFailedChild, SameUndo(mapBlockIndex', {}) PROVE SameMoney(mapBlockIndex', {})
    <2>1. PICK b \in vAttach : mapBlockIndex' = [mapBlockIndex EXCEPT ![b].fFailedChild = TRUE]
        BY <1>4 DEF MarkFailedChild, WriteTree
    <2>2. b \in Indexed /\ Entry(mapBlockIndex[b])
        BY <1>0 DEF Tree, Indexed
    <2> DEFINE entry == [mapBlockIndex[b] EXCEPT !.fFailedChild = TRUE]
    <2>3. entry.nMoneySupply = mapBlockIndex[b].nMoneySupply
        BY <2>2 DEF Entry
    <2>4. mapBlockIndex' = [mapBlockIndex EXCEPT ![b] = entry]
        BY <2>1
    <2> HIDE DEF entry
    <2> QED
        BY <1>1, <1>4, <2>2, <2>3, <2>4 DEF SameMoney
<1>5. ASSUME NEW b \in Blocks, ConnectFails(b), SameUndo(mapBlockIndex', {})
      PROVE  SameMoney(mapBlockIndex', {}) \/ (b # Genesis /\ Written(b))
    <2> DEFINE connected == ConnectBlock(ViewCoins, b)
               nMoneySupply == MoneySupply(b, connected)
               entry == [mapBlockIndex[b] EXCEPT
                            !.nMoneySupply = IF connected.fOk THEN nMoneySupply ELSE @,
                            !.fFailedValid = TRUE]
    <2>1. /\ mapBlockIndex' = [mapBlockIndex EXCEPT
                ![b].nMoneySupply = IF connected.fOk THEN nMoneySupply ELSE @,
                ![b].fFailedValid = TRUE]
          /\ Connecting(b) /\ b # Genesis
        BY <1>5 DEF ConnectFails, WriteTree
    <2>2. connected.fOk <=> ConnectBlock(ViewCoins, b).fOk
        OBVIOUS
    <2> HIDE DEF connected, nMoneySupply
    <2>3. b \in Indexed =>
            entry.nMoneySupply = IF connected.fOk THEN nMoneySupply
                                 ELSE mapBlockIndex[b].nMoneySupply
        BY <1>0 DEF Tree, Entry, Indexed
    <2>4. mapBlockIndex' = [mapBlockIndex EXCEPT ![b] = entry]
        BY <1>0, <2>1 DEF Tree
    <2> HIDE DEF entry
    <2>5. CASE connected.fOk
        <3>1. b \in Indexed => mapBlockIndex'[b].nMoneySupply = nMoneySupply
            BY <1>1, <2>3, <2>4, <2>5
        <3>2. SameMoney(mapBlockIndex', {b})
            BY <1>1, <1>5, <1>u, <2>4 DEF SameMoney
        <3> QED
            BY <2>1, <2>2, <2>5, <3>1, <3>2 DEF nMoneySupply, connected
    <2>6. CASE ~connected.fOk
        <3>1. SameMoney(mapBlockIndex', {})
            BY <1>1, <1>5, <2>3, <2>4, <2>6 DEF SameMoney, Indexed
        <3> QED
            BY <3>1
    <2> QED
        BY <2>5, <2>6
<1>6. ASSUME NEW b \in Blocks, ConnectDiskFull(b) \/ InterruptConnect(b), SameUndo(mapBlockIndex', {})
      PROVE  b # Genesis /\ Written(b)
    <2> DEFINE nMoneySupply == MoneySupply(b, ConnectBlock(ViewCoins, b))
               entry == [mapBlockIndex[b] EXCEPT !.nMoneySupply = nMoneySupply]
    <2>1. /\ mapBlockIndex' = [mapBlockIndex EXCEPT ![b].nMoneySupply = nMoneySupply]
          /\ Connecting(b) /\ b # Genesis
          /\ ConnectBlock(ViewCoins, b).fOk
        BY <1>6, ValidIsOk DEF ConnectDiskFull, InterruptConnect, WriteTree
    <2> HIDE DEF nMoneySupply
    <2>2. b \in Indexed => entry.nMoneySupply = nMoneySupply
        BY <1>0 DEF Tree, Entry, Indexed
    <2>3. mapBlockIndex' = [mapBlockIndex EXCEPT ![b] = entry]
        BY <2>1
    <2> HIDE DEF entry
    <2>4. b \in Indexed => mapBlockIndex'[b].nMoneySupply = nMoneySupply
        BY <1>1, <2>2, <2>3
    <2>5. SameMoney(mapBlockIndex', {b})
        BY <1>1, <1>6, <1>u, <2>3 DEF SameMoney
    <2> QED
        BY <2>1, <2>4, <2>5 DEF nMoneySupply
<1>7. ASSUME NEW b \in Blocks, Connect(b) PROVE b # Genesis /\ Written(b)
    <2> DEFINE nMoneySupply == MoneySupply(b, ConnectBlock(ViewCoins, b))
               vtxundo == ConnectBlock(ViewCoins, b).vtxundo
               entry == [mapBlockIndex[b] EXCEPT
                            !.nMoneySupply = nMoneySupply,
                            !.undo = IF @ = NoUndo THEN vtxundo ELSE @,
                            !.fScripts = TRUE]
    <2>1. /\ mapBlockIndex' = [mapBlockIndex EXCEPT
                ![b].nMoneySupply = nMoneySupply,
                ![b].undo = IF @ = NoUndo THEN vtxundo ELSE @,
                ![b].fScripts = TRUE]
          /\ Connecting(b) /\ b # Genesis
          /\ ConnectBlock(ViewCoins, b).fOk
        BY <1>7, ValidIsOk DEF Connect, WriteTree
    <2> HIDE DEF nMoneySupply, vtxundo
    <2>2. b \in Indexed => entry.nMoneySupply = nMoneySupply
        BY <1>0 DEF Tree, Entry, Indexed
    <2>3. mapBlockIndex' = [mapBlockIndex EXCEPT ![b] = entry]
        BY <1>0, <2>1 DEF Tree
    <2> HIDE DEF entry
    <2>4. b \in Indexed => mapBlockIndex'[b].nMoneySupply = nMoneySupply
        BY <1>1, <2>2, <2>3
    <2>5. SameMoney(mapBlockIndex', {b})
        BY <1>1, <1>7, <1>u, <2>3 DEF SameMoney
    <2> QED
        BY <2>1, <2>4, <2>5 DEF nMoneySupply
<1>8. ASSUME UNCHANGED mapBlockIndex PROVE SameMoney(mapBlockIndex', {})
    BY <1>8 DEF SameMoney, SameUndo, Indexed
<1>9. \/ Start \/ MarkFailedChild \/ UNCHANGED mapBlockIndex
      \/ \E b \in Blocks : \/ AcceptBlock(b) \/ Connect(b) \/ ConnectFails(b)
                          \/ ConnectDiskFull(b) \/ InterruptConnect(b)
    BY DEF Next, HandlerStep, NoBetterBlock, MarkedAll, SwitchedAll, FindFailed, Attach,
        Interrupt, BeginSwitch, Disconnect, ConnectGenesis, FlushView, FlushDiskFull,
        UpdateMemory, StartShutdown, Shutdown, EnforceCheckpoint, index
<1>10. SameUndo(mapBlockIndex', {}) \/ \E b \in Blocks : Connect(b)
    BY UndoChange
<1> HIDE DEF Written
<1>11. SameMoney(mapBlockIndex', {}) \/ \E b \in Blocks \ {Genesis} : Written(b)
    BY <1>2, <1>3, <1>4, <1>5, <1>6, <1>7, <1>8, <1>9, <1>10
<1> QED
    BY <1>11 DEF Written

\* ConnectBlock's money supply is right if that of the parent is.
LEMMA MoneyConnects ==
    ASSUME IInv, DataInv, MoneyRight(mapBlockIndex),
           NEW b \in Blocks \ {Genesis}, Connecting(b), ConnectBlock(ViewCoins, b).fOk
    PROVE  /\ b \in Indexed /\ Valued(Utxo(b))
           /\ MoneySupply(b, ConnectBlock(ViewCoins, b)) = Total(Utxo(b))
<1> DEFINE p == Parent[b]
<1>1. /\ b \in Indexed /\ pc = "chain" /\ CoinsOfChain(ViewCoins, p) /\ view.pindexTip = p
    BY ConnectBounds DEF DataInv
<1>2. p \in Indexed /\ p \in Blocks /\ p \in ChainOf(p)
    <2>1. Parent[b] \in Blocks /\ Ancestry[b] = {b} \cup Ancestry[Parent[b]]
        BY ChildAssumption
    <2>2. Ancestry[b] \subseteq Indexed
        BY <1>1 DEF IInv, IndexInv, Tree, Indexed
    <2>3. p \in Ancestry[p]
        BY <2>1, SelfOnChain
    <2> QED
        BY <2>1, <2>2, <2>3, BlockTreeAssumption DEF ChainOf
<1>3. Valued(Utxo(p)) /\ mapBlockIndex[p].nMoneySupply = Total(Utxo(p))
    <2>1. CASE p = Genesis
        BY <1>2, <2>1, UtxoIs, TotalOfNone DEF MoneyRight, Indexed
    <2>2. CASE p # Genesis
        <3>1. mapBlockIndex[p].undo # NoUndo
            BY <1>1, <1>2, <2>2 DEF DataInv, UndoKept, HasUndo, Indexed
        <3> QED
            BY <1>2, <2>2, <3>1 DEF MoneyRight, Indexed
    <2> QED
        BY <2>1, <2>2
<1>4. Valued(Utxo(b)) /\ Total(Utxo(b)) = Total(Utxo(p)) + ConnectBlock(ViewCoins, b).nSupply
    BY <1>1, <1>3, SupplyConnects
<1>5. MoneySupply(b, ConnectBlock(ViewCoins, b)) = Total(Utxo(b))
    BY <1>3, <1>4 DEF MoneySupply
<1> QED
    BY <1>1, <1>4, <1>5

\* Only Shutdown and Crash stop the node.
LEMMA StaysOn ==
    ASSUME Next, ~Shutdown, ~Crash
    PROVE  pc' # "off"
<1>1. ASSUME NEW b \in Blocks,
             \/ AcceptBlock(b) \/ EnforceCheckpoint(b) \/ FindFailed(b) \/ Attach(b)
             \/ Connect(b) \/ ConnectFails(b) \/ ConnectDiskFull(b) \/ InterruptConnect(b)
      PROVE  pc' # "off"
    BY <1>1
    DEF AcceptBlock, EnforceCheckpoint, FindFailed, Attach, Connecting, Connect, ConnectFails, ConnectDiskFull,
        InterruptConnect, Return, ReturnDiskFull
<1>2. ASSUME \/ Start \/ NoBetterBlock \/ MarkFailedChild \/ MarkedAll \/ SwitchedAll
             \/ Interrupt \/ BeginSwitch \/ Disconnect \/ ConnectGenesis \/ FlushDiskFull
             \/ UpdateMemory \/ StartShutdown \/ \E fFlush \in FlushModes : FlushView(fFlush)
      PROVE  pc' # "off"
    BY <1>2
    DEF Start, NoBetterBlock, MarkFailedChild, MarkedAll, SwitchedAll, Interrupt, BeginSwitch,
        Disconnect, ConnectGenesis, Connecting, FlushDiskFull, UpdateMemory, StartShutdown,
        FlushView, Return, ReturnDiskFull
<1> QED
    BY <1>1, <1>2 DEF Next, HandlerStep

\* Every action keeps the money supplies right.
LEMMA MoneyStep == IInv /\ DataInv /\ MoneyInv /\ Next => MoneyInv'
<1> SUFFICES ASSUME IInv, DataInv, MoneyInv, Next PROVE MoneyInv'
    OBVIOUS
<1>0. /\ \A tree \in treeImages : MoneyRight(tree)
      /\ MoneyRight(mapBlockIndex)
    BY DEF MoneyInv, IInv, IndexInv
<1>1. \A tree \in treeImages' : MoneyRight(tree)
    <2>1. CASE Crash
        BY <1>0, <2>1 DEF Crash
    <2>2. CASE ~Crash
        <3>1. CASE SameMoney(mapBlockIndex', {})
            <4>1. MoneyRight(mapBlockIndex')
                BY <1>0, <3>1 DEF SameMoney, SameUndo, MoneyRight, Indexed
            <4> QED
                BY <1>0, <4>1, TreeImages
        <3>2. ASSUME NEW b \in Blocks \ {Genesis},
                     /\ Connecting(b) /\ ConnectBlock(ViewCoins, b).fOk
                     /\ SameMoney(mapBlockIndex', {b})
                     /\ b \in Indexed =>
                        mapBlockIndex'[b].nMoneySupply = MoneySupply(b, ConnectBlock(ViewCoins, b))
              PROVE  \A tree \in treeImages' : MoneyRight(tree)
            <4>1. Valued(Utxo(b)) /\ mapBlockIndex'[b].nMoneySupply = Total(Utxo(b))
                BY <1>0, <3>2, MoneyConnects
            <4>2. MoneyRight(mapBlockIndex')
                BY <1>0, <3>2, <4>1 DEF SameMoney, SameUndo, MoneyRight, Indexed
            <4> QED
                BY <1>0, <4>2, TreeImages
        <3> QED
            BY <2>2, <3>1, <3>2, MoneyChange
    <2> QED
        BY <2>1, <2>2
<1>2. pc' = "off" => pcoinsTip'.pindexTip = NoBlock
    <2>1. CASE Shutdown \/ Crash
        BY <2>1 DEF Shutdown, Crash, PowerOff, EmptyCache, Cache
    <2>2. CASE ~(Shutdown \/ Crash)
        BY <2>2, StaysOn
    <2> QED
        BY <2>1, <2>2
<1> QED
    BY <1>1, <1>2 DEF MoneyInv

-----------------------------------------------------------------------------
\* The theorems

\* A fresh data directory satisfies the invariant.
LEMMA InitData == Init => DataInv
<1> SUFFICES ASSUME Init PROVE DataInv
    OBVIOUS
<1>1. SavedMatch
    BY NoCoins DEF Init, SavedMatch, EmptyDB, Tips
<1>2. TipMatch /\ ViewMatch
    BY DEF Init, TipMatch, ViewMatch
<1>3. UndoMatch
    BY DEF Init, UndoMatch, UndoRight
<1>4. UndoKept
    BY DEF Init, UndoKept, HasUndo, EmptyDB, ChainOf
<1> QED
    BY <1>1, <1>2, <1>3, <1>4 DEF DataInv

\* A step that changes nothing keeps it.
LEMMA StutterData == DataInv /\ UNCHANGED vars => DataInv'
<1> SUFFICES ASSUME DataInv, UNCHANGED vars PROVE DataInv'
    OBVIOUS
<1> USE DEF vars, index, memory, disk, mode, handler, DataInv
<1>1. TipCoins' = TipCoins
    BY DEF TipCoins, Over
<1>2. ViewCoins' = ViewCoins
    BY <1>1 DEF ViewCoins, Over
<1>3. SavedMatch' /\ TipMatch' /\ ViewMatch'
    BY <1>1, <1>2 DEF SavedMatch, TipMatch, ViewMatch, Indexed
<1>4. UndoMatch' /\ UndoKept'
    BY DEF UndoMatch, UndoKept
<1> QED
    BY <1>3, <1>4

\* DataInv holds in every state of the node.
THEOREM DataInvariance == Spec => []DataInv
<1>1. IInv /\ DataInv /\ [Next]_vars => DataInv'
    BY SavedStep, ViewStep, UndoStep, KeptStep, StutterData DEF DataInv
<1> QED
    BY <1>1, InitData, Invariance, PTL DEF Spec

\* In every layer - the images of the database a failure can leave, the coin cache, the
\* view of a reorganisation - and in every state, the coins are exactly the unspent
\* outputs of the chain that ends in the layer's best block.
THEOREM CoinsAlwaysMatch == Spec => []CoinsMatchChain
<1>1. IInv /\ DataInv => CoinsMatchChain
    BY DEF IInv, DiskInv, DataInv, SavedMatch, TipMatch, ViewMatch, CoinsOfChain, CoinsMatchChain
<1> QED
    BY <1>1, DataInvariance, Invariance, PTL

\* A reorganisation never meets a block without undo data, or with undo data that does not
\* fit the coins: DisconnectBlock's error returns are never taken.
THEOREM AlwaysDisconnects == Spec => []DisconnectsCleanly
<1>1. ASSUME IInv, DataInv, pc = "chain", view.pindexTip \in vDisconnect
      PROVE  /\ mapBlockIndex[view.pindexTip].undo # NoUndo
             /\ DisconnectBlock(ViewCoins, view.pindexTip,
                                mapBlockIndex[view.pindexTip].undo).fClean
    <2>1. /\ view.pindexTip \in Blocks \ {Genesis} /\ view.pindexTip \in Indexed
          /\ CoinsOfChain(ViewCoins, view.pindexTip)
        BY <1>1, DisconnectBounds DEF DataInv
    <2>2. view.pindexTip \in ChainOf(view.pindexTip)
        BY <2>1, SelfOnChain, BlockTreeAssumption DEF ChainOf
    <2>3. mapBlockIndex[view.pindexTip].undo # NoUndo
        BY <1>1, <2>1, <2>2 DEF DataInv, UndoKept, HasUndo, Indexed
    <2>4. UndoOfBlock(mapBlockIndex[view.pindexTip].undo, view.pindexTip)
        BY <1>1, <2>1, <2>3 DEF DataInv, UndoMatch, UndoRight, IInv, IndexInv, Indexed
    <2> QED
        BY <2>1, <2>3, <2>4, DisconnectsChain
<1>2. IInv /\ DataInv => DisconnectsCleanly
    BY <1>1 DEF DisconnectsCleanly
<1> QED
    BY <1>2, DataInvariance, Invariance, PTL

\* ConnectBlock accepts a block exactly when the consensus rules, stated over the outputs
\* of the chain it extends, do: caches, flushes, reorganisations, failures and restarts
\* never change the verdict.
THEOREM VerdictsExact == Spec => []ConnectIsExact
<1>1. ASSUME IInv, DataInv, NEW b \in Blocks \ {Genesis}, Connecting(b)
      PROVE  ConnectBlock(ViewCoins, b).fValid <=> ValidOn(Utxo(Parent[b]), b)
    <2>1. CoinsOfChain(ViewCoins, Parent[b])
        BY <1>1, ConnectBounds DEF DataInv
    <2> QED
        BY <2>1, ConnectBlockExact DEF CoinsOfChain
<1>2. IInv /\ DataInv => ConnectIsExact
    BY <1>1 DEF ConnectIsExact
<1> QED
    BY <1>2, DataInvariance, Invariance, PTL

\* After a crash, a power failure or a shutdown at any moment, VerifyDB accepts every pair
\* of images of the two databases: the node can start again.
THEOREM RestartsVerify == Spec => []RestartVerifies
<1>1. ASSUME IInv, DataInv, NEW tree \in treeImages, NEW db \in coinsImages
      PROVE  VerifyDB(tree, db)
    <2>1. /\ UndoRight(tree) /\ HasUndo(tree, db.hashBestChain)
          /\ db.hashBestChain \in Tips /\ CoinsOfChain(db.coins, db.hashBestChain)
          /\ ChainOf(db.hashBestChain) \subseteq DOMAIN tree
        BY <1>1 DEF DataInv, UndoMatch, UndoKept, SavedMatch, IInv, DiskInv, RestartFindsChain
    <2>2. CASE db.hashBestChain \in Blocks
        BY <2>1, <2>2, Verifies
    <2>3. CASE db.hashBestChain = NoBlock
        <3>1. NoBlock \notin DOMAIN tree
            BY <1>1, BlockTreeAssumption DEF IInv, IndexInv, Tree
        <3> QED
            BY <2>3, <3>1 DEF VerifyDB
    <2> QED
        BY <2>1, <2>2, <2>3 DEF Tips
<1>2. IInv /\ DataInv => RestartVerifies
    BY <1>1 DEF RestartVerifies
<1> QED
    BY <1>2, DataInvariance, Invariance, PTL

\* The money supply recorded for the best block is the value of the unspent outputs,
\* whatever route of connections, reorganisations and restarts led to it.
THEOREM SupplyMatches == Spec => []MoneySupplyMatchesCoins
<1>1. Init => MoneyInv
    BY DEF Init, MoneyInv, MoneyRight, EmptyCache, Cache
<1>2. MoneyInv /\ UNCHANGED vars => MoneyInv'
    BY DEF MoneyInv, MoneyRight, vars, index, memory, disk, mode, handler
<1>3. IInv /\ DataInv /\ MoneyInv /\ [Next]_vars => MoneyInv'
    BY <1>2, MoneyStep
<1>4. ASSUME IInv, DataInv, MoneyInv, pcoinsTip.pindexTip # NoBlock
      PROVE  mapBlockIndex[pcoinsTip.pindexTip].nMoneySupply = Total(Unspent(TipCoins))
    <2> DEFINE tip == pcoinsTip.pindexTip
    <2>1. /\ pc # "off" /\ tip \in Indexed /\ tip \in Blocks /\ tip \in ChainOf(tip)
          /\ Unspent(TipCoins) = Utxo(tip) /\ MoneyRight(mapBlockIndex)
        <3>1. pc # "off" /\ tip \in Indexed /\ tip \in Blocks
            BY <1>4 DEF MoneyInv, IInv, TipInv, IndexInv, Tree, Indexed
        <3>2. tip \in ChainOf(tip)
            BY <3>1, SelfOnChain, BlockTreeAssumption DEF ChainOf
        <3>3. Unspent(TipCoins) = Utxo(tip) /\ MoneyRight(mapBlockIndex)
            BY <1>4, <3>1 DEF DataInv, TipMatch, CoinsOfChain, MoneyInv, IInv, IndexInv
        <3> QED
            BY <3>1, <3>2, <3>3
    <2>2. CASE tip = Genesis
        BY <2>1, <2>2, UtxoIs, TotalOfNone DEF MoneyRight, Indexed
    <2>3. CASE tip # Genesis
        <3>1. mapBlockIndex[tip].undo # NoUndo
            BY <1>4, <2>1, <2>3 DEF DataInv, UndoKept, HasUndo, Indexed
        <3> QED
            BY <2>1, <2>3, <3>1 DEF MoneyRight, Indexed
    <2> QED
        BY <2>2, <2>3
<1>5. IInv /\ DataInv /\ MoneyInv => MoneySupplyMatchesCoins
    BY <1>4 DEF MoneySupplyMatchesCoins
<1> QED
    BY <1>1, <1>3, <1>5, DataInvariance, Invariance, PTL DEF Spec

-----------------------------------------------------------------------------
\* The node's promise

ValidTips == ValidBlocks \cup {NoBlock}

CacheAtTip ==
    /\ pc # "off" =>
        \/ pcoinsTip.pindexTip = pindexBest
        \/ /\ pcoinsTip.pindexTip \in Blocks
           /\ fEnforced \/ BetterThanBest(pcoinsTip.pindexTip)
    /\ pc = "update" => pcoinsTip.pindexTip = pindexNew

CacheInv == CacheAtTip /\ \A db \in coinsImages : db.hashBestChain \in Tips

\* The best block, the coin cache, the saved coins and the view end valid chains; no
\* valid block is about to be marked.
TipsValid ==
    /\ pindexBest \in ValidTips
    /\ pcoinsTip.pindexTip \in ValidTips
    /\ \A db \in coinsImages : db.hashBestChain \in ValidTips
    /\ pc = "chain" => view.pindexTip \in ValidTips
    /\ NoBlock \notin vDisconnect
    /\ pc = "mark" => vAttach \cap ValidBlocks = {}

ValidInv == FailedIsInvalid /\ TipsValid

CandidateInv ==
    pc # "off" => \A b \in Indexed : ~Failed(mapBlockIndex[b]) => b \in setBlockIndexValid

\* The last block ConnectBestBlock has to switch to, or the one it stops at.  (When
\* hashCheckpoint is set, SetBestChain was not called by ConnectBestBlock.)
Goal == IF pc = "switch" THEN pindexBest ELSE pindexNew

BoundInv ==
    pc \in {"switch", "chain", "update"} /\ hashCheckpoint = NoBlock =>
        \A c \in setBlockIndexValid : \E a \in vAttach \cup {Goal} : ChainWork[c] <= WorkOf(a)

Clean(b) == \A a \in ChainOf(b) : ~Failed(mapBlockIndex[a])

Heavier == {b \in Indexed : Clean(b) /\ ChainWork[b] > WorkOf(pindexBest)}

HeavierInv ==
    ~fRequestShutdown /\ ~fEnforced =>
        /\ pc = "idle" => Heavier = {}
        /\ ~fStarting /\ pc \in {"best", "mark"} => \E n \in Blocks : Heavier \subseteq {n}
        /\ ~fStarting /\ pc = "switch" => \E n \in Blocks : Heavier \cup vAttach \subseteq {n}
        /\ ~fStarting /\ pc \in {"chain", "update"} =>
            Heavier \subseteq {pindexNew} /\ vAttach = {}

-----------------------------------------------------------------------------
\* Valid blocks

\* The genesis block is valid.
LEMMA GenesisValid == Genesis \in ValidBlocks
BY GenesisAssumption, BlockTreeAssumption DEF ValidBlocks, ValidChain

\* Every block of a valid chain ends a valid chain.
LEMMA AncestorValid ==
    ASSUME NEW b \in ValidBlocks, NEW a \in Ancestry[b]
    PROVE  a \in ValidBlocks
<1>1. b \in Blocks /\ ValidChain[b]
    BY DEF ValidBlocks
<1>2. a \in Blocks /\ Ancestry[a] \subseteq Ancestry[b]
    BY <1>1, OnChain
<1> QED
    BY <1>1, <1>2 DEF ValidBlocks, ValidChain

\* A block on a valid chain is valid if it obeys the rules on that chain's outputs.
LEMMA ChildValid ==
    ASSUME NEW b \in Blocks \ {Genesis}, Parent[b] \in ValidTips
    PROVE  b \in ValidBlocks <=> ValidOn(Utxo(Parent[b]), b)
<1>1. /\ Parent[b] \in Blocks
      /\ Ancestry[b] = {b} \cup Ancestry[Parent[b]]
      /\ b \in Ancestry[b]
    BY ParentBelow
<1>2. Parent[b] # NoBlock
    BY <1>1, BlockTreeAssumption
<1>3. ValidChain[Parent[b]]
    BY <1>2 DEF ValidTips, ValidBlocks
<1>4. Utxo(Parent[b]) = UtxoOf[Parent[b]]
    BY <1>2 DEF Utxo
<1>5. ValidChain[b] <=> ValidOn(UtxoOf[Parent[b]], b)
    BY <1>1, <1>3 DEF ValidChain
<1> QED
    BY <1>4, <1>5 DEF ValidBlocks

-----------------------------------------------------------------------------
\* The blocks marked failed

\* In tree no block but those of changed has other marks than in the index, and no
\* new one is marked.
MarksKept(tree, changed) ==
    \A c \in DOMAIN tree \ changed :
        IF c \in Indexed THEN Failed(tree[c]) <=> Failed(mapBlockIndex[c])
                         ELSE ~Failed(tree[c])

\* Block b is marked failed, and is a candidate no more.
Marks(b) ==
    /\ MarksKept(mapBlockIndex', {b})
    /\ b \in Indexed => Failed(mapBlockIndex'[b])
    /\ Indexed' = Indexed
    /\ setBlockIndexValid' = setBlockIndexValid \ {b}

\* The marks change only where ConnectBestBlock marks a descendant of a failed block
\* and where SetBestChain finds a block invalid.
LEMMA MarkStep ==
    ASSUME IInv, Next
    PROVE  /\ MarkFailedChild => \E b \in vAttach : Marks(b)
           /\ \A b \in Blocks : ConnectFails(b) => Marks(b)
           /\ \/ Crash \/ MarkFailedChild \/ \E b \in Blocks : ConnectFails(b)
              \/ MarksKept(mapBlockIndex', {})
<1>0. Tree(mapBlockIndex) /\ Indexed \subseteq Blocks /\ vAttach \subseteq Indexed
    BY DEF IInv, IndexInv, TipInv, Tree, Indexed
<1>1. ASSUME Start PROVE MarksKept(mapBlockIndex', {})
    <2> DEFINE tree == IF Genesis \in Indexed THEN mapBlockIndex
                       ELSE AddToBlockIndex(mapBlockIndex, Genesis)
    <2>1. mapBlockIndex' = tree
        BY <1>1 DEF Start
    <2>2. MarksKept(tree, {})
        BY <1>0 DEF MarksKept, AddToBlockIndex, NewIndex, Failed, Indexed
    <2> QED
        BY <2>1, <2>2
<1>2. ASSUME NEW b \in Blocks, AcceptBlock(b) PROVE MarksKept(mapBlockIndex', {})
    <2>1. mapBlockIndex' = AddToBlockIndex(mapBlockIndex, b) /\ b \notin Indexed
        BY <1>2 DEF AcceptBlock, WriteTree
    <2>2. MarksKept(AddToBlockIndex(mapBlockIndex, b), {})
        BY <2>1 DEF MarksKept, AddToBlockIndex, NewIndex, Failed, Indexed
    <2> QED
        BY <2>1, <2>2
<1>3. ASSUME MarkFailedChild PROVE \E b \in vAttach : Marks(b)
    <2>1. PICK b \in vAttach :
            /\ mapBlockIndex' = [mapBlockIndex EXCEPT ![b].fFailedChild = TRUE]
            /\ setBlockIndexValid' = setBlockIndexValid \ {b}
        BY <1>3 DEF MarkFailedChild, WriteTree
    <2>2. b \in Indexed /\ Entry(mapBlockIndex[b])
        BY <1>0 DEF Tree, Indexed
    <2>3. mapBlockIndex'[b] = [mapBlockIndex[b] EXCEPT !.fFailedChild = TRUE]
        BY <2>1, <2>2 DEF Indexed
    <2>4. Failed(mapBlockIndex'[b])
        BY <2>2, <2>3 DEF Entry, Failed
    <2>5. Indexed' = Indexed /\ \A c \in Indexed \ {b} : mapBlockIndex'[c] = mapBlockIndex[c]
        BY <2>1 DEF Indexed
    <2> QED
        BY <2>1, <2>4, <2>5 DEF Marks, MarksKept, Indexed
<1>4. ASSUME NEW b \in Blocks, ConnectFails(b) PROVE Marks(b)
    <2> DEFINE connected == ConnectBlock(ViewCoins, b)
               nMoneySupply == MoneySupply(b, connected)
    <2>1. /\ mapBlockIndex' = [mapBlockIndex EXCEPT
                ![b].nMoneySupply = IF connected.fOk THEN nMoneySupply ELSE @,
                ![b].fFailedValid = TRUE]
          /\ setBlockIndexValid' = setBlockIndexValid \ {b}
        BY <1>4 DEF ConnectFails, WriteTree
    <2> HIDE DEF nMoneySupply, connected
    <2>2. Indexed' = Indexed /\ \A c \in Indexed \ {b} : mapBlockIndex'[c] = mapBlockIndex[c]
        BY <2>1 DEF Indexed
    <2>3. ASSUME b \in Indexed PROVE Failed(mapBlockIndex'[b])
        <3>1. Entry(mapBlockIndex[b])
            BY <1>0, <2>3 DEF Tree, Indexed
        <3>2. mapBlockIndex'[b] = [mapBlockIndex[b] EXCEPT
                    !.nMoneySupply = IF connected.fOk THEN nMoneySupply ELSE @,
                    !.fFailedValid = TRUE]
            BY <2>1, <2>3 DEF Indexed
        <3> QED
            BY <3>1, <3>2 DEF Entry, Failed
    <2> QED
        BY <2>1, <2>2, <2>3 DEF Marks, MarksKept, Indexed
<1>5. ASSUME NEW b \in Blocks, Connect(b) PROVE MarksKept(mapBlockIndex', {})
    <2> DEFINE nMoneySupply == MoneySupply(b, ConnectBlock(ViewCoins, b))
               vtxundo == ConnectBlock(ViewCoins, b).vtxundo
    <2>1. mapBlockIndex' = [mapBlockIndex EXCEPT
                ![b].nMoneySupply = nMoneySupply,
                ![b].undo = IF @ = NoUndo THEN vtxundo ELSE @,
                ![b].fScripts = TRUE]
        BY <1>5 DEF Connect, WriteTree
    <2> HIDE DEF nMoneySupply, vtxundo
    <2>2. DOMAIN mapBlockIndex' = Indexed
          /\ \A c \in Indexed \ {b} : mapBlockIndex'[c] = mapBlockIndex[c]
        BY <2>1 DEF Indexed
    <2>3. ASSUME b \in Indexed PROVE Failed(mapBlockIndex'[b]) <=> Failed(mapBlockIndex[b])
        <3>1. Entry(mapBlockIndex[b])
            BY <1>0, <2>3 DEF Tree, Indexed
        <3>2. mapBlockIndex'[b] = [mapBlockIndex[b] EXCEPT
                    !.nMoneySupply = nMoneySupply,
                    !.undo = IF @ = NoUndo THEN vtxundo ELSE @,
                    !.fScripts = TRUE]
            BY <2>1, <2>3 DEF Indexed
        <3>3. /\ mapBlockIndex'[b].fFailedValid = mapBlockIndex[b].fFailedValid
              /\ mapBlockIndex'[b].fFailedChild = mapBlockIndex[b].fFailedChild
            BY <3>1, <3>2 DEF Entry
        <3> QED
            BY <3>3 DEF Failed
    <2> QED
        BY <2>2, <2>3 DEF MarksKept
<1>6. ASSUME NEW b \in Blocks, ConnectDiskFull(b) \/ InterruptConnect(b)
      PROVE  MarksKept(mapBlockIndex', {})
    <2> DEFINE nMoneySupply == MoneySupply(b, ConnectBlock(ViewCoins, b))
    <2>1. mapBlockIndex' = [mapBlockIndex EXCEPT ![b].nMoneySupply = nMoneySupply]
        BY <1>6 DEF ConnectDiskFull, InterruptConnect, WriteTree
    <2> HIDE DEF nMoneySupply
    <2> QED
        BY <1>0, <2>1 DEF MarksKept, Tree, Entry, Failed, Indexed
<1>7. ASSUME UNCHANGED mapBlockIndex PROVE MarksKept(mapBlockIndex', {})
    BY <1>7 DEF MarksKept, Indexed
<1>8. \/ Start \/ Crash \/ MarkFailedChild \/ UNCHANGED mapBlockIndex
      \/ \E b \in Blocks : \/ AcceptBlock(b) \/ Connect(b) \/ ConnectFails(b)
                          \/ ConnectDiskFull(b) \/ InterruptConnect(b)
    BY DEF Next, HandlerStep, NoBetterBlock, MarkedAll, SwitchedAll, FindFailed, Attach,
        Interrupt, BeginSwitch, Disconnect, ConnectGenesis, FlushView, FlushDiskFull,
        UpdateMemory, StartShutdown, Shutdown, EnforceCheckpoint, index
<1> QED
    BY <1>1, <1>2, <1>3, <1>4, <1>5, <1>6, <1>7, <1>8

\* A mark is never taken back while the node runs.
LEMMA MarksStay ==
    ASSUME IInv, Next, ~Crash, NEW c \in Indexed, Failed(mapBlockIndex[c])
    PROVE  c \in Indexed' /\ Failed(mapBlockIndex'[c])
<1>1. c \in DOMAIN mapBlockIndex'
    BY IndexGrows DEF Indexed
<1> QED
    BY <1>1, MarkStep DEF Marks, MarksKept, Indexed

\* The blocks heavier than the best one can only become fewer while it stays the same,
\* but for a block that was not indexed before.
LEMMA HeavierShrinks ==
    ASSUME IInv, Next, ~Crash, pindexBest' = pindexBest
    PROVE  Heavier' \subseteq Heavier \cup (Indexed' \ Indexed)
<1> SUFFICES ASSUME NEW b \in Heavier', b \in Indexed PROVE b \in Heavier
    BY DEF Heavier
<1>1. ChainWork[b] > WorkOf(pindexBest)
    BY DEF Heavier, WorkOf
<1>2. ChainOf(b) \subseteq Indexed
    BY TipChainIndexed
<1>3. \A a \in ChainOf(b) : ~Failed(mapBlockIndex'[a])
    BY DEF Heavier, Clean, Failed, ChainOf
<1>4. Clean(b)
    BY <1>2, <1>3, MarksStay DEF Clean
<1> QED
    BY <1>1, <1>4 DEF Heavier

\* The actions that change which blocks are indexed or are candidates.
LEMMA CandidatesChange ==
    ASSUME Next
    PROVE  \/ Start \/ Shutdown \/ Crash
           \/ MarkFailedChild \/ \E b \in Blocks : AcceptBlock(b) \/ ConnectFails(b)
           \/ UNCHANGED setBlockIndexValid /\ Indexed' = Indexed /\ pc # "off"
<1> DEFINE Same == UNCHANGED setBlockIndexValid /\ Indexed' = Indexed /\ pc # "off"
<1>1. ASSUME \/ NoBetterBlock \/ MarkedAll \/ SwitchedAll \/ Interrupt
             \/ \E b \in Blocks : EnforceCheckpoint(b) \/ FindFailed(b) \/ Attach(b)
      PROVE  Same
    BY <1>1 DEF NoBetterBlock, MarkedAll, SwitchedAll, Interrupt, EnforceCheckpoint,
        FindFailed, Attach, Indexed, index
<1>2. ASSUME BeginSwitch \/ Disconnect \/ ConnectGenesis PROVE Same
    BY <1>2 DEF BeginSwitch, Disconnect, ConnectGenesis, Connecting, Indexed, index
<1>3. ASSUME NEW b \in Blocks, Connect(b) PROVE Same
    BY <1>3 DEF Connect, Connecting, WriteTree, Indexed
<1>4. ASSUME NEW b \in Blocks, ConnectDiskFull(b) PROVE Same
    BY <1>4 DEF ConnectDiskFull, Connecting, WriteTree, Indexed
<1>5. ASSUME NEW b \in Blocks, InterruptConnect(b) PROVE Same
    BY <1>5 DEF InterruptConnect, Connecting, WriteTree, Indexed
<1>6. ASSUME \/ FlushDiskFull \/ UpdateMemory \/ StartShutdown
             \/ \E fFlush \in FlushModes : FlushView(fFlush)
      PROVE  Same
    BY <1>6 DEF FlushDiskFull, UpdateMemory, StartShutdown, FlushView, Indexed, index
<1> HIDE DEF Same
<1>7. ASSUME HandlerStep PROVE MarkFailedChild \/ (\E b \in Blocks : ConnectFails(b)) \/ Same
    BY <1>1, <1>2, <1>3, <1>4, <1>5, <1>6, <1>7 DEF HandlerStep
<1> QED
    BY <1>1, <1>6, <1>7 DEF Next, Same

\* Every action keeps all blocks that are not marked failed among the candidates.
LEMMA CandidateStep == IInv /\ CandidateInv /\ Next => CandidateInv'
<1> SUFFICES ASSUME IInv, CandidateInv, Next PROVE CandidateInv'
    OBVIOUS
<1>1. CASE Start
    BY <1>1 DEF Start, CandidateInv, Candidates, Indexed
<1>2. CASE Shutdown \/ Crash
    BY <1>2 DEF Shutdown, Crash, PowerOff, CandidateInv
<1>3. ASSUME NEW b \in Blocks, AcceptBlock(b) PROVE CandidateInv'
    <2>1. /\ pc = "idle" /\ setBlockIndexValid' = setBlockIndexValid \cup {b}
          /\ DOMAIN mapBlockIndex' = Indexed \cup {b}
          /\ \A c \in Indexed \ {b} : mapBlockIndex'[c] = mapBlockIndex[c]
        BY <1>3 DEF AcceptBlock, WriteTree, AddToBlockIndex, Indexed
    <2> QED
        BY <2>1 DEF CandidateInv, Indexed
<1>4. ASSUME NEW b \in Blocks, Marks(b), pc # "off" PROVE CandidateInv'
    BY <1>4 DEF CandidateInv, Marks, MarksKept, Indexed
<1>5. CASE MarkFailedChild \/ \E b \in Blocks : ConnectFails(b)
    <2>1. pc # "off" /\ vAttach \subseteq Blocks
        BY <1>5 DEF MarkFailedChild, ConnectFails, Connecting, IInv, IndexInv, TipInv, Tree, Indexed
    <2> QED
        BY <1>4, <1>5, <2>1, MarkStep
<1>6. CASE /\ UNCHANGED setBlockIndexValid /\ Indexed' = Indexed /\ pc # "off"
           /\ MarksKept(mapBlockIndex', {})
    BY <1>6 DEF CandidateInv, MarksKept, Indexed
<1> QED
    BY <1>1, <1>2, <1>3, <1>5, <1>6, CandidatesChange, MarkStep

-----------------------------------------------------------------------------
\* The coin cache and the best block

\* SetBestChain is called for a better block, or for that of a checkpoint.
LEMMA NewIsBetter ==
    ASSUME IInv, pc \in {"chain", "update"}
    PROVE  pindexNew \in Blocks /\ (fEnforced \/ BetterThanBest(pindexNew))
<1>1. pindexNew \in Blocks /\ pindexNew # NoBlock
    BY BlockTreeAssumption DEF IInv, TipInv, IndexInv, Tree, Indexed
<1>2. pindexNew = hashCheckpoint => fEnforced
    BY <1>1 DEF IInv, WorkInv
<1>3. pindexNew = hashCheckpoint \/ BetterThanBest(pindexNew)
    BY DEF IInv, WorkInv
<1> QED
    BY <1>1, <1>2, <1>3

\* SetBestChain moves the coin cache to such a block before it moves the best block
\* there; a full disk may leave it at that.
LEMMA CacheFollows == IInv /\ CacheInv /\ Next => CacheAtTip'
<1> SUFFICES ASSUME IInv, CacheInv, Next PROVE CacheAtTip'
    OBVIOUS
<1>0. WorkInv /\ TipInv /\ Indexed \subseteq Blocks
    BY DEF IInv, IndexInv, Tree, Indexed
<1>1. CASE Start
    BY <1>1 DEF Start, CacheAtTip, EmptyCache, Cache
<1>2. CASE \/ FlushDiskFull
           \/ \E fFlush \in FlushModes : FlushView(fFlush)
    <2>1. /\ pc = "chain" /\ pc' \in {"update", "idle"}
          /\ pcoinsTip'.pindexTip = pindexNew /\ UNCHANGED <<pindexBest, fEnforced>>
          /\ pc' = "update" => pindexNew' = pindexNew
        <3>1. CASE FlushDiskFull
            BY <3>1 DEF FlushDiskFull, ReturnDiskFull, BatchWrite, Cache, memory
        <3>2. ASSUME NEW fFlush \in FlushModes, FlushView(fFlush)
              PROVE  /\ pc = "chain" /\ pc' = "update"
                     /\ pcoinsTip'.pindexTip = pindexNew
                     /\ UNCHANGED <<pindexBest, fEnforced>>
                     /\ pindexNew' = pindexNew
            BY <3>2 DEF FlushView, BatchWrite, EmptyCache, Cache, memory, mode, handler
        <3> QED
            BY <1>2, <3>1, <3>2
    <2>2. pindexNew \in Blocks /\ (fEnforced \/ BetterThanBest(pindexNew))
        BY <2>1, NewIsBetter
    <2> QED
        BY <2>1, <2>2 DEF CacheInv, CacheAtTip, BetterThanBest
<1>3. CASE UpdateMemory
    BY <1>3 DEF UpdateMemory, CacheInv, CacheAtTip
<1>4. CASE Shutdown \/ Crash
    BY <1>4 DEF Shutdown, Crash, PowerOff, CacheAtTip
<1>5. CASE /\ UNCHANGED <<pcoinsTip, pindexBest, fEnforced>> /\ pc # "off"
           /\ pc' # "update" \/ UNCHANGED <<pc, pindexNew>>
    BY <1>5 DEF CacheInv, CacheAtTip, BetterThanBest
<1>6. ASSUME NEW b \in Blocks,
             \/ AcceptBlock(b) \/ EnforceCheckpoint(b) \/ FindFailed(b) \/ Attach(b)
             \/ Connect(b) \/ ConnectFails(b) \/ ConnectDiskFull(b) \/ InterruptConnect(b)
      PROVE  CacheAtTip'
    BY <1>5, <1>6
    DEF AcceptBlock, EnforceCheckpoint, FindFailed, Attach, Connecting, Connect,
        ConnectFails, ConnectDiskFull, InterruptConnect, Return, ReturnDiskFull, memory, mode
<1>7. CASE \/ NoBetterBlock \/ MarkFailedChild \/ MarkedAll \/ SwitchedAll \/ Interrupt
           \/ BeginSwitch \/ Disconnect \/ ConnectGenesis \/ StartShutdown
    BY <1>5, <1>7
    DEF NoBetterBlock, MarkFailedChild, MarkedAll, SwitchedAll, Interrupt, BeginSwitch,
        Disconnect, ConnectGenesis, Connecting, StartShutdown, Return, memory, mode, handler
<1> QED
    BY <1>1, <1>2, <1>3, <1>4, <1>6, <1>7 DEF Next, HandlerStep

\* The chains of the images of the coins end in blocks, or are empty.
LEMMA SavedTips ==
    ASSUME IInv, CacheInv, Next
    PROVE  \A db \in coinsImages' : db.hashBestChain \in Tips
<1>0. /\ TipInv /\ Indexed \subseteq Blocks /\ coinsDB \in coinsImages
      /\ \A db \in coinsImages : db.hashBestChain \in Tips
    BY DEF IInv, IndexInv, DiskInv, Tree, Indexed, CacheInv
<1>1. ASSUME NEW cache, cache.pindexTip \in Tips, WriteCoins(DBBatchWrite(coinsDB, cache))
      PROVE  \A db \in coinsImages' : db.hashBestChain \in Tips
    <2>1. coinsDB'.hashBestChain \in {coinsDB.hashBestChain, cache.pindexTip}
        BY <1>1 DEF WriteCoins, DBBatchWrite
    <2>2. coinsImages' \subseteq coinsImages \cup {coinsDB'}
        BY <1>1 DEF WriteCoins
    <2> QED
        BY <1>0, <1>1, <2>1, <2>2
<1>2. CASE Start \/ Crash
    BY <1>0, <1>2 DEF Start, Crash
<1>3. ASSUME NEW fFlush \in FlushModes, FlushView(fFlush)
      PROVE  \A db \in coinsImages' : db.hashBestChain \in Tips
    <2> DEFINE tip == BatchWrite(pcoinsTip, view)
    <2>1. /\ pc = "chain" /\ tip.pindexTip = pindexNew
          /\ coinsImages' = coinsImages \/ WriteCoins(DBBatchWrite(coinsDB, tip))
        BY <1>3 DEF FlushView, BatchWrite, Cache, disk
    <2>2. tip.pindexTip \in Tips
        BY <1>0, <2>1 DEF TipInv, Tips
    <2> HIDE DEF tip
    <2> QED
        BY <1>0, <1>1, <2>1, <2>2
<1>4. CASE Shutdown
    <2>1. pcoinsTip.pindexTip \in Tips
        BY <1>0 DEF TipInv, Tips
    <2> QED
        BY <1>1, <1>4, <2>1 DEF Shutdown
<1>5. CASE coinsImages' = coinsImages
    BY <1>0, <1>5
<1>6. ASSUME NEW b \in Blocks,
             \/ AcceptBlock(b) \/ EnforceCheckpoint(b) \/ FindFailed(b) \/ Attach(b)
             \/ Connect(b) \/ ConnectFails(b) \/ ConnectDiskFull(b) \/ InterruptConnect(b)
      PROVE  coinsImages' = coinsImages
    BY <1>6
    DEF AcceptBlock, EnforceCheckpoint, FindFailed, Attach, Connect, ConnectFails, ConnectDiskFull,
        InterruptConnect, disk
<1>7. CASE \/ NoBetterBlock \/ MarkFailedChild \/ MarkedAll \/ SwitchedAll \/ Interrupt
           \/ BeginSwitch \/ Disconnect \/ ConnectGenesis \/ FlushDiskFull \/ UpdateMemory
           \/ StartShutdown
    BY <1>5, <1>7
    DEF NoBetterBlock, MarkFailedChild, MarkedAll, SwitchedAll, Interrupt, BeginSwitch,
        Disconnect, ConnectGenesis, FlushDiskFull, UpdateMemory, StartShutdown, disk
<1> QED
    BY <1>2, <1>3, <1>4, <1>5, <1>6, <1>7 DEF Next, HandlerStep

\* The two parts together.
LEMMA CacheStep == IInv /\ CacheInv /\ Next => CacheInv'
BY CacheFollows, SavedTips DEF CacheInv

-----------------------------------------------------------------------------
\* The most work

\* Every action keeps the last block to switch to at least as heavy as any candidate.
LEMMA BoundStep == IInv /\ BoundInv /\ Next => BoundInv'
<1> SUFFICES ASSUME IInv, BoundInv, Next, hashCheckpoint' = NoBlock PROVE BoundInv'
    BY DEF BoundInv
<1>0. /\ WorkInv /\ TipInv /\ Indexed \subseteq Blocks
      /\ setBlockIndexValid \subseteq Indexed
    BY DEF IInv, IndexInv, Tree, Indexed
<1>1. ASSUME NEW b \in Blocks, Attach(b) PROVE BoundInv'
    <2>1. /\ b \in BestCandidates /\ ~NothingToDo(b)
          /\ vAttach' = {a \in WalkFrom(b) : BetterThanBest(a)}
          /\ pc' = "switch" /\ setBlockIndexValid' = setBlockIndexValid
          /\ pindexBest' = pindexBest
        BY <1>1 DEF Attach, index, memory
    <2>2. b \in WalkFrom(b)
        <3>1. b # NoBlock /\ b \in Ancestry[b]
            BY SelfOnChain, BlockTreeAssumption
        <3>2. \A c \in Ancestry[b] : ~(Height[c] > Height[b])
            BY OnChain, BlockTreeAssumption
        <3> QED
            BY <3>1, <3>2 DEF WalkFrom, ChainOf
    <2>3. ASSUME NEW c \in setBlockIndexValid
          PROVE  \E a \in vAttach' \cup {pindexBest} : ChainWork[c] <= WorkOf(a)
        <3>1. ChainWork[c] <= ChainWork[b] /\ WorkOf(b) = ChainWork[b]
            BY <2>1, BlockTreeAssumption DEF BestCandidates, WorkOf
        <3>2. CASE BetterThanBest(b)
            BY <2>1, <2>2, <3>1, <3>2
        <3>3. CASE ~BetterThanBest(b)
            <4>1. pindexBest # NoBlock /\ ~(ChainWork[b] > ChainWork[pindexBest])
                BY <3>3 DEF BetterThanBest
            <4>2. /\ ChainWork[c] \in Nat /\ ChainWork[b] \in Nat
                  /\ ChainWork[pindexBest] \in Nat
                BY <1>0, <4>1, BlockTreeAssumption DEF TipInv
            <4>3. ChainWork[c] <= WorkOf(pindexBest)
                BY <3>1, <4>1, <4>2 DEF WorkOf
            <4> QED
                BY <4>3
        <3> QED
            BY <3>2, <3>3
    <2> QED
        BY <2>1, <2>3 DEF BoundInv, Goal, WorkOf
<1>2. CASE BeginSwitch
    <2> DEFINE new == Lowest(vAttach)
    <2>1. /\ pc = "switch" /\ pc' = "chain" /\ pindexNew' = new
          /\ vAttach' = vAttach \ {new} /\ setBlockIndexValid' = setBlockIndexValid
          /\ vAttach # {} /\ hashCheckpoint = NoBlock
        BY <1>2 DEF BeginSwitch, index, mode
    <2>2. new \in vAttach
        BY <1>0, <2>1, LowestProperty DEF TipInv
    <2> HIDE DEF new
    <2>3. new \in Blocks /\ BetterThanBest(new)
        <3>1. new \in Blocks /\ new # NoBlock
            BY <1>0, <2>2, BlockTreeAssumption DEF TipInv
        <3> QED
            BY <1>0, <2>1, <2>2, <3>1 DEF WorkInv
    <2>4. WorkOf(pindexBest) \in Nat /\ WorkOf(new) \in Nat /\ WorkOf(pindexBest) <= WorkOf(new)
        BY <1>0, <2>3, BlockTreeAssumption DEF TipInv, WorkOf, BetterThanBest
    <2>5. ASSUME NEW c \in setBlockIndexValid
          PROVE  \E a \in vAttach' \cup {new} : ChainWork[c] <= WorkOf(a)
        <3>1. PICK a \in vAttach \cup {pindexBest} : ChainWork[c] <= WorkOf(a)
            BY <2>1 DEF BoundInv, Goal
        <3>2. ChainWork[c] \in Nat
            BY <1>0, BlockTreeAssumption
        <3>3. CASE a = pindexBest
            BY <2>4, <3>1, <3>2, <3>3
        <3>4. CASE a # pindexBest
            BY <2>1, <3>1, <3>4
        <3> QED
            BY <3>3, <3>4
    <2> QED
        BY <2>1, <2>5 DEF BoundInv, Goal, WorkOf
<1>3. CASE UpdateMemory
    BY <1>3 DEF UpdateMemory, BoundInv, Goal, WorkOf, index, mode
<1>4. CASE /\ pc \in {"chain", "update"} /\ pc' \in {"chain", "update"}
           /\ UNCHANGED <<setBlockIndexValid, vAttach, pindexNew, hashCheckpoint>>
    BY <1>4 DEF BoundInv, Goal, WorkOf
<1>5. CASE UNCHANGED <<pc, setBlockIndexValid, vAttach, pindexBest, pindexNew, hashCheckpoint>>
    BY <1>5 DEF BoundInv, Goal, WorkOf
<1>6. CASE pc' \notin {"switch", "chain", "update"}
    BY <1>6 DEF BoundInv
<1>7. ASSUME NEW b \in Blocks,
             \/ AcceptBlock(b) \/ FindFailed(b) \/ Connect(b) \/ ConnectFails(b)
             \/ ConnectDiskFull(b) \/ InterruptConnect(b)
      PROVE  BoundInv'
    BY <1>4, <1>6, <1>7
    DEF AcceptBlock, FindFailed, Connecting, Connect, ConnectFails, ConnectDiskFull,
        InterruptConnect, Return, ReturnDiskFull, mode
<1>8. ASSUME NEW fFlush \in FlushModes, FlushView(fFlush) PROVE BoundInv'
    BY <1>4, <1>8 DEF FlushView, index, mode, handler
<1>9. CASE Disconnect \/ ConnectGenesis
    BY <1>4, <1>9 DEF Disconnect, ConnectGenesis, Connecting, index, mode
<1>10. CASE StartShutdown
    BY <1>5, <1>10 DEF StartShutdown, index, memory, handler
<1>11. CASE \/ Start \/ Shutdown \/ Crash \/ NoBetterBlock \/ MarkFailedChild \/ MarkedAll
            \/ SwitchedAll \/ Interrupt \/ FlushDiskFull
    BY <1>6, <1>11
    DEF Start, Shutdown, Crash, PowerOff, NoBetterBlock, MarkFailedChild, MarkedAll,
        SwitchedAll, Interrupt, FlushDiskFull, Return, ReturnDiskFull
<1>12. ASSUME NEW b \in Blocks, EnforceCheckpoint(b) PROVE FALSE
    BY <1>12, BlockTreeAssumption DEF EnforceCheckpoint
<1> QED
    BY <1>1, <1>2, <1>3, <1>7, <1>8, <1>9, <1>10, <1>11, <1>12 DEF Next, HandlerStep

-----------------------------------------------------------------------------
\* Where only valid blocks may stand

\* A block that ConnectBlock refuses is invalid, and one that it accepts is valid.
LEMMA BlockVerdict ==
    ASSUME ValidInv, ConnectIsExact, NEW b \in Blocks \ {Genesis}, Connecting(b)
    PROVE  b \in ValidBlocks <=> ConnectBlock(ViewCoins, b).fValid
<1>1. Parent[b] \in ValidTips
    BY DEF Connecting, ValidInv, TipsValid
<1>2. b \in ValidBlocks <=> ValidOn(Utxo(Parent[b]), b)
    BY <1>1, ChildValid
<1> QED
    BY <1>2 DEF ConnectIsExact

\* Only invalid blocks are marked.
LEMMA MarkedAreInvalid ==
    ASSUME IInv, ValidInv, ConnectIsExact, Next
    PROVE  FailedIsInvalid'
<1>1. \A b \in Blocks : ConnectFails(b) => b \notin ValidBlocks
    BY BlockVerdict DEF ConnectFails
<1>2. MarkFailedChild => vAttach \cap ValidBlocks = {}
    BY DEF MarkFailedChild, ValidInv, TipsValid
<1>3. ASSUME NEW b \in DOMAIN mapBlockIndex', Failed(mapBlockIndex'[b]) PROVE b \notin ValidBlocks
    <2>1. CASE Crash
        BY <1>3, <2>1 DEF Crash, ValidInv, FailedIsInvalid
    <2>2. \A c \in Indexed : Failed(mapBlockIndex[c]) => c \notin ValidBlocks
        BY DEF ValidInv, FailedIsInvalid, Indexed
    <2>3. CASE MarksKept(mapBlockIndex', {})
        BY <1>3, <2>2, <2>3 DEF MarksKept
    <2>4. ASSUME NEW c, Marks(c), c \notin ValidBlocks PROVE b \notin ValidBlocks
        BY <1>3, <2>2, <2>4 DEF Marks, MarksKept
    <2> QED
        BY <1>1, <1>2, <2>1, <2>3, <2>4, MarkStep
<1>4. \A tree \in treeImages : \A b \in DOMAIN tree : Failed(tree[b]) => b \notin ValidBlocks
    BY DEF ValidInv, FailedIsInvalid
<1>5. \A tree \in treeImages' \cup {mapBlockIndex'} :
        \A b \in DOMAIN tree : Failed(tree[b]) => b \notin ValidBlocks
    BY <1>3, <1>4, TreeImages
<1> QED
    BY <1>5 DEF FailedIsInvalid, Failed, ValidBlocks

\* Saving a cache at the tip of a valid chain.
LEMMA SavedValid ==
    ASSUME IInv, ValidInv, NEW cache, cache.pindexTip \in ValidTips,
           WriteCoins(DBBatchWrite(coinsDB, cache))
    PROVE  \A db \in coinsImages' : db.hashBestChain \in ValidTips
<1>1. coinsDB'.hashBestChain \in {coinsDB.hashBestChain, cache.pindexTip}
    BY DEF WriteCoins, DBBatchWrite
<1>2. coinsImages' \subseteq coinsImages \cup {coinsDB'}
    BY DEF WriteCoins
<1>3. coinsDB.hashBestChain \in ValidTips
    BY DEF IInv, DiskInv, ValidInv, TipsValid
<1> QED
    BY <1>1, <1>2, <1>3 DEF ValidInv, TipsValid

\* Every action keeps valid chains where the invariant wants them.
LEMMA TipsStep == IInv /\ CacheInv /\ ValidInv /\ ConnectIsExact /\ Next => TipsValid'
<1> SUFFICES ASSUME IInv, CacheInv, ValidInv, ConnectIsExact, Next PROVE TipsValid'
    OBVIOUS
<1>0. /\ TipsValid /\ TipInv /\ Indexed \subseteq Blocks /\ NoBlock \in ValidTips
      /\ coinsDB \in coinsImages
    BY DEF ValidInv, TipsValid, ValidTips, IInv, IndexInv, DiskInv, Tree, Indexed
<1> HIDE DEF ValidTips
<1>1. CASE Start
    BY <1>0, <1>1 DEF Start, TipsValid, EmptyCache, Cache, handler
<1>2. ASSUME NEW b \in Blocks, FindFailed(b) PROVE TipsValid'
    <2> DEFINE failed == FailedOn(WalkFrom(b))
    <2>1. /\ b \in BestCandidates /\ failed # {}
          /\ vAttach' = {a \in WalkFrom(b) : \A f \in failed : Height[a] > Height[f]}
        BY <1>2 DEF FindFailed
    <2>2. PICK f \in failed : TRUE
        BY <2>1
    <2>3. WalkFrom(b) \subseteq Ancestry[b] /\ WalkFrom(b) \subseteq Indexed
        BY <2>1, WalkIndexed
    <2>4. f \in WalkFrom(b) /\ f \notin ValidBlocks
        BY <2>2, <2>3 DEF FailedOn, ValidInv, FailedIsInvalid, Indexed
    <2> HIDE DEF failed
    <2>5. ASSUME NEW a \in vAttach' PROVE a \notin ValidBlocks
        <3>1. a \in Ancestry[b] /\ f \in Ancestry[b] /\ Height[a] > Height[f]
            BY <2>1, <2>2, <2>3, <2>4
        <3>2. Height[a] \in Nat /\ Height[f] \in Nat
            BY <3>1, OnChain, BlockTreeAssumption
        <3>3. f \in Ancestry[a]
            BY <3>1, <3>2, LowerOnChain
        <3> QED
            BY <2>4, <3>3, AncestorValid
    <2>6. /\ pc' = "mark" /\ UNCHANGED <<pindexBest, pcoinsTip, coinsImages, vDisconnect>>
        BY <1>2 DEF FindFailed, memory, disk
    <2> QED
        BY <1>0, <2>5, <2>6 DEF TipsValid
<1>3. CASE BeginSwitch
    <2>1. /\ view' = EmptyCache(pcoinsTip.pindexTip) /\ pc' = "chain"
          /\ vDisconnect' \subseteq ChainOf(pcoinsTip.pindexTip)
          /\ UNCHANGED <<pindexBest, pcoinsTip, coinsImages>>
        BY <1>3 DEF BeginSwitch, memory, disk
    <2>2. ChainOf(pcoinsTip.pindexTip) \subseteq Blocks
        BY <1>0, TipChainIndexed DEF TipInv
    <2> QED
        BY <1>0, <2>1, <2>2, BlockTreeAssumption DEF TipsValid, EmptyCache, Cache
<1>4. CASE Disconnect
    <2> DEFINE b == view.pindexTip
    <2>1. /\ b \in vDisconnect /\ pc = "chain" /\ pc' = "chain"
          /\ view'.pindexTip = Parent[b]
          /\ UNCHANGED <<pindexBest, pcoinsTip, coinsImages, vDisconnect>>
        BY <1>4 DEF Disconnect, Cache, memory, disk
    <2>2. b \in ValidBlocks /\ b \in Blocks
        BY <1>0, <2>1 DEF TipsValid, ValidTips, ValidBlocks
    <2> HIDE DEF b
    <2>3. Parent[b] \in ValidTips
        <3>1. CASE b = Genesis
            BY <1>0, <3>1, GenesisAssumption
        <3>2. CASE b # Genesis
            <4>1. Parent[b] \in Ancestry[b]
                BY <2>2, <3>2, ParentBelow, SelfOnChain
            <4> QED
                BY <2>2, <4>1, AncestorValid DEF ValidTips
        <3> QED
            BY <3>1, <3>2
    <2> QED
        BY <1>0, <2>1, <2>3 DEF TipsValid
<1>5. CASE ConnectGenesis
    BY <1>0, <1>5, GenesisValid
    DEF ConnectGenesis, Connecting, TipsValid, ValidTips, Cache, memory, disk
<1>6. ASSUME NEW b \in Blocks, Connect(b) PROVE TipsValid'
    <2>1. /\ b # Genesis /\ Connecting(b) /\ ConnectBlock(ViewCoins, b).fValid
          /\ view'.pindexTip = b /\ pc' = "chain"
          /\ UNCHANGED <<pindexBest, pcoinsTip, coinsImages, vDisconnect>>
        BY <1>6 DEF Connect, Connecting, Cache, memory
    <2>2. b \in ValidTips
        BY <2>1, BlockVerdict DEF ValidTips
    <2> QED
        BY <1>0, <2>1, <2>2 DEF TipsValid
<1>7. ASSUME NEW fFlush \in FlushModes, FlushView(fFlush) PROVE TipsValid'
    <2> DEFINE tip == BatchWrite(pcoinsTip, view)
    <2>1. /\ pc = "chain" /\ pc' = "update"
          /\ UNCHANGED <<pindexBest, vDisconnect>>
          /\ pcoinsTip'.pindexTip = tip.pindexTip
          /\ coinsImages' = coinsImages \/ WriteCoins(DBBatchWrite(coinsDB, tip))
        BY <1>7 DEF FlushView, EmptyCache, Cache, memory, handler, disk
    <2>2. tip.pindexTip \in ValidTips
        BY <1>0, <2>1 DEF TipsValid, BatchWrite, Cache
    <2> HIDE DEF tip
    <2>3. \A db \in coinsImages' : db.hashBestChain \in ValidTips
        BY <1>0, <2>1, <2>2, SavedValid DEF TipsValid
    <2> QED
        BY <1>0, <2>1, <2>2, <2>3 DEF TipsValid
<1>8. CASE FlushDiskFull
    <2>1. /\ pc = "chain" /\ pc' = "idle" /\ vDisconnect' = {}
          /\ pcoinsTip'.pindexTip = view.pindexTip
          /\ UNCHANGED <<pindexBest, coinsImages>>
        BY <1>8 DEF FlushDiskFull, ReturnDiskFull, BatchWrite, Cache, memory, disk
    <2> QED
        BY <1>0, <2>1 DEF TipsValid
<1>9. CASE UpdateMemory
    BY <1>0, <1>9 DEF UpdateMemory, CacheInv, CacheAtTip, TipsValid, disk
<1>10. CASE Shutdown
    <2>1. \A db \in coinsImages' : db.hashBestChain \in ValidTips
        BY <1>0, <1>10, SavedValid DEF Shutdown, TipsValid
    <2> QED
        BY <1>0, <1>10, <2>1 DEF Shutdown, PowerOff, TipsValid, EmptyCache, Cache
<1>11. CASE Crash
    BY <1>0, <1>11 DEF Crash, PowerOff, TipsValid, EmptyCache, Cache
<1>12. CASE MarkFailedChild
    BY <1>0, <1>12 DEF MarkFailedChild, TipsValid, memory
<1>13. CASE /\ UNCHANGED <<pindexBest, pcoinsTip, coinsImages>>
            /\ vDisconnect' \in {vDisconnect, {}}
            /\ \/ pc' \notin {"chain", "mark"}
               \/ UNCHANGED <<pc, view, vAttach>>
    BY <1>0, <1>13 DEF TipsValid
<1>14. ASSUME NEW b \in Blocks,
              \/ AcceptBlock(b) \/ EnforceCheckpoint(b) \/ Attach(b)
              \/ ConnectFails(b) \/ ConnectDiskFull(b) \/ InterruptConnect(b)
       PROVE  TipsValid'
    BY <1>13, <1>14
    DEF AcceptBlock, EnforceCheckpoint, Attach, ConnectFails, ConnectDiskFull,
        InterruptConnect, Return, ReturnDiskFull, memory, handler, disk
<1>15. CASE NoBetterBlock \/ MarkedAll \/ SwitchedAll \/ Interrupt \/ StartShutdown
    BY <1>13, <1>15
    DEF NoBetterBlock, MarkedAll, SwitchedAll, Interrupt, StartShutdown, Return,
        memory, handler, disk
<1> QED
    BY <1>1, <1>2, <1>3, <1>4, <1>5, <1>6, <1>7, <1>8, <1>9, <1>10, <1>11, <1>12, <1>14, <1>15
    DEF Next, HandlerStep

\* The two parts together.
LEMMA ValidStep == IInv /\ CacheInv /\ ValidInv /\ ConnectIsExact /\ Next => ValidInv'
BY MarkedAreInvalid, TipsStep DEF ValidInv

-----------------------------------------------------------------------------
\* The clean blocks with more work than the best one

\* No block of the active chain is marked failed.
LEMMA BestChainClean ==
    ASSUME IInv, ValidInv, NEW a \in ChainOf(pindexBest)
    PROVE  a \in Indexed /\ ~Failed(mapBlockIndex[a])
<1>1. pindexBest \in Indexed \cup {NoBlock} /\ pindexBest \in ValidTips
    BY DEF IInv, TipInv, ValidInv, TipsValid
<1>2. a \in Indexed
    BY <1>1, TipChainIndexed
<1>3. pindexBest \in ValidBlocks /\ a \in Ancestry[pindexBest]
    BY <1>1 DEF ChainOf, ValidTips
<1>4. a \in ValidBlocks
    BY <1>3, AncestorValid
<1> QED
    BY <1>2, <1>4 DEF ValidInv, FailedIsInvalid, Indexed

\* A candidate with no failed block on the walk to the active chain is clean, and so
\* are the blocks of the walk.
LEMMA WalkClean ==
    ASSUME IInv, ValidInv, ~fRequestShutdown, pc # "off",
           NEW b \in BestCandidates, FailedOn(WalkFrom(b)) = {}, NEW a \in WalkFrom(b)
    PROVE  Clean(a)
<1>1. b \in Blocks /\ a \in Blocks /\ a \in Ancestry[b] /\ ChainOf(b) = Ancestry[b]
    BY WalkIndexed, BlockTreeAssumption DEF IInv, IndexInv, Tree, Indexed, ChainOf
<1>2. ASSUME NEW c \in Ancestry[b] PROVE ~Failed(mapBlockIndex[c])
    <2>1. CASE c \in WalkFrom(b)
        BY <2>1 DEF FailedOn
    <2>2. CASE c \notin WalkFrom(b)
        <3>1. PICK d \in Ancestry[b] :
                Height[d] > Height[c] /\ (pnext[d] # NoBlock \/ Parent[d] = NoBlock)
            BY <1>1, <2>2 DEF WalkFrom
        <3>2. d \in Blocks /\ c \in Blocks
            BY <1>1, OnChain
        <3>3. Height[d] \in Nat /\ Height[c] \in Nat
            BY <3>2, BlockTreeAssumption
        <3>4. d # Genesis
            BY <3>1, <3>3, GenesisAssumption
        <3>5. pnext[d] # NoBlock
            BY <3>1, <3>2, <3>4, ChildAssumption, BlockTreeAssumption
        <3>6. PICK e \in ChainOf(pindexBest) : Parent[e] = d
            BY <3>2, <3>5 DEF IInv, LinkInv, MainChainTo
        <3>7. pindexBest \in Blocks /\ e \in Ancestry[pindexBest]
            BY <3>6 DEF ChainOf, IInv, TipInv, IndexInv, Tree, Indexed
        <3>8. e \in Blocks /\ e # Genesis /\ Ancestry[e] \subseteq Ancestry[pindexBest]
            BY <3>2, <3>6, <3>7, OnChain, GenesisAssumption, BlockTreeAssumption
        <3>9. d \in Ancestry[pindexBest]
            BY <3>2, <3>6, <3>8, ParentBelow, SelfOnChain
        <3>10. c \in Ancestry[d]
            BY <1>1, <3>1, <3>3, LowerOnChain
        <3>11. c \in Ancestry[pindexBest]
            BY <3>7, <3>9, <3>10, OnChain
        <3> QED
            BY <3>7, <3>11, BestChainClean, BlockTreeAssumption DEF ChainOf
    <2> QED
        BY <2>1, <2>2
<1>3. Ancestry[a] \subseteq Ancestry[b]
    BY <1>1, OnChain
<1> QED
    BY <1>1, <1>2, <1>3, BlockTreeAssumption DEF Clean, ChainOf

\* If no candidate has more work than the best block, no clean block has.
LEMMA NoneHeavier ==
    ASSUME IInv, CandidateInv, pc # "off",
           \A c \in setBlockIndexValid : ChainWork[c] <= WorkOf(pindexBest)
    PROVE  Heavier = {}
<1> SUFFICES ASSUME NEW b \in Heavier PROVE FALSE
    OBVIOUS
<1>1. b \in Indexed /\ Clean(b) /\ ChainWork[b] > WorkOf(pindexBest)
    BY DEF Heavier
<1>2. b \in Blocks /\ pindexBest \in Blocks \cup {NoBlock}
    BY <1>1 DEF IInv, IndexInv, TipInv, Tree, Indexed
<1>3. b \in ChainOf(b)
    BY <1>2, SelfOnChain, BlockTreeAssumption DEF ChainOf
<1>4. b \in setBlockIndexValid
    BY <1>1, <1>3 DEF CandidateInv, Clean
<1>5. ChainWork[b] \in Nat /\ WorkOf(pindexBest) \in Nat
    BY <1>2, BlockTreeAssumption DEF WorkOf
<1> QED
    BY <1>1, <1>4, <1>5

\* Every action keeps at most one clean block heavier than the best one while a handler
\* runs, and none when it returns.
LEMMA HeavierStep ==
    IInv /\ ValidInv /\ CandidateInv /\ BoundInv /\ HeavierInv /\ Next => HeavierInv'
<1> SUFFICES ASSUME IInv, ValidInv, CandidateInv, BoundInv, HeavierInv, Next, ~fRequestShutdown',
                    ~fEnforced'
             PROVE  HeavierInv'
    BY DEF HeavierInv
<1>0. /\ WorkInv /\ TipInv /\ LinkInv /\ Indexed \subseteq Blocks
      /\ setBlockIndexValid \subseteq Indexed
    BY DEF IInv, IndexInv, Tree, Indexed
<1>1. ASSUME UNCHANGED pindexBest, ~Crash, Indexed' = Indexed PROVE Heavier' \subseteq Heavier
    BY <1>1, HeavierShrinks
<1>2. CASE Start
    BY <1>2 DEF Start, HeavierInv
<1>3. CASE Shutdown \/ Crash
    BY <1>3 DEF Shutdown, Crash, PowerOff, HeavierInv
<1>4. ASSUME NEW b \in Blocks, AcceptBlock(b) PROVE HeavierInv'
    <2>1. /\ pc = "idle" /\ pc' = "best" /\ ~fRequestShutdown /\ ~fEnforced /\ ~Crash
          /\ Indexed' = Indexed \cup {b} /\ pindexBest' = pindexBest
        BY <1>4 DEF AcceptBlock, WriteTree, AddToBlockIndex, Crash, PowerOff, memory, mode, Indexed
    <2>2. Heavier' \subseteq {b}
        BY <2>1, HeavierShrinks DEF HeavierInv
    <2> QED
        BY <2>1, <2>2 DEF HeavierInv
<1>5. CASE NoBetterBlock
    <2>1. /\ pc = "best" /\ pc' = "idle" /\ ~Crash
          /\ UNCHANGED <<mapBlockIndex, setBlockIndexValid, pindexBest>>
          /\ setBlockIndexValid = {} \/ \E b \in BestCandidates : NothingToDo(b)
        BY <1>5 DEF NoBetterBlock, Return, Crash, PowerOff, index, memory
    <2>2. \A c \in setBlockIndexValid : ChainWork[c] <= WorkOf(pindexBest)
        BY <2>1 DEF BestCandidates, NothingToDo, WorkOf
    <2>3. Heavier = {}
        BY <2>1, <2>2, NoneHeavier
    <2> QED
        BY <1>1, <2>1, <2>3 DEF HeavierInv, Indexed
<1>6. CASE SwitchedAll
    <2>1. /\ pc = "switch" /\ vAttach = {} /\ pc' = "idle" /\ ~Crash /\ ~fEnforced
          /\ UNCHANGED <<mapBlockIndex, setBlockIndexValid, pindexBest>>
        BY <1>6 DEF SwitchedAll, Return, Crash, PowerOff, index, memory
    <2>2. hashCheckpoint = NoBlock
        BY <1>0, <2>1 DEF WorkInv
    <2>3. Heavier = {}
        BY <2>1, <2>2, NoneHeavier DEF BoundInv, Goal
    <2> QED
        BY <1>1, <2>1, <2>3 DEF HeavierInv, Indexed
<1>7. ASSUME NEW b \in Blocks, FindFailed(b) \/ MarkFailedChild \/ MarkedAll PROVE HeavierInv'
    <2>1. /\ pc \in {"best", "mark"} /\ pc' \in {"best", "mark"} /\ ~Crash
          /\ UNCHANGED <<pindexBest, fStarting, fRequestShutdown, fEnforced>> /\ Indexed' = Indexed
        BY <1>7
        DEF FindFailed, MarkFailedChild, MarkedAll, WriteTree, Crash, PowerOff, index, memory,
            mode, Indexed
    <2>2. Heavier' \subseteq Heavier
        BY <1>1, <2>1
    <2> QED
        BY <2>1, <2>2 DEF HeavierInv
<1>8. ASSUME NEW b \in Blocks, Attach(b) PROVE HeavierInv'
    <2>1. /\ pc = "best" /\ pc' = "switch" /\ b \in BestCandidates
          /\ FailedOn(WalkFrom(b)) = {}
          /\ vAttach' = {a \in WalkFrom(b) : BetterThanBest(a)}
          /\ UNCHANGED <<pindexBest, fStarting, fRequestShutdown, fEnforced>> /\ Indexed' = Indexed
          /\ ~Crash
        BY <1>8 DEF Attach, Crash, PowerOff, index, memory, mode, Indexed
    <2>2. vAttach' \subseteq Heavier
        <3> SUFFICES ASSUME NEW a \in WalkFrom(b), BetterThanBest(a) PROVE a \in Heavier
            BY <2>1
        <3>1. Clean(a) /\ a \in Indexed
            BY <2>1, WalkClean, WalkIndexed
        <3>2. ChainWork[a] > WorkOf(pindexBest)
            BY <1>0, <3>1, BlockTreeAssumption DEF BetterThanBest, WorkOf
        <3> QED
            BY <3>1, <3>2 DEF Heavier
    <2>3. Heavier' \subseteq Heavier
        BY <1>1, <2>1
    <2> QED
        BY <2>1, <2>2, <2>3 DEF HeavierInv
<1>9. CASE BeginSwitch
    <2> DEFINE new == Lowest(vAttach)
    <2>1. /\ pc = "switch" /\ pc' = "chain" /\ pindexNew' = new
          /\ vAttach # {} /\ vAttach' = vAttach \ {new}
          /\ UNCHANGED <<pindexBest, fStarting, fRequestShutdown, fEnforced>> /\ Indexed' = Indexed
          /\ ~Crash
        BY <1>9 DEF BeginSwitch, Crash, PowerOff, index, memory, mode, Indexed
    <2>2. new \in vAttach
        BY <1>0, <2>1, LowestProperty DEF TipInv
    <2> HIDE DEF new
    <2>3. Heavier' \subseteq Heavier
        BY <1>1, <2>1
    <2>4. ~fStarting => Heavier \subseteq {new} /\ vAttach \subseteq {new}
        BY <2>1, <2>2 DEF HeavierInv
    <2> QED
        BY <2>1, <2>3, <2>4 DEF HeavierInv
<1>10. CASE /\ pc \in {"chain", "update"} /\ pc' \in {"chain", "update"}
            /\ UNCHANGED <<pindexBest, fStarting, fRequestShutdown, fEnforced, vAttach,
                           pindexNew>>
            /\ Indexed' = Indexed
    <2>1. ~Crash
        BY <1>10 DEF Crash, PowerOff
    <2> QED
        BY <1>1, <1>10, <2>1 DEF HeavierInv
<1>11. ASSUME NEW b \in Blocks, Connect(b) PROVE HeavierInv'
    BY <1>10, <1>11 DEF Connect, Connecting, WriteTree, memory, mode, Indexed
<1>12. ASSUME NEW fFlush \in FlushModes, FlushView(fFlush) PROVE HeavierInv'
    BY <1>10, <1>12 DEF FlushView, index, memory, mode, handler, Indexed
<1>13. CASE Disconnect \/ ConnectGenesis
    BY <1>10, <1>13 DEF Disconnect, ConnectGenesis, Connecting, index, memory, mode, Indexed
<1>14. CASE UpdateMemory
    <2>1. /\ pc = "update" /\ pc' = "switch" /\ pindexBest' = pindexNew
          /\ UNCHANGED <<mapBlockIndex, vAttach, fStarting, fRequestShutdown, fEnforced>>
        BY <1>14 DEF UpdateMemory, index, mode
    <2>2. ~fStarting => Heavier' = {}
        <3> SUFFICES ASSUME ~fStarting, NEW b \in Heavier' PROVE FALSE
            OBVIOUS
        <3>1. b \in Indexed /\ Clean(b) /\ ChainWork[b] > WorkOf(pindexNew)
            BY <2>1 DEF Heavier, Clean, Indexed, WorkOf, ChainOf
        <3>2. /\ WorkOf(pindexBest) \in Nat /\ ChainWork[b] \in Nat
              /\ pindexNew # NoBlock /\ ChainWork[pindexNew] \in Nat
            BY <1>0, <2>1, <3>1, BlockTreeAssumption DEF TipInv, WorkOf
        <3>3. WorkOf(pindexBest) <= WorkOf(pindexNew)
            BY <1>0, <2>1, <3>2, NewIsBetter, BlockTreeAssumption DEF BetterThanBest, WorkOf
        <3>4. b \in Heavier
            BY <3>1, <3>2, <3>3 DEF Heavier, WorkOf
        <3>5. b = pindexNew
            BY <2>1, <3>4 DEF HeavierInv
        <3> QED
            BY <3>1, <3>2, <3>5 DEF WorkOf
    <2> QED
        BY <2>1, <2>2, BlockTreeAssumption DEF HeavierInv
<1>15. ASSUME NEW b \in Blocks, ConnectFails(b) PROVE HeavierInv'
    <2>1. /\ pc = "chain" /\ pc' = "idle" /\ b \in vConnect
          /\ ~fRequestShutdown /\ ~fEnforced /\ ~fStarting
          /\ pindexBest' = pindexBest /\ ~Crash
        BY <1>15 DEF ConnectFails, Connecting, Return, Crash, PowerOff, memory
    <2>2. /\ pindexNew \in Indexed /\ b \in ChainOf(pindexNew)
          /\ Heavier \subseteq {pindexNew}
        BY <1>0, <2>1 DEF TipInv, LinkInv, HeavierInv
    <2>3. b \in Indexed
        BY <2>2, TipChainIndexed
    <2>4. Failed(mapBlockIndex'[b]) /\ Indexed' = Indexed
        BY <1>15, <2>3, MarkStep DEF Marks
    <2>5. pindexNew \notin Heavier'
        <3>1. \A c \in Heavier' : \A a \in ChainOf(c) : ~Failed(mapBlockIndex'[a])
            BY DEF Heavier, Clean, Failed, ChainOf
        <3> QED
            BY <2>2, <2>4, <3>1
    <2>6. Heavier' \subseteq Heavier
        BY <1>1, <2>1, <2>4
    <2>7. Heavier' = {}
        BY <2>2, <2>5, <2>6
    <2> QED
        BY <2>1, <2>7 DEF HeavierInv
<1>16. ASSUME \/ Interrupt \/ FlushDiskFull \/ StartShutdown
              \/ \E b \in Blocks : ConnectDiskFull(b) \/ InterruptConnect(b)
       PROVE FALSE
    BY <1>16
    DEF Interrupt, FlushDiskFull, StartShutdown, ConnectDiskFull, InterruptConnect, Return,
        ReturnDiskFull
<1>17. ASSUME NEW b \in Blocks, EnforceCheckpoint(b) PROVE FALSE
    BY <1>17 DEF EnforceCheckpoint
<1> QED
    BY <1>2, <1>3, <1>4, <1>5, <1>6, <1>7, <1>8, <1>9, <1>11, <1>12, <1>13, <1>14, <1>15, <1>16,
       <1>17, BlockTreeAssumption
    DEF Next, HandlerStep

-----------------------------------------------------------------------------
\* Steps of Ledger

Saved == {db.hashBestChain : db \in coinsImages}

MoreWork(b) == b \in Blocks /\ (fEnforced \/ ChainWork[b] > WorkOf(pindexBest))

\* An image of the coins of block b joins the saved ones, or replaces them.
SavesOne(b) == Saved' \in {{b}, Saved \cup {b}}

\* What a step does to the best block and to the saved chains: nothing, or it adopts the
\* block of the coin cache, saves the block it brings the cache to, stops, or resumes.
LedgerMove ==
    \/ UNCHANGED <<pindexBest, Saved, fEnforced>>
    \/ /\ MoreWork(pcoinsTip.pindexTip)
       /\ pindexBest' = pcoinsTip.pindexTip
       /\ UNCHANGED <<Saved, fEnforced>>
    \/ /\ MoreWork(pcoinsTip'.pindexTip)
       /\ SavesOne(pcoinsTip'.pindexTip)
       /\ UNCHANGED <<pindexBest, fEnforced>>
    \/ /\ pindexBest' = NoBlock /\ fEnforced' = FALSE
       /\ \/ \E b \in Saved : Saved' = {b}
          \/ /\ pcoinsTip.pindexTip \in Blocks
             /\ pcoinsTip.pindexTip = pindexBest \/ MoreWork(pcoinsTip.pindexTip)
             /\ SavesOne(pcoinsTip.pindexTip)
          \/ UNCHANGED Saved
    \/ /\ pindexBest = NoBlock /\ pindexBest' \in Saved /\ Saved' = {pindexBest'}
       /\ fEnforced' \in BOOLEAN

\* The block a write of the coins saves.
LEMMA SavedBlock ==
    ASSUME IInv, NEW cache, WriteCoins(DBBatchWrite(coinsDB, cache))
    PROVE  IF cache.pindexTip = NoBlock THEN (\E b \in Saved : Saved' = {b}) \/ UNCHANGED Saved
                                        ELSE SavesOne(cache.pindexTip)
<1>1. coinsDB'.hashBestChain = IF cache.pindexTip = NoBlock THEN coinsDB.hashBestChain
                               ELSE cache.pindexTip
    BY DEF WriteCoins, DBBatchWrite
<1>2. coinsImages' = coinsImages \cup {coinsDB'} \/ coinsImages' = {coinsDB'}
    BY DEF WriteCoins
<1>3. coinsDB.hashBestChain \in Saved
    BY DEF IInv, DiskInv, Saved
<1>4. Saved' \in {{coinsDB'.hashBestChain}, Saved \cup {coinsDB'.hashBestChain}}
    BY <1>2 DEF Saved
<1> QED
    BY <1>1, <1>3, <1>4 DEF SavesOne

\* The block of the coin cache is the best one, or one with more work.
LEMMA CacheAhead ==
    ASSUME IInv, CacheInv, pc # "off", pcoinsTip.pindexTip # NoBlock
    PROVE  /\ pcoinsTip.pindexTip \in Blocks
           /\ pcoinsTip.pindexTip = pindexBest \/ MoreWork(pcoinsTip.pindexTip)
BY BlockTreeAssumption
DEF IInv, TipInv, IndexInv, Tree, Indexed, CacheInv, CacheAtTip, BetterThanBest, MoreWork, WorkOf

\* Every step of the chain state is a step of Ledger or changes nothing of it.
LEMMA LedgerStep == IInv /\ CacheInv /\ [Next]_vars => LedgerMove
<1> SUFFICES ASSUME IInv, CacheInv, [Next]_vars PROVE LedgerMove
    OBVIOUS
<1>0. /\ WorkInv /\ TipInv /\ DiskInv /\ Indexed \subseteq Blocks
    BY DEF IInv, IndexInv, Tree, Indexed
<1>1. CASE Start
    <2>1. /\ pc = "off" /\ Saved' = {coinsDB.hashBestChain} /\ fEnforced' \in EnforceModes
          /\ pindexBest' = IF coinsDB.hashBestChain \in Indexed THEN coinsDB.hashBestChain
                           ELSE NoBlock
        BY <1>1 DEF Start, Saved
    <2>2. coinsDB.hashBestChain \in Saved
        BY <1>0 DEF DiskInv, Saved
    <2>3. coinsDB.hashBestChain \in Indexed \cup {NoBlock}
        <3>1. coinsDB.hashBestChain \in Tips
            BY <1>0 DEF CacheInv, DiskInv
        <3>2. ChainOf(coinsDB.hashBestChain) \subseteq Indexed
            BY <1>0 DEF DiskInv, RestartFindsChain, IInv, IndexInv, Indexed
        <3> QED
            BY <3>1, <3>2, SelfOnChain DEF ChainOf, Tips
    <2>4. fEnforced' \in BOOLEAN
        BY <2>1, ModeAssumption
    <2> QED
        BY <1>0, <2>1, <2>2, <2>3, <2>4 DEF TipInv, LedgerMove
<1>2. ASSUME NEW fFlush \in FlushModes, FlushView(fFlush) PROVE LedgerMove
    <2> DEFINE tip == BatchWrite(pcoinsTip, view)
    <2>1. /\ pc = "chain" /\ UNCHANGED <<pindexBest, fEnforced>>
          /\ pcoinsTip'.pindexTip = pindexNew /\ tip.pindexTip = pindexNew
          /\ coinsImages' = coinsImages \/ WriteCoins(DBBatchWrite(coinsDB, tip))
        BY <1>2 DEF FlushView, BatchWrite, EmptyCache, Cache, memory, mode, disk
    <2>2. pindexNew \in Blocks /\ (fEnforced \/ BetterThanBest(pindexNew))
        BY <2>1, NewIsBetter
    <2>3. MoreWork(pindexNew) /\ pindexNew # NoBlock
        BY <2>2, BlockTreeAssumption DEF MoreWork, BetterThanBest, WorkOf
    <2> HIDE DEF tip
    <2>4. UNCHANGED Saved \/ SavesOne(pindexNew)
        <3>1. coinsImages' = coinsImages => UNCHANGED Saved
            BY DEF Saved
        <3>2. WriteCoins(DBBatchWrite(coinsDB, tip)) => SavesOne(pindexNew)
            BY <2>1, <2>3, SavedBlock
        <3> QED
            BY <2>1, <3>1, <3>2
    <2> QED
        BY <2>1, <2>3, <2>4 DEF LedgerMove
<1>3. CASE UpdateMemory
    <2>1. /\ pc = "update" /\ pindexBest' = pindexNew /\ coinsImages' = coinsImages
          /\ pcoinsTip.pindexTip = pindexNew /\ fEnforced' = fEnforced
        BY <1>3 DEF UpdateMemory, CacheInv, CacheAtTip, disk, mode
    <2>2. pindexNew \in Blocks /\ (fEnforced \/ BetterThanBest(pindexNew))
        BY <2>1, NewIsBetter
    <2>3. MoreWork(pindexNew)
        BY <2>2, BlockTreeAssumption DEF MoreWork, BetterThanBest, WorkOf
    <2> QED
        BY <2>1, <2>3 DEF LedgerMove, Saved
<1>4. CASE Shutdown
    <2>1. /\ pc # "off" /\ pindexBest' = NoBlock /\ fEnforced' = FALSE
          /\ WriteCoins(DBBatchWrite(coinsDB, pcoinsTip))
        BY <1>4 DEF Shutdown, PowerOff
    <2> QED
        BY <2>1, SavedBlock, CacheAhead DEF LedgerMove
<1>5. CASE Crash
    BY <1>5 DEF Crash, PowerOff, Saved, LedgerMove
<1>6. CASE UNCHANGED <<pindexBest, coinsImages, fEnforced>>
    BY <1>6 DEF LedgerMove, Saved
<1>7. ASSUME NEW b \in Blocks,
             \/ AcceptBlock(b) \/ EnforceCheckpoint(b) \/ FindFailed(b) \/ Attach(b)
             \/ Connect(b) \/ ConnectFails(b) \/ ConnectDiskFull(b) \/ InterruptConnect(b)
      PROVE  LedgerMove
    BY <1>6, <1>7
    DEF AcceptBlock, EnforceCheckpoint, FindFailed, Attach, Connect, ConnectFails,
        ConnectDiskFull, InterruptConnect, Return, ReturnDiskFull, memory, mode, disk
<1>8. CASE \/ NoBetterBlock \/ MarkFailedChild \/ MarkedAll \/ SwitchedAll \/ Interrupt
           \/ BeginSwitch \/ Disconnect \/ ConnectGenesis \/ FlushDiskFull \/ StartShutdown
           \/ UNCHANGED vars
    BY <1>6, <1>8
    DEF NoBetterBlock, MarkFailedChild, MarkedAll, SwitchedAll, Interrupt, BeginSwitch,
        Disconnect, ConnectGenesis, FlushDiskFull, StartShutdown, Return, ReturnDiskFull,
        memory, mode, disk, vars
<1> QED
    BY <1>1, <1>2, <1>3, <1>4, <1>5, <1>7, <1>8 DEF Next, HandlerStep

-----------------------------------------------------------------------------
\* The theorems

\* A fresh data directory satisfies all of it.
LEMMA InitLedgerInv ==
    Init => CacheInv /\ ValidInv /\ CandidateInv /\ BoundInv /\ HeavierInv
<1> SUFFICES ASSUME Init PROVE CacheInv /\ ValidInv /\ CandidateInv /\ BoundInv /\ HeavierInv
    OBVIOUS
<1> USE DEF Init, Cache, EmptyCache, EmptyDB
<1>1. CacheInv
    BY DEF CacheInv, CacheAtTip, Tips
<1>2. ValidInv
    BY DEF ValidInv, FailedIsInvalid, TipsValid, ValidTips
<1>3. CandidateInv /\ BoundInv /\ HeavierInv
    BY DEF CandidateInv, BoundInv, HeavierInv
<1> QED
    BY <1>1, <1>2, <1>3

\* A step that changes nothing changes none of it.
LEMMA StutterLedgerInv ==
    ASSUME UNCHANGED vars
    PROVE  /\ CacheInv => CacheInv'
           /\ ValidInv => ValidInv'
           /\ CandidateInv => CandidateInv'
           /\ BoundInv => BoundInv'
           /\ HeavierInv => HeavierInv'
<1> USE DEF vars, index, memory, disk, mode, handler
<1>1. CacheInv => CacheInv'
    BY DEF CacheInv, CacheAtTip, BetterThanBest
<1>2. ValidInv => ValidInv'
    BY DEF ValidInv, FailedIsInvalid, TipsValid
<1>3. CandidateInv => CandidateInv'
    BY DEF CandidateInv, Indexed
<1>4. BoundInv => BoundInv'
    BY DEF BoundInv, Goal, WorkOf
<1>5. HeavierInv => HeavierInv'
    BY DEF HeavierInv, Heavier, Clean, Indexed, WorkOf, ChainOf
<1> QED
    BY <1>1, <1>2, <1>3, <1>4, <1>5

\* Every block that is not marked failed is a candidate, and none has more work than the
\* last block ConnectBestBlock switches to.
THEOREM CandidatesComplete == Spec => [](CacheInv /\ CandidateInv /\ BoundInv)
<1>1. Init => CacheInv /\ CandidateInv /\ BoundInv
    BY InitLedgerInv
<1>2. IInv /\ (CacheInv /\ CandidateInv /\ BoundInv) /\ [Next]_vars
        => (CacheInv /\ CandidateInv /\ BoundInv)'
    BY CacheStep, CandidateStep, BoundStep, StutterLedgerInv
<1> QED
    BY <1>1, <1>2, Invariance, PTL DEF Spec

\* Valid and invalid blocks stand where they should, and at most one clean block is heavier
\* than the best one.
THEOREM ValidInvariance == Spec => [](ValidInv /\ HeavierInv)
<1>1. Init => ValidInv /\ HeavierInv
    BY InitLedgerInv
<1>2. IInv /\ CacheInv /\ CandidateInv /\ BoundInv /\ ConnectIsExact
        /\ (ValidInv /\ HeavierInv) /\ [Next]_vars
            => (ValidInv /\ HeavierInv)'
    BY ValidStep, HeavierStep, StutterLedgerInv
<1> QED
    BY <1>1, <1>2, Invariance, CandidatesComplete, VerdictsExact, PTL DEF Spec

\* A block is marked failed, in memory or in any image a failure may leave, only if its
\* chain is invalid: marking the descendants of a failed block never reaches a valid one,
\* across reorganisations and restarts.
THEOREM OnlyInvalidIsFailed == Spec => []FailedIsInvalid
<1>1. ValidInv => FailedIsInvalid
    BY DEF ValidInv
<1> QED
    BY <1>1, ValidInvariance, PTL

\* An idle node that does not enforce synchronized checkpoints stands on the chain with the
\* most work among those without a failed block, whatever the order of arrival, the
\* failures and the restarts before, enforcing processes among them.
THEOREM BestHasMostWork == Spec => []BestIsMostWork
<1>1. IInv /\ HeavierInv => BestIsMostWork
    <2> SUFFICES ASSUME IInv, HeavierInv, pc = "idle", ~fRequestShutdown, ~fEnforced,
                        NEW b \in Indexed, \A a \in ChainOf(b) : ~Failed(mapBlockIndex[a])
                 PROVE  ChainWork[b] <= WorkOf(pindexBest)
        BY DEF BestIsMostWork
    <2>1. b \notin Heavier
        BY DEF HeavierInv
    <2>2. ~(ChainWork[b] > WorkOf(pindexBest))
        BY <2>1 DEF Heavier, Clean
    <2>3. b \in Blocks /\ pindexBest \in Blocks \cup {NoBlock}
        BY DEF IInv, IndexInv, TipInv, Tree, Indexed
    <2>4. ChainWork[b] \in Nat /\ WorkOf(pindexBest) \in Nat
        BY <2>3, BlockTreeAssumption DEF WorkOf
    <2> QED
        BY <2>2, <2>4
<1> QED
    BY <1>1, ValidInvariance, Invariance, PTL

\* The chain state implements Ledger, with caches, flushes, full disks and failures in
\* between: until the node stops, the best block gives way only to a valid chain, with more
\* work unless the process enforces synchronized checkpoints; only such a chain or the best
\* one is saved, and a restart resumes from a saved one.
THEOREM LedgerImplemented == Spec => ImplementsLedger
<1>1. Init => LedgerView!LInit
    BY DEF Init, EmptyDB, LedgerView!LInit
<1>2. ASSUME ValidInv, ValidInv', LedgerMove
      PROVE  [LedgerView!LNext]_<<pindexBest, {db.hashBestChain : db \in coinsImages}, fEnforced>>
    <2>1. /\ pcoinsTip.pindexTip \in Blocks => pcoinsTip.pindexTip \in ValidBlocks
          /\ pcoinsTip'.pindexTip \in Blocks => pcoinsTip'.pindexTip \in ValidBlocks
        BY <1>2, BlockTreeAssumption DEF ValidInv, TipsValid, ValidTips
    <2> QED
        BY <1>2, <2>1
        DEF LedgerMove, MoreWork, SavesOne, Saved, WorkOf,
            LedgerView!LNext, LedgerView!Adopt, LedgerView!Save, LedgerView!Stop,
            LedgerView!Resume, LedgerView!Better, LedgerView!WorkOf
<1>3. IInv /\ CacheInv /\ ValidInv /\ ValidInv' /\ [Next]_vars
        => [LedgerView!LNext]_<<pindexBest, {db.hashBestChain : db \in coinsImages}, fEnforced>>
    BY <1>2, LedgerStep
<1> QED
    BY <1>1, <1>3, Invariance, CandidatesComplete, ValidInvariance, PTL
    DEF Spec, ImplementsLedger, LedgerView!LedgerSpec

=============================================================================
