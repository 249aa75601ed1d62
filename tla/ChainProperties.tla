--------------------------- MODULE ChainProperties ---------------------------
(***************************************************************************)
(* What ChainState must satisfy.                                           *)
(***************************************************************************)
EXTENDS ChainState, Utxo

\* The blocks that end valid chains.
ValidBlocks == {b \in Blocks : ValidChain[b]}

Entries ==
    [fScripts : BOOLEAN, fFailedValid : BOOLEAN, fFailedChild : BOOLEAN,
     undo : {NoUndo} \cup Seq(Seq([txout : CTxOut, nHeight : Nat, fCoinBase : BOOLEAN])),
     nMoneySupply : Int]

CoinEntries == [fCoinBase : BOOLEAN, nHeight : Nat, vout : Seq(CTxOut \cup {NullOut})]

IsCache(cache) ==
    /\ DOMAIN cache = {"cacheCoins", "pindexTip"}
    /\ DOMAIN cache.cacheCoins \subseteq Txids
    /\ \A t \in DOMAIN cache.cacheCoins : cache.cacheCoins[t] \in CoinEntries
    /\ cache.pindexTip \in Blocks \cup {NoBlock}

IsDB(db) ==
    /\ DOMAIN db = {"coins", "hashBestChain"}
    /\ db.coins \in [Txids -> CoinEntries]
    /\ db.hashBestChain \in Blocks \cup {NoBlock}

\* Every variable of the chain state has its type.
TypeOK ==
    /\ \A tree \in treeImages \cup {mapBlockIndex} :
        DOMAIN tree \subseteq Blocks /\ \A b \in DOMAIN tree : tree[b] \in Entries
    /\ setBlockIndexValid \subseteq Indexed
    /\ pnext \in [Blocks -> Blocks \cup {NoBlock}]
    /\ pindexBest \in Indexed \cup {NoBlock}
    /\ IsCache(pcoinsTip) /\ IsCache(view)
    /\ \A db \in coinsImages \cup {coinsDB} : IsDB(db)
    /\ mapBlockIndex \in treeImages /\ coinsDB \in coinsImages
    /\ pc \in {"off", "idle", "best", "mark", "switch", "chain", "update"}
    /\ fStarting \in BOOLEAN /\ fRequestShutdown \in BOOLEAN /\ fEnforced \in BOOLEAN
    /\ hashCheckpoint \in Indexed \cup {NoBlock}
    /\ vAttach \subseteq Indexed
    /\ pindexNew \in Indexed \cup {NoBlock}
    /\ vDisconnect \subseteq Indexed /\ vConnect \subseteq Indexed

\* At every moment - in the middle of a reorganisation, after any crash, in every
\* layer of the cache - the coins are exactly the unspent outputs of the chain
\* that ends in the layer's best block (ConnectBlock, DisconnectBlock, the undo
\* data, the two caches and CCoinsViewDB::BatchWrite).
CoinsMatchChain ==
    /\ \A db \in coinsImages \cup {coinsDB} :
        Unspent(db.coins) = Utxo(db.hashBestChain)
    /\ pc # "off" => Unspent(TipCoins) = Utxo(pcoinsTip.pindexTip)
    /\ pc = "chain" => Unspent(ViewCoins) = Utxo(view.pindexTip)

\* ConnectBlock accepts a block exactly when the consensus rules do, stated over the
\* outputs of the chain the block extends: the disconnected blocks, the undo data and
\* the two caches the view was built from, and the flushes, failures and restarts
\* before it, never change the verdict.
ConnectIsExact ==
    \A b \in Blocks \ {Genesis} :
        Connecting(b) =>
            (ConnectBlock(ViewCoins, b).fValid <=> ValidOn(Utxo(Parent[b]), b))

\* A block the node has marked failed, now or in any state a failure can leave on
\* disk, really lies on an invalid chain: a valid block that is marked failed is
\* never considered again (InvalidBlockFound, ConnectBestBlock).
FailedIsInvalid ==
    \A tree \in treeImages \cup {mapBlockIndex} : \A b \in DOMAIN tree :
        Failed(tree[b]) => b \notin ValidBlocks

\* When no handler runs in a process that does not enforce synchronized checkpoints,
\* no indexed block without a failed ancestor has more work than the best block: no
\* order of arrival, failure or restart leaves such a node on a lighter chain, nor does
\* what an enforcing process left on disk (AddToBlockIndex, ConnectBestBlock,
\* LoadBlockIndexDB).  An enforcing process stands on a lighter chain after
\* EnforceCheckpoint, and for that reason is left out.
BestIsMostWork ==
    pc = "idle" /\ ~fRequestShutdown /\ ~fEnforced =>
        \A b \in Indexed :
            (\A a \in ChainOf(b) : ~Failed(mapBlockIndex[a]))
                => ChainWork[b] <= WorkOf(pindexBest)

\* Between handlers the pnext pointers run exactly along the chain of pindexBest,
\* on which IsInMainChain, FindBlockByHeight and ConnectBestBlock's walk rely, and
\* the coin cache is at that block.  (After a full disk stopped SetBestChain half
\* way this holds no more, until the requested shutdown.)
MainChainLinks ==
    pc \in {"idle", "best", "switch"} /\ ~fRequestShutdown =>
        /\ pnext = MainChainTo(pindexBest)
        /\ pcoinsTip.pindexTip = pindexBest

\* The money supply recorded for the best block is the value of the unspent outputs,
\* whatever route of connections, reorganisations and restarts led to it.
MoneySupplyMatchesCoins ==
    pcoinsTip.pindexTip # NoBlock =>
        mapBlockIndex[pcoinsTip.pindexTip].nMoneySupply = Total(Unspent(TipCoins))

\* A reorganisation always finds undo data for the blocks it leaves, and the undo
\* data fits the coins: DisconnectBlock's error returns are never taken.
DisconnectsCleanly ==
    pc = "chain" /\ view.pindexTip \in vDisconnect =>
        LET undo == mapBlockIndex[view.pindexTip].undo
        IN  undo # NoUndo /\ DisconnectBlock(ViewCoins, view.pindexTip, undo).fClean

\* No candidate for the best chain is itself marked failed: ConnectBestBlock would
\* walk from it, mark nothing and choose it again for ever.
NoFailedCandidate ==
    \A b \in setBlockIndexValid : ~Failed(mapBlockIndex[b])

\* Whatever images of the two databases a failure at this moment would leave
\* together, the best block of the coins is in the block tree with all its
\* ancestors: LoadBlockIndexDB finds it, and its walk along pprev meets no gap
\* (SetBestChain writes and syncs the tree before the coins).
RestartFindsChain ==
    \A tree \in treeImages, db \in coinsImages :
        ChainOf(db.hashBestChain) \subseteq DOMAIN tree

\* ... and VerifyDB accepts the pair: every block of that chain has undo data that
\* fits the coins.
RestartVerifies ==
    \A tree \in treeImages, db \in coinsImages : VerifyDB(tree, db)

\* Until the node stops, the best block only ever gives way to one with more work, at
\* each block of a reorganisation (ConnectBestBlock's order of vAttach), or to the very
\* block of the checkpoint that an enforcing process is switching to.
OnlyMoreWork ==
    [][pindexBest' \notin {pindexBest, NoBlock} /\ pindexBest # NoBlock =>
        \/ ChainWork[pindexBest'] > ChainWork[pindexBest]
        \/ fEnforced /\ pindexBest' = hashCheckpoint]_pindexBest

LedgerView == INSTANCE Ledger WITH
    ValidTips <- ValidBlocks,
    tip       <- pindexBest,
    enforced  <- fEnforced,
    saved     <- {db.hashBestChain : db \in coinsImages}

\* The chain state implements Ledger: the best block changes only to a valid chain,
\* with more work unless the process enforces synchronized checkpoints, and a restart
\* resumes from a chain whose coins were saved.
ImplementsLedger == LedgerView!LedgerSpec

\* A handler that has begun comes to an end: neither ConnectBestBlock's outer loop
\* nor its walks go round for ever.
HandlerTerminates == HandlerRuns ~> ~HandlerRuns
=============================================================================
