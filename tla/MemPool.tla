-------------------------------- MODULE MemPool --------------------------------
(***************************************************************************)
(* The memory pool (CTxMemPool), the transactions that wait for a parent   *)
(* (mapOrphanTransactions), the blocks that do (mapOrphanBlocks), and what *)
(* a change of the best chain does to the pool.  Handlers run under        *)
(* cs_main and are one action each.  The coins database is what            *)
(* CoinsMatchChain says of it, the unspent outputs of the best chain       *)
(* (Utxo), and ConnectBestBlock switches to the heaviest valid chain, as   *)
(* the theorems and runs of ChainState show.                               *)
(***************************************************************************)
EXTENDS Utxo

CONSTANTS
    NonStandard,    \* transactions that are not IsStandard or AreInputsStandard
    BigTxs,         \* those over 5000 bytes
    RelayFee,       \* GetMinFee(1000, false, GMF_RELAY)
    BadBlocks,      \* blocks AcceptBlock refuses before it stores them
    LastCheckpoint, \* Checkpoints::GetTotalBlocksEstimate()
    FlushSets,      \* in one call of ProcessBlock: the blocks whose SetBestChain flushes
    MaxOrphans      \* MAX_ORPHAN_TRANSACTIONS

ASSUME MemPoolAssumption ==
    /\ NonStandard \subseteq Txids /\ BigTxs \subseteq Txids
    /\ RelayFee \in [Txids -> Nat]
    /\ BadBlocks \subseteq Blocks \ {Genesis}
    /\ LastCheckpoint \in Nat /\ MaxOrphans \in Nat
    /\ FlushSets \subseteq SUBSET Blocks

\* The genesis block has one transaction.  AcceptBlock refuses a block whose coinbase does
\* not start with its height (on top of 750 blocks of version 2, and it stores no others),
\* so that the coinbases of a chain differ.
ASSUME CoinBaseAssumption ==
    /\ Len(BlockTxs[Genesis]) = 1
    /\ \A b \in Blocks \ (BadBlocks \cup {Genesis}) :
        \A c \in ChainOf(Parent[b]) : BlockTxs[c][1] # BlockTxs[b][1]

VARIABLES
    pool,           \* mempool: mapTx, and mapNextTx from outpoints to transactions
    orphans,        \* mapOrphanTransactions and mapOrphanTransactionsByPrev
    orphanBlocks,   \* mapOrphanBlocks, in the order of mapOrphanBlocksByPrev's insertions
    mapBlockIndex,
    failed,         \* the blocks of it that SetBestChain found invalid
    pindexBest,
    pruned          \* the transactions pcoinsTip's cache has an empty entry for

vars == <<pool, orphans, orphanBlocks, mapBlockIndex, failed, pindexBest, pruned>>

NoTxs == [mapTx |-> {}, mapNextTx |-> <<>>]

NoOrphans == [txs |-> {}, byPrev |-> <<>>]

Init ==
    /\ pool = NoTxs /\ orphans = NoOrphans /\ orphanBlocks = <<>>
    /\ mapBlockIndex = {Genesis} /\ failed = {} /\ pindexBest = Genesis /\ pruned = {}

-----------------------------------------------------------------------------
\* The pool

Outpoints(ts) == Points(ts)

AddUnchecked(p, t) ==
    [mapTx     |-> p.mapTx \cup {t},
     mapNextTx |-> [o \in DOMAIN p.mapNextTx \cup Outpoints({t}) |->
                        IF o \in Outpoints({t}) THEN t ELSE p.mapNextTx[o]]]

\* Mutant: mapNextTx keeps what they spend.
Take_KeepsNext(p, ts) == [p EXCEPT !.mapTx = @ \ ts]

\* Whatever transactions of ts the pool has leave it.
Take(p, ts) ==
    [mapTx     |-> p.mapTx \ ts,
     mapNextTx |-> Restrict(p.mapNextTx, DOMAIN p.mapNextTx \ Outpoints(ts \cap p.mapTx))]

\* t and what spends its outputs, and theirs; a chain of spends is no longer than mapTx.
WithSpenders(p, t) ==
    LET spenders(ts) == {p.mapNextTx[o] : o \in {q \in DOMAIN p.mapNextTx : q.hash \in ts}}
    IN  FoldSet(LAMBDA u, ts : ts \cup spenders(ts), {t}, p.mapTx)

RemoveTx(p, t, fRecursive) == Take(p, IF fRecursive THEN WithSpenders(p, t) ELSE {t})

\* Mutant: what depends on a conflicting transaction stays.
RemoveConflicts_Only(p, t) ==
    FoldLeft(LAMBDA q, in : IF in \in DOMAIN q.mapNextTx /\ q.mapNextTx[in] # t
                            THEN RemoveTx(q, q.mapNextTx[in], FALSE) ELSE q,
             p, TxIn[t])

\* Whatever else spends in leaves the pool.
RemoveConflict(p, t, in) ==
    IF in \in DOMAIN p.mapNextTx /\ p.mapNextTx[in] # t THEN RemoveTx(p, p.mapNextTx[in], TRUE)
    ELSE p

RemoveConflicts(p, t) == FoldLeft(LAMBDA q, in : RemoveConflict(q, t, in), p, TxIn[t])

\* MEMPOOL_HEIGHT stands in for any height; only coinbases are asked for theirs.
MEMPOOL_HEIGHT == 1000

\* The coins accept() sees: CCoinsViewMemPool on top of the chain of block b, whose own
\* coins come first.  empty are transactions without unspent outputs that the cache
\* pcoinsTip still has an entry for.
View(b, p, empty) ==
    LET cached == {out.hash : out \in Utxo(b)} \cup empty
    IN  Utxo(b) \cup UNION {OutputsOf(u, MEMPOOL_HEIGHT) : u \in p.mapTx \ cached}

HaveInputs(view, t) ==
    \A in \in ToSet(TxIn[t]) : \E out \in view : [hash |-> out.hash, n |-> out.n] = in

\* What accept() says to t when the best block is b.
Verdict(b, p, t, fLimitFree, empty) ==
    LET view == View(b, p, empty)
        have == {out.hash : out \in view} \cup p.mapTx \cup empty
        ins  == InputsOf(view, t)
    IN  IF IsCoinBase(t) THEN "invalid"
        ELSE IF t \in NonStandard THEN "refused"
        ELSE IF t \in p.mapTx \/ Outpoints({t}) \cap DOMAIN p.mapNextTx # {} THEN "refused"
        ELSE IF t \in have THEN "refused"
        ELSE IF \E in \in ToSet(TxIn[t]) : in.hash \notin have THEN "missing"
        ELSE IF ~HaveInputs(ins, t) THEN "invalid"
        ELSE IF fLimitFree /\ Fee(view, t) < RelayFee[t] THEN "refused"
        ELSE IF \/ Spent(view, t) > MAX_MONEY \/ Fee(view, t) < MIN_TX_FEE
                \/ t \in BadScripts
                \/ \E out \in ins : /\ out.fCoinBase
                                    /\ Height[b] + 1 - out.nHeight < COINBASE_MATURITY
             THEN "invalid"
        ELSE "ok"

-----------------------------------------------------------------------------
\* A new best chain

ChainTxs(b) == UNION {ToSet(BlockTxs[c]) : c \in ChainOf(b)}

\* The blocks above height h of the chain that ends in b, from the lowest.
Upwards(b, h) == [i \in 1 .. Height[b] - h |-> CHOOSE c \in ChainOf(b) : Height[c] = h + i]

TxsOf(blocks) == FlattenSeq([i \in DOMAIN blocks |-> BlockTxs[blocks[i]]])

\* The blocks from the fork to new.
Attached(old, new) == Upwards(new, Height[ForkOf(old, new)])

\* Those from the fork to old, but only above the last checkpoint.
Detached(old, new) ==
    LET fork == Height[ForkOf(old, new)]
    IN  Upwards(old, IF fork < LastCheckpoint THEN LastCheckpoint ELSE fork)

\* q without the elements of S.
DropAll(q, S) == FoldLeft(LAMBDA r, x : IF x \in S THEN r ELSE Append(r, x), <<>>, q)

CoinBases == {t \in Txids : IsCoinBase(t)}

\* Mutant: push_back, and the tip is disconnected first.
Resurrected_TipFirst(old, new) == DropAll(Reverse(TxsOf(Detached(old, new))), CoinBases)

\* vResurrect: each transaction is pushed in front of those of later blocks.
Resurrected(old, new) == DropAll(TxsOf(Detached(old, new)), CoinBases)

\* Mutant: the empty entries of the cache count as absent.
Resurrect_Absent(new, p, t, empty) ==
    IF Verdict(new, p, t, FALSE, {}) = "ok" THEN AddUnchecked(p, t) ELSE RemoveTx(p, t, TRUE)

\* A turn of each of SetBestChain's two loops over the pool.  The coins are those of new;
\* an empty entry the cache still has for t makes accept() refuse it.
Resurrect(new, p, t, empty) ==
    IF Verdict(new, p, t, FALSE, empty) = "ok" THEN AddUnchecked(p, t) ELSE RemoveTx(p, t, TRUE)

Delete(p, t) == RemoveConflicts(RemoveTx(p, t, FALSE), t)

ResurrectAll(new, p, txs, empty) == FoldLeft(LAMBDA q, t : Resurrect(new, q, t, empty), p, txs)

PoolAfterSwitch(p, old, new, empty) ==
    FoldLeft(Delete, ResurrectAll(new, p, Resurrected(old, new), empty), TxsOf(Attached(old, new)))

\* pcoinsTip's cache after the switch from old to new: the entries of what either branch
\* creates or spends, unless it is written to the database, which erases the empty ones.
PrunedAfterSwitch(empty, old, new, fFlush) ==
    LET branches == (ChainOf(old) \ ChainOf(new)) \cup (ChainOf(new) \ ChainOf(old))
    IN  IF fFlush THEN {}
        ELSE (empty \cup UNION {Touched(c) : c \in branches}) \ {out.hash : out \in Utxo(new)}

-----------------------------------------------------------------------------
\* Blocks

\* AcceptBlock on s, the block index, the failed blocks, the best block, the pool and what
\* the cache holds.
\* A block that cannot be connected stays in the index; AcceptBlock returns false when
\* SetBestChain has just found the flaw, and true when it was known.
AcceptBlock(s, b) ==
    LET stored == b \notin s.index /\ Parent[b] \in s.index /\ b \notin BadBlocks
        better == stored /\ ChainWork[b] > ChainWork[s.best]
        flawed == {c \in ChainOf(b) : ~ValidChain[c]}
        found  == IF better /\ flawed # {} THEN {Lowest(flawed)} ELSE {}
        empty  == PrunedAfterSwitch(s.pruned, s.best, b, b \in s.flushing)
    IN  [s EXCEPT !.index = IF stored THEN @ \cup {b} ELSE @,
                  !.failed = @ \cup found,
                  !.best = IF better /\ flawed = {} THEN b ELSE @,
                  !.pruned = IF better /\ flawed = {} THEN empty ELSE @,
                  !.pool = IF better /\ flawed = {} THEN PoolAfterSwitch(@, s.best, b, empty)
                           ELSE @,
                  !.fOk = stored /\ found \subseteq s.failed]

\* The orphans that name the block h as their parent.
WaitingFor(q, h) == {c \in ToSet(q) : Parent[c] = h}

\* Mutant: an orphan that was accepted does not join the queue.
AcceptOrphansOf_One(s) ==
    LET waiting == WaitingFor(s.orphans, Head(s.queue))
        turn(u, c) == IF c \in waiting THEN AcceptBlock(u, c) ELSE u
    IN  IF s.queue = <<>> THEN s
        ELSE [FoldLeft(turn, s, s.orphans) EXCEPT !.queue = Tail(@),
                                                  !.orphans = DropAll(@, waiting)]

AcceptOrphan(s, c) ==
    LET a == AcceptBlock(s, c) IN IF a.fOk THEN [a EXCEPT !.queue = Append(@, c)] ELSE a

AcceptAll(s, waiting, q) ==
    FoldLeft(LAMBDA u, c : IF c \in waiting THEN AcceptOrphan(u, c) ELSE u, s, q)

\* One turn of the loop over vWorkQueue: each orphan that names the block at its head
\* leaves, and those AcceptBlock accepts join the queue.
AcceptOrphansOf(s) ==
    LET waiting == WaitingFor(s.orphans, Head(s.queue))
    IN  IF s.queue = <<>> THEN s
        ELSE [AcceptAll(s, waiting, s.orphans) EXCEPT !.queue = Tail(@),
                                                      !.orphans = DropAll(@, waiting)]

\* As many turns as there can be: one for each of the blocks.
AcceptDescendants(s, blocks) == FoldLeft(LAMBDA u, c : AcceptOrphansOf(u), s, blocks)

\* What ProcessBlock leaves behind, once its loop ends in e.
Becomes(e) ==
    /\ mapBlockIndex' = e.index /\ failed' = e.failed
    /\ pindexBest' = e.best /\ pool' = e.pool /\ pruned' = e.pruned
    /\ orphanBlocks' = e.orphans

\* ProcessBlock of a block that passes CheckBlock, from a peer.  While the node takes itself
\* to be in the initial download, SetBestChain leaves the coins in the cache.
ProcessBlock(b) ==
    /\ b \notin mapBlockIndex /\ b \notin ToSet(orphanBlocks)
    /\ UNCHANGED orphans
    /\ IF Parent[b] \notin mapBlockIndex
       THEN /\ orphanBlocks' = Append(orphanBlocks, b)
            /\ UNCHANGED <<mapBlockIndex, failed, pindexBest, pool, pruned>>
       ELSE \E flushing \in FlushSets :
            LET now == [index |-> mapBlockIndex, failed |-> failed, best |-> pindexBest,
                        pool |-> pool, pruned |-> pruned, flushing |-> flushing,
                        fOk |-> FALSE, queue |-> <<>>, orphans |-> orphanBlocks]
                a == AcceptBlock(now, b)
                work == IF a.fOk THEN [a EXCEPT !.queue = <<b>>] ELSE a
            IN  Becomes(AcceptDescendants(work, <<b>> \o orphanBlocks))

-----------------------------------------------------------------------------
\* Transactions that wait for a parent

AddOrphanTx(o, t) ==
    IF t \in o.txs \/ t \in BigTxs THEN o
    ELSE LET prevs == {in.hash : in \in ToSet(TxIn[t])}
             set(h) == IF h \in DOMAIN o.byPrev THEN o.byPrev[h] ELSE {}
         IN  [txs    |-> o.txs \cup {t},
              byPrev |-> [h \in DOMAIN o.byPrev \cup prevs |->
                            IF h \in prevs THEN set(h) \cup {t} ELSE set(h)]]

\* Mutant: only the entry of the first input is cleaned up.
EraseOrphanTx_First(o, t) ==
    LET h1 == TxIn[t][1].hash
    IN  IF t \notin o.txs THEN o
        ELSE [txs |-> o.txs \ {t}, byPrev |-> [o.byPrev EXCEPT ![h1] = @ \ {t}]]

EraseOrphanTx(o, t) ==
    LET prevs == {in.hash : in \in ToSet(TxIn[t])}
        emptied == {h \in prevs : o.byPrev[h] = {t}}
    IN  IF t \notin o.txs THEN o
        ELSE [txs    |-> o.txs \ {t},
              byPrev |-> [h \in DOMAIN o.byPrev \ emptied |-> o.byPrev[h] \ {t}]]

\* The states LimitOrphanTxSize may leave: it evicts at random, the new one included.
LimitOrphanTxSize(o) ==
    IF Cardinality(o.txs) <= MaxOrphans THEN {o}
    ELSE {EraseOrphanTx(o, t) : t \in o.txs}

\* The loop over vWorkQueue after t was accepted.  For each orphan that spends t the
\* code calls AcceptToMemoryPool on tx, t itself, which the pool has by now; so none
\* is accepted, the queue never grows, and unless an input of t is missing each is
\* erased, after t, should it have been an orphan.  Looking t up with [] leaves an entry.
ProcessOrphansOf(o, p, t) ==
    LET waiting == IF t \in DOMAIN o.byPrev THEN o.byPrev[t] ELSE {}
        looked  == [o EXCEPT !.byPrev = [h \in DOMAIN @ \cup {t} |->
                                            IF h = t THEN waiting ELSE @[h]]]
        erased  == IF Verdict(pindexBest, p, t, TRUE, pruned) = "missing" THEN {} ELSE waiting
    IN  FoldSet(LAMBDA c, u : EraseOrphanTx(u, c), EraseOrphanTx(looked, t), erased)

\* The handler of "tx".
ReceiveTx(t) ==
    /\ LET verdict == Verdict(pindexBest, pool, t, TRUE, pruned)
       IN  \/ /\ verdict = "ok"
              /\ pool' = AddUnchecked(pool, t)
              /\ orphans' = ProcessOrphansOf(orphans, pool', t)
           \/ /\ verdict = "missing"
              /\ orphans' \in LimitOrphanTxSize(AddOrphanTx(orphans, t))
              /\ UNCHANGED pool
    /\ UNCHANGED <<orphanBlocks, mapBlockIndex, failed, pindexBest, pruned>>

\* The pool and the orphans are not saved, the cache is.
Restart ==
    /\ pool' = NoTxs /\ orphans' = NoOrphans /\ orphanBlocks' = <<>> /\ pruned' = {}
    /\ UNCHANGED <<mapBlockIndex, failed, pindexBest>>

Next ==
    \/ \E b \in Blocks : ProcessBlock(b)
    \/ \E t \in Txids : ReceiveTx(t)
    \/ Restart

Spec == Init /\ [][Next]_vars

-----------------------------------------------------------------------------
\* Properties

\* Each outpoint a pool transaction spends is in mapNextTx with that transaction, and
\* nothing else is, so that no two pool transactions spend the same output.
NextTxMatches ==
    /\ DOMAIN pool.mapNextTx = Outpoints(pool.mapTx)
    /\ \A t \in pool.mapTx : \A o \in Outpoints({t}) : pool.mapNextTx[o] = t

\* What SetBestChain does not resurrect when it leaves the best chain: the coinbases, and
\* the transactions of the blocks up to the last checkpoint.
Lost == CoinBases \cup UNION {ToSet(BlockTxs[c]) : c \in {d \in Blocks : Height[d] <= LastCheckpoint}}

\* CCoinsViewMemPool asks the cache before the pool.  Whatever the cache still holds of
\* disconnected blocks, it hides no pool transaction: what spends one finds its outputs.
PoolIsVisible == pool.mapTx \cap (pruned \cup {out.hash : out \in Utxo(pindexBest)}) = {}

\* Whatever blocks were connected and disconnected, a pool transaction is not in the
\* best chain and each of its inputs is unspent there or made by another pool
\* transaction.  The exception is what left the best chain and was not resurrected: no
\* code removes what spends it.
PoolIsMinable ==
    \A t \in pool.mapTx :
        /\ t \notin ChainTxs(pindexBest)
        /\ \A o \in Outpoints({t}) :
            \/ o.hash \in pool.mapTx
            \/ \E out \in Utxo(pindexBest) : [hash |-> out.hash, n |-> out.n] = o
            \/ o.hash \in Lost \ ChainTxs(pindexBest)

\* "Resurrect memory transactions that were in the disconnected branch": a reorganisation
\* forgets no transaction it takes out of the chain and that the pool, with the coins of the
\* new chain, would still accept, the ones that spend another such transaction included.
\* That is said of a SetBestChain that writes the coins.  If it leaves them in the cache,
\* accept finds the empty entries of all these transactions there and refuses them (README,
\* section 5), which is what pruned stands for here.
NothingIsForgotten ==
    [][\A t \in ChainTxs(pindexBest) \ ChainTxs(pindexBest') :
        Verdict(pindexBest', pool', t, FALSE, pruned') # "ok"]_vars

\* mapOrphanTransactionsByPrev names exactly the orphans that are kept, under each
\* transaction they spend, and their number is bounded.
OrphansAreIndexed ==
    /\ Cardinality(orphans.txs) <= MaxOrphans
    /\ \A t \in orphans.txs : \A in \in ToSet(TxIn[t]) :
        in.hash \in DOMAIN orphans.byPrev /\ t \in orphans.byPrev[in.hash]
    /\ \A h \in DOMAIN orphans.byPrev : \A t \in orphans.byPrev[h] :
        t \in orphans.txs /\ \E in \in ToSet(TxIn[t]) : in.hash = h

\* Whatever the order blocks arrive in, an orphan block waits only for a block the node
\* does not have, or for one that AcceptBlock refused because its chain is invalid.
OrphanBlocksWait ==
    \A b \in ToSet(orphanBlocks) :
        b \notin mapBlockIndex /\ (Parent[b] \in mapBlockIndex => ~ValidChain[Parent[b]])

\* "Recursively process any orphan transactions that depended on this one": once a
\* transaction is accepted, no orphan the pool would accept now is thrown away.
OrphansAreAccepted ==
    [][\A t \in orphans.txs \ orphans'.txs :
        {in.hash : in \in ToSet(TxIn[t])} \cap (pool'.mapTx \ pool.mapTx) # {} =>
            Verdict(pindexBest', pool', t, TRUE, pruned') # "ok"]_vars
=============================================================================
