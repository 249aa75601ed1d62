-------------------------------- MODULE Coins --------------------------------
(***************************************************************************)
(* What connecting and disconnecting a block does to the unspent outputs:  *)
(* CCoins and CTxInUndo (main.h), CTransaction::UpdateCoins, HaveInputs    *)
(* and CheckInputs, CBlock::ConnectBlock and CBlock::DisconnectBlock       *)
(* (main.cpp), as operators on a function from transaction ids to CCoins.  *)
(*                                                                         *)
(* A transaction absent from the function's support is Pruned: the code    *)
(* never tells an absent entry from a fully spent one here, because every  *)
(* test goes through IsPruned or IsAvailable.                              *)
(***************************************************************************)
EXTENDS BlockTree, Integers, SequencesExt

CONSTANTS
    Txids,              \* transaction ids
    TxIn,               \* TxIn[t]: the prevouts of t, [hash, n]; <<>> for a coinbase
    TxOut,              \* TxOut[t]: the outputs of t, CTxOut
    SigOps,             \* SigOps[t]: GetLegacySigOpCount of t
    RedeemSigOps,       \* RedeemSigOps[t]: the operations in what each input redeems
    BlockTxs,           \* BlockTxs[b]: CBlock::vtx
    BadScripts,         \* transactions with an input whose script check fails
    COINBASE_MATURITY,
    MIN_TX_FEE,         \* GetMinFee() of a transaction below 1000 bytes
    Subsidy,            \* TargetGetMint of the (constant) nBits
    MAX_MONEY,
    MAX_BLOCK_SIGOPS

\* CTxOut: of its script, whether it is a pay-to-script-hash one.
CTxOut == [nValue : Nat, fP2SH : BOOLEAN]

\* What CheckBlock and CheckTransaction have established of every indexed block;
\* ConnectBlock calls CheckBlock again, on the same block.
ASSUME TransactionAssumption ==
    /\ TxIn \in [Txids -> Seq([hash : Txids, n : Nat \ {0}])]
    /\ TxOut \in [Txids -> Seq(CTxOut)]
    /\ \A t \in Txids : IsInjective(TxIn[t]) /\ TxOut[t] # <<>>
    /\ BlockTxs \in [Blocks -> Seq(Txids)]
    /\ \A b \in Blocks :
        /\ BlockTxs[b] # <<>> /\ IsInjective(BlockTxs[b])
        /\ \A i \in DOMAIN BlockTxs[b] : TxIn[BlockTxs[b][i]] = <<>> <=> i = 1
    /\ BadScripts \subseteq {t \in Txids : TxIn[t] # <<>>}
    /\ SigOps \in [Txids -> Nat] /\ RedeemSigOps \in [Txids -> Seq(Nat)]
    /\ \A t \in Txids : DOMAIN RedeemSigOps[t] = DOMAIN TxIn[t]
    /\ {COINBASE_MATURITY, MIN_TX_FEE, Subsidy, MAX_MONEY, MAX_BLOCK_SIGOPS} \subseteq Nat

-----------------------------------------------------------------------------
\* CCoins

\* CTxOut::SetNull.
NullOut == [nValue |-> -1, fP2SH |-> FALSE]

Pruned == [fCoinBase |-> FALSE, nHeight |-> 0, vout |-> <<>>]

IsCoinBase(t) == TxIn[t] = <<>>

CoinsOf(t, nHeight) ==
    [fCoinBase |-> IsCoinBase(t), nHeight |-> nHeight, vout |-> TxOut[t]]

IsAvailable(coins, n) == n \in DOMAIN coins.vout /\ coins.vout[n] # NullOut

\* vout with output n marked spent and the spent tail dropped (CCoins::Cleanup).
SpentVout(vout, n) ==
    LET marked == [vout EXCEPT ![n] = NullOut]
    IN  SubSeq(marked, 1, SelectLastInSeq(marked, LAMBDA out : out # NullOut))

Spend(coins, n) ==
    LET vout == SpentVout(coins.vout, n)
    IN  IF vout = <<>> THEN Pruned ELSE [coins EXCEPT !.vout = vout]

\* CTxInUndo: the height and the coinbase flag are kept only with the last output.
SpendUndo(coins, n) ==
    LET fLast == SpentVout(coins.vout, n) = <<>>
    IN  [txout     |-> coins.vout[n],
         nHeight   |-> IF fLast THEN coins.nHeight ELSE 0,
         fCoinBase |-> fLast /\ coins.fCoinBase]

\* The inverse: output n of the entry put back from its undo data.
RestoreOutput(coins, n, undo) ==
    LET from == IF undo.nHeight # 0
                THEN [fCoinBase |-> undo.fCoinBase, nHeight |-> undo.nHeight, vout |-> <<>>]
                ELSE coins
        size == Max({n, Len(from.vout)})
    IN  [from EXCEPT !.vout =
            [i \in 1..size |-> IF i = n THEN undo.txout
                               ELSE IF i <= Len(from.vout) THEN from.vout[i] ELSE NullOut]]

\* No "undo data overwriting ..." or "adding output to missing ..." complaint.
RestoresCleanly(coins, n, undo) ==
    /\ (undo.nHeight # 0) <=> (coins = Pruned)
    /\ ~IsAvailable(coins, n)

-----------------------------------------------------------------------------
\* Transactions

\* A loop that adds up values.
Sum(values) ==
    LET total[i \in 0 .. Len(values)] == IF i = 0 THEN 0 ELSE total[i - 1] + values[i]
    IN  total[Len(values)]

ValueOut(t) == Sum([n \in DOMAIN TxOut[t] |-> TxOut[t][n].nValue])

\* GetOutputFor: the output an input spends.
OutputFor(coins, in) == coins[in.hash].vout[in.n]

ValueIn(coins, t) == Sum([i \in DOMAIN TxIn[t] |-> OutputFor(coins, TxIn[t][i]).nValue])

\* Mutant: operations are counted whatever kind of output the input spends.
GetP2SHSigOpCount_EveryOutput(coins, t) == Sum(RedeemSigOps[t])

\* The operations in the scripts that the pay-to-script-hash inputs of t redeem.
GetP2SHSigOpCount(coins, t) ==
    Sum([i \in DOMAIN TxIn[t] |->
            IF OutputFor(coins, TxIn[t][i]).fP2SH THEN RedeemSigOps[t][i] ELSE 0])

\* Mutant: a coinbase needs one confirmation more.
CheckInputs_Later(coins, t, nSpendHeight) ==
    /\ \A i \in DOMAIN TxIn[t] : IsAvailable(coins[TxIn[t][i].hash], TxIn[t][i].n)
    /\ \A i \in DOMAIN TxIn[t] :
        LET from == coins[TxIn[t][i].hash]
        IN  from.fCoinBase => nSpendHeight - from.nHeight > COINBASE_MATURITY
    /\ ValueIn(coins, t) <= MAX_MONEY
    /\ ValueIn(coins, t) - ValueOut(t) >= MIN_TX_FEE

\* CTransaction::HaveInputs and CheckInputs; script checks are handed to the
\* check queue, whose verdict ConnectBlock collects at the end.  No amount is
\* negative, so MoneyRange of the whole input value implies it of its parts, of the
\* running total and of the fee.
CheckInputs(coins, t, nSpendHeight) ==
    /\ \A i \in DOMAIN TxIn[t] : IsAvailable(coins[TxIn[t][i].hash], TxIn[t][i].n)
    /\ \A i \in DOMAIN TxIn[t] :
        LET from == coins[TxIn[t][i].hash]
        IN  from.fCoinBase => nSpendHeight - from.nHeight >= COINBASE_MATURITY
    /\ ValueIn(coins, t) <= MAX_MONEY
    /\ ValueIn(coins, t) - ValueOut(t) >= MIN_TX_FEE

\* One turn of UpdateCoins' loop over vin.
SpendInput(s, in) ==
    [coins  |-> [s.coins EXCEPT ![in.hash] = Spend(@, in.n)],
     txundo |-> Append(s.txundo, SpendUndo(s.coins[in.hash], in.n))]

\* CTransaction::UpdateCoins: the coins after t, and the undo data of its inputs.
UpdateCoins(coins, t, nHeight) ==
    LET spent[i \in 0 .. Len(TxIn[t])] ==
            IF i = 0 THEN [coins |-> coins, txundo |-> <<>>]
            ELSE SpendInput(spent[i - 1], TxIn[t][i])
    IN  [spent[Len(TxIn[t])] EXCEPT !.coins[t] = CoinsOf(t, nHeight)]

-----------------------------------------------------------------------------
\* Blocks

\* One turn of ConnectBlock's loop over vtx; s.fOk is FALSE once it has returned.
\* The code compares the count of signature operations with the limit twice, before and
\* after it adds those of the redeemed scripts; only the larger count can decide.
ConnectTx(s, t, nHeight) ==
    LET nSigOps == s.nSigOps + SigOps[t] + GetP2SHSigOpCount(s.coins, t)
        updated == UpdateCoins(s.coins, t, nHeight)
        nValueIn == IF IsCoinBase(t) THEN 0 ELSE ValueIn(s.coins, t)
    IN  IF \/ ~s.fOk
           \/ ~IsCoinBase(t) /\ ~CheckInputs(s.coins, t, nHeight)
           \/ nSigOps > MAX_BLOCK_SIGOPS
        THEN [s EXCEPT !.fOk = FALSE]
        ELSE [fOk       |-> TRUE,
              nSigOps   |-> nSigOps,
              coins     |-> updated.coins,
              vtxundo   |-> IF IsCoinBase(t) THEN s.vtxundo
                            ELSE Append(s.vtxundo, updated.txundo),
              nFees     |-> IF IsCoinBase(t) THEN s.nFees
                            ELSE s.nFees + nValueIn - ValueOut(t),
              nSupply   |-> s.nSupply + ValueOut(t) - nValueIn]

\* BIP30: no transaction may overwrite one that is not completely spent.
OverwritesNone(coins, b) ==
    \A i \in DOMAIN BlockTxs[b] : coins[BlockTxs[b][i]] = Pruned

\* CBlock::ConnectBlock.  fOk: the loop over vtx completed, so the money supply
\* is recorded; fValid: the coinbase pays no more than it may and every queued
\* script check succeeded.
ConnectBlock(coins, b) ==
    LET start == [fOk |-> OverwritesNone(coins, b), coins |-> coins,
                  vtxundo |-> <<>>, nSigOps |-> 0, nFees |-> 0, nSupply |-> 0]
        after[i \in 0 .. Len(BlockTxs[b])] ==
            IF i = 0 THEN start ELSE ConnectTx(after[i - 1], BlockTxs[b][i], Height[b])
        end == after[Len(BlockTxs[b])]
    IN  [fOk     |-> end.fOk,
         fValid  |-> /\ end.fOk
                     /\ ValueOut(BlockTxs[b][1]) <= Subsidy + end.nFees
                     /\ \A i \in DOMAIN BlockTxs[b] : BlockTxs[b][i] \notin BadScripts,
         coins   |-> end.coins,
         vtxundo |-> end.vtxundo,
         nSupply |-> end.nSupply]

\* One turn of DisconnectBlock's loop over vin; undo is its CTxInUndo.
RestoreInput(r, in, undo) ==
    [coins  |-> [r.coins EXCEPT ![in.hash] = RestoreOutput(@, in.n, undo)],
     fClean |-> r.fClean /\ RestoresCleanly(r.coins[in.hash], in.n, undo)]

\* The transaction's own outputs are removed.
RemoveOutputs(s, t, nHeight) ==
    [coins  |-> [s.coins EXCEPT ![t] = Pruned],
     fClean |-> s.fClean /\ s.coins[t] = CoinsOf(t, nHeight)]

\* Mutant: the inputs are restored in the order they were spent.
DisconnectTx_Forward(s, b, vtxundo, i) ==
    LET t == BlockTxs[b][i]
        vin == TxIn[t]
        restored[k \in 0 .. Len(vin)] ==
            IF k = 0 THEN RemoveOutputs(s, t, Height[b])
            ELSE RestoreInput(restored[k - 1], vin[k], vtxundo[i - 1][k])
    IN  restored[Len(vin)]

\* Undo transaction i of the block, with its inputs in reverse order.
DisconnectTx(s, b, vtxundo, i) ==
    LET t == BlockTxs[b][i]
        vin == TxIn[t]
        restored[k \in 0 .. Len(vin)] ==
            IF k = 0 THEN RemoveOutputs(s, t, Height[b])
            ELSE LET j == Len(vin) - k + 1
                 IN  RestoreInput(restored[k - 1], vin[j], vtxundo[i - 1][j])
    IN  restored[Len(vin)]

\* CBlock::DisconnectBlock: transactions in reverse order.
DisconnectBlock(coins, b, vtxundo) ==
    LET undone[k \in 0 .. Len(BlockTxs[b])] ==
            IF k = 0 THEN [coins |-> coins, fClean |-> TRUE]
            ELSE DisconnectTx(undone[k - 1], b, vtxundo, Len(BlockTxs[b]) - k + 1)
    IN  undone[Len(BlockTxs[b])]

\* The entries connecting or disconnecting b leaves in the cache of its view.
Touched(b) ==
    UNION {{t} \cup {TxIn[t][i].hash : i \in DOMAIN TxIn[t]} : t \in ToSet(BlockTxs[b])}
=============================================================================
