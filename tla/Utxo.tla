-------------------------------- MODULE Utxo ---------------------------------
(***************************************************************************)
(* Reference definitions: which outputs a chain leaves unspent and which   *)
(* chains are valid, stated over sets, without caches, undo data, order of *)
(* processing or any other mechanism of the code.                          *)
(***************************************************************************)
EXTENDS Coins

\* The outputs transaction t adds at the given height.
OutputsOf(t, nHeight) ==
    {[hash |-> t, n |-> n, nValue |-> TxOut[t][n].nValue, fP2SH |-> TxOut[t][n].fP2SH,
      nHeight |-> nHeight, fCoinBase |-> IsCoinBase(t)] : n \in DOMAIN TxOut[t]}

Points(ts) == UNION {ToSet(TxIn[t]) : t \in ts}

\* The outputs available once the transactions ts of block b are added to unspent.
After(unspent, b, ts) ==
    {out \in unspent \cup UNION {OutputsOf(t, Height[b]) : t \in ts} :
        [hash |-> out.hash, n |-> out.n] \notin Points(ts)}

\* The unspent outputs of the chain that ends in b; the coinbase of the genesis
\* block is not spendable.
UtxoOf[b \in Blocks] ==
    IF b = Genesis THEN {} ELSE After(UtxoOf[Parent[b]], b, ToSet(BlockTxs[b]))

Utxo(b) == IF b = NoBlock THEN {} ELSE UtxoOf[b]

Total(outs) == MapThenSumSet(LAMBDA out : out.nValue, outs)

InputsOf(unspent, t) ==
    {out \in unspent : [hash |-> out.hash, n |-> out.n] \in ToSet(TxIn[t])}

\* The output of unspent that an input names.
Source(unspent, in) == CHOOSE out \in unspent : [hash |-> out.hash, n |-> out.n] = in

Spent(unspent, t) == Sum([i \in DOMAIN TxIn[t] |-> Source(unspent, TxIn[t][i]).nValue])

Fee(unspent, t) == Spent(unspent, t) - ValueOut(t)

\* The signature operations of t: its own, and those of the scripts behind the
\* pay-to-script-hash outputs it spends.
SigOpCost(unspent, t) ==
    SigOps[t] + Sum([i \in DOMAIN TxIn[t] |->
        IF Source(unspent, TxIn[t][i]).fP2SH THEN RedeemSigOps[t][i] ELSE 0])

\* Transaction t of block b may spend its inputs.
ValidSpend(unspent, b, t) ==
    LET ins == InputsOf(unspent, t)
    IN  /\ \A in \in ToSet(TxIn[t]) : \E out \in ins : [hash |-> out.hash, n |-> out.n] = in
        /\ \A out \in ins :
            out.fCoinBase => Height[b] - out.nHeight >= COINBASE_MATURITY
        /\ Spent(unspent, t) <= MAX_MONEY
        /\ Fee(unspent, t) >= MIN_TX_FEE
        /\ t \notin BadScripts

\* The consensus rules for block b on top of a chain with the given outputs.
ValidOn(unspent, b) ==
    LET vtx == BlockTxs[b]
        before(i) == After(unspent, b, {vtx[j] : j \in 1..(i - 1)})
    IN  /\ ToSet(vtx) \cap {out.hash : out \in unspent} = {}
        /\ \A i \in 2..Len(vtx) : ValidSpend(before(i), b, vtx[i])
        /\ Sum([i \in DOMAIN vtx |-> SigOpCost(before(i), vtx[i])]) <= MAX_BLOCK_SIGOPS
        /\ ValueOut(vtx[1]) <=
            Subsidy + Sum([i \in DOMAIN vtx |-> IF i = 1 THEN 0 ELSE Fee(before(i), vtx[i])])

\* Every block of the chain that ends in b but the genesis block is valid on its parent.
ValidChain ==
    [b \in Blocks |-> \A a \in Ancestry[b] \ {Genesis} : ValidOn(UtxoOf[Parent[a]], a)]

\* The outputs a function from transaction ids to CCoins makes available.
Unspent(coins) ==
    UNION {{[hash |-> t, n |-> n,
             nValue |-> coins[t].vout[n].nValue, fP2SH |-> coins[t].vout[n].fP2SH,
             nHeight |-> coins[t].nHeight, fCoinBase |-> coins[t].fCoinBase] :
                n \in {m \in DOMAIN coins[t].vout : IsAvailable(coins[t], m)}} :
           t \in DOMAIN coins}
=============================================================================
