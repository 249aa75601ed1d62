------------------------------ MODULE MCMemPool ------------------------------
(***************************************************************************)
(*   g -- s -- a2 -- a3     work 1 2 3 4                                   *)
(*         \    \                                                          *)
(*          \    x3*        work 7, spends its own immature coinbase       *)
(*           b2, d2         work 5 and 6                                   *)
(*                                                                         *)
(* t1 spends the coinbase c1 of s and is in a2; t2 spends an output of t1  *)
(* and is in a3; d2 holds t3, which spends c1 again.  t4 spends the        *)
(* coinbase of a2, t5 outputs of t1 and t4.                                *)
(***************************************************************************)
EXTENDS MemPool

CONSTANTS g, s, a2, a3, b2, d2, x3, c0, c1, ca, cc, cb, cd, cx, t1, t2, t3, t4, t5, tx

MCBlocks == {g, s, a2, a3, b2, d2, x3}

MCParent == (g :> NoBlock) @@ (s :> g) @@ (a2 :> s) @@ (a3 :> a2) @@ (x3 :> a2) @@
            (b2 :> s) @@ (d2 :> s)

MCHeight == (g :> 0) @@ (s :> 1) @@ (a2 :> 2) @@ (a3 :> 3) @@ (x3 :> 3) @@
            (b2 :> 2) @@ (d2 :> 2)

MCChainWork == (g :> 1) @@ (s :> 2) @@ (a2 :> 3) @@ (a3 :> 4) @@ (x3 :> 7) @@
               (b2 :> 5) @@ (d2 :> 6)

MCAncestry == (g :> {g}) @@ (s :> {g, s}) @@ (a2 :> {g, s, a2}) @@ (a3 :> {g, s, a2, a3}) @@
              (x3 :> {g, s, a2, x3}) @@ (b2 :> {g, s, b2}) @@ (d2 :> {g, s, d2})

MCTxids == {c0, c1, ca, cc, cb, cd, cx, t1, t2, t3, t4, t5, tx}

Out(t, i) == [hash |-> t, n |-> i]

MCTxIn ==
    [t \in {c0, c1, ca, cc, cb, cd, cx} |-> <<>>] @@
    (t1 :> <<Out(c1, 1)>>) @@ (t2 :> <<Out(t1, 1)>>) @@ (t3 :> <<Out(c1, 1)>>) @@
    (t4 :> <<Out(ca, 1)>>) @@ (t5 :> <<Out(t4, 1), Out(t1, 2)>>) @@ (tx :> <<Out(cx, 1)>>)

Pays(v) == [nValue |-> v, fP2SH |-> FALSE]

MCTxOut ==
    [t \in {c0, c1, ca, cc, cb, cd, cx} |-> <<Pays(5)>>] @@
    (t1 :> <<Pays(2), Pays(2)>>) @@ (t2 :> <<Pays(1)>>) @@ (t3 :> <<Pays(4)>>) @@
    (t4 :> <<Pays(3)>>) @@ (t5 :> <<Pays(3)>>) @@ (tx :> <<Pays(4)>>)

MCSigOps == [t \in Txids |-> 1]

MCRedeemSigOps == [t \in Txids |-> [i \in DOMAIN TxIn[t] |-> 0]]

MCBlockTxs ==
    (g :> <<c0>>) @@ (s :> <<c1>>) @@ (a2 :> <<ca, t1>>) @@ (a3 :> <<cc, t2>>) @@
    (b2 :> <<cb>>) @@ (d2 :> <<cd, t3>>) @@ (x3 :> <<cx, tx>>)

\* SetBestChain never leaves the coins in the cache, or may do so in any call of ProcessBlock.
Flushed == {MCBlocks}
FlushedOrNot == {{}, MCBlocks}

MCRelayFee == [t \in Txids |-> IF t = t5 THEN 3 ELSE 1]
=============================================================================
