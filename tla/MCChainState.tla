---------------------------- MODULE MCChainState -----------------------------
(***************************************************************************)
(* A small universe of blocks for TLC:                                     *)
(*                                                                         *)
(*   g -- s -- a2 -- z3*               work 1 2 3 6                       *)
(*         \                                                               *)
(*          b2 -- b3                    work 3 5                           *)
(*            \                                                            *)
(*             x3* -- y4*               work 6 7                           *)
(*             m3*, p3*                 work 4                             *)
(*                                                                         *)
(* Blocks with a star are on invalid chains.  Both forks spend the coinbase *)
(* c1 of s, by the same transaction t1; a2 spends an output it creates; b3 *)
(* reuses the id of the by then fully spent c1; t2 and t3 are a double     *)
(* spend across the forks; x3 spends its own immature coinbase; z3         *)
(* overwrites the unspent coinbase ca; the inputs of tm in m3 are worth    *)
(* more than MAX_MONEY, those of t1 just as much.  The second output of t1 *)
(* is a pay-to-script-hash one: with it b3 has as many signature           *)
(* operations as a block may have, p3 one more.                            *)
(***************************************************************************)
EXTENDS ChainProperties

CONSTANTS g, s, a2, z3, b2, b3, x3, y4, m3, p3,
          c1, ca, cb, cd, cx, cy, t1, t2, t3, tx, tm, tp

\* For the run with process crashes, full disks and enforced checkpoints.
MCBlocks == {g, s, a2, z3, b2, b3, m3, p3}

\* For the run with power failures.
PowerBlocks == {g, s, a2, b2, b3, x3, y4}

MCParent == Restrict(
    (g :> NoBlock) @@ (s :> g) @@ (a2 :> s) @@ (z3 :> a2) @@
    (b2 :> s) @@ (b3 :> b2) @@ (x3 :> b2) @@ (y4 :> x3) @@
    (m3 :> b2) @@ (p3 :> b2), Blocks)

MCHeight == Restrict(
    (g :> 0) @@ (s :> 1) @@ (a2 :> 2) @@ (z3 :> 3) @@
    (b2 :> 2) @@ (b3 :> 3) @@ (x3 :> 3) @@ (y4 :> 4) @@ (m3 :> 3) @@ (p3 :> 3), Blocks)

MCChainWork == Restrict(
    (g :> 1) @@ (s :> 2) @@ (a2 :> 3) @@ (z3 :> 6) @@
    (b2 :> 3) @@ (b3 :> 5) @@ (x3 :> 6) @@ (y4 :> 7) @@ (m3 :> 4) @@ (p3 :> 4), Blocks)

MCAncestry == Restrict(
    (g :> {g}) @@ (s :> {g, s}) @@ (a2 :> {g, s, a2}) @@ (z3 :> {g, s, a2, z3}) @@
    (b2 :> {g, s, b2}) @@ (b3 :> {g, s, b2, b3}) @@
    (x3 :> {g, s, b2, x3}) @@ (y4 :> {g, s, b2, x3, y4}) @@
    (m3 :> {g, s, b2, m3}) @@ (p3 :> {g, s, b2, p3}), Blocks)

CoinBases == {c1, ca, cb, cd, cx, cy}

MCTxids == CoinBases \cup {t1, t2, t3, tx, tm, tp}

Out(t, i) == [hash |-> t, n |-> i]

MCTxIn ==
    [t \in CoinBases |-> <<>>] @@
    (t1 :> <<Out(c1, 1)>>) @@
    (t2 :> <<Out(t1, 1)>>) @@
    (t3 :> <<Out(t1, 2), Out(t1, 1)>>) @@
    (tx :> <<Out(cx, 1)>>) @@
    (tm :> <<Out(cb, 1), Out(t1, 1)>>) @@
    (tp :> <<Out(t1, 2), Out(t1, 1)>>)

Pay(nValue)     == [nValue |-> nValue, fP2SH |-> FALSE]
PayHash(nValue) == [nValue |-> nValue, fP2SH |-> TRUE]

MCTxOut ==
    [t \in CoinBases |-> <<Pay(5)>>] @@
    (t1 :> <<Pay(2), PayHash(2)>>) @@ (t2 :> <<Pay(1)>>) @@ (t3 :> <<Pay(3)>>) @@
    (tx :> <<Pay(4)>>) @@ (tm :> <<Pay(5)>>) @@ (tp :> <<Pay(3)>>)

MCSigOps == [t \in MCTxids |-> IF t = t3 THEN 0 ELSE 1]

\* What the second inputs of t3 and tp carry redeems nothing: they spend an output
\* of another kind.
MCRedeemSigOps ==
    [t \in MCTxids |-> IF t \in {t3, tp} THEN <<2, 2>> ELSE [i \in DOMAIN MCTxIn[t] |-> 0]]

MCBlockTxs == Restrict(
    (g :> <<cy>>) @@ (s :> <<c1>>) @@
    (a2 :> <<ca, t1, t2>>) @@ (z3 :> <<ca>>) @@
    (b2 :> <<cb, t1>>) @@ (b3 :> <<c1, t3>>) @@
    (x3 :> <<cx, tx>>) @@ (y4 :> <<cy>>) @@
    (m3 :> <<cd, tm>>) @@ (p3 :> <<cd, tp>>), Blocks)

=============================================================================
