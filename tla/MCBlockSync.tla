----------------------------- MODULE MCBlockSync -----------------------------
(***************************************************************************)
(* n has a block of a side chain; A and B have four blocks, twice the      *)
(* Limit of an answer, and n finds the fifth once it has them.  n loses A  *)
(* at any time.                                                            *)
(***************************************************************************)
EXTENDS BlockSync

CONSTANTS n, A, B

MCBlocks == {"g", "b1", "b2", "b3", "b4", "b5", "s1"}

MCParent == [g |-> "none", b1 |-> "g", b2 |-> "b1", b3 |-> "b2", b4 |-> "b3", b5 |-> "b4",
             s1 |-> "g"]

MCHeight == [g |-> 0, b1 |-> 1, b2 |-> 2, b3 |-> 3, b4 |-> 4, b5 |-> 5, s1 |-> 1]

MCChainWork == [b \in MCBlocks |-> MCHeight[b] + 1]

MCMainChain == {"g", "b1", "b2", "b3", "b4", "b5"}

MCAncestry ==
    [b \in MCBlocks |-> IF b = "s1" THEN {"g", "s1"}
                        ELSE {c \in MCMainChain : MCHeight[c] <= MCHeight[b]}]

MCTip == [x \in {n, A, B} |-> IF x = n THEN "s1" ELSE "b4"]

MCLinks == {<<n, A>>, <<n, B>>}

MCFound == {<<n, "b5">>}

\* One peer, and a side chain that is as long as an answer
MCOneLink == {<<n, B>>}

MCTipOfPeer == [x \in {n, A, B} |-> IF x = n THEN "s1" ELSE "b3"]

MCFlaky == {<<n, A>>}
=============================================================================
