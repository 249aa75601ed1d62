------------------------------ MODULE BlockTree ------------------------------
(***************************************************************************)
(* The tree of block headers a node can ever hear of (CBlockIndex in       *)
(* main.h).  The header of a block fixes its parent, and with it its       *)
(* height, its accumulated work and the set of its ancestors, so all four  *)
(* are constants; which of the blocks the node has indexed is state of the *)
(* modules that use the tree.  Height, ChainWork and Ancestry are given by *)
(* the equations AddToBlockIndex computes them with, rather than by        *)
(* recursive definitions, so that theorems can use the equations.          *)
(***************************************************************************)
EXTENDS Naturals

CONSTANTS
    Blocks,     \* every block, identified by its hash
    Genesis,    \* hashGenesisBlock
    NoBlock,    \* the NULL CBlockIndex*
    Parent,     \* CBlockIndex::pprev
    Height,     \* CBlockIndex::nHeight
    ChainWork,  \* CBlockIndex::nChainWork
    Ancestry    \* the blocks met by following pprev, the block included

ASSUME BlockTreeAssumption ==
    /\ Genesis \in Blocks
    /\ NoBlock \notin Blocks
    /\ Parent \in [Blocks -> Blocks \cup {NoBlock}]
    /\ Height \in [Blocks -> Nat]
    /\ ChainWork \in [Blocks -> Nat \ {0}]
    /\ Ancestry \in [Blocks -> SUBSET Blocks]

ASSUME GenesisAssumption ==
    /\ Parent[Genesis] = NoBlock
    /\ Height[Genesis] = 0
    /\ Ancestry[Genesis] = {Genesis}

\* AddToBlockIndex; GetBlockWork() is positive, so work grows along every chain.
ASSUME ChildAssumption ==
    \A b \in Blocks \ {Genesis} :
        /\ Parent[b] \in Blocks
        /\ Height[b] = Height[Parent[b]] + 1
        /\ ChainWork[b] > ChainWork[Parent[b]]
        /\ Ancestry[b] = {b} \cup Ancestry[Parent[b]]

ChainOf(b) == IF b = NoBlock THEN {} ELSE Ancestry[b]

WorkOf(b) == IF b = NoBlock THEN 0 ELSE ChainWork[b]

\* The block a walk from two tips meets at: the highest common ancestor.
ForkOf(a, b) ==
    LET common == ChainOf(a) \cap ChainOf(b)
    IN  IF common = {} THEN NoBlock
        ELSE CHOOSE c \in common : \A d \in common : Height[d] <= Height[c]

\* The first block of a non-empty stretch of chain.
Lowest(chain) == CHOOSE b \in chain : \A c \in chain : Height[b] <= Height[c]
=============================================================================
