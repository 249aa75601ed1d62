------------------------------- MODULE Ledger --------------------------------
(***************************************************************************)
(* What the chain state promises to the rest of the node and to its user,  *)
(* without the block index, caches, undo data or databases: the active     *)
(* chain is valid, it only ever gives way to one with more work unless the *)
(* node was started to enforce synchronized checkpoints, and after any     *)
(* stop it resumes from a valid chain it has saved.                        *)
(***************************************************************************)
EXTENDS BlockTree

CONSTANT ValidTips   \* the blocks that end valid chains

VARIABLES tip,    \* the best block, NoBlock while the node is down
          saved,  \* the chain tips a restart may resume from
          enforced \* the node switches to checkpoints whatever their work

Better(b) == b \in ValidTips /\ (enforced \/ ChainWork[b] > WorkOf(tip))

LInit == tip = NoBlock /\ saved = {NoBlock} /\ enforced = FALSE

\* A better valid chain, or that of a checkpoint, becomes the active one.
Adopt == \E b \in Blocks : Better(b) /\ tip' = b /\ UNCHANGED <<saved, enforced>>

\* The active chain, or the one about to be adopted, is saved; older ones may go.
Save == \E b \in Blocks :
    /\ b = tip \/ Better(b)
    /\ saved' \in {{b}, saved \cup {b}}
    /\ UNCHANGED <<tip, enforced>>

\* The node stops, possibly saving the active chain last, and possibly forgetting
\* all saved chains but one.
Stop ==
    /\ tip' = NoBlock
    /\ enforced' = FALSE
    /\ \/ \E b \in saved : saved' = {b}
       \/ \E b \in Blocks : (b = tip \/ Better(b)) /\ saved' \in {{b}, saved \cup {b}}
       \/ UNCHANGED saved

Resume ==
    /\ tip = NoBlock
    /\ tip' \in saved
    /\ saved' = {tip'}
    /\ enforced' \in BOOLEAN

LNext == Adopt \/ Save \/ Stop \/ Resume

LedgerSpec == LInit /\ [][LNext]_<<tip, saved, enforced>>
=============================================================================
