--------------------------- MODULE MCSyncCheckpoint ---------------------------
(***************************************************************************)
(* Forks of which the shorter is heavier, and an invalid block:            *)
(*                                                                         *)
(*   g -- s -- a2 -- a3 -- x4* -- x5    work 1 2 3 4 7 8                   *)
(*         \                                                               *)
(*          b2 -- b3                    work 5 6                           *)
(***************************************************************************)
EXTENDS SyncProperties, TLC

CONSTANTS g, s, a2, a3, x4, x5, b2, b3, k1, k2

MCBlocks == {g, s, a2, a3, x4, x5, b2, b3}

MCParent ==
    [b \in Blocks |-> CASE b = g -> NoBlock [] b = s -> g [] b \in {a2, b2} -> s
                        [] b = a3 -> a2 [] b = x4 -> a3 [] b = x5 -> x4
                        [] b = b3 -> b2]

MCHeight ==
    [b \in Blocks |-> CASE b = g -> 0 [] b = s -> 1 [] b \in {a2, b2} -> 2
                        [] b \in {a3, b3} -> 3 [] b = x4 -> 4 [] b = x5 -> 5]

MCChainWork ==
    [b \in Blocks |-> CASE b = g -> 1 [] b = s -> 2 [] b = a2 -> 3 [] b = a3 -> 4
                        [] b = b2 -> 5 [] b = b3 -> 6 [] b = x4 -> 7 [] b = x5 -> 8]

MCAncestry ==
    [b \in Blocks |-> CASE b = g -> {g} [] b = s -> {g, s}
                        [] b = a2 -> {g, s, a2} [] b = a3 -> {g, s, a2, a3}
                        [] b = x4 -> {g, s, a2, a3, x4} [] b = x5 -> {g, s, a2, a3, x4, x5}
                        [] b = b2 -> {g, s, b2} [] b = b3 -> {g, s, b2, b3}]
=============================================================================
