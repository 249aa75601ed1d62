------------------------------- MODULE MCPeers -------------------------------
(***************************************************************************)
(* One peer, which opencon, addcon and a one-shot connect to and which     *)
(* connects to the node itself, two places and two slots.                  *)
(***************************************************************************)
EXTENDS Peers, TLC

CONSTANTS a, m1, m2

MCCandidates == [t \in Openers |-> Addrs]

Symmetry == Permutations({m1, m2})
=============================================================================
