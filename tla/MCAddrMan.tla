------------------------------ MODULE MCAddrMan ------------------------------
(***************************************************************************)
(* Three addresses, one of them with two ports.  All share the new bucket  *)
(* n1, which two entries fill; b1 may be in n2 as well, which source q     *)
(* fills.  The tried bucket holds one entry, so a second address evicts.   *)
(* An hour and a day are one tick of the clock, so that what is fresh by   *)
(* one tick adds a reference and does not update the time.                 *)
(***************************************************************************)
EXTENDS AddrMan, TLC

CONSTANTS a1, b1, b2, c1, p, q

MCIp == [s \in Services |-> IF s = b2 THEN b1 ELSE s]

MCNewBucketOf ==
    [sp \in Services \X Sources |-> IF sp[1] \in {b1, b2} /\ sp[2] = q THEN "n2" ELSE "n1"]

MCTold == {<<a1, p>>, <<c1, p>>, <<b1, p>>, <<b2, q>>}

MCTriedBucketOf == [s \in Services |-> "t1"]

Symmetry == Permutations({a1, c1})
=============================================================================
