---------------------------- MODULE MCAsyncValue ----------------------------
(***************************************************************************)
(* Instances of AsyncValue for TLC.                                        *)
(***************************************************************************)
EXTENDS AsyncValue

CONSTANTS c, i, j, w1, w2, w3, w4

(* Everyone waits on one value. *)
CrowdTarget == [w \in {w1, w2, w3, w4} |-> c]
UserSymmetry == Permutations(Users)

(* j is resolved to i and i to c. *)
ChainTarget == w1 :> i @@ i :> c @@ j :> i
=============================================================================
