------------------------------- MODULE MCVlob -------------------------------
(***************************************************************************)
(* Model-checking instance of Vlob: one realm of two users, with two       *)
(* interchangeable vlobs.                                                  *)
(***************************************************************************)
EXTENDS Vlob, TLC

CONSTANTS alice, bob, r1, v1, v2

VlobSymmetry == Permutations(VlobIds)
=============================================================================
