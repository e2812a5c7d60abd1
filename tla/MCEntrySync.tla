---------------------------- MODULE MCEntrySync ----------------------------
(***************************************************************************)
(* Model-checking instances of EntrySync: the creator and another device.  *)
(***************************************************************************)
EXTENDS EntrySync, TLC

CONSTANTS d1, d2, e1, e2, e3

EditSymmetry == Permutations(Edits)
=============================================================================
