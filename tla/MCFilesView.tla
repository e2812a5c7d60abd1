---------------------------- MODULE MCFilesView ----------------------------
(***************************************************************************)
(* Model-checking instance of FilesView alone: two workspaces, of a root   *)
(* and a folder, with one file name.                                       *)
(***************************************************************************)
EXTENDS FilesView, TLC

CONSTANTS s1, s2

SpaceSymmetry == Permutations(Spaces)

=============================================================================
