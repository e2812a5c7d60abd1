--------------------------- MODULE MCUserManifest ---------------------------
(***************************************************************************)
(* Model-checking instances of UserManifest for one workspace and two      *)
(* devices, side by side.  Every behaviour is of one of them, which part   *)
(* names.  keys: the user is an outsider, the workspace is re-encrypted;   *)
(* messages: the user may be made manager, and more roles are granted;     *)
(* faults: the workspace is renamed, a task interrupted, users revoked.    *)
(***************************************************************************)
EXTENDS UserManifest, TLC

CONSTANTS alice, bob, w1, d1, d2

VARIABLE part

DeviceSymmetry == Permutations(Devices)

Keys == INSTANCE UserManifest WITH Admins <- {}, MaxRenames <- 0, MaxGiveUps <- 0

Messages == INSTANCE UserManifest WITH
  Admins <- {}, Outsiders <- {}, MaxGrants <- 3, MaxRevision <- 1, MaxUserVersion <- 1, MaxRenames <- 0, MaxGiveUps <- 0

Faults == INSTANCE UserManifest WITH MaxRevision <- 1

PartsInit == part \in {"keys", "messages", "faults"} /\ Init

PartsNext ==
  /\ UNCHANGED part
  /\ \/ part = "keys" /\ Keys!Next
     \/ part = "messages" /\ Messages!Next
     \/ part = "faults" /\ Faults!Next

PartsSpec == PartsInit /\ [][PartsNext]_<<vars, part>>
=============================================================================
