------------------------- MODULE MCRoleCertificates -------------------------
(***************************************************************************)
(* Model-checking instance of RoleCertificates.                            *)
(***************************************************************************)
EXTENDS RoleCertificates, TLC

CONSTANTS alice, bob, zoe

=============================================================================
