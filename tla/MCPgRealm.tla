----------------------------- MODULE MCPgRealm -----------------------------
(***************************************************************************)
(* Model-checking instance of PgRealm alone: two owners of a realm, each   *)
(* of whom takes the role of the other.                                    *)
(***************************************************************************)
EXTENDS PgRealm

CONSTANTS alice, bob, v1, t1, t2

MCDemotions ==
  {[limit |-> 2, roles |-> [u \in PgUsers |-> "OWNER"], exists |-> TRUE, atoms |-> {},
    ops |-> {"update_roles", "get_role_certificates"}]}

=============================================================================
