------------------------------ MODULE MCServer ------------------------------
(***************************************************************************)
(* Model-checking instances of components that share no state, side by     *)
(* side: every behaviour is one of a single component, which part names.   *)
(* trust: an organization of two users and a client that verifies its      *)
(* certificates; tables: the transactions of PostgreSQL on a realm;        *)
(* blocks: the block stores; certificates: the role certificates of a      *)
(* realm.                                                                  *)
(***************************************************************************)
EXTENDS Trustchain, PgRealm, RaidBlocks, RoleCertificates, TLC

CONSTANTS alice, bob, zoe, h1, h2, c1, c2, v1, v2, t1, t2, t3, t4

VARIABLE part

PartsSymmetry == Permutations(UserIds) \cup Permutations(Humans) \cup Permutations(Conns)

-----------------------------------------------------------------------------
(* Organizations *)

Deployed(impl, tokens, until, n, gets) ==
  [impl |-> impl, tokens |-> tokens, now |-> until, devices |-> n, fetches |-> gets]

MCSetups ==
  {Deployed("MEMORY", 1, 1, 2, 0), Deployed("POSTGRESQL", 1, 1, 2, 0),
   Deployed("POSTGRESQL", 0, 2, 3, 0),
   Deployed("POSTGRESQL", 0, 1, 2, 1), Deployed("MEMORY", 0, 2, 2, 1)}

\* Where there is a client, time passes once, when all users and devices are registered and
\* the client has something that can expire.
TimeForTheClient ==
  now' # now /\ setup.fetches > 0 =>
    /\ Cardinality(DOMAIN devices) = setup.devices
    /\ client.cache # EmptyCache \/ client.answer # NoAnswer

-----------------------------------------------------------------------------
(* Transactions *)

Tables(roles, exists, rows, n, ops) ==
  [limit |-> n, roles |-> roles, exists |-> exists, atoms |-> rows, ops |-> ops]

BothOwn == [u \in PgUsers |-> "OWNER"]
Fresh == Tables([u \in PgUsers |-> NoRoleRow], FALSE, {}, 3,
                {"realm_create", "update_roles", "get_role_certificates"})
Writing == Tables(BothOwn, TRUE, {<<1, v1, 1>>}, 3,
                  {"vlob_create", "vlob_update", "list_versions", "poll"})
Maintaining == Tables(BothOwn, TRUE, {<<1, v1, 1>>}, 4,
                      {"start", "save", "finish", "vlob_update", "vlob_read"})

MCPgSetups == {Fresh, Writing, Maintaining}

\* The transactions are interchangeable: they begin in this order.
InTurn == <<t1, t2, t3, t4>>
BeginInTurn ==
  \A i \in 1..3 : {InTurn[i], InTurn[i + 1]} \subseteq Txns /\ txns[InTurn[i]] = IdleTxn =>
    txns'[InTurn[i + 1]] = IdleTxn

-----------------------------------------------------------------------------
(* Block stores *)

\* RAID 0 over stores that refuse a block they have, and mixtures of the rest.
MCConfigurations ==
  {<<"RAID0", "POSTGRESQL">>, <<"RAID1", "POSTGRESQL">>, <<"RAID1", "S3">>,
   <<"RAID1", "MOCKED">>, <<"RAID5", "POSTGRESQL">>, <<"RAID5", "SWIFT">>}

-----------------------------------------------------------------------------

\* A component that does not run starts in one of its initial states.
PartsInit ==
  /\ part \in {"trust", "tables", "blocks", "certificates"}
  /\ TrustInit /\ (part # "trust" => setup = Deployed("POSTGRESQL", 0, 1, 2, 1))
  /\ PgInit /\ (part # "tables" => "poll" \in pgSetup.ops)
  /\ RaidInit /\ (part # "blocks" => layout = "RAID0" /\ payload = <<1>>)
  /\ Init

PartsNext ==
  /\ UNCHANGED part
  /\ \/ part = "trust" /\ TrustNext /\ TimeForTheClient /\ UNCHANGED <<pgVars, raidVars, vars>>
     \/ part = "tables" /\ PgNext /\ BeginInTurn /\ UNCHANGED <<trustVars, raidVars, vars>>
     \/ part = "blocks" /\ RaidNext /\ UNCHANGED <<trustVars, pgVars, vars>>
     \/ part = "certificates" /\ Next /\ UNCHANGED <<trustVars, pgVars, raidVars>>

PartsSpec == PartsInit /\ [][PartsNext]_<<trustVars, pgVars, raidVars, vars, part>>
=============================================================================
