SPECIFICATION PgSpec
CONSTANTS
  alice = alice
  bob = bob
  v1 = v1
  t1 = t1
  t2 = t2
  PgUsers = {alice, bob}
  PgVlobs = {v1}
  Txns = {t1, t2}
  PgSetups <- MCDemotions
INVARIANTS
  RealmKeepsOwner
CHECK_DEADLOCK FALSE
