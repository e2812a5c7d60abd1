SPECIFICATION PartsSpec
CONSTANTS
  alice = alice
  bob = bob
  zoe = zoe
  h1 = h1
  h2 = h2
  c1 = c1
  c2 = c2
  v1 = v1
  v2 = v2
  t1 = t1
  t2 = t2
  t3 = t3
  t4 = t4
  UserIds = {alice, bob}
  Humans = {h1, h2}
  Conns = {c1, c2}
  Setups <- MCSetups
  Spontaneous = TRUE
  ClockSkew = 0
  CacheValidity = 1
  PgUsers = {alice, bob}
  PgVlobs = {v1, v2}
  Txns = {t1, t2, t3, t4}
  PgSetups <- MCPgSetups
  N = 3
  Configurations <- MCConfigurations
  MaxBlockLen = 2
  Users = {alice, bob, zoe}
  Outsiders = {zoe}
  Skew = 0
  MaxTime = 2
  MaxGrants = 4
SYMMETRY PartsSymmetry
INVARIANTS
  TrustIsSound
  TablesAreSound
  
  ClientsAcceptChain
PROPERTIES
  CommittedVersionsStay
  ImplementsRealm
CHECK_DEADLOCK FALSE
