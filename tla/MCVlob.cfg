SPECIFICATION Spec
CONSTANTS
  alice = alice
  bob = bob
  r1 = r1
  v1 = v1
  v2 = v2
  Users = {alice, bob}
  Outsiders = {}
  Admins = {}
  Realms = {r1}
  MaxTime = 1
  MaxStamp = 2
  MaxGrants = 2
  MaxRevision = 2
  VlobIds = {v1, v2}
  Pollers = {bob}
  MaxVersion = 2
SYMMETRY VlobSymmetry
INVARIANTS
  OneKeyReadsAll
  ReencryptionCoversRealm
  HistoryIsOrdered
  PollMissesNothing
PROPERTIES
  HistoryKept
CHECK_DEADLOCK FALSE
