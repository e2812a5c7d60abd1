SPECIFICATION PartsSpec
CONSTANTS
  alice = alice
  bob = bob
  w1 = w1
  d1 = d1
  d2 = d2
  Users = {alice, bob}
  Outsiders = {bob}
  Admins = {alice}
  Realms = {w1}
  MaxTime = 1
  MaxGrants = 2
  MaxRevision = 2
  Self = bob
  Devices = {d1, d2}
  MaxStamps = 2
  MaxUserVersion = 2
  MaxRenames = 1
  MaxGiveUps = 1
SYMMETRY DeviceSymmetry
INVARIANTS
  NoKeyMissed
  MergeAssertionsHold
PROPERTIES
  KeysNeverGoBack
CHECK_DEADLOCK FALSE
