SPECIFICATION PartsSpec
CONSTANTS
  alice = alice
  bob = bob
  zoe = zoe
  r1 = r1
  b1 = b1
  b2 = b2
  s1 = s1
  s2 = s2
  c1 = c1
  c2 = c2
  p1 = p1
  p2 = p2
  w1 = w1
  w2 = w2
  Users = {alice, bob, zoe}
  Outsiders = {zoe}
  Admins = {bob}
  Realms = {r1}
  MaxTime = 2
  MaxGrants = 3
  MaxRevision = 2
  MaxBacklog = 1
  Backends = {b1, b2}
  InviteSessions = {s1, s2}
  Claimers = {c1, c2}
  InviteSetups <- MCInviteSetups
  Payloads = {p1, p2}
  MaxCalls = 3
  Wizards = {"greet_user", "greet_device", "claim_user", "claim_device"}
  MaxAttempts = 3
  Spaces = {w1, w2}
  Folders = {"/", "/d"}
  FileNames = {"x", "y"}
  MaxLoads = 3
  MaxChanges = 1
  MaxOrders = 1
  BaseNames = {"a", "b", "t"}
  Filters <- MCFilters
  Crossing = FALSE
  MaxEdits = 3
  MaxFilters = 1
  BlockSize = 2
  MaxSize = 3
  MaxWrites = 2
  MaxUploads = 2
  MaxCrashes = 1
  CacheLimit = 1
INVARIANTS
  RealmTypeOK
  RealmHasOwner
  NewKeyReachesMembers
  NoOutsiderInCharge
  InvitationsAreSound
  
  FolderIsSound
  

  
CHECK_DEADLOCK FALSE
