SPECIFICATION PartsSpec
CONSTANTS
  d1 = d1
  d2 = d2
  e1 = e1
  e2 = e2
  alice = alice
  bob = bob
  w1 = w1
  Devices = {d1, d2}
  Creator = d1
  Kind = "folder"
  Edits = {e1, e2}
  MaxVersion = 9
  MaxGiveUps = 1
  MaxCrashes = 1
INVARIANTS
  NothingReverted
  NoEditLost
  CleanIsRemote
  OwnVersionsAreNext

  
CHECK_DEADLOCK FALSE
