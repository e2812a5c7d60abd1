SPECIFICATION PartsSpec
CONSTANTS
  owner1 = owner1
  owner2 = owner2
  member = member
  i1 = i1
  i2 = i2
  d1 = d1
  d2 = d2
  none = none
  JobOwners = {owner1, owner2}
  JobMembers = {member}
  JobItems = {i1, i2}
  BatchSize = 1
  MaxJobRevision = 3
  MaxJobStamps = 4
  GuiDevices = {d1, d2}
  MaxInstances = 4
  MaxTabs = 2
  NoDevice = none
  MaxCrashes = 1
INVARIANTS
  JobIsSound
  SessionsAreSound

  
CHECK_DEADLOCK FALSE
