SPECIFICATION PartsSpec
CONSTANTS
  app = app
  handler1 = handler1
  Kind = "USER"
  MaxAttempts = 5
  MaxDrops = 1
  Entries = {"e1", "e2"}
  QueueLimit = 1
  MaxUploads = 2
  MaxEdits = 1
  MaxDisturbances = 1
  MountApps = {app}
  MountEvents = {handler1}
  MountKeys = {0, 1}
  Drivers = {"fuse", "winfsp"}
  Positions <- MCPositions
  MaxRunners = 2
  MaxSharings = 2
INVARIANTS
  ExchangeIsSound
  
  MonitorIsSound
  DriversAreSound

  
CHECK_DEADLOCK FALSE
