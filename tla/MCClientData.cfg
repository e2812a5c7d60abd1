SPECIFICATION PartsSpec
CONSTANTS
  worker1 = worker1
  worker2 = worker2
  c1 = c1
  c2 = c2
  manager = manager
  Histories <- MCHistories
  ListWorkers = {worker1, worker2}
  QueryLimits = {0, 4}
  MaxLists = 4
  FsTasks = {"t1", "t2"}
  BannedNames = {"x"}
  TreeSetups <- MCTreeSetups
  Commands = {c1, c2}
  Manager = manager
  MaxPool = 2
  MaxTransports = 3
  MaxFaults = 1
INVARIANTS
  ListIsTrue
  

  
  
CHECK_DEADLOCK FALSE
