SPECIFICATION Spec
CONSTANTS
  d1 = d1
  d2 = d2
  e1 = e1
  e2 = e2
  e3 = e3
  Devices = {d1, d2}
  Creator = d1
  Kind = "file"
  Edits = {e1, e2}
  MaxVersion = 5
  MaxGiveUps = 1
  MaxCrashes = 1
SYMMETRY EditSymmetry
INVARIANTS
  NothingReverted
CHECK_DEADLOCK FALSE
