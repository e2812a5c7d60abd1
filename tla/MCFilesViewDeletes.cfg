SPECIFICATION FilesSpec
CONSTANTS
  s1 = s1
  s2 = s2
  Spaces = {s1, s2}
  Folders = {"/", "/d"}
  FileNames = {"x"}
  MaxLoads = 3
  MaxChanges = 2
  MaxOrders = 1
SYMMETRY SpaceSymmetry
INVARIANTS
  DeletesAsShown
CHECK_DEADLOCK FALSE
