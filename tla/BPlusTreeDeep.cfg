SPECIFICATION Spec
VIEW View
CONSTANTS
  Key <- MCKey
  LastKey = 11
  Size = {1}
  Capacity = 1
  M = 4
  Outside = 99
INVARIANTS
  SearchFindsRows
  LeavesAreLinked
  ScanIsOrdered
  Occupancy
  ParentsAgree
  BoundsHold
  NothingIsLost
