SPECIFICATION ScanSpec
VIEW ScanView
CONSTANTS
  Key <- MCKey
  LastKey = 5
  Size = {1, 3, 4}
  Capacity = 3
  M = 5
  Outside = 99
INVARIANTS
  TypeOK
  PagesFit
  CallsAnswerTruly
  ScannerHoldsItsRow
PROPERTIES
  ImplementsScan
