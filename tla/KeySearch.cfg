SPECIFICATION FairSpec
CONSTANTS
  Table <- Name
  TableId = {1, 2, 3}
  CacheSize = 2
  MaxTxnTables = 1
  Key <- MCKey
  Contents <- Rows
  Nil = Nil
  Home <- MCHome
  FirstCapacity = 4
  HalfRange = 4
  SignBit = 8
  Databases <- MCDatabases
  Programs <- KeySearchPrograms
  MaxCost = 1
  MaxFaults = 0
  PageRoom = 5
  TextAddress = 0
  Stray = {}
  Queries <- ProgramQueries
  Parse <- QueryTree
  munchData <- munchStmt
PROPERTY ImplementsDatabase
CHECK_DEADLOCK FALSE
