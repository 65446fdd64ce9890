SPECIFICATION FairSpec
CONSTANTS
  Table <- Name
  TableId = {1, 2, 3}
  CacheSize = 2
  MaxTxnTables = 1
  Key <- MCKey
  Contents <- Rows
  Nil = Nil
  Home <- MCHome
  FirstCapacity = 4
  HalfRange = 4
  SignBit = 8
  Databases <- MCDatabases
  Programs <- MCPrograms
  MaxCost = 4
  MaxFaults = 1
  PageRoom = 5
  TextAddress = 0
  Stray = {}
  Queries <- ProgramQueries
  Parse <- QueryTree
  munchData <- munchStmt
INVARIANTS
  TypeOK
  OpenTablesAreOwned
  IdleTablesMatchFiles
  SchemaMatchesFiles
  CachedSchemaIsTrue
  StackIsBalanced
PROPERTIES
  ImplementsDatabase
  ImplementsSession
  EveryStatementEnds
CHECK_DEADLOCK FALSE
