SPECIFICATION MCFairSpec
CONSTANTS
  tbl = tbl
  schema = schema
  hdr = hdr
  page = page
  v1 = v1
  v2 = v2
  Blank = Blank
  Absent = Absent
  Header = hdr
  File <- MCFile
  Addr <- MCAddr
  Value <- MCValue
  Transactions <- MCTransactions
  Faults = {"power", "io", "read"}
  MaxTxns = 2
  MaxFaults = 3
INVARIANTS
  TypeOK
  AllOrNothing
  ReplyIsTrue
  CommittedLogIsReadable
  LogEmptyWhenIdle
  OneTransactionPerLog
PROPERTIES
  WriteAhead
  ResetOnlyWhenDurable
  ImplementsStore
  EventuallyIdle
CHECK_DEADLOCK FALSE
