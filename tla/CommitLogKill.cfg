SPECIFICATION MCSpec
CONSTANTS
  tbl = tbl
  schema = schema
  hdr = hdr
  page = page
  v1 = v1
  v2 = v2
  Blank = Blank
  Absent = Absent
  Header = hdr
  File <- MCFile
  Addr <- MCAddr
  Value <- MCValue
  Transactions <- MCTransactions
  Faults = {"kill", "io", "dirSync", "markerSync", "read"}
  MaxTxns = 2
  MaxFaults = 3
INVARIANTS
  AllOrNothing
CHECK_DEADLOCK FALSE
