CONSTANTS
  s1 = s1
  Stmts <- OneStmt
  Admin = Admin
  Prefetch = 2
  SizeModulus = 8
  MaxExec = 2
  MaxSets = 2
  MaxRows = 3
  MaxBatch = 3
  LineCap = 3
  Flags = {{}, {"ASYNC", "BUFFERED"}}
  FwdSets = 2
  FwdCalls = {"fetchAll", "nextResult"}
  Patient = TRUE
SPECIFICATION FairSpec
INVARIANTS TypeOK FlagTellsTheLine BufferedIsOneSet NothingLostAtEof
PROPERTIES UndefinedOnlyReadingPast CallReturns RowsInOrder
CHECK_DEADLOCK FALSE
