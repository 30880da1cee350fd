\* As many sessions that nest as connections.
SPECIFICATION Spec
CONSTANTS
  Nesting = {n1, n2}
  Plain = {}
  MaxOpenConns = 2
  Tables = {1}
  InitTables = {1}
  MaxDdl = 0
  Failing = FALSE
INVARIANTS
  NotAllWaiting
CHECK_DEADLOCK FALSE
