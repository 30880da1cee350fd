\* One connection more than sessions that nest; one DDL statement.
SPECIFICATION FairSpec
CONSTANTS
  Nesting = {n1, n2}
  Plain = {p1}
  MaxOpenConns = 3
  Tables = {1, 2}
  InitTables = {1, 2}
  MaxDdl = 1
  Failing = TRUE
INVARIANTS
  TypeOK
  NotAllWaiting
  AttributesOfThatTable
PROPERTIES
  EventuallyAnswered
