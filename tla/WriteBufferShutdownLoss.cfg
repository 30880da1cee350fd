\* No fault at all: an orderly SIGTERM of a NativeServer.
SPECIFICATION Spec
CONSTANTS
  Handlers = {h1}
  Ticker = ticker
  Closer = closer
  NoActor = nobody
  MaxSize = 3
  MaxStmts = 2
  ClosesConns = FALSE
  Faults = {}
INVARIANTS
  AckedIsApplied
CHECK_DEADLOCK FALSE
