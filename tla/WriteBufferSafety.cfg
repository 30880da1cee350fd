SPECIFICATION FairSpec
CONSTANTS
  Handlers = {h1, h2}
  Ticker = ticker
  Closer = closer
  NoActor = nobody
  MaxSize = 2
  MaxStmts = 3
  ClosesConns = TRUE
  Faults = {"begin", "exec", "commit", "timeout", "crash"}
INVARIANTS
  TypeOK
  AppliedInOrder
  BufferBounded
  NothingForgotten
  CloseDrains
CHECK_DEADLOCK FALSE
PROPERTIES
  ImplementsDelivery
  EventuallySettled
  EventuallyAnswered
