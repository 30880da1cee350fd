\* Two packets of every kind, cut off at every byte.
SPECIFICATION FairSpec
CONSTANTS
  MaxVarInt = 3
  TopGroup = 4
  Kind <- MCKind
  Requests <- MCRequests
  Tables <- MCTables
  MaxRequests = 2
  Breaks = TRUE
INVARIANTS
  TypeOK
  InStep
  OnlyWhatWasSent
  OneAnswerEach
PROPERTIES
  EventuallyHandled
CHECK_DEADLOCK FALSE
