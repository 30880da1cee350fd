\* Two messages of every kind behind every start, cut off at every byte.
SPECIFICATION FairSpec
CONSTANTS
  Null = Null
  Starts <- MCStarts
  Requests <- MCRequests
  StatusParams <- MCStatusParams
  ErrorFields <- MCErrorFields
  Statuses = {73}
  Pid = 7
  Secret = 9
  MaxRequests = 2
  Breaks = TRUE
INVARIANTS
  TypeOK
  ReadsWhatWasSent
  StartsAsAsked
  AnswersInFrames
  ReadyForEach
PROPERTIES
  EventuallyHandled
CHECK_DEADLOCK FALSE
