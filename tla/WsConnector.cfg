\* Three calls, one frame of room in the queue and one in the socket, a maker that
\* may stop reading.
CONSTANTS
  MaxCalls = 3
  QueueCapacity = 1
  WireCapacity = 1
SPECIFICATION FairSpec
INVARIANTS
  AnswerIsOwn
  ClosedNeverExecuted
  WaiterIsServed
  OrphansAreAccounted
PROPERTIES
  SentCallReturns
CHECK_DEADLOCK FALSE
