SPECIFICATION FairSpec
CONSTANTS
  Requests <- MCRequests
  Garbage <- MCGarbage
  Party = 3
  MaxUsers = 3
  Again = TRUE
CHECK_DEADLOCK FALSE
INVARIANTS
  NoOperationLost
  SemaphoreOutlivesThreads
  RequestsExecuted
PROPERTIES
  PartyIsServed
  CtrlCEndsServer
