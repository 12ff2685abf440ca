\* Two users, two requests of any kind, one failure, two connections.
CONSTANTS
  a = a
  b = b
  r1 = r1
  r2 = r2
  Users <- MCUsers
  Requests <- MCTwoRequests
  Calls <- MCCalls
  PoolSize = 2
  MaxFaults = 1
SYMMETRY MCSymmetry
SPECIFICATION Spec
INVARIANTS
  TypeOK
  CountersExactWhenSerial
  BlockedDoNotFollow
  EventsOnlyForNewFollows
  NothingElseDelays
  StuckOnlyOnPool
PROPERTY
  UnblockNeverHidesMore
CHECK_DEADLOCK FALSE
