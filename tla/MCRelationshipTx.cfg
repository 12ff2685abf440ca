\* The transaction of Block.
CONSTANTS
  a = a
  b = b
  r1 = r1
  r2 = r2
  Users <- MCUsers
  Requests <- MCTwoRequests
  Calls <- MCFollowOrBlock
  PoolSize = 2
  MaxFaults = 1
SPECIFICATION Spec
INVARIANT FailedBlockIsNotHalfDone
CHECK_DEADLOCK FALSE
