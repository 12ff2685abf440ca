\* Two requests to follow at once, nothing that fails.
CONSTANTS
  a = a
  b = b
  r1 = r1
  r2 = r2
  Users <- MCUsers
  Requests <- MCTwoRequests
  Calls <- MCFollow
  PoolSize = 2
  MaxFaults = 0
SPECIFICATION Spec
INVARIANT FollowIsIdempotent
CHECK_DEADLOCK FALSE
