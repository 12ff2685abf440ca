\* Three requests of any kind, one failure, one retry.
CONSTANTS
  a = a
  b = b
  none = none
  r1 = r1
  r2 = r2
  r3 = r3
  Users <- MCUsers
  Contents <- MCContents
  Comments <- MCComments
  NoComment = none
  Old <- MCOld
  Requests <- MCThreeRequests
  Calls <- MCCalls
  MaxRetries = 1
  MaxFaults = 1
SYMMETRY RequestSymmetry
SPECIFICATION Spec
INVARIANTS
  TypeOK
  ReplyCountExact
  CommentCountNotTooLow
  EventsOnlyForCommitted
PROPERTY
  LikesAreAtomic
CHECK_DEADLOCK FALSE
