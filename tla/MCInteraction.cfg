\* Three overlapping requests by two users, up to two failures, one retry.
CONSTANTS
  author = author
  fan = fan
  r1 = r1
  r2 = r2
  r3 = r3
  Users <- MCUsers
  Contents <- MCContents
  Author <- MCAuthor
  Kinds = {"like", "repost"}
  Requests <- MCThreeRequests
  MaxRetries = 1
  MaxFaults = 2
SYMMETRY RequestSymmetry
SPECIFICATION Spec
INVARIANTS
  TypeOK
  UndercountBoundedByFaults
  DriftBoundedWhenSerial
  EventsOnlyForNewInteractions
PROPERTY
  DeletedContentFrozen
CHECK_DEADLOCK FALSE
