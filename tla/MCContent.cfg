\* Four requests of any kind and one failure.
CONSTANTS
  r1 = r1
  r2 = r2
  r3 = r3
  r4 = r4
  Users <- MCUsers
  Author = "author"
  Titles = {"t"}
  Texts = {"x", "y"}
  Empty = ""
  Requests <- MCFourRequests
  Calls <- MCCalls
  NoCall = NoCall
  OldRows <- MCOldRows
  Nothing = Nothing
  MaxFaults = 1
SYMMETRY RequestSymmetry
SPECIFICATION Spec
INVARIANTS
  TypeOK
  PublishedComplete
  IndexExactWhenAlone
PROPERTY
  DeletedIsFinal
  LifeInOrder
CHECK_DEADLOCK FALSE
