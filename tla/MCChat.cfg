\* Three requests of any kind, two new messages, one failure.
CONSTANTS
  a = a
  b = b
  c = c
  outsider = outsider
  none = none
  r1 = r1
  r2 = r2
  r3 = r3
  Users <- MCUsers
  NoUser = none
  Members <- MCMembers
  History <- MCHistory
  Requests <- MCThreeRequests
  Calls <- MCCalls
  NoCall = NoCall
  Absent = Absent
  MaxMessages = 3
  MaxFaults = 1
SYMMETRY RequestSymmetry
SPECIFICATION Spec
INVARIANTS
  TypeOK
  CountExactWhenAlone
  PrivateConversationUnique
PROPERTY
  ReadStaysRead
CHECK_DEADLOCK FALSE
