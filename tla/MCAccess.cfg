\* Three requests of any kind, two signing keys, one failure.
CONSTANTS
  r1 = r1
  r2 = r2
  r3 = r3
  Requests <- MCThreeRequests
  Calls <- MCCalls
  NoCall = NoCall
  OldBan = OldBan
  MaxAttempts = 2
  MaxKeys = 2
  MaxFaults = 1
CONSTRAINT KeysMoveForTheirUsers
SYMMETRY RequestSymmetry
SPECIFICATION Spec
INVARIANTS
  TypeOK
  BansTakeHold
  FailuresFade
  CurrentTokenAccepted
PROPERTY
  BansStand
CHECK_DEADLOCK FALSE
