\* Three requests by the owner, an admin or a subscriber, with two failures.
CONSTANTS
  boss = boss
  ann = ann
  ben = ben
  r1 = r1
  r2 = r2
  r3 = r3
  Users <- MCUsers
  Owner = boss
  OldAuthor = ann
  OldPost = OldPost
  OldAdmins = {ben}
  OldSubscribers = {ann}
  Requests <- MCThreeRequests
  Calls <- MCCalls
  NoCall = NoCall
  MaxFaults = 2
SYMMETRY RequestSymmetry
SPECIFICATION Spec
INVARIANTS
  TypeOK
  CountsAccountedFor
PROPERTIES
  OnlyAdminsAct
  DeletedTakesNothing
CHECK_DEADLOCK FALSE
