\* Three events in two queues, a lost connection, reconnected up to twice, and
\* a failure or a restart.
CONSTANTS
  Msgs <- MCMsgs
  Queues <- MCQueues
  QueueOf <- MCQueueOf
  Notices <- MCNotices
  Unstorable = {}
  NoUser = ""
  MaxConn = 2
  MaxDials = 1
  MaxLosses = 1
  MaxFaults = 1
SPECIFICATION Spec
INVARIANTS
  TypeOK
  ExactlyOnePlace
  OnceUnlessOrphaned
PROPERTY
  AtLeastOnce
CHECK_DEADLOCK FALSE
