\* Events that become a notification, need none, or can never become one.
CONSTANTS
  Msgs <- MCMsgs
  Queues <- MCQueues
  QueueOf <- MCQueueOf
  Notices <- LiveNotices
  Unstorable <- Ghosts
  NoUser = ""
  MaxConn = 1
  MaxDials = 2
  MaxLosses = 0
  MaxFaults = 2
SPECIFICATION FairSpec
PROPERTY
  EventuallyNotified
CHECK_DEADLOCK FALSE
