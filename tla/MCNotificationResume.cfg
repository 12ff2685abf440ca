\* One lost connection and nothing else that fails: does the worker go on?
CONSTANTS
  Msgs <- MCMsgs
  Queues <- MCQueues
  QueueOf <- MCQueueOf
  Notices <- MCNotices
  Unstorable = {}
  NoUser = ""
  MaxConn = 2
  MaxDials = 1
  MaxLosses = 1
  MaxFaults = 0
SPECIFICATION FairSpec
PROPERTY
  ResumesAfterReconnect
CHECK_DEADLOCK FALSE
