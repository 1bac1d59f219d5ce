SPECIFICATION Spec
CONSTANTS
  NThreads = 3
  StopCount = 2
  Programs = {"cpp"}
  Starvation = {TRUE}
  NoLeader = NoLeader
INVARIANT AssertionHolds
\* When a leader gives up, a thread that had not started may sleep for ever.
CHECK_DEADLOCK FALSE
