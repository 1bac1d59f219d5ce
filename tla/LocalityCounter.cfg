SPECIFICATION Spec
CONSTANTS
  NThreads = 3
  NSpots = 2
  Procs = {1}
  StopCount = 1
  Programs = {"go"}
  ClockModes = {FALSE}
  Null = Null
  One = One
INVARIANT LeftCountsActive
CHECK_DEADLOCK FALSE
