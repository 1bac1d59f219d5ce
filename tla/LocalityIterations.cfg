SPECIFICATION Spec
CONSTANTS
  NThreads = 3
  NSpots = 2
  Procs = {1}
  StopCount = 1
  Programs = {"cpp"}
  ClockModes = {FALSE}
  Null = Null
  One = One
PROPERTY IterationRunEnds
\* Main waits for ever in the behaviour this run looks for.
CHECK_DEADLOCK FALSE
