SPECIFICATION Spec
CONSTANTS
  NThreads = 3
  NSpots = 2
  StopCount = 2
  ShutPosts = 2
  Programs = {"cpp"}
PROPERTY IterationRunEnds
\* The violation looked for is a run that stands still.
CHECK_DEADLOCK FALSE
