SPECIFICATION Spec
CONSTANTS
  NThreads = 3
  NSpots = 2
  Procs = {1, 2}
  StopCount = 1
  Programs = {"cpp", "cc", "cfa", "go", "rs"}
  ClockModes = {TRUE, FALSE}
  Null = Null
  One = One
INVARIANTS
  TypeOK
  NoLostWakeup
  SleepersFitSpots
  SeatsExclusive
  ArraysExclusive
  LeftBoundedBySpots
PROPERTY ImplementsExchange RunEnds
\* Main may join a thread of the C programs that sleeps for ever, or wait for ever for a
\* counter that has passed zero, which the runs LocalityIterations and LocalityCounter are
\* about, or, with two processors, for one that does not come down to zero.
CHECK_DEADLOCK FALSE
