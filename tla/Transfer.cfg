SPECIFICATION Spec
CONSTANTS
  NThreads = 3
  StopCount = 2
  Programs = {"cpp", "cfa", "go", "rs"}
  Starvation = {TRUE, FALSE}
  NoLeader = NoLeader
INVARIANTS
  TypeOK
  OneLeader
  EpochsInStep
  NoLostWakeup
  WakesTheLiving
  TransfersExact
PROPERTY RunEnds
\* When a leader gives up, libfibre and Go may hang; Tokio spins for ever without a leader.
CHECK_DEADLOCK FALSE
