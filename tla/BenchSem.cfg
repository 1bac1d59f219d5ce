SPECIFICATION Spec
CONSTANTS
  Fibres = {f1, f2, f3}
  Null = Null
  Ready = Ready
INVARIANTS
  TypeOK
  NoLostWakeup
  UnparkOnce
  WaitSeesNoFibre
PROPERTY ImplementsHandoff
\* Every fibre may be waiting with nobody left to post: what the benchmarks do about
\* that is theirs, not the semaphore's.
CHECK_DEADLOCK FALSE
