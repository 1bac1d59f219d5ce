SPECIFICATION Spec
CONSTANTS
  NRings = 2
  RingSize = 2
  StopCount = 2
  Programs = {"cpp", "cc", "cfa", "go", "rs"}
  ClockModes = {TRUE, FALSE}
INVARIANTS
  TypeOK
  OneTokenPerRing
  RoundsInStep
  IterationsExact
  AbortOnlyAtShutdown
PROPERTY RunEnds
