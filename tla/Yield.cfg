SPECIFICATION Spec
CONSTANTS
  NThreads = 2
  StopCount = 2
  Durations = {1, 2, 3}
  Modulus = 100
  MaxTime = 5
  MaxSkew = 2
  MaxSets = 2
  Programs = {"cpp", "cfa", "go", "rs"}
INVARIANTS
  TypeOK
  OpsExact
PROPERTIES
  LastsAsAsked
  RunEnds
