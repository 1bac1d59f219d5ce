SPECIFICATION Spec
CONSTANTS
  NThreads = 3
  NSpots = 2
  StopCount = 2
  ShutPosts = 2
  Programs = {"cpp", "go"}
INVARIANTS
  TypeOK
  PostsBalance
  SomeoneRuns
  SpotsAreMutexes
PROPERTY RunEnds
\* With --iterations, threads of libfibre, Cforall and Tokio sleep for ever.
CHECK_DEADLOCK FALSE
