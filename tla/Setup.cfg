SPECIFICATION Spec
CONSTANTS
  UMax = 3
  LMax = 7
  MaxArgs = 3
  Cpus = {0, 1, 2}
  HelpLen = 2
  Columns = {NoSize, 0, 21, 22}
  NoSize = NoSize
INVARIANTS
  TypeOK
  ValuesAsWritten
  ModeDecided
  SizesFit
PROPERTY SetupEnds
