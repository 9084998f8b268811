SPECIFICATION Spec
CONSTANTS
  Threads = {t1}
  MTCADUMMY_NR_DEVS = 2
  EmptyTables = {1}
INVARIANT LoadedMeansAllNodes
CHECK_DEADLOCK FALSE
