SPECIFICATION FairSpec
CONSTANTS
  Threads = {t1, t2}
  MTCADUMMY_NR_DEVS = 3
  EmptyTables = {1}
INVARIANTS TypeOK RegisteredMeansReady NothingLeaked ReleasedOnce OpenFileKeepsDevice DumpFindsDevices InUseSinceRegistered
PROPERTY LoaderReturns
CHECK_DEADLOCK FALSE
