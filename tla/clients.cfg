SPECIFICATION UndisturbedSpec
CONSTANTS
  U32 = 1300
  BAR_STRIDE = 1024
  MTCADUMMY_DMA_SIZE = 160
  nSamples = 25
  MTCADUMMY_DRV_VERSION_MAJ = 1
  MTCADUMMY_DRV_VERSION_MIN = 10
  MTCADUMMY_DMMY_AS_ASCII = 1111
  Nobody = "nobody"
  Devices = {0, 6}
  Clients = {"first", "second"}
  Threads = {"first", "second", "other"}
  Calls <- AllCalls
  OtherCalls <- DumpCalls
  Jobs <- AllJobs
  Beyond = {5}
  Signals = FALSE
  Faults = {FALSE}
  ProbeIndex = 8
  ReadStartIndex = 13
  nWordsToRead = 5
  WriteStartIndex = 28
  nWordsToWrite = 8
INVARIANTS ClientsAgree TestsPass PausesAsDocumented
PROPERTIES AccessesAreSerial
CHECK_DEADLOCK FALSE
