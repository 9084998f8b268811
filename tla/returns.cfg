SPECIFICATION FairClientsSpec
CONSTANTS
  U32 = 65536
  BAR_STRIDE = 1024
  MTCADUMMY_DMA_SIZE = 32
  nSamples = 5
  MTCADUMMY_DRV_VERSION_MAJ = 1
  MTCADUMMY_DRV_VERSION_MIN = 10
  MTCADUMMY_DMMY_AS_ASCII = 17485
  Nobody = "nobody"
  Devices = {0, 6}
  Clients = {"client"}
  Threads = {"client", "other"}
  Calls <- AllMixedCalls
  OtherCalls <- MixedCalls
  Jobs <- MixedJobs
  Beyond = {5}
  Signals = TRUE
  Faults = {FALSE}
  ProbeIndex = 2
  ReadStartIndex = 3
  nWordsToRead = 2
  WriteStartIndex = 6
  nWordsToWrite = 2
PROPERTIES CallsReturn ClientsEnd AccessesAreSerial
INVARIANTS PausesAsDocumented
