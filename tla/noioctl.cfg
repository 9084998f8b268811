SPECIFICATION ScenarioSpec
CONSTANTS
  U32 = 65536
  BAR_STRIDE = 1024
  MTCADUMMY_DMA_SIZE = 16
  nSamples = 3
  MTCADUMMY_DRV_VERSION_MAJ = 1
  MTCADUMMY_DRV_VERSION_MIN = 10
  MTCADUMMY_DMMY_AS_ASCII = 17485
  Threads = {t1, t2}
  Nobody = Nobody
  Devices = {3, 4, 5}
  Calls <- HandlerCalls
  Scenarios <- HandlerScenarios
  Beyond = {5}
  Signals = TRUE
  Faults = {FALSE}
SYMMETRY ThreadSymmetry
INVARIANT InUseCountsEveryDevice
