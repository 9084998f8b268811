SPECIFICATION Spec
CONSTANTS
  U32 = 65536
  BAR_STRIDE = 160
  MTCADUMMY_DMA_SIZE = 16
  nSamples = 3
  MTCADUMMY_DRV_VERSION_MAJ = 1
  MTCADUMMY_DRV_VERSION_MIN = 10
  MTCADUMMY_DMMY_AS_ASCII = 17485
  MaxPos = 1279
  MaxCount = 24
  Keys = {"open", "spi", "other"}
  Values <- TokenValues
  Padding = {0, 239, 248}
  MaxTokens = 3
INVARIANTS RequestClippedToBar RegisterCheckExact LastOptionWins
