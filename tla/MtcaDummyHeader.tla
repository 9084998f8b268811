------------------------- MODULE MtcaDummyHeader -------------------------
(***************************************************************************)
(* The constants of mtcadummy.h, mtcadummy_firmware.h, pciedev_io.h and    *)
(* the two *_io_compat.h files.  Registers are named by their byte offset  *)
(* in bar 0, as in the C code.  What the code writes as a literal but the  *)
(* model needs smaller or abstract is a CONSTANT here.                     *)
(***************************************************************************)
EXTENDS Integers

CONSTANTS
  U32,                       \* 2^32: the modulus of u32 and u_int
  BAR_STRIDE,                \* 2^60: distance of two bars in a file position
  MTCADUMMY_DMA_SIZE,        \* 4096: bytes in bar 2
  nSamples,                  \* 25: words one dummy sampling writes
  MTCADUMMY_DRV_VERSION_MAJ, \* version.h
  MTCADUMMY_DRV_VERSION_MIN, \* version.h
  MTCADUMMY_DMMY_AS_ASCII    \* 0x444D4D59

MTCADUMMY_NR_DEVS == 7
MTCADUMMY_N_REGISTERS == 32

Word == 0 .. U32 - 1
SystemBar == [0 .. MTCADUMMY_N_REGISTERS - 1 -> Word]
DmaBar == [0 .. (MTCADUMMY_DMA_SIZE \div 4) - 1 -> Word]

ASSUME HeaderAssumption ==
  /\ U32 \in Nat /\ U32 > 2 * MTCADUMMY_DMA_SIZE /\ U32 > 256
  /\ MTCADUMMY_DMA_SIZE \in Nat /\ MTCADUMMY_DMA_SIZE % 4 = 0
  /\ BAR_STRIDE \in Nat /\ BAR_STRIDE % 4 = 0
  /\ BAR_STRIDE > MTCADUMMY_DMA_SIZE /\ BAR_STRIDE > 4 * MTCADUMMY_N_REGISTERS
  /\ nSamples \in Nat /\ 4 * nSamples <= MTCADUMMY_DMA_SIZE
  /\ MTCADUMMY_DRV_VERSION_MAJ \in Word
  /\ MTCADUMMY_DRV_VERSION_MIN \in Word
  /\ MTCADUMMY_DMMY_AS_ASCII \in Word
-----------------------------------------------------------------------------
(* Registers of bar 0 (mtcadummy_firmware.h). *)
MTCADUMMY_WORD_FIRMWARE    == 0
MTCADUMMY_WORD_COMPILATION == 4
MTCADUMMY_WORD_STATUS      == 8
MTCADUMMY_WORD_USER        == 12
MTCADUMMY_WORD_CLK_CNT_0   == 16
MTCADUMMY_WORD_CLK_CNT_1   == 20
MTCADUMMY_WORD_CLK_MUX_0   == 32
MTCADUMMY_WORD_CLK_MUX_1   == 36
MTCADUMMY_WORD_CLK_MUX_2   == 40
MTCADUMMY_WORD_CLK_MUX_3   == 44
MTCADUMMY_WORD_DUMMY       == 60
MTCADUMMY_WORD_CLK_RST     == 64
MTCADUMMY_WORD_ADC_ENA     == 68
MTCADUMMY_BROKEN_REGISTER  == 72
MTCADUMMY_BROKEN_WRITE     == 76
MTCADUMMY_WORD_SPI_WRITE   == 80
MTCADUMMY_WORD_SPI_READ    == 84
MTCADUMMY_WORD_SPI_SYNC    == 88

MTCADUMMY_SPI_SYNC_OK        == 0
MTCADUMMY_SPI_SYNC_REQUESTED == 255
MTCADUMMY_SPI_SYNC_ERROR     == 170

(* Access modes of device_rw and sizeof(device_rw) (pciedev_io.h). *)
RW_D8 == 0
RW_D16 == 1
RW_D32 == 2
RW_DMA == 3
RW_INFO == 4
sizeof_device_rw == 24

(* Error returns, as the negative numbers the handlers return. *)
EIO == -5
EWOULDBLOCK == -11
EFAULT == -14
EINVAL == -22
ENOTTY == -25
ERESTARTSYS == -512
=============================================================================
