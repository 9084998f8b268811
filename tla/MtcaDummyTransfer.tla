------------------------ MODULE MtcaDummyTransfer ------------------------
(***************************************************************************)
(* The checks of a requested transfer, as functions of the request: the    *)
(* bar and offset checks of the struct interface and of the two DMA reads  *)
(* (mtcadummy_drv.c), and checkAndCalculateTransferInformation of the      *)
(* interface without a struct (mtcadummy_rw_no_struct.c).                  *)
(***************************************************************************)
EXTENDS MtcaDummyHeader

BarSize(bar) ==
  CASE bar = 0 -> 4 * MTCADUMMY_N_REGISTERS
    [] bar = 2 -> MTCADUMMY_DMA_SIZE
    [] OTHER   -> 0

(* Mutant: the offset may be the end of the bar. *)
RegisterAccessibleUpToEnd(bar, offset) ==
  bar \in {0, 2} /\ offset % 4 = 0 /\ offset <= BarSize(bar)

(* RW_D32: an existing bar, and an aligned offset that starts inside it. *)
RegisterAccessible(bar, offset) ==
  /\ bar \in {0, 2}
  /\ offset % 4 = 0
  /\ offset < BarSize(bar)

(* RW_DMA and the READ_DMA ioctls.  Offset and size are any numbers of 32  *)
(* bits, and their sum is computed in 32 bits.                             *)
DmaFits(offset, size) == (size + offset) % U32 <= MTCADUMMY_DMA_SIZE

(* Only the ioctls insist on an aligned offset; the struct read rounds it  *)
(* down with dma_offset / 4.                                               *)
DmaIoctlFits(offset, size) == DmaFits(offset, size) /\ offset % 4 = 0

(* The words a DMA read copies, from the one that holds the offset on; the *)
(* last one in part if size is no multiple of 4.                           *)
DmaFirst(offset) == offset \div 4
DmaLength(size) == (size + 3) \div 4

(* A file position holds the bar number above the offset. *)
BarOf(pos) == (pos \div BAR_STRIDE) % 8
OffsetOf(pos) == pos % BAR_STRIDE

(* checkAndCalculateTransferInformation: whether it accepts the request,   *)
(* and the number of bytes to transfer, clipped at the end of the bar.     *)
TransferAccepted(count, pos) ==
  /\ pos % 4 = 0
  /\ count % 4 = 0
  /\ BarOf(pos) \in {0, 2}
  /\ OffsetOf(pos) <= BarSize(BarOf(pos))

(* Mutant: the request is not clipped. *)
nBytesRequested(count, pos) == count

nBytesToTransfer(count, pos) ==
  IF BarSize(BarOf(pos)) < OffsetOf(pos) + count
    THEN BarSize(BarOf(pos)) - OffsetOf(pos)
    ELSE count
-----------------------------------------------------------------------------
(* What the checks promise, in terms of the bytes of a bar. *)
BarBytes(bar) == 0 .. BarSize(bar) - 1

(* An accepted request moves exactly those of the requested bytes that the *)
(* bar has, in whole words; an aligned request is turned down only if the  *)
(* bar has none of them.                                                   *)
ClippedToBar(count, pos) ==
  LET bar == BarOf(pos)
      offset == OffsetOf(pos)
      n == nBytesToTransfer(count, pos)
      wanted == (offset .. offset + count - 1) \cap BarBytes(bar)
  IN  IF TransferAccepted(count, pos)
        THEN n \in Nat /\ n % 4 = 0 /\ wanted = offset .. offset + n - 1
        ELSE pos % 4 = 0 /\ count % 4 = 0 => wanted = {}

(* RW_D32 accepts an offset if and only if it is that of a whole register  *)
(* of an existing bar.                                                     *)
WholeRegister(bar, offset) ==
  RegisterAccessible(bar, offset) <=>
    \E w \in 0 .. offset : offset = 4 * w /\ offset .. offset + 3 \subseteq BarBytes(bar)
=============================================================================
