--------------------- MODULE MtcaDummyTransferProofs ---------------------
(***************************************************************************)
(* Proofs about the checks of a requested transfer, for bars and words of  *)
(* any size that HeaderAssumption admits.                                  *)
(***************************************************************************)
EXTENDS MtcaDummyTransfer, TLAPS

(* Division with remainder by a positive number. *)
LEMMA DivMod ==
  ASSUME NEW x \in Nat, NEW m \in Nat, m > 0
  PROVE  /\ x % m \in Nat /\ x % m < m
         /\ x \div m \in Nat
         /\ x = m * (x \div m) + (x % m)
OBVIOUS

LEMMA BarSizeType ==
  ASSUME NEW bar
  PROVE  BarSize(bar) \in Nat /\ BarSize(bar) % 4 = 0
BY HeaderAssumption DEF BarSize, MTCADUMMY_N_REGISTERS

LEMMA OffsetType ==
  ASSUME NEW pos \in Nat
  PROVE  OffsetOf(pos) \in Nat /\ BarOf(pos) \in 0 .. 7
<1>1. BAR_STRIDE \in Nat /\ BAR_STRIDE > 0
  BY HeaderAssumption DEF MTCADUMMY_N_REGISTERS
<1>2. OffsetOf(pos) \in Nat /\ pos \div BAR_STRIDE \in Nat
  BY <1>1, DivMod DEF OffsetOf
<1> QED
  BY <1>2 DEF BarOf

(* The bar number sits above bits that are a multiple of a word. *)
LEMMA OffsetAligned ==
  ASSUME NEW pos \in Nat, pos % 4 = 0
  PROVE  OffsetOf(pos) % 4 = 0
<1>1. BAR_STRIDE \in Nat /\ BAR_STRIDE > 0 /\ BAR_STRIDE % 4 = 0
  BY HeaderAssumption DEF MTCADUMMY_N_REGISTERS
<1> DEFINE q == pos \div BAR_STRIDE
           k == BAR_STRIDE \div 4
           r == pos % BAR_STRIDE
<1>2. q \in Nat /\ r \in Nat /\ pos = BAR_STRIDE * q + r
  BY <1>1, DivMod
<1>3. k \in Nat /\ BAR_STRIDE = 4 * k
  BY <1>1
<1> HIDE DEF q, k, r
<1>4. k * q \in Nat /\ pos = 4 * (k * q) + r
  <2>1. BAR_STRIDE * q = 4 * (k * q)
    BY <1>2, <1>3
  <2>2. k * q \in Nat
    BY <1>2, <1>3
  <2> QED
    BY <2>1, <2>2, <1>2
<1>5. ASSUME NEW p \in Nat, pos = 4 * p + r
      PROVE  r % 4 = 0
  BY <1>2, <1>5
<1> QED
  BY <1>4, <1>5 DEF OffsetOf, r
-----------------------------------------------------------------------------
(* The number of bytes an accepted request moves: whole words, no more     *)
(* than were asked for, and never past the end of the bar.                 *)
LEMMA TransferBounds ==
  ASSUME NEW count \in Nat, NEW pos \in Nat, TransferAccepted(count, pos)
  PROVE  /\ nBytesToTransfer(count, pos) \in Nat
         /\ nBytesToTransfer(count, pos) % 4 = 0
         /\ nBytesToTransfer(count, pos) <= count
         /\ OffsetOf(pos) + nBytesToTransfer(count, pos) <= BarSize(BarOf(pos))
         /\ OffsetOf(pos) % 4 = 0
<1> DEFINE s == BarSize(BarOf(pos))
           f == OffsetOf(pos)
<1>1. s \in Nat /\ s % 4 = 0
  BY BarSizeType
<1>2. f \in Nat /\ f % 4 = 0
  BY OffsetType, OffsetAligned DEF TransferAccepted
<1>3. f <= s /\ count % 4 = 0
  BY DEF TransferAccepted
<1>4. nBytesToTransfer(count, pos) = IF s < f + count THEN s - f ELSE count
  BY DEF nBytesToTransfer
<1> HIDE DEF s, f
<1>5. (s - f) % 4 = 0
  BY <1>1, <1>2, <1>3
<1> QED
  BY <1>1, <1>2, <1>3, <1>4, <1>5 DEF s, f

(* checkAndCalculateTransferInformation clips every request exactly: what  *)
(* run transfer checks up to a bound holds for all counts and positions.   *)
THEOREM ClipIsExact ==
  \A count, pos \in Nat : ClippedToBar(count, pos)
<1> SUFFICES ASSUME NEW count \in Nat, NEW pos \in Nat
             PROVE  ClippedToBar(count, pos)
  OBVIOUS
<1> DEFINE s == BarSize(BarOf(pos))
           f == OffsetOf(pos)
           n == nBytesToTransfer(count, pos)
           wanted == (f .. f + count - 1) \cap (0 .. s - 1)
<1>1. s \in Nat /\ f \in Nat /\ BarOf(pos) \in 0 .. 7
  BY BarSizeType, OffsetType
<1>2. CASE TransferAccepted(count, pos)
  <2>1. n \in Nat /\ n % 4 = 0 /\ n <= count /\ f + n <= s
    BY <1>2, TransferBounds
  <2>2. n = IF s < f + count THEN s - f ELSE count
    BY DEF nBytesToTransfer
  <2>3. wanted = f .. f + n - 1
    <3> HIDE DEF s, f, n
    <3> QED
      BY <1>1, <2>1, <2>2
  <2> QED
    BY <1>2, <2>1, <2>3 DEF ClippedToBar, BarBytes
<1>3. CASE ~TransferAccepted(count, pos)
  <2>1. ASSUME pos % 4 = 0, count % 4 = 0
        PROVE  wanted = {}
    <3>1. s = 0 \/ f > s
      BY <1>1, <1>3, <2>1 DEF TransferAccepted, BarSize
    <3> HIDE DEF s, f
    <3> QED
      BY <1>1, <3>1
  <2> QED
    BY <1>3, <2>1 DEF ClippedToBar, BarBytes
<1> QED
  BY <1>2, <1>3

(* The offset checks of RW_D32 admit whole registers and nothing else.     *)
THEOREM RegisterCheckIsExact ==
  \A bar, offset \in Nat : WholeRegister(bar, offset)
<1> SUFFICES ASSUME NEW bar \in Nat, NEW offset \in Nat
             PROVE  WholeRegister(bar, offset)
  OBVIOUS
<1> DEFINE s == BarSize(bar)
<1>1. s \in Nat /\ s % 4 = 0
  BY BarSizeType
<1>2. s > 0 => bar \in {0, 2}
  BY DEF BarSize
<1>3. ASSUME RegisterAccessible(bar, offset)
      PROVE  \E w \in 0 .. offset : offset = 4 * w /\ offset .. offset + 3 \subseteq BarBytes(bar)
  <2>1. offset % 4 = 0 /\ offset < s
    BY <1>3 DEF RegisterAccessible
  <2>2. offset + 3 < s
    <3> HIDE DEF s
    <3> QED BY <1>1, <2>1
  <2>3. offset .. offset + 3 \subseteq BarBytes(bar)
    BY <1>1, <2>2 DEF BarBytes
  <2>4. offset \div 4 \in 0 .. offset /\ offset = 4 * (offset \div 4)
    BY <2>1
  <2> QED
    BY <2>3, <2>4
<1>4. ASSUME NEW w \in 0 .. offset, offset = 4 * w, offset .. offset + 3 \subseteq BarBytes(bar)
      PROVE  RegisterAccessible(bar, offset)
  <2>1. offset \in BarBytes(bar)
    BY <1>4
  <2>2. offset < s
    BY <1>1, <2>1 DEF BarBytes
  <2>3. offset % 4 = 0
    BY <1>4
  <2> QED
    BY <1>1, <1>2, <2>2, <2>3 DEF RegisterAccessible
<1> QED
  BY <1>3, <1>4 DEF WholeRegister

(* The words of a DMA read are a stretch of bar 2, unless its sum wraps. *)
LEMMA StretchFits ==
  ASSUME NEW offset \in Nat, NEW size \in Nat, offset + size < U32, DmaFits(offset, size)
  PROVE  /\ DmaFirst(offset) \in 0 .. MTCADUMMY_DMA_SIZE \div 4
         /\ DmaLength(size) \in 0 .. (MTCADUMMY_DMA_SIZE \div 4) - DmaFirst(offset)
<1>1. MTCADUMMY_DMA_SIZE \in Nat /\ MTCADUMMY_DMA_SIZE % 4 = 0 /\ U32 \in Nat
  BY HeaderAssumption
<1>2. size + offset <= MTCADUMMY_DMA_SIZE
  <2>1. \A x \in Nat, m \in Nat : x < m => x % m = x
    OBVIOUS
  <2> QED
    BY <1>1, <2>1 DEF DmaFits
<1>3. ASSUME NEW o \in Nat, NEW n \in Nat, NEW D \in Nat, D % 4 = 0, n + o <= D
      PROVE  /\ o \div 4 \in 0 .. D \div 4
             /\ (n + 3) \div 4 \in 0 .. (D \div 4) - (o \div 4)
  BY <1>3
<1> QED
  BY <1>1, <1>2, <1>3 DEF DmaFirst, DmaLength

(* What the check of a DMA read (mtcadummy_drv.c:336) is worth: of the     *)
(* requests that it accepts, those that copy a word from outside of bar 2  *)
(* are exactly those whose offset and size sum up to 2^32 or more.         *)
THEOREM DmaLeavesBarByWrap ==
  \A offset, size \in Word : size > 0 /\ DmaFits(offset, size) =>
    ( offset + size < U32 <=>
      \A k \in 0 .. DmaLength(size) - 1 :
        DmaFirst(offset) + k \in 0 .. (MTCADUMMY_DMA_SIZE \div 4) - 1 )
<1> SUFFICES ASSUME NEW offset \in Word, NEW size \in Word, size > 0, DmaFits(offset, size)
             PROVE  offset + size < U32 <=>
                      \A k \in 0 .. DmaLength(size) - 1 :
                        DmaFirst(offset) + k \in 0 .. (MTCADUMMY_DMA_SIZE \div 4) - 1
  OBVIOUS
<1>1. offset \in Nat /\ size \in Nat
  BY HeaderAssumption DEF Word
<1>2. /\ MTCADUMMY_DMA_SIZE \in Nat /\ MTCADUMMY_DMA_SIZE % 4 = 0
      /\ U32 \in Nat /\ MTCADUMMY_DMA_SIZE + 4 <= U32
  BY HeaderAssumption
<1>3. ASSUME offset + size < U32
      PROVE  \A k \in 0 .. DmaLength(size) - 1 :
               DmaFirst(offset) + k \in 0 .. (MTCADUMMY_DMA_SIZE \div 4) - 1
  <2>1. /\ DmaFirst(offset) \in 0 .. MTCADUMMY_DMA_SIZE \div 4
        /\ DmaLength(size) \in 0 .. (MTCADUMMY_DMA_SIZE \div 4) - DmaFirst(offset)
    BY <1>1, <1>3, StretchFits
  <2>2. MTCADUMMY_DMA_SIZE \div 4 \in Nat
    BY <1>2
  <2> QED
    BY <2>1, <2>2
<1>4. ASSUME offset + size >= U32
      PROVE  \E k \in 0 .. DmaLength(size) - 1 :
               ~(DmaFirst(offset) + k \in 0 .. (MTCADUMMY_DMA_SIZE \div 4) - 1)
  <2>1. ASSUME NEW o \in Nat, NEW n \in Nat, NEW D \in Nat, NEW U \in Nat,
               n > 0, D % 4 = 0, D + 4 <= U, o + n >= U
        PROVE  /\ (n + 3) \div 4 - 1 \in 0 .. (n + 3) \div 4 - 1
               /\ (o \div 4) + ((n + 3) \div 4 - 1) > (D \div 4) - 1
    BY <2>1
  <2>2. /\ DmaLength(size) - 1 \in 0 .. DmaLength(size) - 1
        /\ DmaFirst(offset) + (DmaLength(size) - 1) > (MTCADUMMY_DMA_SIZE \div 4) - 1
    BY <1>1, <1>2, <1>4, <2>1 DEF DmaFirst, DmaLength
  <2>3. DmaFirst(offset) \in Nat /\ DmaLength(size) \in Nat /\ MTCADUMMY_DMA_SIZE \div 4 \in Nat
    BY <1>1, <1>2 DEF DmaFirst, DmaLength
  <2>4. ~(DmaFirst(offset) + (DmaLength(size) - 1) \in 0 .. (MTCADUMMY_DMA_SIZE \div 4) - 1)
    BY <2>2, <2>3
  <2> QED
    BY <2>2, <2>4
<1>5. offset + size < U32 \/ offset + size >= U32
  BY <1>1, <1>2
<1> QED
  BY <1>3, <1>4, <1>5
=============================================================================
