------------------------- MODULE MtcaDummyProofs -------------------------
(***************************************************************************)
(* Proofs of the safety properties of the driver, for any number of        *)
(* threads, any devices and any system calls.                              *)
(***************************************************************************)
EXTENDS MtcaDummySafety, MtcaDummyTransferProofs, FiniteSetTheorems

USE DEF MTCADUMMY_N_REGISTERS

(* The constants of the header are words. *)
LEMMA HeaderWords ==
  /\ 0 \in Word /\ 1 \in Word /\ nSamples \in Word
  /\ MTCADUMMY_SPI_SYNC_ERROR \in Word /\ MTCADUMMY_BROKEN_WRITE \in Word
  /\ MTCADUMMY_DRV_VERSION_MAJ \in Word
  /\ MTCADUMMY_DRV_VERSION_MIN \in Word
  /\ MTCADUMMY_DMMY_AS_ASCII \in Word
BY HeaderAssumption DEF Word, MTCADUMMY_SPI_SYNC_ERROR, MTCADUMMY_BROKEN_WRITE

LEMMA ReadOnlyValueType ==
  /\ DOMAIN ReadOnlyValue = {0, 4, 60}
  /\ \A r \in DOMAIN ReadOnlyValue : ReadOnlyValue[r] \in Word
BY HeaderWords DEF ReadOnlyValue, MTCADUMMY_WORD_FIRMWARE, MTCADUMMY_WORD_COMPILATION,
                   MTCADUMMY_WORD_DUMMY

LEMMA InitialBarType == mtcadummy_initialiseSystemBar \in SystemBar
<1> SUFFICES ASSUME NEW w \in 0 .. MTCADUMMY_N_REGISTERS - 1
             PROVE  mtcadummy_initialiseSystemBar[w] \in Word
  BY DEF mtcadummy_initialiseSystemBar, SystemBar
<1> QED
  BY HeaderWords, ReadOnlyValueType
  DEF mtcadummy_initialiseSystemBar

(* The firmware's reaction, by the register written: it writes words, and  *)
(* of the read-only registers only the one written, which it sets back.    *)
LEMMA ReactionValues ==
  ASSUME NEW sys \in SystemBar, NEW offset, NEW fail \in BOOLEAN
  PROVE  /\ \A r \in DOMAIN Reaction(sys, offset, fail) : Reaction(sys, offset, fail)[r] \in Word
         /\ \A r \in DOMAIN ReadOnlyValue :
              r \in DOMAIN Reaction(sys, offset, fail) =>
                r = offset /\ Reaction(sys, offset, fail)[r] = ReadOnlyValue[r]
         /\ offset \in DOMAIN ReadOnlyValue => offset \in DOMAIN Reaction(sys, offset, fail)
<1> DEFINE R == Reaction(sys, offset, fail)
<1> USE DEF MTCADUMMY_WORD_CLK_RST, MTCADUMMY_WORD_ADC_ENA, MTCADUMMY_WORD_SPI_WRITE,
            MTCADUMMY_WORD_SPI_READ, MTCADUMMY_WORD_SPI_SYNC, ClockRegisters,
            MTCADUMMY_WORD_CLK_CNT_0, MTCADUMMY_WORD_CLK_CNT_1, MTCADUMMY_WORD_CLK_MUX_0,
            MTCADUMMY_WORD_CLK_MUX_1, MTCADUMMY_WORD_CLK_MUX_2, MTCADUMMY_WORD_CLK_MUX_3
<1>1. CASE offset = 64 /\ REG(sys, 64) # 0
  <2>1. R = [r \in ClockRegisters |-> 0]
    BY <1>1, ReadOnlyValueType DEF Reaction
  <2> QED
    BY <1>1, <2>1, ReadOnlyValueType, HeaderWords
<1>2. CASE offset = 68 /\ REG(sys, 68) # 0
  <2>1. R = [r \in {16, 64} |-> IF r = 16 THEN nSamples ELSE 0]
    BY <1>2, ReadOnlyValueType DEF Reaction
  <2> QED
    BY <1>2, <2>1, ReadOnlyValueType, HeaderWords
<1>3. CASE offset \in DOMAIN ReadOnlyValue
  <2>1. R = [r \in {offset} |-> ReadOnlyValue[r]]
    BY <1>3, ReadOnlyValueType DEF Reaction
  <2> QED
    BY <1>3, <2>1, ReadOnlyValueType
<1>4. CASE offset = 80
  <2>1. R = SpiReaction(sys, fail)
    BY <1>4, ReadOnlyValueType DEF Reaction
  <2>2. sys[80 \div 4] \in Word
    BY DEF SystemBar
  <2>3. CASE REG(sys, 88) = MTCADUMMY_SPI_SYNC_REQUESTED /\ ~fail
    <3>1. R = [r \in {84, 88} |-> IF r = 84 THEN sys[80 \div 4] ELSE 0]
      BY <2>1, <2>3 DEF SpiReaction, REG, MTCADUMMY_SPI_SYNC_OK
    <3> QED
      BY <1>4, <2>2, <3>1, ReadOnlyValueType, HeaderWords
  <2>4. CASE ~(REG(sys, 88) = MTCADUMMY_SPI_SYNC_REQUESTED /\ ~fail)
    <3>1. R = [r \in {88} |-> MTCADUMMY_SPI_SYNC_ERROR]
      BY <2>1, <2>4 DEF SpiReaction
    <3> QED
      BY <1>4, <3>1, ReadOnlyValueType, HeaderWords
  <2> QED
    BY <2>3, <2>4
<1>5. CASE /\ ~(offset = 64 /\ REG(sys, 64) # 0) /\ ~(offset = 68 /\ REG(sys, 68) # 0)
           /\ offset \notin DOMAIN ReadOnlyValue /\ offset # 80
  <2>1. R = [r \in {} |-> 0]
    BY <1>5 DEF Reaction
  <2> QED
    BY <1>5, <2>1
<1> QED
  BY <1>1, <1>2, <1>3, <1>4, <1>5

LEMMA ReactionType ==
  ASSUME NEW sys \in SystemBar, NEW offset, NEW fail \in BOOLEAN
  PROVE  mtcadummy_performActionOnWrite(sys, offset, fail) \in SystemBar
<1> DEFINE R == Reaction(sys, offset, fail)
<1>1. \A r \in DOMAIN R : R[r] \in Word
  BY ReactionValues
<1> HIDE DEF R
<1>2. SetRegs(sys, R) \in SystemBar
  BY <1>1 DEF SetRegs, SystemBar
<1> QED
  BY <1>2 DEF mtcadummy_performActionOnWrite, R

LEMMA SampledDmaType ==
  ASSUME NEW sys, NEW dma \in DmaBar, NEW offset
  PROVE  SampledDma(sys, dma, offset) \in DmaBar
<1> DEFINE D == 0 .. (MTCADUMMY_DMA_SIZE \div 4) - 1
<1>1. \A w \in D : (w * w) % U32 \in Word
  <2> SUFFICES ASSUME NEW w \in D
               PROVE  (w * w) % U32 \in Word
    OBVIOUS
  <2>1. w * w \in Nat
    BY HeaderAssumption
  <2>2. ASSUME NEW x \in Nat PROVE x % U32 \in Word
    BY HeaderAssumption, DivMod DEF Word
  <2> QED
    BY <2>1, <2>2
<1> QED
  BY <1>1 DEF SampledDma, DmaBar
-----------------------------------------------------------------------------
(* What DriverAssumption says of a system call. *)
LEMMA CallFacts ==
  ASSUME NEW c \in Calls
  PROVE  /\ c.op \in Ops
         /\ c.op = "open" => c.dev \in Devices
         /\ c.op \in {"read", "ioctl"} => c.offset \in Nat /\ c.size \in Nat
         /\ c.op = "write" => c.data \in Word /\ c.offset \in Nat
         /\ c.op \in PlainOps => c.count \in Nat /\ c.pos \in Nat
         /\ c.op = "pwrite" => c.data \in [0 .. (c.count \div 4) - 1 -> Word]
         /\ c.op = "control" => c.count \in Nat
<1>1. Word \subseteq Nat
  BY HeaderAssumption DEF Word
<1> QED
  BY <1>1, DriverAssumption DEF ValidCall, PlainOps

LEMMA DeviceFacts == NoFile \notin Devices /\ Devices \subseteq Nat /\ Nobody \notin Threads
BY DriverAssumption DEF NoFile, MTCADUMMY_NR_DEVS

LEMMA NoCallFacts == NoCall.op = "none" /\ NoCall.op \notin Ops
BY DEF NoCall, Ops, GatedOps, StructOps, PlainOps

LEMMA EntryType ==
  ASSUME NEW c \in Calls, NEW d
  PROVE  Entry(c, d) \in Labels
BY CallFacts DEF Entry, Labels, Ops, GatedOps, StructOps, PlainOps

LEMMA StructReadType ==
  ASSUME NEW d, NEW c \in Calls, c.op = "read"
  PROVE  StructRead(d, c).ret \in Int
BY CallFacts DEF StructRead, EFAULT, EIO, sizeof_device_rw

LEMMA IoctlOutcomeType ==
  ASSUME NEW d, NEW c
  PROVE  IoctlOutcome(d, c).ret \in Int
BY DEF IoctlOutcome, EFAULT, ENOTTY

(* The steps of a DMA copy: the thread holds devMutex, in a read or an     *)
(* ioctl, and keeps it until the copy ends.                                *)
LEMMA CopyWordFacts ==
  ASSUME NEW t \in Threads, CopyDmaWord(t)
  PROVE  /\ pc[t] = "body" /\ call[t].op \in {"read", "ioctl"}
         /\ pc' = pc /\ call' = call /\ file' = file /\ idx' = [idx EXCEPT ![t] = @ + 1]
         /\ control' = control /\ controlMutex' = controlMutex /\ devMutex' = devMutex
         /\ systemBar' = systemBar /\ dmaBar' = dmaBar /\ inUse' = inUse
         /\ spiFail' = spiFail /\ ret' = ret /\ seen' = seen /\ torn' = torn
BY DEF CopyDmaWord, InDmaCopy, CopiesDma, bars

LEMMA CopyEndFacts ==
  ASSUME NEW t \in Threads, CopyDmaEnds(t)
  PROVE  /\ pc[t] = "body" /\ call[t].op \in {"read", "ioctl"}
         /\ call' = call /\ file' = file /\ idx' = idx
         /\ control' = control /\ controlMutex' = controlMutex
         /\ systemBar' = systemBar /\ dmaBar' = dmaBar /\ inUse' = inUse
         /\ spiFail' = spiFail /\ seen' = seen /\ torn' = torn /\ result' = result
         /\ Finish(t, IF call[t].op = "read" THEN call[t].size ELSE 0) \/ Finish(t, EFAULT)
BY DEF CopyDmaEnds, InDmaCopy, CopiesDma, bars

LEMMA ControlType ==
  ASSUME NEW flags \in [Options -> BOOLEAN], NEW line
  PROVE  mtcadummy_proc_write(flags, line) \in [Options -> BOOLEAN]
BY DEF mtcadummy_proc_write, Updated

(* The word a write handler is at, once the request has been accepted. *)
LEMMA CurrentWord ==
  ASSUME TypeOK, CallState, NEW t \in Threads, call[t] \in Calls,
         pc[t] \in DeviceLabels, call[t].op \in {"write", "pwrite"},
         call[t].op = "pwrite" => idx[t] < WordsToTransfer(t)
  PROVE  CurData(t) \in Word
<1>1. CASE call[t].op = "write"
  BY <1>1, CallFacts DEF CurData
<1>2. CASE call[t].op = "pwrite"
  <2> DEFINE c == call[t]
             n == nBytesToTransfer(c.count, c.pos)
  <2>1. c.count \in Nat /\ c.pos \in Nat /\ idx[t] \in Nat
    BY <1>2, CallFacts DEF TypeOK, PlainOps
  <2>2. TransferAccepted(c.count, c.pos)
    BY <1>2 DEF CallState, Checked, PlainOps
  <2>3. n \in Nat /\ n <= c.count
    BY <2>1, <2>2, TransferBounds
  <2>4. idx[t] < n \div 4
    BY <1>2 DEF WordsToTransfer
  <2>5. idx[t] \in 0 .. (c.count \div 4) - 1
    <3> HIDE DEF c, n
    <3> QED BY <2>1, <2>3, <2>4
  <2> QED
    BY <1>2, <2>5, CallFacts DEF CurData
<1> QED
  BY <1>1, <1>2

LEMMA StoreType ==
  ASSUME TypeOK, NEW d \in Devices, NEW bar, NEW offset, NEW word \in Word,
         Store(d, bar, offset, word)
  PROVE  systemBar' \in [Devices -> SystemBar] /\ dmaBar' \in [Devices -> DmaBar]
<1> DEFINE S == [systemBar[d] EXCEPT ![offset \div 4] = word]
           M == [dmaBar[d] EXCEPT ![offset \div 4] = word]
<1>1. systemBar \in [Devices -> SystemBar] /\ dmaBar \in [Devices -> DmaBar]
  BY DEF TypeOK
<1>2. S \in SystemBar
  BY <1>1 DEF SystemBar
<1>3. M \in DmaBar
  BY <1>1 DEF DmaBar
<1>4. CASE bar = 0
  <2>1. systemBar' = [systemBar EXCEPT ![d] = S] /\ dmaBar' = dmaBar
    BY <1>4 DEF Store
  <2> HIDE DEF S, M
  <2> QED BY <1>1, <1>2, <2>1
<1>5. CASE bar # 0
  <2>1. dmaBar' = [dmaBar EXCEPT ![d] = M] /\ systemBar' = systemBar
    BY <1>5 DEF Store
  <2> HIDE DEF S, M
  <2> QED BY <1>1, <1>3, <2>1
<1> QED
  BY <1>4, <1>5

(* The types after an unlock and a return. *)
LEMMA ReturnType ==
  ASSUME TypeOK, NEW t \in Threads, NEW r \in Int, Return(t, r)
  PROVE  pc' \in [Threads -> Labels] /\ ret' \in [Threads -> Int]
BY DEF TypeOK, Return, Goto, Labels

LEMMA FinishType ==
  ASSUME TypeOK, NEW t \in Threads, NEW r \in Int, Finish(t, r)
  PROVE  /\ pc' \in [Threads -> Labels] /\ ret' \in [Threads -> Int]
         /\ devMutex' \in [Devices -> Threads \cup {Nobody}]
<1>1. Return(t, r)
  BY DEF Finish
<1>2. devMutex' \in [Devices -> Threads \cup {Nobody}]
  BY DEF TypeOK, Finish
<1> QED
  BY <1>1, <1>2, ReturnType

(* The byte offset a write handler is at. *)
LEMMA CurOffsetType ==
  ASSUME TypeOK, NEW t \in Threads, call[t] \in Calls, call[t].op \in {"write"} \cup PlainOps
  PROVE  CurOffset(t) \in Nat
<1>1. CASE call[t].op = "write"
  BY <1>1, CallFacts DEF CurOffset
<1>2. CASE call[t].op # "write"
  <2>1. call[t].pos \in Nat /\ idx[t] \in Nat
    BY <1>2, CallFacts DEF TypeOK
  <2>2. OffsetOf(call[t].pos) \in Nat
    BY <2>1, OffsetType
  <2> QED
    BY <1>2, <2>1, <2>2 DEF CurOffset
<1> QED
  BY <1>1, <1>2

(* The device a thread uses between lock and unlock is one of Devices. *)
LEMMA DevFacts ==
  ASSUME TypeOK, CallState, NEW t \in Threads
  PROVE  /\ pc[t] \in {"lock"} \cup DeviceLabels => Dev(t) \in Devices
         /\ pc[t] \in FirmwareLabels => Dev(t) = file[t]
BY DEF TypeOK, CallState, AtLabel, AtFile, Dev, DeviceLabels, FirmwareLabels,
       StructOps, PlainOps

-----------------------------------------------------------------------------
(* Every step keeps the types.  inUse stays a natural number because it    *)
(* counts the open files: a thread that closes one has one to close.       *)
LEMMA TypeStep ==
  ASSUME IInv, [Next]_vars
  PROVE  TypeOK'
<1> USE DEF IInv
<1>a. ASSUME NEW t \in Threads, call[t] \in Calls \/ pc[t] # "idle"
      PROVE  call[t] \in Calls
  BY <1>a DEF CallState, AtLabel
<1>0. CASE UNCHANGED vars
  BY <1>0 DEF vars, TypeOK
<1>1. ASSUME NEW t \in Threads, NEW c \in Calls, Enter(t, c)
      PROVE  TypeOK'
  BY <1>1, EntryType DEF TypeOK, Enter, Goto, bars
<1>2. ASSUME NEW t \in Threads, NullOperation(t)
      PROVE  TypeOK'
  <2>1. call[t].op = "open" => call[t].dev \in Devices
    BY <1>2, <1>a, CallFacts DEF NullOperation
  <2> QED
    BY <1>2, <2>1 DEF TypeOK, NullOperation, Return, Goto, bars, Labels, EINVAL, ENOTTY
<1>3. ASSUME NEW t \in Threads, Exit(t)
      PROVE  TypeOK'
  BY <1>3 DEF TypeOK, Exit, Goto, bars, Labels
<1>4. ASSUME NEW t \in Threads, LockControl(t)
      PROVE  TypeOK'
  BY <1>4 DEF TypeOK, LockControl, Goto, bars, locals, AfterLock, Labels
<1>5. ASSUME NEW t \in Threads, GateInterrupted(t)
      PROVE  TypeOK'
  BY <1>5 DEF TypeOK, GateInterrupted, Return, Goto, bars, Labels, ERESTARTSYS
<1>6. ASSUME NEW t \in Threads, PassGate(t)
      PROVE  TypeOK'
  BY <1>6 DEF TypeOK, PassGate, Return, Goto, bars, Labels, GateError, EINVAL, EFAULT
<1>7. ASSUME NEW t \in Threads, Install(t)
      PROVE  TypeOK'
  <2>1. call[t].dev \in Devices
    BY <1>7, <1>a, CallFacts DEF Install, CallState, AtLabel
  <2> QED
    BY <1>7, <2>1 DEF TypeOK, Install, Return, Goto, bars, Labels
<1>8. ASSUME NEW t \in Threads, Release(t)
      PROVE  TypeOK'
  <2>1. file[t] \in Devices /\ FileOps(file[t]).open
    BY <1>8 DEF Release, CallState, AtLabel, AtFile
  <2>2. inUse[file[t]] = Cardinality(OpenFiles(file[t]))
    BY <2>1 DEF InUseCountsOpenFiles
  <2>3. IsFiniteSet(OpenFiles(file[t])) /\ t \in OpenFiles(file[t])
    BY ThreadsAssumption, FS_Subset DEF OpenFiles
  <2>4. inUse[file[t]] - 1 \in Nat
    BY <2>2, <2>3, FS_CardinalityType, FS_EmptySet
  <2> QED
    BY <1>8, <2>1, <2>4 DEF TypeOK, Release, Return, Goto, bars, Labels
<1>9. ASSUME NEW t \in Threads, LockDevice(t)
      PROVE  TypeOK'
  BY <1>9 DEF TypeOK, LockDevice, Goto, bars, locals, Labels
<1>10. ASSUME NEW t \in Threads, DeviceInterrupted(t)
       PROVE  TypeOK'
  BY <1>10 DEF TypeOK, DeviceInterrupted, Return, Goto, bars, Labels, ERESTARTSYS
<1>11. ASSUME NEW t \in Threads, mtcaDummy_read(t)
       PROVE  TypeOK'
  <2>1. StructRead(Dev(t), call[t]).ret \in Int
    BY <1>11, <1>a, StructReadType DEF mtcaDummy_read
  <2>2. PICK r \in Int : Finish(t, r)
    BY <1>11, <2>1 DEF mtcaDummy_read, EFAULT
  <2> QED
    BY <1>11, <2>2 DEF TypeOK, mtcaDummy_read, Finish, Return, Goto, bars, Labels
<1>12. ASSUME NEW t \in Threads, mtcaDummy_write_rejected(t)
       PROVE  TypeOK'
  <2>1. Finish(t, EFAULT) /\ EFAULT \in Int
    BY <1>12 DEF mtcaDummy_write_rejected, EFAULT
  <2> QED
    BY <1>12, <2>1, FinishType DEF TypeOK, mtcaDummy_write_rejected, bars
<1>13. ASSUME NEW t \in Threads, mtcaDummy_write(t)
       PROVE  TypeOK'
  <2>1. CurData(t) \in Word
    BY <1>13, <1>a, CurrentWord DEF mtcaDummy_write, DeviceLabels
  <2>2. systemBar' \in [Devices -> SystemBar] /\ dmaBar' \in [Devices -> DmaBar]
    BY <1>13, <2>1, StoreType, DevFacts DEF mtcaDummy_write, DeviceLabels
  <2> QED
    BY <1>13, <2>2 DEF TypeOK, mtcaDummy_write, Finish, Return, Goto, Labels, sizeof_device_rw
<1>14. ASSUME NEW t \in Threads, CheckTransfer(t)
       PROVE  TypeOK'
  BY <1>14 DEF TypeOK, CheckTransfer, Return, Goto, bars, Labels, EFAULT
<1>15. ASSUME NEW t \in Threads, ReadWord(t)
       PROVE  TypeOK'
  BY <1>15 DEF TypeOK, ReadWord, bars
<1>16. ASSUME NEW t \in Threads, ReadWordFails(t)
       PROVE  TypeOK'
  <2>1. Finish(t, EIO) \/ Finish(t, EFAULT)
    BY <1>16 DEF ReadWordFails
  <2>2. EIO \in Int /\ EFAULT \in Int
    BY DEF EIO, EFAULT
  <2> QED
    BY <1>16, <2>1, <2>2, FinishType DEF TypeOK, ReadWordFails, bars
<1>17. ASSUME NEW t \in Threads, WriteWord(t)
       PROVE  TypeOK'
  <2>1. CurData(t) \in Word
    BY <1>17, <1>a, CurrentWord DEF WriteWord, DeviceLabels
  <2>2. systemBar' \in [Devices -> SystemBar] /\ dmaBar' \in [Devices -> DmaBar]
    BY <1>17, <2>1, StoreType, DevFacts DEF WriteWord, DeviceLabels
  <2>3. pc' \in [Threads -> Labels] /\ idx' \in [Threads -> Nat]
    BY <1>17 DEF TypeOK, WriteWord, Goto, Labels
  <2> QED
    BY <1>17, <2>2, <2>3 DEF TypeOK, WriteWord
<1>18. ASSUME NEW t \in Threads, WriteWordFaults(t)
       PROVE  TypeOK'
  <2>0. call[t] \in Calls /\ call[t].op = "pwrite"
    BY <1>18, <1>a DEF WriteWordFaults
  <2>1. CurData(t) \in Word
    BY <1>18, <2>0, CurrentWord DEF WriteWordFaults, DeviceLabels
  <2>2. \A m \in PartialCopies : CurData(t) % m \in Word
    BY <2>1, HeaderAssumption DEF PartialCopies, Word
  <2>3. systemBar' \in [Devices -> SystemBar] /\ dmaBar' \in [Devices -> DmaBar]
    BY <1>18, <2>2, StoreType, DevFacts DEF WriteWordFaults, DeviceLabels
  <2>4. torn' \in [Devices -> SUBSET Nat]
    <3>1. CurOffset(t) \in Nat
      BY <2>0, CurOffsetType DEF PlainOps
    <3> QED
      BY <1>18, <3>1 DEF TypeOK, WriteWordFaults
  <2>5. Finish(t, EFAULT) /\ EFAULT \in Int
    BY <1>18 DEF WriteWordFaults, EFAULT
  <2> QED
    BY <1>18, <2>3, <2>4, <2>5, FinishType DEF TypeOK, WriteWordFaults
<1>19. ASSUME NEW t \in Threads, TransferDone(t)
       PROVE  TypeOK'
  <2> DEFINE n == nBytesToTransfer(call[t].count, call[t].pos)
  <2>1. call[t] \in Calls /\ call[t].op \in PlainOps
    BY <1>19, <1>a DEF TransferDone
  <2>2. n \in Nat
    BY <1>19, <2>1, CallFacts, TransferBounds DEF TransferDone, CallState, Checked, DeviceLabels
  <2>3. Finish(t, n)
    BY <1>19 DEF TransferDone
  <2> HIDE DEF n
  <2> QED
    BY <1>19, <2>2, <2>3, FinishType DEF TypeOK, TransferDone, bars
<1>20. ASSUME NEW t \in Threads, FirmwareInterrupted(t)
       PROVE  TypeOK'
  <2>1. CurOffset(t) \in Nat
    BY <1>20, <1>a, CurOffsetType
    DEF FirmwareInterrupted, PlainOps, CallState, AtLabel, FirmwareLabels
  <2>2. torn' \in [Devices -> SUBSET Nat]
    BY <1>20, <2>1 DEF TypeOK, FirmwareInterrupted
  <2>3. Finish(t, EIO) /\ EIO \in Int
    BY <1>20 DEF FirmwareInterrupted, EIO
  <2> QED
    BY <1>20, <2>2, <2>3, FinishType DEF TypeOK, FirmwareInterrupted, bars
<1>21. ASSUME NEW t \in Threads, SampleSpiError(t)
       PROVE  TypeOK'
  BY <1>21 DEF TypeOK, SampleSpiError, Goto, bars, Labels, Options
<1>22. ASSUME NEW t \in Threads, FirmwareAction(t)
       PROVE  TypeOK'
  <2>1. Dev(t) \in Devices
    BY <1>22, DevFacts DEF FirmwareAction, DeviceLabels, FirmwareLabels
  <2>2. mtcadummy_performActionOnWrite(systemBar[Dev(t)], CurOffset(t), spiFail[t]) \in SystemBar
    BY <2>1, ReactionType DEF TypeOK
  <2>3. SampledDma(systemBar[Dev(t)], dmaBar[Dev(t)], CurOffset(t)) \in DmaBar
    BY <2>1, SampledDmaType DEF TypeOK
  <2>4. systemBar' \in [Devices -> SystemBar] /\ dmaBar' \in [Devices -> DmaBar]
    BY <1>22, <2>2, <2>3 DEF TypeOK, FirmwareAction
  <2>5. pc' \in [Threads -> Labels] /\ ret' \in [Threads -> Int] /\ idx' \in [Threads -> Nat]
        /\ devMutex' \in [Devices -> Threads \cup {Nobody}]
    <3>1. CASE Finish(t, EIO) /\ idx' = idx
      BY <3>1, FinishType DEF TypeOK, EIO
    <3>2. CASE Finish(t, sizeof_device_rw) /\ idx' = idx
      BY <3>2, FinishType DEF TypeOK, sizeof_device_rw
    <3>3. CASE idx' = [idx EXCEPT ![t] = @ + 1] /\ Goto(t, "body") /\ UNCHANGED <<devMutex, ret>>
      BY <3>3 DEF TypeOK, Goto, Labels
    <3> QED
      BY <1>22, <3>1, <3>2, <3>3 DEF FirmwareAction
  <2> QED
    BY <1>22, <2>4, <2>5 DEF TypeOK, FirmwareAction
<1>23. ASSUME NEW t \in Threads, IoctlCheck(t)
       PROVE  TypeOK'
  <2>1. pc' \in [Threads -> Labels] /\ ret' \in [Threads -> Int]
    <3>1. CASE Goto(t, "lock") /\ UNCHANGED ret
      BY <3>1 DEF TypeOK, Goto, Labels
    <3>2. CASE Return(t, ENOTTY)
      BY <3>2, ReturnType DEF ENOTTY
    <3>3. CASE Return(t, EFAULT)
      BY <3>3, ReturnType DEF EFAULT
    <3> QED
      BY <1>23, <3>1, <3>2, <3>3 DEF IoctlCheck
  <2> QED
    BY <1>23, <2>1 DEF TypeOK, IoctlCheck, bars
<1>24. ASSUME NEW t \in Threads, mtcaDummy_ioctl(t)
       PROVE  TypeOK'
  <2>1. PICK r \in Int : Finish(t, r)
    BY <1>24, IoctlOutcomeType DEF mtcaDummy_ioctl, EFAULT
  <2> QED
    BY <1>24, <2>1 DEF TypeOK, mtcaDummy_ioctl, Finish, Return, Goto, bars, Labels
<1>32. ASSUME NEW t \in Threads, CopyDmaWord(t)
       PROVE  TypeOK'
  BY <1>32, CopyWordFacts DEF TypeOK
<1>33. ASSUME NEW t \in Threads, CopyDmaEnds(t)
       PROVE  TypeOK'
  <2>1. PICK r \in Int : Finish(t, r)
    <3>1. call[t].op = "read" => call[t].size \in Int
      BY <1>33, <1>a, CallFacts, CopyEndFacts
    <3> QED
      BY <1>33, <3>1, CopyEndFacts DEF EFAULT
  <2> QED
    BY <1>33, <2>1, CopyEndFacts, FinishType DEF TypeOK
<1>25. ASSUME NEW t \in Threads, ProcWriteCopy(t)
       PROVE  TypeOK'
  <2>1. pc' \in [Threads -> Labels] /\ ret' \in [Threads -> Int]
    <3>1. CASE Goto(t, "setControl") /\ UNCHANGED ret
      BY <3>1 DEF TypeOK, Goto, Labels
    <3>2. CASE Return(t, EFAULT)
      BY <3>2, ReturnType DEF EFAULT
    <3> QED
      BY <1>25, <3>1, <3>2 DEF ProcWriteCopy
  <2> QED
    BY <1>25, <2>1 DEF TypeOK, ProcWriteCopy, bars
<1>26. ASSUME NEW t \in Threads, ProcWriteInterrupted(t)
       PROVE  TypeOK'
  BY <1>26 DEF TypeOK, ProcWriteInterrupted, Return, Goto, bars, Labels, EWOULDBLOCK
<1>27. ASSUME NEW t \in Threads, SetControl(t)
       PROVE  TypeOK'
  <2>1. control' \in [Options -> BOOLEAN]
    BY <1>27, ControlType DEF TypeOK, SetControl
  <2>2. call[t].count \in Int
    BY <1>27, <1>a, CallFacts DEF SetControl, CallState, AtLabel
  <2>3. seen' \in [Threads -> SUBSET [Options -> BOOLEAN]]
    BY <1>27, <2>1 DEF TypeOK, SetControl
  <2> QED
    BY <1>27, <2>1, <2>2, <2>3 DEF TypeOK, SetControl, Return, Goto, bars, Labels
<1>28. ASSUME NEW t \in Threads, SeqShow(t)
       PROVE  TypeOK'
  BY <1>28 DEF TypeOK, SeqShow, Goto, bars, Labels
<1>29. ASSUME NEW t \in Threads, PrintDmaBar(t)
       PROVE  TypeOK'
  <2>1. devMutex' \in [Devices -> Threads \cup {Nobody}]
    BY <1>29 DEF TypeOK, PrintDmaBar
  <2>2. pc' \in [Threads -> Labels] /\ idx' \in [Threads -> Nat]
    BY <1>29 DEF TypeOK, PrintDmaBar, Goto, Labels
  <2> QED
    BY <1>29, <2>1, <2>2 DEF TypeOK, PrintDmaBar, bars
<1>31. ASSUME NEW t \in Threads, PrintSystemBar(t)
       PROVE  TypeOK'
  BY <1>31 DEF TypeOK, PrintSystemBar, bars
<1>30. ASSUME NEW t \in Threads, SeqStop(t)
       PROVE  TypeOK'
  BY <1>30 DEF TypeOK, SeqStop, Return, Goto, bars, Labels
<1> QED
  BY <1>0, <1>1, <1>2, <1>3, <1>4, <1>5, <1>6, <1>7, <1>8, <1>9, <1>10, <1>11, <1>12,
     <1>13, <1>14, <1>15, <1>16, <1>17, <1>18, <1>19, <1>20, <1>21, <1>22, <1>23, <1>24,
     <1>25, <1>26, <1>27, <1>28, <1>29, <1>30, <1>31, <1>32, <1>33
  DEF Next, ThreadStep, Signal, Step
-----------------------------------------------------------------------------
(* A step of t leaves the program counters, calls, files and indices of    *)
(* the other threads alone.                                                *)
LEMMA OthersUnchanged ==
  ASSUME TypeOK, NEW t \in Threads, ThreadStep(t)
  PROVE  \A u \in Threads \ {t} :
           pc'[u] = pc[u] /\ call'[u] = call[u] /\ file'[u] = file[u] /\ idx'[u] = idx[u]
<1> USE DEF TypeOK, Finish, Return, Goto, locals
<1>1. CASE (\E c \in Calls : Enter(t, c)) \/ LockControl(t) \/ LockDevice(t) \/ Exit(t)
  BY <1>1 DEF Enter, LockControl, LockDevice, Exit
<1>2. CASE Signal(t)
  BY <1>2 DEF Signal, GateInterrupted, DeviceInterrupted, FirmwareInterrupted, ProcWriteInterrupted
<1>3. CASE NullOperation(t) \/ PassGate(t) \/ Install(t) \/ Release(t)
  BY <1>3 DEF NullOperation, PassGate, Install, Release
<1>4. CASE mtcaDummy_read(t) \/ mtcaDummy_write_rejected(t) \/ mtcaDummy_write(t)
  BY <1>4 DEF mtcaDummy_read, mtcaDummy_write_rejected, mtcaDummy_write
<1>5. CASE CheckTransfer(t) \/ ReadWord(t) \/ ReadWordFails(t)
  BY <1>5 DEF CheckTransfer, ReadWord, ReadWordFails
<1>6. CASE WriteWord(t) \/ WriteWordFaults(t) \/ TransferDone(t)
  BY <1>6 DEF WriteWord, WriteWordFaults, TransferDone
<1>7. CASE SampleSpiError(t) \/ FirmwareAction(t)
  BY <1>7 DEF SampleSpiError, FirmwareAction
<1>8. CASE IoctlCheck(t) \/ mtcaDummy_ioctl(t) \/ ProcWriteCopy(t) \/ SetControl(t)
  BY <1>8 DEF IoctlCheck, mtcaDummy_ioctl, ProcWriteCopy, SetControl
<1>9. CASE SeqShow(t) \/ PrintSystemBar(t) \/ PrintDmaBar(t) \/ SeqStop(t)
  BY <1>9 DEF SeqShow, PrintSystemBar, PrintDmaBar, SeqStop
<1>10. CASE CopyDmaWord(t) \/ CopyDmaEnds(t)
  BY <1>10, CopyWordFacts, CopyEndFacts
<1> QED
  BY <1>1, <1>2, <1>3, <1>4, <1>5, <1>6, <1>7, <1>8, <1>9, <1>10 DEF ThreadStep, Step

(* CallState, thread by thread: a thread that does not move, and one that  *)
(* is on its way out of the driver.                                        *)
LEMMA CallStateFrame ==
  ASSUME NEW u, pc'[u] = pc[u], call'[u] = call[u], file'[u] = file[u], idx'[u] = idx[u],
         AtLabel(u), AtFile(u), Checked(u)
  PROVE  AtLabel(u)' /\ AtFile(u)' /\ Checked(u)'
BY DEF AtLabel, AtFile, Checked, CurBar, WordsToTransfer

LEMMA CallStateDone ==
  ASSUME NEW u, pc'[u] = "done", call'[u] = call[u], call[u] \in Calls
  PROVE  AtLabel(u)' /\ AtFile(u)' /\ Checked(u)'
BY DEF AtLabel, AtFile, Checked, DeviceLabels, FirmwareLabels

(* What a thread that enters a handler knows. *)
LEMMA EntryState ==
  ASSUME TypeOK, NEW t \in Threads, NEW c \in Calls, Enter(t, c)
  PROVE  AtLabel(t)' /\ AtFile(t)' /\ Checked(t)'
<1> DEFINE d == IF c.op = "open" THEN c.dev ELSE file[t]
           e == Entry(c, d)
<1>1. pc'[t] = e /\ call'[t] = c /\ file'[t] = file[t] /\ idx'[t] = idx[t] /\ MayCall(t, c)
  BY DEF Enter, Goto, TypeOK
<1>2. c.op \in Ops
  BY CallFacts
<1>3. file[t] \in Devices \cup {NoFile}
  BY DEF TypeOK
<1>4. c.op \in Ops \ {"control", "dump"} => (e = "null" <=> ~HasHandler(c, d))
  BY DEF Entry, Ops, GatedOps, StructOps, PlainOps
<1>5. c.op \in {"control", "dump"} => e = c.op
  BY DEF Entry, HasHandler, GatedOps, StructOps, PlainOps
<1>6. /\ e \in {"null", "gate", "release", "ioctl", "control", "dump"}
      /\ e = "gate" => c.op \in GatedOps
      /\ e \in {"release", "ioctl", "control", "dump"} => c.op = e
  BY <1>2 DEF Entry, Ops, GatedOps, StructOps, PlainOps
<1>7. /\ c.op = "open" => file[t] = NoFile
      /\ c.op \notin {"open", "control", "dump"} => file[t] # NoFile
  BY <1>1 DEF MayCall, StructOps, PlainOps
<1>8. c.op \in {"open", "release"} => (HasHandler(c, d) <=> FileOps(d).open)
  BY DEF HasHandler
<1> HIDE DEF e
<1>9. AtLabel(t)'
  BY <1>1, <1>5, <1>6 DEF AtLabel, FirmwareLabels
<1>10. AtFile(t)'
  BY <1>1, <1>2, <1>3, <1>4, <1>6, <1>7, <1>8 DEF AtFile, Ops, GatedOps
<1>11. Checked(t)'
  BY <1>1, <1>6 DEF Checked, DeviceLabels, FirmwareLabels
<1> QED
  BY <1>9, <1>10, <1>11

(* Every step keeps CallState. *)
LEMMA CallStateStep ==
  ASSUME IInv, NEW t \in Threads, ThreadStep(t)
  PROVE  CallState'
<1> USE DEF IInv
<1> DEFINE P(u) == AtLabel(u) /\ AtFile(u) /\ Checked(u)
<1>1. \A u \in Threads \ {t} : P(u)'
  BY OthersUnchanged, CallStateFrame DEF CallState
<1>2. SUFFICES P(t)'
  BY <1>1, <1>2 DEF CallState
<1>3. P(t)
  BY DEF CallState
<1>4. /\ pc[t] # "idle" => call[t] \in Calls
      /\ Devices \subseteq Nat /\ NoFile \notin Devices
  BY <1>3, DeviceFacts DEF AtLabel
<1>5. CASE \E c \in Calls : Enter(t, c)
  BY <1>5, EntryState
<1>6. ASSUME pc'[t] = "done", call'[t] = call[t], pc[t] # "idle"
      PROVE  P(t)'
  BY <1>4, <1>6, CallStateDone
<1> USE DEF TypeOK, Goto
<1>7. CASE LockControl(t)
  BY <1>3, <1>7
  DEF LockControl, AfterLock, locals, AtLabel, AtFile, Checked, DeviceLabels, FirmwareLabels,
      CurBar, WordsToTransfer, GatedOps, StructOps, PlainOps
<1>8. CASE LockDevice(t)
  BY <1>3, <1>8 DEF LockDevice, locals, AtLabel, AtFile, Checked, DeviceLabels, FirmwareLabels
<1>9. CASE Signal(t)
  BY <1>6, <1>9 DEF Signal, GateInterrupted, DeviceInterrupted, FirmwareInterrupted,
                    ProcWriteInterrupted, Finish, Return
<1>10. CASE NullOperation(t) \/ Install(t) \/ Release(t) \/ TransferDone(t) \/ SeqStop(t)
            \/ SetControl(t) \/ mtcaDummy_write_rejected(t) \/ WriteWordFaults(t)
  BY <1>6, <1>10 DEF NullOperation, Install, Release, TransferDone, SeqStop, SetControl,
                     mtcaDummy_write_rejected, WriteWordFaults, Finish, Return
<1>11. CASE mtcaDummy_read(t) \/ ReadWordFails(t) \/ mtcaDummy_ioctl(t)
  BY <1>6, <1>11 DEF mtcaDummy_read, ReadWordFails, mtcaDummy_ioctl, Finish, Return
<1>23. CASE CopyDmaEnds(t)
  BY <1>6, <1>23, CopyEndFacts DEF Finish, Return
<1>24. CASE CopyDmaWord(t)
  BY <1>3, <1>24, CopyWordFacts DEF AtLabel, AtFile, Checked, DeviceLabels, FirmwareLabels, PlainOps
<1>12. CASE Exit(t)
  BY <1>12 DEF Exit, AtLabel, AtFile, Checked, DeviceLabels, FirmwareLabels
<1>13. CASE PassGate(t)
  <2>1. CASE pc'[t] = "done"
    BY <1>6, <1>13, <2>1 DEF PassGate
  <2>2. CASE pc'[t] # "done"
    BY <1>3, <1>13, <2>2
    DEF PassGate, Return, AtLabel, AtFile, Checked, DeviceLabels, FirmwareLabels,
        GatedOps, StructOps, PlainOps
  <2> QED
    BY <2>1, <2>2
<1>14. CASE mtcaDummy_write(t)
  <2>1. CASE CurBar(t) # 0
    BY <1>6, <1>14, <2>1 DEF mtcaDummy_write, Finish, Return
  <2>2. CASE CurBar(t) = 0
    BY <1>3, <1>14, <2>2
    DEF mtcaDummy_write, AtLabel, AtFile, Checked, DeviceLabels, FirmwareLabels, CurBar,
        StructOps, PlainOps
  <2> QED
    BY <2>1, <2>2
<1>15. CASE CheckTransfer(t)
  <2>1. CASE ~TransferAccepted(call[t].count, call[t].pos)
    BY <1>6, <1>15, <2>1 DEF CheckTransfer, Return
  <2>2. CASE TransferAccepted(call[t].count, call[t].pos)
    BY <1>3, <1>15, <2>2
    DEF CheckTransfer, AtLabel, AtFile, Checked, DeviceLabels, FirmwareLabels, PlainOps
  <2> QED
    BY <2>1, <2>2
<1>16. CASE ReadWord(t) \/ PrintSystemBar(t)
  BY <1>3, <1>16 DEF ReadWord, PrintSystemBar, AtLabel, AtFile, Checked, DeviceLabels, FirmwareLabels
<1>17. CASE WriteWord(t)
  <2>1. call'[t] = call[t] /\ file'[t] = file[t] /\ pc[t] = "body" /\ call[t].op = "pwrite"
        /\ idx[t] < WordsToTransfer(t)
    BY <1>17 DEF WriteWord
  <2>2. CASE CurBar(t) = 0
    <3>1. pc'[t] = "fw" /\ idx'[t] = idx[t]
      BY <1>17, <2>2 DEF WriteWord
    <3> QED
      BY <1>3, <2>1, <2>2, <3>1
      DEF AtLabel, AtFile, Checked, DeviceLabels, FirmwareLabels, CurBar, WordsToTransfer
  <2>3. CASE CurBar(t) # 0
    <3>1. pc'[t] = "body"
      BY <1>17, <2>3 DEF WriteWord
    <3> QED
      BY <1>3, <2>1, <3>1 DEF AtLabel, AtFile, Checked, DeviceLabels, FirmwareLabels
  <2> QED
    BY <2>2, <2>3
<1>18. CASE SampleSpiError(t)
  BY <1>3, <1>18
  DEF SampleSpiError, AtLabel, AtFile, Checked, DeviceLabels, FirmwareLabels, CurBar,
      WordsToTransfer
<1>19. CASE FirmwareAction(t)
  <2>1. call'[t] = call[t] /\ file'[t] = file[t] /\ pc[t] = "fwAct"
    BY <1>19 DEF FirmwareAction
  <2>2. pc'[t] = "done" \/ (pc'[t] = "body" /\ call[t].op # "write")
    BY <1>19 DEF FirmwareAction, Finish, Return
  <2>3. CASE pc'[t] = "done"
    BY <1>6, <2>1, <2>3
  <2>4. CASE pc'[t] = "body" /\ call[t].op # "write"
    BY <1>3, <2>1, <2>4
    DEF AtLabel, AtFile, Checked, DeviceLabels, FirmwareLabels, StructOps, PlainOps
  <2> QED
    BY <2>2, <2>3, <2>4
<1>20. CASE IoctlCheck(t)
  <2>1. call'[t] = call[t] /\ file'[t] = file[t] /\ pc[t] = "ioctl"
    BY <1>20 DEF IoctlCheck
  <2>2. Goto(t, "lock") \/ Return(t, ENOTTY) \/ Return(t, EFAULT)
    BY <1>20 DEF IoctlCheck
  <2>3. pc'[t] = "done" \/ pc'[t] = "lock"
    BY <2>2 DEF Return
  <2>4. CASE pc'[t] = "done"
    BY <1>6, <2>1, <2>4
  <2>5. CASE pc'[t] = "lock"
    BY <1>3, <2>1, <2>5
    DEF AtLabel, AtFile, Checked, DeviceLabels, FirmwareLabels, PlainOps
  <2> QED
    BY <2>3, <2>4, <2>5
<1>21. CASE ProcWriteCopy(t)
  <2>1. call'[t] = call[t] /\ file'[t] = file[t] /\ pc[t] = "control"
    BY <1>21 DEF ProcWriteCopy
  <2>2. Goto(t, "setControl") \/ Return(t, EFAULT)
    BY <1>21 DEF ProcWriteCopy
  <2>3. pc'[t] = "done" \/ pc'[t] = "setControl"
    BY <2>2 DEF Return
  <2>4. CASE pc'[t] = "done"
    BY <1>6, <2>1, <2>4
  <2>5. CASE pc'[t] = "setControl"
    BY <1>3, <2>1, <2>5
    DEF AtLabel, AtFile, Checked, DeviceLabels, FirmwareLabels, PlainOps
  <2> QED
    BY <2>3, <2>4, <2>5
<1>22. CASE SeqShow(t) \/ PrintDmaBar(t)
  <2>1. call'[t] = call[t] /\ file'[t] = file[t] /\ call[t].op = "dump" /\ call[t] \in Calls
    BY <1>3, <1>22 DEF SeqShow, PrintDmaBar, AtLabel
  <2>2. pc'[t] = "dump" \/ (pc'[t] = "lock" /\ idx'[t] \in Devices)
    BY <1>22 DEF SeqShow, PrintDmaBar
  <2> QED
    BY <2>1, <2>2 DEF AtLabel, AtFile, Checked, DeviceLabels, FirmwareLabels, StructOps, PlainOps
<1> QED
  BY <1>5, <1>7, <1>8, <1>9, <1>10, <1>11, <1>12, <1>13, <1>14, <1>15, <1>16, <1>17, <1>18,
     <1>19, <1>20, <1>21, <1>22, <1>23, <1>24
  DEF ThreadStep, Step

-----------------------------------------------------------------------------
(* The lock discipline.  A step of t does one of five things: it takes or  *)
(* releases one of the two kinds of mutex, or it leaves them alone and     *)
(* stays on its side of the lock.                                          *)
Others(t) == \A u \in Threads \ {t} : pc'[u] = pc[u] /\ Dev(u)' = Dev(u)

SameControl(t) ==
  controlMutex' = controlMutex /\ (pc'[t] \in ControlLabels <=> pc[t] \in ControlLabels)

SameDevice(t) ==
  /\ devMutex' = devMutex
  /\ pc'[t] \in DeviceLabels <=> pc[t] \in DeviceLabels
  /\ pc[t] \in DeviceLabels => Dev(t)' = Dev(t)

LocksControl(t) ==
  /\ controlMutex = Nobody /\ controlMutex' = t
  /\ pc[t] \notin ControlLabels /\ pc'[t] \in ControlLabels

UnlocksControl(t) ==
  /\ pc[t] \in ControlLabels /\ pc'[t] \notin ControlLabels
  /\ controlMutex' = Nobody

LocksDevice(t) ==
  /\ pc[t] \notin DeviceLabels /\ pc'[t] \in DeviceLabels
  /\ Dev(t) \in Devices /\ Dev(t)' = Dev(t)
  /\ devMutex[Dev(t)] = Nobody /\ devMutex' = [devMutex EXCEPT ![Dev(t)] = t]

UnlocksDevice(t) ==
  /\ pc[t] \in DeviceLabels /\ pc'[t] \notin DeviceLabels
  /\ devMutex' = [devMutex EXCEPT ![Dev(t)] = Nobody]

(* Each of these steps, alone or one of each kind together, keeps the      *)
(* discipline.                                                             *)
LEMMA ControlDiscipline ==
  ASSUME TypeOK, LockDiscipline, NEW t \in Threads, Others(t),
         SameControl(t) \/ LocksControl(t) \/ UnlocksControl(t)
  PROVE  \A u \in Threads : (controlMutex' = u) <=> (pc'[u] \in ControlLabels)
<1>1. \A u \in Threads : (controlMutex = u) <=> (pc[u] \in ControlLabels)
  BY DEF LockDiscipline
<1> QED
  BY <1>1, DeviceFacts DEF Others, SameControl, LocksControl, UnlocksControl

LEMMA DeviceDiscipline ==
  ASSUME TypeOK, LockDiscipline, NEW t \in Threads, Others(t),
         SameDevice(t) \/ LocksDevice(t) \/ UnlocksDevice(t)
  PROVE  \A d \in Devices, u \in Threads :
           (devMutex'[d] = u) <=> (pc'[u] \in DeviceLabels /\ Dev(u)' = d)
<1>1. \A d \in Devices, u \in Threads :
        (devMutex[d] = u) <=> (pc[u] \in DeviceLabels /\ Dev(u) = d)
  BY DEF LockDiscipline
<1>2. \A u \in Threads : u # Nobody
  BY DeviceFacts
<1>3. devMutex \in [Devices -> Threads \cup {Nobody}]
  BY DEF TypeOK
<1> SUFFICES ASSUME NEW d \in Devices, NEW u \in Threads
             PROVE  (devMutex'[d] = u) <=> (pc'[u] \in DeviceLabels /\ Dev(u)' = d)
  OBVIOUS
<1>4. (devMutex[d] = u) <=> (pc[u] \in DeviceLabels /\ Dev(u) = d)
  BY <1>1
<1>5. (devMutex[d] = t) <=> (pc[t] \in DeviceLabels /\ Dev(t) = d)
  BY <1>1
<1>6. u # t => pc'[u] = pc[u] /\ Dev(u)' = Dev(u)
  BY DEF Others
<1>7. CASE SameDevice(t)
  BY <1>4, <1>6, <1>7 DEF SameDevice
<1>8. CASE LocksDevice(t)
  <2>1. devMutex'[d] = IF d = Dev(t) THEN t ELSE devMutex[d]
    BY <1>3, <1>8 DEF LocksDevice
  <2> QED
    BY <1>2, <1>4, <1>5, <1>6, <1>8, <2>1 DEF LocksDevice
<1>9. CASE UnlocksDevice(t)
  <2>1. devMutex'[d] = IF d = Dev(t) THEN Nobody ELSE devMutex[d]
    BY <1>3, <1>9 DEF UnlocksDevice
  <2> QED
    BY <1>2, <1>4, <1>5, <1>6, <1>9, <2>1 DEF UnlocksDevice
<1> QED
  BY <1>7, <1>8, <1>9

(* An unlock and return at the end of a handler. *)
LEMMA FinishUnlocks ==
  ASSUME TypeOK, NEW t \in Threads, pc[t] \in {"body", "fw", "fwAct"}, NEW r, Finish(t, r),
         controlMutex' = controlMutex
  PROVE  SameControl(t) /\ UnlocksDevice(t)
BY DEF TypeOK, Finish, Return, Goto, SameControl, UnlocksDevice, ControlLabels, DeviceLabels,
       FirmwareLabels

(* A step outside of the locked regions. *)
LEMMA UnlockedStep ==
  ASSUME NEW t, pc[t] \notin ControlLabels \cup DeviceLabels,
         pc'[t] \notin ControlLabels \cup DeviceLabels,
         controlMutex' = controlMutex, devMutex' = devMutex
  PROVE  SameControl(t) /\ SameDevice(t)
BY DEF SameControl, SameDevice

(* Every step keeps the lock discipline: all the early returns of the      *)
(* handlers are among the steps.                                           *)
LEMMA LockStep ==
  ASSUME IInv, NEW t \in Threads, ThreadStep(t)
  PROVE  LockDiscipline'
<1> USE DEF IInv
<1>1. Others(t)
  BY OthersUnchanged DEF Others, Dev
<1>2. SUFFICES /\ SameControl(t) \/ LocksControl(t) \/ UnlocksControl(t)
               /\ SameDevice(t) \/ LocksDevice(t) \/ UnlocksDevice(t)
  BY <1>1, <1>2, ControlDiscipline, DeviceDiscipline DEF LockDiscipline
<1>3. AtLabel(t) /\ AtFile(t)
  BY DEF CallState
<1> USE DEF TypeOK, Goto, ControlLabels, DeviceLabels, FirmwareLabels
<1>4. CASE \E c \in Calls : Enter(t, c)
  <2>1. PICK c \in Calls : Enter(t, c)
    BY <1>4
  <2>2. pc'[t] \in {"null", "gate", "release", "ioctl", "control", "dump"}
    BY <2>1, CallFacts DEF Enter, Entry, Ops, GatedOps, StructOps, PlainOps
  <2> QED
    BY <2>1, <2>2, UnlockedStep DEF Enter
<1>5. CASE LockControl(t)
  BY <1>5 DEF LockControl, AfterLock, LocksControl, SameDevice, Dev, locals
<1>6. CASE LockDevice(t)
  <2>1. Dev(t) \in Devices
    BY <1>6, DevFacts DEF LockDevice
  <2> QED
    BY <1>6, <2>1 DEF LockDevice, SameControl, LocksDevice, Dev, locals
<1>7. CASE GateInterrupted(t) \/ DeviceInterrupted(t) \/ ProcWriteInterrupted(t)
  BY <1>7, UnlockedStep DEF GateInterrupted, DeviceInterrupted, ProcWriteInterrupted, Return
<1>8. CASE FirmwareInterrupted(t)
  BY <1>8, FinishUnlocks DEF FirmwareInterrupted
<1>9. CASE NullOperation(t) \/ Exit(t) \/ Install(t) \/ Release(t) \/ SeqShow(t) \/ SeqStop(t)
  <2>1. CASE NullOperation(t) \/ Exit(t)
    BY <2>1, UnlockedStep DEF NullOperation, Exit, Return
  <2>2. CASE Install(t) \/ Release(t)
    BY <2>2, UnlockedStep DEF Install, Release, Return
  <2>3. CASE SeqShow(t) \/ SeqStop(t)
    BY <2>3, UnlockedStep DEF SeqShow, SeqStop, Return
  <2> QED
    BY <1>9, <2>1, <2>2, <2>3
<1>10. CASE PassGate(t)
  <2>1. pc'[t] \notin ControlLabels \cup DeviceLabels
    BY <1>10 DEF PassGate, Return
  <2> QED
    BY <1>10, <2>1 DEF PassGate, UnlocksControl, SameDevice
<1>11. CASE mtcaDummy_read(t)
  <2>1. PICK r : Finish(t, r)
    BY <1>11 DEF mtcaDummy_read
  <2> QED
    BY <1>11, <2>1, FinishUnlocks DEF mtcaDummy_read
<1>12. CASE mtcaDummy_write_rejected(t)
  BY <1>12, FinishUnlocks DEF mtcaDummy_write_rejected
<1>13. CASE mtcaDummy_write(t)
  <2>1. CASE CurBar(t) = 0
    BY <1>13, <2>1 DEF mtcaDummy_write, SameControl, SameDevice, Dev
  <2>2. CASE CurBar(t) # 0
    BY <1>13, <2>2, FinishUnlocks DEF mtcaDummy_write
  <2> QED
    BY <2>1, <2>2
<1>14. CASE CheckTransfer(t)
  BY <1>14, UnlockedStep DEF CheckTransfer, Return
<1>15. CASE ReadWord(t) \/ PrintSystemBar(t)
  BY <1>15 DEF ReadWord, PrintSystemBar, SameControl, SameDevice, Dev
<1>16. CASE ReadWordFails(t)
  <2>1. Finish(t, EIO) \/ Finish(t, EFAULT)
    BY <1>16 DEF ReadWordFails
  <2> QED
    BY <1>16, <2>1, FinishUnlocks DEF ReadWordFails
<1>17. CASE WriteWord(t)
  <2>1. pc'[t] \in {"body", "fw"}
    BY <1>17 DEF WriteWord
  <2> QED
    BY <1>17, <2>1 DEF WriteWord, SameControl, SameDevice, Dev
<1>18. CASE WriteWordFaults(t)
  BY <1>18, FinishUnlocks DEF WriteWordFaults
<1>19. CASE TransferDone(t)
  BY <1>19, FinishUnlocks DEF TransferDone
<1>20. CASE SampleSpiError(t)
  BY <1>20 DEF SampleSpiError, UnlocksControl, SameDevice, Dev
<1>21. CASE FirmwareAction(t)
  <2>1. CASE \E r : Finish(t, r)
    BY <1>21, <2>1, FinishUnlocks DEF FirmwareAction
  <2>2. CASE Goto(t, "body") /\ devMutex' = devMutex
    BY <1>3, <1>21, <2>2 DEF FirmwareAction, SameControl, SameDevice, Dev, AtLabel
  <2> QED
    BY <1>21, <2>1, <2>2 DEF FirmwareAction
<1>22. CASE IoctlCheck(t)
  <2>1. Goto(t, "lock") \/ Return(t, ENOTTY) \/ Return(t, EFAULT)
    BY <1>22 DEF IoctlCheck
  <2>2. pc'[t] = "done" \/ pc'[t] = "lock"
    BY <2>1 DEF Return
  <2> QED
    BY <1>22, <2>2, UnlockedStep DEF IoctlCheck
<1>23. CASE mtcaDummy_ioctl(t)
  <2>1. PICK r : Finish(t, r)
    BY <1>23 DEF mtcaDummy_ioctl
  <2> QED
    BY <1>23, <2>1, FinishUnlocks DEF mtcaDummy_ioctl
<1>27. CASE CopyDmaWord(t)
  BY <1>27, CopyWordFacts DEF SameControl, SameDevice, Dev
<1>28. CASE CopyDmaEnds(t)
  <2>1. PICK r : Finish(t, r)
    BY <1>28, CopyEndFacts
  <2> QED
    BY <1>28, <2>1, CopyEndFacts, FinishUnlocks
<1>24. CASE ProcWriteCopy(t)
  <2>1. Goto(t, "setControl") \/ Return(t, EFAULT)
    BY <1>24 DEF ProcWriteCopy
  <2>2. pc'[t] = "done" \/ pc'[t] = "setControl"
    BY <2>1 DEF Return
  <2> QED
    BY <1>24, <2>2, UnlockedStep DEF ProcWriteCopy
<1>25. CASE SetControl(t)
  BY <1>25 DEF SetControl, UnlocksControl, SameDevice, Return
<1>26. CASE PrintDmaBar(t)
  BY <1>26 DEF PrintDmaBar, SameControl, UnlocksDevice
<1> QED
  BY <1>4, <1>5, <1>6, <1>7, <1>8, <1>9, <1>10, <1>11, <1>12, <1>13, <1>14, <1>15, <1>16,
     <1>17, <1>18, <1>19, <1>20, <1>21, <1>22, <1>23, <1>24, <1>25, <1>26, <1>27, <1>28
  DEF ThreadStep, Signal, Step

-----------------------------------------------------------------------------
(* The count of openings.  Only three actions touch files and counts.      *)
LEMMA FilesUnchanged ==
  ASSUME NEW t \in Threads, ThreadStep(t),
         ~NullOperation(t), ~Install(t), ~Release(t)
  PROVE  file' = file /\ inUse' = inUse
<1>1. CASE (\E c \in Calls : Enter(t, c)) \/ LockControl(t) \/ LockDevice(t) \/ Signal(t)
  BY <1>1 DEF Enter, LockControl, LockDevice, Signal, GateInterrupted, DeviceInterrupted,
              FirmwareInterrupted, ProcWriteInterrupted
<1>2. CASE Step(t)
  BY <1>2 DEF Step, Exit, PassGate, mtcaDummy_read, mtcaDummy_write_rejected,
              mtcaDummy_write, CheckTransfer, ReadWord, ReadWordFails, WriteWord,
              WriteWordFaults, TransferDone, SampleSpiError, FirmwareAction, IoctlCheck,
              mtcaDummy_ioctl, ProcWriteCopy, SetControl, SeqShow, PrintSystemBar,
              PrintDmaBar, SeqStop, CopyDmaWord, CopyDmaEnds
<1> QED
  BY <1>1, <1>2 DEF ThreadStep

LEMMA OpenFilesFinite ==
  ASSUME NEW d
  PROVE  IsFiniteSet(OpenFiles(d)) /\ Cardinality(OpenFiles(d)) \in Nat
BY ThreadsAssumption, FS_Subset, FS_CardinalityType DEF OpenFiles

(* Every step keeps inUse equal to the number of open files. *)
LEMMA InUseStep ==
  ASSUME IInv, NEW t \in Threads, ThreadStep(t)
  PROVE  InUseCountsOpenFiles'
<1> USE DEF IInv
<1>1. CASE ~NullOperation(t) /\ ~Install(t) /\ ~Release(t)
  BY <1>1, FilesUnchanged DEF InUseCountsOpenFiles, OpenFiles
<1> SUFFICES ASSUME NEW d \in Devices, FileOps(d).open,
                    NullOperation(t) \/ Install(t) \/ Release(t)
             PROVE  inUse'[d] = Cardinality(OpenFiles(d)')
  BY <1>1 DEF InUseCountsOpenFiles
<1>2. inUse[d] = Cardinality(OpenFiles(d)) /\ inUse[d] \in Nat
  BY DEF InUseCountsOpenFiles, TypeOK
<1>3. AtLabel(t) /\ AtFile(t)
  BY DEF CallState
<1>4. file \in [Threads -> Devices \cup {NoFile}] /\ inUse \in [Devices -> Nat]
  BY DEF TypeOK
<1>5. CASE NullOperation(t)
  <2>1. \A u \in Threads : file'[u] = d <=> file[u] = d
    BY <1>3, <1>4, <1>5, DeviceFacts DEF NullOperation, AtFile
  <2>2. OpenFiles(d)' = OpenFiles(d) /\ inUse' = inUse
    BY <1>5, <2>1 DEF OpenFiles, NullOperation
  <2> QED
    BY <1>2, <2>2
<1>6. CASE Install(t)
  <2> DEFINE e == call[t].dev
  <2>1. e \in Devices /\ file[t] = NoFile
    BY <1>3, <1>6, CallFacts DEF Install, AtLabel, AtFile
  <2>2. file' = [file EXCEPT ![t] = e] /\ inUse' = [inUse EXCEPT ![e] = @ + 1]
    BY <1>6 DEF Install
  <2> HIDE DEF e
  <2>3. CASE d = e
    <3>1. OpenFiles(d)' = OpenFiles(d) \cup {t} /\ t \notin OpenFiles(d)
      BY <1>4, <2>1, <2>2, <2>3, DeviceFacts DEF OpenFiles
    <3>2. Cardinality(OpenFiles(d) \cup {t}) = Cardinality(OpenFiles(d)) + 1
      BY <3>1, OpenFilesFinite, FS_AddElement
    <3> QED
      BY <1>2, <1>4, <2>2, <2>3, <3>1, <3>2
  <2>4. CASE d # e
    <3>1. OpenFiles(d)' = OpenFiles(d)
      BY <1>4, <2>1, <2>2, <2>4, DeviceFacts DEF OpenFiles
    <3> QED
      BY <1>2, <1>4, <2>2, <2>4, <3>1
  <2> QED
    BY <2>3, <2>4
<1>7. CASE Release(t)
  <2> DEFINE e == file[t]
  <2>1. e \in Devices
    BY <1>3, <1>7 DEF Release, AtLabel, AtFile
  <2>2. file' = [file EXCEPT ![t] = NoFile] /\ inUse' = [inUse EXCEPT ![e] = @ - 1]
    BY <1>7 DEF Release
  <2>3. CASE d = e
    <3>1. OpenFiles(d)' = OpenFiles(d) \ {t} /\ t \in OpenFiles(d)
      BY <1>4, <2>1, <2>2, <2>3, DeviceFacts DEF OpenFiles
    <3>2. Cardinality(OpenFiles(d) \ {t}) = Cardinality(OpenFiles(d)) - 1
      BY <3>1, OpenFilesFinite, FS_RemoveElement
    <3> QED
      BY <1>2, <1>4, <2>2, <2>3, <3>1, <3>2
  <2>4. CASE d # e
    <3>1. OpenFiles(d)' = OpenFiles(d)
      BY <1>4, <2>1, <2>2, <2>4, DeviceFacts DEF OpenFiles
    <3> QED
      BY <1>2, <1>4, <2>2, <2>4, <3>1
  <2> QED
    BY <2>3, <2>4
<1> QED
  BY <1>5, <1>6, <1>7
-----------------------------------------------------------------------------
(* Read-only registers. *)

(* The offset of the word a write handler is at is that of a register. *)
LEMMA CurOffsetAligned ==
  ASSUME IInv, NEW t \in Threads, pc[t] \in DeviceLabels, call[t].op \in {"write", "pwrite"},
         call[t].op = "write" => StructWriteOk(call[t])
  PROVE  CurOffset(t) \in Nat /\ CurOffset(t) % 4 = 0 /\ 4 * (CurOffset(t) \div 4) = CurOffset(t)
<1> USE DEF IInv
<1>1. call[t] \in Calls
  BY DEF CallState, AtLabel, DeviceLabels, FirmwareLabels
<1>2. CASE call[t].op = "write"
  <2>1. call[t].offset \in Nat /\ call[t].offset % 4 = 0
    BY <1>1, <1>2, CallFacts DEF StructWriteOk, RegisterAccessible
  <2> QED
    BY <1>2, <2>1 DEF CurOffset
<1>3. CASE call[t].op = "pwrite"
  <2> DEFINE f == OffsetOf(call[t].pos)
  <2>1. call[t].count \in Nat /\ call[t].pos \in Nat /\ idx[t] \in Nat
    BY <1>1, <1>3, CallFacts DEF TypeOK, PlainOps
  <2>2. TransferAccepted(call[t].count, call[t].pos)
    BY <1>3 DEF CallState, Checked, PlainOps
  <2>3. f \in Nat /\ f % 4 = 0
    BY <2>1, <2>2, TransferBounds, OffsetType
  <2>4. CurOffset(t) = f + 4 * idx[t]
    BY <1>3 DEF CurOffset
  <2> HIDE DEF f
  <2> QED
    BY <2>1, <2>3, <2>4
<1> QED
  BY <1>2, <1>3

(* A step that leaves bar 0 and torn alone, and in which no thread leaves  *)
(* the firmware simulation.                                                *)
LEMMA ReadOnlyFrame ==
  ASSUME ReadOnlyRegisters, systemBar' = systemBar, torn' = torn,
         \A u \in Threads : pc[u] \in FirmwareLabels =>
           pc'[u] \in FirmwareLabels /\ file'[u] = file[u] /\ CurOffset(u)' = CurOffset(u)
  PROVE  ReadOnlyRegisters'
BY DEF ReadOnlyRegisters, BeingWritten

(* A store to a word of bar 0 changes that register only. *)
LEMMA StoreRegister ==
  ASSUME TypeOK, NEW d \in Devices, NEW bar, NEW offset \in Nat, offset % 4 = 0, NEW word,
         Store(d, bar, offset, word)
  PROVE  \A e \in Devices, r \in DOMAIN ReadOnlyValue :
           ~(e = d /\ bar = 0 /\ r = offset) => REG(systemBar'[e], r) = REG(systemBar[e], r)
<1> SUFFICES ASSUME NEW e \in Devices, NEW r \in {0, 4, 60}, ~(e = d /\ bar = 0 /\ r = offset)
             PROVE  systemBar'[e][r \div 4] = systemBar[e][r \div 4]
  BY ReadOnlyValueType DEF REG
<1>1. systemBar \in [Devices -> [0 .. 31 -> Word]]
  BY DEF TypeOK, SystemBar
<1>2. CASE bar # 0
  BY <1>2 DEF Store
<1>3. CASE bar = 0
  <2>1. systemBar' = [systemBar EXCEPT ![d] = [systemBar[d] EXCEPT ![offset \div 4] = word]]
    BY <1>3 DEF Store
  <2>2. CASE e # d
    BY <1>1, <2>1, <2>2
  <2>3. CASE e = d
    <3>1. systemBar'[e] = [systemBar[d] EXCEPT ![offset \div 4] = word]
      BY <1>1, <2>1, <2>3
    <3>2. r \div 4 # offset \div 4 /\ r \div 4 \in 0 .. 31
      BY <1>3, <2>3
    <3> QED
      BY <1>1, <2>3, <3>1, <3>2
  <2> QED
    BY <2>2, <2>3
<1> QED
  BY <1>2, <1>3

(* The steps that neither touch bar 0 nor belong to the firmware simulation. *)
LEMMA OutsideFirmware ==
  ASSUME NEW t \in Threads, ThreadStep(t),
         ~LockControl(t), ~SampleSpiError(t), ~FirmwareInterrupted(t), ~FirmwareAction(t),
         ~mtcaDummy_write(t), ~WriteWord(t), ~WriteWordFaults(t)
  PROVE  systemBar' = systemBar /\ torn' = torn /\ pc[t] \notin FirmwareLabels
<1> USE DEF FirmwareLabels, bars
<1>1. CASE (\E c \in Calls : Enter(t, c)) \/ LockDevice(t) \/ Signal(t)
  BY <1>1 DEF Enter, LockDevice, Signal, GateInterrupted, DeviceInterrupted, ProcWriteInterrupted
<1>2. CASE Step(t)
  BY <1>2 DEF Step, NullOperation, Exit, PassGate, Install, Release, mtcaDummy_read,
              mtcaDummy_write_rejected, CheckTransfer, ReadWord, ReadWordFails, TransferDone,
              IoctlCheck, mtcaDummy_ioctl, ProcWriteCopy, SetControl, SeqShow,
              PrintSystemBar, PrintDmaBar, SeqStop, CopyDmaWord, CopyDmaEnds, InDmaCopy
<1> QED
  BY <1>1, <1>2 DEF ThreadStep

(* A register of another device, or another register, keeps what excuses   *)
(* it; the register that is written gets an excuse.                        *)
LEMMA ReadOnlyExcused ==
  ASSUME ReadOnlyRegisters, NEW t \in Threads,
         \A u \in Threads \ {t} : pc[u] \in FirmwareLabels =>
           pc'[u] \in FirmwareLabels /\ file'[u] = file[u] /\ CurOffset(u)' = CurOffset(u),
         pc[t] \notin FirmwareLabels,
         NEW d, NEW r \in DOMAIN ReadOnlyValue, d \in Devices,
         REG(systemBar'[d], r) = REG(systemBar[d], r), torn[d] \subseteq torn'[d]
  PROVE  \/ REG(systemBar'[d], r) = ReadOnlyValue[r]
         \/ r \in torn'[d]
         \/ BeingWritten(d, r)'
BY DEF ReadOnlyRegisters, BeingWritten

(* Every step keeps the read-only registers, or records why not. *)
LEMMA ReadOnlyStep ==
  ASSUME IInv, NEW t \in Threads, ThreadStep(t)
  PROVE  ReadOnlyRegisters'
<1> USE DEF IInv
<1>1. \A u \in Threads \ {t} :
        pc'[u] = pc[u] /\ file'[u] = file[u] /\ CurOffset(u)' = CurOffset(u)
  BY OthersUnchanged DEF CurOffset
<1>2. AtLabel(t) /\ AtFile(t) /\ Checked(t)
  BY DEF CallState
<1>3. torn \in [Devices -> SUBSET Nat] /\ pc \in [Threads -> Labels]
  BY DEF TypeOK
<1>4. CASE /\ ~LockControl(t) /\ ~SampleSpiError(t) /\ ~FirmwareInterrupted(t)
           /\ ~FirmwareAction(t) /\ ~mtcaDummy_write(t) /\ ~WriteWord(t)
           /\ ~WriteWordFaults(t)
  <2>1. systemBar' = systemBar /\ torn' = torn /\ pc[t] \notin FirmwareLabels
    BY <1>4, OutsideFirmware
  <2> QED
    BY <1>1, <2>1, ReadOnlyFrame
<1>5. CASE LockControl(t)
  <2>1. systemBar' = systemBar /\ torn' = torn /\ file' = file /\ CurOffset(t)' = CurOffset(t)
    BY <1>5 DEF LockControl, bars, locals, CurOffset
  <2>2. pc[t] \in FirmwareLabels => pc'[t] \in FirmwareLabels
    BY <1>3, <1>5 DEF LockControl, Goto, AfterLock, FirmwareLabels
  <2> QED
    BY <1>1, <2>1, <2>2, ReadOnlyFrame
<1>6. CASE SampleSpiError(t)
  <2>1. systemBar' = systemBar /\ torn' = torn /\ file' = file /\ CurOffset(t)' = CurOffset(t)
    BY <1>6 DEF SampleSpiError, bars, CurOffset
  <2>2. pc'[t] \in FirmwareLabels
    BY <1>3, <1>6 DEF SampleSpiError, Goto, FirmwareLabels
  <2> QED
    BY <1>1, <2>1, <2>2, ReadOnlyFrame
<1>7. CASE mtcaDummy_write(t) \/ WriteWord(t) \/ WriteWordFaults(t)
  <2> DEFINE o == CurOffset(t)
             e == file[t]
  <2>1. pc[t] = "body" /\ call[t].op \in {"write", "pwrite"} /\ Dev(t) = e
    BY <1>7 DEF mtcaDummy_write, WriteWord, WriteWordFaults, Dev
  <2>2. pc[t] \in DeviceLabels /\ pc[t] \notin FirmwareLabels
    BY <2>1 DEF DeviceLabels, FirmwareLabels
  <2>3. e \in Devices
    BY <2>1, <2>2, DevFacts
  <2>4. call[t].op = "write" => StructWriteOk(call[t])
    BY <1>7 DEF mtcaDummy_write, WriteWord, WriteWordFaults
  <2>5. o \in Nat /\ o % 4 = 0
    BY <2>1, <2>2, <2>4, CurOffsetAligned
  <2>6. PICK word : Store(e, CurBar(t), o, word)
    BY <1>7, <2>1 DEF mtcaDummy_write, WriteWord, WriteWordFaults
  <2>7. CurBar(t) = 0 =>
          o \in torn'[e] \/ (pc'[t] \in FirmwareLabels /\ file'[t] = e /\ CurOffset(t)' = o)
    <3>1. CASE mtcaDummy_write(t)
      BY <1>3, <3>1 DEF mtcaDummy_write, Goto, FirmwareLabels, CurOffset
    <3>2. CASE WriteWord(t)
      BY <1>3, <3>2 DEF WriteWord, Goto, FirmwareLabels, CurOffset
    <3>3. CASE WriteWordFaults(t)
      BY <1>3, <2>1, <2>3, <3>3 DEF WriteWordFaults
    <3> QED
      BY <1>7, <3>1, <3>2, <3>3
  <2>8. \A d \in Devices : torn[d] \subseteq torn'[d]
    BY <1>3, <1>7, <2>1, <2>3 DEF mtcaDummy_write, WriteWord, WriteWordFaults
  <2> HIDE DEF o, e
  <2>9. SUFFICES ASSUME NEW d \in Devices, NEW r \in DOMAIN ReadOnlyValue
                 PROVE  \/ REG(systemBar'[d], r) = ReadOnlyValue[r]
                        \/ r \in torn'[d]
                        \/ BeingWritten(d, r)'
    BY DEF ReadOnlyRegisters
  <2>10. CASE d = e /\ CurBar(t) = 0 /\ r = o
    BY <2>7, <2>10 DEF BeingWritten
  <2>11. CASE ~(d = e /\ CurBar(t) = 0 /\ r = o)
    <3>1. REG(systemBar'[d], r) = REG(systemBar[d], r)
      BY <2>3, <2>5, <2>6, <2>11, StoreRegister
    <3> QED
      BY <1>1, <2>2, <2>8, <3>1, ReadOnlyExcused
  <2> QED
    BY <2>10, <2>11
<1>8. CASE FirmwareInterrupted(t) \/ FirmwareAction(t)
  <2> DEFINE o == CurOffset(t)
             e == file[t]
  <2>1. pc[t] \in FirmwareLabels
    BY <1>8 DEF FirmwareInterrupted, FirmwareAction, FirmwareLabels
  <2>2. Dev(t) = e /\ e \in Devices
    BY <2>1, DevFacts DEF DeviceLabels
  <2>3. call[t].op \in {"write", "pwrite"} /\ (call[t].op = "write" => StructWriteOk(call[t]))
    BY <1>2, <2>1 DEF AtLabel, Checked
  <2>4. o \in Nat /\ o % 4 = 0
    BY <2>1, <2>3, CurOffsetAligned DEF DeviceLabels
  <2>5. \A d \in Devices, r \in DOMAIN ReadOnlyValue :
          BeingWritten(d, r) => BeingWritten(d, r)' \/ (d = e /\ r = o)
    BY <1>1 DEF BeingWritten
  <2>6. systemBar \in [Devices -> SystemBar] /\ spiFail \in [Threads -> BOOLEAN]
    BY DEF TypeOK
  <2>7. SUFFICES ASSUME NEW d \in Devices, NEW r \in DOMAIN ReadOnlyValue
                 PROVE  \/ REG(systemBar'[d], r) = ReadOnlyValue[r]
                        \/ r \in torn'[d]
                        \/ BeingWritten(d, r)'
    BY DEF ReadOnlyRegisters
  <2>8. \/ REG(systemBar[d], r) = ReadOnlyValue[r]
        \/ r \in torn[d]
        \/ BeingWritten(d, r)
    BY DEF ReadOnlyRegisters
  <2>9. CASE FirmwareInterrupted(t)
    <3>1. systemBar' = systemBar /\ torn' = [torn EXCEPT ![e] = @ \cup {o}]
      BY <2>2, <2>9 DEF FirmwareInterrupted, bars
    <3> HIDE DEF o, e
    <3> QED
      BY <1>3, <2>2, <2>5, <2>8, <3>1
  <2>10. CASE FirmwareAction(t)
    <3> DEFINE S == mtcadummy_performActionOnWrite(systemBar[e], o, spiFail[t])
               R == Reaction(systemBar[e], o, spiFail[t])
    <3>1. systemBar' = [systemBar EXCEPT ![e] = S] /\ torn' = [torn EXCEPT ![e] = @ \ {o}]
      BY <2>2, <2>10 DEF FirmwareAction
    <3>2. CASE d # e
      <4>1. systemBar'[d] = systemBar[d] /\ torn'[d] = torn[d]
        <5> HIDE DEF S, e, o
        <5> QED BY <1>3, <2>2, <2>6, <3>1, <3>2
      <4> QED
        BY <2>5, <2>8, <3>2, <4>1
    <3>3. CASE d = e
      <4>1. systemBar'[d] = S /\ torn'[d] = torn[d] \ {o}
        <5> HIDE DEF S, e, o
        <5> QED BY <1>3, <2>2, <2>6, <3>1, <3>3
      <4>2. S = SetRegs(systemBar[e], R)
        BY DEF mtcadummy_performActionOnWrite
      <4>3. r \in {0, 4, 60}
        BY ReadOnlyValueType
      <4>4. r \div 4 \in DOMAIN systemBar[e] /\ 4 * (r \div 4) = r
        BY <2>2, <2>6, <4>3 DEF SystemBar
      <4>5. REG(S, r) = IF r \in DOMAIN R THEN R[r] ELSE REG(systemBar[e], r)
        <5> HIDE DEF R, S, e
        <5> QED BY <4>2, <4>4 DEF REG, SetRegs
      <4>6. /\ r \in DOMAIN R => r = o /\ R[r] = ReadOnlyValue[r]
            /\ o \in DOMAIN ReadOnlyValue => o \in DOMAIN R
        BY <2>2, <2>6, ReactionValues
      <4>7. CASE r = o
        <5> HIDE DEF R, S, e, o
        <5> QED BY <4>1, <4>5, <4>6, <4>7
      <4>8. CASE r # o
        <5> HIDE DEF R, S, e, o
        <5> QED BY <2>5, <2>8, <3>3, <4>1, <4>5, <4>6, <4>8
      <4> QED
        BY <4>7, <4>8
    <3> QED
      BY <3>2, <3>3
  <2> QED
    BY <1>8, <2>9, <2>10
<1> QED
  BY <1>4, <1>5, <1>6, <1>7, <1>8
-----------------------------------------------------------------------------
(* The inductive invariant holds initially. *)
LEMMA InitIInv == Init => IInv
<1> SUFFICES ASSUME Init
             PROVE  IInv
  OBVIOUS
<1>1. TypeOK
  <2>1. dmaBar \in [Devices -> DmaBar]
    BY HeaderWords DEF Init, DmaBar
  <2>2. systemBar \in [Devices -> SystemBar]
    BY InitialBarType DEF Init
  <2>3. control \in [Options -> BOOLEAN] /\ spiFail \in [Threads -> BOOLEAN]
    BY Zenon DEF Init
  <2>4. call \in [Threads -> Calls \cup {NoCall}]
    BY DEF Init
  <2>5. /\ seen \in [Threads -> SUBSET [Options -> BOOLEAN]]
        /\ torn \in [Devices -> SUBSET Nat]
    BY DEF Init
  <2>6. pc \in [Threads -> Labels] /\ file \in [Threads -> Devices \cup {NoFile}]
    BY DEF Init, Labels
  <2>7. idx \in [Threads -> Nat] /\ ret \in [Threads -> Int] /\ inUse \in [Devices -> Nat]
    BY DEF Init
  <2>8. /\ controlMutex \in Threads \cup {Nobody}
        /\ devMutex \in [Devices -> Threads \cup {Nobody}]
    BY DEF Init
  <2> QED
    BY <2>1, <2>2, <2>3, <2>4, <2>5, <2>6, <2>7, <2>8 DEF TypeOK
<1>2. CallState
  BY NoCallFacts DEF Init, CallState, AtLabel, AtFile, Checked, DeviceLabels, FirmwareLabels,
                     Ops, GatedOps, StructOps, PlainOps
<1>3. LockDiscipline
  BY DeviceFacts DEF Init, LockDiscipline, ControlLabels, DeviceLabels, FirmwareLabels
<1>4. InUseCountsOpenFiles
  <2> SUFFICES ASSUME NEW d \in Devices
               PROVE  inUse[d] = Cardinality(OpenFiles(d))
    BY DEF InUseCountsOpenFiles
  <2>1. OpenFiles(d) = {}
    BY DeviceFacts DEF Init, OpenFiles
  <2> QED
    BY <2>1, FS_EmptySet DEF Init
<1>5. ReadOnlyRegisters
  <2> SUFFICES ASSUME NEW d \in Devices, NEW r \in DOMAIN ReadOnlyValue
               PROVE  REG(systemBar[d], r) = ReadOnlyValue[r]
    BY DEF ReadOnlyRegisters
  <2>1. r \in {0, 4, 60}
    BY ReadOnlyValueType
  <2>2. r \div 4 \in 0 .. 31 /\ 4 * (r \div 4) = r
    BY <2>1
  <2>3. mtcadummy_initialiseSystemBar[r \div 4] = ReadOnlyValue[r]
    BY <2>1, <2>2 DEF mtcadummy_initialiseSystemBar, MTCADUMMY_WORD_CLK_RST, MTCADUMMY_BROKEN_WRITE
  <2> QED
    BY <2>3 DEF Init, REG
<1> QED
  BY <1>1, <1>2, <1>3, <1>4, <1>5 DEF IInv

LEMMA StutterIInv ==
  ASSUME IInv, UNCHANGED vars
  PROVE  IInv'
<1> USE DEF IInv, vars
<1>1. TypeOK'
  BY DEF TypeOK
<1>2. CallState'
  BY CallStateFrame DEF CallState
<1>3. LockDiscipline'
  BY DEF LockDiscipline, Dev
<1>4. InUseCountsOpenFiles'
  BY DEF InUseCountsOpenFiles, OpenFiles
<1>5. ReadOnlyRegisters'
  BY DEF ReadOnlyRegisters, BeingWritten, CurOffset
<1> QED
  BY <1>1, <1>2, <1>3, <1>4, <1>5

LEMMA NextIInv ==
  ASSUME IInv, [Next]_vars
  PROVE  IInv'
<1>1. CASE UNCHANGED vars
  BY <1>1, StutterIInv
<1>2. CASE Next
  <2>1. PICK t \in Threads : ThreadStep(t)
    BY <1>2 DEF Next
  <2> QED
    BY <2>1, TypeStep, CallStateStep, LockStep, InUseStep, ReadOnlyStep DEF IInv
<1> QED
  BY <1>1, <1>2

(* IInv is inductive: every reachable state of the driver satisfies it. *)
THEOREM Inductive == Spec => []IInv
<1>1. Init => IInv
  BY InitIInv
<1>2. IInv /\ [Next]_vars => IInv'
  BY NextIInv
<1> QED
  BY <1>1, <1>2, PTL DEF Spec
-----------------------------------------------------------------------------
(* The handlers keep the types of all variables: in particular mtcaDummy_  *)
(* release never takes inUse below 0.                                      *)
THEOREM TypeCorrect == Spec => []TypeOK
BY Inductive, PTL DEF IInv

(* Every return of every handler leaves its mutexes unlocked, and no       *)
(* thread unlocks what another has locked.                                 *)
THEOREM Locking == Spec => []LockDiscipline
BY Inductive, PTL DEF IInv

(* inUse, changed without a mutex's help by open and release, counts the   *)
(* open files of every device that has the handlers.                       *)
THEOREM Counting == Spec => []InUseCountsOpenFiles
BY Inductive, PTL DEF IInv

(* A register that mtcadummy_performActionOnWrite sets back differs from   *)
(* its value only while a write to it runs or after one that was cut off.  *)
THEOREM ReadOnly == Spec => []ReadOnlyRegisters
BY Inductive, PTL DEF IInv

(* The i-th of the words an accepted request moves is a word of the bar. *)
LEMMA WordInside ==
  ASSUME NEW f \in Nat, NEW n \in Nat, NEW s \in Nat, NEW i \in Nat,
         f % 4 = 0, s % 4 = 0, f + n <= s, i < n \div 4
  PROVE  (f + 4 * i) \div 4 \in 0 .. (s \div 4) - 1
OBVIOUS

(* What the check of the request has established is enough for every word. *)
LEMMA InsideBar == IInv => TransferInsideBar
<1> SUFFICES ASSUME IInv, NEW t \in Threads, pc[t] \in DeviceLabels,
                    call[t].op \in PlainOps, idx[t] < WordsToTransfer(t)
             PROVE  CurOffset(t) \div 4 \in DOMAIN BarContent(Dev(t), CurBar(t))
  BY DEF TransferInsideBar
<1> USE DEF IInv
<1> DEFINE c == call[t]
           n == nBytesToTransfer(c.count, c.pos)
           f == OffsetOf(c.pos)
           s == BarSize(BarOf(c.pos))
           w == CurOffset(t) \div 4
<1>1. c \in Calls
  BY DEF CallState, AtLabel, DeviceLabels, FirmwareLabels
<1>2. c.count \in Nat /\ c.pos \in Nat /\ idx[t] \in Nat
  BY <1>1, CallFacts DEF TypeOK
<1>3. TransferAccepted(c.count, c.pos)
  BY DEF CallState, Checked
<1>4. n \in Nat /\ n % 4 = 0 /\ f + n <= s /\ f \in Nat /\ f % 4 = 0
  BY <1>2, <1>3, TransferBounds, OffsetType
<1>5. CurOffset(t) = f + 4 * idx[t] /\ CurBar(t) = BarOf(c.pos)
  BY DEF CurOffset, CurBar, PlainOps
<1>6. idx[t] < n \div 4
  BY DEF WordsToTransfer
<1>7. s \in Nat /\ s % 4 = 0
  BY BarSizeType
<1>8. w \in 0 .. (s \div 4) - 1
  BY <1>2, <1>4, <1>5, <1>6, <1>7, WordInside
<1>9. Dev(t) \in Devices
  BY DevFacts
<1>10. DOMAIN systemBar[Dev(t)] = 0 .. 31
       /\ DOMAIN dmaBar[Dev(t)] = 0 .. (MTCADUMMY_DMA_SIZE \div 4) - 1
  <2>1. systemBar[Dev(t)] \in SystemBar /\ dmaBar[Dev(t)] \in DmaBar
    BY <1>9 DEF TypeOK
  <2>2. ASSUME NEW m \in DmaBar PROVE DOMAIN m = 0 .. (MTCADUMMY_DMA_SIZE \div 4) - 1
    BY DEF DmaBar
  <2>3. ASSUME NEW m \in SystemBar PROVE DOMAIN m = 0 .. 31
    BY DEF SystemBar
  <2> QED
    BY <2>1, <2>2, <2>3
<1>11. CASE CurBar(t) = 0
  <2>1. s = 128
    BY <1>5, <1>11 DEF BarSize
  <2>2. w \in 0 .. 31
    <3> HIDE DEF w, s
    <3> QED BY <1>8, <2>1
  <2> QED
    BY <1>10, <1>11, <2>2 DEF BarContent
<1>12. CASE CurBar(t) # 0
  <2>1. s = MTCADUMMY_DMA_SIZE
    BY <1>3, <1>5, <1>12 DEF BarSize, TransferAccepted
  <2> QED
    BY <1>8, <1>10, <1>12, <2>1 DEF BarContent
<1> QED
  BY <1>11, <1>12

(* No access of mtcaDummy_read_no_struct or mtcaDummy_write_no_struct      *)
(* leaves its bar, for any count and file position.                        *)
THEOREM Bounded == Spec => []TransferInsideBar
BY Inductive, InsideBar, PTL

(* The steps that change a bar are those of the write handlers, which hold *)
(* the devMutex of the device and change no other device.                  *)
LEMMA BarStep ==
  ASSUME IInv, NEW t \in Threads, ThreadStep(t), NEW d \in Devices,
         systemBar'[d] # systemBar[d] \/ dmaBar'[d] # dmaBar[d]
  PROVE  /\ devMutex[d] = t /\ Dev(t) = d /\ call[t].op \in {"write", "pwrite"}
         /\ pc'[t] # pc[t] \/ idx'[t] # idx[t]
<1> USE DEF IInv
<1>1. mtcaDummy_write(t) \/ WriteWord(t) \/ WriteWordFaults(t) \/ FirmwareAction(t)
  <2>1. CASE (\E c \in Calls : Enter(t, c)) \/ LockControl(t) \/ LockDevice(t) \/ Signal(t)
    BY <2>1 DEF Enter, LockControl, LockDevice, Signal, GateInterrupted, DeviceInterrupted,
                FirmwareInterrupted, ProcWriteInterrupted, bars
  <2>2. CASE Step(t)
    BY <2>2 DEF Step, NullOperation, Exit, PassGate, Install, Release, mtcaDummy_read,
                mtcaDummy_write_rejected, CheckTransfer, ReadWord, ReadWordFails,
                TransferDone, SampleSpiError, IoctlCheck, mtcaDummy_ioctl, ProcWriteCopy,
                SetControl, SeqShow, PrintSystemBar, PrintDmaBar, SeqStop, CopyDmaWord,
                CopyDmaEnds, bars
  <2> QED
    BY <2>1, <2>2 DEF ThreadStep
<1>2. pc[t] \in DeviceLabels
  BY <1>1 DEF mtcaDummy_write, WriteWord, WriteWordFaults, FirmwareAction, DeviceLabels,
              FirmwareLabels
<1>3. Dev(t) \in Devices /\ devMutex[Dev(t)] = t
  BY <1>2, DevFacts DEF LockDiscipline
<1>4. d = Dev(t)
  <2>1. systemBar \in [Devices -> SystemBar] /\ dmaBar \in [Devices -> DmaBar]
    BY DEF TypeOK
  <2>2. CASE FirmwareAction(t)
    BY <1>3, <2>1, <2>2 DEF FirmwareAction
  <2>3. CASE \E bar, offset, word : Store(Dev(t), bar, offset, word)
    BY <1>3, <2>1, <2>3 DEF Store
  <2> QED
    BY <1>1, <2>2, <2>3 DEF mtcaDummy_write, WriteWord, WriteWordFaults
<1>5. pc'[t] # pc[t] \/ idx'[t] # idx[t]
  <2>1. pc \in [Threads -> Labels] /\ idx \in [Threads -> Nat]
    BY DEF TypeOK
  <2>2. CASE mtcaDummy_write(t) \/ WriteWordFaults(t)
    BY <2>1, <2>2 DEF mtcaDummy_write, WriteWordFaults, Finish, Return, Goto
  <2>3. CASE WriteWord(t)
    BY <2>1, <2>3 DEF WriteWord, Goto
  <2>4. CASE FirmwareAction(t)
    BY <2>1, <2>4 DEF FirmwareAction, Finish, Return, Goto
  <2> QED
    BY <1>1, <2>2, <2>3, <2>4
<1>6. call[t].op \in {"write", "pwrite"}
  BY <1>1 DEF mtcaDummy_write, WriteWord, WriteWordFaults, FirmwareAction, CallState, AtLabel,
              FirmwareLabels
<1> QED
  BY <1>3, <1>4, <1>5, <1>6

(* Bars change under their devMutex only. *)
THEOREM Exclusion == Spec => BarsOnlyUnderMutex
<1> DEFINE A == \A d \in Devices :
                  <<systemBar[d], dmaBar[d]>>' # <<systemBar[d], dmaBar[d]>> =>
                    \E t \in Threads : /\ devMutex[d] = t
                                       /\ <<pc[t], idx[t]>>' # <<pc[t], idx[t]>>
<1>1. IInv /\ [Next]_vars => [A]_vars
  <2> SUFFICES ASSUME IInv, Next, NEW d \in Devices,
                      systemBar'[d] # systemBar[d] \/ dmaBar'[d] # dmaBar[d]
               PROVE  \E t \in Threads : /\ devMutex[d] = t
                                         /\ pc'[t] # pc[t] \/ idx'[t] # idx[t]
    OBVIOUS
  <2>1. PICK t \in Threads : ThreadStep(t)
    BY DEF Next
  <2> QED
    BY <2>1, BarStep
<1> QED
  BY <1>1, Inductive, PTL DEF Spec, BarsOnlyUnderMutex
=============================================================================
