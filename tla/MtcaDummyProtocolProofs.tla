--------------------- MODULE MtcaDummyProtocolProofs ---------------------
(***************************************************************************)
(* Proofs of the protocols between the firmware simulation and clients     *)
(* that keep to the registers meant for them: clock resets, samplings and  *)
(* the SPI handshake, for any number of such clients on any devices.       *)
(***************************************************************************)
EXTENDS MtcaDummyCallProofs

(* A byte offset of a register of bar 0. *)
Register == {r \in 0 .. 4 * MTCADUMMY_N_REGISTERS - 1 : r % 4 = 0}

(* What a step does to a device, as far as the protocols can tell.  It     *)
(* leaves the bars alone, and a register that is no longer being written   *)
(* is marked;                                                              *)
Quiet(d) ==
  /\ systemBar'[d] = systemBar[d] /\ dmaBar'[d] = dmaBar[d]
  /\ torn[d] \subseteq torn'[d]
  /\ \A r \in Register : BeingWritten(d, r) => BeingWritten(d, r)' \/ r \in torn'[d]

(* it stores a word for the call c, to which the firmware has to react if  *)
(* the word belongs to bar 0;                                              *)
Stored(d, c, bar, o) ==
  /\ c \in Calls /\ Touches(c, bar, o) /\ bar \in {0, 2} /\ o \in BarBytes(bar)
  /\ torn[d] \subseteq torn'[d]
  /\ \A r \in Register : BeingWritten(d, r) => BeingWritten(d, r)'
  /\ bar # 0 => systemBar'[d] = systemBar[d]
  /\ bar = 0 =>
       /\ dmaBar'[d] = dmaBar[d]
       /\ o \in Register
       /\ \A r \in Register \ {o} : REG(systemBar'[d], r) = REG(systemBar[d], r)
       /\ c.op = "write" => REG(systemBar'[d], o) = c.data
       /\ o \in torn'[d] \/ BeingWritten(d, o)'

(* or the firmware reacts to the store at o. *)
Reacted(d, o, fail) ==
  /\ systemBar'[d] = mtcadummy_performActionOnWrite(systemBar[d], o, fail)
  /\ dmaBar'[d] = SampledDma(systemBar[d], dmaBar[d], o)
  /\ torn'[d] = torn[d] \ {o}
  /\ \A r \in Register : BeingWritten(d, r) => BeingWritten(d, r)' \/ r = o

DeviceStep(t, d) ==
  \/ Quiet(d)
  \/ \E bar, o : Stored(d, call[t], bar, o)
  \/ \E o : Reacted(d, o, spiFail[t])

(* The word a write handler stores is one its call asks for. *)
LEMMA StoreTarget ==
  ASSUME IInv, NEW t \in Threads, pc[t] = "body", call[t].op \in {"write", "pwrite"},
         call[t].op = "write" => StructWriteOk(call[t]),
         call[t].op = "pwrite" => idx[t] < WordsToTransfer(t)
  PROVE  /\ call[t] \in Calls /\ CurBar(t) \in {0, 2}
         /\ Touches(call[t], CurBar(t), CurOffset(t))
         /\ CurOffset(t) \in BarBytes(CurBar(t)) /\ CurOffset(t) % 4 = 0
<1> USE DEF IInv
<1>1. call[t] \in Calls
  BY DEF CallState, AtLabel
<1>2. CurOffset(t) \in Nat /\ CurOffset(t) % 4 = 0
  BY CurOffsetAligned DEF DeviceLabels
<1>3. CASE call[t].op = "write"
  <2>1. call[t].bar \in {0, 2} /\ CurOffset(t) < BarSize(call[t].bar)
    BY <1>3 DEF StructWriteOk, RegisterAccessible, CurOffset
  <2>2. CurOffset(t) \in BarBytes(call[t].bar)
    BY <1>2, <2>1, BarSizeType DEF BarBytes
  <2> QED
    BY <1>1, <1>2, <1>3, <2>1, <2>2 DEF Touches, CurBar, CurOffset
<1>4. CASE call[t].op = "pwrite"
  <2> DEFINE c == call[t]
             n == nBytesToTransfer(c.count, c.pos)
             f == OffsetOf(c.pos)
             s == BarSize(BarOf(c.pos))
  <2>1. c.count \in Nat /\ c.pos \in Nat /\ idx[t] \in Nat /\ TransferAccepted(c.count, c.pos)
    BY <1>1, <1>4, CallFacts DEF TypeOK, CallState, Checked, PlainOps, DeviceLabels
  <2>2. n \in Nat /\ n <= c.count /\ f + n <= s /\ f \in Nat /\ s \in Nat
    BY <2>1, TransferBounds, OffsetType, BarSizeType
  <2>3. idx[t] < n \div 4 /\ CurOffset(t) = f + 4 * idx[t] /\ CurBar(t) = BarOf(c.pos)
    BY <1>4 DEF WordsToTransfer, CurOffset, CurBar
  <2>4. CurOffset(t) \in f .. f + n - 1
    <3> HIDE DEF n, f
    <3> QED BY <2>1, <2>2, <2>3
  <2>5. CurOffset(t) \in f .. f + c.count - 1 /\ CurOffset(t) \in 0 .. s - 1
    <3> HIDE DEF n, f, s
    <3> QED BY <2>1, <2>2, <2>4
  <2>6. BarOf(c.pos) \in {0, 2}
    BY <2>1 DEF TransferAccepted
  <2> QED
    BY <1>1, <1>2, <1>4, <2>3, <2>5, <2>6 DEF Touches, BarBytes
<1> QED
  BY <1>3, <1>4

(* A store to bar 0 puts the word into one register and leaves the others  *)
(* alone, and a store to one bar leaves the other alone.                   *)
LEMMA StoreEffect ==
  ASSUME TypeOK, NEW e \in Devices, NEW bar, NEW o \in Nat, o % 4 = 0, NEW word,
         Store(e, bar, o, word), o \in BarBytes(bar)
  PROVE  /\ \A d \in Devices \ {e} : systemBar'[d] = systemBar[d] /\ dmaBar'[d] = dmaBar[d]
         /\ bar # 0 => systemBar'[e] = systemBar[e]
         /\ bar = 0 =>
              /\ dmaBar'[e] = dmaBar[e]
              /\ o \in Register
              /\ REG(systemBar'[e], o) = word
              /\ \A r \in Register \ {o} : REG(systemBar'[e], r) = REG(systemBar[e], r)
<1> DEFINE S == [systemBar[e] EXCEPT ![o \div 4] = word]
           M == [dmaBar[e] EXCEPT ![o \div 4] = word]
<1>1. systemBar \in [Devices -> [0 .. 31 -> Word]] /\ DOMAIN dmaBar = Devices
  BY DEF TypeOK, SystemBar, MTCADUMMY_N_REGISTERS
<1>2. CASE bar # 0
  <2>1. systemBar' = systemBar /\ dmaBar' = [dmaBar EXCEPT ![e] = M]
    BY <1>2 DEF Store
  <2> HIDE DEF M
  <2> QED
    BY <1>1, <1>2, <2>1
<1>3. CASE bar = 0
  <2>1. dmaBar' = dmaBar /\ systemBar' = [systemBar EXCEPT ![e] = S]
    BY <1>3 DEF Store
  <2>2. systemBar'[e] = S /\ \A d \in Devices \ {e} : systemBar'[d] = systemBar[d]
    <3> HIDE DEF S
    <3> QED BY <1>1, <2>1
  <2>3. o \in 0 .. 127 /\ o \div 4 \in 0 .. 31 /\ o \in Register
    BY <1>3 DEF BarBytes, BarSize, MTCADUMMY_N_REGISTERS, Register
  <2>4. \A r \in Register \ {o} : r \div 4 \in 0 .. 31 /\ r \div 4 # o \div 4
    BY DEF Register, MTCADUMMY_N_REGISTERS
  <2>5. systemBar[e] \in [0 .. 31 -> Word]
    BY <1>1
  <2>6. S[o \div 4] = word /\ \A r \in Register \ {o} : S[r \div 4] = systemBar[e][r \div 4]
    BY <2>3, <2>4, <2>5
  <2> QED
    BY <1>3, <2>1, <2>2, <2>3, <2>6 DEF REG
<1> QED
  BY <1>2, <1>3

(* The steps that leave bar 2 alone. *)
LEMMA DmaStays ==
  ASSUME NEW t \in Threads, ThreadStep(t),
         ~FirmwareAction(t), ~mtcaDummy_write(t), ~WriteWord(t), ~WriteWordFaults(t)
  PROVE  dmaBar' = dmaBar
<1> USE DEF bars
<1>1. CASE (\E c \in Calls : Enter(t, c)) \/ LockControl(t) \/ LockDevice(t) \/ Signal(t)
  BY <1>1 DEF Enter, LockControl, LockDevice, Signal, GateInterrupted, DeviceInterrupted,
              FirmwareInterrupted, ProcWriteInterrupted
<1>2. CASE Step(t)
  BY <1>2 DEF Step, NullOperation, Exit, PassGate, Install, Release, mtcaDummy_read,
              mtcaDummy_write_rejected, CheckTransfer, ReadWord, ReadWordFails, TransferDone,
              SampleSpiError, IoctlCheck, mtcaDummy_ioctl, ProcWriteCopy, SetControl, SeqShow,
              PrintSystemBar, PrintDmaBar, SeqStop, CopyDmaWord, CopyDmaEnds
<1> QED
  BY <1>1, <1>2 DEF ThreadStep

(* Every step of every thread is one of the three, for every device. *)
LEMMA EveryDeviceStep ==
  ASSUME IInv, NEW t \in Threads, ThreadStep(t), NEW d \in Devices
  PROVE  DeviceStep(t, d)
<1> USE DEF IInv
<1>1. \A u \in Threads \ {t} :
        pc'[u] = pc[u] /\ file'[u] = file[u] /\ CurOffset(u)' = CurOffset(u)
  BY OthersUnchanged DEF CurOffset
<1>2. AtLabel(t) /\ AtFile(t) /\ Checked(t)
  BY DEF CallState
<1>3. /\ torn \in [Devices -> SUBSET Nat] /\ pc \in [Threads -> Labels]
      /\ DOMAIN systemBar = Devices /\ DOMAIN dmaBar = Devices
  BY DEF TypeOK
<1>4. CASE /\ ~LockControl(t) /\ ~SampleSpiError(t) /\ ~FirmwareInterrupted(t)
           /\ ~FirmwareAction(t) /\ ~mtcaDummy_write(t) /\ ~WriteWord(t)
           /\ ~WriteWordFaults(t)
  <2>1. systemBar' = systemBar /\ torn' = torn /\ pc[t] \notin FirmwareLabels
    BY <1>4, OutsideFirmware
  <2>2. dmaBar' = dmaBar
    BY <1>4, DmaStays
  <2> QED
    BY <1>1, <2>1, <2>2 DEF DeviceStep, Quiet, BeingWritten
<1>5. CASE LockControl(t)
  <2>1. bars' = bars /\ torn' = torn /\ file' = file /\ CurOffset(t)' = CurOffset(t)
    BY <1>5 DEF LockControl, bars, locals, CurOffset
  <2>2. pc[t] \in FirmwareLabels => pc'[t] \in FirmwareLabels
    BY <1>3, <1>5 DEF LockControl, Goto, AfterLock, FirmwareLabels
  <2> QED
    BY <1>1, <2>1, <2>2 DEF DeviceStep, Quiet, BeingWritten, bars
<1>6. CASE SampleSpiError(t)
  <2>1. bars' = bars /\ torn' = torn /\ file' = file /\ CurOffset(t)' = CurOffset(t)
    BY <1>6 DEF SampleSpiError, bars, CurOffset
  <2>2. pc'[t] \in FirmwareLabels
    BY <1>3, <1>6 DEF SampleSpiError, Goto, FirmwareLabels
  <2> QED
    BY <1>1, <2>1, <2>2 DEF DeviceStep, Quiet, BeingWritten, bars
<1>7. CASE mtcaDummy_write(t) \/ WriteWord(t) \/ WriteWordFaults(t)
  <2>0. PICK o, e, bar : o = CurOffset(t) /\ e = file[t] /\ bar = CurBar(t)
    OBVIOUS
  <2>1. pc[t] = "body" /\ call[t].op \in {"write", "pwrite"} /\ Dev(t) = e
    BY <1>7, <2>0 DEF mtcaDummy_write, WriteWord, WriteWordFaults, Dev
  <2>2. pc[t] \in DeviceLabels /\ pc[t] \notin FirmwareLabels
    BY <2>1 DEF DeviceLabels, FirmwareLabels
  <2>3. e \in Devices
    BY <2>1, <2>2, DevFacts
  <2>4. /\ call[t].op = "write" => StructWriteOk(call[t])
        /\ call[t].op = "pwrite" => idx[t] < WordsToTransfer(t)
    BY <1>7 DEF mtcaDummy_write, WriteWord, WriteWordFaults
  <2>5. /\ call[t] \in Calls /\ bar \in {0, 2} /\ Touches(call[t], bar, o)
        /\ o \in BarBytes(bar) /\ o % 4 = 0 /\ o \in Nat
    BY <2>0, <2>1, <2>2, <2>4, StoreTarget, CurOffsetAligned
  <2>6. PICK word : Store(e, bar, o, word) /\ (call[t].op = "write" => word = call[t].data)
    BY <1>7, <2>0, <2>1 DEF mtcaDummy_write, WriteWord, WriteWordFaults, CurData
  <2>7. bar = 0 =>
          o \in torn'[e] \/ (pc'[t] \in FirmwareLabels /\ file'[t] = e /\ CurOffset(t)' = o)
    <3>1. CASE mtcaDummy_write(t)
      BY <1>3, <2>0, <3>1 DEF mtcaDummy_write, Goto, FirmwareLabels, CurOffset
    <3>2. CASE WriteWord(t)
      BY <1>3, <2>0, <3>2 DEF WriteWord, Goto, FirmwareLabels, CurOffset
    <3>3. CASE WriteWordFaults(t)
      BY <1>3, <2>0, <2>1, <2>3, <3>3 DEF WriteWordFaults
    <3> QED
      BY <1>7, <3>1, <3>2, <3>3
  <2>8. torn[d] \subseteq torn'[d]
    BY <1>3, <1>7, <2>1, <2>3 DEF mtcaDummy_write, WriteWord, WriteWordFaults
  <2>9. \A r \in Register : BeingWritten(d, r) => BeingWritten(d, r)'
    BY <1>1, <2>2 DEF BeingWritten
  <2>10. CASE d # e
    <3>1. systemBar'[d] = systemBar[d] /\ dmaBar'[d] = dmaBar[d]
      BY <2>3, <2>5, <2>6, <2>10, StoreEffect
    <3> QED
      BY <2>8, <2>9, <3>1 DEF DeviceStep, Quiet
  <2>11. CASE d = e
    <3>1. bar = 0 => o \in torn'[d] \/ BeingWritten(d, o)'
      BY <2>7, <2>11 DEF BeingWritten
    <3>2. /\ bar # 0 => systemBar'[d] = systemBar[d]
          /\ bar = 0 =>
               /\ dmaBar'[d] = dmaBar[d]
               /\ o \in Register
               /\ REG(systemBar'[d], o) = word
               /\ \A r \in Register \ {o} : REG(systemBar'[d], r) = REG(systemBar[d], r)
      BY <2>5, <2>6, <2>11, StoreEffect
    <3>3. Stored(d, call[t], bar, o)
      BY <2>5, <2>6, <2>8, <2>9, <3>1, <3>2 DEF Stored
    <3> QED
      BY <3>3 DEF DeviceStep
  <2> QED
    BY <2>10, <2>11
<1>8. CASE FirmwareInterrupted(t) \/ FirmwareAction(t)
  <2>0. PICK o, e : o = CurOffset(t) /\ e = file[t]
    OBVIOUS
  <2>1. pc[t] \in FirmwareLabels
    BY <1>8 DEF FirmwareInterrupted, FirmwareAction, FirmwareLabels
  <2>2. Dev(t) = e /\ e \in Devices
    BY <2>0, <2>1, DevFacts DEF DeviceLabels
  <2>3. \A r \in Register : BeingWritten(d, r) => BeingWritten(d, r)' \/ (d = e /\ r = o)
    BY <1>1, <2>0 DEF BeingWritten
  <2>4. CASE FirmwareInterrupted(t)
    <3>1. bars' = bars /\ torn' = [torn EXCEPT ![e] = @ \cup {o}]
      BY <2>0, <2>2, <2>4 DEF FirmwareInterrupted, bars
    <3>2. torn[d] \subseteq torn'[d] /\ (d = e => o \in torn'[d])
      BY <1>3, <2>2, <3>1
    <3>3. Quiet(d)
      BY <2>3, <3>1, <3>2 DEF Quiet, bars
    <3> QED
      BY <3>3 DEF DeviceStep
  <2>5. CASE FirmwareAction(t)
    <3> DEFINE S == mtcadummy_performActionOnWrite(systemBar[e], o, spiFail[t])
               M == SampledDma(systemBar[e], dmaBar[e], o)
    <3>1. /\ systemBar' = [systemBar EXCEPT ![e] = S] /\ torn' = [torn EXCEPT ![e] = @ \ {o}]
          /\ dmaBar' = [dmaBar EXCEPT ![e] = M]
      BY <2>0, <2>2, <2>5 DEF FirmwareAction
    <3>2. CASE d # e
      <4>1. systemBar'[d] = systemBar[d] /\ torn'[d] = torn[d] /\ dmaBar'[d] = dmaBar[d]
        <5> HIDE DEF S, M
        <5> QED BY <1>3, <2>2, <3>1, <3>2
      <4> QED
        BY <2>3, <3>2, <4>1 DEF DeviceStep, Quiet
    <3>3. CASE d = e
      <4>1. systemBar'[e] = S /\ torn'[e] = torn[e] \ {o} /\ dmaBar'[e] = M
        <5> HIDE DEF S, M
        <5> QED BY <1>3, <2>2, <3>1
      <4>2. Reacted(d, o, spiFail[t])
        BY <2>3, <3>3, <4>1 DEF Reacted, S, M
      <4> QED
        BY <4>2 DEF DeviceStep
    <3> QED
      BY <3>2, <3>3
  <2> QED
    BY <1>8, <2>4, <2>5
<1> QED
  BY <1>4, <1>5, <1>6, <1>7, <1>8
-----------------------------------------------------------------------------
(* The firmware's reactions, register by register. *)

(* The byte offsets of the registers involved. *)
LEMMA RegisterNumbers ==
  /\ ClockRegisters = {16, 20, 32, 36, 40, 44}
  /\ ClockRegisters \cup {64, 68, 80, 84, 88} \subseteq Register
  /\ DOMAIN ReadOnlyValue = {0, 4, 60}
BY ReadOnlyValueType
DEF ClockRegisters, Register, MTCADUMMY_N_REGISTERS, MTCADUMMY_WORD_CLK_CNT_0,
    MTCADUMMY_WORD_CLK_CNT_1, MTCADUMMY_WORD_CLK_MUX_0, MTCADUMMY_WORD_CLK_MUX_1,
    MTCADUMMY_WORD_CLK_MUX_2, MTCADUMMY_WORD_CLK_MUX_3

(* A reaction sets the registers it names and no other. *)
LEMMA RegisterAfter ==
  ASSUME NEW sys \in SystemBar, NEW o, NEW fail, NEW r \in Register
  PROVE  LET R == Reaction(sys, o, fail) IN
           REG(mtcadummy_performActionOnWrite(sys, o, fail), r) =
             IF r \in DOMAIN R THEN R[r] ELSE REG(sys, r)
<1> DEFINE R == Reaction(sys, o, fail)
<1>1. r \div 4 \in DOMAIN sys /\ 4 * (r \div 4) = r
  BY DEF SystemBar, Register, MTCADUMMY_N_REGISTERS
<1>2. mtcadummy_performActionOnWrite(sys, o, fail) = SetRegs(sys, R)
  BY DEF mtcadummy_performActionOnWrite
<1> HIDE DEF R
<1>3. REG(SetRegs(sys, R), r) = IF r \in DOMAIN R THEN R[r] ELSE REG(sys, r)
  BY <1>1 DEF REG, SetRegs
<1> QED
  BY <1>2, <1>3 DEF R

(* Which write moves which registers. *)
LEMMA ReactionCases ==
  ASSUME NEW sys \in SystemBar, NEW o, NEW fail
  PROVE  LET R == Reaction(sys, o, fail) IN
           /\ o = 64 /\ REG(sys, 64) # 0 => R = [r \in ClockRegisters |-> 0]
           /\ o = 68 /\ REG(sys, 68) # 0 =>
                DOMAIN R = {16, 64} /\ R[16] = nSamples /\ R[64] = 0
           /\ o = 80 => R = SpiReaction(sys, fail)
           /\ ~(o = 64 /\ REG(sys, 64) # 0) /\ ~(o = 68 /\ REG(sys, 68) # 0) /\ o # 80 =>
                DOMAIN R \subseteq {0, 4, 60}
<1> DEFINE R == Reaction(sys, o, fail)
<1>1. R = CASE o = 64 /\ REG(sys, 64) # 0 -> [r \in ClockRegisters |-> 0]
            [] o = 68 /\ REG(sys, 68) # 0 ->
                 [r \in {16, 64} |-> IF r = 16 THEN nSamples ELSE 0]
            [] o \in DOMAIN ReadOnlyValue -> [r \in {o} |-> ReadOnlyValue[r]]
            [] o = 80 -> SpiReaction(sys, fail)
            [] OTHER -> [r \in {} |-> 0]
  BY DEF Reaction, MTCADUMMY_WORD_CLK_RST, MTCADUMMY_WORD_ADC_ENA, MTCADUMMY_WORD_CLK_CNT_0,
         MTCADUMMY_WORD_SPI_WRITE
<1>2. CASE o = 64 /\ REG(sys, 64) # 0
  BY <1>1, <1>2, ReadOnlyValueType
<1>3. CASE o = 68 /\ REG(sys, 68) # 0
  BY <1>1, <1>3, ReadOnlyValueType
<1>4. CASE o = 80
  BY <1>1, <1>4, ReadOnlyValueType
<1>5. CASE ~(o = 64 /\ REG(sys, 64) # 0) /\ ~(o = 68 /\ REG(sys, 68) # 0) /\ o # 80
  <2>1. CASE o \in {0, 4, 60}
    BY <1>1, <1>5, <2>1, ReadOnlyValueType
  <2>2. CASE o \notin {0, 4, 60}
    BY <1>1, <1>5, <2>2, ReadOnlyValueType
  <2> QED
    BY <1>5, <2>1, <2>2
<1> QED
  BY <1>2, <1>3, <1>4, <1>5

(* The firmware acknowledges a word only together with its copy. *)
LEMMA SpiReactionCases ==
  ASSUME NEW sys \in SystemBar, NEW fail
  PROVE  LET R == SpiReaction(sys, fail) IN
           /\ DOMAIN R \subseteq {84, 88} /\ 88 \in DOMAIN R
           /\ R[88] = 0 => 84 \in DOMAIN R /\ R[84] = REG(sys, 80)
BY DEF SpiReaction, MTCADUMMY_WORD_SPI_SYNC, MTCADUMMY_WORD_SPI_READ, MTCADUMMY_WORD_SPI_WRITE,
       MTCADUMMY_SPI_SYNC_OK, MTCADUMMY_SPI_SYNC_ERROR
-----------------------------------------------------------------------------
(* The SPI handshake. *)

(* SPI_SYNC = 0 means that the word has been copied, unless a write of     *)
(* SPI_WRITE is waiting for the firmware or has been cut off.              *)
SpiStory(d) ==
  REG(systemBar[d], MTCADUMMY_WORD_SPI_SYNC) = MTCADUMMY_SPI_SYNC_OK =>
    \/ REG(systemBar[d], MTCADUMMY_WORD_SPI_READ) = REG(systemBar[d], MTCADUMMY_WORD_SPI_WRITE)
    \/ MTCADUMMY_WORD_SPI_WRITE \in torn[d]
    \/ BeingWritten(d, MTCADUMMY_WORD_SPI_WRITE)

(* It survives every step of clients that keep to the handshake. *)
LEMMA SpiStep ==
  ASSUME IInv, SpiClients, NEW t \in Threads, ThreadStep(t), NEW d \in Devices, SpiStory(d)
  PROVE  SpiStory(d)'
<1> USE DEF SpiStory, MTCADUMMY_WORD_SPI_SYNC, MTCADUMMY_WORD_SPI_READ,
            MTCADUMMY_WORD_SPI_WRITE, MTCADUMMY_SPI_SYNC_OK
<1>1. systemBar[d] \in SystemBar
  BY DEF IInv, TypeOK
<1>2. {80, 84, 88} \subseteq Register
  BY RegisterNumbers
<1>3. CASE Quiet(d)
  BY <1>2, <1>3 DEF Quiet
<1>4. ASSUME NEW bar, NEW o, Stored(d, call[t], bar, o)
      PROVE  SpiStory(d)'
  <2>1. CASE bar # 0
    BY <1>2, <1>4, <2>1 DEF Stored
  <2>2. CASE bar = 0 /\ o = 80
    BY <1>2, <1>4, <2>2 DEF Stored
  <2>3. CASE bar = 0 /\ o = 88
    <3>1. REG(systemBar'[d], 88) = 255
      BY <1>4, <2>3 DEF Stored, SpiClients, MTCADUMMY_SPI_SYNC_REQUESTED
    <3> QED
      BY <3>1
  <2>4. CASE bar = 0 /\ o \notin {80, 88}
    <3>1. o # 84
      BY <1>4, <2>4 DEF Stored, SpiClients
    <3>2. \A r \in {80, 84, 88} : REG(systemBar'[d], r) = REG(systemBar[d], r)
      BY <1>2, <1>4, <2>4, <3>1 DEF Stored
    <3> QED
      BY <1>2, <1>4, <3>2 DEF Stored
  <2> QED
    BY <2>1, <2>2, <2>3, <2>4
<1>5. ASSUME NEW o, Reacted(d, o, spiFail[t])
      PROVE  SpiStory(d)'
  <2> DEFINE R == Reaction(systemBar[d], o, spiFail[t])
  <2>1. \A r \in {80, 84, 88} : REG(systemBar'[d], r) =
           IF r \in DOMAIN R THEN R[r] ELSE REG(systemBar[d], r)
    BY <1>1, <1>2, <1>5, RegisterAfter DEF Reacted
  <2>2. CASE o = 80
    <3>1. R = SpiReaction(systemBar[d], spiFail[t])
      BY <1>1, <2>2, ReactionCases
    <3>2. /\ DOMAIN R \subseteq {84, 88} /\ 88 \in DOMAIN R
          /\ R[88] = 0 => 84 \in DOMAIN R /\ R[84] = REG(systemBar[d], 80)
      BY <1>1, <3>1, SpiReactionCases
    <3> HIDE DEF R
    <3> QED
      BY <2>1, <3>2
  <2>3. CASE o # 80
    <3>1. DOMAIN R \cap {80, 84, 88} = {}
      BY <1>1, <2>3, ReactionCases, RegisterNumbers
    <3> HIDE DEF R
    <3>2. \A r \in {80, 84, 88} : REG(systemBar'[d], r) = REG(systemBar[d], r)
      BY <2>1, <3>1
    <3> QED
      BY <1>2, <1>5, <2>3, <3>2 DEF Reacted
  <2> QED
    BY <2>2, <2>3
<1>6. DeviceStep(t, d)
  BY EveryDeviceStep
<1> QED
  BY <1>3, <1>4, <1>5, <1>6 DEF DeviceStep

(* Nobody writes to a device whose mutex is free. *)
LEMMA NobodyWrites ==
  ASSUME IInv, NEW d \in Devices, devMutex[d] = Nobody, NEW r
  PROVE  ~BeingWritten(d, r)
<1> SUFFICES ASSUME NEW t \in Threads, pc[t] \in FirmwareLabels, file[t] = d
             PROVE  FALSE
  BY DEF BeingWritten
<1>1. Dev(t) = d /\ pc[t] \in DeviceLabels
  BY DevFacts DEF IInv, DeviceLabels
<1>2. devMutex[d] = t
  BY <1>1 DEF IInv, LockDiscipline
<1> QED
  BY <1>2, DeviceFacts

(* SPI_SYNC = 0 on a device at rest means that SPI_READ holds what was     *)
(* last written to SPI_WRITE, whoever else writes and whenever spi_error   *)
(* is switched.                                                            *)
THEOREM SpiHandshake == Spec => []SpiSyncOkMeansCopied
<1> DEFINE J == SpiClients => \A d \in Devices : SpiStory(d)
<1>1. Init => J
  BY DEF Init, SpiStory, REG, mtcadummy_initialiseSystemBar, MTCADUMMY_N_REGISTERS,
         MTCADUMMY_WORD_SPI_SYNC, MTCADUMMY_WORD_SPI_READ, MTCADUMMY_WORD_SPI_WRITE,
         MTCADUMMY_WORD_CLK_RST, MTCADUMMY_BROKEN_WRITE, ReadOnlyValue, MTCADUMMY_WORD_FIRMWARE,
         MTCADUMMY_WORD_COMPILATION, MTCADUMMY_WORD_DUMMY
<1>2. IInv /\ J /\ [Next]_vars => J'
  <2> SUFFICES ASSUME IInv, J, [Next]_vars, SpiClients, NEW d \in Devices
               PROVE  SpiStory(d)'
    BY DEF SpiClients
  <2>1. CASE UNCHANGED vars
    BY <2>1 DEF SpiStory, vars, BeingWritten, CurOffset
  <2>2. ASSUME NEW t \in Threads, ThreadStep(t)
        PROVE  SpiStory(d)'
    BY <2>2, SpiStep
  <2> QED
    BY <2>1, <2>2 DEF Next
<1>3. IInv /\ J => SpiSyncOkMeansCopied
  BY NobodyWrites DEF SpiSyncOkMeansCopied, Settled, SpiStory
<1> QED
  BY <1>1, <1>2, <1>3, Inductive, PTL DEF Spec
-----------------------------------------------------------------------------
(* The clock registers and the samples. *)

Sampled(d) == \A w \in 0 .. nSamples - 1 : dmaBar[d][w] = w * w

(* CLK_RST # 0 means that the counters are zeroed, unless a write of       *)
(* CLK_RST is waiting for the firmware or has been cut off; a count means  *)
(* samples at all times, for the firmware sets both in one step.           *)
ClockStory(d) ==
  /\ REG(systemBar[d], MTCADUMMY_WORD_CLK_RST) # 0 =>
       \/ \A r \in ClockRegisters : REG(systemBar[d], r) = 0
       \/ MTCADUMMY_WORD_CLK_RST \in torn[d]
       \/ BeingWritten(d, MTCADUMMY_WORD_CLK_RST)
  /\ REG(systemBar[d], MTCADUMMY_WORD_CLK_CNT_0) # 0 => Sampled(d)

(* A sampling fills the first words of bar 2 with the squares. *)
LEMMA SamplingFills ==
  ASSUME NEW sys, NEW dma \in DmaBar, NEW o
  PROVE  LET after == SampledDma(sys, dma, o) IN
           IF o = 68 /\ REG(sys, 68) # 0
             THEN /\ DOMAIN after = DOMAIN dma
                  /\ \A w \in DOMAIN dma : after[w] = IF w < nSamples THEN w * w ELSE dma[w]
             ELSE after = dma
<1>1. CASE ~(o = 68 /\ REG(sys, 68) # 0)
  BY <1>1 DEF SampledDma, MTCADUMMY_WORD_ADC_ENA
<1>2. CASE o = 68 /\ REG(sys, 68) # 0
  <2>1. SampledDma(sys, dma, o) =
          [w \in DOMAIN dma |-> IF w < nSamples THEN (w * w) % U32 ELSE dma[w]]
    BY <1>2 DEF SampledDma, MTCADUMMY_WORD_ADC_ENA
  <2>2. ASSUME NEW w \in DOMAIN dma, w < nSamples
        PROVE  (w * w) % U32 = w * w
    <3>1. w \in 0 .. nSamples - 1 /\ U32 \in Nat
      BY <2>2, HeaderAssumption DEF DmaBar
    <3>2. w * w \in Nat /\ w * w < U32
      BY <3>1, SamplesAssumption
    <3>3. \A x \in Nat : x < U32 => x % U32 = x
      BY <3>1
    <3> QED
      BY <3>2, <3>3
  <2> QED
    BY <1>2, <2>1, <2>2
<1> QED
  BY <1>1, <1>2

(* It survives every step of such clients. *)
LEMMA ClockStep ==
  ASSUME IInv, ClockClients, NEW t \in Threads, ThreadStep(t), NEW d \in Devices, ClockStory(d)
  PROVE  ClockStory(d)'
<1> USE DEF ClockStory, Sampled, MTCADUMMY_WORD_CLK_RST, MTCADUMMY_WORD_CLK_CNT_0
<1> DEFINE Watch == {16, 20, 32, 36, 40, 44, 64}
<1>1. systemBar[d] \in SystemBar /\ dmaBar[d] \in DmaBar
  BY DEF IInv, TypeOK
<1>2. Watch \subseteq Register /\ Watch = ClockRegisters \cup {64} /\ 16 \in ClockRegisters
  BY RegisterNumbers
<1> HIDE DEF Watch
<1>3. CASE Quiet(d)
  BY <1>2, <1>3 DEF Quiet
<1>4. ASSUME NEW bar, NEW o, Stored(d, call[t], bar, o)
      PROVE  ClockStory(d)'
  <2>1. bar = 0 /\ o \notin ClockRegisters /\ o \in Register
    BY <1>4 DEF Stored, ClockClients, DmaClients
  <2>2. dmaBar'[d] = dmaBar[d] /\ \A r \in ClockRegisters : REG(systemBar'[d], r) = REG(systemBar[d], r)
    BY <1>2, <1>4, <2>1 DEF Stored
  <2>3. CASE o = 64
    BY <1>2, <1>4, <2>1, <2>2, <2>3 DEF Stored
  <2>4. CASE o # 64
    <3>1. REG(systemBar'[d], 64) = REG(systemBar[d], 64)
      BY <1>2, <1>4, <2>1, <2>4 DEF Stored
    <3> QED
      BY <1>2, <1>4, <2>2, <3>1 DEF Stored
  <2> QED
    BY <2>3, <2>4
<1>5. ASSUME NEW o, Reacted(d, o, spiFail[t])
      PROVE  ClockStory(d)'
  <2> DEFINE R == Reaction(systemBar[d], o, spiFail[t])
  <2>1. \A r \in Watch : REG(systemBar'[d], r) =
           IF r \in DOMAIN R THEN R[r] ELSE REG(systemBar[d], r)
    BY <1>1, <1>2, <1>5, RegisterAfter DEF Reacted
  <2>2. CASE o = 64 /\ REG(systemBar[d], 64) # 0
    <3>1. R = [r \in ClockRegisters |-> 0]
      BY <1>1, <2>2, ReactionCases
    <3> HIDE DEF R
    <3>2. \A r \in ClockRegisters : REG(systemBar'[d], r) = 0
      BY <1>2, <2>1, <3>1
    <3> QED
      BY <1>2, <3>2
  <2>3. CASE o = 68 /\ REG(systemBar[d], 68) # 0
    <3>1. DOMAIN R = {16, 64} /\ R[64] = 0
      BY <1>1, <2>3, ReactionCases
    <3> HIDE DEF R
    <3>2. REG(systemBar'[d], 64) = 0
      BY <1>2, <2>1, <3>1
    <3>3. DOMAIN dmaBar[d] = 0 .. (MTCADUMMY_DMA_SIZE \div 4) - 1
      BY <1>1 DEF DmaBar
    <3>4. 0 .. nSamples - 1 \subseteq DOMAIN dmaBar[d]
      BY <3>3, HeaderAssumption
    <3>5. \A w \in DOMAIN dmaBar[d] : w < nSamples => dmaBar'[d][w] = w * w
      BY <1>1, <1>5, <2>3, SamplingFills DEF Reacted
    <3>6. \A w \in 0 .. nSamples - 1 : dmaBar'[d][w] = w * w
      BY <3>4, <3>5, HeaderAssumption
    <3> QED
      BY <3>2, <3>6
  <2>4. CASE ~(o = 64 /\ REG(systemBar[d], 64) # 0) /\ ~(o = 68 /\ REG(systemBar[d], 68) # 0)
    <3>1. DOMAIN R \subseteq {0, 4, 60, 84, 88}
      BY <1>1, <2>4, ReactionCases, SpiReactionCases
    <3>2. Watch \cap {0, 4, 60, 84, 88} = {}
      BY DEF Watch
    <3> HIDE DEF R
    <3>3. \A r \in Watch : REG(systemBar'[d], r) = REG(systemBar[d], r)
      BY <2>1, <3>1, <3>2
    <3>4. dmaBar'[d] = dmaBar[d]
      <4>1. dmaBar'[d] = SampledDma(systemBar[d], dmaBar[d], o)
        BY <1>5 DEF Reacted
      <4> QED
        BY <1>1, <2>4, <4>1, SamplingFills
    <3> QED
      BY <1>2, <1>5, <2>4, <3>3, <3>4 DEF Reacted
  <2> QED
    BY <2>2, <2>3, <2>4
<1>6. DeviceStep(t, d)
  BY EveryDeviceStep
<1> QED
  BY <1>3, <1>4, <1>5, <1>6 DEF DeviceStep

(* CLK_RST # 0 on a device at rest means that all counters are zero, and a *)
(* count that is not 0 that the samples are in bar 2.                      *)
THEOREM ClockProtocol == Spec => []ClockResetMeansZeroed
<1> DEFINE J == ClockClients => \A d \in Devices : ClockStory(d)
<1>1. Init => J
  <2> SUFFICES ASSUME Init, NEW d \in Devices
               PROVE  ClockStory(d)
    OBVIOUS
  <2>1. \A r \in ClockRegisters : r \div 4 \in 0 .. 31 /\ 4 * (r \div 4) = r
                                  /\ r \notin DOMAIN ReadOnlyValue /\ r \notin {64, 76}
    BY RegisterNumbers
  <2>2. systemBar[d] = mtcadummy_initialiseSystemBar
    BY DEF Init
  <2>3. \A r \in ClockRegisters : REG(systemBar[d], r) = 0
    BY <2>1, <2>2 DEF REG, mtcadummy_initialiseSystemBar, MTCADUMMY_N_REGISTERS,
                      MTCADUMMY_WORD_CLK_RST, MTCADUMMY_BROKEN_WRITE
  <2>4. MTCADUMMY_WORD_CLK_CNT_0 \in ClockRegisters
    BY DEF ClockRegisters
  <2> QED
    BY <2>3, <2>4 DEF ClockStory
<1>2. IInv /\ J /\ [Next]_vars => J'
  <2> SUFFICES ASSUME IInv, J, [Next]_vars, ClockClients, NEW d \in Devices
               PROVE  ClockStory(d)'
    BY DEF ClockClients, DmaClients
  <2>1. CASE UNCHANGED vars
    BY <2>1 DEF ClockStory, Sampled, vars, BeingWritten, CurOffset
  <2>2. ASSUME NEW t \in Threads, ThreadStep(t)
        PROVE  ClockStory(d)'
    BY <2>2, ClockStep
  <2> QED
    BY <2>1, <2>2 DEF Next
<1>3. IInv /\ J => ClockResetMeansZeroed
  BY NobodyWrites DEF ClockResetMeansZeroed, Settled, ClockStory, Sampled
<1> QED
  BY <1>1, <1>2, <1>3, Inductive, PTL DEF Spec
=============================================================================
