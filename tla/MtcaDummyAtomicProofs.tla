---------------------- MODULE MtcaDummyAtomicProofs ----------------------
(***************************************************************************)
(* Proof that the driver implements MtcaDummyBoard: every step of a        *)
(* handler is a step of the board or leaves the board alone.               *)
(***************************************************************************)
EXTENDS MtcaDummyAtomic, MtcaDummyCallProofs

(* The firmware of the board is the driver's. *)
LEMMA SameFirmware ==
  ASSUME NEW sys, NEW dma, NEW offset, NEW fail
  PROVE  /\ Board!mtcadummy_performActionOnWrite(sys, offset, fail) =
              mtcadummy_performActionOnWrite(sys, offset, fail)
         /\ Board!SampledDma(sys, dma, offset) = SampledDma(sys, dma, offset)
<1> USE DEF Board!MTCADUMMY_WORD_FIRMWARE, MTCADUMMY_WORD_FIRMWARE,
      Board!MTCADUMMY_WORD_COMPILATION, MTCADUMMY_WORD_COMPILATION,
      Board!MTCADUMMY_WORD_DUMMY, MTCADUMMY_WORD_DUMMY,
      Board!MTCADUMMY_WORD_CLK_CNT_0, MTCADUMMY_WORD_CLK_CNT_0,
      Board!MTCADUMMY_WORD_CLK_CNT_1, MTCADUMMY_WORD_CLK_CNT_1,
      Board!MTCADUMMY_WORD_CLK_MUX_0, MTCADUMMY_WORD_CLK_MUX_0,
      Board!MTCADUMMY_WORD_CLK_MUX_1, MTCADUMMY_WORD_CLK_MUX_1,
      Board!MTCADUMMY_WORD_CLK_MUX_2, MTCADUMMY_WORD_CLK_MUX_2,
      Board!MTCADUMMY_WORD_CLK_MUX_3, MTCADUMMY_WORD_CLK_MUX_3,
      Board!MTCADUMMY_WORD_CLK_RST, MTCADUMMY_WORD_CLK_RST,
      Board!MTCADUMMY_WORD_ADC_ENA, MTCADUMMY_WORD_ADC_ENA,
      Board!MTCADUMMY_WORD_SPI_WRITE, MTCADUMMY_WORD_SPI_WRITE,
      Board!MTCADUMMY_WORD_SPI_READ, MTCADUMMY_WORD_SPI_READ,
      Board!MTCADUMMY_WORD_SPI_SYNC, MTCADUMMY_WORD_SPI_SYNC,
      Board!MTCADUMMY_SPI_SYNC_OK, MTCADUMMY_SPI_SYNC_OK,
      Board!MTCADUMMY_SPI_SYNC_REQUESTED, MTCADUMMY_SPI_SYNC_REQUESTED,
      Board!MTCADUMMY_SPI_SYNC_ERROR, MTCADUMMY_SPI_SYNC_ERROR
<1>1. Board!REG(sys, 64) = REG(sys, 64) /\ Board!REG(sys, 68) = REG(sys, 68)
      /\ Board!REG(sys, 80) = REG(sys, 80) /\ Board!REG(sys, 88) = REG(sys, 88)
  BY DEF Board!REG, REG
<1>2. Board!ReadOnlyValue = ReadOnlyValue /\ Board!ClockRegisters = ClockRegisters
  BY DEF Board!ReadOnlyValue, ReadOnlyValue, Board!ClockRegisters, ClockRegisters
<1>3. Board!SpiReaction(sys, fail) = SpiReaction(sys, fail)
  BY <1>1 DEF Board!SpiReaction, SpiReaction
<1>4. Board!Reaction(sys, offset, fail) = Reaction(sys, offset, fail)
  BY <1>1, <1>2, <1>3 DEF Board!Reaction, Reaction
<1>5. Board!mtcadummy_performActionOnWrite(sys, offset, fail) =
        mtcadummy_performActionOnWrite(sys, offset, fail)
  BY <1>4 DEF Board!mtcadummy_performActionOnWrite, mtcadummy_performActionOnWrite,
              Board!SetRegs, SetRegs
<1>6. Board!SampledDma(sys, dma, offset) = SampledDma(sys, dma, offset)
  BY <1>1 DEF Board!SampledDma, SampledDma
<1> QED
  BY <1>5, <1>6
-----------------------------------------------------------------------------
(* The steps of the board, in terms of the driver's variables. *)
Answers == [t \in Threads |-> Answer(t)]

SameBars == committed' = committed /\ dmaBar' = dmaBar

Leaves(d) == devMutex' = devMutex \/ devMutex' = [devMutex EXCEPT ![d] = Nobody]

Simulated == Board!Next \/ UNCHANGED Board!boardVars

(* The board stutters when bars, mutexes and answers stay. *)
LEMMA SimulateStutter ==
  ASSUME SameBars, devMutex' = devMutex, Answers' = Answers
  PROVE  Simulated
BY DEF SameBars, Answers, Simulated, Board!boardVars

(* A client that starts a new call forgets its last answer. *)
LEMMA SimulateNewCall ==
  ASSUME NEW t \in Threads, SameBars, devMutex' = devMutex,
         Answers' = [Answers EXCEPT ![t] = <<>>]
  PROVE  Simulated
<1>1. Board!NewCall(t)
  BY DEF SameBars, Answers, Board!NewCall, Board!Forget
<1> QED
  BY <1>1 DEF Simulated, Board!Next

(* Taking devMutex is seizing the board. *)
LEMMA SimulateSeize ==
  ASSUME NEW t \in Threads, NEW d \in Devices, SameBars, Answers' = Answers,
         devMutex[d] = Nobody, devMutex' = [devMutex EXCEPT ![d] = t]
  PROVE  Simulated
<1>1. Board!Seize(t, d)
  BY DEF SameBars, Answers, Board!Seize
<1> QED
  BY <1>1 DEF Simulated, Board!Next

(* Work under devMutex, with or without its release, is a visit. *)
LEMMA SimulateVisit ==
  ASSUME NEW t \in Threads, NEW d \in Devices, devMutex[d] = t, Leaves(d),
         \/ SameBars /\ Answers' = Answers
         \/ SameBars /\ Board!Inform(t, d)
         \/ Answers' = Answers /\ Board!Change(d)
  PROVE  Simulated
<1>1. Board!MayLeave(d)
  BY DEF Leaves, Board!MayLeave
<1>2. Board!Visit(t, d)
  BY <1>1 DEF SameBars, Answers, Board!Visit
<1> QED
  BY <1>2 DEF Simulated, Board!Next

(* A thread is given one word more, or one word alone. *)
LEMMA InformWord ==
  ASSUME NEW t \in Threads, NEW d, NEW x, NEW kept \in {<<>>, Answers[t]},
         Answers' = [Answers EXCEPT ![t] = Append(kept, x)],
         \/ \E w \in DOMAIN committed[d] : x = committed[d][w]
         \/ \E w \in 0 .. (MTCADUMMY_DMA_SIZE \div 4) - 1 : x = dmaBar[d][w]
         \/ x \in Stray
  PROVE  Board!Inform(t, d)
<1>1. x \in Board!WordsOf(d) \cup Stray
  BY DEF Board!WordsOf, Board!SampleWords
<1>2. Board!ReadWord(t, d)
  BY <1>1 DEF Board!ReadWord, Answers
<1> QED
  BY <1>2 DEF Board!Inform

(* A client may be told nothing, the slot or the versions. *)
LEMMA InformIdentity ==
  ASSUME NEW t \in Threads, NEW d, NEW words,
         Answers' = [Answers EXCEPT ![t] = words],
         \/ words = <<>>
         \/ words = <<d>>
         \/ words = <<MTCADUMMY_DRV_VERSION_MAJ, MTCADUMMY_DRV_VERSION_MIN>>
         \/ words = <<MTCADUMMY_DRV_VERSION_MIN, MTCADUMMY_DRV_VERSION_MAJ,
                      MTCADUMMY_DRV_VERSION_MAJ + 1, d, MTCADUMMY_DRV_VERSION_MIN + 1>>
  PROVE  Board!Inform(t, d)
<1>1. CASE words = <<>>
  <2>1. Board!Forget(t)
    BY <1>1 DEF Board!Forget, Answers
  <2> QED
    BY <2>1 DEF Board!Inform
<1>2. CASE words # <<>>
  <2>1. words \in Board!Identity(d)
    BY <1>2 DEF Board!Identity
  <2>2. Board!Identify(t, d)
    BY <2>1 DEF Board!Identify, Answers
  <2> QED
    BY <2>2 DEF Board!Inform
<1> QED
  BY <1>1, <1>2
-----------------------------------------------------------------------------
(* The words that a handler writes are among those the board expects. *)
LEMMA ClientWritesWord ==
  ASSUME IInv, NEW t \in Threads, pc[t] \in DeviceLabels, call[t].op \in {"write", "pwrite"},
         call[t].op = "pwrite" => idx[t] < WordsToTransfer(t)
  PROVE  [bar |-> CurBar(t), word |-> CurOffset(t) \div 4, value |-> CurData(t)] \in ClientWrites
<1> DEFINE c == call[t]
<1>1. c \in Calls
  BY DEF IInv, CallState, AtLabel, DeviceLabels, FirmwareLabels
<1>2. CASE c.op = "write"
  BY <1>1, <1>2 DEF ClientWrites, StructWrites, CurBar, CurOffset, CurData
<1>3. CASE c.op = "pwrite"
  <2> DEFINE n == nBytesToTransfer(c.count, c.pos)
  <2>1. c.count \in Nat /\ c.pos \in Nat /\ idx[t] \in Nat /\ TransferAccepted(c.count, c.pos)
    BY <1>1, <1>3, CallFacts DEF IInv, TypeOK, CallState, Checked, PlainOps
  <2>2. n \in Nat /\ n <= c.count /\ idx[t] < n \div 4
    BY <1>3, <2>1, TransferBounds DEF WordsToTransfer
  <2>3. idx[t] \in 0 .. (c.count \div 4) - 1
    <3> HIDE DEF c, n
    <3> QED BY <2>1, <2>2
  <2>4. [bar |-> CurBar(t), word |-> CurOffset(t) \div 4, value |-> CurData(t)] \in AreaWrites(c)
    BY <1>3, <2>3 DEF AreaWrites, CurBar, CurOffset, CurData
  <2> QED
    BY <1>1, <1>3, <2>4 DEF ClientWrites
<1> QED
  BY <1>2, <1>3

(* A store and its reaction are a write of the board. *)
LEMMA ChangeByWrite ==
  ASSUME NEW d \in Devices, NEW r \in ClientWrites, NEW fail \in BOOLEAN,
         r.bar = 0 =>
           LET stored == [committed[d] EXCEPT ![r.word] = r.value] IN
             /\ committed' = [committed EXCEPT ![d] =
                                mtcadummy_performActionOnWrite(stored, 4 * r.word, fail)]
             /\ dmaBar' = [dmaBar EXCEPT ![d] = SampledDma(stored, dmaBar[d], 4 * r.word)],
         r.bar # 0 => /\ dmaBar' = [dmaBar EXCEPT ![d][r.word] = r.value]
                      /\ committed' = committed
  PROVE  Board!Change(d)
<1>1. Board!Write(d, r, fail)
  BY SameFirmware DEF Board!Write
<1> QED
  BY <1>1 DEF Board!Change

(* A store without its reaction is a write that is cut off. *)
LEMMA ChangeByCut ==
  ASSUME NEW d \in Devices, NEW r \in ClientWrites, NEW v,
         v = r.value \/ \E m \in PartialCopies : v = r.value % m,
         r.bar = 0 => committed' = [committed EXCEPT ![d][r.word] = v] /\ dmaBar' = dmaBar,
         r.bar # 0 => dmaBar' = [dmaBar EXCEPT ![d][r.word] = v] /\ committed' = committed
  PROVE  Board!Change(d)
<1>1. v \in Board!CutValues(r.value)
  BY DEF Board!CutValues, PartialCopies
<1>2. Board!Cut(d, r, v)
  BY DEF Board!Cut
<1> QED
  BY <1>1, <1>2 DEF Board!Change
-----------------------------------------------------------------------------
(* What the history variable holds: bar 0, except for the one word that is *)
(* stored while the firmware has not reacted to it.                        *)
Pending(t) ==
  systemBar[file[t]] = [committed[file[t]] EXCEPT ![CurOffset(t) \div 4] = CurData(t)]

Committed ==
  /\ committed \in [Devices -> SystemBar]
  /\ \A d \in Devices : ~InFirmware(d) => committed[d] = systemBar[d]
  /\ \A t \in Threads : pc[t] \in FirmwareLabels => Pending(t)

CommitRule ==
  committed' = [d \in Devices |-> IF InFirmware(d)' THEN committed[d] ELSE systemBar'[d]]

(* At most one thread is in the firmware simulation of a device, and none  *)
(* while another holds the devMutex.                                       *)
LEMMA FirmwareAlone ==
  ASSUME IInv, NEW t \in Threads, pc[t] \in DeviceLabels, NEW u \in Threads,
         pc[u] \in FirmwareLabels, file[u] = Dev(t)
  PROVE  u = t
<1>1. Dev(u) = file[u] /\ Dev(t) \in Devices
  BY DevFacts DEF IInv
<1>2. devMutex[Dev(t)] = t /\ devMutex[Dev(t)] = u
  BY <1>1 DEF IInv, LockDiscipline, DeviceLabels
<1> QED
  BY <1>2

(* Nobody is in the firmware while a thread is in a handler's body. *)
LEMMA BodyOutside ==
  ASSUME IInv, NEW t \in Threads, pc[t] = "body"
  PROVE  ~InFirmware(Dev(t))
<1> SUFFICES ASSUME NEW u \in Threads, pc[u] \in FirmwareLabels, file[u] = Dev(t)
             PROVE  FALSE
  BY DEF InFirmware
<1>1. u = t
  BY FirmwareAlone DEF DeviceLabels
<1> QED
  BY <1>1 DEF FirmwareLabels

(* The other threads of a step, as far as the history looks at them. *)
LEMMA OthersPending ==
  ASSUME TypeOK, NEW t \in Threads, ThreadStep(t), NEW u \in Threads \ {t}
  PROVE  /\ pc'[u] = pc[u] /\ file'[u] = file[u]
         /\ CurOffset(u)' = CurOffset(u) /\ CurData(u)' = CurData(u)
<1>1. pc'[u] = pc[u] /\ call'[u] = call[u] /\ file'[u] = file[u] /\ idx'[u] = idx[u]
  BY OthersUnchanged
<1> QED
  BY <1>1 DEF CurOffset, CurData

(* A step that leaves bar 0 alone and stays in or out of the firmware. *)
LEMMA CommitQuiet ==
  ASSUME IInv, TypeOK', Committed, CommitRule, NEW t \in Threads, ThreadStep(t),
         systemBar' = systemBar,
         \/ pc[t] \notin FirmwareLabels /\ pc'[t] \notin FirmwareLabels
         \/ /\ pc[t] \in FirmwareLabels /\ pc'[t] \in FirmwareLabels
            /\ call'[t] = call[t] /\ file'[t] = file[t] /\ idx'[t] = idx[t]
  PROVE  committed' = committed /\ Committed'
<1>1. \A u \in Threads : pc'[u] \in FirmwareLabels <=> pc[u] \in FirmwareLabels
  BY OthersPending DEF IInv
<1>2. \A u \in Threads : pc[u] \in FirmwareLabels =>
        file'[u] = file[u] /\ CurOffset(u)' = CurOffset(u) /\ CurData(u)' = CurData(u)
  <2>1. pc[t] \in FirmwareLabels =>
          file'[t] = file[t] /\ CurOffset(t)' = CurOffset(t) /\ CurData(t)' = CurData(t)
    BY DEF CurOffset, CurData
  <2> QED
    BY <2>1, OthersPending DEF IInv
<1>3. \A d \in Devices : InFirmware(d)' <=> InFirmware(d)
  BY <1>1, <1>2 DEF InFirmware
<1>4. committed' = committed
  BY <1>3 DEF CommitRule, Committed
<1>5. \A u \in Threads : pc'[u] \in FirmwareLabels => Pending(u)'
  BY <1>1, <1>2, <1>4 DEF Committed, Pending
<1> QED
  BY <1>3, <1>4, <1>5 DEF Committed

(* The store of a register before the firmware reacts. *)
LEMMA CommitStore ==
  ASSUME IInv, TypeOK', Committed, CommitRule, NEW t \in Threads, ThreadStep(t),
         pc[t] = "body", pc'[t] = "fw", Dev(t) = file[t],
         call'[t] = call[t], file'[t] = file[t], idx'[t] = idx[t],
         systemBar' = [systemBar EXCEPT ![file[t]] =
                         [systemBar[file[t]] EXCEPT ![CurOffset(t) \div 4] = CurData(t)]]
  PROVE  committed' = committed /\ Committed'
<1> DEFINE d == file[t]
<1>1. d \in Devices /\ ~InFirmware(d)
  BY BodyOutside, DevFacts DEF IInv, DeviceLabels
<1>2. committed[d] = systemBar[d]
  BY <1>1 DEF Committed
<1>3. \A e \in Devices : e # d => systemBar'[e] = systemBar[e]
  BY DEF IInv, TypeOK
<1>4. \A e \in Devices : e # d => (InFirmware(e)' <=> InFirmware(e))
  BY <1>1, OthersPending DEF InFirmware, IInv, FirmwareLabels
<1>5. InFirmware(d)'
  BY DEF InFirmware, FirmwareLabels
<1>6. \A e \in Devices : committed'[e] = committed[e]
  BY <1>3, <1>4, <1>5 DEF CommitRule, Committed
<1>7. committed' = committed
  BY <1>6 DEF CommitRule, Committed
<1>8. Pending(t)'
  <2>1. CurOffset(t)' = CurOffset(t) /\ CurData(t)' = CurData(t)
    BY DEF CurOffset, CurData
  <2>2. systemBar'[d] = [systemBar[d] EXCEPT ![CurOffset(t) \div 4] = CurData(t)]
    BY <1>1 DEF IInv, TypeOK
  <2> QED
    BY <1>2, <1>7, <2>1, <2>2 DEF Pending
<1>9. \A u \in Threads \ {t} : pc'[u] \in FirmwareLabels => Pending(u)'
  <2> SUFFICES ASSUME NEW u \in Threads \ {t}, pc'[u] \in FirmwareLabels
               PROVE  Pending(u)'
    OBVIOUS
  <2>1. /\ pc[u] \in FirmwareLabels /\ file'[u] = file[u]
        /\ CurOffset(u)' = CurOffset(u) /\ CurData(u)' = CurData(u)
    BY OthersPending DEF IInv
  <2>2. file[u] # d /\ file[u] \in Devices
    BY <1>1, <2>1, DevFacts DEF InFirmware, IInv, DeviceLabels
  <2> QED
    BY <1>3, <1>7, <2>1, <2>2 DEF Committed, Pending
<1>10. \A e \in Devices : ~InFirmware(e)' => committed'[e] = systemBar'[e]
  BY <1>3, <1>4, <1>5, <1>7 DEF Committed
<1> QED
  BY <1>7, <1>8, <1>9, <1>10 DEF Committed

(* A step of the holder of devMutex after which bar 0 is settled. *)
LEMMA CommitSettled ==
  ASSUME IInv, TypeOK', Committed, CommitRule, NEW t \in Threads, ThreadStep(t),
         pc[t] \in DeviceLabels, pc'[t] \notin FirmwareLabels,
         \A e \in Devices : e # Dev(t) => systemBar'[e] = systemBar[e]
  PROVE  /\ committed' = [committed EXCEPT ![Dev(t)] = systemBar'[Dev(t)]]
         /\ Committed'
<1>0. PICK d \in Devices : d = Dev(t)
  BY DevFacts DEF IInv
<1>1. d = Dev(t) /\ (pc[t] \in FirmwareLabels => file[t] = d)
  BY <1>0, DevFacts DEF IInv
<1>2. ~InFirmware(d)'
  <2> SUFFICES ASSUME NEW u \in Threads, pc'[u] \in FirmwareLabels, file'[u] = d
               PROVE  FALSE
    BY DEF InFirmware
  <2>1. u # t /\ pc[u] \in FirmwareLabels /\ file[u] = d
    BY OthersPending DEF IInv
  <2> QED
    BY <1>1, <2>1, FirmwareAlone
<1>3. \A e \in Devices : e # d => (InFirmware(e)' <=> InFirmware(e))
  BY <1>1, OthersPending DEF InFirmware, IInv
<1>4. committed'[d] = systemBar'[d]
  BY <1>1, <1>2 DEF CommitRule
<1>5. \A e \in Devices : e # d => committed'[e] = committed[e]
  BY <1>1, <1>3 DEF CommitRule, Committed
<1>6. committed' \in [Devices -> SystemBar]
  <2>1. \A e \in Devices : committed'[e] \in SystemBar
    BY <1>4, <1>5 DEF TypeOK, Committed
  <2> QED
    BY <2>1 DEF CommitRule
<1>7. committed' = [committed EXCEPT ![d] = systemBar'[d]]
  BY <1>1, <1>4, <1>5, <1>6 DEF Committed
<1>8. \A e \in Devices : ~InFirmware(e)' => committed'[e] = systemBar'[e]
  BY DEF CommitRule
<1>9. \A u \in Threads : pc'[u] \in FirmwareLabels => Pending(u)'
  <2> SUFFICES ASSUME NEW u \in Threads, pc'[u] \in FirmwareLabels
               PROVE  Pending(u)'
    OBVIOUS
  <2>1. /\ u # t /\ pc[u] \in FirmwareLabels /\ file'[u] = file[u]
        /\ CurOffset(u)' = CurOffset(u) /\ CurData(u)' = CurData(u)
    BY OthersPending DEF IInv
  <2>2. file[u] # d /\ file[u] \in Devices
    BY <1>1, <2>1, FirmwareAlone, DevFacts DEF IInv, DeviceLabels
  <2> QED
    BY <1>1, <1>5, <2>1, <2>2 DEF Committed, Pending
<1> QED
  BY <1>1, <1>6, <1>7, <1>8, <1>9 DEF Committed
-----------------------------------------------------------------------------
(* A step of t concerns the answer of t only. *)
LEMMA AnswerStep ==
  ASSUME TypeOK, DOMAIN result = Threads, NEW t \in Threads, ThreadStep(t)
  PROVE  /\ Answers' = [Answers EXCEPT ![t] = Answer(t)']
         /\ Answer(t)' = Answer(t) => Answers' = Answers
<1>1. \A u \in Threads \ {t} : Answer(u)' = Answer(u)
  BY OthersUnchanged, OthersKeep DEF Answer
<1>2. Answers' = [u \in Threads |-> Answer(u)']
  BY DEF Answers
<1>3. \A u \in Threads : Answers'[u] = Answer(u)' /\ Answers[u] = Answer(u)
  BY DEF Answers
<1>4. Answers' = [Answers EXCEPT ![t] = Answer(t)']
  BY <1>1, <1>3 DEF Answers
<1>5. ASSUME Answer(t)' = Answer(t) PROVE Answers' = Answers
  BY <1>1, <1>5 DEF Answers
<1> QED
  BY <1>4, <1>5

(* The steps outside of the write handlers leave both bars alone and do    *)
(* not lead into the firmware.                                             *)
LEMMA OutsideWrites ==
  ASSUME IInv, NEW t \in Threads, ThreadStep(t),
         ~LockControl(t), ~SampleSpiError(t), ~FirmwareInterrupted(t), ~FirmwareAction(t),
         ~mtcaDummy_write(t), ~WriteWord(t), ~WriteWordFaults(t)
  PROVE  /\ systemBar' = systemBar /\ dmaBar' = dmaBar
         /\ pc[t] \notin FirmwareLabels /\ pc'[t] \notin FirmwareLabels
<1>1. systemBar' = systemBar /\ pc[t] \notin FirmwareLabels
  BY OutsideFirmware
<1>2. pc \in [Threads -> Labels]
  BY DEF IInv, TypeOK
<1>3. dmaBar' = dmaBar /\ pc'[t] \notin FirmwareLabels
  <2> USE DEF FirmwareLabels, bars, Goto, Return, Finish
  <2>1. CASE \E c \in Calls : Enter(t, c)
    <3>1. \A c \in Calls : \A d : Entry(c, d) \notin FirmwareLabels
      BY CallFacts DEF Entry, Ops, GatedOps, StructOps, PlainOps
    <3> QED
      BY <1>2, <2>1, <3>1 DEF Enter
  <2>2. CASE Signal(t) \/ LockDevice(t)
    BY <1>2, <2>2 DEF LockDevice, Signal, GateInterrupted, DeviceInterrupted, ProcWriteInterrupted
  <2>3. CASE NullOperation(t) \/ Exit(t) \/ PassGate(t) \/ Install(t) \/ Release(t)
             \/ CheckTransfer(t) \/ SetControl(t)
    BY <1>2, <2>3 DEF NullOperation, Exit, PassGate, Install, Release, CheckTransfer, SetControl
  <2>4. CASE mtcaDummy_read(t) \/ mtcaDummy_write_rejected(t) \/ ReadWordFails(t)
             \/ TransferDone(t) \/ mtcaDummy_ioctl(t)
    BY <1>2, <2>4
    DEF mtcaDummy_read, mtcaDummy_write_rejected, ReadWordFails, TransferDone, mtcaDummy_ioctl
  <2>5. CASE IoctlCheck(t) \/ ProcWriteCopy(t)
    BY <1>2, <2>5 DEF IoctlCheck, ProcWriteCopy
  <2>6. CASE ReadWord(t) \/ SeqShow(t) \/ PrintSystemBar(t) \/ PrintDmaBar(t) \/ SeqStop(t)
    BY <1>2, <2>6 DEF ReadWord, SeqShow, PrintSystemBar, PrintDmaBar, SeqStop
  <2>7. CASE CopyDmaWord(t) \/ CopyDmaEnds(t)
    BY <1>1, <1>2, <2>7, CopyWordFacts, CopyEndFacts
  <2> QED
    BY <2>1, <2>2, <2>3, <2>4, <2>5, <2>6, <2>7 DEF ThreadStep, Step
<1> QED
  BY <1>1, <1>3

(* The common part of the following lemmas. *)
Driven(t) == DeliveryInv /\ TypeOK' /\ Committed /\ CommitRule /\ ThreadStep(t)

(* Steps that store nothing leave the board's bars alone. *)
LEMMA OutsideWritesSame ==
  ASSUME NEW t \in Threads, Driven(t),
         ~LockControl(t), ~SampleSpiError(t), ~FirmwareInterrupted(t), ~FirmwareAction(t),
         ~mtcaDummy_write(t), ~WriteWord(t), ~WriteWordFaults(t)
  PROVE  SameBars /\ Committed'
BY OutsideWrites, CommitQuiet DEF Driven, DeliveryInv, SameBars

(* Steps that the board does not see. *)
LEMMA UnseenSteps ==
  ASSUME NEW t \in Threads, Driven(t),
         \/ \E c \in Calls : Enter(t, c)
         \/ NullOperation(t) \/ GateInterrupted(t) \/ PassGate(t) \/ Install(t) \/ Release(t)
         \/ DeviceInterrupted(t) \/ CheckTransfer(t) \/ IoctlCheck(t) \/ ProcWriteCopy(t)
         \/ ProcWriteInterrupted(t) \/ SetControl(t) \/ SeqShow(t) \/ SeqStop(t)
         \/ PrintSystemBar(t) \/ LockControl(t) \/ SampleSpiError(t)
  PROVE  Simulated /\ Committed'
<1> USE DEF Driven, DeliveryInv, IInv
<1>1. devMutex' = devMutex
  BY DEF Enter, NullOperation, GateInterrupted, PassGate, Install, Release, DeviceInterrupted,
         CheckTransfer, IoctlCheck, ProcWriteCopy, ProcWriteInterrupted, SetControl, SeqShow,
         SeqStop, PrintSystemBar, LockControl, SampleSpiError
<1>2. Answer(t)' = Answer(t)
  <2>1. CASE \E c \in Calls : Enter(t, c)
    BY <2>1 DEF Enter, Answer, Delivered
  <2>2. CASE PrintSystemBar(t)
    BY <2>2 DEF PrintSystemBar, Answer
  <2>3. CASE ~PrintSystemBar(t) /\ ~\E c \in Calls : Enter(t, c)
    <3>1. result' = result /\ call' = call
      BY <2>3 DEF NullOperation, GateInterrupted, PassGate, Install, Release, DeviceInterrupted,
         CheckTransfer, IoctlCheck, ProcWriteCopy, ProcWriteInterrupted, SetControl, SeqShow,
         SeqStop, LockControl, SampleSpiError, locals
    <3> QED
      BY <3>1 DEF Answer
  <2> QED
    BY <2>1, <2>2, <2>3
<1>3. Answers' = Answers
  BY <1>2, AnswerStep
<1>4. SameBars /\ Committed'
  <2>1. CASE LockControl(t) \/ SampleSpiError(t)
    <3>1. /\ call' = call /\ file' = file /\ idx' = idx /\ systemBar' = systemBar
          /\ dmaBar' = dmaBar
      BY <2>1 DEF LockControl, SampleSpiError, locals, bars
    <3>2. pc[t] \in FirmwareLabels <=> pc'[t] \in FirmwareLabels
      BY <2>1 DEF LockControl, SampleSpiError, AfterLock, Goto, FirmwareLabels, TypeOK
    <3> QED
      BY <3>1, <3>2, CommitQuiet DEF SameBars
  <2>2. CASE ~LockControl(t) /\ ~SampleSpiError(t)
    <3>1. ~FirmwareInterrupted(t) /\ ~FirmwareAction(t) /\ ~mtcaDummy_write(t)
          /\ ~WriteWord(t) /\ ~WriteWordFaults(t)
      <4>1. pc[t] \notin FirmwareLabels /\ (pc[t] = "body" => call[t].op = "dump")
        BY <2>2 DEF Enter, NullOperation, GateInterrupted, PassGate, Install, Release,
          DeviceInterrupted, CheckTransfer, IoctlCheck, ProcWriteCopy, ProcWriteInterrupted,
          SetControl, SeqShow, SeqStop, PrintSystemBar, FirmwareLabels
      <4> QED
        BY <4>1 DEF FirmwareInterrupted, FirmwareAction, mtcaDummy_write, WriteWord,
                    WriteWordFaults, FirmwareLabels
    <3> QED
      BY <2>2, <3>1, OutsideWritesSame
  <2> QED
    BY <2>1, <2>2
<1> QED
  BY <1>1, <1>3, <1>4, SimulateStutter

(* The end of a call, and the acquisition of devMutex. *)
LEMMA EndSimulated ==
  ASSUME NEW t \in Threads, Driven(t), Exit(t) \/ LockDevice(t)
  PROVE  Simulated /\ Committed'
<1> USE DEF Driven, DeliveryInv, IInv
<1>1. SameBars /\ Committed'
  <2>1. ~LockControl(t) /\ ~SampleSpiError(t) /\ ~FirmwareInterrupted(t) /\ ~FirmwareAction(t)
        /\ ~mtcaDummy_write(t) /\ ~WriteWord(t) /\ ~WriteWordFaults(t)
    BY DEF Exit, LockDevice, LockControl, AfterLock, SampleSpiError, FirmwareInterrupted,
           FirmwareAction, mtcaDummy_write, WriteWord, WriteWordFaults
  <2> QED
    BY <2>1, OutsideWritesSame
<1>2. CASE Exit(t)
  <2>1. Answer(t)' = <<>> /\ devMutex' = devMutex
    BY <1>2 DEF Exit, Answer
  <2> QED
    BY <1>1, <2>1, AnswerStep, SimulateNewCall
<1>3. CASE LockDevice(t)
  <2>1. Dev(t) \in Devices
    BY <1>3, DevFacts DEF LockDevice
  <2>2. Answer(t)' = Answer(t)
    BY <1>3 DEF LockDevice, Answer, locals
  <2>3. devMutex[Dev(t)] = Nobody /\ devMutex' = [devMutex EXCEPT ![Dev(t)] = t]
    BY <1>3 DEF LockDevice
  <2> QED
    BY <1>1, <2>1, <2>2, <2>3, AnswerStep, SimulateSeize
<1> QED
  BY <1>1, <1>2, <1>3
-----------------------------------------------------------------------------
(* A thread between lock and unlock has the board to itself; while it is   *)
(* not in the firmware, the history is the content of bar 0.               *)
LEMMA Holding ==
  ASSUME NEW t \in Threads, Driven(t), pc[t] \in DeviceLabels
  PROVE  /\ Dev(t) \in Devices /\ devMutex[Dev(t)] = t
         /\ pc[t] = "body" => committed[Dev(t)] = systemBar[Dev(t)]
BY DevFacts, BodyOutside DEF Driven, DeliveryInv, IInv, LockDiscipline, Committed

(* So do the steps of a body that store nothing. *)
LEMMA OutsideBody ==
  ASSUME NEW t \in Threads, Driven(t), pc[t] = "body",
         ~mtcaDummy_write(t), ~WriteWord(t), ~WriteWordFaults(t)
  PROVE  SameBars /\ Committed'
<1>1. ~LockControl(t) /\ ~SampleSpiError(t) /\ ~FirmwareInterrupted(t) /\ ~FirmwareAction(t)
  BY DEF LockControl, AfterLock, SampleSpiError, FirmwareInterrupted, FirmwareAction
<1> QED
  BY <1>1, OutsideWritesSame

(* The returns that deliver and change nothing. *)
LEMMA LeaveSimulated ==
  ASSUME NEW t \in Threads, Driven(t),
         \/ mtcaDummy_write_rejected(t) \/ ReadWordFails(t) \/ TransferDone(t)
         \/ PrintDmaBar(t) \/ CopyDmaEnds(t),
         ~mtcaDummy_write(t), ~WriteWord(t), ~WriteWordFaults(t)
  PROVE  Simulated /\ Committed'
<1> USE DEF Driven, DeliveryInv, IInv
<1>1. pc[t] = "body" /\ call' = call
  BY CopyEndFacts DEF mtcaDummy_write_rejected, ReadWordFails, TransferDone, PrintDmaBar
<1>2. Leaves(Dev(t))
  BY CopyEndFacts
  DEF mtcaDummy_write_rejected, ReadWordFails, TransferDone, PrintDmaBar, Finish, Leaves
<1>3. Answer(t)' = Answer(t)
  BY CopyEndFacts
  DEF mtcaDummy_write_rejected, ReadWordFails, TransferDone, PrintDmaBar, Answer
<1>4. SameBars /\ Committed'
  BY <1>1, OutsideBody
<1> QED
  BY <1>1, <1>2, <1>3, <1>4, AnswerStep, Holding, SimulateVisit DEF DeviceLabels

(* A word of an accessible bar is a word of the board. *)
LEMMA WordOfBoard ==
  ASSUME NEW t \in Threads, Driven(t), pc[t] = "body", NEW bar, NEW w,
         w \in DOMAIN BarContent(Dev(t), bar)
  PROVE  LET x == BarContent(Dev(t), bar)[w] IN
           \/ \E v \in DOMAIN committed[Dev(t)] : x = committed[Dev(t)][v]
           \/ \E v \in 0 .. (MTCADUMMY_DMA_SIZE \div 4) - 1 : x = dmaBar[Dev(t)][v]
<1>1. Dev(t) \in Devices /\ committed[Dev(t)] = systemBar[Dev(t)]
  BY Holding DEF DeviceLabels
<1>2. DOMAIN dmaBar[Dev(t)] = 0 .. (MTCADUMMY_DMA_SIZE \div 4) - 1
  BY <1>1 DEF Driven, DeliveryInv, IInv, TypeOK, DmaBar
<1> QED
  BY <1>1, <1>2 DEF BarContent

(* A word of an area read is a word the board has. *)
LEMMA AreaReadSimulated ==
  ASSUME NEW t \in Threads, Driven(t), ReadWord(t)
  PROVE  Simulated /\ Committed'
<1> USE DEF Driven, DeliveryInv, IInv
<1>1. /\ pc[t] = "body" /\ call[t].op = "pread" /\ call' = call /\ devMutex' = devMutex
      /\ idx[t] < WordsToTransfer(t)
  BY DEF ReadWord
<1>2. SameBars /\ Committed'
  BY <1>1, OutsideBody DEF mtcaDummy_write, WriteWord, WriteWordFaults
<1> DEFINE w == CurOffset(t) \div 4
           x == BarContent(Dev(t), CurBar(t))[w]
<1>3. w \in DOMAIN BarContent(Dev(t), CurBar(t))
  BY <1>1, InsideBar DEF TransferInsideBar, DeviceLabels, PlainOps
<1>4. Answer(t)' = Append(Answers[t], x)
  BY <1>1 DEF ReadWord, Answer, Answers
<1>5. Board!Inform(t, Dev(t))
  <2>1. Answers' = [Answers EXCEPT ![t] = Append(Answers[t], x)]
    BY <1>4, AnswerStep
  <2>2. \/ \E v \in DOMAIN committed[Dev(t)] : x = committed[Dev(t)][v]
        \/ \E v \in 0 .. (MTCADUMMY_DMA_SIZE \div 4) - 1 : x = dmaBar[Dev(t)][v]
    BY <1>1, <1>3, WordOfBoard
  <2> HIDE DEF x
  <2> QED
    BY <2>1, <2>2, InformWord
<1> QED
  BY <1>1, <1>2, <1>5, Holding, SimulateVisit DEF DeviceLabels, Leaves

(* A word that a DMA copy takes from outside of bar 2 is a stray one: the  *)
(* offset and the size of the request wrap.                                *)
LEMMA StrayByWrap ==
  ASSUME IInv, NEW t \in Threads, pc[t] = "body", CopyDmaWord(t), NEW x,
         DmaIndex(t) \notin 0 .. (MTCADUMMY_DMA_SIZE \div 4) - 1, x \in Beyond
  PROVE  x \in Stray
<1> DEFINE c == call[t]
           first == DmaFirst(c.offset)
           len == DmaLength(c.size)
           D == MTCADUMMY_DMA_SIZE \div 4
<1>1. c \in Calls /\ c.op \in {"read", "ioctl"}
  BY CopyWordFacts DEF IInv, CallState, AtLabel
<1>2. c.offset \in Nat /\ c.size \in Nat
  BY <1>1, CallFacts
<1>3. DmaFits(c.offset, c.size) /\ idx[t] < len /\ DmaIndex(t) = first + idx[t]
  BY DEF CopyDmaWord, InDmaCopy, CopiesDma, DmaIoctlFits, DmaIndex
<1>4. idx[t] \in Nat
  BY DEF IInv, TypeOK
<1>5. ASSUME c.offset + c.size < U32 PROVE FALSE
  <2>1. first \in 0 .. D /\ len \in 0 .. D - first
    BY <1>2, <1>3, <1>5, StretchFits
  <2>2. D \in Nat
    BY HeaderAssumption
  <2>3. first + idx[t] \in 0 .. D - 1
    <3> HIDE DEF first, len, D
    <3> QED BY <1>3, <1>4, <2>1, <2>2
  <2> QED
    BY <1>3, <2>3
<1>6. Wraps(c)
  <2>1. U32 \in Nat
    BY HeaderAssumption
  <2> QED
    BY <1>1, <1>2, <1>5, <2>1 DEF Wraps
<1> QED
  BY <1>1, <1>6 DEF Stray

(* A word of a DMA copy is a word the board has, or a stray one. *)
LEMMA DmaCopySimulated ==
  ASSUME NEW t \in Threads, Driven(t), CopyDmaWord(t)
  PROVE  Simulated /\ Committed'
<1> USE DEF Driven, DeliveryInv, IInv
<1>1. /\ pc[t] = "body" /\ call[t].op \in {"read", "ioctl"} /\ call' = call
      /\ devMutex' = devMutex
  BY CopyWordFacts
<1>2. SameBars /\ Committed'
  BY <1>1, OutsideBody DEF mtcaDummy_write, WriteWord, WriteWordFaults
<1>3. PICK x \in DmaSource(Dev(t), DmaIndex(t)) :
        result' = [result EXCEPT ![t] = Append(@, x)]
  BY DEF CopyDmaWord
<1>4. Answer(t)' = Append(Answers[t], x)
  BY <1>1, <1>3 DEF Answer, Answers
<1>5. \/ \E w \in 0 .. (MTCADUMMY_DMA_SIZE \div 4) - 1 : x = dmaBar[Dev(t)][w]
      \/ x \in Stray
  <2>1. Dev(t) \in Devices
    BY <1>1, Holding DEF DeviceLabels
  <2>2. DOMAIN dmaBar[Dev(t)] = 0 .. (MTCADUMMY_DMA_SIZE \div 4) - 1
    BY <2>1 DEF TypeOK, DmaBar
  <2>3. CASE DmaIndex(t) \in 0 .. (MTCADUMMY_DMA_SIZE \div 4) - 1
    BY <2>2, <2>3, <1>3 DEF DmaSource
  <2>4. CASE DmaIndex(t) \notin 0 .. (MTCADUMMY_DMA_SIZE \div 4) - 1
    <3>1. x \in Beyond
      BY <2>2, <2>4, <1>3 DEF DmaSource
    <3> QED
      BY <1>1, <2>4, <3>1, StrayByWrap
  <2> QED
    BY <2>3, <2>4
<1>6. Board!Inform(t, Dev(t))
  <2>1. Answers' = [Answers EXCEPT ![t] = Append(Answers[t], x)]
    BY <1>4, AnswerStep
  <2>2. Answers[t] \in {<<>>, Answers[t]}
    OBVIOUS
  <2> QED
    BY <1>5, <2>1, <2>2, InformWord
<1> QED
  BY <1>1, <1>2, <1>6, Holding, SimulateVisit DEF DeviceLabels, Leaves

(* What a struct read or an ioctl delivers, by what the call asks for. *)
Outcomes(d, words) ==
  \/ words \in {<<>>, <<d>>, <<MTCADUMMY_DRV_VERSION_MAJ, MTCADUMMY_DRV_VERSION_MIN>>,
               <<MTCADUMMY_DRV_VERSION_MIN, MTCADUMMY_DRV_VERSION_MAJ,
                 MTCADUMMY_DRV_VERSION_MAJ + 1, d, MTCADUMMY_DRV_VERSION_MIN + 1>>}
  \/ \E bar : \E w \in DOMAIN BarContent(d, bar) : words = <<BarContent(d, bar)[w]>>

(* An accessible register is a word of its bar. *)
LEMMA RegisterExists ==
  ASSUME TypeOK, NEW d \in Devices, NEW bar \in Nat, NEW offset \in Nat,
         RegisterAccessible(bar, offset)
  PROVE  offset \div 4 \in DOMAIN BarContent(d, bar)
<1>1. MTCADUMMY_DMA_SIZE \in Nat /\ MTCADUMMY_DMA_SIZE % 4 = 0
  BY HeaderAssumption
<1>2. ASSUME NEW o \in Nat, NEW s \in Nat, o % 4 = 0, s % 4 = 0, o < s
      PROVE  o \div 4 \in 0 .. (s \div 4) - 1
  BY <1>2
<1>3. CASE bar = 0
  <2>1. offset < 128 /\ offset % 4 = 0
    BY <1>3 DEF RegisterAccessible, BarSize, MTCADUMMY_N_REGISTERS
  <2>2. DOMAIN systemBar[d] = 0 .. 31
    BY DEF TypeOK, SystemBar, MTCADUMMY_N_REGISTERS
  <2> QED
    BY <1>2, <1>3, <2>1, <2>2 DEF BarContent
<1>4. CASE bar = 2
  <2>1. offset < MTCADUMMY_DMA_SIZE /\ offset % 4 = 0
    BY <1>4 DEF RegisterAccessible, BarSize
  <2>2. DOMAIN dmaBar[d] = 0 .. (MTCADUMMY_DMA_SIZE \div 4) - 1
    BY DEF TypeOK, DmaBar
  <2>3. offset \div 4 \in 0 .. (MTCADUMMY_DMA_SIZE \div 4) - 1
    BY <1>1, <1>2, <2>1
  <2>4. BarContent(d, bar) = dmaBar[d]
    BY <1>4 DEF BarContent
  <2> QED
    BY <2>2, <2>3, <2>4
<1> QED
  BY <1>3, <1>4 DEF RegisterAccessible

(* What a struct read delivers is among what the board holds. *)
LEMMA StructReadOutcome ==
  ASSUME TypeOK, NEW d \in Devices, NEW c \in Calls, c.op = "read"
  PROVE  Outcomes(d, StructRead(d, c).data)
<1>1. {c.count, c.mode, c.bar, c.offset, c.size} \subseteq Nat
  BY CallFacts, DriverAssumption DEF ValidCall
<1> USE DEF RW_INFO, RW_D32, RW_DMA
<1>2. CASE c.count < sizeof_device_rw \/ c.mode \notin {RW_INFO, RW_D32, RW_DMA}
  <2>1. StructRead(d, c).data = <<>>
    BY <1>1, <1>2 DEF StructRead, sizeof_device_rw
  <2> QED
    BY <2>1 DEF Outcomes
<1>3. CASE c.count >= sizeof_device_rw /\ c.mode = RW_INFO
  <2>1. StructRead(d, c).data =
          <<MTCADUMMY_DRV_VERSION_MIN, MTCADUMMY_DRV_VERSION_MAJ, MTCADUMMY_DRV_VERSION_MAJ + 1,
            d, MTCADUMMY_DRV_VERSION_MIN + 1>>
    BY <1>1, <1>3 DEF StructRead, sizeof_device_rw
  <2> QED
    BY <2>1 DEF Outcomes
<1>4. CASE c.count >= sizeof_device_rw /\ c.mode = RW_D32
  <2>1. CASE RegisterAccessible(c.bar, c.offset)
             /\ ~mtcadummy_performPreReadAction(c.offset, c.bar)
    <3>1. StructRead(d, c).data = <<BarContent(d, c.bar)[c.offset \div 4]>>
      BY <1>1, <1>4, <2>1 DEF StructRead, sizeof_device_rw
    <3>2. c.offset \div 4 \in DOMAIN BarContent(d, c.bar)
      BY <1>1, <2>1, RegisterExists
    <3> QED
      BY <3>1, <3>2 DEF Outcomes
  <2>2. CASE ~(RegisterAccessible(c.bar, c.offset)
               /\ ~mtcadummy_performPreReadAction(c.offset, c.bar))
    <3>1. StructRead(d, c).data = <<>>
      BY <1>1, <1>4, <2>2 DEF StructRead, sizeof_device_rw
    <3> QED
      BY <3>1 DEF Outcomes
  <2> QED
    BY <2>1, <2>2
<1>5. CASE c.count >= sizeof_device_rw /\ c.mode = RW_DMA
  <2>1. StructRead(d, c).data = <<>>
    BY <1>1, <1>5 DEF StructRead, sizeof_device_rw
  <2> QED
    BY <2>1 DEF Outcomes
<1> QED
  BY <1>1, <1>2, <1>3, <1>4, <1>5 DEF sizeof_device_rw

(* So is what an ioctl delivers. *)
LEMMA IoctlDelivers ==
  ASSUME TypeOK, NEW d \in Devices, NEW c \in Calls, c.op = "ioctl"
  PROVE  Outcomes(d, IoctlOutcome(d, c).data)
<1> DEFINE table == IoctlTable[FileOps(d).ioctl]
           words == IoctlOutcome(d, c).data
<1>1. words \in {<<>>, <<d>>, <<MTCADUMMY_DRV_VERSION_MAJ, MTCADUMMY_DRV_VERSION_MIN>>}
  <2> HIDE DEF table
  <2>1. IoctlOutcome(d, c) =
          CASE c.nr = table.slot       -> [ret |-> 0, data |-> <<d>>]
            [] c.nr \in table.version  ->
                 [ret |-> 0, data |-> <<MTCADUMMY_DRV_VERSION_MAJ, MTCADUMMY_DRV_VERSION_MIN>>]
            [] c.nr = table.readDma    -> [ret |-> EFAULT, data |-> <<>>]
            [] OTHER -> [ret |-> ENOTTY, data |-> <<>>]
    BY DEF IoctlOutcome, table
  <2> QED
    BY <2>1
<1> QED
  BY <1>1 DEF Outcomes

(* Such an outcome is an answer the board may give. *)
LEMMA OutcomeInforms ==
  ASSUME NEW t \in Threads, Driven(t), pc[t] = "body", NEW words, Outcomes(Dev(t), words),
         Answers' = [Answers EXCEPT ![t] = words]
  PROVE  Board!Inform(t, Dev(t))
<1> DEFINE d == Dev(t)
<1>1. CASE words \in {<<>>, <<d>>, <<MTCADUMMY_DRV_VERSION_MAJ, MTCADUMMY_DRV_VERSION_MIN>>,
                      <<MTCADUMMY_DRV_VERSION_MIN, MTCADUMMY_DRV_VERSION_MAJ,
                        MTCADUMMY_DRV_VERSION_MAJ + 1, d, MTCADUMMY_DRV_VERSION_MIN + 1>>}
  BY <1>1, InformIdentity
<1>2. CASE \E bar : \E w \in DOMAIN BarContent(d, bar) : words = <<BarContent(d, bar)[w]>>
  <2>1. PICK bar, w : w \in DOMAIN BarContent(d, bar) /\ words = <<BarContent(d, bar)[w]>>
    BY <1>2
  <2> DEFINE x == BarContent(d, bar)[w]
  <2>2. \/ \E v \in DOMAIN committed[d] : x = committed[d][v]
        \/ \E v \in 0 .. (MTCADUMMY_DMA_SIZE \div 4) - 1 : x = dmaBar[d][v]
    BY <2>1, WordOfBoard
  <2>3. words = Append(<<>>, x)
    BY <2>1
  <2> HIDE DEF x
  <2> QED
    BY <2>2, <2>3, InformWord
<1> QED
  BY <1>1, <1>2 DEF Outcomes

(* Struct reads and ioctls. *)
LEMMA ReadSimulated ==
  ASSUME NEW t \in Threads, Driven(t), mtcaDummy_read(t) \/ mtcaDummy_ioctl(t)
  PROVE  Simulated /\ Committed'
<1> USE DEF Driven, DeliveryInv, IInv
<1>1. /\ pc[t] = "body" /\ call[t].op \in {"read", "ioctl"} /\ call[t] \in Calls /\ call' = call
  BY DEF mtcaDummy_read, mtcaDummy_ioctl, CallState, AtLabel
<1>2. SameBars /\ Committed'
  BY <1>1, OutsideBody DEF mtcaDummy_write, WriteWord, WriteWordFaults
<1>3. Dev(t) \in Devices /\ devMutex[Dev(t)] = t
  BY <1>1, Holding DEF DeviceLabels
<1>4. Outcomes(Dev(t), <<>>)
  BY DEF Outcomes
<1>5. PICK words : result' = [result EXCEPT ![t] = words] /\ Outcomes(Dev(t), words)
  <2>1. CASE mtcaDummy_read(t)
    <3>1. Outcomes(Dev(t), StructRead(Dev(t), call[t]).data)
      BY <1>1, <1>3, <2>1, StructReadOutcome DEF mtcaDummy_read
    <3>2. PICK fault \in Faults :
            result' = [result EXCEPT ![t] =
                         (IF fault THEN [ret |-> EFAULT, data |-> <<>>]
                                   ELSE StructRead(Dev(t), call[t])).data]
      BY <2>1 DEF mtcaDummy_read
    <3> QED
      BY <1>4, <3>1, <3>2
  <2>2. CASE mtcaDummy_ioctl(t)
    <3> DEFINE normal == IoctlOutcome(Dev(t), call[t])
    <3>1. Outcomes(Dev(t), normal.data)
      BY <1>1, <1>3, <2>2, IoctlDelivers DEF mtcaDummy_ioctl
    <3>2. PICK fault \in Faults :
            result' = [result EXCEPT ![t] =
                         (IF fault /\ normal.ret # ENOTTY THEN [ret |-> EFAULT, data |-> <<>>]
                                                          ELSE normal).data]
      BY <2>2 DEF mtcaDummy_ioctl
    <3> HIDE DEF normal
    <3> QED
      BY <1>4, <3>1, <3>2
  <2> QED
    BY <2>1, <2>2
<1>6. Answer(t)' = words
  BY <1>1, <1>5 DEF Answer
<1>7. Board!Inform(t, Dev(t))
  BY <1>1, <1>5, <1>6, AnswerStep, OutcomeInforms
<1>8. Leaves(Dev(t))
  BY DEF mtcaDummy_read, mtcaDummy_ioctl, Finish, Leaves
<1> QED
  BY <1>2, <1>3, <1>7, <1>8, SimulateVisit
-----------------------------------------------------------------------------
(* The write handlers.  A store to bar 0 is not seen until the firmware    *)
(* has reacted; one to bar 2 is a write of the board.                      *)
LEMMA StoreSimulated ==
  ASSUME NEW t \in Threads, Driven(t), mtcaDummy_write(t) \/ WriteWord(t)
  PROVE  Simulated /\ Committed'
<1> USE DEF Driven, DeliveryInv, IInv
<1> DEFINE w == CurOffset(t) \div 4
           v == CurData(t)
           d == file[t]
<1>1. /\ pc[t] = "body" /\ call[t].op \in {"write", "pwrite"} /\ call' = call
      /\ file' = file /\ result' = result
      /\ Store(Dev(t), CurBar(t), CurOffset(t), CurData(t))
      /\ call[t].op = "pwrite" => idx[t] < WordsToTransfer(t)
  BY DEF mtcaDummy_write, WriteWord
<1>2. d \in Devices /\ Dev(t) = d /\ devMutex[d] = t /\ committed[d] = systemBar[d]
  BY <1>1, Holding DEF Dev, DeviceLabels
<1>3. Answers' = Answers
  BY <1>1, AnswerStep DEF Answer
<1>4. CASE CurBar(t) = 0
  <2>1. pc'[t] = "fw" /\ idx' = idx /\ devMutex' = devMutex
    BY <1>4 DEF mtcaDummy_write, WriteWord, Goto, TypeOK
  <2>2. /\ systemBar' = [systemBar EXCEPT ![d] = [systemBar[d] EXCEPT ![w] = v]]
        /\ dmaBar' = dmaBar
    BY <1>1, <1>2, <1>4 DEF Store
  <2>3. committed' = committed /\ Committed'
    BY <1>1, <1>2, <2>1, <2>2, CommitStore
  <2> QED
    BY <1>3, <2>1, <2>2, <2>3, SimulateStutter DEF SameBars
<1>5. CASE CurBar(t) # 0
  <2>1. Leaves(d) /\ pc'[t] \notin FirmwareLabels
    BY <1>2, <1>5 DEF mtcaDummy_write, WriteWord, Finish, Return, Goto, Leaves, TypeOK, FirmwareLabels
  <2>2. dmaBar' = [dmaBar EXCEPT ![d][w] = v] /\ systemBar' = systemBar
    BY <1>1, <1>2, <1>5 DEF Store
  <2>3. committed' = committed /\ Committed'
    BY <1>1, <2>1, <2>2, CommitQuiet DEF FirmwareLabels
  <2> DEFINE r == [bar |-> CurBar(t), word |-> w, value |-> v]
  <2>4. r \in ClientWrites
    BY <1>1, ClientWritesWord DEF DeviceLabels
  <2>5. Board!Change(d)
    <3>1. r.bar # 0 /\ r.word = w /\ r.value = v
      BY <1>5
    <3>2. FALSE \in BOOLEAN
      OBVIOUS
    <3> HIDE DEF r, w, v
    <3> QED
      BY <1>2, <2>2, <2>3, <2>4, <3>1, <3>2, ChangeByWrite
  <2> QED
    BY <1>2, <1>3, <2>1, <2>3, <2>5, SimulateVisit
<1> QED
  BY <1>4, <1>5

(* A word that copy_from_user copies in part. *)
LEMMA FaultSimulated ==
  ASSUME NEW t \in Threads, Driven(t), WriteWordFaults(t)
  PROVE  Simulated /\ Committed'
<1> USE DEF Driven, DeliveryInv, IInv
<1> DEFINE w == CurOffset(t) \div 4
           d == file[t]
           r == [bar |-> CurBar(t), word |-> w, value |-> CurData(t)]
<1>1. /\ pc[t] = "body" /\ call[t].op = "pwrite" /\ call' = call /\ result' = result
      /\ idx[t] < WordsToTransfer(t) /\ pc'[t] = "done"
  BY DEF WriteWordFaults, Finish, Return, Goto, TypeOK
<1>2. d \in Devices /\ Dev(t) = d /\ devMutex[d] = t /\ committed[d] = systemBar[d]
  BY <1>1, Holding DEF Dev, DeviceLabels
<1>3. PICK m \in PartialCopies : Store(d, CurBar(t), CurOffset(t), CurData(t) % m)
  BY <1>2 DEF WriteWordFaults
<1> DEFINE v == CurData(t) % m
<1>4. Answers' = Answers /\ Leaves(d)
  BY <1>1, <1>2, AnswerStep DEF Answer, WriteWordFaults, Finish, Leaves
<1>5. r \in ClientWrites /\ r.bar = CurBar(t) /\ r.word = w /\ r.value = CurData(t)
  BY <1>1, ClientWritesWord DEF DeviceLabels
<1>6. CASE CurBar(t) = 0
  <2>1. /\ systemBar' = [systemBar EXCEPT ![d] = [systemBar[d] EXCEPT ![w] = v]]
        /\ dmaBar' = dmaBar
    BY <1>3, <1>6 DEF Store
  <2>2. systemBar'[d] = [committed[d] EXCEPT ![w] = v]
        /\ \A e \in Devices : e # d => systemBar'[e] = systemBar[e]
    BY <1>2, <2>1 DEF TypeOK
  <2>3. committed' = [committed EXCEPT ![d] = systemBar'[d]] /\ Committed'
    BY <1>1, <1>2, <2>2, CommitSettled DEF DeviceLabels, FirmwareLabels
  <2>4. committed' = [committed EXCEPT ![d][w] = v]
    BY <2>2, <2>3
  <2>5. Board!Change(d)
    <3> HIDE DEF r, w
    <3> QED BY <1>2, <1>5, <1>6, <2>1, <2>4, ChangeByCut
  <2> QED
    BY <1>2, <1>4, <2>3, <2>5, SimulateVisit
<1>7. CASE CurBar(t) # 0
  <2>1. dmaBar' = [dmaBar EXCEPT ![d][w] = v] /\ systemBar' = systemBar
    BY <1>3, <1>7 DEF Store
  <2>2. committed' = committed /\ Committed'
    BY <1>1, <2>1, CommitQuiet DEF FirmwareLabels
  <2>3. Board!Change(d)
    <3> HIDE DEF r, w
    <3> QED BY <1>2, <1>5, <1>7, <2>1, <2>2, ChangeByCut
  <2> QED
    BY <1>2, <1>4, <2>2, <2>3, SimulateVisit
<1> QED
  BY <1>6, <1>7

(* The reaction of the firmware, and a signal in place of it. *)
LEMMA FirmwareSimulated ==
  ASSUME NEW t \in Threads, Driven(t), FirmwareAction(t) \/ FirmwareInterrupted(t)
  PROVE  Simulated /\ Committed'
<1> USE DEF Driven, DeliveryInv, IInv
<1> DEFINE w == CurOffset(t) \div 4
           d == file[t]
           v == CurData(t)
           r == [bar |-> CurBar(t), word |-> w, value |-> v]
<1>1. /\ pc[t] \in FirmwareLabels /\ call' = call /\ result' = result
      /\ pc'[t] \notin FirmwareLabels
  BY DEF FirmwareAction, FirmwareInterrupted, FirmwareLabels, Finish, Return, Goto, TypeOK
<1>2. d \in Devices /\ Dev(t) = d /\ devMutex[d] = t
  BY <1>1, Holding, DevFacts DEF DeviceLabels
<1>3. /\ call[t].op \in {"write", "pwrite"} /\ CurBar(t) = 0
      /\ call[t].op = "write" => StructWriteOk(call[t])
      /\ call[t].op = "pwrite" => idx[t] < WordsToTransfer(t)
  BY <1>1 DEF CallState, AtLabel, Checked
<1>4. systemBar[d] = [committed[d] EXCEPT ![w] = v]
  BY <1>1 DEF Committed, Pending
<1>5. Answers' = Answers /\ Leaves(d)
  BY <1>1, <1>2, AnswerStep
  DEF Answer, FirmwareAction, FirmwareInterrupted, Finish, Leaves
<1>6. r \in ClientWrites /\ r.bar = 0 /\ r.word = w /\ r.value = v
  BY <1>1, <1>3, ClientWritesWord DEF DeviceLabels
<1>7. 4 * w = CurOffset(t)
  BY <1>1, <1>3, CurOffsetAligned DEF DeviceLabels
<1>8. CASE FirmwareInterrupted(t)
  <2>1. systemBar' = systemBar /\ dmaBar' = dmaBar
    BY <1>8 DEF FirmwareInterrupted, bars
  <2>2. committed' = [committed EXCEPT ![d] = systemBar[d]] /\ Committed'
    BY <1>1, <1>2, <2>1, CommitSettled DEF DeviceLabels
  <2>3. committed' = [committed EXCEPT ![d][w] = v]
    BY <1>4, <2>2
  <2>4. Board!Change(d)
    <3> HIDE DEF r, w, v
    <3> QED BY <1>2, <1>6, <2>1, <2>3, ChangeByCut
  <2> QED
    BY <1>2, <1>5, <2>2, <2>4, SimulateVisit
<1>9. CASE FirmwareAction(t)
  <2> DEFINE S == mtcadummy_performActionOnWrite(systemBar[d], CurOffset(t), spiFail[t])
  <2>1. /\ systemBar' = [systemBar EXCEPT ![d] = S]
        /\ dmaBar' = [dmaBar EXCEPT ![d] = SampledDma(systemBar[d], dmaBar[d], CurOffset(t))]
    BY <1>2, <1>9 DEF FirmwareAction
  <2>2. systemBar'[d] = S /\ \A e \in Devices : e # d => systemBar'[e] = systemBar[e]
    <3> HIDE DEF S
    <3> QED BY <1>2, <2>1 DEF TypeOK
  <2>3. committed' = [committed EXCEPT ![d] = S] /\ Committed'
    BY <1>1, <1>2, <2>2, CommitSettled DEF DeviceLabels
  <2>4. spiFail[t] \in BOOLEAN
    BY DEF TypeOK
  <2>5. Board!Change(d)
    <3> DEFINE stored == [committed[d] EXCEPT ![w] = v]
    <3>1. /\ committed' = [committed EXCEPT ![d] =
                             mtcadummy_performActionOnWrite(stored, 4 * w, spiFail[t])]
          /\ dmaBar' = [dmaBar EXCEPT ![d] = SampledDma(stored, dmaBar[d], 4 * w)]
      BY <1>4, <1>7, <2>1, <2>3
    <3> HIDE DEF r, w, v
    <3> QED
      BY <1>2, <1>6, <2>4, <3>1, ChangeByWrite
  <2> QED
    BY <1>2, <1>5, <2>3, <2>5, SimulateVisit
<1> QED
  BY <1>8, <1>9
-----------------------------------------------------------------------------
(* Every step of the driver. *)
LEMMA StepSimulated ==
  ASSUME NEW t \in Threads, Driven(t)
  PROVE  Simulated /\ Committed'
<1>1. CASE mtcaDummy_write(t) \/ WriteWord(t)
  BY <1>1, StoreSimulated
<1>2. CASE WriteWordFaults(t)
  BY <1>2, FaultSimulated
<1>3. CASE FirmwareAction(t) \/ FirmwareInterrupted(t)
  BY <1>3, FirmwareSimulated
<1>4. CASE mtcaDummy_read(t) \/ mtcaDummy_ioctl(t)
  BY <1>4, ReadSimulated
<1>5. CASE ~mtcaDummy_write(t) /\ ~WriteWord(t) /\ ~WriteWordFaults(t)
           /\ ~FirmwareAction(t) /\ ~FirmwareInterrupted(t)
           /\ ~mtcaDummy_read(t) /\ ~mtcaDummy_ioctl(t)
  BY <1>5, UnseenSteps, EndSimulated, LeaveSimulated, AreaReadSimulated, DmaCopySimulated
  DEF Driven, ThreadStep, Signal, Step
<1> QED
  BY <1>1, <1>2, <1>3, <1>4, <1>5

(* The history variable does not restrict the driver. *)
LEMMA AtomicImplementsDriver == AtomicSpec => Spec
<1>1. AtomicInit => Init
  BY DEF AtomicInit
<1>2. [AtomicNext]_atomicVars => [Next]_vars
  BY DEF AtomicNext, atomicVars
<1> QED
  BY <1>1, <1>2, PTL DEF AtomicSpec, Spec

(* The driver starts as the board does. *)
LEMMA InitCommitted ==
  ASSUME AtomicInit
  PROVE  Committed /\ Board!Init
<1>1. Init /\ committed = systemBar /\ IInv
  BY InitIInv DEF AtomicInit
<1>2. \A t \in Threads : pc[t] \notin FirmwareLabels
  BY <1>1 DEF Init, FirmwareLabels
<1>3. Committed
  BY <1>1, <1>2 DEF Committed, IInv, TypeOK
<1>4. Board!mtcadummy_initialiseSystemBar = mtcadummy_initialiseSystemBar
  <2>1. Board!ReadOnlyValue = ReadOnlyValue
    BY DEF Board!ReadOnlyValue, ReadOnlyValue, Board!MTCADUMMY_WORD_FIRMWARE,
           MTCADUMMY_WORD_FIRMWARE, Board!MTCADUMMY_WORD_COMPILATION,
           MTCADUMMY_WORD_COMPILATION, Board!MTCADUMMY_WORD_DUMMY, MTCADUMMY_WORD_DUMMY
  <2> QED
    BY <2>1 DEF Board!mtcadummy_initialiseSystemBar, mtcadummy_initialiseSystemBar,
                Board!MTCADUMMY_N_REGISTERS, MTCADUMMY_N_REGISTERS,
                Board!MTCADUMMY_WORD_CLK_RST, MTCADUMMY_WORD_CLK_RST,
                Board!MTCADUMMY_BROKEN_WRITE, MTCADUMMY_BROKEN_WRITE
<1>5. [t \in Threads |-> Answer(t)] = [t \in Threads |-> <<>>]
  BY <1>1 DEF Init, Answer
<1>6. Board!Init
  BY <1>1, <1>4, <1>5 DEF Board!Init, Board!SampleWords, Init
<1> QED
  BY <1>3, <1>6

(* Every step of the driver is a step of the board or a stutter. *)
LEMMA NextSimulated ==
  ASSUME DeliveryInv, DeliveryInv', Committed, [AtomicNext]_atomicVars
  PROVE  [Board!Next]_(Board!boardVars) /\ Committed'
<1>1. CASE UNCHANGED atomicVars
  <2>1. UNCHANGED <<vars, committed>>
    BY <1>1 DEF atomicVars
  <2>2. Committed'
    BY <2>1 DEF vars, Committed, InFirmware, Pending, CurOffset, CurData
  <2>3. UNCHANGED Board!boardVars
    BY <2>1 DEF vars, Board!boardVars, Answer
  <2> QED
    BY <2>2, <2>3
<1>2. CASE AtomicNext
  <2>1. PICK t \in Threads : ThreadStep(t)
    BY <1>2 DEF AtomicNext, Next
  <2>2. Driven(t)
    BY <1>2, <2>1 DEF Driven, AtomicNext, CommitRule, DeliveryInv, IInv
  <2> QED
    BY <2>2, StepSimulated DEF Simulated
<1> QED
  BY <1>1, <1>2

(* The driver implements the board: for any number of threads and devices, *)
(* a register write and the reaction to it are one step, an area transfer  *)
(* has the board to itself, and what a call delivers is what the board     *)
(* holds.                                                                  *)
THEOREM Refinement == AtomicSpec => ImplementsBoard
<1>1. AtomicInit => Committed /\ Board!Init
  BY InitCommitted
<1>2. DeliveryInv /\ DeliveryInv' /\ Committed /\ [AtomicNext]_atomicVars
        => [Board!Next]_(Board!boardVars) /\ Committed'
  BY NextSimulated
<1> QED
  BY <1>1, <1>2, AtomicImplementsDriver, Delivery, PTL DEF AtomicSpec, ImplementsBoard, Board!Spec
=============================================================================
