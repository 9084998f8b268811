----------------------- MODULE MtcaDummyCallProofs -----------------------
(***************************************************************************)
(* Proofs about what a system call delivers and returns: the words of an   *)
(* area read, those of a DMA read and the bars of a dump, the count of an  *)
(* area transfer, the effect of fault injection on the calls that run while it is switched,   *)
(* and the devices a dump prints while they are opened and closed.         *)
(***************************************************************************)
EXTENDS MtcaDummyDump, MtcaDummyProofs

(* A step of t leaves what the other threads have been given and will      *)
(* return alone.                                                           *)
LEMMA OthersKeep ==
  ASSUME TypeOK, DOMAIN result = Threads, NEW t \in Threads, ThreadStep(t)
  PROVE  /\ DOMAIN result' = Threads
         /\ \A u \in Threads \ {t} :
              result'[u] = result[u] /\ ret'[u] = ret[u] /\ spiFail'[u] = spiFail[u]
<1> USE DEF TypeOK, Finish, Return, Goto, locals
<1>1. CASE (\E c \in Calls : Enter(t, c)) \/ LockControl(t) \/ LockDevice(t) \/ Exit(t)
  BY <1>1 DEF Enter, LockControl, LockDevice, Exit
<1>2. CASE Signal(t)
  BY <1>2 DEF Signal, GateInterrupted, DeviceInterrupted, FirmwareInterrupted, ProcWriteInterrupted
<1>3. CASE NullOperation(t) \/ PassGate(t) \/ Install(t) \/ Release(t)
  BY <1>3 DEF NullOperation, PassGate, Install, Release
<1>4. CASE mtcaDummy_read(t) \/ mtcaDummy_write_rejected(t) \/ mtcaDummy_write(t)
  BY <1>4 DEF mtcaDummy_read, mtcaDummy_write_rejected, mtcaDummy_write
<1>5. CASE CheckTransfer(t) \/ ReadWord(t) \/ ReadWordFails(t)
  BY <1>5 DEF CheckTransfer, ReadWord, ReadWordFails
<1>6. CASE WriteWord(t) \/ WriteWordFaults(t) \/ TransferDone(t)
  BY <1>6 DEF WriteWord, WriteWordFaults, TransferDone
<1>7. CASE SampleSpiError(t) \/ FirmwareAction(t)
  BY <1>7 DEF SampleSpiError, FirmwareAction
<1>8. CASE IoctlCheck(t) \/ mtcaDummy_ioctl(t) \/ ProcWriteCopy(t) \/ SetControl(t)
  BY <1>8 DEF IoctlCheck, mtcaDummy_ioctl, ProcWriteCopy, SetControl
<1>9. CASE SeqShow(t) \/ PrintSystemBar(t) \/ PrintDmaBar(t) \/ SeqStop(t)
  BY <1>9 DEF SeqShow, PrintSystemBar, PrintDmaBar, SeqStop
<1>10. CASE CopyDmaWord(t)
  BY <1>10 DEF CopyDmaWord
<1>11. CASE CopyDmaEnds(t)
  BY <1>11, CopyEndFacts
<1> QED
  BY <1>1, <1>2, <1>3, <1>4, <1>5, <1>6, <1>7, <1>8, <1>9, <1>10, <1>11 DEF ThreadStep, Step
-----------------------------------------------------------------------------
(* What a thread has been given, by the point it has reached.  A buffer is *)
(* empty until the handler holds devMutex; an area read and a DMA copy     *)
(* have delivered as many words as they have advanced, and those of the    *)
(* bar are still there; a dump has printed the bar that is still there.    *)
DmaDelivered(t) ==
  /\ result[t] \in Seq(Word)
  /\ Len(result[t]) = idx[t]
  /\ \A k \in 1 .. Len(result[t]) :
       LET w == DmaFirst(call[t].offset) + k - 1 IN
         w \in DOMAIN dmaBar[Dev(t)] => result[t][k] = dmaBar[Dev(t)][w]

Delivered(t) ==
  /\ pc[t] \notin {"body", "done"} => result[t] = <<>>
  /\ pc[t] = "body" /\ call[t].op \notin {"pread", "dump"} /\ ~InDmaCopy(t) => result[t] = <<>>
  /\ InDmaCopy(t) => DmaDelivered(t)
  /\ pc[t] = "body" /\ call[t].op = "dump" => result[t] \in {<<>>, <<systemBar[Dev(t)]>>}
  /\ pc[t] = "body" /\ call[t].op = "pread" =>
       /\ result[t] \in Seq(Word)
       /\ Len(result[t]) = idx[t]
       /\ \A k \in 1 .. Len(result[t]) :
            result[t][k] = BarContent(Dev(t), CurBar(t))[(OffsetOf(call[t].pos) \div 4) + k - 1]

(* A transfer starts at its first word. *)
Advanced(t) ==
  /\ pc[t] = "idle" => call[t] = NoCall
  /\ pc[t] \notin {"done"} \cup DeviceLabels /\ call[t].op # "dump" => idx[t] = 0

DeliveryInv ==
  /\ IInv
  /\ DOMAIN result = Threads
  /\ \A t \in Threads : Advanced(t) /\ Delivered(t)

(* The bars of the device a thread has locked do not change under it. *)
LEMMA BarsStay ==
  ASSUME IInv, NEW t \in Threads, ThreadStep(t), NEW u \in Threads \ {t}, pc[u] \in DeviceLabels
  PROVE  systemBar'[Dev(u)] = systemBar[Dev(u)] /\ dmaBar'[Dev(u)] = dmaBar[Dev(u)]
<1> USE DEF IInv
<1>1. Dev(u) \in Devices /\ devMutex[Dev(u)] = u
  BY DevFacts DEF LockDiscipline
<1> QED
  BY <1>1, BarStep

(* What others have been given survives a step of t. *)
LEMMA DeliveredFrame ==
  ASSUME DeliveryInv, NEW t \in Threads, ThreadStep(t), NEW u \in Threads \ {t}
  PROVE  Advanced(u)' /\ Delivered(u)'
<1> USE DEF DeliveryInv, IInv
<1>1. /\ pc'[u] = pc[u] /\ call'[u] = call[u] /\ file'[u] = file[u] /\ idx'[u] = idx[u]
      /\ result'[u] = result[u]
  BY OthersUnchanged, OthersKeep
<1>2. pc[u] = "body" => systemBar'[Dev(u)] = systemBar[Dev(u)] /\ dmaBar'[Dev(u)] = dmaBar[Dev(u)]
  BY BarsStay DEF DeviceLabels
<1>3. Dev(u)' = Dev(u) /\ CurBar(u)' = CurBar(u)
  BY <1>1 DEF Dev, CurBar
<1>4. Advanced(u) /\ Delivered(u)
  OBVIOUS
<1>5. Advanced(u)'
  BY <1>1, <1>4 DEF Advanced
<1>6. Delivered(u)'
  <2>1. pc[u] = "body" => BarContent(Dev(u), CurBar(u))' = BarContent(Dev(u), CurBar(u))
    BY <1>2, <1>3 DEF BarContent
  <2>2. InDmaCopy(u)' <=> InDmaCopy(u)
    BY <1>1, <1>3 DEF InDmaCopy, CopiesDma
  <2>3. InDmaCopy(u) => DmaDelivered(u)'
    <3>1. InDmaCopy(u) => pc[u] = "body" /\ DmaDelivered(u)
      BY <1>4 DEF InDmaCopy, Delivered
    <3> QED
      BY <1>1, <1>2, <1>3, <3>1 DEF DmaDelivered
  <2> QED
    BY <1>1, <1>2, <1>3, <1>4, <2>1, <2>2, <2>3 DEF Delivered
<1> QED
  BY <1>5, <1>6

(* The next word of an area read: it is the next one of the bar. *)
LEMMA NextWordDelivered ==
  ASSUME DeliveryInv, NEW t \in Threads, ReadWord(t)
  PROVE  Advanced(t)' /\ Delivered(t)'
<1> USE DEF DeliveryInv, IInv
<1> DEFINE o == OffsetOf(call[t].pos)
           B == BarContent(Dev(t), CurBar(t))
           s == result[t]
           x == B[CurOffset(t) \div 4]
<1>1. /\ pc[t] = "body" /\ call[t].op = "pread" /\ idx[t] \in Nat /\ call[t] \in Calls
      /\ pc'[t] = "body" /\ call'[t] = call[t] /\ file'[t] = file[t]
      /\ idx'[t] = idx[t] + 1 /\ result'[t] = Append(s, x)
      /\ systemBar' = systemBar /\ dmaBar' = dmaBar
  BY DEF ReadWord, TypeOK, bars, CallState, AtLabel
<1>2. CurOffset(t) \div 4 \in DOMAIN B
  BY <1>1, InsideBar DEF TransferInsideBar, ReadWord, DeviceLabels, PlainOps
<1>3. Dev(t) \in Devices
  BY <1>1, DevFacts DEF DeviceLabels
<1>4. x \in Word
  <2>1. systemBar[Dev(t)] \in SystemBar /\ dmaBar[Dev(t)] \in DmaBar
    BY <1>3 DEF TypeOK
  <2>2. \A w \in DOMAIN B : B[w] \in Word
    BY <2>1 DEF BarContent, SystemBar, DmaBar
  <2> QED
    BY <1>2, <2>2
<1>5. s \in Seq(Word) /\ Len(s) = idx[t]
      /\ \A k \in 1 .. Len(s) : s[k] = B[(o \div 4) + k - 1]
  BY <1>1 DEF Delivered
<1>6. o \in Nat
  BY <1>1, CallFacts, OffsetType DEF PlainOps
<1>7. CurOffset(t) \div 4 = (o \div 4) + idx[t]
  <2>1. CurOffset(t) = o + 4 * idx[t]
    BY <1>1 DEF CurOffset
  <2>2. ASSUME NEW a \in Nat, NEW i \in Nat PROVE (a + 4 * i) \div 4 = (a \div 4) + i
    OBVIOUS
  <2> QED BY <1>1, <1>6, <2>1, <2>2
<1>8. Dev(t)' = Dev(t) /\ CurBar(t)' = CurBar(t) /\ BarContent(Dev(t), CurBar(t))' = B
  BY <1>1 DEF Dev, CurBar, BarContent
<1>9. Append(s, x) \in Seq(Word) /\ Len(Append(s, x)) = idx[t] + 1
      /\ \A k \in 1 .. Len(Append(s, x)) : Append(s, x)[k] = B[(o \div 4) + k - 1]
  <2>1. x = B[(o \div 4) + (idx[t] + 1) - 1]
    BY <1>1, <1>6, <1>7
  <2> HIDE DEF s, x, B, o
  <2>2. Append(s, x) \in Seq(Word) /\ Len(Append(s, x)) = idx[t] + 1
    BY <1>4, <1>5
  <2>3. ASSUME NEW k \in 1 .. Len(Append(s, x))
        PROVE  Append(s, x)[k] = B[(o \div 4) + k - 1]
    <3>1. CASE k = idx[t] + 1
      <4>1. Append(s, x)[k] = x
        BY <1>4, <1>5, <3>1
      <4> QED
        BY <2>1, <3>1, <4>1
    <3>2. CASE k # idx[t] + 1
      <4>1. k \in 1 .. Len(s)
        BY <1>1, <1>5, <2>2, <3>2
      <4>2. Append(s, x)[k] = s[k]
        BY <1>4, <1>5, <4>1
      <4> QED
        BY <1>5, <4>1, <4>2
    <3> QED
      BY <3>1, <3>2
  <2> QED
    BY <2>2, <2>3
<1> HIDE DEF s, x
<1>10. ~InDmaCopy(t)'
  BY <1>1 DEF InDmaCopy, CopiesDma
<1> QED
  BY <1>1, <1>8, <1>9, <1>10 DEF Delivered, Advanced, DeviceLabels

(* The words of s are those of f from a on, where f has any. *)
StretchOf(s, f, a) == \A k \in 1 .. Len(s) : a + k - 1 \in DOMAIN f => s[k] = f[a + k - 1]

(* A sequence that follows a function keeps doing so with its next value. *)
LEMMA FollowOn ==
  ASSUME NEW s \in Seq(Word), NEW x \in Word, NEW f, NEW a \in Nat,
         StretchOf(s, f, a), a + Len(s) \in DOMAIN f => x = f[a + Len(s)]
  PROVE  /\ Append(s, x) \in Seq(Word) /\ Len(Append(s, x)) = Len(s) + 1
         /\ StretchOf(Append(s, x), f, a)
<1>1. Append(s, x) \in Seq(Word) /\ Len(Append(s, x)) = Len(s) + 1 /\ Len(s) \in Nat
  OBVIOUS
<1>2. ASSUME NEW k \in 1 .. Len(Append(s, x)), a + k - 1 \in DOMAIN f
      PROVE  Append(s, x)[k] = f[a + k - 1]
  <2>1. CASE k = Len(s) + 1
    <3>1. a + k - 1 = a + Len(s) /\ Append(s, x)[k] = x
      BY <1>1, <2>1
    <3> QED
      BY <1>2, <3>1
  <2>2. CASE k # Len(s) + 1
    <3>1. k \in 1 .. Len(s)
      BY <1>1, <2>2
    <3>2. Append(s, x)[k] = s[k]
      BY <3>1
    <3> QED
      BY <1>2, <3>1, <3>2 DEF StretchOf
  <2> QED
    BY <2>1, <2>2
<1> QED
  BY <1>1, <1>2 DEF StretchOf

(* The next word of a DMA copy: it is the next one of bar 2, unless the    *)
(* copy has left the bar.                                                  *)
LEMMA NextDmaWordDelivered ==
  ASSUME DeliveryInv, NEW t \in Threads, CopyDmaWord(t)
  PROVE  Advanced(t)' /\ Delivered(t)'
<1> USE DEF DeliveryInv, IInv
<1> DEFINE B == dmaBar[Dev(t)]
           s == result[t]
           a == DmaFirst(call[t].offset)
<1>1. /\ pc[t] = "body" /\ call[t].op \in {"read", "ioctl"} /\ idx[t] \in Nat /\ call[t] \in Calls
      /\ pc'[t] = "body" /\ call'[t] = call[t] /\ file'[t] = file[t] /\ idx'[t] = idx[t] + 1
      /\ dmaBar' = dmaBar
  BY CopyWordFacts DEF TypeOK, CallState, AtLabel
<1>2. Dev(t)' = Dev(t) /\ Dev(t) \in Devices
  BY <1>1, DevFacts DEF Dev, DeviceLabels
<1>3. InDmaCopy(t) /\ InDmaCopy(t)'
  BY <1>1, <1>2 DEF CopyDmaWord, InDmaCopy, CopiesDma
<1>4. DmaDelivered(t)
  BY <1>3 DEF Delivered
<1>5. PICK x \in DmaSource(Dev(t), a + idx[t]) : result'[t] = Append(s, x)
  BY DEF CopyDmaWord, DmaIndex
<1>6. B \in DmaBar
  BY <1>2 DEF TypeOK
<1>7. x \in Word /\ (a + idx[t] \in DOMAIN B => x = B[a + idx[t]])
  <2>1. \A w \in DOMAIN B : B[w] \in Word
    BY <1>6 DEF DmaBar
  <2> QED
    BY <1>5, <2>1, DriverAssumption DEF DmaSource
<1>8. a \in Nat
  BY <1>1, CallFacts DEF DmaFirst
<1>9. s \in Seq(Word) /\ Len(s) = idx[t] /\ StretchOf(s, B, a)
  BY <1>4 DEF DmaDelivered, StretchOf
<1> HIDE DEF B, s, a
<1>10. /\ Append(s, x) \in Seq(Word) /\ Len(Append(s, x)) = idx[t] + 1
       /\ StretchOf(Append(s, x), B, a)
  <2>1. a + Len(s) \in DOMAIN B => x = B[a + Len(s)]
    BY <1>7, <1>9
  <2>2. /\ Append(s, x) \in Seq(Word) /\ Len(Append(s, x)) = Len(s) + 1
        /\ StretchOf(Append(s, x), B, a)
    BY <1>7, <1>8, <1>9, <2>1, FollowOn, Zenon
  <2> QED
    BY <1>9, <2>2
<1>11. DmaDelivered(t)'
  <2>1. a' = a /\ B' = B
    BY <1>1, <1>2 DEF a, B
  <2> QED
    BY <1>1, <1>5, <1>10, <2>1 DEF DmaDelivered, StretchOf, a, B
<1> QED
  BY <1>1, <1>3, <1>11 DEF Delivered, Advanced, DeviceLabels

(* A step of t that is not the next word of a read. *)
LEMMA DeliveredOwn ==
  ASSUME DeliveryInv, NEW t \in Threads, ThreadStep(t), ~ReadWord(t), ~CopyDmaWord(t)
  PROVE  Advanced(t)' /\ Delivered(t)'
<1> USE DEF DeliveryInv, IInv
<1>1. /\ AtLabel(t) /\ Advanced(t) /\ Delivered(t)
      /\ pc \in [Threads -> Labels] /\ idx \in [Threads -> Nat] /\ DOMAIN result = Threads
      /\ call \in [Threads -> Calls \cup {NoCall}]
  BY DEF CallState, TypeOK
<1>2. ASSUME pc'[t] = "done"
      PROVE  Advanced(t)' /\ Delivered(t)'
  BY <1>2 DEF Advanced, Delivered, InDmaCopy
<1> USE DEF Goto, Finish, Return
<1>16. CASE CopyDmaEnds(t)
  <2>1. pc'[t] = "done"
    BY <1>1, <1>16, CopyEndFacts
  <2> QED
    BY <1>2, <2>1
<1> USE DEF InDmaCopy
<1>3. CASE Signal(t) \/ NullOperation(t) \/ Install(t) \/ Release(t) \/ mtcaDummy_read(t)
           \/ mtcaDummy_write_rejected(t) \/ ReadWordFails(t) \/ WriteWordFaults(t)
           \/ TransferDone(t) \/ mtcaDummy_ioctl(t) \/ SetControl(t) \/ SeqStop(t)
  <2>1. pc'[t] = "done"
    BY <1>1, <1>3
    DEF Signal, GateInterrupted, DeviceInterrupted, FirmwareInterrupted, ProcWriteInterrupted,
        NullOperation, Install, Release, mtcaDummy_read, mtcaDummy_write_rejected,
        ReadWordFails, WriteWordFaults, TransferDone, mtcaDummy_ioctl, SetControl, SeqStop
  <2> QED
    BY <1>2, <2>1
<1>4. CASE \E c \in Calls : Enter(t, c)
  <2>1. PICK c \in Calls : Enter(t, c)
    BY <1>4
  <2>2. pc[t] = "idle" /\ result'[t] = result[t] /\ idx'[t] = idx[t]
    BY <2>1 DEF Enter
  <2>3. pc'[t] \notin {"idle", "body", "done"} \cup DeviceLabels
    BY <1>1, <2>1, CallFacts
    DEF Enter, Entry, Ops, GatedOps, StructOps, PlainOps, DeviceLabels, FirmwareLabels
  <2>4. result[t] = <<>> /\ idx[t] = 0
    <3>1. call[t].op # "dump"
      BY <1>1, <2>2, NoCallFacts DEF Advanced
    <3> QED
      BY <1>1, <2>2, <3>1 DEF Delivered, Advanced, DeviceLabels, FirmwareLabels
  <2> QED
    BY <2>2, <2>3, <2>4 DEF Advanced, Delivered
<1>5. CASE Exit(t)
  BY <1>1, <1>5 DEF Exit, Advanced, Delivered
<1>6. CASE LockControl(t)
  BY <1>1, <1>6 DEF LockControl, AfterLock, locals, Advanced, Delivered, DeviceLabels, FirmwareLabels
<1>7. CASE PassGate(t) \/ CheckTransfer(t)
  BY <1>1, <1>2, <1>7
  DEF PassGate, CheckTransfer, Advanced, Delivered, DeviceLabels, FirmwareLabels
<1>8. CASE IoctlCheck(t) \/ ProcWriteCopy(t)
  <2>1. result'[t] = result[t] /\ idx'[t] = idx[t] /\ call'[t] = call[t]
        /\ pc[t] \in {"ioctl", "control"}
    BY <1>8 DEF IoctlCheck, ProcWriteCopy
  <2>2. pc'[t] \in {"lock", "setControl", "done"}
    BY <1>1, <1>8 DEF IoctlCheck, ProcWriteCopy
  <2> QED
    BY <1>1, <1>2, <2>1, <2>2 DEF Advanced, Delivered, DeviceLabels, FirmwareLabels
<1>9. CASE LockDevice(t)
  <2>1. /\ pc[t] = "lock" /\ pc'[t] = "body" /\ result'[t] = <<>> /\ idx'[t] = idx[t]
        /\ call'[t] = call[t]
    BY <1>1, <1>9 DEF LockDevice, locals, Delivered
  <2>2. call[t].op # "dump" => idx[t] = 0
    BY <1>1, <2>1 DEF Advanced, DeviceLabels, FirmwareLabels
  <2>3. InDmaCopy(t)' => DmaDelivered(t)'
    BY <2>1, <2>2 DEF CopiesDma, DmaDelivered
  <2> QED
    BY <1>1, <2>1, <2>2, <2>3 DEF Advanced, Delivered, DeviceLabels
<1>10. CASE mtcaDummy_write(t)
  <2>1. CASE CurBar(t) # 0
    BY <1>1, <1>2, <1>10, <2>1 DEF mtcaDummy_write
  <2>2. CASE CurBar(t) = 0
    <3>1. pc'[t] = "fw" /\ result'[t] = result[t] /\ call'[t] = call[t] /\ idx'[t] = idx[t]
          /\ pc[t] = "body" /\ call[t].op = "write"
      BY <1>1, <1>10, <2>2 DEF mtcaDummy_write
    <3> QED
      BY <1>1, <3>1 DEF Advanced, Delivered, DeviceLabels, FirmwareLabels, CopiesDma
  <2> QED
    BY <2>1, <2>2
<1>11. CASE WriteWord(t)
  BY <1>1, <1>11 DEF WriteWord, Advanced, Delivered, DeviceLabels, FirmwareLabels, CopiesDma
<1>12. CASE SampleSpiError(t)
  BY <1>1, <1>12 DEF SampleSpiError, Advanced, Delivered, DeviceLabels, FirmwareLabels
<1>13. CASE FirmwareAction(t)
  <2>1. /\ result'[t] = <<>> /\ call'[t] = call[t] /\ call[t].op \in {"write", "pwrite"}
        /\ pc'[t] \in {"done", "body"}
    BY <1>1, <1>13 DEF FirmwareAction, Delivered, AtLabel, FirmwareLabels
  <2> QED
    BY <2>1 DEF Advanced, Delivered, DeviceLabels, CopiesDma
<1>14. CASE SeqShow(t) \/ PrintDmaBar(t)
  <2>1. /\ call'[t] = call[t] /\ call[t].op = "dump" /\ pc'[t] \in {"dump", "lock"}
        /\ result'[t] = <<>>
    BY <1>1, <1>14 DEF SeqShow, PrintDmaBar, AtLabel, Delivered
  <2> QED
    BY <2>1 DEF Advanced, Delivered
<1>15. CASE PrintSystemBar(t)
  <2>1. /\ call'[t] = call[t] /\ call[t].op = "dump" /\ pc'[t] = "body" /\ Dev(t)' = Dev(t)
        /\ result'[t] = <<systemBar[Dev(t)]>> /\ systemBar' = systemBar
    BY <1>1, <1>15 DEF PrintSystemBar, Dev, bars
  <2> QED
    BY <2>1 DEF Advanced, Delivered, CopiesDma
<1> QED
  BY <1>3, <1>4, <1>5, <1>6, <1>7, <1>8, <1>9, <1>10, <1>11, <1>12, <1>13, <1>14, <1>15, <1>16
  DEF ThreadStep, Step

(* Nothing has been delivered at the start. *)
LEMMA InitDelivery == Init => DeliveryInv
<1> SUFFICES ASSUME Init
             PROVE  DeliveryInv
  OBVIOUS
<1>1. DOMAIN result = Threads
  BY DEF Init
<1>2. \A t \in Threads : pc[t] = "idle" /\ call[t] = NoCall /\ idx[t] = 0 /\ result[t] = <<>>
  BY DEF Init
<1>3. \A t \in Threads : Advanced(t) /\ Delivered(t)
  BY <1>2 DEF Advanced, Delivered, InDmaCopy
<1> QED
  BY <1>1, <1>3, InitIInv DEF DeliveryInv

(* DeliveryInv survives every step. *)
LEMMA DeliveryStep ==
  ASSUME DeliveryInv, IInv', [Next]_vars
  PROVE  DeliveryInv'
<1>1. CASE UNCHANGED vars
  <2>1. IInv' /\ (DOMAIN result = Threads)'
    BY <1>1 DEF vars, DeliveryInv
  <2>2. ASSUME NEW t \in Threads PROVE Advanced(t)' /\ Delivered(t)'
    <3>1. Advanced(t)'
      BY <1>1 DEF vars, DeliveryInv, Advanced
    <3>2. pc' = pc /\ call' = call /\ idx' = idx /\ result' = result /\ file' = file
          /\ systemBar' = systemBar /\ dmaBar' = dmaBar
      BY <1>1 DEF vars
    <3>3. Delivered(t)
      BY DEF DeliveryInv
    <3>4. Delivered(t)'
      BY <3>2, <3>3, Zenon
      DEF Delivered, DmaDelivered, InDmaCopy, CopiesDma, Dev, CurBar, BarContent
    <3> QED
      BY <3>1, <3>4
  <2> QED
    BY <2>1, <2>2 DEF DeliveryInv
<1>2. CASE Next
  <2>1. PICK t \in Threads : ThreadStep(t)
    BY <1>2 DEF Next
  <2>2. DOMAIN result' = Threads
    BY <2>1, OthersKeep DEF DeliveryInv, IInv
  <2>3. \A u \in Threads \ {t} : Advanced(u)' /\ Delivered(u)'
    BY <2>1, DeliveredFrame
  <2>4. Advanced(t)' /\ Delivered(t)'
    BY <2>1, NextWordDelivered, NextDmaWordDelivered, DeliveredOwn
  <2> QED
    BY <2>2, <2>3, <2>4 DEF DeliveryInv
<1> QED
  BY <1>1, <1>2

(* What handlers have delivered is still in the bars, at every step of     *)
(* every interleaving.                                                     *)
THEOREM Delivery == Spec => []DeliveryInv
<1>1. Init => DeliveryInv
  BY InitDelivery
<1>2. DeliveryInv /\ IInv' /\ [Next]_vars => DeliveryInv'
  BY DeliveryStep
<1> QED
  BY <1>1, <1>2, Inductive, PTL DEF Spec

(* The words of one area read are a snapshot of the bar, for any number of *)
(* writers: mtcadummy_rw_no_struct.c holds devMutex from the first word to *)
(* the last.                                                               *)
THEOREM Snapshot == Spec => []AreaReadIsSnapshot
<1>1. DeliveryInv => AreaReadIsSnapshot
  BY DEF DeliveryInv, Delivered, AreaReadIsSnapshot
<1> QED
  BY <1>1, Delivery, PTL

(* The words of one DMA read are a snapshot of bar 2, for any number of    *)
(* samplings and other writers: mtcaDummy_read and the ioctl handlers hold *)
(* devMutex over the whole copy_to_user.                                   *)
THEOREM DmaSnapshot == Spec => []DmaReadIsSnapshot
<1>1. DeliveryInv => DmaReadIsSnapshot
  BY DEF DeliveryInv, Delivered, DmaDelivered, DmaReadIsSnapshot
<1> QED
  BY <1>1, Delivery, PTL

(* The registers and the DMA bar that mtcadummy_seq_show prints of a       *)
(* device belong to the same moment.                                       *)
THEOREM OneState == Spec => []DumpShowsOneState
<1>1. DeliveryInv => DumpShowsOneState
  BY DEF DeliveryInv, Delivered, DumpShowsOneState
<1> QED
  BY <1>1, Delivery, PTL
-----------------------------------------------------------------------------
(* The end of an area transfer.  All the ways out of the handlers but one  *)
(* return an error, and that one returns four bytes for every word.        *)
LEMMA AreaReturn ==
  ASSUME IInv, NEW t \in Threads, ThreadStep(t), pc'[t] = "done", call'[t].op \in PlainOps,
         ret'[t] >= 0
  PROVE  ret'[t] = 4 * idx'[t]
<1> USE DEF IInv
<1>1. /\ pc \in [Threads -> Labels] /\ idx \in [Threads -> Nat] /\ ret \in [Threads -> Int]
      /\ call \in [Threads -> Calls \cup {NoCall}]
      /\ AtLabel(t) /\ Checked(t)
  BY DEF TypeOK, CallState
<1> USE DEF Goto, Return, Finish, EIO, EFAULT, EINVAL, ENOTTY, ERESTARTSYS, EWOULDBLOCK
<1>2. CASE (\E c \in Calls : Enter(t, c)) \/ LockControl(t) \/ LockDevice(t) \/ Exit(t)
  <2>1. \A c \in Calls : \A d : Entry(c, d) # "done"
    BY CallFacts DEF Entry, Ops, GatedOps, StructOps, PlainOps
  <2> QED
    BY <1>1, <1>2, <2>1 DEF Enter, LockControl, AfterLock, LockDevice, Exit
<1>3. CASE Signal(t)
  BY <1>1, <1>3
  DEF Signal, GateInterrupted, DeviceInterrupted, FirmwareInterrupted, ProcWriteInterrupted
<1>4. CASE NullOperation(t) \/ PassGate(t) \/ CheckTransfer(t)
  BY <1>1, <1>4 DEF NullOperation, PassGate, GateError, CheckTransfer, PlainOps
<1>5. CASE Install(t) \/ Release(t) \/ mtcaDummy_read(t) \/ mtcaDummy_write_rejected(t)
           \/ mtcaDummy_write(t) \/ IoctlCheck(t) \/ mtcaDummy_ioctl(t)
           \/ ProcWriteCopy(t) \/ SetControl(t) \/ SeqShow(t) \/ PrintSystemBar(t)
           \/ PrintDmaBar(t) \/ SeqStop(t)
  <2>1. call'[t] = call[t]
    BY <1>5 DEF Install, Release, mtcaDummy_read, mtcaDummy_write_rejected, mtcaDummy_write,
                IoctlCheck, mtcaDummy_ioctl, ProcWriteCopy, SetControl, SeqShow,
                PrintSystemBar, PrintDmaBar, SeqStop
  <2>2. call[t].op \notin PlainOps
    BY <1>1, <1>5
    DEF Install, Release, mtcaDummy_read, mtcaDummy_write_rejected, mtcaDummy_write,
        IoctlCheck, mtcaDummy_ioctl, ProcWriteCopy, SetControl, SeqShow,
        PrintSystemBar, PrintDmaBar, SeqStop, AtLabel, PlainOps
  <2> QED
    BY <2>1, <2>2
<1>10. CASE CopyDmaWord(t) \/ CopyDmaEnds(t)
  <2>1. call'[t] = call[t] /\ call[t].op \in {"read", "ioctl"}
    BY <1>10, CopyWordFacts, CopyEndFacts
  <2> QED
    BY <2>1 DEF PlainOps
<1>6. CASE ReadWord(t) \/ WriteWord(t) \/ SampleSpiError(t)
  <2>1. pc'[t] # "done"
    BY <1>1, <1>6 DEF ReadWord, WriteWord, SampleSpiError
  <2> QED
    BY <2>1
<1>9. CASE ReadWordFails(t) \/ WriteWordFaults(t)
  <2>1. Finish(t, EIO) \/ Finish(t, EFAULT)
    BY <1>9 DEF ReadWordFails, WriteWordFaults
  <2>2. ret'[t] \in {EIO, EFAULT}
    BY <1>1, <2>1
  <2> QED
    BY <2>2
<1>7. CASE FirmwareAction(t)
  BY <1>1, <1>7 DEF FirmwareAction, PlainOps
<1>8. CASE TransferDone(t)
  <2> DEFINE n == nBytesToTransfer(call[t].count, call[t].pos)
  <2>1. call[t] \in Calls /\ call[t].op \in PlainOps /\ TransferAccepted(call[t].count, call[t].pos)
    BY <1>1, <1>8 DEF TransferDone, AtLabel, Checked, DeviceLabels
  <2>2. n \in Nat /\ n % 4 = 0
    BY <2>1, CallFacts, TransferBounds
  <2>3. ret'[t] = n /\ idx'[t] = n \div 4
    BY <1>1, <1>8 DEF TransferDone, WordsToTransfer
  <2> HIDE DEF n
  <2> QED
    BY <2>2, <2>3
<1> QED
  BY <1>2, <1>3, <1>4, <1>5, <1>6, <1>7, <1>8, <1>9, <1>10 DEF ThreadStep, Step

(* An area transfer that does not fail has advanced the file position by   *)
(* what it returns.                                                        *)
THEOREM Counted == Spec => []CountMatchesPosition
<1>1. Init => CountMatchesPosition
  BY DEF Init, CountMatchesPosition
<1>2. CountMatchesPosition /\ DeliveryInv /\ [Next]_vars => CountMatchesPosition'
  <2> SUFFICES ASSUME CountMatchesPosition, DeliveryInv, [Next]_vars
               PROVE  CountMatchesPosition'
    OBVIOUS
  <2> USE DEF DeliveryInv, IInv
  <2>1. CASE UNCHANGED vars
    BY <2>1 DEF vars, CountMatchesPosition
  <2>2. CASE Next
    <3>1. PICK t \in Threads : ThreadStep(t)
      BY <2>2 DEF Next
    <3>2. \A u \in Threads \ {t} : /\ pc'[u] = pc[u] /\ call'[u] = call[u] /\ idx'[u] = idx[u]
                                   /\ ret'[u] = ret[u]
      BY <3>1, OthersUnchanged, OthersKeep
    <3> QED
      BY <3>1, <3>2, AreaReturn DEF CountMatchesPosition
  <2> QED
    BY <2>1, <2>2
<1> QED
  BY <1>1, <1>2, Delivery, PTL DEF Spec
-----------------------------------------------------------------------------
(* Fault injection.  A call that looks at the flags has the present ones   *)
(* among those it has seen, and the firmware carries a value of spi_error  *)
(* that has been in force since the write began.                           *)
Watched(t) ==
  /\ pc[t] \notin {"idle", "done"} /\ call[t].op \in GatedOps => control \in seen[t]
  /\ pc[t] = "fwAct" => \E f \in seen[t] : f.spi = spiFail[t]

InjectionInv == InjectionRespected /\ \A t \in Threads : Watched(t)

(* InjectionRespected, thread by thread. *)
PastGate == {"install", "check", "lock"} \cup DeviceLabels

Respected(t) ==
  call[t].op \in GatedOps =>
    /\ pc[t] \in PastGate => \E f \in seen[t] : ~f[DocumentedOption[call[t].op]]
    /\ call[t].op = "open" /\ pc[t] = "done" /\ ret[t] = EINVAL
         => \E f \in seen[t] : f[DocumentedOption[call[t].op]]

(* The two forms say the same. *)
LEMMA RespectedByThread == InjectionRespected <=> \A t \in Threads : Respected(t)
BY DEF InjectionRespected, Respected, PastGate

(* Only a write to the proc file changes the flags, and it adds them to    *)
(* what the calls in progress have seen.                                   *)
LEMMA FlagsStay ==
  ASSUME NEW t \in Threads, ThreadStep(t), ~SetControl(t)
  PROVE  control' = control
<1>1. CASE (\E c \in Calls : Enter(t, c)) \/ LockControl(t) \/ LockDevice(t) \/ Signal(t)
  BY <1>1 DEF Enter, LockControl, LockDevice, Signal, GateInterrupted, DeviceInterrupted,
              FirmwareInterrupted, ProcWriteInterrupted
<1>2. CASE Step(t)
  BY <1>2 DEF Step, NullOperation, Exit, PassGate, Install, Release, mtcaDummy_read,
              mtcaDummy_write_rejected, mtcaDummy_write, CheckTransfer, ReadWord, ReadWordFails,
              WriteWord, WriteWordFaults, TransferDone, SampleSpiError, FirmwareAction,
              IoctlCheck, mtcaDummy_ioctl, ProcWriteCopy, SeqShow, PrintSystemBar,
              PrintDmaBar, SeqStop, CopyDmaWord, CopyDmaEnds
<1> QED
  BY <1>1, <1>2 DEF ThreadStep

(* Only a change of the flags, a new call and a return touch the history. *)
LEMMA SeenStays ==
  ASSUME TypeOK, NEW t \in Threads, ThreadStep(t), ~SetControl(t), ~Exit(t),
         ~\E c \in Calls : Enter(t, c)
  PROVE  seen' = seen
<1>1. CASE LockControl(t) \/ LockDevice(t) \/ Signal(t)
  BY <1>1 DEF LockControl, LockDevice, Signal, GateInterrupted, DeviceInterrupted,
              FirmwareInterrupted, ProcWriteInterrupted
<1>2. CASE Step(t)
  BY <1>2 DEF Step, NullOperation, PassGate, Install, Release, mtcaDummy_read,
              mtcaDummy_write_rejected, mtcaDummy_write, CheckTransfer, ReadWord, ReadWordFails,
              WriteWord, WriteWordFaults, TransferDone, SampleSpiError, FirmwareAction,
              IoctlCheck, mtcaDummy_ioctl, ProcWriteCopy, SeqShow, PrintSystemBar,
              PrintDmaBar, SeqStop, CopyDmaWord, CopyDmaEnds
<1> QED
  BY <1>1, <1>2 DEF ThreadStep

(* A step of t leaves what the others have seen, or adds the new flags. *)
LEMMA OthersSee ==
  ASSUME TypeOK, NEW t \in Threads, ThreadStep(t), NEW u \in Threads \ {t}
  PROVE  /\ seen[u] \subseteq seen'[u]
         /\ pc[u] # "done" /\ control \in seen[u] => control' \in seen'[u]
<1>1. CASE SetControl(t)
  BY <1>1 DEF SetControl
<1>2. CASE Exit(t) \/ \E c \in Calls : Enter(t, c)
  BY <1>2 DEF Exit, Enter, TypeOK
<1> QED
  BY <1>1, <1>2, SeenStays, FlagsStay

(* The others' part of the invariant survives a step of t. *)
LEMMA InjectionFrame ==
  ASSUME TypeOK, DOMAIN result = Threads, InjectionInv, NEW t \in Threads, ThreadStep(t),
         NEW u \in Threads \ {t}
  PROVE  Respected(u)' /\ Watched(u)'
<1>1. /\ pc'[u] = pc[u] /\ call'[u] = call[u] /\ ret'[u] = ret[u] /\ spiFail'[u] = spiFail[u]
  BY OthersUnchanged, OthersKeep
<1>2. Respected(u) /\ Watched(u)
  BY RespectedByThread DEF InjectionInv
<1>3. Respected(u)'
  BY <1>1, <1>2, OthersSee DEF Respected
<1>4. Watched(u)'
  BY <1>1, <1>2, OthersSee DEF Watched
<1> QED
  BY <1>3, <1>4

(* The documented option is the one the handlers look at. *)
LEMMA GateOption ==
  ASSUME NEW op \in GatedOps
  PROVE  /\ GateFlag(op) = DocumentedOption[op]
         /\ DocumentedOption[op] \in Options
BY DEF GateFlag, DocumentedOption, GatedOps, StructOps, PlainOps, Options

(* A step of t that stays past the gate, or returns from there. *)
LEMMA InjectionKept ==
  ASSUME TypeOK, NEW t \in Threads, call'[t] = call[t], seen'[t] = seen[t], control' = control,
         Respected(t), Watched(t),
         pc[t] \in PastGate \/ call[t].op \notin GatedOps, pc'[t] # "fwAct",
         pc[t] # "done" \/ call[t].op \notin GatedOps,
         call[t].op = "open" => pc'[t] # "done" \/ ret'[t] # EINVAL,
         pc[t] # "idle"
  PROVE  Respected(t)' /\ Watched(t)'
BY DEF Respected, Watched

(* So does the part of t itself. *)
LEMMA InjectionOwn ==
  ASSUME IInv, InjectionInv, NEW t \in Threads, ThreadStep(t)
  PROVE  Respected(t)' /\ Watched(t)'
<1> USE DEF IInv
<1>1. /\ AtLabel(t) /\ Respected(t) /\ Watched(t)
      /\ pc \in [Threads -> Labels] /\ ret \in [Threads -> Int]
      /\ call \in [Threads -> Calls \cup {NoCall}] /\ spiFail \in [Threads -> BOOLEAN]
      /\ control \in [Options -> BOOLEAN]
      /\ seen \in [Threads -> SUBSET [Options -> BOOLEAN]]
  BY RespectedByThread DEF TypeOK, CallState, InjectionInv
<1> USE DEF Goto, Return, Finish
<1>2. CASE \E c \in Calls : Enter(t, c)
  <2>1. PICK c \in Calls : Enter(t, c)
    BY <1>2
  <2>2. /\ pc'[t] \notin PastGate \cup {"done", "fwAct"} /\ call'[t] = c /\ control' = control
        /\ c.op \in GatedOps => seen'[t] = {control}
    <3>1. \A d : Entry(c, d) \notin PastGate \cup {"done", "fwAct"}
      BY CallFacts DEF Entry, Ops, GatedOps, StructOps, PlainOps, PastGate, DeviceLabels,
                       FirmwareLabels
    <3> QED
      BY <1>1, <2>1, <3>1 DEF Enter
  <2> QED
    BY <2>2 DEF Respected, Watched
<1>3. CASE Exit(t)
  <2>1. call'[t] = NoCall /\ pc'[t] = "idle"
    BY <1>1, <1>3 DEF Exit
  <2> QED
    BY <2>1, NoCallFacts DEF Respected, Watched, Ops
<1>4. CASE SetControl(t)
  <2>1. call'[t] = call[t] /\ call[t].op = "control" /\ pc'[t] = "done"
    BY <1>1, <1>4 DEF SetControl, AtLabel
  <2> QED
    BY <2>1 DEF Respected, Watched, GatedOps, StructOps, PlainOps
<1>5. CASE ~Exit(t) /\ ~SetControl(t) /\ ~\E c \in Calls : Enter(t, c)
  <2>1. seen' = seen /\ control' = control
    BY <1>5, SeenStays, FlagsStay
  <2>2. CASE LockControl(t)
    BY <1>1, <2>1, <2>2
    DEF LockControl, locals, AfterLock, Respected, Watched, PastGate, DeviceLabels, FirmwareLabels
  <2>3. CASE GateInterrupted(t) \/ NullOperation(t)
    <3>1. pc'[t] = "done" /\ call'[t] = call[t] /\ (call[t].op = "open" => ret'[t] # EINVAL)
      BY <1>1, <2>3 DEF GateInterrupted, NullOperation, ERESTARTSYS, EINVAL
    <3> QED
      BY <3>1 DEF Respected, Watched, PastGate, DeviceLabels, FirmwareLabels
  <2>4. CASE PassGate(t)
    <3> DEFINE op == call[t].op
    <3>1. op \in GatedOps /\ control \in seen[t] /\ call'[t] = call[t]
      BY <1>1, <2>4 DEF PassGate, AtLabel, Watched
    <3>2. CASE control[GateFlag(op)]
      <4>1. pc'[t] = "done"
        BY <1>1, <2>4, <3>2 DEF PassGate
      <4> QED
        BY <2>1, <3>1, <3>2, <4>1, GateOption
        DEF Respected, Watched, PastGate, DeviceLabels, FirmwareLabels
    <3>3. CASE ~control[GateFlag(op)]
      <4>1. pc'[t] \in {"install", "lock", "check"}
        BY <1>1, <2>4, <3>3 DEF PassGate
      <4> QED
        BY <2>1, <3>1, <3>3, <4>1, GateOption DEF Respected, Watched
    <3> QED
      BY <3>2, <3>3
  <2>5. CASE SampleSpiError(t)
    <3>1. /\ pc[t] = "fwLocked" /\ pc'[t] = "fwAct" /\ call'[t] = call[t]
          /\ spiFail'[t] = control.spi /\ call[t].op \in {"write", "pwrite"}
      BY <1>1, <2>5 DEF SampleSpiError, AtLabel, FirmwareLabels
    <3>2. control \in seen[t]
      BY <1>1, <3>1 DEF Watched, GatedOps, StructOps, PlainOps
    <3> QED
      BY <1>1, <2>1, <3>1, <3>2 DEF Respected, Watched, PastGate, DeviceLabels, FirmwareLabels
  <2>6. CASE Install(t) \/ CheckTransfer(t) \/ LockDevice(t) \/ DeviceInterrupted(t)
             \/ FirmwareInterrupted(t) \/ mtcaDummy_read(t) \/ mtcaDummy_write_rejected(t)
             \/ mtcaDummy_write(t) \/ ReadWord(t) \/ ReadWordFails(t) \/ WriteWord(t)
             \/ WriteWordFaults(t) \/ TransferDone(t) \/ FirmwareAction(t)
             \/ mtcaDummy_ioctl(t) \/ PrintSystemBar(t) \/ PrintDmaBar(t)
    <3>1. pc[t] \in PastGate \ {"done", "idle"} /\ call'[t] = call[t]
      BY <2>6
      DEF Install, CheckTransfer, LockDevice, DeviceInterrupted, FirmwareInterrupted,
          mtcaDummy_read, mtcaDummy_write_rejected, mtcaDummy_write, ReadWord, ReadWordFails,
          WriteWord, WriteWordFaults, TransferDone, FirmwareAction, mtcaDummy_ioctl,
          PrintSystemBar, PrintDmaBar, PastGate, DeviceLabels, FirmwareLabels, locals
    <3>2. pc'[t] # "fwAct"
      <4>1. CASE Install(t) \/ CheckTransfer(t) \/ LockDevice(t) \/ DeviceInterrupted(t)
                 \/ FirmwareInterrupted(t) \/ mtcaDummy_write_rejected(t) \/ PrintSystemBar(t)
                 \/ mtcaDummy_write(t) \/ ReadWord(t) \/ WriteWord(t) \/ TransferDone(t)
                 \/ PrintDmaBar(t)
        BY <1>1, <4>1
        DEF Install, CheckTransfer, LockDevice, DeviceInterrupted, FirmwareInterrupted,
            mtcaDummy_write_rejected, mtcaDummy_write, ReadWord, WriteWord, TransferDone,
            PrintSystemBar, PrintDmaBar
      <4>2. CASE mtcaDummy_read(t) \/ ReadWordFails(t) \/ WriteWordFaults(t) \/ mtcaDummy_ioctl(t)
                 \/ FirmwareAction(t)
        BY <1>1, <4>2
        DEF mtcaDummy_read, ReadWordFails, WriteWordFaults, mtcaDummy_ioctl, FirmwareAction
      <4> QED
        BY <2>6, <4>1, <4>2
    <3>3. call[t].op = "open" => pc'[t] # "done" \/ ret'[t] # EINVAL
      <4>1. CASE Install(t)
        BY <1>1, <4>1 DEF Install, EINVAL
      <4>2. CASE ~Install(t)
        BY <1>1, <2>6, <4>2
        DEF CheckTransfer, LockDevice, DeviceInterrupted, FirmwareInterrupted,
            mtcaDummy_read, mtcaDummy_write_rejected, mtcaDummy_write, ReadWord, ReadWordFails,
            WriteWord, WriteWordFaults, TransferDone, FirmwareAction, mtcaDummy_ioctl,
            PrintSystemBar, PrintDmaBar, AtLabel, FirmwareLabels, StructOps, PlainOps
      <4> QED
        BY <4>1, <4>2
    <3>4. pc[t] # "done" /\ pc[t] # "idle"
      BY <3>1
    <3> QED
      BY <1>1, <2>1, <3>1, <3>2, <3>3, <3>4, InjectionKept
  <2>8. CASE CopyDmaWord(t) \/ CopyDmaEnds(t)
    <3>1. pc[t] = "body" /\ call'[t] = call[t] /\ call[t].op \in {"read", "ioctl"}
          /\ pc'[t] \in {"body", "done"}
      BY <1>1, <2>8, CopyWordFacts, CopyEndFacts
    <3> QED
      BY <1>1, <2>1, <3>1, InjectionKept DEF PastGate, DeviceLabels
  <2>7. CASE Release(t) \/ IoctlCheck(t) \/ ProcWriteCopy(t) \/ ProcWriteInterrupted(t)
             \/ SeqShow(t) \/ SeqStop(t)
    <3>1. call[t].op \notin GatedOps /\ call'[t] = call[t]
      BY <1>1, <2>7 DEF Release, IoctlCheck, ProcWriteCopy, ProcWriteInterrupted, SeqShow, SeqStop,
                        AtLabel, GatedOps, StructOps, PlainOps
    <3>2. pc'[t] # "fwAct"
      BY <1>1, <2>7
      DEF Release, IoctlCheck, ProcWriteCopy, ProcWriteInterrupted, SeqShow, SeqStop
    <3> QED
      BY <3>1, <3>2 DEF Respected, Watched
  <2> QED
    BY <1>5, <2>2, <2>3, <2>4, <2>5, <2>6, <2>7, <2>8 DEF ThreadStep, Signal, Step
<1> QED
  BY <1>2, <1>3, <1>4, <1>5

(* Through every interleaving of calls with writes to the proc file, a     *)
(* call inside the driver knows the flags in force, and what the gate or   *)
(* the firmware has decided came from flags in force since it began.       *)
THEOREM InjectionInductive == Spec => []InjectionInv
<1>1. Init => InjectionInv
  BY NoCallFacts DEF Init, InjectionInv, InjectionRespected, Watched, Ops
<1>2. InjectionInv /\ DeliveryInv /\ [Next]_vars => InjectionInv'
  <2> SUFFICES ASSUME InjectionInv, DeliveryInv, [Next]_vars
               PROVE  InjectionInv'
    OBVIOUS
  <2> USE DEF DeliveryInv
  <2>1. CASE UNCHANGED vars
    BY <2>1 DEF vars, InjectionInv, InjectionRespected, Watched
  <2>2. CASE Next
    <3>1. PICK t \in Threads : ThreadStep(t)
      BY <2>2 DEF Next
    <3>2. \A u \in Threads : Respected(u)' /\ Watched(u)'
      BY <3>1, InjectionFrame, InjectionOwn DEF IInv
    <3> QED
      BY <3>2, RespectedByThread DEF InjectionInv, InjectionRespected, Respected, PastGate
  <2> QED
    BY <2>1, <2>2
<1> QED
  BY <1>1, <1>2, Delivery, PTL DEF Spec

(* A call gets past its gate only if its option has been off at some time  *)
(* since it began, and an open is refused only if it has been on.          *)
THEOREM InjectionEffective == Spec => []InjectionRespected
<1>1. InjectionInv => InjectionRespected
  BY DEF InjectionInv
<1> QED
  BY <1>1, InjectionInductive, PTL

(* What the firmware does to SPI_SYNC when SPI_WRITE is written. *)
LEMMA SyncReaction ==
  ASSUME NEW sys \in SystemBar, NEW fail \in BOOLEAN
  PROVE  LET after == mtcadummy_performActionOnWrite(sys, MTCADUMMY_WORD_SPI_WRITE, fail)
         IN  REG(after, MTCADUMMY_WORD_SPI_SYNC) =
               IF REG(sys, MTCADUMMY_WORD_SPI_SYNC) = MTCADUMMY_SPI_SYNC_REQUESTED /\ ~fail
                 THEN MTCADUMMY_SPI_SYNC_OK
                 ELSE MTCADUMMY_SPI_SYNC_ERROR
<1> USE DEF MTCADUMMY_WORD_SPI_WRITE, MTCADUMMY_WORD_SPI_SYNC, MTCADUMMY_WORD_SPI_READ
<1>1. Reaction(sys, 80, fail) = SpiReaction(sys, fail)
  BY ReadOnlyValueType DEF Reaction, MTCADUMMY_WORD_CLK_RST, MTCADUMMY_WORD_ADC_ENA
<1>2. 22 \in DOMAIN sys /\ 4 * 22 = 88 /\ 88 \div 4 = 22
  BY DEF SystemBar, MTCADUMMY_N_REGISTERS
<1>3. 88 \in DOMAIN SpiReaction(sys, fail)
  BY DEF SpiReaction
<1>4. mtcadummy_performActionOnWrite(sys, 80, fail)[22] = SpiReaction(sys, fail)[88]
  BY <1>1, <1>2, <1>3 DEF mtcadummy_performActionOnWrite, SetRegs
<1> QED
  BY <1>2, <1>4 DEF REG, SpiReaction

(* The SPI simulation acknowledges a word, or fails a requested transfer,  *)
(* only with a value of spi_error that was in force since the write began, *)
(* although the firmware has unlocked controlMutex before it reacts.       *)
THEOREM SpiError == Spec => SpiErrorRespected
<1> DEFINE sync(bar, t) == REG(bar[file[t]], MTCADUMMY_WORD_SPI_SYNC)
           A == \A t \in Threads :
                  pc[t] = "fwAct" /\ pc'[t] # "fwAct" /\ CurOffset(t) = MTCADUMMY_WORD_SPI_WRITE =>
                    /\ sync(systemBar', t) = MTCADUMMY_SPI_SYNC_OK => \E f \in seen[t] : ~f.spi
                    /\ sync(systemBar, t) = MTCADUMMY_SPI_SYNC_REQUESTED
                         /\ sync(systemBar', t) = MTCADUMMY_SPI_SYNC_ERROR
                       => \E f \in seen[t] : f.spi
<1>1. InjectionInv /\ IInv /\ [Next]_vars => [A]_vars
  <2> SUFFICES ASSUME InjectionInv, IInv, Next, NEW t \in Threads, pc[t] = "fwAct",
                      pc'[t] # "fwAct", CurOffset(t) = MTCADUMMY_WORD_SPI_WRITE
               PROVE  /\ sync(systemBar', t) = MTCADUMMY_SPI_SYNC_OK => \E f \in seen[t] : ~f.spi
                      /\ sync(systemBar, t) = MTCADUMMY_SPI_SYNC_REQUESTED
                           /\ sync(systemBar', t) = MTCADUMMY_SPI_SYNC_ERROR
                         => \E f \in seen[t] : f.spi
    OBVIOUS
  <2>1. FirmwareAction(t)
    <3>1. PICK u \in Threads : ThreadStep(u)
      BY DEF Next
    <3>2. u = t
      BY <3>1, OthersUnchanged DEF IInv
    <3>3. CASE Step(t)
      BY <3>3 DEF Step, NullOperation, Exit, PassGate, Install, Release, mtcaDummy_read,
                  mtcaDummy_write_rejected, mtcaDummy_write, CheckTransfer, ReadWord,
                  ReadWordFails, WriteWord, WriteWordFaults, TransferDone, SampleSpiError,
                  IoctlCheck, mtcaDummy_ioctl, ProcWriteCopy, SetControl, SeqShow,
                  PrintSystemBar, PrintDmaBar, SeqStop, CopyDmaWord, CopyDmaEnds, InDmaCopy
    <3>4. CASE (\E c \in Calls : Enter(t, c)) \/ LockControl(t) \/ LockDevice(t) \/ Signal(t)
      BY <3>4 DEF Enter, LockControl, AfterLock, LockDevice, Signal, GateInterrupted,
                  DeviceInterrupted, FirmwareInterrupted, ProcWriteInterrupted
    <3> QED
      BY <3>1, <3>2, <3>3, <3>4 DEF ThreadStep
  <2>2. Dev(t) = file[t] /\ file[t] \in Devices
    BY DevFacts DEF IInv, FirmwareLabels, DeviceLabels
  <2>3. systemBar[file[t]] \in SystemBar /\ spiFail[t] \in BOOLEAN
    BY <2>2 DEF IInv, TypeOK
  <2>4. systemBar'[file[t]] =
          mtcadummy_performActionOnWrite(systemBar[file[t]], MTCADUMMY_WORD_SPI_WRITE, spiFail[t])
    BY <2>1, <2>2 DEF FirmwareAction, IInv, TypeOK
  <2>5. sync(systemBar', t) =
          IF sync(systemBar, t) = MTCADUMMY_SPI_SYNC_REQUESTED /\ ~spiFail[t]
            THEN MTCADUMMY_SPI_SYNC_OK
            ELSE MTCADUMMY_SPI_SYNC_ERROR
    BY <2>3, <2>4, SyncReaction
  <2>6. PICK f \in seen[t] : f.spi = spiFail[t]
    BY DEF InjectionInv, Watched
  <2> QED
    BY <2>3, <2>5, <2>6 DEF MTCADUMMY_SPI_SYNC_OK, MTCADUMMY_SPI_SYNC_ERROR
<1> QED
  BY <1>1, InjectionInductive, Inductive, PTL DEF Spec, SpiErrorRespected
-----------------------------------------------------------------------------
(* A device without an open handler is never counted. *)
UncountedAreFree == \A d \in Devices : ~FileOps(d).open => inUse[d] = 0

(* It stays so: only an open handler counts up. *)
LEMMA UncountedStep ==
  ASSUME IInv, UncountedAreFree, NEW t \in Threads, ThreadStep(t)
  PROVE  UncountedAreFree'
<1> USE DEF IInv
<1>0. inUse \in [Devices -> Nat] /\ AtLabel(t) /\ AtFile(t)
  BY DEF TypeOK, CallState
<1>1. CASE ~NullOperation(t) /\ ~Install(t) /\ ~Release(t)
  BY <1>1, FilesUnchanged DEF UncountedAreFree
<1>2. CASE NullOperation(t)
  BY <1>2 DEF NullOperation, UncountedAreFree
<1>3. CASE Install(t)
  <2>1. FileOps(call[t].dev).open
    BY <1>0, <1>3 DEF Install, AtLabel, AtFile
  <2> QED
    BY <1>0, <1>3, <2>1 DEF Install, UncountedAreFree
<1>4. CASE Release(t)
  <2>1. FileOps(file[t]).open
    BY <1>0, <1>4 DEF Release, AtLabel, AtFile
  <2> QED
    BY <1>0, <1>4, <2>1 DEF Release, UncountedAreFree
<1> QED
  BY <1>1, <1>2, <1>3, <1>4

(* The test of mtcadummy_seq_show finds the devices that are open. *)
LEMMA CountTellsOpen ==
  ASSUME IInv, UncountedAreFree, NEW d \in Devices
  PROVE  inUse[d] # 0 <=> d \in OpenDevices
<1>1. CASE ~FileOps(d).open
  BY <1>1 DEF UncountedAreFree, OpenDevices
<1>2. CASE FileOps(d).open
  <2>1. inUse[d] = Cardinality(OpenFiles(d))
    BY <1>2 DEF IInv, InUseCountsOpenFiles
  <2>2. IsFiniteSet(OpenFiles(d))
    BY OpenFilesFinite
  <2>3. Cardinality(OpenFiles(d)) = 0 <=> OpenFiles(d) = {}
    BY <2>2, FS_EmptySet
  <2> QED
    BY <1>2, <2>1, <2>3 DEF OpenDevices
<1> QED
  BY <1>1, <1>2
-----------------------------------------------------------------------------
(* The steps of a dump. *)
Starts(t) == ~Dumping(t) /\ pc[t] = "idle" /\ pc'[t] = "dump" /\ idx'[t] = 0

Shows(t) ==
  /\ pc[t] = "dump" /\ pc'[t] = "lock" /\ idx'[t] = idx[t]
  /\ idx[t] \in Devices /\ inUse[idx[t]] # 0

Skips(t) ==
  /\ pc[t] = "dump" /\ pc'[t] = "dump" /\ idx'[t] = idx[t] + 1
  /\ ~(idx[t] \in Devices /\ inUse[idx[t]] # 0)

Waits(t) == pc[t] = "lock" /\ pc'[t] = "body" /\ idx'[t] = idx[t]

Prints(t) == pc[t] = "body" /\ pc'[t] = "body" /\ idx'[t] = idx[t]

Advances(t) == pc[t] = "body" /\ pc'[t] = "dump" /\ idx'[t] = idx[t] + 1

Stops(t) ==
  pc[t] = "dump" /\ pc'[t] = "done" /\ idx'[t] = idx[t] /\ idx[t] >= MTCADUMMY_NR_DEVS

GivesUp(t) == pc[t] = "lock" /\ pc'[t] = "done" /\ idx'[t] = idx[t] /\ ret'[t] # 0

DumpSteps(t) ==
  \/ Shows(t) \/ Skips(t) \/ Waits(t) \/ Prints(t) \/ Advances(t) \/ Stops(t) \/ GivesUp(t)

(* A thread in a dump takes one of the steps above. *)
LEMMA StepOfDump ==
  ASSUME DeliveryInv, NEW t \in Threads, ThreadStep(t), Dumping(t)'
  PROVE  file' = file /\ (Starts(t) \/ (Dumping(t) /\ DumpSteps(t)))
<1> USE DEF DeliveryInv, IInv, Dumping
<1>0. /\ pc \in [Threads -> Labels] /\ idx \in [Threads -> Nat] /\ ret \in [Threads -> Int]
      /\ call \in [Threads -> Calls \cup {NoCall}]
      /\ AtLabel(t) /\ Advanced(t)
  BY DEF TypeOK, CallState
<1> USE DEF Goto, Return
<1>1. CASE \E c \in Calls : Enter(t, c)
  <2>1. PICK c \in Calls : Enter(t, c)
    BY <1>1
  <2>2. /\ pc[t] = "idle" /\ call'[t] = c /\ c.op = "dump" /\ file' = file /\ idx'[t] = idx[t]
        /\ pc'[t] = Entry(c, file[t])
    BY <1>0, <2>1 DEF Enter
  <2>3. pc'[t] = "dump"
    BY <2>2 DEF Entry, HasHandler, GatedOps, StructOps, PlainOps
  <2>4. call[t].op # "dump" /\ idx[t] = 0
    BY <1>0, <2>2, NoCallFacts DEF Advanced, DeviceLabels, FirmwareLabels
  <2> QED
    BY <2>2, <2>3, <2>4 DEF Starts
<1>2. CASE Exit(t)
  BY <1>0, <1>2, NoCallFacts DEF Exit
<1>3. CASE ~Exit(t) /\ ~\E c \in Calls : Enter(t, c)
  <2>1. call'[t] = call[t] /\ call[t].op = "dump"
    <3>1. CASE LockControl(t) \/ LockDevice(t) \/ Signal(t)
      BY <3>1 DEF LockControl, LockDevice, Signal, GateInterrupted, DeviceInterrupted,
                  FirmwareInterrupted, ProcWriteInterrupted, locals
    <3>2. CASE Step(t)
      BY <1>3, <3>2
      DEF Step, NullOperation, PassGate, Install, Release, mtcaDummy_read,
          mtcaDummy_write_rejected, mtcaDummy_write, CheckTransfer, ReadWord, ReadWordFails,
          WriteWord, WriteWordFaults, TransferDone, SampleSpiError, FirmwareAction, IoctlCheck,
          mtcaDummy_ioctl, ProcWriteCopy, SetControl, SeqShow, PrintSystemBar, PrintDmaBar,
          SeqStop, CopyDmaWord, CopyDmaEnds
    <3> QED
      BY <1>3, <3>1, <3>2 DEF ThreadStep
  <2>2. pc[t] \notin {"gate", "gateLocked", "install", "release", "check", "ioctl", "control",
                      "setControl", "controlLocked", "null"} \cup FirmwareLabels
    BY <1>0, <2>1 DEF AtLabel, GatedOps, StructOps, PlainOps
  <2>3. \/ LockDevice(t) \/ DeviceInterrupted(t)
        \/ SeqShow(t) \/ PrintSystemBar(t) \/ PrintDmaBar(t) \/ SeqStop(t)
    <3>1. CASE LockControl(t) \/ LockDevice(t) \/ Signal(t)
      BY <2>2, <3>1 DEF LockControl, AfterLock, Signal, GateInterrupted, FirmwareInterrupted,
                        ProcWriteInterrupted, FirmwareLabels
    <3>2. CASE Step(t)
      BY <1>3, <2>1, <2>2, <3>2
      DEF Step, NullOperation, PassGate, Install, Release, mtcaDummy_read,
          mtcaDummy_write_rejected, mtcaDummy_write, CheckTransfer, ReadWord, ReadWordFails,
          WriteWord, WriteWordFaults, TransferDone, SampleSpiError, FirmwareAction, IoctlCheck,
          mtcaDummy_ioctl, ProcWriteCopy, SetControl, FirmwareLabels, PlainOps,
          CopyDmaWord, CopyDmaEnds, InDmaCopy, CopiesDma
    <3> QED
      BY <1>3, <3>1, <3>2 DEF ThreadStep
  <2>4. file' = file
    BY <2>3 DEF LockDevice, DeviceInterrupted, SeqShow, PrintSystemBar, PrintDmaBar, SeqStop
  <2>5. CASE LockDevice(t)
    BY <1>0, <2>5 DEF LockDevice, DumpSteps, Waits, locals
  <2>6. CASE DeviceInterrupted(t)
    BY <1>0, <2>6 DEF DeviceInterrupted, DumpSteps, GivesUp, ERESTARTSYS
  <2>7. CASE SeqShow(t)
    <3>1. CASE idx[t] \in Devices /\ inUse[idx[t]] # 0
      BY <1>0, <2>7, <3>1 DEF SeqShow, DumpSteps, Shows
    <3>2. CASE ~(idx[t] \in Devices /\ inUse[idx[t]] # 0)
      BY <1>0, <2>7, <3>2 DEF SeqShow, DumpSteps, Skips
    <3> QED
      BY <3>1, <3>2
  <2>8. CASE PrintSystemBar(t)
    BY <1>0, <2>8 DEF PrintSystemBar, DumpSteps, Prints
  <2>9. CASE PrintDmaBar(t)
    BY <1>0, <2>9 DEF PrintDmaBar, DumpSteps, Advances
  <2>10. CASE SeqStop(t)
    BY <1>0, <2>10 DEF SeqStop, DumpSteps, Stops
  <2> QED
    BY <2>1, <2>3, <2>4, <2>5, <2>6, <2>7, <2>8, <2>9, <2>10
<1> QED
  BY <1>1, <1>2, <1>3
-----------------------------------------------------------------------------
(* The history of a dump against the slot it is at: the device it waits    *)
(* for or prints has been open, and of the slots behind it, it has printed *)
(* those that have been open throughout.                                   *)
DumpHistory(t) ==
  /\ printed[t] \subseteq everOpen[t]
  /\ Dumping(t) =>
       /\ OpenDevices \subseteq everOpen[t]
       /\ alwaysOpen[t] \subseteq OpenDevices
       /\ pc[t] \in {"lock", "body"} => idx[t] \in everOpen[t]
       /\ \A d \in alwaysOpen[t] : d < idx[t] => d \in printed[t]
       /\ pc[t] = "done" /\ ret[t] = 0 => idx[t] >= MTCADUMMY_NR_DEVS

DumpInv == UncountedAreFree /\ \A t \in Threads : DumpHistory(t)

(* The history of one dump, by what its thread does. *)
LEMMA HistoryKept ==
  ASSUME IInv, Record, NEW t \in Threads, DumpHistory(t),
         pc'[t] = pc[t], idx'[t] = idx[t], ret'[t] = ret[t], call'[t] = call[t]
  PROVE  DumpHistory(t)'
<1>1. CASE ~Dumping(t)'
  BY <1>1 DEF Record, DumpHistory
<1>2. CASE Dumping(t)'
  <2>1. /\ Dumping(t)
        /\ printed'[t] = printed[t]
        /\ everOpen'[t] = everOpen[t] \cup OpenDevices'
        /\ alwaysOpen'[t] = alwaysOpen[t] \cap OpenDevices'
    BY <1>2 DEF Record, Dumping
  <2> QED
    BY <2>1 DEF DumpHistory
<1> QED
  BY <1>1, <1>2

(* The history of a dump survives each of its own steps. *)
LEMMA HistoryMoves ==
  ASSUME DeliveryInv, UncountedAreFree, Record, NEW t \in Threads, ThreadStep(t), DumpHistory(t)
  PROVE  DumpHistory(t)'
<1>1. CASE ~Dumping(t)'
  BY <1>1 DEF Record, DumpHistory
<1>2. CASE Dumping(t)'
  <2>0. OpenDevices' = OpenDevices /\ (Starts(t) \/ (Dumping(t) /\ DumpSteps(t)))
    BY <1>2, StepOfDump DEF OpenDevices, OpenFiles
  <2>1. /\ everOpen'[t] = everOpen[t] \cup OpenDevices
        /\ printed[t] \subseteq printed'[t]
        /\ ~(pc[t] = "body" /\ pc'[t] = "dump") => printed'[t] = printed[t]
        /\ pc[t] = "body" /\ pc'[t] = "dump" => printed'[t] = printed[t] \cup {idx[t]}
        /\ alwaysOpen'[t] = IF Dumping(t) THEN alwaysOpen[t] \cap OpenDevices ELSE OpenDevices
    BY <1>2, <2>0 DEF Record, OpenDevices
  <2>2. /\ idx[t] \in Nat /\ OpenDevices \subseteq Devices /\ Devices \subseteq Nat
        /\ \A d \in Devices : inUse[d] # 0 <=> d \in OpenDevices
    BY DeviceFacts, CountTellsOpen DEF DeliveryInv, IInv, TypeOK, OpenDevices
  <2>3. CASE Starts(t)
    <3>1. \A d \in alwaysOpen'[t] : ~(d < idx'[t])
      <4>1. alwaysOpen'[t] \subseteq Nat /\ idx'[t] = 0
        BY <2>1, <2>2, <2>3 DEF Starts
      <4>2. \A n \in Nat : ~(n < 0)
        OBVIOUS
      <4> QED
        BY <4>1, <4>2
    <3> QED
      BY <1>2, <2>0, <2>1, <2>3, <3>1 DEF Starts, DumpHistory
  <2> SUFFICES ASSUME Dumping(t), DumpSteps(t)
               PROVE  DumpHistory(t)'
    BY <2>0, <2>3
  <2>4. CASE Shows(t)
    BY <1>2, <2>0, <2>1, <2>2, <2>4 DEF Shows, DumpHistory
  <2>5. CASE Skips(t)
    <3>1. \A d \in alwaysOpen'[t] : d < idx'[t] => d \in printed'[t]
      <4> SUFFICES ASSUME NEW d \in alwaysOpen'[t], d < idx[t] + 1
                   PROVE  d \in printed'[t]
        BY <2>5 DEF Skips
      <4>1. d \in alwaysOpen[t] /\ d \in OpenDevices /\ d \in Nat
        BY <2>1, <2>2
      <4>2. d # idx[t]
        BY <2>2, <2>5, <4>1 DEF Skips
      <4>3. d < idx[t]
        BY <2>2, <4>1, <4>2
      <4> QED
        BY <2>1, <4>1, <4>3 DEF DumpHistory
    <3> QED
      BY <1>2, <2>0, <2>1, <2>5, <3>1 DEF Skips, DumpHistory
  <2>6. CASE Waits(t) \/ Prints(t)
    BY <1>2, <2>0, <2>1, <2>6 DEF Waits, Prints, DumpHistory
  <2>7. CASE Advances(t)
    <3>1. \A d \in alwaysOpen'[t] : d < idx'[t] => d \in printed'[t]
      <4> SUFFICES ASSUME NEW d \in alwaysOpen'[t], d < idx[t] + 1
                   PROVE  d \in printed'[t]
        BY <2>7 DEF Advances
      <4>1. d \in alwaysOpen[t] /\ d \in Nat
        BY <2>1, <2>2
      <4>2. d = idx[t] \/ d < idx[t]
        BY <2>2, <4>1
      <4> QED
        BY <2>1, <2>7, <4>1, <4>2 DEF DumpHistory, Advances
    <3> QED
      BY <1>2, <2>0, <2>1, <2>7, <3>1 DEF Advances, DumpHistory
  <2>8. CASE Stops(t) \/ GivesUp(t)
    BY <1>2, <2>0, <2>1, <2>8 DEF Stops, GivesUp, DumpHistory
  <2> QED
    BY <2>4, <2>5, <2>6, <2>7, <2>8 DEF DumpSteps
<1> QED
  BY <1>1, <1>2

(* The histories do not restrict the driver. *)
LEMMA DumpImplementsDriver == DumpSpec => Spec
<1>1. DumpInit => Init
  BY DEF DumpInit
<1>2. [DumpNext]_dumpVars => [Next]_vars
  BY DEF DumpNext, dumpVars
<1> QED
  BY <1>1, <1>2, PTL DEF DumpSpec, Spec

(* Whoever opens and closes devices meanwhile, what mtcadummy_seq_show has *)
(* printed up to its slot fits what was open since the dump began.         *)
THEOREM DumpInductive == DumpSpec => []DumpInv
<1>1. DumpInit => DumpInv
  <2> SUFFICES ASSUME DumpInit
               PROVE  DumpInv
    OBVIOUS
  <2>1. UncountedAreFree
    BY DEF DumpInit, Init, UncountedAreFree
  <2>2. ASSUME NEW t \in Threads PROVE DumpHistory(t)
    <3>1. ~Dumping(t) /\ printed[t] = {}
      BY NoCallFacts DEF DumpInit, Init, Dumping
    <3> QED
      BY <3>1 DEF DumpHistory
  <2> QED
    BY <2>1, <2>2 DEF DumpInv
<1>2. DumpInv /\ DeliveryInv /\ [DumpNext]_dumpVars => DumpInv'
  <2> SUFFICES ASSUME DumpInv, DeliveryInv, [DumpNext]_dumpVars
               PROVE  DumpInv'
    OBVIOUS
  <2>1. CASE UNCHANGED dumpVars
    BY <2>1 DEF dumpVars, vars, history, DumpInv, UncountedAreFree, DumpHistory, Dumping,
                OpenDevices, OpenFiles
  <2>2. CASE DumpNext
    <3>1. PICK t \in Threads : ThreadStep(t)
      BY <2>2 DEF DumpNext, Next
    <3>2. IInv /\ TypeOK /\ DOMAIN result = Threads /\ Record
      BY <2>2 DEF DeliveryInv, IInv, DumpNext
    <3>3. UncountedAreFree'
      BY <3>1, <3>2, UncountedStep DEF DumpInv
    <3>4. \A u \in Threads \ {t} : DumpHistory(u)'
      <4> SUFFICES ASSUME NEW u \in Threads \ {t}
                   PROVE  DumpHistory(u)'
        OBVIOUS
      <4>1. pc'[u] = pc[u] /\ idx'[u] = idx[u] /\ ret'[u] = ret[u] /\ call'[u] = call[u]
        BY <3>1, <3>2, OthersUnchanged, OthersKeep
      <4> QED
        BY <3>2, <4>1, HistoryKept DEF DumpInv
    <3>5. DumpHistory(t)'
      BY <3>1, <3>2, HistoryMoves DEF DumpInv
    <3> QED
      BY <3>3, <3>4, <3>5 DEF DumpInv
  <2> QED
    BY <2>1, <2>2
<1> QED
  BY <1>1, <1>2, DumpImplementsDriver, Delivery, PTL DEF DumpSpec

(* mtcadummy_seq_show, which looks at inUse before it waits for devMutex,  *)
(* prints no device that nobody has had open since the dump began.         *)
THEOREM OnlyOpened == DumpSpec => []PrintsOnlyOpened
<1>1. DumpInv => PrintsOnlyOpened
  BY DEF DumpInv, DumpHistory, PrintsOnlyOpened
<1> QED
  BY <1>1, DumpInductive, PTL

(* A complete dump has printed every device that was open throughout. *)
THEOREM AllOpen == DumpSpec => []PrintsAllOpen
<1>1. DumpInv /\ IInv => PrintsAllOpen
  <2> SUFFICES ASSUME DumpInv, IInv, NEW t \in Threads, Dumping(t), pc[t] = "done", ret[t] = 0,
                      NEW d \in alwaysOpen[t]
               PROVE  d \in printed[t]
    BY DEF PrintsAllOpen
  <2>1. idx[t] >= MTCADUMMY_NR_DEVS /\ d \in Devices /\ (d < idx[t] => d \in printed[t])
    BY DEF DumpInv, DumpHistory, OpenDevices
  <2>2. idx[t] \in Nat /\ d \in Nat /\ d < MTCADUMMY_NR_DEVS
    BY <2>1, DriverAssumption DEF MTCADUMMY_NR_DEVS, IInv, TypeOK
  <2> QED
    BY <2>1, <2>2 DEF MTCADUMMY_NR_DEVS
<1> QED
  BY <1>1, DumpInductive, DumpImplementsDriver, Inductive, PTL
=============================================================================
