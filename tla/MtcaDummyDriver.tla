------------------------- MODULE MtcaDummyDriver -------------------------
(***************************************************************************)
(* The character devices of the mtcadummy driver and its proc file, used   *)
(* by concurrent threads: open, release, the read, write and ioctl         *)
(* handlers of the four file_operations tables, the write of fault         *)
(* injection options to /proc/mtcadummy and the register dump read from    *)
(* it.                                                                     *)
(*                                                                         *)
(* One step is the code between two points at which another thread can     *)
(* see a difference: the acquisition of a mutex, the code up to its        *)
(* release, one word of a transfer without a struct or of a DMA copy.  The *)
(* model starts with the module loaded and all files closed.               *)
(***************************************************************************)
EXTENDS MtcaDummyFirmware, MtcaDummyTransfer, MtcaDummyControl

CONSTANTS
  Threads,   \* the threads that make system calls
  Nobody,    \* the owner of a free mutex
  Devices,   \* the slots that are opened; no thread opens the others
  Calls,     \* the system calls the threads make, with their arguments
  Beyond,    \* the words that memory outside of bar 2 may hold
  Signals,   \* whether a thread that waits for a mutex may get a signal
  Faults     \* the outcomes of a copy from or to user space: is it a fault?

NoFile == -1
NoCall == [op |-> "none"]

StructOps == {"read", "write"}
PlainOps == {"pread", "pwrite"}
GatedOps == {"open"} \cup StructOps \cup PlainOps
Ops == GatedOps \cup {"release", "ioctl", "control", "dump"}

(* A device_rw, a buffer with its count and file position, the arguments   *)
(* of an ioctl, or a line for the proc file.  Offset and size of a DMA     *)
(* request are any u_ints.                                                 *)
ValidCall(c) ==
  \/ c.op = "open" /\ c.dev \in Devices
  \/ c.op \in {"release", "dump"}
  \/ c.op = "read" /\ {c.count, c.mode, c.bar} \subseteq Nat /\ c.offset \in Word /\ c.size \in Word
  \/ c.op = "write" /\ {c.count, c.mode, c.bar, c.offset} \subseteq Nat /\ c.data \in Word
  \/ c.op = "pread" /\ c.count \in Nat /\ c.pos \in Nat
  \/ c.op = "pwrite" /\ c.count \in Nat /\ c.pos \in Nat
                     /\ c.data \in [0 .. (c.count \div 4) - 1 -> Word]
  \/ c.op = "ioctl" /\ c.type \in {"0", "U"} /\ c.nr \in Nat /\ c.offset \in Word /\ c.size \in Word
  \/ c.op = "control" /\ c.count \in Nat

ASSUME DriverAssumption ==
  /\ Nobody \notin Threads
  /\ Devices \subseteq 0 .. MTCADUMMY_NR_DEVS - 1
  /\ Signals \in BOOLEAN /\ Faults \subseteq BOOLEAN /\ FALSE \in Faults
  /\ Beyond \subseteq Word /\ Beyond # {}
  /\ \A c \in Calls : c.op \in Ops /\ ValidCall(c)

VARIABLES
  control,      \* controlData: the four fault injection flags
  controlMutex, \* the thread that holds controlMutex, or Nobody
  devMutex,     \* per device, the thread that holds its devMutex, or Nobody
  systemBar,    \* per device, the words of bar 0
  dmaBar,       \* per device, the words of bar 2
  inUse,        \* per device, the count of openings
  file,         \* per thread, the device its file descriptor refers to
  pc,           \* per thread, the point it has reached in the driver
  call,         \* per thread, the system call it is in
  idx,          \* per thread, words done of a transfer or copy, or slot of a dump
  spiFail,      \* per thread, the local variable of performActionOnWrite
  result,       \* per thread, the words delivered to its buffer
  ret,          \* per thread, the value its call returns
  seen,         \* history: values of controlData since the thread's call began
  torn          \* history: registers of bar 0 whose last write was cut off
                \* before the firmware had reacted to it

locals == <<call, idx, spiFail, result, ret>>
bars == <<systemBar, dmaBar>>
vars == <<control, controlMutex, devMutex, systemBar, dmaBar, inUse, file,
          pc, call, idx, spiFail, result, ret, seen, torn>>
-----------------------------------------------------------------------------
(* The file_operations tables.  rw tells which pair of read and write      *)
(* handlers a table has.  noIoctlDummyFileOps has no initialiser: the one  *)
(* that was meant for it defines noIocltDummyFileOps, a name nobody uses,  *)
(* so that device 5 has an empty table.                                    *)
mtcaDummyFileOps    == [open |-> TRUE,  rw |-> "struct", ioctl |-> "pciedev"]
llrfDummyFileOps    == [open |-> TRUE,  rw |-> "struct", ioctl |-> "llrf"]
noIoctlDummyFileOps == [open |-> FALSE, rw |-> "none",   ioctl |-> "none"]
pcieuniDummyFileOps == [open |-> TRUE,  rw |-> "plain",  ioctl |-> "pcieuni"]

FileOps(d) ==
  CASE d = 4 -> llrfDummyFileOps
    [] d = 5 -> noIoctlDummyFileOps
    [] d = 6 -> pcieuniDummyFileOps
    [] OTHER -> mtcaDummyFileOps

(* The ioctl commands of each handler: the magic, the two ranges of        *)
(* numbers and the commands of the switch.                                 *)
mtcaDummyIoctls ==
  [type |-> "0", range |-> (60 .. 63) \cup (70 .. 74), slot |-> 60, version |-> {61, 62}, readDma |-> 72]
llrfDummyIoctls ==
  [type |-> "0", range |-> 20 .. 22, slot |-> 20, version |-> {21, 22}, readDma |-> -1]
pcieuniDummyIoctls ==
  [type |-> "U", range |-> (60 .. 63) \cup (70 .. 74), slot |-> 60, version |-> {61, 62}, readDma |-> 72]

IoctlTable ==
  [pciedev |-> mtcaDummyIoctls, llrf |-> llrfDummyIoctls, pcieuni |-> pcieuniDummyIoctls]
-----------------------------------------------------------------------------
Goto(t, label) == pc' = [pc EXCEPT ![t] = label]

Return(t, r) == Goto(t, "done") /\ ret' = [ret EXCEPT ![t] = r]

(* The device whose mutex and bars the thread uses. *)
Dev(t) == IF call[t].op = "dump" THEN idx[t] ELSE file[t]

(* Unlock devMutex and return. *)
Finish(t, r) ==
  /\ devMutex' = [devMutex EXCEPT ![Dev(t)] = Nobody]
  /\ Return(t, r)

(* Mutant: a copied handler looks at the flag of the handler it is copied  *)
(* from.                                                                   *)
GateFlagOfRead(op) == IF op = "open" THEN "open" ELSE "read"

(* The flag of controlData that open, read and write handlers look at, and *)
(* the error they return when it is set.                                   *)
GateFlag(op) ==
  CASE op = "open"               -> "open"
    [] op \in {"read", "pread"}  -> "read"
    [] OTHER                     -> "write"

GateError(op) == IF op = "open" THEN EINVAL ELSE EFAULT

(* The bar, byte offset and value of the word a write handler is at. *)
CurBar(t) == IF call[t].op = "write" THEN call[t].bar ELSE BarOf(call[t].pos)

CurOffset(t) ==
  IF call[t].op = "write" THEN call[t].offset ELSE OffsetOf(call[t].pos) + 4 * idx[t]

CurData(t) == IF call[t].op = "write" THEN call[t].data ELSE call[t].data[idx[t]]

WordsToTransfer(t) == nBytesToTransfer(call[t].count, call[t].pos) \div 4

BarContent(d, bar) == IF bar = 0 THEN systemBar[d] ELSE dmaBar[d]

Store(d, bar, offset, word) ==
  IF bar = 0
    THEN /\ systemBar' = [systemBar EXCEPT ![d][offset \div 4] = word]
         /\ UNCHANGED dmaBar
    ELSE /\ dmaBar' = [dmaBar EXCEPT ![d][offset \div 4] = word]
         /\ UNCHANGED systemBar
-----------------------------------------------------------------------------
Init ==
  /\ control = [o \in Options |-> FALSE]
  /\ controlMutex = Nobody
  /\ devMutex = [d \in Devices |-> Nobody]
  /\ systemBar = [d \in Devices |-> mtcadummy_initialiseSystemBar]
  /\ dmaBar = [d \in Devices |-> [w \in 0 .. (MTCADUMMY_DMA_SIZE \div 4) - 1 |-> 0]]
  /\ inUse = [d \in Devices |-> 0]
  /\ file = [t \in Threads |-> NoFile]
  /\ pc = [t \in Threads |-> "idle"]
  /\ call = [t \in Threads |-> NoCall]
  /\ idx = [t \in Threads |-> 0]
  /\ spiFail = [t \in Threads |-> FALSE]
  /\ result = [t \in Threads |-> <<>>]
  /\ ret = [t \in Threads |-> 0]
  /\ seen = [t \in Threads |-> {}]
  /\ torn = [d \in Devices |-> {}]
-----------------------------------------------------------------------------
(* System call entry and exit (the kernel's virtual file system).          *)

(* A thread has at most one device file open; every handler but open needs *)
(* it, and a plain buffer only makes sense to the handlers without struct. *)
MayCall(t, c) ==
  CASE c.op = "open" -> file[t] = NoFile
    [] c.op \in {"control", "dump"} -> TRUE
    [] c.op \in StructOps -> file[t] # NoFile /\ FileOps(file[t]).rw \in {"struct", "none"}
    [] c.op \in PlainOps -> file[t] # NoFile /\ FileOps(file[t]).rw \in {"plain", "none"}
    [] OTHER -> file[t] # NoFile

HasHandler(c, d) ==
  CASE c.op \in {"control", "dump"} -> TRUE
    [] c.op \in {"open", "release"} -> FileOps(d).open
    [] c.op = "ioctl" -> FileOps(d).ioctl # "none"
    [] OTHER -> FileOps(d).rw # "none"

Entry(c, d) ==
  IF ~HasHandler(c, d) THEN "null" ELSE IF c.op \in GatedOps THEN "gate" ELSE c.op

Enter(t, c) ==
  /\ pc[t] = "idle"
  /\ MayCall(t, c)
  /\ call' = [call EXCEPT ![t] = c]
  /\ Goto(t, Entry(c, IF c.op = "open" THEN c.dev ELSE file[t]))
  /\ seen' = [seen EXCEPT ![t] = IF c.op \in GatedOps THEN {control} ELSE {}]
  /\ UNCHANGED <<control, controlMutex, devMutex, bars, inUse, file, idx,
                 spiFail, result, ret, torn>>

(* A file operation that is a null pointer: opening and closing succeed,   *)
(* reading and writing fail with EINVAL, ioctl with ENOTTY.                *)
NullOperation(t) ==
  /\ pc[t] = "null"
  /\ LET op == call[t].op IN
       /\ file' = [file EXCEPT ![t] = CASE op = "open"    -> call[t].dev
                                        [] op = "release" -> NoFile
                                        [] OTHER          -> @]
       /\ Return(t, CASE op \in {"open", "release"} -> 0
                      [] op = "ioctl"               -> ENOTTY
                      [] OTHER                      -> EINVAL)
  /\ UNCHANGED <<control, controlMutex, devMutex, bars, inUse, call, idx,
                 spiFail, result, seen, torn>>

Exit(t) ==
  /\ pc[t] = "done"
  /\ Goto(t, "idle")
  /\ call' = [call EXCEPT ![t] = NoCall]
  /\ idx' = [idx EXCEPT ![t] = 0]
  /\ spiFail' = [spiFail EXCEPT ![t] = FALSE]
  /\ result' = [result EXCEPT ![t] = <<>>]
  /\ ret' = [ret EXCEPT ![t] = 0]
  /\ seen' = [seen EXCEPT ![t] = {}]
  /\ UNCHANGED <<control, controlMutex, devMutex, bars, inUse, file, torn>>
-----------------------------------------------------------------------------
(* controlMutex: it guards the fault injection flags, is taken at the head *)
(* of open, read and write, by the firmware simulation with devMutex held, *)
(* and by a write to the proc file.                                        *)

AfterLock ==
  [l \in {"gate", "fw", "setControl"} |->
     CASE l = "gate" -> "gateLocked" [] l = "fw" -> "fwLocked" [] OTHER -> "controlLocked"]

LockControl(t) ==
  /\ pc[t] \in DOMAIN AfterLock
  /\ controlMutex = Nobody
  /\ controlMutex' = t
  /\ Goto(t, AfterLock[pc[t]])
  /\ UNCHANGED <<control, devMutex, bars, inUse, file, locals, seen, torn>>

(* mutex_lock_interruptible fails only for a thread that has to wait. *)
Interrupted(owner) == Signals /\ owner # Nobody

GateInterrupted(t) ==
  /\ pc[t] = "gate"
  /\ Interrupted(controlMutex)
  /\ Return(t, ERESTARTSYS)
  /\ UNCHANGED <<control, controlMutex, devMutex, bars, inUse, file, call, idx,
                 spiFail, result, seen, torn>>

(* Read the flag, unlock, and give up or go on. *)
PassGate(t) ==
  /\ pc[t] = "gateLocked"
  /\ controlMutex' = Nobody
  /\ LET op == call[t].op IN
       IF control[GateFlag(op)]
         THEN Return(t, GateError(op))
         ELSE /\ Goto(t, CASE op = "open"       -> "install"
                           [] op \in StructOps  -> "lock"
                           [] OTHER             -> "check")
              /\ UNCHANGED ret
  /\ UNCHANGED <<control, devMutex, bars, inUse, file, call, idx, spiFail,
                 result, seen, torn>>
-----------------------------------------------------------------------------
(* mtcaDummy_open after its gate, and mtcaDummy_release. *)

(* Mutant: opening does not count. *)
InstallWithoutCount(t) ==
  /\ pc[t] = "install"
  /\ file' = [file EXCEPT ![t] = call[t].dev]
  /\ Return(t, 0)
  /\ UNCHANGED <<control, controlMutex, devMutex, bars, inUse, call, idx, spiFail,
                 result, seen, torn>>

Install(t) ==
  /\ pc[t] = "install"
  /\ file' = [file EXCEPT ![t] = call[t].dev]
  /\ inUse' = [inUse EXCEPT ![call[t].dev] = @ + 1]
  /\ Return(t, 0)
  /\ UNCHANGED <<control, controlMutex, devMutex, bars, call, idx, spiFail,
                 result, seen, torn>>

(* Mutant: closing does not count. *)
ReleaseWithoutCount(t) ==
  /\ pc[t] = "release"
  /\ file' = [file EXCEPT ![t] = NoFile]
  /\ Return(t, 0)
  /\ UNCHANGED <<control, controlMutex, devMutex, bars, inUse, call, idx, spiFail,
                 result, seen, torn>>

Release(t) ==
  /\ pc[t] = "release"
  /\ file' = [file EXCEPT ![t] = NoFile]
  /\ inUse' = [inUse EXCEPT ![file[t]] = @ - 1]
  /\ Return(t, 0)
  /\ UNCHANGED <<control, controlMutex, devMutex, bars, call, idx, spiFail,
                 result, seen, torn>>
-----------------------------------------------------------------------------
(* devMutex. *)

(* Mutant: the thread does not wait for the mutex. *)
LockDeviceWithoutWaiting(t) ==
  /\ pc[t] = "lock"
  /\ devMutex' = [devMutex EXCEPT ![Dev(t)] = t]
  /\ Goto(t, "body")
  /\ UNCHANGED <<control, controlMutex, bars, inUse, file, locals, seen, torn>>

LockDevice(t) ==
  /\ pc[t] = "lock"
  /\ devMutex[Dev(t)] = Nobody
  /\ devMutex' = [devMutex EXCEPT ![Dev(t)] = t]
  /\ Goto(t, "body")
  /\ UNCHANGED <<control, controlMutex, bars, inUse, file, locals, seen, torn>>

DeviceInterrupted(t) ==
  /\ pc[t] = "lock"
  /\ Interrupted(devMutex[Dev(t)])
  /\ Return(t, ERESTARTSYS)
  /\ UNCHANGED <<control, controlMutex, devMutex, bars, inUse, file, call, idx,
                 spiFail, result, seen, torn>>
-----------------------------------------------------------------------------
(* The DMA reads: the RW_DMA mode of mtcaDummy_read and the READ_DMA       *)
(* ioctls copy words of bar 2 to the caller with devMutex held.            *)

(* The request gets as far as the copy_to_user from dmaBar. *)
CopiesDma(d, c) ==
  \/ /\ c.op = "read" /\ c.count >= sizeof_device_rw /\ c.mode = RW_DMA
     /\ c.size # 0 /\ DmaFits(c.offset, c.size)
  \/ /\ c.op = "ioctl" /\ c.nr = IoctlTable[FileOps(d).ioctl].readDma
     /\ DmaIoctlFits(c.offset, c.size)

InDmaCopy(t) == pc[t] = "body" /\ CopiesDma(Dev(t), call[t])

(* The word of bar 2 the copy is at, and what is there: a request that has *)
(* got past the check by the wrap of its sum leaves the bar.               *)
DmaIndex(t) == DmaFirst(call[t].offset) + idx[t]

DmaSource(d, w) == IF w \in DOMAIN dmaBar[d] THEN {dmaBar[d][w]} ELSE Beyond

(* Mutant: devMutex is released before the copy. *)
CopyDmaWordUnlocked(t) ==
  /\ InDmaCopy(t)
  /\ idx[t] < DmaLength(call[t].size)
  /\ \E x \in DmaSource(Dev(t), DmaIndex(t)) : result' = [result EXCEPT ![t] = Append(@, x)]
  /\ idx' = [idx EXCEPT ![t] = @ + 1]
  /\ devMutex' = [devMutex EXCEPT ![Dev(t)] = Nobody]
  /\ UNCHANGED <<control, controlMutex, bars, inUse, file, pc, call, spiFail, ret, seen, torn>>

CopyDmaWord(t) ==
  /\ InDmaCopy(t)
  /\ idx[t] < DmaLength(call[t].size)
  /\ \E x \in DmaSource(Dev(t), DmaIndex(t)) : result' = [result EXCEPT ![t] = Append(@, x)]
  /\ idx' = [idx EXCEPT ![t] = @ + 1]
  /\ UNCHANGED <<control, controlMutex, devMutex, bars, inUse, file, pc, call,
                 spiFail, ret, seen, torn>>

(* All words are copied, or the copy of the request from the caller or of  *)
(* a word to it has failed.                                                *)
CopyDmaEnds(t) ==
  /\ InDmaCopy(t)
  /\ LET n == DmaLength(call[t].size) IN
       \/ idx[t] = n /\ Finish(t, IF call[t].op = "read" THEN call[t].size ELSE 0)
       \/ (idx[t] = 0 \/ idx[t] < n) /\ TRUE \in Faults /\ Finish(t, EFAULT)
  /\ UNCHANGED <<control, controlMutex, bars, inUse, file, call, idx, spiFail,
                 result, seen, torn>>
-----------------------------------------------------------------------------
(* mtcaDummy_read: what it returns and delivers for a device_rw for which  *)
(* it makes no DMA copy.                                                   *)
StructRead(d, c) ==
  LET fail(r) == [ret |-> r, data |-> <<>>]
      ok(r, words) == [ret |-> r, data |-> words]
  IN CASE c.count < sizeof_device_rw -> fail(EFAULT)
       [] c.count >= sizeof_device_rw /\ c.mode = RW_INFO ->
            ok(sizeof_device_rw,
               <<MTCADUMMY_DRV_VERSION_MIN, MTCADUMMY_DRV_VERSION_MAJ,
                 MTCADUMMY_DRV_VERSION_MAJ + 1, d, MTCADUMMY_DRV_VERSION_MIN + 1>>)
       [] c.count >= sizeof_device_rw /\ c.mode = RW_D32 ->
            IF ~RegisterAccessible(c.bar, c.offset) THEN fail(EFAULT)
            ELSE IF mtcadummy_performPreReadAction(c.offset, c.bar) THEN fail(EIO)
            ELSE ok(sizeof_device_rw, <<BarContent(d, c.bar)[c.offset \div 4]>>)
       [] c.count >= sizeof_device_rw /\ c.mode = RW_DMA ->
            IF c.size = 0 THEN ok(0, <<>>) ELSE fail(EFAULT)
       [] OTHER -> fail(EFAULT)

mtcaDummy_read(t) ==
  /\ pc[t] = "body" /\ call[t].op = "read" /\ ~InDmaCopy(t)
  /\ \E fault \in Faults :
       LET out == IF fault THEN [ret |-> EFAULT, data |-> <<>>] ELSE StructRead(Dev(t), call[t])
       IN  /\ Finish(t, out.ret)
           /\ result' = [result EXCEPT ![t] = out.data]
  /\ UNCHANGED <<control, controlMutex, bars, inUse, file, call, idx, spiFail, seen, torn>>

(* mtcaDummy_write up to the firmware simulation, for a request it rejects *)
(* and for one whose word it stores.                                       *)
StructWriteOk(c) ==
  /\ c.count >= sizeof_device_rw
  /\ c.mode = RW_D32
  /\ RegisterAccessible(c.bar, c.offset)

(* Mutant: an early return without the unlock. *)
RejectedWithoutUnlock(t) ==
  /\ pc[t] = "body" /\ call[t].op = "write"
  /\ ~StructWriteOk(call[t]) \/ TRUE \in Faults
  /\ Return(t, EFAULT)
  /\ UNCHANGED <<control, controlMutex, devMutex, bars, inUse, file, call, idx,
                 spiFail, result, seen, torn>>

mtcaDummy_write_rejected(t) ==
  /\ pc[t] = "body" /\ call[t].op = "write"
  /\ ~StructWriteOk(call[t]) \/ TRUE \in Faults
  /\ Finish(t, EFAULT)
  /\ UNCHANGED <<control, controlMutex, bars, inUse, file, call, idx, spiFail,
                 result, seen, torn>>

(* Mutant: devMutex is released before the firmware reacts. *)
WriteUnlocksBeforeFirmware(t) ==
  /\ pc[t] = "body" /\ call[t].op = "write"
  /\ StructWriteOk(call[t])
  /\ Store(Dev(t), CurBar(t), CurOffset(t), CurData(t))
  /\ IF CurBar(t) = 0
       THEN Goto(t, "fw") /\ devMutex' = [devMutex EXCEPT ![Dev(t)] = Nobody] /\ UNCHANGED ret
       ELSE Finish(t, sizeof_device_rw)
  /\ UNCHANGED <<control, controlMutex, inUse, file, call, idx, spiFail, result, seen, torn>>

mtcaDummy_write(t) ==
  /\ pc[t] = "body" /\ call[t].op = "write"
  /\ StructWriteOk(call[t])
  /\ Store(Dev(t), CurBar(t), CurOffset(t), CurData(t))
  /\ IF CurBar(t) = 0
       THEN Goto(t, "fw") /\ UNCHANGED <<devMutex, ret>>
       ELSE Finish(t, sizeof_device_rw)
  /\ UNCHANGED <<control, controlMutex, inUse, file, call, idx, spiFail, result, seen, torn>>
-----------------------------------------------------------------------------
(* The handlers without struct: the check before the mutex is taken, then  *)
(* one step per word.                                                      *)

(* Mutant: the mutex is not taken after the check. *)
CheckTransferWithoutLock(t) ==
  /\ pc[t] = "check"
  /\ IF TransferAccepted(call[t].count, call[t].pos)
       THEN Goto(t, "body") /\ UNCHANGED ret
       ELSE Return(t, EFAULT)
  /\ UNCHANGED <<control, controlMutex, devMutex, bars, inUse, file, call, idx,
                 spiFail, result, seen, torn>>

CheckTransfer(t) ==
  /\ pc[t] = "check"
  /\ IF TransferAccepted(call[t].count, call[t].pos)
       THEN Goto(t, "lock") /\ UNCHANGED ret
       ELSE Return(t, EFAULT)
  /\ UNCHANGED <<control, controlMutex, devMutex, bars, inUse, file, call, idx,
                 spiFail, result, seen, torn>>

ReadWord(t) ==
  /\ pc[t] = "body" /\ call[t].op = "pread"
  /\ idx[t] < WordsToTransfer(t)
  /\ ~mtcadummy_performPreReadAction(CurOffset(t), CurBar(t))
  /\ result' = [result EXCEPT ![t] =
                  Append(@, BarContent(Dev(t), CurBar(t))[CurOffset(t) \div 4])]
  /\ idx' = [idx EXCEPT ![t] = @ + 1]
  /\ UNCHANGED <<control, controlMutex, devMutex, bars, inUse, file, pc, call,
                 spiFail, ret, seen, torn>>

(* Mutant: an error return without the unlock. *)
ReadWordFailsWithoutUnlock(t) ==
  /\ pc[t] = "body" /\ call[t].op = "pread"
  /\ idx[t] < WordsToTransfer(t)
  /\ mtcadummy_performPreReadAction(CurOffset(t), CurBar(t))
  /\ Return(t, EIO)
  /\ UNCHANGED <<control, controlMutex, devMutex, bars, inUse, file, call, idx,
                 spiFail, result, seen, torn>>

ReadWordFails(t) ==
  /\ pc[t] = "body" /\ call[t].op = "pread"
  /\ idx[t] < WordsToTransfer(t)
  /\ \/ mtcadummy_performPreReadAction(CurOffset(t), CurBar(t)) /\ Finish(t, EIO)
     \/ /\ ~mtcadummy_performPreReadAction(CurOffset(t), CurBar(t))
        /\ TRUE \in Faults
        /\ Finish(t, EFAULT)
  /\ UNCHANGED <<control, controlMutex, bars, inUse, file, call, idx, spiFail,
                 result, seen, torn>>

WriteWord(t) ==
  /\ pc[t] = "body" /\ call[t].op = "pwrite"
  /\ idx[t] < WordsToTransfer(t)
  /\ Store(Dev(t), CurBar(t), CurOffset(t), CurData(t))
  /\ IF CurBar(t) = 0
       THEN Goto(t, "fw") /\ UNCHANGED idx
       ELSE idx' = [idx EXCEPT ![t] = @ + 1] /\ UNCHANGED pc
  /\ UNCHANGED <<control, controlMutex, devMutex, inUse, file, call, spiFail,
                 result, ret, seen, torn>>

(* copy_from_user copies straight into the bar; on a fault it zeroes the   *)
(* bytes it could not copy, and no firmware action runs.  0 to 3 bytes of  *)
(* the word are copied, the least significant ones.                        *)
PartialCopies == {1, 256, 65536, 16777216}

WriteWordFaults(t) ==
  /\ pc[t] = "body" /\ call[t].op = "pwrite"
  /\ idx[t] < WordsToTransfer(t)
  /\ TRUE \in Faults
  /\ \E m \in PartialCopies : Store(Dev(t), CurBar(t), CurOffset(t), CurData(t) % m)
  /\ Finish(t, EFAULT)
  /\ torn' = IF CurBar(t) = 0 THEN [torn EXCEPT ![Dev(t)] = @ \cup {CurOffset(t)}] ELSE torn
  /\ UNCHANGED <<control, controlMutex, inUse, file, call, idx, spiFail, result, seen>>

(* Mutant: the requested instead of the transferred number is returned. *)
TransferDoneRequested(t) ==
  /\ pc[t] = "body" /\ call[t].op \in PlainOps
  /\ idx[t] = WordsToTransfer(t)
  /\ Finish(t, call[t].count)
  /\ UNCHANGED <<control, controlMutex, bars, inUse, file, call, idx, spiFail,
                 result, seen, torn>>

TransferDone(t) ==
  /\ pc[t] = "body" /\ call[t].op \in PlainOps
  /\ idx[t] = WordsToTransfer(t)
  /\ Finish(t, nBytesToTransfer(call[t].count, call[t].pos))
  /\ UNCHANGED <<control, controlMutex, bars, inUse, file, call, idx, spiFail,
                 result, seen, torn>>
-----------------------------------------------------------------------------
(* mtcadummy_performActionOnWrite for bar 0, called with devMutex held.    *)

(* Its -ERESTARTSYS makes the caller unlock and return -EIO. *)
FirmwareInterrupted(t) ==
  /\ pc[t] = "fw"
  /\ Interrupted(controlMutex)
  /\ Finish(t, EIO)
  /\ torn' = [torn EXCEPT ![Dev(t)] = @ \cup {CurOffset(t)}]
  /\ UNCHANGED <<control, controlMutex, bars, inUse, file, call, idx, spiFail, result, seen>>

(* Mutant: a copied block reads the flag of another option. *)
SampleWriteError(t) ==
  /\ pc[t] = "fwLocked"
  /\ spiFail' = [spiFail EXCEPT ![t] = control.write]
  /\ controlMutex' = Nobody
  /\ Goto(t, "fwAct")
  /\ UNCHANGED <<control, devMutex, bars, inUse, file, call, idx, result, ret, seen, torn>>

SampleSpiError(t) ==
  /\ pc[t] = "fwLocked"
  /\ spiFail' = [spiFail EXCEPT ![t] = control.spi]
  /\ controlMutex' = Nobody
  /\ Goto(t, "fwAct")
  /\ UNCHANGED <<control, devMutex, bars, inUse, file, call, idx, result, ret, seen, torn>>

FirmwareAction(t) ==
  /\ pc[t] = "fwAct"
  /\ LET d == Dev(t)
         offset == CurOffset(t)
     IN /\ systemBar' = [systemBar EXCEPT ![d] =
                           mtcadummy_performActionOnWrite(@, offset, spiFail[t])]
        /\ dmaBar' = [dmaBar EXCEPT ![d] = SampledDma(systemBar[d], @, offset)]
        /\ torn' = [torn EXCEPT ![d] = @ \ {offset}]
        /\ CASE WriteActionFails(offset) -> Finish(t, EIO) /\ UNCHANGED idx
             [] ~WriteActionFails(offset) /\ call[t].op = "write" ->
                  Finish(t, sizeof_device_rw) /\ UNCHANGED idx
             [] OTHER ->
                  /\ idx' = [idx EXCEPT ![t] = @ + 1]
                  /\ Goto(t, "body")
                  /\ UNCHANGED <<devMutex, ret>>
  /\ UNCHANGED <<control, controlMutex, inUse, file, call, spiFail, result, seen>>
-----------------------------------------------------------------------------
(* The three ioctl handlers: the checks before the mutex is taken, then    *)
(* the switch over the commands; an accepted READ_DMA goes on with the DMA *)
(* copy.                                                                   *)

IoctlCheck(t) ==
  /\ pc[t] = "ioctl"
  /\ LET table == IoctlTable[FileOps(file[t]).ioctl]
         known == call[t].type = table.type /\ call[t].nr \in table.range
     IN \/ known /\ Goto(t, "lock") /\ UNCHANGED ret
        \/ ~known /\ Return(t, ENOTTY)
        \/ known /\ TRUE \in Faults /\ Return(t, EFAULT)
  /\ UNCHANGED <<control, controlMutex, devMutex, bars, inUse, file, call, idx,
                 spiFail, result, seen, torn>>

IoctlOutcome(d, c) ==
  LET table == IoctlTable[FileOps(d).ioctl]
  IN CASE c.nr = table.slot       -> [ret |-> 0, data |-> <<d>>]
       [] c.nr \in table.version  ->
            [ret |-> 0, data |-> <<MTCADUMMY_DRV_VERSION_MAJ, MTCADUMMY_DRV_VERSION_MIN>>]
       [] c.nr = table.readDma    -> [ret |-> EFAULT, data |-> <<>>]
       [] OTHER -> [ret |-> ENOTTY, data |-> <<>>]

mtcaDummy_ioctl(t) ==
  /\ pc[t] = "body" /\ call[t].op = "ioctl" /\ ~InDmaCopy(t)
  /\ \E fault \in Faults :
       LET normal == IoctlOutcome(Dev(t), call[t])
           out == IF fault /\ normal.ret # ENOTTY THEN [ret |-> EFAULT, data |-> <<>>] ELSE normal
       IN  /\ Finish(t, out.ret)
           /\ result' = [result EXCEPT ![t] = out.data]
  /\ UNCHANGED <<control, controlMutex, bars, inUse, file, call, idx, spiFail, seen, torn>>
-----------------------------------------------------------------------------
(* mtcadummy_proc_write: copy and parse the line, then set all flags in    *)
(* one go under controlMutex.                                              *)

ProcWriteCopy(t) ==
  /\ pc[t] = "control"
  /\ \/ Goto(t, "setControl") /\ UNCHANGED ret
     \/ TRUE \in Faults /\ Return(t, EFAULT)
  /\ UNCHANGED <<control, controlMutex, devMutex, bars, inUse, file, call, idx,
                 spiFail, result, seen, torn>>

ProcWriteInterrupted(t) ==
  /\ pc[t] = "setControl"
  /\ Interrupted(controlMutex)
  /\ Return(t, EWOULDBLOCK)
  /\ UNCHANGED <<control, controlMutex, devMutex, bars, inUse, file, call, idx,
                 spiFail, result, seen, torn>>

SetControl(t) ==
  /\ pc[t] = "controlLocked"
  /\ control' = mtcadummy_proc_write(control, call[t].line)
  /\ controlMutex' = Nobody
  /\ Return(t, call[t].count)
  /\ seen' = [u \in Threads |->
                IF seen[u] # {} /\ pc[u] # "done" THEN seen[u] \cup {control'} ELSE seen[u]]
  /\ UNCHANGED <<devMutex, bars, inUse, file, call, idx, spiFail, result, torn>>
-----------------------------------------------------------------------------
(* The dump: seq_read calls mtcadummy_seq_show for one slot after another. *)
(* A slot whose device is in use is printed with its devMutex held.        *)

(* Mutant: every device is printed. *)
SeqShowAll(t) ==
  /\ pc[t] = "dump"
  /\ idx[t] < MTCADUMMY_NR_DEVS
  /\ IF idx[t] \in Devices
       THEN Goto(t, "lock") /\ UNCHANGED idx
       ELSE idx' = [idx EXCEPT ![t] = @ + 1] /\ UNCHANGED pc
  /\ UNCHANGED <<control, controlMutex, devMutex, bars, inUse, file, call,
                 spiFail, result, ret, seen, torn>>

SeqShow(t) ==
  /\ pc[t] = "dump"
  /\ idx[t] < MTCADUMMY_NR_DEVS
  /\ IF idx[t] \in Devices /\ inUse[idx[t]] # 0
       THEN Goto(t, "lock") /\ UNCHANGED idx
       ELSE idx' = [idx EXCEPT ![t] = @ + 1] /\ UNCHANGED pc
  /\ UNCHANGED <<control, controlMutex, devMutex, bars, inUse, file, call,
                 spiFail, result, ret, seen, torn>>

(* The registers are printed, then the DMA bar; what has been printed of   *)
(* the device is in result until the mutex is released.                    *)
PrintSystemBar(t) ==
  /\ pc[t] = "body" /\ call[t].op = "dump"
  /\ result[t] = <<>>
  /\ result' = [result EXCEPT ![t] = <<systemBar[Dev(t)]>>]
  /\ UNCHANGED <<control, controlMutex, devMutex, bars, inUse, file, pc, call, idx,
                 spiFail, ret, seen, torn>>

(* Mutant: the position is advanced by show and by next. *)
PrintDmaBarAdvancesTwice(t) ==
  /\ pc[t] = "body" /\ call[t].op = "dump"
  /\ result[t] # <<>>
  /\ result' = [result EXCEPT ![t] = <<>>]
  /\ devMutex' = [devMutex EXCEPT ![Dev(t)] = Nobody]
  /\ idx' = [idx EXCEPT ![t] = @ + 2]
  /\ Goto(t, "dump")
  /\ UNCHANGED <<control, controlMutex, bars, inUse, file, call, spiFail,
                 ret, seen, torn>>

PrintDmaBar(t) ==
  /\ pc[t] = "body" /\ call[t].op = "dump"
  /\ result[t] # <<>>
  /\ result' = [result EXCEPT ![t] = <<>>]
  /\ devMutex' = [devMutex EXCEPT ![Dev(t)] = Nobody]
  /\ idx' = [idx EXCEPT ![t] = @ + 1]
  /\ Goto(t, "dump")
  /\ UNCHANGED <<control, controlMutex, bars, inUse, file, call, spiFail,
                 ret, seen, torn>>

SeqStop(t) ==
  /\ pc[t] = "dump"
  /\ idx[t] >= MTCADUMMY_NR_DEVS
  /\ Return(t, 0)
  /\ UNCHANGED <<control, controlMutex, devMutex, bars, inUse, file, call, idx,
                 spiFail, result, seen, torn>>
-----------------------------------------------------------------------------
(* A signal ends the wait for a mutex. *)
Signal(t) ==
  GateInterrupted(t) \/ DeviceInterrupted(t) \/ FirmwareInterrupted(t) \/ ProcWriteInterrupted(t)

Step(t) ==
  \/ NullOperation(t) \/ Exit(t) \/ PassGate(t)
  \/ Install(t) \/ Release(t)
  \/ CopyDmaWord(t) \/ CopyDmaEnds(t)
  \/ mtcaDummy_read(t) \/ mtcaDummy_write_rejected(t) \/ mtcaDummy_write(t)
  \/ CheckTransfer(t) \/ ReadWord(t) \/ ReadWordFails(t)
  \/ WriteWord(t) \/ WriteWordFaults(t) \/ TransferDone(t)
  \/ SampleSpiError(t) \/ FirmwareAction(t)
  \/ IoctlCheck(t) \/ mtcaDummy_ioctl(t)
  \/ ProcWriteCopy(t) \/ SetControl(t)
  \/ SeqShow(t) \/ PrintSystemBar(t) \/ PrintDmaBar(t) \/ SeqStop(t)

ThreadStep(t) ==
  \/ \E c \in Calls : Enter(t, c)
  \/ LockControl(t) \/ LockDevice(t) \/ Signal(t) \/ Step(t)

Next == \E t \in Threads : ThreadStep(t)

Spec == Init /\ [][Next]_vars

(* A thread inside the driver is scheduled, and a thread that waits for a  *)
(* mutex gets it in the end: the kernel's mutexes queue their waiters and  *)
(* hand the mutex over to the first.  Nothing makes a thread call.         *)
Fairness ==
  \A t \in Threads : WF_vars(Step(t)) /\ SF_vars(LockControl(t)) /\ SF_vars(LockDevice(t))

FairSpec == Spec /\ Fairness
=============================================================================
