------------------------- MODULE MtcaDummySafety -------------------------
(***************************************************************************)
(* The correctness properties of the driver.                               *)
(***************************************************************************)
EXTENDS MtcaDummyDriver, FiniteSets

ASSUME ThreadsAssumption == IsFiniteSet(Threads)

Labels ==
  {"idle", "null", "done", "gate", "gateLocked", "install", "release", "check",
   "lock", "body", "fw", "fwLocked", "fwAct", "ioctl", "control", "setControl",
   "controlLocked", "dump"}

(* Type correctness.  The counts are natural numbers: inUse never drops    *)
(* below the 0 that mtcaDummy_init_module gives it.                        *)
TypeOK ==
  /\ control \in [Options -> BOOLEAN]
  /\ controlMutex \in Threads \cup {Nobody}
  /\ devMutex \in [Devices -> Threads \cup {Nobody}]
  /\ systemBar \in [Devices -> SystemBar]
  /\ dmaBar \in [Devices -> DmaBar]
  /\ inUse \in [Devices -> Nat]
  /\ file \in [Threads -> Devices \cup {NoFile}]
  /\ pc \in [Threads -> Labels]
  /\ call \in [Threads -> Calls \cup {NoCall}]
  /\ idx \in [Threads -> Nat]
  /\ spiFail \in [Threads -> BOOLEAN]
  /\ ret \in [Threads -> Int]
  /\ seen \in [Threads -> SUBSET [Options -> BOOLEAN]]
  /\ torn \in [Devices -> SUBSET Nat]
-----------------------------------------------------------------------------
ControlLabels == {"gateLocked", "fwLocked", "controlLocked"}
FirmwareLabels == {"fw", "fwLocked", "fwAct"}
DeviceLabels == {"body"} \cup FirmwareLabels

(* A mutex is held by exactly the thread whose program counter is between  *)
(* its lock and its unlock: every early return of a handler unlocks what   *)
(* it has locked, none unlocks what another thread holds, and a thread     *)
(* that has left the driver holds nothing.                                 *)
LockDiscipline ==
  /\ \A t \in Threads : (controlMutex = t) <=> (pc[t] \in ControlLabels)
  /\ \A d \in Devices, t \in Threads :
       (devMutex[d] = t) <=> (pc[t] \in DeviceLabels /\ Dev(t) = d)

(* inUse counts the open files of the device, whatever the interleaving of *)
(* openings and closings (mtcadummy.h:69): the dump prints a device if and *)
(* only if somebody has it open.  The empty table of device 5 is left out. *)
OpenFiles(d) == {t \in Threads : file[t] = d}

InUseCountsOpenFiles ==
  \A d \in Devices : FileOps(d).open => inUse[d] = Cardinality(OpenFiles(d))

(* Bars are "only access when holding the mutex!" (mtcadummy.h:81): a step *)
(* that changes a bar is a step of the thread that holds the device's      *)
(* devMutex.                                                               *)
BarsOnlyUnderMutex ==
  [][\A d \in Devices :
       <<systemBar[d], dmaBar[d]>>' # <<systemBar[d], dmaBar[d]>> =>
         \E t \in Threads : /\ devMutex[d] = t
                            /\ <<pc[t], idx[t]>>' # <<pc[t], idx[t]>>]_vars

(* Every word an area read has delivered is still what the bar holds when  *)
(* the read goes on to the next word and when it returns: the words of one *)
(* read are a snapshot, however many writers run.                          *)
AreaReadIsSnapshot ==
  \A t \in Threads : pc[t] = "body" /\ call[t].op = "pread" =>
    \A k \in 1 .. Len(result[t]) :
      result[t][k] = BarContent(Dev(t), CurBar(t))[(OffsetOf(call[t].pos) \div 4) + k - 1]

(* The same for the copy of a DMA read, word by word, against samplings    *)
(* and writers of bar 2: what it has copied is what bar 2 holds until the  *)
(* read returns.  A word from outside of the bar is nobody's.              *)
DmaReadIsSnapshot ==
  \A t \in Threads : InDmaCopy(t) =>
    \A k \in 1 .. Len(result[t]) :
      LET w == DmaFirst(call[t].offset) + k - 1 IN
        w \in DOMAIN dmaBar[Dev(t)] => result[t][k] = dmaBar[Dev(t)][w]

(* The two bars that a dump prints of a device belong together: while it   *)
(* prints the DMA bar, the registers are still those it has printed.       *)
DumpShowsOneState ==
  \A t \in Threads : pc[t] = "body" /\ call[t].op = "dump" /\ result[t] # <<>> =>
    result[t] = <<systemBar[Dev(t)]>>

(* Every word an area transfer touches lies inside the bar it addresses:   *)
(* the request was clipped to the bar.                                     *)
TransferInsideBar ==
  \A t \in Threads :
    pc[t] \in DeviceLabels /\ call[t].op \in PlainOps /\ idx[t] < WordsToTransfer(t) =>
      CurOffset(t) \div 4 \in DOMAIN BarContent(Dev(t), CurBar(t))

(* An area transfer that returns a count has moved exactly that many bytes *)
(* and has advanced the file position by them.                             *)
CountMatchesPosition ==
  \A t \in Threads :
    pc[t] = "done" /\ call[t].op \in PlainOps /\ ret[t] >= 0 => ret[t] = 4 * idx[t]

(* The registers documented as read only hold their values, except while a *)
(* write to them is waiting for the firmware to set them back and after a  *)
(* write that never got that far.                                          *)
BeingWritten(d, r) ==
  \E t \in Threads : pc[t] \in FirmwareLabels /\ file[t] = d /\ CurOffset(t) = r

ReadOnlyRegisters ==
  \A d \in Devices : \A r \in DOMAIN ReadOnlyValue :
    \/ REG(systemBar[d], r) = ReadOnlyValue[r]
    \/ r \in torn[d]
    \/ BeingWritten(d, r)

(* Fault injection takes effect for every call that starts after the proc  *)
(* file was written (README.md:123 "all following attempts"): a call gets  *)
(* past its gate only if its option has been off at some time since it     *)
(* began, and an open is refused only if the option has been on.           *)
DocumentedOption ==
  [op \in GatedOps |-> CASE op = "open"              -> "open"
                        [] op \in {"read", "pread"} -> "read"
                        [] OTHER                    -> "write"]

InjectionRespected ==
  \A t \in Threads : call[t].op \in GatedOps =>
    LET option == DocumentedOption[call[t].op] IN
      /\ pc[t] \in {"install", "check", "lock"} \cup DeviceLabels
           => \E f \in seen[t] : ~f[option]
      /\ call[t].op = "open" /\ pc[t] = "done" /\ ret[t] = EINVAL
           => \E f \in seen[t] : f[option]
-----------------------------------------------------------------------------
(* Protocols between the firmware and clients that keep to the registers   *)
(* meant for them.                                                         *)

(* The call asks for a store to the byte offset r of a bar. *)
Touches(c, bar, r) ==
  \/ c.op = "write" /\ c.bar = bar /\ c.offset = r
  \/ /\ c.op = "pwrite"
     /\ BarOf(c.pos) = bar
     /\ r \in OffsetOf(c.pos) .. OffsetOf(c.pos) + c.count - 1

(* Nobody but the sampling writes bar 2, nobody but the firmware writes    *)
(* the clock registers or SPI_READ, and a client asks for an SPI transfer  *)
(* by a whole SYNC_REQUESTED.                                              *)
DmaClients == \A c \in Calls : \A r \in BarBytes(2) : ~Touches(c, 2, r)

ClockClients == DmaClients /\ \A c \in Calls : \A r \in ClockRegisters : ~Touches(c, 0, r)

SpiClients ==
  \A c \in Calls :
    /\ ~Touches(c, 0, MTCADUMMY_WORD_SPI_READ)
    /\ Touches(c, 0, MTCADUMMY_WORD_SPI_SYNC) =>
         c.op = "write" /\ c.data = MTCADUMMY_SPI_SYNC_REQUESTED

Settled(d, regs) == devMutex[d] = Nobody /\ torn[d] \cap regs = {}

(* "We set the clock reset bit to 1 to indicate that all counters have     *)
(* been zeroed" (mtcadummy_firmware.c:23): with clients that only trigger  *)
(* samplings and resets, CLK_RST # 0 means that all counters are 0, and a  *)
(* counter that is not 0 means that the samples are in the DMA bar.        *)
ClockResetMeansZeroed ==
  ClockClients => \A d \in Devices :
    Settled(d, {MTCADUMMY_WORD_CLK_RST}) =>
      /\ REG(systemBar[d], MTCADUMMY_WORD_CLK_RST) # 0 =>
           \A r \in ClockRegisters : REG(systemBar[d], r) = 0
      /\ REG(systemBar[d], MTCADUMMY_WORD_CLK_CNT_0) # 0 =>
           \A w \in 0 .. nSamples - 1 : dmaBar[d][w] = w * w

(* The SPI handshake: with clients that only write SYNC_REQUESTED to       *)
(* SPI_SYNC, SPI_SYNC = 0 means that SPI_READ holds what was last written  *)
(* to SPI_WRITE, also when the requests of two clients interleave and      *)
(* spi_error is switched meanwhile.                                        *)
SpiSyncOkMeansCopied ==
  SpiClients => \A d \in Devices :
    /\ Settled(d, {MTCADUMMY_WORD_SPI_WRITE})
    /\ REG(systemBar[d], MTCADUMMY_WORD_SPI_SYNC) = MTCADUMMY_SPI_SYNC_OK
    => REG(systemBar[d], MTCADUMMY_WORD_SPI_READ) = REG(systemBar[d], MTCADUMMY_WORD_SPI_WRITE)

(* "If set to 1, the SPI simulation will fail" (README.md:133): the        *)
(* firmware reads spi_error, unlocks, and reacts later.  It acknowledges a *)
(* word only if spi has been off at some time since the write began, and   *)
(* fails a requested transfer only if spi has been on at some time since.  *)
SpiErrorRespected ==
  [][\A t \in Threads :
       LET sync(bar) == REG(bar[file[t]], MTCADUMMY_WORD_SPI_SYNC) IN
       pc[t] = "fwAct" /\ pc'[t] # "fwAct" /\ CurOffset(t) = MTCADUMMY_WORD_SPI_WRITE =>
         /\ sync(systemBar') = MTCADUMMY_SPI_SYNC_OK => \E f \in seen[t] : ~f.spi
         /\ sync(systemBar) = MTCADUMMY_SPI_SYNC_REQUESTED
              /\ sync(systemBar') = MTCADUMMY_SPI_SYNC_ERROR => \E f \in seen[t] : f.spi]_vars
-----------------------------------------------------------------------------
(* Statements of the documentation that the runs read_only, broken_write,  *)
(* noioctl and dma_wrap refute.                                            *)

(* "Major version of the kernel module, ro" (README.md:23): whenever the   *)
(* device is free, its read-only registers hold their values.              *)
ReadOnlyAlways ==
  \A d \in Devices : devMutex[d] = Nobody =>
    \A r \in DOMAIN ReadOnlyValue : REG(systemBar[d], r) = ReadOnlyValue[r]

(* "you can read back the address, but cannot write"                       *)
(* (mtcadummy_firmware.c:31): BROKEN_WRITE always holds its own offset.    *)
BrokenWriteHoldsOffset ==
  \A d \in Devices : devMutex[d] = Nobody =>
    REG(systemBar[d], MTCADUMMY_BROKEN_WRITE) = MTCADUMMY_BROKEN_WRITE

(* "count how many times the device has been opened" (mtcadummy.h:69), for *)
(* every one of the 7 devices.                                             *)
InUseCountsEveryDevice ==
  \A d \in Devices : inUse[d] = Cardinality(OpenFiles(d))

(* "Reqested dma transfer is too large" (mtcadummy_drv.c:337): a request   *)
(* for more than bar 2 has is turned down, so a DMA copy that has begun    *)
(* finds every one of its words in the bar.                                *)
DmaCopyInsideBar ==
  \A t \in Threads :
    InDmaCopy(t) /\ idx[t] < DmaLength(call[t].size) => DmaIndex(t) \in DOMAIN dmaBar[Dev(t)]
-----------------------------------------------------------------------------
(* The inductive invariant behind the safety properties.                   *)

(* Which calls a thread can be in at a label. *)
AtLabel(t) ==
  /\ pc[t] # "idle" => call[t] \in Calls
  /\ pc[t] \in {"gate", "gateLocked"} => call[t].op \in GatedOps
  /\ pc[t] = "install" => call[t].op = "open"
  /\ pc[t] = "release" => call[t].op = "release"
  /\ pc[t] = "check" => call[t].op \in PlainOps
  /\ pc[t] \in {"lock", "body"} => call[t].op \in StructOps \cup PlainOps \cup {"ioctl", "dump"}
  /\ pc[t] \in FirmwareLabels => call[t].op \in {"write", "pwrite"}
  /\ pc[t] = "ioctl" => call[t].op = "ioctl"
  /\ pc[t] \in {"control", "setControl", "controlLocked"} => call[t].op = "control"
  /\ pc[t] = "dump" => call[t].op = "dump"
  /\ pc[t] = "null" => call[t].op \notin {"control", "dump"}

(* The file it uses: none before an open, an open one in the other device  *)
(* calls, with or without handlers.                                        *)
AtFile(t) ==
  pc[t] \notin {"idle", "done"} =>
    /\ call[t].op = "open" =>
         file[t] = NoFile /\ (pc[t] = "null" <=> ~FileOps(call[t].dev).open)
    /\ call[t].op \notin {"open", "control", "dump"} => file[t] \in Devices
    /\ call[t].op = "release" => (pc[t] = "null" <=> ~FileOps(file[t]).open)
    /\ call[t].op = "dump" /\ pc[t] \in {"lock", "body"} => idx[t] \in Devices

(* What the checks it has passed have established. *)
Checked(t) ==
  /\ call[t].op \in PlainOps /\ pc[t] \in {"lock"} \cup DeviceLabels =>
       TransferAccepted(call[t].count, call[t].pos)
  /\ pc[t] \in FirmwareLabels => CurBar(t) = 0
  /\ pc[t] \in FirmwareLabels /\ call[t].op = "write" => StructWriteOk(call[t])
  /\ pc[t] \in FirmwareLabels /\ call[t].op = "pwrite" => idx[t] < WordsToTransfer(t)

CallState == \A t \in Threads : AtLabel(t) /\ AtFile(t) /\ Checked(t)

IInv == TypeOK /\ CallState /\ LockDiscipline /\ InUseCountsOpenFiles /\ ReadOnlyRegisters
-----------------------------------------------------------------------------
(* Every system call returns: no thread waits for a mutex forever.         *)
CallsReturn == \A t \in Threads : pc[t] # "idle" ~> pc[t] = "idle"
=============================================================================
