# Verification of the mtcadummy driver

TLA+ models of the `mtcadummy` kernel module: seven simulated MTCA boards behind
character devices, used by test programs instead of hardware. TLC checks the
models on small instances; the TLA+ proof system proves the safety properties of
the driver for every number of threads, every set of devices and every set of
system calls (any offsets, sizes, positions and counts), that it implements an abstract board, the properties of loading and
unloading for every number of devices, and those of the client library and the test
programs for every job and number of clients.

## 1. The system

### Components

| Component | Source | State | Operations |
|---|---|---|---|
| firmware simulation | `mtcadummy_firmware.c/.h` | contents of bar 0 (32 registers) and bar 2 (DMA area) | initial register contents, reaction to a register write, pre-read action |
| struct interface | `mtcadummy_drv.c`, `pciedev_io.h` | per device `inUse`, `devMutex`; per file the device | open, release, read and write of a `device_rw` (`RW_INFO`, `RW_D32`, `RW_DMA`) |
| area access | `mtcadummy_rw_no_struct.c` | file position | checked and clipped reads and writes of words, device 6 |
| ioctl handlers | `mtcadummy_drv.c`, `*_io_compat.h` | none | slot, versions, DMA read; three near copies |
| fault injection | `mtcadummy_proc.c` | `controlData` (`open`, `read`, `write`, `spi`), `controlMutex` | a line written to `/proc/mtcadummy` |
| register dump | `mtcadummy_proc.c` | position of the walk | reading `/proc/mtcadummy` |
| init and cleanup | `mtcadummy_drv.c` | devices, bars, class, proc file | load, unwinding of a failed load, unload |
| clients and tests | `automatic_test/`, `test/` | file descriptor, progress of the job, buffers | `ReaderWriter` with two implementations, a test suite of six cases run with each, an interactive test |

### Interaction

All handlers run in the thread that made the system call. They share
`controlData` under the global `controlMutex` and the two bars of a device
under its `devMutex`. open, read and write look at a fault injection flag in
a short `controlMutex` section at their head and only then take `devMutex`; a
write to bar 0 calls the firmware simulation with `devMutex` held, which takes
`controlMutex` again to read `spi_error`. That nesting (device first, control
second) is the only one. `inUse` is an atomic counter outside of both.

### What is hard

* Every acquisition of a mutex is interruptible. An interruption inside the
  firmware simulation comes after the word has been stored.
* Copies from and to user space may fail anywhere, also in the middle of a
  transfer; the area write copies straight into the bar.
* Flags and checks are read, a mutex is released or waited for, and the result
  is used later.
* More than thirty places unlock `devMutex`.
* Protocols of several calls (SPI handshake, sampling and clock reset) are used by
  independent clients.
* The load can fail at several places for each device, after earlier devices have become
  visible; each failure has its own way back.
* The dump looks at `inUse` before it waits for `devMutex`, and holds no reference to
  the module.
* The two wrappers do the same by different means: a loop of system calls per word,
  or one per area, whose failures look different.
* Bounds: an offset at the end of a bar, clipped counts, 32-bit sums, a line
  buffer of 255 bytes.

PROJECT.json lists these hazards with their lines and the properties aimed at
them.

## 2. The modules

| Module | Models | Kind |
|---|---|---|
| `MtcaDummyHeader` | constants of the headers, types of words and bars | definitions |
| `MtcaDummyFirmware` | `mtcadummy_firmware.c` as functions on bar contents | definitions |
| `MtcaDummyTransfer` | bar, offset and size checks; clipping; what they promise | definitions |
| `MtcaDummyControl` | reception, parsing and application of a command line | definitions |
| `MtcaDummyDriver` | threads in the handlers, mutexes, bars, files | state machine, composes the four |
| `MtcaDummySafety` | the properties and the inductive invariant | properties |
| `MtcaDummyDump` | the driver with a history of what dumps print | state machine over `MtcaDummyDriver` |
| `MtcaDummyBoard` | what the handlers promise of a board: atomic words and reactions, one user at a time | abstract specification |
| `MtcaDummyAtomic` | the driver with the refinement mapping to `MtcaDummyBoard` | refinement |
| `MtcaDummyReaderWriter` | accesses to areas of words, and what one does to a board word by word | definitions, abstract |
| `MtcaDummyClients` | `ReaderWriter`, `StructReaderWriter`, `NormalReaderWriter` | state machine, composed with `MtcaDummyDriver` |
| `MtcaDummyTests` | the test suite and the interactive test as jobs of clients | jobs and their checks |
| `MtcaDummyModule` | `mtcaDummy_init_module`, `mtcaDummy_cleanup_module`, the proc file | state machine, properties and inductive invariant |
| `MCDriver`, `MCChecks`, `MCClients`, `MCModule` | instances for TLC | runs |
| `MtcaDummyTransferProofs` | the bounds checks | proofs |
| `MtcaDummyProofs` | the inductive invariant of the driver | proofs |
| `MtcaDummyCallProofs` | what calls deliver and return; fault injection; which devices a dump prints | proofs, over `MtcaDummyProofs` |
| `MtcaDummyAtomicProofs` | the refinement of `MtcaDummyBoard` | proofs, over `MtcaDummyCallProofs` |
| `MtcaDummyProtocolProofs` | clock reset, sampling and SPI handshake | proofs, over `MtcaDummyCallProofs` |
| `MtcaDummyClientProofs` | wrappers, test suite and interactive test | proofs, over `MtcaDummyProtocolProofs` |
| `MtcaDummyChecksProofs` | the invariants of `MCChecks`; the command line | proofs |
| `MtcaDummyModuleProofs` | load and unload | proofs |

### State and actions of `MtcaDummyDriver`

`control`, `controlMutex`, `devMutex`, `systemBar`, `dmaBar` and `inUse` are the
variables of the same names in the code. For each thread, `file` is the device
its descriptor refers to (a thread has at most one open), `pc` the point it has
reached, `call` its system call with arguments, `idx` the loop counter of a
transfer or the slot of a dump, `spiFail` the local variable of
`mtcadummy_performActionOnWrite`, `result` and `ret` what the call delivers.
`seen` and `torn` are history variables: the values `controlData` has had since a
gated call began, and the registers whose last write was cut off before the
firmware had reacted to it.

One step is the code between two points at which another thread can notice a
difference: taking a mutex; the code up to its release; one word of an area
transfer or of the copy of a DMA read. Steps that only return are joined with the
unlock before them. The DMA reads (`RW_DMA` and the `READ_DMA` ioctls) share two
actions: `CopiesDma` says which requests get past the checks to the `copy_to_user`,
`CopyDmaWord` copies one word, `CopyDmaEnds` returns, at the end or at a fault. The
sampling loop of the firmware is one step with the rest of the reaction; as the
copies that could see it halfway are word by word, a lock missing on either side
shows up as a torn read.

| `pc` | reached in the code | actions |
|---|---|---|
| `gate`, `gateLocked` | flag section at the head of open, read, write | `LockControl`, `GateInterrupted`, `PassGate` |
| `install`, `release` | rest of `mtcaDummy_open`; `mtcaDummy_release` | `Install`, `Release` |
| `check` | `checkAndCalculateTransferInformation` | `CheckTransfer` |
| `ioctl` | magic, range and `access_ok` | `IoctlCheck` |
| `lock` | waiting for `devMutex` | `LockDevice`, `DeviceInterrupted` |
| `body` | `devMutex` held | `CopyDmaWord`, `CopyDmaEnds`, `mtcaDummy_read`, `mtcaDummy_write`, `mtcaDummy_write_rejected`, `ReadWord`, `ReadWordFails`, `WriteWord`, `WriteWordFaults`, `TransferDone`, `mtcaDummy_ioctl`, `PrintSystemBar`, `PrintDmaBar` |
| `fw`, `fwLocked`, `fwAct` | `mtcadummy_performActionOnWrite` for bar 0 | `LockControl`, `FirmwareInterrupted`, `SampleSpiError`, `FirmwareAction` |
| `control`, `setControl`, `controlLocked` | `mtcadummy_proc_write` | `ProcWriteCopy`, `LockControl`, `ProcWriteInterrupted`, `SetControl` |
| `dump` | `mtcadummy_seq_show` before its mutex | `SeqShow`, `SeqStop` |
| `null` | a file operation that is a null pointer | `NullOperation` |

`Enter`, `Exit`, `NullOperation` and the operators they use model the kernel's
virtual file system as the driver relies on it. The table of device 5 is empty:
the initialiser meant for it has a misspelt name (finding `noioctl`).

### The board and the refinement

`MtcaDummyBoard` knows boards, clients and words. A client seizes a free board;
while it holds it, it writes words, each write one step together with the
firmware's reaction, and is given words the board has at that moment; a write may
be cut off, which stores some bytes and causes no reaction. Clients whose DMA
requests wrap (finding `dma_wrap`) may be given words that are nobody's: `StrayWords`
is `Beyond` if `Calls` has such a request, and empty otherwise, so that without
them the board gives out its own words only. There is no
`controlMutex`, no handler and no wait between a store and its reaction.

`MtcaDummyAtomic` maps the driver to it: `holder` is `devMutex`, `samples` is `dmaBar`,
`answer` what the current call has delivered, and `registers` is the history variable
`committed`, which is `systemBar` except while a thread is in
`mtcadummy_performActionOnWrite` for the device: then it is the bar before the store.
The step in which the handler stores the word is a stutter of the board, the step
in which the firmware reacts (or the wait for `controlMutex` is interrupted) is the
board's write (or its cut-off write). Runs `area` and `handlers` check the mapping for
both families of handlers and for dumps.

### State and actions of `MtcaDummyDump`

The driver's steps, each with an update of three histories per dump: the devices it
has printed, those that were open at some time since it began, and those that have
been open all the time. `PrintSystemBar` and `PrintDmaBar` are two steps, so that a
writer could come between them if the mutex let it.

### State and actions of `MtcaDummyModule`

`pc` is the point `insmod` or `rmmod` has reached, named after the kernel call made
there; `i`, `j` are the loop variables of the code and `k` the position in the
sequence of calls that takes one device down. `held` and `has` are what the module
and each device have acquired, and `inUse` is the counter. Each call into the kernel
is one action with a branch for its failure. `GotoError` jumps into `ErrorOrder` at the label the
code names; `UnrollOrder` and `CleanupOrder` are the loops over complete devices. Threads open
(`chrdev_open` in the kernel, `mtcaDummy_open` in the driver), release and dump
meanwhile. Devices in `EmptyTables` (device 5 in the code) have no handlers, so that
opening and closing them (`OpenUncounted`, `CloseUncounted`) counts nothing. `Load`, `Unload`, `chrdev_open`, `ReadersHaveLeft` and `EndDump` are the kernel's
part: `rmmod` is turned down while a file is open, `remove_proc_entry` waits for the
readers.

### State and actions of `MtcaDummyClients`

A client is a thread of `MtcaDummyDriver` whose calls come from a wrapper instead of
from `Calls`. It opens its device (`Construct`, `OpenReturns`), works through the accesses of its
`job`, and closes it (`Destruct`, `CloseReturns`). A `StructReaderWriter` makes one call per
word (`CallForWord`, `WordReturns`, `LoopEnds`; `done` and `buffer` are the loop's), a
`NormalReaderWriter` one per area (`BarTooLarge`, `CallForArea`, `AreaReturns`). `log`
collects for each access what was read and whether an exception was thrown. A job
that `quits` ends with the first exception, as `main` of the interactive test does;
the test suite catches those it provokes.

`MtcaDummyReaderWriter` says what an access promises, in the words of the interface class
"a loop around `readSingle`" and "a loop around `writeSingle`": `Serial` is one step of that
loop on a board (a word read or stored, the reaction of the firmware, the end, or an exception
at the first word that is refused), and `Disturbed` is what an injected error, a signal or
a fault can do to it. `View` maps a client, in whatever handler it is, to the state of that loop;
`AccessesAreSerial` says that every step of the system is a step of the loop under it or leaves
it alone, as long as nobody else writes the client's device (`Owners`). `MtcaDummyTests` translates the constructor
and the six cases of `MtcaDummyTest` and the four writes of `main` to jobs.

### Abstractions

* A word is a number below the constant `U32`, the size of bar 2, the
  number of samples and the distance of the bars in a file position are constants
  too. The proofs hold for all values that satisfy `HeaderAssumption` and
  `SamplesAssumption` (the square of a sample's number is a word), the real ones
  (2^32, 4096, 25, 2^60) among them.
* The protocols of the firmware are promises to clients that keep to their registers.
  Which those are is a precondition of the properties on `Calls`: `DmaClients` leave bar 2
  to the samplings, `ClockClients` also leave the clock registers to the firmware,
  `SpiClients` leave it `SPI_READ` and write to `SPI_SYNC` nothing but a request. The calls of run
  `handlers` satisfy all three.
* A system call is a record; `DriverAssumption` says which are meant. The
  offset and size of a DMA request are any 32-bit numbers, and their sum wraps as in the
  code. What a copy that leaves bar 2 finds there is any word of the constant `Beyond`.
  Pointers have 64 bits, so that the address of such a copy does not wrap; that the kernel may
  stop with a fault of its own when nothing is mapped there, or refuse a copy of more than
  2^31 bytes (which then is a fault of the copy), is not modelled separately.
* An ioctl command is its magic and its number. The size and direction bits,
  which the `switch` compares too, always belong to a defined command.
* A command line is the sequence of its tokens with the column at which each
  ends; a token that is cut off loses its one-digit value. The loop over the tokens is
  `Collected`, one application of `ScanToken` per pass.
* A failing copy is a nondeterministic choice (`Faults`). A fault in the middle
  of a word leaves its low bytes copied and the others zeroed.
* A signal can end any wait for a mutex that somebody else holds (`Signals`); the
  kernel's `mutex_lock_interruptible` does not fail when the mutex is free.
* The file position is part of the call, as with `pread` and `pwrite`. `idx`
  counts the words by which it has been advanced.
* A device can be opened as soon as `cdev_add` has returned, whether its node exists or
  not. `device_create` never returns a null pointer, so that its error branch, and with
  it the label `err_device_create`, is never reached.
* After a load that failed while files were open, whose handlers are gone with the
  module, no further step is modelled.
* An area of a client has at least one word and ends below 2^32, and its offset is below the
  distance of two bars (`IsAccess`). All accesses of the test programs do.
* The value `testWriteSingle` increments is the one an earlier access has read; if that access
  threw, which only fault injection, a signal or a fault can bring about, the job ends, while the
  test framework would go on with the next case.
* The test suite's object is constructed and destroyed once; its cases run in
  the order in which the suite adds them. Its second run, with the other wrapper, is a
  job of its own.
* The text of the dump is not modelled. A dump shows each slot once; `seq_read`
  may show a slot again after its buffer overflowed, which repeats the same
  locked section, and turns an interruption after the first slot into a short
  read.

## 3. What is checked

Each run is `tlc -config <run>.cfg <module>`.

| Run | Module | Shows | Bounds |
|---|---|---|---|
| `area` | `MCDriver` | `AreaReadIsSnapshot`, `DmaReadIsSnapshot`, `TransferInsideBar`, `CountMatchesPosition`, `ReadOnlyRegisters`, `BarsOnlyUnderMutex`, `ImplementsBoard`, `TypeOK` | 2 threads, device 6, scenarios of 8 and 7 calls, one of which wraps |
| `handlers` | `MCDriver` | `LockDiscipline`, `InUseCountsOpenFiles`, `InjectionRespected`, `DumpShowsOneState`, `PrintsOnlyOpened`, `PrintsAllOpen`, `ClockResetMeansZeroed`, `DmaReadIsSnapshot`, `SpiSyncOkMeansCopied`, `SpiErrorRespected`, `ImplementsBoard` | 2 threads, devices 3, 4 and 5, scenarios of 11, 5, 9, 12 and 6 calls |
| `checks` | `MCChecks` | `RequestClippedToBar`, `RegisterCheckExact`, `LastOptionWins` | every position in eight bars, every count up to 24; lines of up to 3 tokens below, at and above 254 characters |
| `lifecycle` | `MCModule` | `RegisteredMeansReady`, `NothingLeaked`, `ReleasedOnce`, `OpenFileKeepsDevice`, `DumpFindsDevices`, `InUseSinceRegistered`, `TypeOK`, `LoaderReturns` (liveness) | 3 devices, the middle one with an empty table, 2 threads |
| `clients` | `MCClients` | `ClientsAgree`, `TestsPass`, `PausesAsDocumented`, `AccessesAreSerial` | 2 clients and a thread that dumps, devices 0 and 6; all pairs of 18 accesses, both test programs |
| `returns` | `MCClients` | `CallsReturn`, `ClientsEnd` (liveness), `AccessesAreSerial`, `PausesAsDocumented` | a client and another thread, devices 0 and 6, 6 calls, signals |
| `read_only`, `broken_write`, `noioctl`, `dma_wrap` | `MCDriver` | refute statements of the documentation and of the code's own messages (section 5) | as `area` (`read_only`, `dma_wrap`) and `handlers` |
| `line_255` | `MCChecks` | the same | as `checks` |
| `node_missing` | `MCModule` | the same | 2 devices, 1 thread |

Scenarios. The calls of a run of `MCDriver` are grouped into sets that are not mixed
within a behaviour (`Scenarios`, chosen in the initial state): the calls of one set
concern the same registers or mutexes, and mixing the sets would multiply states
without a new kind of interaction. Run `clients` does the same with its jobs:
`ClientsAgree` is about clients that nobody disturbs, the tests run while a second client
reads the same device and a third thread dumps it.

Why these bounds. The threads interact only through two mutexes, the bars of a
device and `controlData`, and each property is about one thread and what the
others do meanwhile; the second thread may make any number of calls in any order
and so stands for all the others. That is an argument, not a proof: for the
properties of section 4 the theorems cover any number of threads. Devices share
nothing but `controlMutex` and `controlData`, so that one device with handlers
(and device 5 without) is enough to meet their interleavings; a dump walks over
devices, and gets two neighbouring ones. Bar 2 has four words of which a sampling fills three: room for a
transfer of two words, for one that is clipped, and for a word that no sampling
touches. In `clients` it has 40 words and 25 samples, so that the tests keep their indices,
all but those of the written area, which begins at word 28 instead of 100 (theorem `Tests` admits
either). Words have 16 bits, or stop at 1300 in `clients`: enough for all values the code
compares with.
Three devices give a failed load a device before the failing one, itself in the middle of
its loop, and one behind. Two accesses suffice for `ClientsAgree` to meet an
access whose outcome depends on what an earlier, perhaps failed, one left behind. Run `clients`
has no disturbance, run `returns` has signals and fault injection: `AccessesAreSerial` and
`PausesAsDocumented` are about both.

Fairness. In `returns`, a thread inside the driver that can go on does so (weak
fairness of `Step` and of the wrapper's steps): the handlers contain no loop that
waits. Waiting threads queue for a kernel mutex, and a waiter that was passed over
takes the mutex by handoff, so a thread that can take a mutex again and again
finally gets it (strong fairness of `LockControl` and `LockDevice`). Nothing forces
the other thread to make a call. In `lifecycle`, `insmod` and `rmmod` run on once they
have begun, and a dump, which walks over a fixed number of slots, ends; nobody need
close a file.

Deadlock is checked in all runs but three: in `clients` the clients come to an end and
nobody else makes calls, and in `lifecycle` and `node_missing` a load that failed with
files open is the end of what is modelled.

Every property has a mutant, a variation of a modelled definition as a plausible
mistake would produce it (a return without unlock, a dropped clip, the wrong
flag), kept next to the definition and marked as such; TLC finds the property
violated under it.

## 4. What is proved

`MtcaDummyTransferProofs`, for all natural numbers and without a state machine:
`ClipIsExact` and `RegisterCheckIsExact` are the two formulas that run `checks` tries on a
bounded address space. `DmaLeavesBarByWrap` says how far finding `dma_wrap` reaches: of the
DMA requests with a size that the check accepts, exactly those whose offset and size sum up to
2^32 or more copy a word from outside of bar 2.

`MtcaDummyProofs`, for all constants satisfying `HeaderAssumption`,
`DriverAssumption` and `ThreadsAssumption` (finitely many threads):

* `Inductive`: `Spec => []IInv`;
* `TypeCorrect`, `Locking`, `Counting`, `ReadOnly`: `[]TypeOK`, `[]LockDiscipline`,
  `[]InUseCountsOpenFiles`, `[]ReadOnlyRegisters`;
* `Bounded`: `[]TransferInsideBar`;
* `Exclusion`: the action property `BarsOnlyUnderMutex`.

The argument. The properties are not inductive one by one. That `inUse` stays a
natural number (`TypeOK`) needs that it counts the open files; that it counts
them needs that a thread in `release` has a file open and one in `install` has
none; the lock discipline needs that the device of a thread does not change
between lock and unlock; the read-only registers need that a thread in the
firmware simulation writes bar 0 at an aligned offset. `CallState` supplies these:
for each thread, `AtLabel` says which calls it can be in at a label, `AtFile`
which file it uses, and `Checked` what the checks it has passed have
established. `IInv` is `TypeOK`, `CallState`, `LockDiscipline`,
`InUseCountsOpenFiles` and `ReadOnlyRegisters` together; `TypeStep`,
`CallStateStep`, `LockStep`, `InUseStep` and `ReadOnlyStep` show that each survives
every action, given all. `OthersUnchanged` reduces that to the thread that moves.
For the locks, each action is put into one of five classes (takes or
releases one of the mutexes, or stays on its side of them), and
`ControlDiscipline` and `DeviceDiscipline` treat the classes once. `Bounded` follows
from `Checked` and `TransferBounds`; `Exclusion` from the lock discipline.

`MtcaDummyCallProofs`, under the same assumptions:

* `Delivery`: `Spec => []DeliveryInv`; from it `Snapshot` (`[]AreaReadIsSnapshot`),
  `DmaSnapshot` (`[]DmaReadIsSnapshot`) and `OneState` (`[]DumpShowsOneState`);
* `Counted`: `[]CountMatchesPosition`;
* `InjectionInductive`: `Spec => []InjectionInv`; from it `InjectionEffective`
  (`[]InjectionRespected`) and the action property `SpiError` (`SpiErrorRespected`).

The argument. That the words delivered so far are those of the bar *now* is what makes a
finished read a snapshot, so `DeliveryInv` says it for every point of a transfer:
`Delivered` relates `result`, `idx` and the bar of the locked device (`DmaDelivered` for a DMA copy), `Advanced` says that
a transfer begins at its first word, and `IInv` supplies that the thread in the transfer
holds `devMutex`. Lemma `BarsStay` turns that into the fact that nobody else changes
the bar. `CountMatchesPosition` needs in addition that a transfer ends only behind its last
word. For fault injection, `Watched` adds what the properties leave out: a call that
has not returned has the flags now in force among those it has `seen`, whoever
switched them, and the firmware's copy of `spi_error` is one of them.

About dumps, in the same module: `DumpInductive` (`DumpSpec => []DumpInv`), from it `OnlyOpened`
(`[]PrintsOnlyOpened`) and `AllOpen` (`[]PrintsAllOpen`).

The argument. `DumpHistory` relates the three histories to the slot the dump is at: the
devices open now are among those ever open since it began, those always open are
open now, a device it waits for or prints was open when it looked at `inUse`, and of
the slots behind it all that have always been open are printed. That a slot is passed
over only when nobody has it open needs `InUseCountsOpenFiles`, and for devices without
handlers, which are opened without being counted, `UncountedAreFree`. The steps of a dump
are put into seven classes (`DumpSteps`), and the history is followed through each.

`MtcaDummyAtomicProofs`: `Refinement` (`AtomicSpec => ImplementsBoard`).

The argument. The invariant is `Committed`: the history variable is bar 0, except while a
thread is in the firmware simulation for the device, when bar 0 is the history
variable with that thread's word stored in it. Lemma `FirmwareAlone`, from the lock discipline,
says that there is at most one. Each action of the driver is then matched to a step of
the board: taking `devMutex` to a seizure, a word of a transfer or an outcome of a struct
read or ioctl to an answer the board can give (which needs `DeliveryInv` and the exactness of
the bounds checks), a word of a DMA copy to such an answer or to a stray word, which needs that
the request wraps if the word is outside of bar 2 (`StrayByWrap`), the store to a stutter, the reaction to a write, and an interruption
or a fault to a write that is cut off.

`MtcaDummyProtocolProofs`: `SpiHandshake` (`[]SpiSyncOkMeansCopied`) and `ClockProtocol`
(`[]ClockResetMeansZeroed`), for any number of clients that satisfy the precondition.

The argument. Lemma `EveryDeviceStep` says once for all what a step can do to a device: leave
it alone (`Quiet`), store one word of the call that asked for it (`Stored`), or react to
the word stored (`Reacted`). `SpiStory` and `ClockStory` are the properties
without the assumption that the device is at rest: they say what holds in between, when a
store waits for its reaction or was cut off. Each is followed through the three cases.

`MtcaDummyChecksProofs`: `Clipping` and `RegisterChecks` are the invariants
`RequestClippedToBar` and `RegisterCheckExact` of run `checks`, for every bound of its walk.
`OptionRule` is the rule for any tokens that reach the parser, `CommandLine` (`[]LastOptionWins`)
the rule for lines of any length that fit into the buffer.

The argument. `Collected` is a loop, and what it leaves is shown by induction over its passes:
`LoopEnds` says that the recursive function takes the values of the passes, `OnePass` what one pass
does, and `LoopResult` that after `n` passes the variable of an option has the value of the
last of the first `n` tokens that names it. An induction is the impossibility of a least
counterexample (`LeastNumber`), since the prover cannot instantiate the library's induction
rules. `CommandLine` needs in addition that the tokens of a line end one after the other
(`EndsIncrease`), which the walk maintains and which makes the tokens that the handler receives a
prefix of the line (`ReceivedIsPrefix`), all of it if the line fits.

`MtcaDummyModuleProofs`, for any number of devices and any finite set of threads
(`ModuleAssumption`):

* `Lifecycle`: `Spec => []IInv`, where `IInv` is the one of `MtcaDummyModule`;
* `LifecycleTypes`, `Readiness`, `NoLeak`, `NoDoubleRelease`, `FilesKeepDevices`, `DumpsAreSafe`,
  `CountsSinceRegistered` (for the devices with handlers): all invariants of run `lifecycle`.

The argument. None of the invariants is inductive, because what a step may give back
depends on where the process is in which loop. `ModuleHolds` says what the module holds
at each label; `DevicesHave` says that devices below the loop variable are up and those
above are down, and what exactly the device in hand has at each label
(`BuiltParts`), after each jump into the error path (`UndoneParts`) and at each
position of a take-down (`PartsLeft`); `ThreadsUse` says who can have a file open or
read the proc file at each label. The two loops that take devices down share the
lemma `TakeDownStep`. That the load sets `inUse` to 0 without losing a count
follows from `ThreadsUse`: nobody can have the device open before `cdev_add`. `TypeOK`
needs the count again, as `inUse` may only go down when a file is open.

`MtcaDummyClientProofs`, for all constants that satisfy in addition `ClientsAssumption` and, where
it is about the test programs, `TestsAssumption`:

* `ClientsInductive`: `ClientsSpec => [](DeliveryInv /\ ClientsInv)`, which contains the safety
  part of `ClientsEnd`: a client that has ended has closed its file;
* `ClientsImplementDriver`: `ClientsSpec => Spec`, so that every theorem about the driver holds
  for it under its clients;
* `Serialisation`: the action property `AccessesAreSerial`;
* `WrappersAgree`, `Tests`, `Pauses`: `[]ClientsAgree`, `[]TestsPass`, `[]PausesAsDocumented`.

The argument. `ClientsInv` says for each client which system call it can be in: `Placed` ties
the file and the call to the stage of the client, `InCall` ties the call to the word or area
the wrapper is at, `Answered` says what a returned call has delivered, `Looping` and `Recorded`
what the loop and the finished accesses have. `OtherState` says that without a `control` call
no error is ever injected. Every action of a client is followed twice at once: it keeps
`ClientsInv`, and it makes the `View` of the client take one step of the loop or none. For an action
inside the driver that is the meat of the matter (`StructReadFollows`, `StoreFollows`,
`WriteWordFollows`, `ReadWordFollows`, `FirmwareFollows`, ...): one handler is called once per word
with a `device_rw`, the other walks over the area itself, and both come out as the same steps. For the
steps of other threads, `BarsOfOwner` says that nobody else changes the bars of an owner.

The three theorems on the tests are then about the loop alone, and no longer about handlers,
mutexes and threads. `WrappersAgree`: the next step of the loop is determined (`OneSuccessor`) and
never leads back (`GoesForward`), so of two clients with equal accesses one is always
on the way the other has taken (`OnOneWay`). `Pauses`: `MainRun` is the state of the board after
each of the four writes of `main`, and inside them. `Tests`: `SuiteRun` is the state of the board
between the 17 accesses of the suite (`Between`) and inside each of them: how much of a buffer has been
written, that the words read so far are those of the board (`Reading`), that a stored register waits for
its reaction. One lemma follows it through the reads (`SuiteReadStep`), one through the
writes of registers (`SuiteRegisterStep`) and one through the writes of bar 2 (`SuiteDmaStep`).
TLC checked `SuiteRun` on run `clients` before it was proved.

Only model-checked:

* `CallsReturn`, `ClientsEnd` and `LoaderReturns`: liveness under fairness is out of the prover's
  reach.

The six properties of the violation runs do not hold, and are not theorems.

## 5. Findings

* `read_only`: a write to a register documented as read only that is interrupted
  before the firmware has reacted leaves the written value in it.
  `ReadOnlyRegisters` says precisely what does hold, and is proved.
* `broken_write`: a write to `BROKEN_WRITE` fails and yet changes the register.
* `noioctl`: the file operations of device 5 are defined under a misspelt name.
* `dma_wrap`: the check of a DMA request adds two 32-bit numbers of the caller, and a sum
  of 2^32 or more gets past it; the copy then begins or ends outside of bar 2. The message of the
  check calls the requests it turns away too large. `DmaLeavesBarByWrap` says exactly which
  accepted requests are concerned, and `DmaReadIsSnapshot` what holds of the words inside the bar.
* `line_255`: 254, not 255, characters of a command line are used.
* `node_missing`: `device_create` reports failure by an error pointer, the code compares with
  a null pointer, and the load goes on without the node.

`OpenFileKeepsDevice` names an exception: a load that fails for a later device takes the
earlier ones down although they may have been opened meanwhile. No document says
otherwise, so it is not listed as a finding.

## 6. Not modelled

* The text of the dump, and messages to the kernel log.
* A file position that several `read` and `write` calls share: the repository's clients use
  `pread` and `pwrite`, and whether two calls of one descriptor can overlap is up to the kernel.
* What the handlers do after a failed load has taken away the module they belong to.
* Build, packaging and udev files: configuration without behaviour of its own.

## 7. What remains

All components with behaviour are modelled, and every safety invariant and every action property
that a run checks is proved. What is left to model checking is liveness. An extension that would add to the model rather than
to the proofs is the file position that several `read` and `write` calls of one descriptor
share (section 6).
