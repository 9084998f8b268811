----------------------------- MODULE MCDriver -----------------------------
(***************************************************************************)
(* Small instances of the driver: the sets of system calls of the runs.    *)
(* Words have 16 bits and bar 2 has four words, three of them filled by a  *)
(* sampling.                                                               *)
(***************************************************************************)
EXTENDS MtcaDummyAtomic, MtcaDummyDump, TLC

open(d) == [op |-> "open", dev |-> d]
release == [op |-> "release"]
dump == [op |-> "dump"]
structRead(count, mode, bar, offset, size) ==
  [op |-> "read", count |-> count, mode |-> mode, bar |-> bar, offset |-> offset, size |-> size]
d32read(bar, offset) == structRead(sizeof_device_rw, RW_D32, bar, offset, 0)
dmaread(offset, size) == structRead(sizeof_device_rw, RW_DMA, 2, offset, size)
structWrite(count, mode, bar, offset, data) ==
  [op |-> "write", count |-> count, mode |-> mode, bar |-> bar, offset |-> offset, data |-> data]
d32write(bar, offset, data) == structWrite(sizeof_device_rw, RW_D32, bar, offset, data)
pread(bar, offset, words) ==
  [op |-> "pread", count |-> 4 * words, pos |-> bar * BAR_STRIDE + offset]
pwrite(bar, offset, words, data) ==
  [op |-> "pwrite", count |-> 4 * words, pos |-> bar * BAR_STRIDE + offset,
   data |-> [i \in 0 .. words - 1 |-> data]]
ioctl(type, nr, offset, size) ==
  [op |-> "ioctl", type |-> type, nr |-> nr, offset |-> offset, size |-> size]
set(option, value) ==
  [op |-> "control", count |-> 7,
   line |-> << [key |-> option, value |-> value, end |-> 7] >>]

(* A run is made of scenarios, sets of calls that are not mixed. *)
CONSTANT Scenarios

VARIABLE scenario

scenarioVars == <<vars, history, committed, scenario>>

ScenarioInit == AtomicInit /\ DumpInit /\ scenario \in Scenarios

ScenarioNext ==
  /\ AtomicNext /\ Record
  /\ \A t \in Threads : call'[t] \in scenario \cup {NoCall}
  /\ UNCHANGED scenario

ScenarioSpec == ScenarioInit /\ [][ScenarioNext]_scenarioVars

(* Run area: the interface without a struct.  First, readers and writers   *)
(* of the same words, a transfer clipped at the end of the bar, one over   *)
(* the read-only registers, one that meets the broken register, and one    *)
(* that is rejected.  Then, clock resets and samplings by area writes      *)
(* while bar 2 is written, read in both ways and dumped, and a DMA request *)
(* whose offset and size wrap.                                             *)
AreaScenarios ==
  {{open(6), release, pread(2, 4, 2), pwrite(2, 4, 2, 7), pwrite(0, 0, 2, 257), pwrite(2, 12, 3, 9),
    pread(0, MTCADUMMY_BROKEN_REGISTER - 4, 2), pread(3, 0, 1)},
   {open(6), dump, pwrite(0, MTCADUMMY_WORD_CLK_RST, 2, 1), pwrite(2, 8, 2, 3), pread(2, 4, 2),
    ioctl("U", 72, 4, 8), ioctl("U", 72, U32 - 4, 8)}}

(* Run handlers: open, release, the struct handlers with accepted and      *)
(* rejected requests, the empty table of device 5, and the fault injection *)
(* of open and write; dumps while two neighbouring devices are opened,     *)
(* written and closed; samplings and clock resets, and the reads that      *)
(* deliver their outcome; the other reads and ioctls; clients of the SPI   *)
(* handshake while spi_error is switched.                                  *)
HandlerScenarios ==
  {{open(4), open(5), release,
    set("open", 1), set("open", 0), set("write", 1), set("write", 0),
    d32read(0, MTCADUMMY_BROKEN_REGISTER), d32write(0, 4 * MTCADUMMY_N_REGISTERS, 7),
    d32write(0, MTCADUMMY_BROKEN_WRITE, 7), ioctl("0", 20, 0, 0)},
   {open(3), open(4), release, dump, d32write(0, MTCADUMMY_WORD_ADC_ENA, 1)},
   {open(3),
    d32write(0, MTCADUMMY_WORD_ADC_ENA, 1), d32write(0, MTCADUMMY_WORD_ADC_ENA, 0),
    d32write(0, MTCADUMMY_WORD_CLK_RST, 1), d32read(0, MTCADUMMY_WORD_CLK_CNT_0),
    dmaread(0, 12), dmaread(6, 4), dmaread(8, 12), ioctl("0", 72, 4, 8)},
   {open(3), release, d32write(0, MTCADUMMY_WORD_CLK_RST, 1), structRead(8, RW_D32, 0, 0, 0),
    structRead(sizeof_device_rw, RW_INFO, 0, 0, 0), structRead(sizeof_device_rw, RW_D8, 0, 0, 0),
    d32read(1, 0), dmaread(0, 0), ioctl("0", 62, 0, 0), ioctl("0", 72, 2, 4), ioctl("0", 73, 0, 0),
    ioctl("U", 60, 0, 0)},
   {open(3),
    d32write(0, MTCADUMMY_WORD_SPI_SYNC, MTCADUMMY_SPI_SYNC_REQUESTED),
    d32write(0, MTCADUMMY_WORD_SPI_WRITE, 5), d32write(0, MTCADUMMY_WORD_SPI_WRITE, 6),
    set("spi", 1), set("spi", 0)}}

(* The calls of all scenarios. *)
AreaCalls == UNION AreaScenarios
HandlerCalls == UNION HandlerScenarios

ThreadSymmetry == Permutations(Threads)
=============================================================================
