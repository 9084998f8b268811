---------------------------- MODULE MCClients ----------------------------
(***************************************************************************)
(* Clients at work: the two wrappers with equal jobs, the test suite, and  *)
(* the interactive test under fault injection.                             *)
(***************************************************************************)
EXTENDS MtcaDummyTests

(* Run clients, first part: two accesses, of every kind and at every edge, *)
(* the same on devices 0 and 6.                                            *)
End == 4 * MTCADUMMY_N_REGISTERS
AgreeAccesses ==
  { readArea(0, 0, 2), readArea(MTCADUMMY_BROKEN_REGISTER - 4, 0, 3), readArea(End - 4, 0, 2),
    readArea(End, 0, 1), readArea(2, 0, 1), readArea(0, 1, 1), readArea(0, 6, 1),
    readArea(0, 2, 3), readArea(MTCADUMMY_DMA_SIZE - 8, 2, 3),
    writeArea(0, 0, 2, <<7, 8>>), writeArea(MTCADUMMY_WORD_CLK_RST, 0, 2, <<1, 1>>),
    writeArea(MTCADUMMY_WORD_ADC_ENA, 0, 2, <<1, 1>>),
    writeArea(MTCADUMMY_BROKEN_WRITE, 0, 2, <<3, 4>>),
    writeArea(MTCADUMMY_WORD_SPI_WRITE, 0, 3, <<5, 6, MTCADUMMY_SPI_SYNC_REQUESTED>>),
    writeArea(End - 4, 0, 2, <<1, 2>>), writeArea(6, 2, 1, <<1>>),
    writeArea(MTCADUMMY_DMA_SIZE - 8, 2, 3, <<4, 5, 6>>), writeArea(0, 7, 1, <<1>>) }

AgreeJobs ==
  { [c \in Clients |-> [dev |-> IF c = "second" THEN 6 ELSE 0, quits |-> FALSE, accesses |-> s]] :
      s \in { <<a, b>> : a, b \in AgreeAccesses } }

(* Second part: the suite with either wrapper, and main, while a second    *)
(* client reads the same device and another thread dumps it.  The places   *)
(* in bar 2 are those of the code, but for the written area: the bar has   *)
(* 40 words.                                                               *)
TestJobs ==
  { [c \in Clients |-> IF c = "first" THEN j
                       ELSE [dev |-> j.dev, quits |-> FALSE, accesses |-> << readArea(4, 2, 2) >>]] :
      j \in { MtcaDummyTestSuite(0), MtcaDummyTestSuite(6), main(0) } }

AllJobs == AgreeJobs \cup TestJobs

DumpCalls == { [op |-> "dump"] }

AllCalls == DumpCalls \cup WrapperCalls

(* Nobody else uses the devices in the first part. *)
UndisturbedNext ==
  ClientsNext /\ (job \in AgreeJobs => \A t \in Threads \ Clients : call'[t] = NoCall)

UndisturbedSpec == ClientsInit /\ [][UndisturbedNext]_allVars

(* Run returns: main, or a short job without a struct that meets an error  *)
(* of the driver or of the wrapper, with signals, while another thread     *)
(* injects faults, dumps, and opens, reads and closes device 6.            *)
MixedJobs ==
  { [c \in Clients |-> j] :
      j \in { main(0),
              [dev |-> 6, quits |-> TRUE,
               accesses |-> << writeArea(MTCADUMMY_WORD_CLK_RST, 0, 2, <<1, 1>>),
                               readArea(MTCADUMMY_BROKEN_REGISTER - 4, 0, 2) >>],
              [dev |-> 6, quits |-> TRUE, accesses |-> << readArea(0, 6, 1) >>] } }

set(option, value) ==
  [op |-> "control", count |-> 7, line |-> << [key |-> option, value |-> value, end |-> 7] >>]

MixedCalls ==
  { set("open", 1), set("write", 1),
    [op |-> "open", dev |-> 6], [op |-> "release"], [op |-> "dump"],
    [op |-> "pread", count |-> 8, pos |-> MTCADUMMY_BROKEN_REGISTER - 4] }

AllMixedCalls == MixedCalls \cup WrapperCalls
=============================================================================
