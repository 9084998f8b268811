-------------------------- MODULE MtcaDummyTests --------------------------
(***************************************************************************)
(* The two test programs as jobs of clients, and what they check: the test *)
(* suite of automatic_test, which runs once with each ReaderWriter, and    *)
(* the interactive test/testMtcaDummy.cpp, which drives the sampling by    *)
(* hand.  The suite's places in bar 2 are constants, because the bar of    *)
(* the model is small.                                                     *)
(***************************************************************************)
EXTENDS MtcaDummyClients

CONSTANTS
  ProbeIndex,      \* 8: the word of bar 2 that is read and written alone
  ReadStartIndex,  \* 13: the area that is read, inside the samples
  nWordsToRead,    \* 5
  WriteStartIndex, \* 100: the area that is written, behind the samples
  nWordsToWrite    \* 8

N_WORDS_DMA == MTCADUMMY_DMA_SIZE \div 4

ASSUME TestsAssumption ==
  /\ ProbeIndex \in 0 .. nSamples - 1
  /\ ReadStartIndex \in 0 .. nSamples /\ nWordsToRead \in 1 .. nSamples - ReadStartIndex
  /\ ProbeIndex < ReadStartIndex
  /\ WriteStartIndex \in nSamples .. N_WORDS_DMA
  /\ nWordsToWrite \in 1 .. N_WORDS_DMA - WriteStartIndex

(* Words startIndex to startIndex + n - 1 of a buffer of squares. *)
Squares(startIndex, n) == [k \in 1 .. n |-> (startIndex + k - 1) * (startIndex + k - 1)]

(* bufferHelix: squares in the first 25 words, then zeroes. *)
bufferHelix == [k \in 1 .. N_WORDS_DMA |-> IF k <= nSamples THEN (k - 1) * (k - 1) ELSE 0]

expectedBuffer ==
  [k \in 1 .. N_WORDS_DMA |->
     IF k - 1 \in WriteStartIndex .. WriteStartIndex + nWordsToWrite - 1
       THEN (k - 1) * (k - 1) ELSE bufferHelix[k]]

(* The constructor and the six test cases. *)
MtcaDummyTest ==
  << writeArea(0, 2, N_WORDS_DMA, bufferHelix) >>
testReadSingle ==
  << readSingle(MTCADUMMY_WORD_DUMMY, 0), readSingle(4 * ProbeIndex, 2) >>
testReadSingleWithError ==
  << readSingle(MTCADUMMY_BROKEN_REGISTER, 0), readSingle(MTCADUMMY_BROKEN_WRITE, 0) >>
testWriteSingle ==
  << readSingle(MTCADUMMY_WORD_USER, 0), writeIncremented(MTCADUMMY_WORD_USER, 0, 6),
     readSingle(MTCADUMMY_WORD_USER, 0),
     readSingle(4 * ProbeIndex, 2), writeIncremented(4 * ProbeIndex, 2, 9),
     readSingle(4 * ProbeIndex, 2) >>
testWriteSingleWithError ==
  << writeSingle(MTCADUMMY_BROKEN_REGISTER, 0, 42), writeSingle(MTCADUMMY_BROKEN_WRITE, 0, 42) >>
testReadArea ==
  << readArea(4 * ReadStartIndex, 2, nWordsToRead) >>
testWriteArea ==
  << writeSingle(MTCADUMMY_WORD_ADC_ENA, 0, 1),
     writeArea(4 * WriteStartIndex, 2, nWordsToWrite, Squares(WriteStartIndex, nWordsToWrite)),
     readArea(0, 2, N_WORDS_DMA) >>

MtcaDummyTestSuite(d) ==
  [dev |-> d, quits |-> FALSE,
   accesses |-> MtcaDummyTest \o testReadSingle \o testReadSingleWithError \o testWriteSingle
                \o testWriteSingleWithError \o testReadArea \o testWriteArea]

(* test/testMtcaDummy.cpp: start, reset, restart and stop the sampling. *)
main(d) ==
  [dev |-> d, quits |-> TRUE,
   accesses |-> << writeSingle(MTCADUMMY_WORD_ADC_ENA, 0, 1),
                   writeSingle(MTCADUMMY_WORD_CLK_RST, 0, 1),
                   writeSingle(MTCADUMMY_WORD_ADC_ENA, 0, 1),
                   writeSingle(MTCADUMMY_WORD_ADC_ENA, 0, 0) >>]
-----------------------------------------------------------------------------
IsSuite(c) == job[c] = MtcaDummyTestSuite(job[c].dev)

(* The checks of the test cases, by the number of the access they are      *)
(* about.                                                                  *)
Reads(c, n, words) == n <= Len(log[c]) => log[c][n] = [threw |-> FALSE, data |-> words]
Incremented(c, n, m) == n <= Len(log[c]) => Reads(c, n, << (log[c][m].data[1] + 1) % U32 >>)

(* Every check of the suite holds and nothing but the accesses to the two  *)
(* broken registers throws, with both ReaderWriters, on devices that       *)
(* others read, dump and open at the same time.                            *)
TestsPass ==
  \A c \in Owners : ~Disturbable /\ IsSuite(c) =>
    /\ \A n \in 1 .. Len(log[c]) : log[c][n].threw <=> n \in {4, 12, 13}
    /\ Reads(c, 2, << MTCADUMMY_DMMY_AS_ASCII >>)
    /\ Reads(c, 3, << ProbeIndex * ProbeIndex >>)
    /\ Incremented(c, 8, 6)
    /\ Incremented(c, 11, 9)
    /\ Reads(c, 14, Squares(ReadStartIndex, nWordsToRead))
    /\ Reads(c, 17, expectedBuffer)

(* "The firmware should reset the CLK_RST register to 0, write the number  *)
(* of time samples to CLK_CNT and set [that many] samples in the dma bar   *)
(* to index^2", then "reset the clock counter" (test/testMtcaDummy.cpp:49, *)
(* 69): the state in which main pauses after each write that returned,     *)
(* whatever other clients, dumps and fault injection do meanwhile.         *)
Started(d) ==
  /\ REG(systemBar[d], MTCADUMMY_WORD_CLK_RST) = 0
  /\ REG(systemBar[d], MTCADUMMY_WORD_CLK_CNT_0) = nSamples
  /\ \A w \in 0 .. nSamples - 1 : dmaBar[d][w] = w * w

PausesAsDocumented ==
  \A c \in Owners :
    job[c] = main(job[c].dev) /\ stage[c] = "working" /\ pc[c] = "idle" /\ done[c] = 0
      /\ log[c] # <<>> /\ ~log[c][Len(log[c])].threw =>
        LET d == job[c].dev IN
          CASE Len(log[c]) \in {1, 3} -> Started(d)
            [] Len(log[c]) = 2 ->
                 /\ REG(systemBar[d], MTCADUMMY_WORD_CLK_RST) = 1
                 /\ \A r \in ClockRegisters : REG(systemBar[d], r) = 0
            [] OTHER -> Started(d) /\ REG(systemBar[d], MTCADUMMY_WORD_ADC_ENA) = 0
=============================================================================
