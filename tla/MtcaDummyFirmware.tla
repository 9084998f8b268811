------------------------ MODULE MtcaDummyFirmware ------------------------
(***************************************************************************)
(* The simulated firmware (mtcadummy_firmware.c) as functions on the       *)
(* contents of the two bars.  sys is the content of bar 0 (word index to   *)
(* word), dma that of bar 2.                                               *)
(***************************************************************************)
EXTENDS MtcaDummyHeader

REG(sys, addr) == sys[addr \div 4]

(* sys with the registers in DOMAIN vals (byte offsets) set to vals. *)
SetRegs(sys, vals) ==
  [w \in DOMAIN sys |-> IF 4 * w \in DOMAIN vals THEN vals[4 * w] ELSE sys[w]]

ClockRegisters ==
  {MTCADUMMY_WORD_CLK_CNT_0, MTCADUMMY_WORD_CLK_CNT_1,
   MTCADUMMY_WORD_CLK_MUX_0, MTCADUMMY_WORD_CLK_MUX_1,
   MTCADUMMY_WORD_CLK_MUX_2, MTCADUMMY_WORD_CLK_MUX_3}

(* The registers the firmware sets back after every write: read only. *)
ReadOnlyValue ==
  [r \in {MTCADUMMY_WORD_FIRMWARE, MTCADUMMY_WORD_COMPILATION, MTCADUMMY_WORD_DUMMY} |->
     CASE r = MTCADUMMY_WORD_FIRMWARE    -> MTCADUMMY_DRV_VERSION_MAJ
       [] r = MTCADUMMY_WORD_COMPILATION -> MTCADUMMY_DRV_VERSION_MIN
       [] r = MTCADUMMY_WORD_DUMMY       -> MTCADUMMY_DMMY_AS_ASCII]

(* The content of bar 0 of a new device: zeroed, then initialised.  STATUS *)
(* and USER are set to the 0 they already hold.                            *)
mtcadummy_initialiseSystemBar ==
  [w \in 0 .. MTCADUMMY_N_REGISTERS - 1 |->
     CASE 4 * w \in DOMAIN ReadOnlyValue   -> ReadOnlyValue[4 * w]
       [] 4 * w = MTCADUMMY_WORD_CLK_RST   -> 1
       [] 4 * w = MTCADUMMY_BROKEN_WRITE   -> MTCADUMMY_BROKEN_WRITE
       [] OTHER                            -> 0]

(* Mutant: a write without a request is not answered with an error. *)
SpiReactionWithoutError(sys, fail) ==
  IF REG(sys, MTCADUMMY_WORD_SPI_SYNC) = MTCADUMMY_SPI_SYNC_REQUESTED /\ ~fail
    THEN [r \in {MTCADUMMY_WORD_SPI_READ, MTCADUMMY_WORD_SPI_SYNC} |->
            IF r = MTCADUMMY_WORD_SPI_READ THEN REG(sys, MTCADUMMY_WORD_SPI_WRITE)
                                           ELSE MTCADUMMY_SPI_SYNC_OK]
    ELSE [r \in {} |-> 0]

(* What the SPI simulation does to SPI_READ and SPI_SYNC. *)
SpiReaction(sys, fail) ==
  IF REG(sys, MTCADUMMY_WORD_SPI_SYNC) = MTCADUMMY_SPI_SYNC_REQUESTED /\ ~fail
    THEN [r \in {MTCADUMMY_WORD_SPI_READ, MTCADUMMY_WORD_SPI_SYNC} |->
            IF r = MTCADUMMY_WORD_SPI_READ THEN REG(sys, MTCADUMMY_WORD_SPI_WRITE)
                                           ELSE MTCADUMMY_SPI_SYNC_OK]
    ELSE [r \in {MTCADUMMY_WORD_SPI_SYNC} |-> MTCADUMMY_SPI_SYNC_ERROR]

(* The reaction to a write of the register at offset, which sys already    *)
(* holds: the registers it changes and their new values.                   *)
Reaction(sys, offset, fail) ==
  CASE offset = MTCADUMMY_WORD_CLK_RST /\ REG(sys, MTCADUMMY_WORD_CLK_RST) # 0 ->
         [r \in ClockRegisters |-> 0]
    [] offset = MTCADUMMY_WORD_ADC_ENA /\ REG(sys, MTCADUMMY_WORD_ADC_ENA) # 0 ->
         [r \in {MTCADUMMY_WORD_CLK_CNT_0, MTCADUMMY_WORD_CLK_RST} |->
            IF r = MTCADUMMY_WORD_CLK_CNT_0 THEN nSamples ELSE 0]
    [] offset \in DOMAIN ReadOnlyValue ->
         [r \in {offset} |-> ReadOnlyValue[r]]
    [] offset = MTCADUMMY_WORD_SPI_WRITE ->
         SpiReaction(sys, fail)
    [] OTHER -> [r \in {} |-> 0]

(* Mutants: no reaction at all; a sampling that leaves CLK_RST set. *)
NoReaction(sys, offset, fail) == sys

KeepsClockReset(sys, offset, fail) ==
  LET vals == Reaction(sys, offset, fail)
  IN  SetRegs(sys, [r \in DOMAIN vals \ {MTCADUMMY_WORD_CLK_RST} |-> vals[r]])

(* mtcadummy_performActionOnWrite after its early exits: its effect on     *)
(* bar 0, its effect on bar 2 (the parabola of a dummy sampling) and       *)
(* whether it returns -1.                                                  *)
mtcadummy_performActionOnWrite(sys, offset, fail) ==
  SetRegs(sys, Reaction(sys, offset, fail))

SampledDma(sys, dma, offset) ==
  IF offset = MTCADUMMY_WORD_ADC_ENA /\ REG(sys, MTCADUMMY_WORD_ADC_ENA) # 0
    THEN [w \in DOMAIN dma |-> IF w < nSamples THEN (w * w) % U32 ELSE dma[w]]
    ELSE dma

(* The parabola of a sampling stays below the modulus (24 * 24 in the      *)
(* code), so that the sample at w is the square of w.                      *)
ASSUME SamplesAssumption == \A w \in 0 .. nSamples - 1 : w * w < U32

WriteActionFails(offset) == offset \in {MTCADUMMY_BROKEN_REGISTER, MTCADUMMY_BROKEN_WRITE}

mtcadummy_performPreReadAction(offset, bar) ==
  bar = 0 /\ offset = MTCADUMMY_BROKEN_REGISTER
=============================================================================
