----------------------- MODULE MtcaDummyReaderWriter -----------------------
(***************************************************************************)
(* The interface class ReaderWriter of the tests: areas of words that are  *)
(* read and written, and what a ReaderWriter that has a board to itself    *)
(* does to the board and to its caller, word by word.  It does not say how *)
(* the words reach the driver; StructReaderWriter and NormalReaderWriter   *)
(* are in MtcaDummyClients.                                                *)
(***************************************************************************)
EXTENDS MtcaDummyFirmware, MtcaDummyTransfer, Sequences

(* An access: a read or a write of nWords words from the byte offset on.   *)
(* A write has its data, or it writes the word of an earlier read, plus    *)
(* one.                                                                    *)
readArea(offset, bar, nWords) ==
  [op |-> "read", offset |-> offset, bar |-> bar, nWords |-> nWords, data |-> <<>>, from |-> 0]
writeArea(offset, bar, nWords, data) ==
  [op |-> "write", offset |-> offset, bar |-> bar, nWords |-> nWords, data |-> data, from |-> 0]
readSingle(offset, bar) == readArea(offset, bar, 1)
writeSingle(offset, bar, value) == writeArea(offset, bar, 1, <<value>>)
writeIncremented(offset, bar, access) ==
  [op |-> "write", offset |-> offset, bar |-> bar, nWords |-> 1, data |-> <<>>, from |-> access]

(* Offsets and numbers of words are of type uint32_t, far below the        *)
(* distance of two bars; an area ends below 2^32 and is not empty.         *)
IsAccess(accesses, n) ==
  LET a == accesses[n] IN
    /\ a.op \in {"read", "write"} /\ a.bar \in Nat
    /\ a.offset \in Nat /\ a.offset < BAR_STRIDE
    /\ a.nWords \in Nat \ {0} /\ a.offset + 4 * a.nWords <= U32
    /\ a.from \in 0 .. n - 1
    /\ a.op = "read" => a.from = 0
    /\ a.op = "write" /\ a.from = 0 => a.data \in [1 .. a.nWords -> Word]
    /\ a.from # 0 => a.nWords = 1 /\ accesses[a.from].op = "read"

(* The words a write writes, given the outcomes of the accesses before it, *)
(* and all that may come out of that.                                      *)
Words(a, log) == IF a.from = 0 THEN a.data ELSE << (log[a.from].data[1] + 1) % U32 >>

PossibleWords(a) == IF a.from = 0 THEN {a.data} ELSE {<<v>> : v \in Word}

(* Whether a job goes on after these outcomes.  An exception ends the job  *)
(* of the interactive test; in the test cases it keeps a value that could  *)
(* not be read from being written.                                         *)
MoreToDo(job, log) ==
  /\ Len(log) < Len(job.accesses)
  /\ ~(job.quits /\ \E n \in 1 .. Len(log) : log[n].threw)
  /\ LET a == job.accesses[Len(log) + 1] IN a.from # 0 => ~log[a.from].threw
-----------------------------------------------------------------------------
(* How far a job has come: the outcomes of its accesses so far, the words  *)
(* done and the words read of the current one, whether a register has been *)
(* written and the firmware has not reacted yet, and the two bars.         *)
State(log, k, got, stored, sys, dma) ==
  [log |-> log, k |-> k, got |-> got, stored |-> stored, sys |-> sys, dma |-> dma]

Outcome(threw, words) == [threw |-> threw, data |-> words]

WordOffset(a, k) == a.offset + 4 * k

(* There is no such word, or the firmware does not let it be read. *)
Refused(a, k) ==
  \/ ~RegisterAccessible(a.bar, WordOffset(a, k))
  \/ a.op = "read" /\ mtcadummy_performPreReadAction(WordOffset(a, k), a.bar)

(* The access is over, with or without a DeviceIOException. *)
Over(s, threw, sys, dma) ==
  State(Append(s.log, Outcome(threw, s.got)), 0, <<>>, FALSE, sys, dma)

ReadsWord(a, s, n) ==
  /\ ~s.stored /\ s.k < a.nWords /\ a.op = "read" /\ ~Refused(a, s.k)
  /\ LET w == WordOffset(a, s.k) \div 4
         word == IF a.bar = 0 THEN s.sys[w] ELSE s.dma[w]
     IN  n = State(s.log, s.k + 1, Append(s.got, word), FALSE, s.sys, s.dma)

StoresWord(a, s, n) ==
  /\ ~s.stored /\ s.k < a.nWords /\ a.op = "write" /\ ~Refused(a, s.k)
  /\ LET w == WordOffset(a, s.k) \div 4
         word == Words(a, s.log)[s.k + 1]
     IN  n = IF a.bar = 0
               THEN State(s.log, s.k, s.got, TRUE, [s.sys EXCEPT ![w] = word], s.dma)
               ELSE State(s.log, s.k + 1, s.got, FALSE, s.sys, [s.dma EXCEPT ![w] = word])

(* The reaction of the firmware to a written register; fail is its option  *)
(* spi.                                                                    *)
Reacts(a, s, n, fail) ==
  /\ s.stored
  /\ LET o == WordOffset(a, s.k)
         sys == mtcadummy_performActionOnWrite(s.sys, o, fail)
         dma == SampledDma(s.sys, s.dma, o)
     IN  n = IF WriteActionFails(o) THEN Over(s, TRUE, sys, dma)
                                    ELSE State(s.log, s.k + 1, s.got, FALSE, sys, dma)

Ends(a, s, n) == ~s.stored /\ s.k = a.nWords /\ n = Over(s, FALSE, s.sys, s.dma)

Throws(a, s, n) ==
  ~s.stored /\ s.k < a.nWords /\ Refused(a, s.k) /\ n = Over(s, TRUE, s.sys, s.dma)

(* An injected error, a signal or a fault of user memory cuts the access   *)
(* short.  The word it was at may have been stored, in part or with no     *)
(* reaction to it.                                                         *)
CutValues(v) == {v % m : m \in {1, 256, 65536, 16777216}}

CutShort(a, s, n) ==
  /\ s.k < a.nWords
  /\ \/ n = Over(s, TRUE, s.sys, s.dma)
     \/ /\ a.op = "write" /\ ~s.stored /\ ~Refused(a, s.k)
        /\ LET w == WordOffset(a, s.k) \div 4 IN
             \E v \in CutValues(Words(a, s.log)[s.k + 1]) :
               n = IF a.bar = 0 THEN Over(s, TRUE, [s.sys EXCEPT ![w] = v], s.dma)
                                ELSE Over(s, TRUE, s.sys, [s.dma EXCEPT ![w] = v])

(* One step of a ReaderWriter that nobody disturbs, and of one that may be *)
(* disturbed.                                                              *)
Serial(job, s, n) ==
  /\ MoreToDo(job, s.log)
  /\ LET a == job.accesses[Len(s.log) + 1] IN
       \/ ReadsWord(a, s, n) \/ StoresWord(a, s, n) \/ Reacts(a, s, n, FALSE)
       \/ Ends(a, s, n) \/ Throws(a, s, n)

Disturbed(job, s, n) ==
  /\ MoreToDo(job, s.log)
  /\ LET a == job.accesses[Len(s.log) + 1] IN Reacts(a, s, n, TRUE) \/ CutShort(a, s, n)
=============================================================================
