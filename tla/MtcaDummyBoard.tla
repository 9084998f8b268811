-------------------------- MODULE MtcaDummyBoard --------------------------
(***************************************************************************)
(* What the driver promises about a simulated board, without mutexes for   *)
(* fault injection, handlers and calls.  A client has a board to itself    *)
(* while it reads and writes words of it.  A write of a register and the   *)
(* reaction of the firmware are one step, unless the write is cut off.     *)
(* What is read are words the board has at that moment, or words of nobody *)
(* if clients ask for more than the board has.                             *)
(***************************************************************************)
EXTENDS MtcaDummyFirmware, Sequences

CONSTANTS
  Clients,
  Nobody,     \* the holder of a board that is free
  Slots,
  StrayWords, \* words that are not the board's and that a client may be given
  WordWrites  \* the words clients write: records of bar, word and value

VARIABLES
  registers,  \* per board, the content of bar 0
  samples,    \* per board, the content of bar 2
  holder,     \* per board, the client that has it to itself, or Nobody
  answer      \* per client, the words it has been given

boardVars == <<registers, samples, holder, answer>>

SampleWords == 0 .. (MTCADUMMY_DMA_SIZE \div 4) - 1

Init ==
  /\ registers = [s \in Slots |-> mtcadummy_initialiseSystemBar]
  /\ samples = [s \in Slots |-> [w \in SampleWords |-> 0]]
  /\ holder = [s \in Slots |-> Nobody]
  /\ answer = [c \in Clients |-> <<>>]

Seize(c, s) ==
  /\ holder[s] = Nobody
  /\ holder' = [holder EXCEPT ![s] = c]
  /\ UNCHANGED <<registers, samples, answer>>

(* Any step at a board may be the client's last there. *)
MayLeave(s) == holder' = holder \/ holder' = [holder EXCEPT ![s] = Nobody]
-----------------------------------------------------------------------------
(* A write and the reaction to it; whether the SPI simulation fails is not *)
(* up to the client.                                                       *)
Write(s, r, fail) ==
  IF r.bar = 0
    THEN LET stored == [registers[s] EXCEPT ![r.word] = r.value] IN
           /\ registers' = [registers EXCEPT ![s] =
                              mtcadummy_performActionOnWrite(stored, 4 * r.word, fail)]
           /\ samples' = [samples EXCEPT ![s] = SampledDma(stored, @, 4 * r.word)]
    ELSE /\ samples' = [samples EXCEPT ![s][r.word] = r.value]
         /\ UNCHANGED registers

(* A write that is cut off: some of the bytes are stored and nothing       *)
(* reacts.                                                                 *)
CutValues(v) == {v} \cup {v % m : m \in {1, 256, 65536, 16777216}}

Cut(s, r, v) ==
  IF r.bar = 0
    THEN registers' = [registers EXCEPT ![s][r.word] = v] /\ UNCHANGED samples
    ELSE samples' = [samples EXCEPT ![s][r.word] = v] /\ UNCHANGED registers

(* The words a client can be given: a word of a bar, added to those it has *)
(* or alone.                                                               *)
WordsOf(s) == {registers[s][w] : w \in DOMAIN registers[s]} \cup {samples[s][w] : w \in SampleWords}

ReadWord(c, s) ==
  \E x \in WordsOf(s) \cup StrayWords, kept \in {<<>>, answer[c]} :
    answer' = [answer EXCEPT ![c] = Append(kept, x)]

(* A board tells its slot and the version of the driver. *)
Identity(s) ==
  {<<s>>, <<MTCADUMMY_DRV_VERSION_MAJ, MTCADUMMY_DRV_VERSION_MIN>>,
   <<MTCADUMMY_DRV_VERSION_MIN, MTCADUMMY_DRV_VERSION_MAJ, MTCADUMMY_DRV_VERSION_MAJ + 1, s,
     MTCADUMMY_DRV_VERSION_MIN + 1>>}

Identify(c, s) == \E words \in Identity(s) : answer' = [answer EXCEPT ![c] = words]

Forget(c) == answer' = [answer EXCEPT ![c] = <<>>]
-----------------------------------------------------------------------------
Change(s) ==
  \E r \in WordWrites :
    \/ \E fail \in BOOLEAN : Write(s, r, fail)
    \/ \E v \in CutValues(r.value) : Cut(s, r, v)

Inform(c, s) == ReadWord(c, s) \/ Identify(c, s) \/ Forget(c)

(* A client that holds the board does something with it, or just leaves. *)
Visit(c, s) ==
  /\ holder[s] = c
  /\ MayLeave(s)
  /\ \/ UNCHANGED <<registers, samples, answer>>
     \/ UNCHANGED <<registers, samples>> /\ Inform(c, s)
     \/ UNCHANGED answer /\ Change(s)

NewCall(c) == Forget(c) /\ UNCHANGED <<registers, samples, holder>>

Next ==
  \E c \in Clients : NewCall(c) \/ \E s \in Slots : Seize(c, s) \/ Visit(c, s)

Spec == Init /\ [][Next]_boardVars
=============================================================================
