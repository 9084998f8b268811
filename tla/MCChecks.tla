----------------------------- MODULE MCChecks -----------------------------
(***************************************************************************)
(* The two parts of the driver that only compute, on all small inputs: the *)
(* checks of a transfer, by a walk over all file positions and counts up   *)
(* to a bound, and command lines for /proc/mtcadummy, built token by token *)
(* and written one after another, up to lines longer than the buffer of    *)
(* mtcadummy_proc_write.                                                   *)
(***************************************************************************)
EXTENDS MtcaDummyTransfer, MtcaDummyControl

CONSTANTS
  MaxPos, MaxCount, \* the largest file position and count
  Keys,             \* what a token may name
  Values,           \* the value it may give
  Padding,          \* characters before the first token (an unknown word, a blank)
  MaxTokens         \* the tokens of a line

ASSUME ChecksAssumption ==
  /\ MaxPos \in Nat /\ MaxCount \in Nat
  /\ Keys \subseteq STRING /\ Values \subseteq Int /\ Padding \subseteq Nat

VARIABLES
  part,             \* "requests" or "lines": what is being tried
  pos, count,       \* the request
  flags,            \* the fault injection flags
  pad, line         \* the line under construction

requestVars == <<pos, count>>
lineVars == <<flags, pad, line>>

TokenValues == {-1, 0, 1, 2}

(* A token such as "open:-1" has seven characters; shorter ones have more  *)
(* than one blank before them.                                             *)
End == IF line = <<>> THEN pad + 7 ELSE line[Len(line)].end + 8

(* The number of characters of the line. *)
LineLength == IF line = <<>> THEN pad ELSE line[Len(line)].end

Init ==
  /\ part \in {"requests", "lines"}
  /\ pos = 0 /\ count = 0
  /\ flags = [o \in Options |-> FALSE]
  /\ pad \in Padding
  /\ line = <<>>

NextPosition ==
  /\ part = "requests"
  /\ pos' = (pos + 1) % (MaxPos + 1)
  /\ UNCHANGED <<part, count, lineVars>>

NextCount ==
  /\ part = "requests"
  /\ count' = (count + 1) % (MaxCount + 1)
  /\ UNCHANGED <<part, pos, lineVars>>

AddToken ==
  /\ part = "lines"
  /\ Len(line) < MaxTokens
  /\ \E k \in Keys, v \in Values : line' = Append(line, [key |-> k, value |-> v, end |-> End])
  /\ UNCHANGED <<part, requestVars, flags, pad>>

Write ==
  /\ part = "lines"
  /\ flags' = mtcadummy_proc_write(flags, line)
  /\ line' = <<>>
  /\ pad' \in Padding
  /\ UNCHANGED <<part, requestVars>>

Next == NextPosition \/ NextCount \/ AddToken \/ Write

Spec == Init /\ [][Next]_<<part, requestVars, lineVars>>
-----------------------------------------------------------------------------
(* checkAndCalculateTransferInformation (mtcadummy_rw_no_struct.c:31)      *)
(* accepts what it should and clips it at the end of the bar, for each of  *)
(* the bars a file position can name.                                      *)
RequestClippedToBar == ClippedToBar(count, pos)

(* The bar and offset checks of the struct interface (mtcadummy_drv.c:283, *)
(* 397) let through the registers of the two bars and nothing else; pos is *)
(* read as an offset and count as the bar number.                          *)
RegisterCheckExact == WholeRegister(count, pos)
-----------------------------------------------------------------------------
(* "If options are sent multiple times, the last option sent will win"     *)
(* (README.md:124), for a line that fits into the buffer: the flag of an   *)
(* option is what the last token for it says, however many tokens for it   *)
(* and for others come before; it stays as it was if there is no token for *)
(* it or the last one is negative.                                         *)
LastOptionWins ==
  LET sent(o) == {i \in 1 .. Len(line) : line[i].key = o}
      last(o) == {i \in sent(o) : \A j \in sent(o) : j <= i}
  IN  LineLength < sizeof_cmd =>
        \A o \in Options :
          mtcadummy_proc_write(flags, line)[o] <=>
            \/ \E i \in last(o) : line[i].value > 0
            \/ flags[o] /\ ~\E i \in last(o) : line[i].value = 0

(* "It is possible to send up to 255 characters to the device"             *)
(* (README.md:124): every option of such a line takes effect.              *)
UpTo255Characters ==
  LineLength <= 255 => mtcadummy_proc_write(flags, line) = Updated(flags, Collected(line))
=============================================================================
