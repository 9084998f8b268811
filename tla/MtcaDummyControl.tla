------------------------- MODULE MtcaDummyControl -------------------------
(***************************************************************************)
(* The command line of a write to /proc/mtcadummy (mtcadummy_proc_write):  *)
(* reading it into the four options and applying them to the fault         *)
(* injection flags of struct mtcaDummyControl.                             *)
(*                                                                         *)
(* A line is the sequence of its blank-separated tokens.  A token is       *)
(* [key, value, end]: the option it names (another word for a token that   *)
(* no sscanf matches), its integer and the number of characters of the     *)
(* line up to and including its last one.  Values have one digit, so that  *)
(* a token whose end is cut off has lost its value.                        *)
(***************************************************************************)
EXTENDS Integers, Sequences

Options == {"open", "read", "write", "spi"}

(* sizeof(cmd). *)
sizeof_cmd == 255

(* The tokens that reach the parser: len = min(count, sizeof(cmd) - 1)     *)
(* characters are copied, and a token cut by that matches nothing.         *)
Received(line) ==
  LET fits(i) == line[i].end <= sizeof_cmd - 1
      n == CHOOSE n \in 0 .. Len(line) :
             (\A i \in 1 .. n : fits(i)) /\ (n < Len(line) => ~fits(n + 1))
  IN  SubSeq(line, 1, n)

(* open = -1, read = -1, write = -1, spi = -1 before the loop. *)
NoValues == [o \in Options |-> -1]

(* Mutant: a variable that has got a value keeps it. *)
ScanTokenOnce(values, token) ==
  IF token.key \in Options /\ values[token.key] = -1
    THEN [values EXCEPT ![token.key] = token.value]
    ELSE values

(* One pass of the strsep loop: the chain of sscanf calls assigns to the   *)
(* variable of the option the token names, if it names one.                *)
ScanToken(values, token) ==
  IF token.key \in Options THEN [values EXCEPT ![token.key] = token.value] ELSE values

(* The local variables open, read, write and spi after the loop. *)
Collected(tokens) ==
  LET values[n \in 0 .. Len(tokens)] ==
        IF n = 0 THEN NoValues ELSE ScanToken(values[n - 1], tokens[n])
  IN  values[Len(tokens)]

(* The flags after the assignments under the mutex; a flag is one bit of   *)
(* type bool, so every value but 0 sets it.                                *)
Updated(flags, values) ==
  [o \in Options |-> IF values[o] > -1 THEN values[o] # 0 ELSE flags[o]]

mtcadummy_proc_write(flags, line) == Updated(flags, Collected(Received(line)))
=============================================================================
