---------------------- MODULE MtcaDummyChecksProofs ----------------------
(***************************************************************************)
(* The properties of MCChecks for walks of any length: the checks of a     *)
(* request and the options of a command line.                              *)
(***************************************************************************)
EXTENDS MCChecks, MtcaDummyTransferProofs, WellFoundedInduction

(* A request is made of natural numbers. *)
RequestType == pos \in Nat /\ count \in Nat

(* The walk stays within them. *)
LEMMA Requests == Spec => []RequestType
<1>1. Init => RequestType
  BY DEF Init, RequestType
<1>2. RequestType /\ [Next]_<<part, requestVars, lineVars>> => RequestType'
  BY ChecksAssumption
  DEF RequestType, Next, NextPosition, NextCount, AddToken, Write, requestVars, lineVars
<1> QED
  BY <1>1, <1>2, PTL DEF Spec

(* checkAndCalculateTransferInformation clips every request exactly, for   *)
(* bars of any size.                                                       *)
THEOREM Clipping == Spec => []RequestClippedToBar
<1>1. RequestType => RequestClippedToBar
  BY ClipIsExact DEF RequestType, RequestClippedToBar
<1> QED
  BY <1>1, Requests, PTL

(* The checks of RW_D32 admit the registers of the two bars and nothing    *)
(* else.                                                                   *)
THEOREM RegisterChecks == Spec => []RegisterCheckExact
<1>1. RequestType => RegisterCheckExact
  BY RegisterCheckIsExact DEF RequestType, RegisterCheckExact
<1> QED
  BY <1>1, Requests, PTL
-----------------------------------------------------------------------------
(* A set of natural numbers that is not empty has a least element. *)
LEMMA LeastNumber ==
  ASSUME NEW T, T \subseteq Nat, T # {}
  PROVE  \E m \in T : \A n \in T : m <= n
<1>1. PICK R : IsWellFoundedOn(R, Nat) /\ \A x, y \in Nat : y < x => <<y, x>> \in R
  <2>1. \A x, y \in Nat : y < x => <<y, x>> \in OpToRel(<, Nat)
    BY DEF OpToRel
  <2> QED
    BY <2>1, NatLessThanWellFounded, Zenon
<1>2. \E m \in T : \A n \in T : ~(<<n, m>> \in R)
  BY <1>1, WFMin, Zenon
<1>3. PICK m \in T : \A n \in T : ~(<<n, m>> \in R)
  BY <1>2
<1>4. \A n \in T : ~(n < m)
  BY <1>1, <1>3
<1> QED
  BY <1>3, <1>4

(* A set of positions that is not empty has a last one. *)
LEMMA LastPosition ==
  ASSUME NEW n \in Nat, NEW T, T \subseteq 1 .. n, T # {}
  PROVE  \E i \in T : \A j \in T : j <= i
<1> DEFINE D == {n - i : i \in T}
<1>1. D \subseteq Nat /\ D # {}
  <2>1. \A i \in T : n - i \in Nat
    OBVIOUS
  <2>2. PICK i : i \in T
    OBVIOUS
  <2>3. n - i \in D
    BY <2>2
  <2> QED
    BY <2>1, <2>3
<1>2. PICK x \in D : \A y \in D : x <= y
  BY <1>1, LeastNumber
<1>3. PICK i \in T : x = n - i
  BY <1>2
<1>4. \A j \in T : n - i <= n - j
  BY <1>2, <1>3
<1>5. \A j \in T : j <= i
  BY <1>4
<1> QED
  BY <1>5
-----------------------------------------------------------------------------
Token == [key : STRING, value : Int, end : Nat]

(* f holds the variables of the strsep loop after 0 .. m passes. *)
Passes(tokens, m, f) ==
  f = [n \in 0 .. m |-> IF n = 0 THEN NoValues ELSE ScanToken(f[n - 1], tokens[n])]

(* The loop comes to its end: its passes are defined one after another. *)
LEMMA LoopEnds ==
  ASSUME NEW tokens \in Seq(Token)
  PROVE  \E f : Passes(tokens, Len(tokens), f)
<1> DEFINE N == Len(tokens)
           Bad == {m \in 0 .. N : ~\E f : Passes(tokens, m, f)}
<1>1. N \in Nat
  OBVIOUS
<1> SUFFICES ASSUME Bad # {}
             PROVE  FALSE
  BY <1>1
<1>2. PICK m \in Bad : \A n \in Bad : m <= n
  <2>1. Bad \subseteq Nat
    BY <1>1
  <2> HIDE DEF Bad
  <2> QED
    BY <2>1, LeastNumber
<1>3. m \in 0 .. N /\ ~\E f : Passes(tokens, m, f)
  BY <1>2
<1>4. m # 0
  <2>1. Passes(tokens, 0, [n \in 0 .. 0 |-> NoValues])
    BY DEF Passes
  <2> QED
    BY <1>3, <2>1
<1>5. m - 1 \in 0 .. N /\ m - 1 \notin Bad
  BY <1>1, <1>2, <1>3, <1>4
<1>6. PICK f : Passes(tokens, m - 1, f)
  BY <1>5
<1> DEFINE g == [n \in 0 .. m |-> IF n = m THEN ScanToken(f[m - 1], tokens[m]) ELSE f[n]]
<1>7. ASSUME NEW n \in 0 .. m
      PROVE  g[n] = IF n = 0 THEN NoValues ELSE ScanToken(g[n - 1], tokens[n])
  <2>1. CASE n = m
    BY <1>3, <1>4, <2>1
  <2>2. CASE n # m
    <3>1. n \in 0 .. m - 1 /\ g[n] = f[n] /\ (n # 0 => n - 1 \in 0 .. m - 1 /\ g[n - 1] = f[n - 1])
      BY <1>3, <2>2
    <3> QED
      BY <1>6, <3>1 DEF Passes
  <2> QED
    BY <2>1, <2>2
<1>8. Passes(tokens, m, g)
  BY <1>7 DEF Passes
<1> QED
  BY <1>3, <1>8

(* What Collected returns is what the last pass leaves. *)
LEMMA CollectedByPasses ==
  ASSUME NEW tokens \in Seq(Token)
  PROVE  \E f : Passes(tokens, Len(tokens), f) /\ Collected(tokens) = f[Len(tokens)]
<1> DEFINE f == CHOOSE f : Passes(tokens, Len(tokens), f)
<1>1. Passes(tokens, Len(tokens), f)
  BY LoopEnds
<1>2. Collected(tokens) = f[Len(tokens)]
  BY DEF Collected, Passes
<1> QED
  BY <1>1, <1>2

(* The token at i is the last for the option among the first m. *)
LastAmong(tokens, m, o, i) ==
  /\ i \in 1 .. m /\ tokens[i].key = o
  /\ \A j \in i + 1 .. m : tokens[j].key # o

LastFor(tokens, o, i) == LastAmong(tokens, Len(tokens), o, i)

(* The value v of the variable of the option after m passes. *)
ValueAfter(tokens, m, o, v) ==
  \/ v = -1 /\ \A j \in 1 .. m : tokens[j].key # o
  \/ \E i : LastAmong(tokens, m, o, i) /\ v = tokens[i].value

AfterPass(tokens, m, f) ==
  DOMAIN f[m] = Options /\ \A o \in Options : ValueAfter(tokens, m, o, f[m][o])

(* One more pass: the variable of the option the token names gets its      *)
(* value, the others keep theirs.                                          *)
LEMMA OnePass ==
  ASSUME NEW tokens \in Seq(Token), NEW m \in 1 .. Len(tokens), NEW f,
         AfterPass(tokens, m - 1, f), f[m] = ScanToken(f[m - 1], tokens[m])
  PROVE  AfterPass(tokens, m, f)
<1>1. DOMAIN f[m] = Options
  BY DEF AfterPass, ScanToken
<1>2. ASSUME NEW o \in Options
      PROVE  ValueAfter(tokens, m, o, f[m][o])
  <2>1. CASE tokens[m].key = o
    <3>1. f[m][o] = tokens[m].value
      BY <2>1 DEF AfterPass, ScanToken
    <3>2. LastAmong(tokens, m, o, m)
      BY <2>1 DEF LastAmong
    <3> QED
      BY <3>1, <3>2 DEF ValueAfter
  <2>2. CASE tokens[m].key # o
    <3>1. f[m][o] = f[m - 1][o]
      BY <2>2 DEF AfterPass, ScanToken
    <3>2. ValueAfter(tokens, m - 1, o, f[m][o])
      BY <3>1 DEF AfterPass
    <3>3. \A i : LastAmong(tokens, m - 1, o, i) => LastAmong(tokens, m, o, i)
      BY <2>2 DEF LastAmong
    <3>4. (\A j \in 1 .. m - 1 : tokens[j].key # o) => \A j \in 1 .. m : tokens[j].key # o
      BY <2>2
    <3> QED
      BY <3>2, <3>3, <3>4 DEF ValueAfter
  <2> QED
    BY <2>1, <2>2
<1> QED
  BY <1>1, <1>2 DEF AfterPass

(* After the loop every variable has the value of the last token for its   *)
(* option, and -1 if there is none.                                        *)
LEMMA LoopResult ==
  ASSUME NEW tokens \in Seq(Token)
  PROVE  \A o \in Options : ValueAfter(tokens, Len(tokens), o, Collected(tokens)[o])
<1>1. PICK f : Passes(tokens, Len(tokens), f) /\ Collected(tokens) = f[Len(tokens)]
  BY CollectedByPasses
<1> DEFINE Bad == {m \in 0 .. Len(tokens) : ~AfterPass(tokens, m, f)}
<1>2. Len(tokens) \in Nat /\ Bad \subseteq Nat
  OBVIOUS
<1>3. Bad = {}
  <2> SUFFICES ASSUME Bad # {}
               PROVE  FALSE
    OBVIOUS
  <2>1. PICK m \in Bad : \A n \in Bad : m <= n
    <3> HIDE DEF Bad
    <3> QED
      BY <1>2, LeastNumber
  <2>2. m \in 0 .. Len(tokens) /\ ~AfterPass(tokens, m, f)
    BY <2>1
  <2>3. f[m] = IF m = 0 THEN NoValues ELSE ScanToken(f[m - 1], tokens[m])
    BY <1>1, <2>2 DEF Passes
  <2>4. CASE m = 0
    <3>1. f[m] = NoValues
      BY <2>3, <2>4
    <3>2. DOMAIN f[m] = Options /\ \A o \in Options : f[m][o] = -1
      BY <3>1 DEF NoValues
    <3>3. \A o \in Options : ValueAfter(tokens, m, o, f[m][o])
      BY <2>4, <3>2 DEF ValueAfter
    <3> QED
      BY <2>2, <3>2, <3>3 DEF AfterPass
  <2>5. CASE m # 0
    <3>1. m \in 1 .. Len(tokens) /\ m - 1 \in 0 .. Len(tokens) /\ m - 1 \notin Bad
      BY <1>2, <2>1, <2>2, <2>5
    <3>2. AfterPass(tokens, m - 1, f)
      BY <3>1
    <3>3. f[m] = ScanToken(f[m - 1], tokens[m])
      BY <2>3, <2>5
    <3> QED
      BY <2>2, <3>1, <3>2, <3>3, OnePass
  <2> QED
    BY <2>4, <2>5
<1>4. AfterPass(tokens, Len(tokens), f)
  BY <1>2, <1>3
<1> QED
  BY <1>1, <1>4 DEF AfterPass

(* Once the tokens of a line have reached the parser, an option is on      *)
(* afterwards if and only if its last token says so, or that token says    *)
(* nothing (a negative value) or is missing and the option was on before:  *)
(* the rule of LastOptionWins, for lines of any length.                    *)
THEOREM OptionRule ==
  \A tokens \in Seq(Token), before \in [Options -> BOOLEAN], o \in Options :
    Updated(before, Collected(tokens))[o] <=>
      \/ \E i : LastFor(tokens, o, i) /\ tokens[i].value > 0
      \/ before[o] /\ ~\E i : LastFor(tokens, o, i) /\ tokens[i].value = 0
<1> SUFFICES ASSUME NEW tokens \in Seq(Token), NEW before \in [Options -> BOOLEAN],
                    NEW o \in Options
             PROVE  Updated(before, Collected(tokens))[o] <=>
                      \/ \E i : LastFor(tokens, o, i) /\ tokens[i].value > 0
                      \/ before[o] /\ ~\E i : LastFor(tokens, o, i) /\ tokens[i].value = 0
  OBVIOUS
<1> DEFINE v == Collected(tokens)[o]
           N == Len(tokens)
<1>1. N \in Nat
  OBVIOUS
<1>2. ValueAfter(tokens, N, o, v)
  BY LoopResult
<1>3. Updated(before, Collected(tokens))[o] <=> IF v > -1 THEN v # 0 ELSE before[o]
  BY DEF Updated
<1> HIDE DEF v, N
<1>4. CASE v = -1 /\ \A j \in 1 .. N : tokens[j].key # o
  <2>1. ~\E i : LastFor(tokens, o, i)
    BY <1>4 DEF LastFor, LastAmong, N
  <2> QED
    BY <1>3, <1>4, <2>1
<1>5. ASSUME NEW last, LastAmong(tokens, N, o, last), v = tokens[last].value
      PROVE  Updated(before, Collected(tokens))[o] <=>
               \/ \E i : LastFor(tokens, o, i) /\ tokens[i].value > 0
               \/ before[o] /\ ~\E i : LastFor(tokens, o, i) /\ tokens[i].value = 0
  <2>1. last \in 1 .. N /\ \A j \in 1 .. N : tokens[j].key = o => j <= last
    BY <1>1, <1>5 DEF LastAmong
  <2>2. v \in Int
    <3>1. tokens[last] \in Token
      BY <2>1 DEF N
    <3> QED
      BY <1>5, <3>1 DEF Token
  <2>3. ASSUME NEW i, LastFor(tokens, o, i)
        PROVE  i = last
    <3>1. i \in 1 .. N /\ i <= last
      BY <2>1, <2>3 DEF LastFor, LastAmong, N
    <3>2. ~(last \in i + 1 .. N)
      BY <1>5, <2>3 DEF LastFor, LastAmong, N
    <3> QED
      BY <1>1, <2>1, <3>1, <3>2
  <2>4. LastFor(tokens, o, last)
    BY <1>5 DEF LastFor, N
  <2>5. /\ (\E i : LastFor(tokens, o, i) /\ tokens[i].value > 0) <=> v > 0
        /\ (\E i : LastFor(tokens, o, i) /\ tokens[i].value = 0) <=> v = 0
    BY <1>5, <2>3, <2>4
  <2>6. Updated(before, Collected(tokens))[o] <=> v > 0 \/ (before[o] /\ ~(v = 0))
    <3>1. CASE v > 0
      BY <1>3, <2>2, <3>1
    <3>2. CASE v = 0
      BY <1>3, <3>2
    <3>3. CASE v < 0
      <4>1. ~(v > -1) /\ ~(v > 0) /\ v # 0
        BY <2>2, <3>3
      <4> QED
        BY <1>3, <4>1, Zenon
    <3> QED
      BY <2>2, <3>1, <3>2, <3>3
  <2> QED
    BY <2>5, <2>6, Zenon
<1> QED
  BY <1>2, <1>4, <1>5 DEF ValueAfter
-----------------------------------------------------------------------------
(* The line under construction: its tokens end one behind the other. *)
LineType ==
  /\ line \in Seq(Token)
  /\ pad \in Nat
  /\ flags \in [Options -> BOOLEAN]

EndsIncrease ==
  \A i, j \in 1 .. Len(line) : i < j => line[i].end < line[j].end

LEMMA TokenType ==
  ASSUME NEW i \in 1 .. Len(line), line \in Seq(Token)
  PROVE  line[i].value \in Int /\ line[i].end \in Nat
<1>1. line[i] \in Token
  OBVIOUS
<1> QED
  BY <1>1 DEF Token

(* A token is appended behind the others, and every write leaves the flags *)
(* Boolean.                                                                *)
LEMMA Lines == Spec => [](LineType /\ EndsIncrease)
<1>1. Init => LineType /\ EndsIncrease
  BY ChecksAssumption DEF Init, LineType, EndsIncrease
<1>2. LineType /\ EndsIncrease /\ [Next]_<<part, requestVars, lineVars>>
        => (LineType /\ EndsIncrease)'
  <2> SUFFICES ASSUME LineType, EndsIncrease, [Next]_<<part, requestVars, lineVars>>
               PROVE  LineType' /\ EndsIncrease'
    OBVIOUS
  <2>1. CASE AddToken
    <3>1. End \in Nat /\ \A i \in 1 .. Len(line) : line[i].end < End
      <4>1. CASE line = <<>>
        BY <4>1 DEF End, LineType
      <4>2. CASE line # <<>>
        <5>0. line \in Seq(Token) /\ Len(line) \in 1 .. Len(line)
          BY <4>2 DEF LineType
        <5>1. Len(line) \in 1 .. Len(line) /\ line[Len(line)].end \in Nat
          BY <5>0, TokenType
        <5>2. \A i \in 1 .. Len(line) : line[i].end \in Nat
          BY TokenType DEF LineType
        <5>3. \A i \in 1 .. Len(line) : line[i].end <= line[Len(line)].end
          BY <5>1, <5>2 DEF EndsIncrease, LineType
        <5> QED
          BY <4>2, <5>1, <5>2, <5>3 DEF End
      <4> QED
        BY <4>1, <4>2
    <3>2. PICK k \in Keys, v \in Values : line' = Append(line, [key |-> k, value |-> v, end |-> End])
      BY <2>1 DEF AddToken
    <3>3. [key |-> k, value |-> v, end |-> End] \in Token
      BY <3>1, ChecksAssumption DEF Token
    <3>4. LineType'
      BY <2>1, <3>2, <3>3 DEF LineType, AddToken
    <3>5. /\ Len(line') = Len(line) + 1 /\ Len(line) \in Nat
          /\ \A i \in 1 .. Len(line) : line'[i] = line[i]
          /\ line'[Len(line) + 1].end = End
      BY <3>2, <3>3 DEF LineType
    <3>6. EndsIncrease'
      <4> SUFFICES ASSUME NEW i \in 1 .. Len(line'), NEW j \in 1 .. Len(line'), i < j
                   PROVE  line'[i].end < line'[j].end
        BY DEF EndsIncrease
      <4>1. i \in 1 .. Len(line) /\ (j \in 1 .. Len(line) \/ j = Len(line) + 1)
        BY <3>5
      <4> QED
        BY <3>1, <3>5, <4>1 DEF EndsIncrease
    <3> QED
      BY <3>4, <3>6
  <2>2. CASE Write
    <3>1. flags' \in [Options -> BOOLEAN]
      BY <2>2 DEF Write, mtcadummy_proc_write, Updated, LineType
    <3>2. line' = <<>> /\ pad' \in Nat
      BY <2>2, ChecksAssumption DEF Write
    <3> QED
      BY <3>1, <3>2 DEF LineType, EndsIncrease
  <2>3. CASE NextPosition \/ NextCount \/ UNCHANGED <<part, requestVars, lineVars>>
    BY <2>3 DEF NextPosition, NextCount, lineVars, LineType, EndsIncrease
  <2> QED
    BY <2>1, <2>2, <2>3 DEF Next
<1> QED
  BY <1>1, <1>2, PTL DEF Spec

(* The parser gets the tokens up to the first that does not fit. *)
LEMMA ReceivedIsPrefix ==
  ASSUME LineType, EndsIncrease
  PROVE  \E n \in 0 .. Len(line) :
           /\ Received(line) = SubSeq(line, 1, n)
           /\ \A i \in 1 .. Len(line) : line[i].end < sizeof_cmd <=> i <= n
<1> DEFINE fits(i) == line[i].end <= sizeof_cmd - 1
           cut(n) == (\A i \in 1 .. n : fits(i)) /\ (n < Len(line) => ~fits(n + 1))
           T == {m \in 1 .. Len(line) : \A i \in 1 .. m : fits(i)}
<1>1. Len(line) \in Nat
  BY DEF LineType
<1>2. \E n \in 0 .. Len(line) : cut(n)
  <2>1. CASE T = {}
    <3>1. Len(line) > 0 => ~fits(1)
      <4> SUFFICES ASSUME Len(line) > 0, fits(1) PROVE FALSE
        OBVIOUS
      <4>1. 1 \in 1 .. Len(line) /\ 1 .. 1 = {1}
        BY <1>1
      <4>2. 1 \in T
        BY <4>1
      <4> QED
        BY <2>1, <4>2
    <3> QED
      BY <1>1, <3>1
  <2>2. CASE T # {}
    <3>1. PICK m \in T : \A j \in T : j <= m
      BY <1>1, <2>2, LastPosition
    <3>2. m < Len(line) => ~fits(m + 1)
      <4>1. m < Len(line) => m + 1 \in 1 .. Len(line) /\ m + 1 \notin T
        BY <1>1, <3>1
      <4> QED
        BY <1>1, <3>1, <4>1
    <3> QED
      BY <1>1, <3>1, <3>2
  <2> QED
    BY <2>1, <2>2
<1> DEFINE n == CHOOSE n \in 0 .. Len(line) : cut(n)
<1>3. n \in 0 .. Len(line) /\ cut(n)
  BY <1>2
<1>4. Received(line) = SubSeq(line, 1, n)
  BY DEF Received
<1> HIDE DEF n
<1>5. ASSUME NEW i \in 1 .. Len(line)
      PROVE  line[i].end < sizeof_cmd <=> i <= n
  <2>1. line[i].end \in Nat
    BY TokenType DEF LineType
  <2>2. CASE i <= n
    BY <1>1, <1>3, <2>1, <2>2 DEF sizeof_cmd
  <2>3. CASE ~(i <= n)
    <3>1. n + 1 \in 1 .. Len(line) /\ n + 1 <= i
      BY <1>1, <1>3, <2>3
    <3>2. line[n + 1].end \in Nat /\ ~(line[n + 1].end <= sizeof_cmd - 1)
      <4>1. line[n + 1].end \in Nat
        BY <3>1, TokenType DEF LineType
      <4>2. n < Len(line)
        BY <1>1, <1>3, <3>1
      <4> QED
        BY <1>3, <4>1, <4>2
    <3>3. line[n + 1].end <= line[i].end
      BY <1>1, <2>1, <3>1, <3>2 DEF EndsIncrease
    <3> QED
      BY <2>1, <2>3, <3>2, <3>3 DEF sizeof_cmd
  <2> QED
    BY <2>2, <2>3
<1> QED
  BY <1>3, <1>4, <1>5

(* A line that fits into the buffer reaches the parser as it is. *)
LEMMA WholeLine ==
  ASSUME LineType, EndsIncrease, LineLength < sizeof_cmd
  PROVE  Received(line) = line
<1>1. PICK n \in 0 .. Len(line) :
        /\ Received(line) = SubSeq(line, 1, n)
        /\ \A i \in 1 .. Len(line) : line[i].end < sizeof_cmd <=> i <= n
  BY ReceivedIsPrefix
<1>2. Len(line) \in Nat /\ line \in Seq(Token)
  BY DEF LineType
<1>3. n = Len(line)
  <2>1. CASE line = <<>>
    BY <1>1, <2>1
  <2>2. CASE line # <<>>
    <3>1. Len(line) \in 1 .. Len(line)
      BY <1>2, <2>2
    <3>2. line[Len(line)].end < sizeof_cmd
      BY <2>2 DEF LineLength
    <3> QED
      BY <1>1, <1>2, <3>1, <3>2
  <2> QED
    BY <2>1, <2>2
<1> QED
  BY <1>1, <1>2, <1>3

(* A line written to /proc/mtcadummy sets the four fault injection flags   *)
(* as README.md:124 documents, for every line that fits into the buffer    *)
(* and any sequence of writes: the strsep loop of mtcadummy_proc_write     *)
(* leaves the value of the last token for an option.                       *)
THEOREM CommandLine == Spec => []LastOptionWins
<1>1. ASSUME LineType, EndsIncrease
      PROVE  LastOptionWins
  <2> DEFINE sent(o) == {i \in 1 .. Len(line) : line[i].key = o}
             last(o) == {i \in sent(o) : \A j \in sent(o) : j <= i}
  <2>1. Len(line) \in Nat /\ line \in Seq(Token) /\ flags \in [Options -> BOOLEAN]
    BY <1>1 DEF LineType
  <2>2. ASSUME LineLength < sizeof_cmd, NEW o \in Options
        PROVE  mtcadummy_proc_write(flags, line)[o] <=>
                 \/ \E i \in last(o) : line[i].value > 0
                 \/ flags[o] /\ ~\E i \in last(o) : line[i].value = 0
    <3>1. mtcadummy_proc_write(flags, line) = Updated(flags, Collected(line))
      BY <1>1, <2>2, WholeLine DEF mtcadummy_proc_write
    <3>2. Updated(flags, Collected(line))[o] <=>
            \/ \E i : LastFor(line, o, i) /\ line[i].value > 0
            \/ flags[o] /\ ~\E i : LastFor(line, o, i) /\ line[i].value = 0
      BY <2>1, OptionRule
    <3>3. \A i : i \in last(o) <=> LastFor(line, o, i)
      <4>1. ASSUME NEW i, i \in last(o)
            PROVE  LastFor(line, o, i)
        BY <2>1, <4>1 DEF LastFor, LastAmong
      <4>2. ASSUME NEW i, LastFor(line, o, i)
            PROVE  i \in last(o)
        BY <2>1, <4>2 DEF LastFor, LastAmong
      <4> QED
        BY <4>1, <4>2
    <3> HIDE DEF last
    <3>4. mtcadummy_proc_write(flags, line)[o] <=>
            \/ \E i : LastFor(line, o, i) /\ line[i].value > 0
            \/ flags[o] /\ ~\E i : LastFor(line, o, i) /\ line[i].value = 0
      BY <3>1, <3>2, Zenon
    <3> QED
      BY <3>3, <3>4
  <2> QED
    BY <2>2 DEF LastOptionWins
<1> QED
  BY <1>1, Lines, PTL
=============================================================================
