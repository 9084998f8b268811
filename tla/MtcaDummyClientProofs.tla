---------------------- MODULE MtcaDummyClientProofs ----------------------
(***************************************************************************)
(* Proofs about the client library and the test programs: clients use the  *)
(* driver as its other theorems assume, their accesses are loops over      *)
(* words with either wrapper, and what the tests check follows.            *)
(***************************************************************************)
EXTENDS MtcaDummyTests, MtcaDummyProtocolProofs, SequenceTheorems

Outcomes == [threw : BOOLEAN, data : Seq(Word)]

ClientType ==
  /\ job \in Jobs
  /\ stage \in [Clients -> {"start", "opening", "working", "closing", "ended"}]
  /\ done \in [Clients -> Nat]
  /\ buffer \in [Clients -> Seq(Word)]
  /\ log \in [Clients -> Seq(Outcomes)]

(* An access that did not throw has delivered all of its words. *)
Recorded(c) ==
  /\ Len(log[c]) <= Len(job[c].accesses)
  /\ \A n \in 1 .. Len(log[c]) :
       ~log[c][n].threw /\ job[c].accesses[n].op = "read" =>
         Len(log[c][n].data) = job[c].accesses[n].nWords

(* The loop of a StructReaderWriter is inside an access, and has read as   *)
(* many words as it has done.                                              *)
Looping(c) ==
  /\ done[c] # 0 => /\ stage[c] = "working" /\ IsStruct(c) /\ MoreToDo(job[c], log[c])
                    /\ done[c] <= Access(c).nWords
  /\ Len(buffer[c]) = IF done[c] # 0 /\ Access(c).op = "read" THEN done[c] ELSE 0

(* What the driver has answered to a call of a working client. *)
Answered(c) ==
  /\ result[c] \in Seq(Word)
  /\ IsStruct(c) =>
       Len(result[c]) = IF ret[c] = sizeof_device_rw /\ Access(c).op = "read" THEN 1 ELSE 0
  /\ ~IsStruct(c) /\ Access(c).op = "read" /\ ret[c] = 4 * Access(c).nWords =>
       Len(result[c]) = Access(c).nWords

(* The call of a working client is the one its wrapper makes for the word  *)
(* or the area it is at.                                                   *)
InCall(c) ==
  LET a == Access(c) IN
    /\ MoreToDo(job[c], log[c])
    /\ IsStruct(c) => /\ done[c] < a.nWords /\ idx[c] = 0
                      /\ call[c] = StructCall(a, done[c], Words(a, log[c]))
    /\ ~IsStruct(c) => /\ a.bar <= 5 /\ idx[c] <= a.nWords
                       /\ call[c] = NormalCall(a, Words(a, log[c]))
    /\ pc[c] = "null" => FileOps(job[c].dev).rw = "none"
    /\ pc[c] = "done" => Answered(c)

(* Where a client is with its file: it has it open while it works, and not *)
(* before or after.                                                        *)
Placed(c) ==
  /\ stage[c] \in {"start", "ended"} => pc[c] = "idle" /\ file[c] = NoFile
  /\ stage[c] = "opening" =>
       /\ pc[c] # "idle" /\ call[c] = OpenCall(job[c].dev)
       /\ pc[c] = "done" => file[c] = IF ret[c] < 0 THEN NoFile ELSE job[c].dev
  /\ stage[c] = "working" => file[c] = job[c].dev /\ (pc[c] # "idle" => InCall(c))
  /\ stage[c] = "closing" =>
       /\ pc[c] # "idle" /\ call[c] = CloseCall
       /\ file[c] = IF pc[c] = "done" THEN NoFile ELSE job[c].dev

ClientState(c) == Recorded(c) /\ Looping(c) /\ Placed(c)

(* The others make the calls of OtherCalls, and without a call of theirs   *)
(* that injects errors no flag is ever set.                                *)
OtherState ==
  /\ \A t \in Threads \ Clients : pc[t] # "idle" => call[t] \in OtherCalls
  /\ \/ \E o \in OtherCalls : o.op = "control"
     \/ /\ \A o \in Options : ~control[o]
        /\ \A t \in Threads : ~spiFail[t]

ClientsInv == ClientType /\ OtherState /\ \A c \in Clients : ClientState(c)
-----------------------------------------------------------------------------
(* A job and its calls. *)
LEMMA JobFacts ==
  ASSUME job \in Jobs, NEW c \in Clients
  PROVE  /\ c \in Threads /\ IsJob(job[c]) /\ CallsOf(job[c]) \subseteq Calls
         /\ job[c].dev \in Devices /\ OpenCall(job[c].dev) \in Calls /\ CloseCall \in Calls
<1>1. c \in Threads /\ IsJob(job[c])
  BY ClientsAssumption
<1>2. CallsOf(job[c]) \subseteq WrapperCalls
  BY DEF WrapperCalls
<1>3. CallsOf(job[c]) \subseteq Calls
  BY <1>2, ClientsAssumption
<1>4. OpenCall(job[c].dev) \in CallsOf(job[c]) /\ CloseCall \in CallsOf(job[c])
  BY DEF CallsOf
<1> QED
  BY <1>1, <1>3, <1>4 DEF IsJob

(* The next access of a job. *)
LEMMA AccessFacts ==
  ASSUME ClientType, NEW c \in Clients, MoreToDo(job[c], log[c])
  PROVE  LET a == Access(c) IN
           /\ Len(log[c]) \in Nat /\ Len(log[c]) + 1 \in 1 .. Len(job[c].accesses)
           /\ IsAccess(job[c].accesses, Len(log[c]) + 1)
           /\ a.op \in {"read", "write"} /\ a.bar \in Nat
           /\ a.offset \in Nat /\ a.offset < BAR_STRIDE
           /\ a.nWords \in Nat /\ a.nWords > 0 /\ a.offset + 4 * a.nWords <= U32
           /\ a.from \in Nat /\ a.from <= Len(log[c])
           /\ a.from # 0 => a.nWords = 1 /\ a.op = "write"
<1>1. IsJob(job[c]) /\ Len(log[c]) \in Nat
  BY JobFacts DEF ClientType
<1>2. Len(job[c].accesses) \in Nat /\ Len(log[c]) < Len(job[c].accesses)
  BY <1>1 DEF IsJob, MoreToDo
<1>3. Len(log[c]) + 1 \in 1 .. Len(job[c].accesses)
  BY <1>1, <1>2
<1>4. IsAccess(job[c].accesses, Len(log[c]) + 1)
  BY <1>1, <1>3 DEF IsJob
<1> DEFINE a == Access(c)
<1>5. a = job[c].accesses[Len(log[c]) + 1]
  BY DEF Access
<1> HIDE DEF a
<1>6. /\ a.op \in {"read", "write"} /\ a.bar \in Nat
      /\ a.offset \in Nat /\ a.offset < BAR_STRIDE
      /\ a.nWords \in Nat \ {0} /\ a.offset + 4 * a.nWords <= U32
      /\ a.from \in 0 .. (Len(log[c]) + 1) - 1
      /\ a.op = "read" => a.from = 0
      /\ a.from # 0 => a.nWords = 1
  BY <1>4, <1>5 DEF IsAccess
<1>7. a.nWords > 0 /\ a.from \in Nat /\ a.from <= Len(log[c])
  BY <1>1, <1>6
<1> QED
  BY <1>1, <1>3, <1>4, <1>6, <1>7 DEF a

(* The words of a write. *)
LEMMA WordsFacts ==
  ASSUME ClientType, NEW c \in Clients, Recorded(c), MoreToDo(job[c], log[c])
  PROVE  LET a == Access(c)
             w == Words(a, log[c])
         IN  /\ w \in PossibleWords(a)
             /\ a.op = "write" => \A k \in 1 .. a.nWords : w[k] \in Word
<1> DEFINE a == Access(c)
           w == Words(a, log[c])
<1>1. /\ Len(log[c]) \in Nat /\ Len(log[c]) + 1 \in 1 .. Len(job[c].accesses)
      /\ IsAccess(job[c].accesses, Len(log[c]) + 1) /\ a = job[c].accesses[Len(log[c]) + 1]
      /\ a.from \in Nat /\ a.from <= Len(log[c])
      /\ a.from # 0 => a.nWords = 1 /\ a.op = "write"
  BY AccessFacts DEF Access
<1>2. CASE a.from = 0
  <2>1. w = a.data /\ w \in PossibleWords(a)
    BY <1>2 DEF Words, PossibleWords
  <2>2. a.op = "write" => a.data \in [1 .. a.nWords -> Word]
    BY <1>1, <1>2 DEF IsAccess
  <2> QED
    BY <2>1, <2>2
<1>3. CASE a.from # 0
  <2> DEFINE x == log[c][a.from].data[1]
  <2>1. a.from \in 1 .. Len(log[c]) /\ a.from \in 1 .. Len(job[c].accesses)
    BY <1>1, <1>3
  <2>2. ~log[c][a.from].threw
    BY <1>1, <1>3 DEF MoreToDo
  <2>3. job[c].accesses[a.from].op = "read"
    BY <1>1, <1>3 DEF IsAccess
  <2>4. IsAccess(job[c].accesses, a.from)
    BY <2>1, JobFacts DEF ClientType, IsJob
  <2>5. job[c].accesses[a.from].nWords \in Nat \ {0}
    BY <2>4 DEF IsAccess
  <2>6. log[c][a.from] \in Outcomes
    BY <2>1 DEF ClientType
  <2>7. log[c][a.from].data \in Seq(Word)
    BY <2>6 DEF Outcomes
  <2>8. Len(log[c][a.from].data) \in Nat \ {0}
    BY <2>1, <2>2, <2>3, <2>5 DEF Recorded
  <2>9. x \in Word
    BY <2>7, <2>8
  <2>10. (x + 1) % U32 \in Word
    BY <2>9, HeaderAssumption DEF Word
  <2> HIDE DEF x
  <2>11. w = << (x + 1) % U32 >>
    BY <1>3 DEF Words, x
  <2>12. w \in PossibleWords(a)
    BY <1>3, <2>10, <2>11 DEF PossibleWords
  <2> QED
    BY <1>1, <1>3, <2>10, <2>11, <2>12
<1> QED
  BY <1>2, <1>3

(* The calls of the wrappers are among the calls of the driver. *)
LEMMA KnownCalls ==
  ASSUME ClientType, NEW c \in Clients, Recorded(c), MoreToDo(job[c], log[c])
  PROVE  LET a == Access(c)
             w == Words(a, log[c])
         IN  /\ IsStruct(c) => \A k \in 0 .. a.nWords - 1 : StructCall(a, k, w) \in Calls
             /\ ~IsStruct(c) => NormalCall(a, w) \in Calls
<1> DEFINE a == Access(c)
           w == Words(a, log[c])
<1>1. w \in PossibleWords(a) /\ Len(log[c]) + 1 \in 1 .. Len(job[c].accesses)
      /\ a = job[c].accesses[Len(log[c]) + 1]
  BY WordsFacts, AccessFacts DEF Access
<1>2. AccessCalls(job[c].dev, a) \subseteq Calls
  BY <1>1, JobFacts DEF CallsOf, ClientType
<1> QED
  BY <1>1, <1>2 DEF AccessCalls, IsStruct
-----------------------------------------------------------------------------
(* The file position of a NormalReaderWriter carries bar and offset. *)
LEMMA Position ==
  ASSUME NEW bar \in Nat, bar <= 5, NEW offset \in Nat, offset < BAR_STRIDE
  PROVE  LET pos == bar * BAR_STRIDE + offset
         IN  pos \in Nat /\ BarOf(pos) = bar /\ OffsetOf(pos) = offset
<1> DEFINE S == BAR_STRIDE
           pos == bar * S + offset
           q == pos \div S
           r == pos % S
<1>1. S \in Nat /\ S > 0
  BY HeaderAssumption
<1> HIDE DEF S
<1>2. bar * S \in Nat
  BY <1>1
<1>3. pos \in Nat
  BY <1>2
<1>4. q \in Nat /\ r \in Nat /\ r < S /\ pos = S * q + r
  BY <1>1, <1>3, DivMod
<1> HIDE DEF q, r
<1>5. ASSUME NEW x \in Nat, NEW y \in Nat, x < y
      PROVE  S * x + S <= S * y
  <2>1. y - x - 1 \in Nat
    BY <1>5
  <2>2. S * (y - x - 1) \in Nat
    BY <1>1, <2>1
  <2>3. S * y = S * x + S + S * (y - x - 1)
    BY <1>1
  <2>4. S * x \in Nat
    BY <1>1
  <2> QED
    BY <1>1, <2>2, <2>3, <2>4
<1>6. pos = S * bar + offset /\ S * bar \in Nat /\ S * q \in Nat
  BY <1>1, <1>2, <1>4
<1>7. offset < S
  BY DEF S
<1>8. ~(q < bar)
  <2> SUFFICES ASSUME q < bar PROVE FALSE
    OBVIOUS
  <2>1. S * q + S <= S * bar
    BY <1>4, <1>5
  <2> QED
    BY <1>1, <1>4, <1>6, <2>1
<1>9. ~(bar < q)
  <2> SUFFICES ASSUME bar < q PROVE FALSE
    OBVIOUS
  <2>1. S * bar + S <= S * q
    BY <1>4, <1>5
  <2> QED
    BY <1>1, <1>4, <1>6, <1>7, <2>1
<1>10. q = bar
  BY <1>4, <1>8, <1>9
<1>11. r = offset
  BY <1>4, <1>6, <1>10
<1>12. bar % 8 = bar
  OBVIOUS
<1>13. BarOf(pos) = q % 8 /\ OffsetOf(pos) = r
  BY DEF BarOf, OffsetOf, S, q, r
<1> HIDE DEF pos
<1>14. pos \in Nat /\ BarOf(pos) = bar /\ OffsetOf(pos) = offset
  BY <1>3, <1>10, <1>11, <1>12, <1>13
<1> QED
  BY <1>14 DEF pos, S

(* An area is accepted unless its first word is refused, and the words     *)
(* that are transferred are those before the first one that is refused.    *)
LEMMA AreaWords ==
  ASSUME NEW bar \in Nat, bar <= 5, NEW offset \in Nat, offset < BAR_STRIDE,
         NEW n \in Nat, NEW pos \in Nat, BarOf(pos) = bar, OffsetOf(pos) = offset,
         pos = bar * BAR_STRIDE + offset
  PROVE  /\ RegisterAccessible(bar, offset) => TransferAccepted(4 * n, pos)
         /\ TransferAccepted(4 * n, pos) =>
              /\ nBytesToTransfer(4 * n, pos) \in Nat /\ nBytesToTransfer(4 * n, pos) % 4 = 0
              /\ nBytesToTransfer(4 * n, pos) <= 4 * n
              /\ \A k \in Nat : k < nBytesToTransfer(4 * n, pos) \div 4 <=>
                                k < n /\ RegisterAccessible(bar, offset + 4 * k)
<1> DEFINE S == BAR_STRIDE
           s == BarSize(bar)
           m == nBytesToTransfer(4 * n, pos)
<1>1. S \in Nat /\ S % 4 = 0 /\ s \in Nat /\ s % 4 = 0
  BY HeaderAssumption, BarSizeType
<1>2. m = IF s < offset + 4 * n THEN s - offset ELSE 4 * n
  BY DEF nBytesToTransfer
<1>3. (4 * n) % 4 = 0
  OBVIOUS
<1>4. pos % 4 = 0 <=> offset % 4 = 0
  <2> DEFINE b == S \div 4
  <2>1. b \in Nat /\ S = 4 * b
    BY <1>1
  <2>2. bar * b \in Nat /\ bar * S = 4 * (bar * b)
    BY <2>1
  <2> DEFINE e == bar * b
  <2> HIDE DEF e
  <2>3. e \in Nat /\ pos = 4 * e + offset
    BY <2>2 DEF e
  <2> QED
    BY <2>3
<1>5. TransferAccepted(4 * n, pos) <=> offset % 4 = 0 /\ bar \in {0, 2} /\ offset <= s
  BY <1>3, <1>4 DEF TransferAccepted
<1>6. \A k \in Nat : RegisterAccessible(bar, offset + 4 * k) <=>
                      bar \in {0, 2} /\ (offset + 4 * k) % 4 = 0 /\ offset + 4 * k < s
  BY DEF RegisterAccessible
<1> HIDE DEF s, m, S
<1>7. ASSUME TransferAccepted(4 * n, pos)
      PROVE  /\ m \in Nat /\ m % 4 = 0 /\ m <= 4 * n
             /\ \A k \in Nat : k < m \div 4 <=> k < n /\ RegisterAccessible(bar, offset + 4 * k)
  <2>1. offset % 4 = 0 /\ bar \in {0, 2} /\ offset <= s
    BY <1>5, <1>7
  <2>2. m \in Nat /\ m % 4 = 0 /\ m <= 4 * n
    BY <1>1, <1>2, <2>1
  <2>3. ASSUME NEW k \in Nat
        PROVE  k < m \div 4 <=> k < n /\ offset + 4 * k < s
    <3>1. k < m \div 4 <=> 4 * k < m
      BY <2>2
    <3> QED
      BY <1>1, <1>2, <2>1, <2>2, <3>1
  <2>4. \A k \in Nat : (offset + 4 * k) % 4 = 0
    BY <2>1
  <2> QED
    BY <1>6, <2>1, <2>2, <2>3, <2>4
<1>8. RegisterAccessible(bar, offset) => TransferAccepted(4 * n, pos)
  BY <1>1, <1>5 DEF RegisterAccessible, s
<1> QED
  BY <1>7, <1>8 DEF m

-----------------------------------------------------------------------------
(* A client in a call of its wrapper. *)
InWork(c) ==
  /\ DeliveryInv /\ ClientType /\ OtherState /\ ClientState(c)
  /\ stage[c] = "working" /\ pc[c] \notin {"idle", "done"}

LEMMA WorkFacts ==
  ASSUME NEW c \in Clients, InWork(c)
  PROVE  /\ c \in Threads /\ MoreToDo(job[c], log[c]) /\ InCall(c)
         /\ file[c] = job[c].dev /\ job[c].dev \in Devices
         /\ call[c] \in Calls /\ idx[c] \in Nat /\ done[c] \in Nat /\ buffer[c] \in Seq(Word)
         /\ View(c) = State(log[c], done[c] + idx[c], buffer[c] \o result[c], pc[c] \in FirmwareLabels,
                            systemBar[job[c].dev], dmaBar[job[c].dev])
<1>1. c \in Threads /\ job[c].dev \in Devices
  BY JobFacts DEF InWork, ClientType
<1>2. InCall(c) /\ file[c] = job[c].dev
  BY DEF InWork, ClientState, Placed
<1>3. MoreToDo(job[c], log[c])
  BY <1>2 DEF InCall
<1>4. call[c] \in Calls /\ idx[c] \in Nat
  BY <1>1 DEF InWork, DeliveryInv, IInv, TypeOK, CallState, AtLabel
<1>5. done[c] \in Nat /\ buffer[c] \in Seq(Word)
  BY DEF InWork, ClientType
<1>6. View(c) = State(log[c], done[c] + idx[c], buffer[c] \o result[c], pc[c] \in FirmwareLabels,
                      systemBar[job[c].dev], dmaBar[job[c].dev])
  BY DEF View, InWork
<1> QED
  BY <1>1, <1>2, <1>3, <1>4, <1>5, <1>6

LEMMA ViewFields ==
  ASSUME NEW c \in Clients, InWork(c)
  PROVE  /\ View(c).log = log[c] /\ View(c).k = done[c] + idx[c]
         /\ View(c).got = buffer[c] \o result[c] /\ View(c).stored = (pc[c] \in FirmwareLabels)
         /\ View(c).sys = systemBar[job[c].dev] /\ View(c).dma = dmaBar[job[c].dev]
<1>1. PICK fw : fw = (pc[c] \in FirmwareLabels)
  OBVIOUS
<1>2. View(c) = State(log[c], done[c] + idx[c], buffer[c] \o result[c], fw,
                      systemBar[job[c].dev], dmaBar[job[c].dev])
  BY <1>1, WorkFacts
<1>3. /\ View(c).log = log[c] /\ View(c).k = done[c] + idx[c]
      /\ View(c).got = buffer[c] \o result[c] /\ View(c).stored = fw
      /\ View(c).sys = systemBar[job[c].dev] /\ View(c).dma = dmaBar[job[c].dev]
  <2> DEFINE v == View(c)
             k == done[c] + idx[c]
             got == buffer[c] \o result[c]
             sys == systemBar[job[c].dev]
             dma == dmaBar[job[c].dev]
  <2>1. v = [log |-> log[c], k |-> k, got |-> got, stored |-> fw, sys |-> sys, dma |-> dma]
    BY <1>2 DEF State
  <2> HIDE DEF v, k, got, sys, dma
  <2>2. v.log = log[c] /\ v.k = k /\ v.got = got /\ v.stored = fw /\ v.sys = sys /\ v.dma = dma
    BY <2>1
  <2> QED
    BY <2>2 DEF v, k, got, sys, dma
<1> QED
  BY <1>1, <1>3

LEMMA StructFacts ==
  ASSUME NEW c \in Clients, InWork(c), IsStruct(c)
  PROVE  LET a == Access(c) IN
           /\ call[c].op = a.op /\ a.op \in {"read", "write"} /\ Dev(c) = job[c].dev
           /\ call[c].count = sizeof_device_rw /\ call[c].mode = RW_D32
           /\ call[c].bar = a.bar /\ call[c].offset = WordOffset(a, done[c])
           /\ a.op = "write" => call[c].data = Words(a, log[c])[done[c] + 1]
           /\ done[c] < a.nWords /\ a.nWords \in Nat /\ idx[c] = 0 /\ result[c] = <<>>
           /\ buffer[c] \o result[c] = buffer[c] /\ done[c] + idx[c] = done[c]
           /\ pc[c] # "null"
<1> DEFINE a == Access(c)
<1>1. InCall(c) /\ c \in Threads /\ done[c] \in Nat /\ file[c] = job[c].dev /\ buffer[c] \in Seq(Word)
  BY WorkFacts
<1>2. a.op \in {"read", "write"} /\ a.nWords \in Nat
  BY <1>1, AccessFacts DEF InWork, InCall
<1>3. call[c] = StructCall(a, done[c], Words(a, log[c])) /\ done[c] < a.nWords /\ idx[c] = 0
  BY <1>1 DEF InCall
<1>4. /\ call[c].op = a.op /\ call[c].count = sizeof_device_rw /\ call[c].mode = RW_D32
      /\ call[c].bar = a.bar /\ call[c].offset = WordOffset(a, done[c])
      /\ a.op = "write" => call[c].data = Words(a, log[c])[done[c] + 1]
  <2> HIDE DEF a
  <2> QED BY <1>2, <1>3 DEF StructCall
<1>5. Dev(c) = job[c].dev
  BY <1>1, <1>2, <1>4 DEF Dev
<1>6. result[c] = <<>>
  <2>1. ~InDmaCopy(c)
    BY <1>2, <1>4 DEF InDmaCopy, CopiesDma, RW_D32, RW_DMA
  <2> QED
    BY <1>1, <1>2, <1>4, <2>1 DEF InWork, DeliveryInv, Delivered
<1>7. pc[c] # "null"
  BY <1>1 DEF InCall, IsStruct, HasStruct
<1>8. buffer[c] \o result[c] = buffer[c] /\ done[c] + idx[c] = done[c]
  BY <1>1, <1>3, <1>6
<1> QED
  BY <1>1, <1>2, <1>3, <1>4, <1>5, <1>6, <1>7, <1>8

LEMMA PlainFacts ==
  ASSUME NEW c \in Clients, InWork(c), ~IsStruct(c)
  PROVE  LET a == Access(c) IN
           /\ call[c].op = IF a.op = "read" THEN "pread" ELSE "pwrite"
           /\ a.op \in {"read", "write"} /\ Dev(c) = job[c].dev
           /\ call[c].count = 4 * a.nWords /\ a.nWords \in Nat /\ call[c].pos \in Nat
           /\ BarOf(call[c].pos) = a.bar /\ OffsetOf(call[c].pos) = a.offset
           /\ CurBar(c) = a.bar /\ CurOffset(c) = WordOffset(a, idx[c])
           /\ a.op = "write" /\ idx[c] < a.nWords => CurData(c) = Words(a, log[c])[idx[c] + 1]
           /\ idx[c] <= a.nWords /\ done[c] = 0 /\ buffer[c] = <<>> /\ result[c] \in Seq(Word)
           /\ buffer[c] \o result[c] = result[c] /\ done[c] + idx[c] = idx[c]
           /\ RegisterAccessible(a.bar, a.offset) => TransferAccepted(call[c].count, call[c].pos)
           /\ TransferAccepted(call[c].count, call[c].pos) =>
                /\ WordsToTransfer(c) \in Nat /\ WordsToTransfer(c) <= a.nWords
                /\ nBytesToTransfer(call[c].count, call[c].pos) = 4 * WordsToTransfer(c)
                /\ \A k \in Nat : k < WordsToTransfer(c) <=>
                                  k < a.nWords /\ RegisterAccessible(a.bar, WordOffset(a, k))
<1> DEFINE a == Access(c)
           n == a.nWords
           pos == a.bar * BAR_STRIDE + a.offset
<1>1. /\ InCall(c) /\ c \in Threads /\ done[c] \in Nat /\ file[c] = job[c].dev
      /\ buffer[c] \in Seq(Word) /\ idx[c] \in Nat
  BY WorkFacts
<1>2. /\ a.op \in {"read", "write"} /\ a.nWords \in Nat /\ a.bar \in Nat /\ a.bar <= 5
      /\ a.offset \in Nat /\ a.offset < BAR_STRIDE
  BY <1>1, AccessFacts DEF InWork, InCall
<1>3. call[c] = NormalCall(a, Words(a, log[c])) /\ idx[c] <= a.nWords
  BY <1>1 DEF InCall
<1>4. /\ call[c].op = IF a.op = "read" THEN "pread" ELSE "pwrite"
      /\ call[c].count = 4 * n /\ call[c].pos = pos
      /\ a.op = "write" => call[c].data = [i \in 0 .. n - 1 |-> Words(a, log[c])[i + 1]]
  <2> HIDE DEF a
  <2> QED BY <1>2, <1>3 DEF NormalCall
<1>5. Dev(c) = job[c].dev
  BY <1>1, <1>2, <1>4 DEF Dev
<1>6. pos \in Nat /\ BarOf(pos) = a.bar /\ OffsetOf(pos) = a.offset
  <2> HIDE DEF a
  <2> QED BY <1>2, Position
<1>7. done[c] = 0 /\ Len(buffer[c]) = 0
  BY <1>1 DEF InWork, ClientState, Looping
<1>8. buffer[c] = <<>>
  BY <1>1, <1>7
<1>9. result[c] \in Seq(Word)
  <2>1. Delivered(c) /\ pc[c] # "done" /\ call[c].op \in {"pread", "pwrite"}
    BY <1>1, <1>4 DEF InWork, DeliveryInv
  <2>2. result[c] = <<>> \/ result[c] \in Seq(Word)
    BY <2>1 DEF Delivered, DmaDelivered
  <2>3. <<>> \in Seq(Word)
    OBVIOUS
  <2> QED
    BY <2>2, <2>3
<1>10. CurBar(c) = a.bar /\ CurOffset(c) = WordOffset(a, idx[c])
  BY <1>2, <1>4, <1>6 DEF CurBar, CurOffset, WordOffset
<1>11. a.op = "write" /\ idx[c] < n => CurData(c) = Words(a, log[c])[idx[c] + 1]
  <2> SUFFICES ASSUME a.op = "write", idx[c] < n
               PROVE  CurData(c) = Words(a, log[c])[idx[c] + 1]
    OBVIOUS
  <2>1. idx[c] \in 0 .. n - 1
    <3> HIDE DEF n
    <3> QED BY <1>1, <1>2 DEF n
  <2>2. CurData(c) = call[c].data[idx[c]]
    BY <1>4 DEF CurData
  <2> QED
    BY <1>4, <2>1, <2>2
<1>12. buffer[c] \o result[c] = result[c] /\ done[c] + idx[c] = idx[c]
  BY <1>1, <1>7, <1>8, <1>9
<1> DEFINE m == nBytesToTransfer(call[c].count, call[c].pos)
<1>13. /\ RegisterAccessible(a.bar, a.offset) => TransferAccepted(call[c].count, call[c].pos)
       /\ TransferAccepted(call[c].count, call[c].pos) =>
            /\ m \in Nat /\ m % 4 = 0 /\ m <= 4 * n
            /\ \A k \in Nat : k < m \div 4 <=> k < n /\ RegisterAccessible(a.bar, a.offset + 4 * k)
  <2> DEFINE bar == a.bar
             offset == a.offset
  <2>1. bar \in Nat /\ bar <= 5 /\ offset \in Nat /\ offset < BAR_STRIDE /\ n \in Nat
    BY <1>2
  <2>2. /\ pos \in Nat /\ BarOf(pos) = bar /\ OffsetOf(pos) = offset /\ pos = bar * BAR_STRIDE + offset
        /\ call[c].pos = pos /\ call[c].count = 4 * n
    BY <1>4, <1>6
  <2> HIDE DEF bar, offset, n, pos, a
  <2>3. /\ RegisterAccessible(bar, offset) => TransferAccepted(4 * n, pos)
        /\ TransferAccepted(4 * n, pos) =>
              /\ nBytesToTransfer(4 * n, pos) \in Nat /\ nBytesToTransfer(4 * n, pos) % 4 = 0
              /\ nBytesToTransfer(4 * n, pos) <= 4 * n
              /\ \A k \in Nat : k < nBytesToTransfer(4 * n, pos) \div 4 <=>
                                k < n /\ RegisterAccessible(bar, offset + 4 * k)
    BY <2>1, <2>2, AreaWords
  <2> QED
    BY <2>2, <2>3 DEF bar, offset
<1>14. TransferAccepted(call[c].count, call[c].pos) =>
         /\ WordsToTransfer(c) \in Nat /\ WordsToTransfer(c) <= n /\ m = 4 * WordsToTransfer(c)
         /\ \A k \in Nat : k < WordsToTransfer(c) <=>
                           k < n /\ RegisterAccessible(a.bar, WordOffset(a, k))
  <2> SUFFICES ASSUME TransferAccepted(call[c].count, call[c].pos)
               PROVE  /\ WordsToTransfer(c) \in Nat /\ WordsToTransfer(c) <= n /\ m = 4 * WordsToTransfer(c)
                      /\ \A k \in Nat : k < WordsToTransfer(c) <=>
                                        k < n /\ RegisterAccessible(a.bar, WordOffset(a, k))
    OBVIOUS
  <2>1. WordsToTransfer(c) = m \div 4
    BY DEF WordsToTransfer
  <2>2. m \in Nat /\ m % 4 = 0 /\ m <= 4 * n /\ n \in Nat
    BY <1>2, <1>13
  <2> HIDE DEF m, n
  <2>3. m \div 4 \in Nat /\ m \div 4 <= n /\ m = 4 * (m \div 4)
    BY <2>2
  <2> QED
    BY <1>13, <2>1, <2>3 DEF WordOffset, m, n
<1> QED
  BY <1>1, <1>2, <1>3, <1>4, <1>5, <1>6, <1>7, <1>8, <1>9, <1>10, <1>11, <1>12, <1>13, <1>14

-----------------------------------------------------------------------------
(* The steps of a thread inside the driver, and those of a call that reads *)
(* or writes.                                                              *)
DriverStep(t) == LockControl(t) \/ LockDevice(t) \/ Signal(t) \/ (pc[t] # "done" /\ Step(t))

LEMMA DataActions ==
  ASSUME IInv, NEW t \in Threads, call[t].op \in StructOps \cup PlainOps,
         call[t].op = "read" => call[t].mode = RW_D32,
         pc[t] # "idle", DriverStep(t)
  PROVE  \/ LockControl(t) \/ LockDevice(t) \/ GateInterrupted(t) \/ DeviceInterrupted(t)
         \/ FirmwareInterrupted(t) \/ NullOperation(t) \/ PassGate(t)
         \/ mtcaDummy_read(t) \/ mtcaDummy_write_rejected(t) \/ mtcaDummy_write(t)
         \/ CheckTransfer(t) \/ ReadWord(t) \/ ReadWordFails(t)
         \/ WriteWord(t) \/ WriteWordFaults(t) \/ TransferDone(t)
         \/ SampleSpiError(t) \/ FirmwareAction(t)
<1>1. AtLabel(t) /\ call[t].op \in {"read", "write", "pread", "pwrite"}
  BY DEF IInv, CallState, StructOps, PlainOps
<1>2. ~Install(t) /\ ~Release(t) /\ ~IoctlCheck(t)
  BY <1>1 DEF AtLabel, Install, Release, IoctlCheck
<1>3. ~mtcaDummy_ioctl(t) /\ ~PrintSystemBar(t) /\ ~PrintDmaBar(t)
  BY <1>1 DEF mtcaDummy_ioctl, PrintSystemBar, PrintDmaBar
<1>4. ~ProcWriteCopy(t) /\ ~SetControl(t) /\ ~ProcWriteInterrupted(t)
  BY <1>1 DEF AtLabel, ProcWriteCopy, SetControl, ProcWriteInterrupted
<1>5. ~SeqShow(t) /\ ~SeqStop(t)
  BY <1>1 DEF AtLabel, SeqShow, SeqStop
<1>6. pc[t] # "done" => ~Exit(t)
  BY DEF Exit
<1>7. ~CopyDmaWord(t) /\ ~CopyDmaEnds(t)
  <2>1. ~InDmaCopy(t)
    BY <1>1 DEF InDmaCopy, CopiesDma, RW_D32, RW_DMA
  <2> QED
    BY <2>1 DEF CopyDmaWord, CopyDmaEnds
<1> QED
  BY <1>2, <1>3, <1>4, <1>5, <1>6, <1>7 DEF DriverStep, Signal, Step

(* Such a call goes on with nothing done, or it gives up. *)
InWait(t) ==
  /\ call'[t] = call[t] /\ file'[t] = file[t] /\ idx'[t] = idx[t] /\ result'[t] = result[t]
  /\ systemBar' = systemBar /\ dmaBar' = dmaBar

GoesOn(t) ==
  /\ InWait(t)
  /\ pc'[t] \notin {"idle", "done", "null"}
  /\ pc'[t] \in FirmwareLabels <=> pc[t] \in FirmwareLabels

ReturnsError(t) == InWait(t) /\ pc'[t] = "done" /\ ret'[t] \in Int /\ ret'[t] < 0

LEMMA GoingOn ==
  ASSUME IInv, NEW t \in Threads, call[t].op \in StructOps \cup PlainOps,
         \/ LockControl(t) \/ LockDevice(t) \/ SampleSpiError(t)
         \/ PassGate(t) /\ ~control[GateFlag(call[t].op)]
         \/ CheckTransfer(t) /\ TransferAccepted(call[t].count, call[t].pos)
  PROVE  GoesOn(t)
<1> USE DEF GoesOn, InWait, Goto, locals, bars, FirmwareLabels, StructOps, PlainOps
<1>1. pc \in [Threads -> Labels] /\ AtLabel(t)
  BY DEF IInv, TypeOK, CallState
<1>2. CASE LockControl(t)
  <2>1. pc[t] \in {"gate", "fw"}
    BY <1>1, <1>2 DEF LockControl, AfterLock, AtLabel
  <2> QED
    BY <1>1, <1>2, <2>1 DEF LockControl, AfterLock
<1>3. CASE LockDevice(t)
  BY <1>1, <1>3 DEF LockDevice
<1>4. CASE SampleSpiError(t)
  BY <1>1, <1>4 DEF SampleSpiError
<1>5. CASE PassGate(t) /\ ~control[GateFlag(call[t].op)]
  BY <1>1, <1>5 DEF PassGate
<1>6. CASE CheckTransfer(t) /\ TransferAccepted(call[t].count, call[t].pos)
  BY <1>1, <1>6 DEF CheckTransfer
<1> QED
  BY <1>2, <1>3, <1>4, <1>5, <1>6

LEMMA GivingUp ==
  ASSUME IInv, NEW t \in Threads, call[t].op \in StructOps \cup PlainOps,
         \/ GateInterrupted(t) \/ DeviceInterrupted(t) \/ FirmwareInterrupted(t)
         \/ NullOperation(t) \/ mtcaDummy_write_rejected(t) \/ ReadWordFails(t)
         \/ PassGate(t) /\ control[GateFlag(call[t].op)]
         \/ CheckTransfer(t) /\ ~TransferAccepted(call[t].count, call[t].pos)
  PROVE  ReturnsError(t)
<1> USE DEF ReturnsError, InWait, Goto, Return, Finish, bars, StructOps, PlainOps,
            EIO, EFAULT, EINVAL, ENOTTY, ERESTARTSYS
<1>1. pc \in [Threads -> Labels] /\ ret \in [Threads -> Int] /\ file \in [Threads -> Devices \cup {NoFile}]
  BY DEF IInv, TypeOK
<1>2. CASE GateInterrupted(t) \/ DeviceInterrupted(t) \/ FirmwareInterrupted(t)
  BY <1>1, <1>2 DEF GateInterrupted, DeviceInterrupted, FirmwareInterrupted
<1>3. CASE NullOperation(t)
  BY <1>1, <1>3 DEF NullOperation
<1>4. CASE mtcaDummy_write_rejected(t)
  BY <1>1, <1>4 DEF mtcaDummy_write_rejected
<1>5. CASE ReadWordFails(t)
  <2>1. Finish(t, EIO) \/ Finish(t, EFAULT)
    BY <1>5 DEF ReadWordFails
  <2>2. UNCHANGED <<systemBar, dmaBar, file, call, idx, result>>
    BY <1>5 DEF ReadWordFails
  <2> QED
    BY <1>1, <2>1, <2>2
<1>6. CASE PassGate(t) /\ control[GateFlag(call[t].op)]
  BY <1>1, <1>6 DEF PassGate, GateError
<1>7. CASE CheckTransfer(t) /\ ~TransferAccepted(call[t].count, call[t].pos)
  BY <1>1, <1>7 DEF CheckTransfer
<1> QED
  BY <1>2, <1>3, <1>4, <1>5, <1>6, <1>7

(* What that means for the job. *)
LEMMA ViewGoesOn ==
  ASSUME NEW c \in Clients, InWork(c), UNCHANGED clientVars, GoesOn(c)
  PROVE  InCall(c)' /\ View(c)' = View(c)
<1>1. /\ job' = job /\ stage' = stage /\ done' = done /\ buffer' = buffer /\ log' = log
      /\ call'[c] = call[c] /\ idx'[c] = idx[c] /\ result'[c] = result[c]
      /\ systemBar' = systemBar /\ dmaBar' = dmaBar
      /\ pc'[c] \notin {"idle", "done", "null"}
      /\ pc'[c] \in FirmwareLabels <=> pc[c] \in FirmwareLabels
  BY DEF clientVars, GoesOn, InWait
<1>2. InCall(c) /\ stage[c] = "working" /\ pc[c] # "done"
  BY WorkFacts DEF InWork
<1>3. InCall(c)'
  BY <1>1, <1>2 DEF InCall, Access, IsStruct
<1>4. (pc'[c] \in FirmwareLabels) = (pc[c] \in FirmwareLabels)
  BY <1>1
<1>5. View(c)' = State(log[c], done[c] + idx[c], buffer[c] \o result[c], pc'[c] \in FirmwareLabels,
                       systemBar[job[c].dev], dmaBar[job[c].dev])
  BY <1>1, <1>2 DEF View
<1>6. View(c) = State(log[c], done[c] + idx[c], buffer[c] \o result[c], pc[c] \in FirmwareLabels,
                      systemBar[job[c].dev], dmaBar[job[c].dev])
  BY <1>2 DEF View
<1> QED
  BY <1>3, <1>4, <1>5, <1>6, Zenon

LEMMA ViewGivesUp ==
  ASSUME NEW c \in Clients, InWork(c), UNCHANGED clientVars, ReturnsError(c)
  PROVE  /\ InCall(c)'
         /\ View(c)' = Over(View(c), TRUE, View(c).sys, View(c).dma)
<1> DEFINE a == Access(c)
           d == job[c].dev
<1>1. /\ job' = job /\ stage' = stage /\ done' = done /\ buffer' = buffer /\ log' = log
      /\ call'[c] = call[c] /\ idx'[c] = idx[c] /\ result'[c] = result[c]
      /\ systemBar' = systemBar /\ dmaBar' = dmaBar
      /\ pc'[c] = "done" /\ ret'[c] \in Int /\ ret'[c] < 0
  BY DEF clientVars, ReturnsError, InWait
<1>2. InCall(c) /\ stage[c] = "working" /\ pc[c] # "done"
  BY WorkFacts DEF InWork
<1>3. /\ IsStruct(c) => result[c] = <<>> /\ buffer[c] \o result[c] = buffer[c]
      /\ ~IsStruct(c) => result[c] \in Seq(Word) /\ buffer[c] \o result[c] = result[c]
      /\ a.nWords \in Nat
  BY StructFacts, PlainFacts
<1>4. Access(c)' = Access(c) /\ IsStruct(c)' = IsStruct(c)
  BY <1>1 DEF Access, IsStruct
<1>5. ret'[c] # sizeof_device_rw /\ ret'[c] # 4 * a.nWords
  <2>1. 4 * a.nWords >= 0
    BY <1>3
  <2> QED
    BY <1>1, <2>1 DEF sizeof_device_rw
<1>6. Answered(c)'
  <2>0. <<>> \in Seq(Word) /\ Len(<<>>) = 0
    OBVIOUS
  <2>1. IsStruct(c) => result[c] \in Seq(Word) /\ Len(result[c]) = 0
    BY <1>3, <2>0
  <2> QED
    BY <1>1, <1>3, <1>4, <1>5, <2>1 DEF Answered
<1>7. InCall(c)'
  BY <1>1, <1>2, <1>4, <1>6 DEF InCall
<1>8. View(c) = State(log[c], done[c] + idx[c], buffer[c] \o result[c], pc[c] \in FirmwareLabels,
                      systemBar[d], dmaBar[d])
  BY WorkFacts
<1>9. View(c)' = State(Append(log[c], Outcome(TRUE, buffer[c] \o result[c])), 0, <<>>, FALSE,
                       systemBar[d], dmaBar[d])
  <2>1. (pc'[c] \in FirmwareLabels) = FALSE
    BY <1>1 DEF FirmwareLabels
  <2>2. CASE IsStruct(c)
    <3>1. View(c)' = State(Append(log[c], Outcome(TRUE, buffer[c])), 0, <<>>,
                           pc'[c] \in FirmwareLabels, systemBar[d], dmaBar[d])
      BY <1>1, <1>2, <1>4, <1>5, <2>2 DEF View
    <3> QED
      BY <1>3, <2>1, <2>2, <3>1
  <2>3. CASE ~IsStruct(c)
    <3>1. View(c)' = State(Append(log[c], Outcome(ret'[c] # 4 * a.nWords, result[c])), 0, <<>>,
                           pc'[c] \in FirmwareLabels, systemBar[d], dmaBar[d])
      BY <1>1, <1>2, <1>4, <2>3 DEF View
    <3>2. (ret'[c] # 4 * a.nWords) = TRUE
      BY <1>5
    <3> QED
      BY <1>3, <2>1, <2>3, <3>1, <3>2
  <2> QED
    BY <2>2, <2>3
<1> QED
  BY <1>7, <1>8, <1>9 DEF Over, State

(* A step inside the driver is none of the job, or its next step. *)
Progress(c) ==
  \/ View(c)' = View(c)
  \/ Serial(job[c], View(c), View(c)')
  \/ Disturbable /\ Disturbed(job[c], View(c), View(c)')

Follows(c) == InCall(c)' /\ (FileOps(job[c].dev).rw # "none" => Progress(c))

LEMMA NextOfJob ==
  ASSUME NEW c \in Clients, InWork(c), NEW n,
         LET a == Access(c) IN
           ReadsWord(a, View(c), n) \/ StoresWord(a, View(c), n) \/ Reacts(a, View(c), n, FALSE)
           \/ Ends(a, View(c), n) \/ Throws(a, View(c), n)
  PROVE  Serial(job[c], View(c), n)
<1>1. View(c).log = log[c] /\ MoreToDo(job[c], log[c])
  BY WorkFacts, ViewFields
<1> QED
  BY <1>1 DEF Serial, Access

LEMMA NextIfDisturbed ==
  ASSUME NEW c \in Clients, InWork(c), NEW n,
         Reacts(Access(c), View(c), n, TRUE) \/ CutShort(Access(c), View(c), n)
  PROVE  Disturbed(job[c], View(c), n)
<1>1. View(c).log = log[c] /\ MoreToDo(job[c], log[c])
  BY WorkFacts, ViewFields
<1> QED
  BY <1>1 DEF Disturbed, Access

LEMMA UpFollows ==
  ASSUME NEW c \in Clients, InWork(c), UNCHANGED clientVars, ReturnsError(c),
         done[c] + idx[c] < Access(c).nWords,
         \/ Disturbable
         \/ pc[c] \notin FirmwareLabels /\ Refused(Access(c), done[c] + idx[c])
  PROVE  Follows(c)
<1> DEFINE a == Access(c)
           s == View(c)
           n == View(c)'
<1>1. InCall(c)' /\ n = Over(s, TRUE, s.sys, s.dma)
  BY ViewGivesUp
<1>2. s.k = done[c] + idx[c] /\ s.stored = (pc[c] \in FirmwareLabels)
  BY ViewFields
<1>3. CASE Disturbable
  <2>1. CutShort(a, s, n)
    BY <1>1, <1>2 DEF CutShort
  <2> QED
    BY <1>1, <1>3, <2>1, NextIfDisturbed DEF Follows, Progress
<1>4. CASE pc[c] \notin FirmwareLabels /\ Refused(Access(c), done[c] + idx[c])
  <2>1. Throws(a, s, n)
    BY <1>1, <1>2, <1>4 DEF Throws
  <2> QED
    BY <1>1, <2>1, NextOfJob DEF Follows, Progress
<1> QED
  BY <1>3, <1>4

(* A call that is not past its last word has one left. *)
LEMMA WordLeft ==
  ASSUME NEW c \in Clients, InWork(c), IsStruct(c) \/ pc[c] # "body" \/ idx[c] < WordsToTransfer(c)
  PROVE  done[c] + idx[c] < Access(c).nWords
<1>1. CASE IsStruct(c)
  BY <1>1, StructFacts
<1>2. CASE ~IsStruct(c)
  <2> DEFINE a == Access(c)
  <2>1. /\ a.nWords \in Nat /\ idx[c] \in Nat /\ done[c] + idx[c] = idx[c] /\ c \in Threads
        /\ call[c].op \in PlainOps
        /\ TransferAccepted(call[c].count, call[c].pos) =>
             \A k \in Nat : k < WordsToTransfer(c) => k < a.nWords
    BY <1>2, PlainFacts, WorkFacts DEF PlainOps
  <2>2. a.nWords > 0
    BY AccessFacts, WorkFacts DEF InWork
  <2>3. CASE pc[c] \notin DeviceLabels
    <3>1. idx[c] = 0
      BY <2>1, <2>3 DEF InWork, DeliveryInv, Advanced, PlainOps
    <3> QED
      BY <2>1, <2>2, <3>1
  <2>4. CASE pc[c] \in DeviceLabels
    <3>1. TransferAccepted(call[c].count, call[c].pos)
      BY <2>1, <2>4 DEF InWork, DeliveryInv, IInv, CallState, Checked
    <3>2. idx[c] < WordsToTransfer(c)
      <4>1. CASE pc[c] = "body"
        BY <1>2, <4>1
      <4>2. CASE pc[c] # "body"
        BY <2>1, <2>4, <4>2 DEF InWork, DeliveryInv, IInv, CallState, Checked, AtLabel, DeviceLabels,
                                FirmwareLabels, PlainOps
      <4> QED
        BY <4>1, <4>2
    <3> QED
      BY <2>1, <3>1, <3>2
  <2> QED
    BY <2>3, <2>4
<1> QED
  BY <1>1, <1>2

(* Why a call gives up. *)
LEMMA GivingUpFollows ==
  ASSUME NEW c \in Clients, InWork(c), UNCHANGED clientVars,
         \/ GateInterrupted(c) \/ DeviceInterrupted(c) \/ FirmwareInterrupted(c)
         \/ NullOperation(c) \/ mtcaDummy_write_rejected(c) \/ ReadWordFails(c)
         \/ PassGate(c) /\ control[GateFlag(call[c].op)]
         \/ CheckTransfer(c) /\ ~TransferAccepted(call[c].count, call[c].pos)
  PROVE  Follows(c)
<1> DEFINE a == Access(c)
           k == done[c] + idx[c]
<1>1. IInv /\ c \in Threads /\ InCall(c) /\ AtLabel(c)
  BY WorkFacts DEF InWork, DeliveryInv, IInv, CallState
<1>2. call[c].op \in StructOps \cup PlainOps
  BY StructFacts, PlainFacts DEF StructOps, PlainOps
<1>3. ReturnsError(c)
  BY <1>1, <1>2, GivingUp
<1>4. CASE GateInterrupted(c) \/ DeviceInterrupted(c) \/ FirmwareInterrupted(c)
  <2>1. Disturbable /\ pc[c] # "body"
    BY <1>4 DEF GateInterrupted, DeviceInterrupted, FirmwareInterrupted, Interrupted, Disturbable
  <2> QED
    BY <1>3, <2>1, WordLeft, UpFollows
<1>5. CASE NullOperation(c)
  <2>1. FileOps(job[c].dev).rw = "none"
    BY <1>1, <1>5 DEF NullOperation, InCall
  <2> QED
    BY <1>3, <2>1, ViewGivesUp DEF Follows
<1>6. CASE mtcaDummy_write_rejected(c)
  <2>1. pc[c] = "body" /\ call[c].op = "write" /\ (~StructWriteOk(call[c]) \/ TRUE \in Faults)
    BY <1>6 DEF mtcaDummy_write_rejected
  <2>2. IsStruct(c)
    BY <2>1, PlainFacts
  <2>3. pc[c] \notin FirmwareLabels
    BY <2>1 DEF FirmwareLabels
  <2>4. ~StructWriteOk(call[c]) => ~RegisterAccessible(a.bar, WordOffset(a, k))
    <3>1. /\ call[c].count = sizeof_device_rw /\ call[c].mode = RW_D32 /\ k = done[c]
          /\ call[c].bar = a.bar /\ call[c].offset = WordOffset(a, done[c])
      BY <2>2, StructFacts
    <3> QED
      BY <3>1 DEF StructWriteOk, sizeof_device_rw
  <2>5. Disturbable \/ Refused(a, k)
    BY <2>1, <2>4 DEF Refused, Disturbable
  <2> QED
    BY <1>3, <2>2, <2>3, <2>5, WordLeft, UpFollows
<1>7. CASE ReadWordFails(c)
  <2>1. /\ pc[c] = "body" /\ call[c].op = "pread" /\ idx[c] < WordsToTransfer(c)
        /\ mtcadummy_performPreReadAction(CurOffset(c), CurBar(c)) \/ TRUE \in Faults
    BY <1>7 DEF ReadWordFails
  <2>2. ~IsStruct(c)
    BY <2>1, StructFacts
  <2>3. pc[c] \notin FirmwareLabels
    BY <2>1 DEF FirmwareLabels
  <2>4. CurOffset(c) = WordOffset(a, k) /\ CurBar(c) = a.bar /\ a.op = "read"
    BY <2>1, <2>2, PlainFacts
  <2>5. Disturbable \/ Refused(a, k)
    BY <2>1, <2>4 DEF Refused, Disturbable
  <2> QED
    BY <1>3, <2>1, <2>3, <2>5, WordLeft, UpFollows
<1>8. CASE PassGate(c) /\ control[GateFlag(call[c].op)]
  <2>1. pc[c] # "body"
    BY <1>8 DEF PassGate
  <2>2. GateFlag(call[c].op) \in Options
    BY <1>2 DEF GateFlag, Options, StructOps, PlainOps
  <2>3. Disturbable
    BY <1>8, <2>2 DEF InWork, OtherState, Disturbable
  <2> QED
    BY <1>3, <2>1, <2>3, WordLeft, UpFollows
<1>9. CASE CheckTransfer(c) /\ ~TransferAccepted(call[c].count, call[c].pos)
  <2>1. pc[c] = "check" /\ call[c].op \in PlainOps
    BY <1>1, <1>9 DEF CheckTransfer, AtLabel
  <2>2. ~IsStruct(c)
    BY <2>1, StructFacts DEF PlainOps
  <2>3. pc[c] \notin DeviceLabels /\ pc[c] \notin FirmwareLabels
    BY <2>1 DEF DeviceLabels, FirmwareLabels
  <2>4. idx[c] = 0
    BY <1>1, <2>1, <2>3 DEF InWork, DeliveryInv, Advanced, PlainOps
  <2>5. ~RegisterAccessible(a.bar, a.offset) /\ k = idx[c]
    BY <1>9, <2>2, PlainFacts
  <2>6. a.offset \in Nat
    BY AccessFacts, WorkFacts DEF InWork
  <2>7. WordOffset(a, k) = a.offset
    BY <2>4, <2>5, <2>6 DEF WordOffset
  <2>8. Refused(a, k)
    BY <2>5, <2>7 DEF Refused
  <2> QED
    BY <1>3, <2>1, <2>3, <2>8, WordLeft, UpFollows
<1> QED
  BY <1>4, <1>5, <1>6, <1>7, <1>8, <1>9

(* What is left of a job after a step of its call. *)
LEMMA ViewAfter ==
  ASSUME NEW c \in Clients, InWork(c), UNCHANGED clientVars
  PROVE  LET d == job[c].dev
             n == Access(c).nWords
             s(l, k, got, stored) == State(l, k, got, stored, systemBar'[d], dmaBar'[d])
             over(threw, got) == s(Append(log[c], Outcome(threw, got)), 0, <<>>, FALSE)
         IN  /\ pc'[c] \in FirmwareLabels =>
                  View(c)' = s(log[c], done[c] + idx'[c], buffer[c] \o result'[c], TRUE)
             /\ pc'[c] # "done" /\ pc'[c] \notin FirmwareLabels =>
                  View(c)' = s(log[c], done[c] + idx'[c], buffer[c] \o result'[c], FALSE)
             /\ pc'[c] = "done" /\ IsStruct(c) /\ ret'[c] = sizeof_device_rw =>
                  View(c)' = s(log[c], done[c] + 1, buffer[c] \o result'[c], FALSE)
             /\ pc'[c] = "done" /\ IsStruct(c) /\ ret'[c] # sizeof_device_rw =>
                  View(c)' = over(TRUE, buffer[c])
             /\ pc'[c] = "done" /\ ~IsStruct(c) /\ ret'[c] = 4 * n =>
                  View(c)' = over(FALSE, result'[c])
             /\ pc'[c] = "done" /\ ~IsStruct(c) /\ ret'[c] # 4 * n =>
                  View(c)' = over(TRUE, result'[c])
<1> DEFINE d == job[c].dev
           n == Access(c).nWords
           s(l, k, got, stored) == State(l, k, got, stored, systemBar'[d], dmaBar'[d])
           over(threw, got) == s(Append(log[c], Outcome(threw, got)), 0, <<>>, FALSE)
<1>1. /\ job' = job /\ stage'[c] = "working" /\ done' = done /\ buffer' = buffer /\ log' = log
      /\ Access(c)' = Access(c) /\ IsStruct(c)' = IsStruct(c)
  BY DEF clientVars, InWork, Access, IsStruct
<1>2. "done" \notin FirmwareLabels
  BY DEF FirmwareLabels
<1>3. ASSUME NEW b \in BOOLEAN, b = (pc'[c] \in FirmwareLabels), pc'[c] # "done"
      PROVE  View(c)' = s(log[c], done[c] + idx'[c], buffer[c] \o result'[c], b)
  BY <1>1, <1>3 DEF View
<1>4. CASE pc'[c] \in FirmwareLabels
  BY <1>2, <1>3, <1>4
<1>5. CASE pc'[c] # "done" /\ pc'[c] \notin FirmwareLabels
  <2>1. FALSE = (pc'[c] \in FirmwareLabels)
    BY <1>5
  <2>2. View(c)' = s(log[c], done[c] + idx'[c], buffer[c] \o result'[c], FALSE)
    BY <1>3, <1>5, <2>1
  <2> QED
    BY <1>5, <2>2
<1>6. CASE pc'[c] = "done"
  <2>1. (pc'[c] \in FirmwareLabels) = FALSE
    BY <1>2, <1>6
  <2>2. CASE IsStruct(c) /\ ret'[c] = sizeof_device_rw
    <3>1. View(c)' = s(log[c], done[c] + 1, buffer[c] \o result'[c], pc'[c] \in FirmwareLabels)
      BY <1>1, <1>6, <2>2 DEF View
    <3> QED
      BY <1>2, <1>6, <2>1, <2>2, <3>1
  <2>3. CASE IsStruct(c) /\ ret'[c] # sizeof_device_rw
    <3>1. View(c)' = s(Append(log[c], Outcome(TRUE, buffer[c])), 0, <<>>, pc'[c] \in FirmwareLabels)
      BY <1>1, <1>6, <2>3 DEF View
    <3> QED
      BY <1>2, <1>6, <2>1, <2>3, <3>1
  <2>4. ASSUME ~IsStruct(c), NEW b \in BOOLEAN, b = (ret'[c] # 4 * n)
        PROVE  View(c)' = over(b, result'[c])
    <3>1. View(c)' = s(Append(log[c], Outcome(b, result'[c])), 0, <<>>, pc'[c] \in FirmwareLabels)
      BY <1>1, <1>6, <2>4 DEF View
    <3> QED
      BY <2>1, <3>1
  <2>5. CASE ~IsStruct(c)
    BY <1>2, <1>6, <2>4, <2>5
  <2> QED
    BY <2>2, <2>3, <2>5
<1> QED
  BY <1>4, <1>5, <1>6

(* A register that can be accessed is a word of its bar. *)
LEMMA AccessibleWord ==
  ASSUME TypeOK, NEW d \in Devices, NEW bar, NEW o \in Nat, RegisterAccessible(bar, o)
  PROVE  /\ bar \in {0, 2} /\ o \div 4 \in DOMAIN BarContent(d, bar)
         /\ BarContent(d, bar)[o \div 4] \in Word
         /\ bar = 0 => BarContent(d, bar) = systemBar[d]
         /\ bar # 0 => BarContent(d, bar) = dmaBar[d]
<1>1. systemBar[d] \in SystemBar /\ dmaBar[d] \in DmaBar
  BY DEF TypeOK
<1>2. bar \in {0, 2} /\ o < BarSize(bar)
  BY DEF RegisterAccessible
<1>3. MTCADUMMY_DMA_SIZE \in Nat /\ MTCADUMMY_DMA_SIZE % 4 = 0
  BY HeaderAssumption
<1>4. CASE bar = 0
  <2>1. o \div 4 \in 0 .. 31
    BY <1>2, <1>4 DEF BarSize, MTCADUMMY_N_REGISTERS
  <2>2. BarContent(d, bar) = systemBar[d]
    BY <1>4 DEF BarContent
  <2>3. systemBar[d] \in [0 .. 31 -> Word]
    BY <1>1 DEF SystemBar, MTCADUMMY_N_REGISTERS
  <2> QED
    BY <1>4, <2>1, <2>2, <2>3
<1>5. CASE bar = 2
  <2>1. o \div 4 \in 0 .. (MTCADUMMY_DMA_SIZE \div 4) - 1
    BY <1>2, <1>3, <1>5 DEF BarSize
  <2>2. BarContent(d, bar) = dmaBar[d]
    BY <1>5 DEF BarContent
  <2>3. dmaBar[d] \in [0 .. (MTCADUMMY_DMA_SIZE \div 4) - 1 -> Word]
    BY <1>1 DEF DmaBar
  <2> DEFINE i == o \div 4
             D == 0 .. (MTCADUMMY_DMA_SIZE \div 4) - 1
  <2>4. i \in D /\ dmaBar[d] \in [D -> Word]
    BY <2>1, <2>3
  <2> HIDE DEF i, D
  <2>5. i \in DOMAIN dmaBar[d] /\ dmaBar[d][i] \in Word
    BY <2>4
  <2> QED
    BY <1>5, <2>2, <2>5 DEF i
<1> QED
  BY <1>2, <1>4, <1>5

-----------------------------------------------------------------------------
LEMMA WordRead ==
  ASSUME NEW d, NEW c, c.count = sizeof_device_rw, c.mode = RW_D32
  PROVE  LET out == StructRead(d, c) IN
           IF ~RegisterAccessible(c.bar, c.offset) THEN out.ret = EFAULT /\ out.data = <<>>
           ELSE IF mtcadummy_performPreReadAction(c.offset, c.bar) THEN out.ret = EIO /\ out.data = <<>>
           ELSE /\ out.ret = sizeof_device_rw
                /\ out.data = << BarContent(d, c.bar)[c.offset \div 4] >>
<1>1. c.count = 24 /\ c.mode = 2
  BY DEF sizeof_device_rw, RW_D32
<1> USE DEF sizeof_device_rw, RW_D32, RW_INFO, RW_DMA
<1>2. CASE ~RegisterAccessible(c.bar, c.offset)
  BY <1>1, <1>2 DEF StructRead
<1>3. CASE RegisterAccessible(c.bar, c.offset) /\ mtcadummy_performPreReadAction(c.offset, c.bar)
  BY <1>1, <1>3 DEF StructRead
<1>4. CASE RegisterAccessible(c.bar, c.offset) /\ ~mtcadummy_performPreReadAction(c.offset, c.bar)
  BY <1>1, <1>4 DEF StructRead
<1> QED
  BY <1>2, <1>3, <1>4

(* The steps that move a word: mtcaDummy_read, *)
LEMMA StructReadFollows ==
  ASSUME NEW c \in Clients, InWork(c), UNCHANGED clientVars, mtcaDummy_read(c)
  PROVE  Follows(c)
<1> DEFINE a == Access(c)
           d == job[c].dev
           o == WordOffset(a, done[c])
           s == View(c)
           word == BarContent(d, a.bar)[o \div 4]
<1>1. PICK fault \in Faults :
        LET out == IF fault THEN [ret |-> EFAULT, data |-> <<>>] ELSE StructRead(Dev(c), call[c])
        IN  Finish(c, out.ret) /\ result' = [result EXCEPT ![c] = out.data]
  BY DEF mtcaDummy_read
<1>2. /\ pc[c] = "body" /\ call[c].op = "read"
      /\ UNCHANGED <<systemBar, dmaBar, file, call, idx>>
  BY DEF mtcaDummy_read, bars
<1>3. IsStruct(c)
  BY <1>2, PlainFacts
<1>4. /\ a.op = "read" /\ Dev(c) = d /\ call[c].count = sizeof_device_rw /\ call[c].mode = RW_D32
      /\ call[c].bar = a.bar /\ call[c].offset = o
      /\ done[c] < a.nWords /\ a.nWords \in Nat /\ idx[c] = 0 /\ result[c] = <<>>
      /\ buffer[c] \o result[c] = buffer[c] /\ done[c] + idx[c] = done[c]
  BY <1>2, <1>3, StructFacts
<1>5. /\ c \in Threads /\ InCall(c) /\ d \in Devices /\ buffer[c] \in Seq(Word) /\ TypeOK
      /\ DOMAIN result = Threads
      /\ pc \in [Threads -> Labels] /\ ret \in [Threads -> Int] /\ done[c] \in Nat
  BY WorkFacts DEF InWork, DeliveryInv, IInv, TypeOK
<1>6. a.offset \in Nat /\ o \in Nat
  <2>1. a.offset \in Nat
    BY AccessFacts, WorkFacts DEF InWork
  <2> QED
    BY <1>5, <2>1 DEF WordOffset
<1>7. pc[c] \notin FirmwareLabels
  BY <1>2 DEF FirmwareLabels
<1>8. ASSUME NEW r \in {EFAULT, EIO}, Finish(c, r), result' = [result EXCEPT ![c] = <<>>],
             Disturbable \/ Refused(a, done[c])
      PROVE  Follows(c)
  <2>1. pc'[c] = "done" /\ ret'[c] = r /\ result'[c] = <<>>
    BY <1>5, <1>8 DEF Finish, Return, Goto
  <2>2. ReturnsError(c)
    BY <1>2, <1>4, <1>8, <2>1 DEF ReturnsError, InWait, EFAULT, EIO
  <2> QED
    BY <1>4, <1>7, <1>8, <2>2, UpFollows
<1>9. CASE fault
  <2>1. Disturbable
    BY <1>9, DriverAssumption DEF Disturbable
  <2>2. Finish(c, EFAULT) /\ result' = [result EXCEPT ![c] = <<>>]
    BY <1>1, <1>9
  <2> QED
    BY <1>8, <2>1, <2>2
<1>10. CASE ~fault
  <2> DEFINE out == StructRead(d, call[c])
  <2>1. Finish(c, out.ret) /\ result' = [result EXCEPT ![c] = out.data]
    BY <1>1, <1>4, <1>10
  <2>2. IF ~RegisterAccessible(a.bar, o) THEN out.ret = EFAULT /\ out.data = <<>>
        ELSE IF mtcadummy_performPreReadAction(o, a.bar) THEN out.ret = EIO /\ out.data = <<>>
        ELSE out.ret = sizeof_device_rw /\ out.data = <<word>>
    BY <1>4, WordRead
  <2> HIDE DEF out
  <2>3. CASE ~RegisterAccessible(a.bar, o)
    <3>1. Finish(c, EFAULT) /\ result' = [result EXCEPT ![c] = <<>>]
      BY <2>1, <2>2, <2>3
    <3> QED
      BY <1>8, <2>3, <3>1 DEF Refused
  <2>4. CASE RegisterAccessible(a.bar, o) /\ mtcadummy_performPreReadAction(o, a.bar)
    <3>1. Finish(c, EIO) /\ result' = [result EXCEPT ![c] = <<>>]
      BY <2>1, <2>2, <2>4
    <3> QED
      BY <1>4, <1>8, <2>4, <3>1 DEF Refused
  <2>5. CASE RegisterAccessible(a.bar, o) /\ ~mtcadummy_performPreReadAction(o, a.bar)
    <3>1. Finish(c, sizeof_device_rw) /\ result' = [result EXCEPT ![c] = <<word>>]
      BY <2>1, <2>2, <2>5
    <3>2. pc'[c] = "done" /\ ret'[c] = sizeof_device_rw /\ result'[c] = <<word>>
      BY <1>5, <3>1 DEF Finish, Return, Goto
    <3>3. word \in Word /\ word = IF a.bar = 0 THEN systemBar[d][o \div 4] ELSE dmaBar[d][o \div 4]
      BY <1>5, <1>6, <2>5, AccessibleWord
    <3>4. View(c)' = State(log[c], done[c] + 1, buffer[c] \o <<word>>, FALSE, systemBar[d], dmaBar[d])
      BY <1>2, <1>3, <3>2, ViewAfter
    <3>5. /\ s.log = log[c] /\ s.k = done[c] /\ s.got = buffer[c] /\ ~s.stored
          /\ s.sys = systemBar[d] /\ s.dma = dmaBar[d]
      BY <1>4, <1>7, ViewFields
    <3>6. Append(buffer[c], word) = buffer[c] \o <<word>>
      BY <1>5, <3>3, AppendIsConcat
    <3>7. ~Refused(a, s.k) /\ s.k < a.nWords
      BY <1>4, <2>5, <3>5 DEF Refused
    <3>8. ReadsWord(a, s, View(c)')
      BY <1>4, <3>3, <3>4, <3>5, <3>6, <3>7 DEF ReadsWord
    <3>9. InCall(c)'
      <4>1. <<word>> \in Seq(Word) /\ Len(<<word>>) = 1
        BY <3>3
      <4>2. Access(c)' = a /\ IsStruct(c)' /\ job' = job /\ log' = log /\ done' = done
        BY <1>3 DEF clientVars, Access, IsStruct
      <4>3. Answered(c)'
        BY <1>4, <3>2, <4>1, <4>2 DEF Answered
      <4> QED
        BY <1>2, <1>3, <1>4, <1>5, <3>2, <4>2, <4>3 DEF InCall
    <3> QED
      BY <3>8, <3>9, NextOfJob DEF Follows, Progress
  <2> QED
    BY <2>3, <2>4, <2>5
<1> QED
  BY <1>9, <1>10

(* the store of a word, *)
LEMMA StoreMeans ==
  ASSUME TypeOK, NEW d \in Devices, NEW bar, NEW o, NEW word, Store(d, bar, o, word)
  PROVE  /\ bar = 0 => /\ systemBar'[d] = [systemBar[d] EXCEPT ![o \div 4] = word]
                       /\ dmaBar'[d] = dmaBar[d]
         /\ bar # 0 => /\ dmaBar'[d] = [dmaBar[d] EXCEPT ![o \div 4] = word]
                       /\ systemBar'[d] = systemBar[d]
<1>1. DOMAIN systemBar = Devices /\ DOMAIN dmaBar = Devices
  BY DEF TypeOK
<1> DEFINE i == o \div 4
<1>2. /\ bar = 0 => systemBar' = [systemBar EXCEPT ![d][i] = word] /\ dmaBar' = dmaBar
      /\ bar # 0 => dmaBar' = [dmaBar EXCEPT ![d][i] = word] /\ systemBar' = systemBar
  BY DEF Store
<1> HIDE DEF i
<1>3. /\ bar = 0 => systemBar'[d] = [systemBar[d] EXCEPT ![i] = word] /\ dmaBar'[d] = dmaBar[d]
      /\ bar # 0 => dmaBar'[d] = [dmaBar[d] EXCEPT ![i] = word] /\ systemBar'[d] = systemBar[d]
  BY <1>1, <1>2
<1> QED
  BY <1>3 DEF i

LEMMA StoreFollows ==
  ASSUME NEW c \in Clients, InWork(c), UNCHANGED clientVars, pc[c] = "body",
         call'[c] = call[c], result'[c] = result[c], Access(c).op = "write",
         done[c] + idx[c] < Access(c).nWords,
         RegisterAccessible(Access(c).bar, WordOffset(Access(c), done[c] + idx[c])),
         Store(job[c].dev, Access(c).bar, WordOffset(Access(c), done[c] + idx[c]),
               Words(Access(c), log[c])[done[c] + idx[c] + 1]),
         \/ Access(c).bar = 0 /\ pc'[c] = "fw" /\ idx'[c] = idx[c]
         \/ /\ Access(c).bar # 0 /\ IsStruct(c) /\ pc'[c] = "done" /\ idx'[c] = idx[c]
            /\ ret'[c] = sizeof_device_rw
         \/ Access(c).bar # 0 /\ ~IsStruct(c) /\ pc'[c] = "body" /\ idx'[c] = idx[c] + 1
  PROVE  Follows(c)
<1> DEFINE a == Access(c)
           d == job[c].dev
           k == done[c] + idx[c]
           w == WordOffset(a, k) \div 4
           word == Words(a, log[c])[k + 1]
           got == buffer[c] \o result[c]
           s == View(c)
<1>1. /\ c \in Threads /\ InCall(c) /\ d \in Devices /\ buffer[c] \in Seq(Word) /\ TypeOK
      /\ done[c] \in Nat /\ idx[c] \in Nat
  BY WorkFacts DEF InWork, DeliveryInv, IInv
<1>2. /\ IsStruct(c) => idx[c] = 0 /\ result[c] = <<>>
      /\ ~IsStruct(c) => done[c] = 0 /\ result[c] \in Seq(Word)
      /\ a.nWords \in Nat
  BY StructFacts, PlainFacts
<1>3. /\ a.bar = 0 => systemBar'[d] = [systemBar[d] EXCEPT ![w] = word] /\ dmaBar'[d] = dmaBar[d]
      /\ a.bar # 0 => dmaBar'[d] = [dmaBar[d] EXCEPT ![w] = word] /\ systemBar'[d] = systemBar[d]
  BY <1>1, StoreMeans
<1>4. ~(pc[c] \in FirmwareLabels) /\ "fw" \in FirmwareLabels /\ "body" \notin FirmwareLabels
  BY DEF FirmwareLabels
<1>5. /\ s.log = log[c] /\ s.k = k /\ s.got = got /\ ~s.stored
      /\ s.sys = systemBar[d] /\ s.dma = dmaBar[d]
  BY <1>4, ViewFields
<1>6. ~Refused(a, s.k) /\ s.k < a.nWords
  BY <1>5 DEF Refused
<1>7. View(c)' = IF a.bar = 0
                   THEN State(log[c], k, got, TRUE, [systemBar[d] EXCEPT ![w] = word], dmaBar[d])
                   ELSE State(log[c], k + 1, got, FALSE, systemBar[d], [dmaBar[d] EXCEPT ![w] = word])
  <2>1. CASE a.bar = 0
    <3>1. View(c)' = State(log[c], k, got, TRUE, systemBar'[d], dmaBar'[d])
      BY <1>4, <2>1, ViewAfter
    <3> QED
      BY <1>3, <2>1, <3>1
  <2>2. CASE a.bar # 0
    <3>1. CASE IsStruct(c)
      <4>1. View(c)' = State(log[c], done[c] + 1, got, FALSE, systemBar'[d], dmaBar'[d])
        BY <2>2, <3>1, ViewAfter
      <4>2. done[c] + 1 = k + 1
        BY <1>1, <1>2, <3>1
      <4> QED
        BY <1>3, <2>2, <4>1, <4>2
    <3>2. CASE ~IsStruct(c)
      <4>1. View(c)' = State(log[c], done[c] + idx'[c], got, FALSE, systemBar'[d], dmaBar'[d])
        BY <1>4, <2>2, <3>2, ViewAfter
      <4>2. done[c] + idx'[c] = k + 1
        BY <1>1, <1>2, <2>2, <3>2
      <4> QED
        BY <1>3, <2>2, <4>1, <4>2
    <3> QED
      BY <3>1, <3>2
  <2> QED
    BY <2>1, <2>2
<1>8. StoresWord(a, s, View(c)')
  <2> HIDE DEF a, k, w, word, got, s, d
  <2>1. w = WordOffset(a, s.k) \div 4 /\ word = Words(a, s.log)[s.k + 1] /\ a.op = "write"
    BY <1>5 DEF w, word, a
  <2> QED
    BY <1>5, <1>6, <1>7, <2>1 DEF StoresWord
<1>9. InCall(c)'
  <2>1. /\ Access(c)' = a /\ IsStruct(c)' = IsStruct(c) /\ job' = job /\ log' = log /\ done' = done
    BY DEF clientVars, Access, IsStruct
  <2>2. pc'[c] = "done" => Answered(c)'
    <3> SUFFICES ASSUME pc'[c] = "done" PROVE Answered(c)'
      OBVIOUS
    <3>1. IsStruct(c) /\ result'[c] = <<>>
      BY <1>2
    <3>2. <<>> \in Seq(Word) /\ Len(<<>>) = 0
      OBVIOUS
    <3> QED
      BY <2>1, <3>1, <3>2 DEF Answered
  <2>3. ~IsStruct(c) => idx'[c] <= a.nWords
    BY <1>1, <1>2
  <2>4. IsStruct(c) => idx'[c] = 0
    BY <1>2
  <2>5. pc'[c] # "null"
    OBVIOUS
  <2> QED
    BY <1>1, <2>1, <2>2, <2>3, <2>4, <2>5 DEF InCall
<1> QED
  BY <1>8, <1>9, NextOfJob DEF Follows, Progress

LEMMA StructWriteFollows ==
  ASSUME NEW c \in Clients, InWork(c), UNCHANGED clientVars, mtcaDummy_write(c)
  PROVE  Follows(c)
<1> DEFINE a == Access(c)
<1>1. /\ pc[c] = "body" /\ call[c].op = "write" /\ StructWriteOk(call[c])
      /\ Store(Dev(c), CurBar(c), CurOffset(c), CurData(c))
      /\ UNCHANGED <<call, idx, result>>
  BY DEF mtcaDummy_write
<1>2. IsStruct(c)
  BY <1>1, PlainFacts
<1>3. /\ a.op = "write" /\ Dev(c) = job[c].dev
      /\ call[c].bar = a.bar /\ call[c].offset = WordOffset(a, done[c])
      /\ call[c].data = Words(a, log[c])[done[c] + 1]
      /\ done[c] < a.nWords /\ done[c] + idx[c] = done[c]
  BY <1>1, <1>2, StructFacts
<1>4. /\ CurBar(c) = a.bar /\ CurOffset(c) = WordOffset(a, done[c])
      /\ CurData(c) = Words(a, log[c])[done[c] + 1]
  BY <1>1, <1>3 DEF CurBar, CurOffset, CurData
<1>5. RegisterAccessible(a.bar, WordOffset(a, done[c]))
  BY <1>1, <1>3 DEF StructWriteOk
<1>6. IF a.bar = 0 THEN pc'[c] = "fw" ELSE pc'[c] = "done" /\ ret'[c] = sizeof_device_rw
  <2>1. c \in Threads /\ pc \in [Threads -> Labels] /\ ret \in [Threads -> Int]
    BY WorkFacts DEF InWork, DeliveryInv, IInv, TypeOK
  <2> QED
    BY <1>4, <2>1 DEF mtcaDummy_write, Finish, Return, Goto
<1> QED
  BY <1>1, <1>2, <1>3, <1>4, <1>5, <1>6, StoreFollows

LEMMA WriteWordFollows ==
  ASSUME NEW c \in Clients, InWork(c), UNCHANGED clientVars, WriteWord(c)
  PROVE  Follows(c)
<1> DEFINE a == Access(c)
<1>1. /\ pc[c] = "body" /\ call[c].op = "pwrite" /\ idx[c] < WordsToTransfer(c)
      /\ Store(Dev(c), CurBar(c), CurOffset(c), CurData(c))
      /\ UNCHANGED <<call, result>>
  BY DEF WriteWord
<1>2. ~IsStruct(c)
  BY <1>1, StructFacts
<1>3. c \in Threads /\ idx[c] \in Nat /\ pc \in [Threads -> Labels] /\ idx \in [Threads -> Nat]
  BY WorkFacts DEF InWork, DeliveryInv, IInv, TypeOK
<1>4. TransferAccepted(call[c].count, call[c].pos)
  BY <1>1, <1>3 DEF InWork, DeliveryInv, IInv, CallState, Checked, DeviceLabels, PlainOps
<1>5. idx[c] < a.nWords /\ RegisterAccessible(a.bar, WordOffset(a, idx[c]))
  BY <1>1, <1>2, <1>3, <1>4, PlainFacts
<1>6. /\ a.op = "write" /\ Dev(c) = job[c].dev /\ CurBar(c) = a.bar
      /\ CurOffset(c) = WordOffset(a, idx[c]) /\ CurData(c) = Words(a, log[c])[idx[c] + 1]
      /\ done[c] + idx[c] = idx[c]
  BY <1>1, <1>2, <1>5, PlainFacts
<1>7. IF a.bar = 0 THEN pc'[c] = "fw" /\ idx'[c] = idx[c]
                   ELSE pc'[c] = "body" /\ idx'[c] = idx[c] + 1
  BY <1>1, <1>3, <1>6 DEF WriteWord, Goto
<1> QED
  BY <1>1, <1>2, <1>5, <1>6, <1>7, StoreFollows

(* the word of an area read, *)
LEMMA ReadWordFollows ==
  ASSUME NEW c \in Clients, InWork(c), UNCHANGED clientVars, ReadWord(c)
  PROVE  Follows(c)
<1> DEFINE a == Access(c)
           d == job[c].dev
           i == idx[c]
           o == WordOffset(a, i)
           word == BarContent(d, a.bar)[o \div 4]
           s == View(c)
<1>1. /\ pc[c] = "body" /\ call[c].op = "pread" /\ i < WordsToTransfer(c)
      /\ ~mtcadummy_performPreReadAction(CurOffset(c), CurBar(c))
      /\ result' = [result EXCEPT ![c] =
                      Append(@, BarContent(Dev(c), CurBar(c))[CurOffset(c) \div 4])]
      /\ idx' = [idx EXCEPT ![c] = @ + 1]
      /\ UNCHANGED <<call, pc, systemBar, dmaBar>>
  BY DEF ReadWord, bars
<1>2. ~IsStruct(c)
  BY <1>1, StructFacts
<1>3. /\ c \in Threads /\ i \in Nat /\ idx \in [Threads -> Nat] /\ DOMAIN result = Threads
      /\ TypeOK /\ d \in Devices /\ InCall(c)
  BY WorkFacts DEF InWork, DeliveryInv, IInv, TypeOK
<1>4. TransferAccepted(call[c].count, call[c].pos)
  BY <1>1, <1>3 DEF InWork, DeliveryInv, IInv, CallState, Checked, DeviceLabels, PlainOps
<1>5. i < a.nWords /\ RegisterAccessible(a.bar, o) /\ a.nWords \in Nat
  BY <1>1, <1>2, <1>3, <1>4, PlainFacts
<1>6. /\ a.op = "read" /\ Dev(c) = d /\ CurBar(c) = a.bar /\ CurOffset(c) = o
      /\ done[c] = 0 /\ done[c] + idx[c] = i /\ buffer[c] = <<>> /\ result[c] \in Seq(Word)
      /\ buffer[c] \o result[c] = result[c]
  BY <1>1, <1>2, PlainFacts
<1>7. o \in Nat
  <2>1. a.offset \in Nat
    BY AccessFacts, WorkFacts DEF InWork
  <2> QED
    BY <1>3, <2>1 DEF WordOffset
<1>8. word \in Word /\ word = IF a.bar = 0 THEN systemBar[d][o \div 4] ELSE dmaBar[d][o \div 4]
  BY <1>3, <1>5, <1>7, AccessibleWord
<1>9. result'[c] = Append(result[c], word) /\ idx'[c] = i + 1
  BY <1>1, <1>3, <1>6
<1>10. Append(result[c], word) \in Seq(Word)
  BY <1>6, <1>8, AppendProperties
<1>11. buffer[c] \o result'[c] = Append(result[c], word) /\ done[c] + idx'[c] = i + 1
  <2>1. \A q \in Seq(Word) : <<>> \o q = q
    OBVIOUS
  <2> QED
    BY <1>3, <1>6, <1>9, <1>10, <2>1
<1>12. ~(pc[c] \in FirmwareLabels) /\ pc'[c] = "body" /\ "body" \notin FirmwareLabels
  BY <1>1 DEF FirmwareLabels
<1>13. View(c)' = State(log[c], i + 1, Append(result[c], word), FALSE, systemBar[d], dmaBar[d])
  BY <1>1, <1>11, <1>12, ViewAfter
<1>14. /\ s.log = log[c] /\ s.k = i /\ s.got = result[c] /\ ~s.stored
       /\ s.sys = systemBar[d] /\ s.dma = dmaBar[d]
  BY <1>6, <1>12, ViewFields
<1>15. ~Refused(a, s.k) /\ s.k < a.nWords
  BY <1>1, <1>5, <1>6, <1>14 DEF Refused
<1>16. ReadsWord(a, s, View(c)')
  <2> HIDE DEF a, d, i, s
  <2> QED BY <1>6, <1>8, <1>13, <1>14, <1>15 DEF ReadsWord
<1>17. InCall(c)'
  <2>1. /\ Access(c)' = a /\ ~IsStruct(c)' /\ job' = job /\ log' = log
    BY <1>2 DEF clientVars, Access, IsStruct
  <2>2. idx'[c] <= a.nWords
    BY <1>3, <1>5, <1>9
  <2> QED
    BY <1>1, <1>2, <1>3, <1>12, <2>1, <2>2 DEF InCall
<1> QED
  BY <1>16, <1>17, NextOfJob DEF Follows, Progress

(* a word that user memory cuts off, *)
LEMMA WriteFaultFollows ==
  ASSUME NEW c \in Clients, InWork(c), UNCHANGED clientVars, WriteWordFaults(c)
  PROVE  Follows(c)
<1> DEFINE a == Access(c)
           d == job[c].dev
           i == idx[c]
           o == WordOffset(a, i)
           w == o \div 4
           word == Words(a, log[c])[i + 1]
           s == View(c)
<1>1. /\ pc[c] = "body" /\ call[c].op = "pwrite" /\ i < WordsToTransfer(c) /\ TRUE \in Faults
      /\ Finish(c, EFAULT) /\ UNCHANGED <<call, idx, result>>
  BY DEF WriteWordFaults
<1>2. ~IsStruct(c)
  BY <1>1, StructFacts
<1>3. /\ c \in Threads /\ i \in Nat /\ pc \in [Threads -> Labels] /\ ret \in [Threads -> Int]
      /\ TypeOK /\ d \in Devices /\ InCall(c)
  BY WorkFacts DEF InWork, DeliveryInv, IInv, TypeOK
<1>4. TransferAccepted(call[c].count, call[c].pos)
  BY <1>1, <1>3 DEF InWork, DeliveryInv, IInv, CallState, Checked, DeviceLabels, PlainOps
<1>5. i < a.nWords /\ RegisterAccessible(a.bar, o) /\ a.nWords \in Nat
  BY <1>1, <1>2, <1>3, <1>4, PlainFacts
<1>6. /\ a.op = "write" /\ Dev(c) = d /\ CurBar(c) = a.bar /\ CurOffset(c) = o /\ CurData(c) = word
      /\ done[c] + idx[c] = i /\ result[c] \in Seq(Word) /\ buffer[c] \o result[c] = result[c]
  BY <1>1, <1>2, <1>5, PlainFacts
<1>7. PICK m \in PartialCopies : Store(d, a.bar, o, word % m)
  BY <1>6 DEF WriteWordFaults
<1> DEFINE v == word % m
<1>8. /\ a.bar = 0 => systemBar'[d] = [systemBar[d] EXCEPT ![w] = v] /\ dmaBar'[d] = dmaBar[d]
      /\ a.bar # 0 => dmaBar'[d] = [dmaBar[d] EXCEPT ![w] = v] /\ systemBar'[d] = systemBar[d]
  BY <1>3, <1>7, StoreMeans
<1>9. pc'[c] = "done" /\ ret'[c] = EFAULT /\ result'[c] = result[c]
  BY <1>1, <1>3 DEF Finish, Return, Goto
<1>10. ret'[c] # 4 * a.nWords
  BY <1>5, <1>9 DEF EFAULT
<1>11. View(c)' = State(Append(log[c], Outcome(TRUE, result[c])), 0, <<>>, FALSE, systemBar'[d], dmaBar'[d])
  BY <1>2, <1>9, <1>10, ViewAfter
<1>12. pc[c] \notin FirmwareLabels
  BY <1>1 DEF FirmwareLabels
<1>13. /\ s.log = log[c] /\ s.k = i /\ s.got = result[c] /\ ~s.stored
       /\ s.sys = systemBar[d] /\ s.dma = dmaBar[d]
  BY <1>6, <1>12, ViewFields
<1>14. ~Refused(a, s.k) /\ s.k < a.nWords
  BY <1>5, <1>6, <1>13 DEF Refused
<1>15. v \in CutValues(word)
  BY DEF PartialCopies, CutValues
<1>16. View(c)' = IF a.bar = 0 THEN Over(s, TRUE, [s.sys EXCEPT ![w] = v], s.dma)
                               ELSE Over(s, TRUE, s.sys, [s.dma EXCEPT ![w] = v])
  <2> HIDE DEF s, v, w, d, a
  <2> QED BY <1>8, <1>11, <1>13 DEF Over
<1>17. CutShort(a, s, View(c)')
  <2>1. w = WordOffset(a, s.k) \div 4 /\ word = Words(a, s.log)[s.k + 1]
    BY <1>13
  <2> HIDE DEF s, v, w, d, a, word
  <2> QED BY <1>6, <1>13, <1>14, <1>15, <1>16, <2>1 DEF CutShort
<1>18. InCall(c)'
  <2>1. /\ Access(c)' = a /\ ~IsStruct(c)' /\ job' = job /\ log' = log
    BY <1>2 DEF clientVars, Access, IsStruct
  <2>2. Answered(c)'
    BY <1>6, <1>9, <1>10, <2>1 DEF Answered
  <2> QED
    BY <1>1, <1>2, <1>3, <1>9, <2>1, <2>2 DEF InCall
<1> QED
  BY <1>1, <1>17, <1>18, NextIfDisturbed DEF Follows, Progress, Disturbable

(* the end of an area, *)
LEMMA TransferDoneFollows ==
  ASSUME NEW c \in Clients, InWork(c), UNCHANGED clientVars, TransferDone(c)
  PROVE  Follows(c)
<1> DEFINE a == Access(c)
           d == job[c].dev
           i == idx[c]
           s == View(c)
<1>1. /\ pc[c] = "body" /\ call[c].op \in PlainOps /\ i = WordsToTransfer(c)
      /\ Finish(c, nBytesToTransfer(call[c].count, call[c].pos))
      /\ UNCHANGED <<call, idx, result, systemBar, dmaBar>>
  BY DEF TransferDone, bars
<1>2. ~IsStruct(c)
  BY <1>1, StructFacts DEF PlainOps
<1>3. /\ c \in Threads /\ i \in Nat /\ pc \in [Threads -> Labels] /\ ret \in [Threads -> Int] /\ InCall(c)
      /\ Delivered(c)
  BY WorkFacts DEF InWork, DeliveryInv, IInv, TypeOK
<1>4. TransferAccepted(call[c].count, call[c].pos)
  BY <1>1, <1>3 DEF InWork, DeliveryInv, IInv, CallState, Checked, DeviceLabels
<1>5. /\ nBytesToTransfer(call[c].count, call[c].pos) = 4 * i /\ i <= a.nWords /\ a.nWords \in Nat
      /\ i < a.nWords => ~RegisterAccessible(a.bar, WordOffset(a, i))
  <2> DEFINE W == WordsToTransfer(c)
  <2>1. /\ W \in Nat /\ nBytesToTransfer(call[c].count, call[c].pos) = 4 * W /\ W <= a.nWords
        /\ a.nWords \in Nat
        /\ \A k \in Nat : k < W <=> k < a.nWords /\ RegisterAccessible(a.bar, WordOffset(a, k))
    BY <1>2, <1>4, PlainFacts
  <2>2. i = W
    BY <1>1
  <2> HIDE DEF W
  <2> QED
    BY <2>1, <2>2
<1>6. /\ done[c] + idx[c] = i /\ result[c] \in Seq(Word) /\ buffer[c] \o result[c] = result[c]
      /\ a.op = "read" => call[c].op = "pread"
  BY <1>2, PlainFacts
<1>7. pc'[c] = "done" /\ ret'[c] = 4 * i /\ result'[c] = result[c]
  BY <1>1, <1>3, <1>5 DEF Finish, Return, Goto
<1>8. pc[c] \notin FirmwareLabels
  BY <1>1 DEF FirmwareLabels
<1>9. /\ s.log = log[c] /\ s.k = i /\ s.got = result[c] /\ ~s.stored
      /\ s.sys = systemBar[d] /\ s.dma = dmaBar[d]
  BY <1>6, <1>8, ViewFields
<1>10. CASE i = a.nWords
  <2>1. View(c)' = State(Append(log[c], Outcome(FALSE, result[c])), 0, <<>>, FALSE, systemBar[d], dmaBar[d])
    BY <1>1, <1>2, <1>7, <1>10, ViewAfter
  <2>2. Ends(a, s, View(c)')
    <3> HIDE DEF s
    <3> QED BY <1>9, <1>10, <2>1 DEF Ends, Over
  <2>3. a.op = "read" => Len(result[c]) = a.nWords
    BY <1>1, <1>3, <1>6, <1>10 DEF Delivered
  <2>4. /\ Access(c)' = a /\ ~IsStruct(c)' /\ job' = job /\ log' = log
    BY <1>2 DEF clientVars, Access, IsStruct
  <2>5. Answered(c)'
    BY <1>6, <1>7, <2>3, <2>4 DEF Answered
  <2>6. InCall(c)'
    BY <1>1, <1>2, <1>3, <1>7, <2>4, <2>5 DEF InCall
  <2> QED
    BY <2>2, <2>6, NextOfJob DEF Follows, Progress
<1>11. CASE i < a.nWords
  <2>1. ret'[c] # 4 * a.nWords
    BY <1>3, <1>5, <1>7, <1>11
  <2>2. View(c)' = State(Append(log[c], Outcome(TRUE, result[c])), 0, <<>>, FALSE, systemBar[d], dmaBar[d])
    BY <1>1, <1>2, <1>7, <2>1, ViewAfter
  <2>3. Refused(a, s.k) /\ s.k < a.nWords
    BY <1>5, <1>9, <1>11 DEF Refused
  <2>4. Throws(a, s, View(c)')
    <3> HIDE DEF s
    <3> QED BY <1>9, <2>2, <2>3 DEF Throws, Over
  <2>5. /\ Access(c)' = a /\ ~IsStruct(c)' /\ job' = job /\ log' = log
    BY <1>2 DEF clientVars, Access, IsStruct
  <2>6. Answered(c)'
    BY <1>6, <1>7, <2>1, <2>5 DEF Answered
  <2>7. InCall(c)'
    BY <1>1, <1>2, <1>3, <1>7, <2>5, <2>6 DEF InCall
  <2> QED
    BY <2>4, <2>7, NextOfJob DEF Follows, Progress
<1> QED
  BY <1>3, <1>5, <1>10, <1>11

(* and the reaction of the firmware. *)
LEMMA FirmwareFollows ==
  ASSUME NEW c \in Clients, InWork(c), UNCHANGED clientVars, FirmwareAction(c)
  PROVE  Follows(c)
<1> DEFINE a == Access(c)
           d == job[c].dev
           k == done[c] + idx[c]
           o == WordOffset(a, k)
           got == buffer[c] \o result[c]
           b == spiFail[c]
           sys == mtcadummy_performActionOnWrite(systemBar[d], o, b)
           dma == SampledDma(systemBar[d], dmaBar[d], o)
           s == View(c)
<1>1. /\ c \in Threads /\ InCall(c) /\ d \in Devices /\ buffer[c] \in Seq(Word) /\ TypeOK
      /\ done[c] \in Nat /\ idx[c] \in Nat /\ AtLabel(c) /\ Delivered(c)
      /\ pc \in [Threads -> Labels] /\ ret \in [Threads -> Int] /\ idx \in [Threads -> Nat]
      /\ b \in BOOLEAN
  BY WorkFacts DEF InWork, DeliveryInv, IInv, TypeOK, CallState
<1>2. pc[c] = "fwAct" /\ UNCHANGED <<call, result>>
  BY DEF FirmwareAction
<1>3. pc[c] \in FirmwareLabels /\ "body" \notin FirmwareLabels /\ "done" \notin FirmwareLabels
  BY <1>2 DEF FirmwareLabels
<1>4. call[c].op \in {"write", "pwrite"}
  BY <1>1, <1>3 DEF AtLabel
<1>5. result[c] = <<>>
  BY <1>1, <1>2 DEF Delivered
<1>6. /\ IsStruct(c) => /\ call[c].op = "write" /\ idx[c] = 0 /\ Dev(c) = d /\ call[c].offset = o
                        /\ a.op = "write" /\ buffer[c] \o result[c] = buffer[c]
      /\ ~IsStruct(c) => /\ call[c].op = "pwrite" /\ done[c] = 0 /\ Dev(c) = d /\ CurOffset(c) = o
                         /\ a.op = "write" /\ buffer[c] \o result[c] = result[c]
      /\ a.nWords \in Nat
  <2>1. CASE IsStruct(c)
    <3>1. /\ call[c].op = a.op /\ a.op \in {"read", "write"} /\ Dev(c) = d
          /\ call[c].offset = WordOffset(a, done[c]) /\ idx[c] = 0 /\ done[c] + idx[c] = done[c]
          /\ buffer[c] \o result[c] = buffer[c] /\ a.nWords \in Nat
      BY <2>1, StructFacts
    <3> QED
      BY <1>4, <2>1, <3>1
  <2>2. CASE ~IsStruct(c)
    <3>1. /\ call[c].op = IF a.op = "read" THEN "pread" ELSE "pwrite"
          /\ a.op \in {"read", "write"} /\ Dev(c) = d /\ CurOffset(c) = WordOffset(a, idx[c])
          /\ done[c] = 0 /\ done[c] + idx[c] = idx[c]
          /\ buffer[c] \o result[c] = result[c] /\ a.nWords \in Nat
      BY <2>2, PlainFacts
    <3> QED
      BY <1>4, <2>2, <3>1
  <2> QED
    BY <2>1, <2>2
<1>7. Dev(c) = d /\ CurOffset(c) = o
  BY <1>6 DEF CurOffset
<1>8. systemBar'[d] = sys /\ dmaBar'[d] = dma
  <2>1. DOMAIN systemBar = Devices /\ DOMAIN dmaBar = Devices
    BY <1>1 DEF TypeOK
  <2> QED
    BY <1>1, <1>7, <2>1 DEF FirmwareAction
<1>9. k < a.nWords
  BY <1>2, WordLeft
<1>10. /\ s.log = log[c] /\ s.k = k /\ s.got = got /\ s.stored
       /\ s.sys = systemBar[d] /\ s.dma = dmaBar[d]
  BY <1>3, ViewFields
<1>11. CASE WriteActionFails(o)
  <2>1. pc'[c] = "done" /\ ret'[c] = EIO /\ idx' = idx
    BY <1>1, <1>7, <1>11 DEF FirmwareAction, Finish, Return, Goto
  <2>2. ret'[c] # sizeof_device_rw /\ ret'[c] # 4 * a.nWords
    BY <1>6, <2>1 DEF EIO, sizeof_device_rw
  <2>3. View(c)' = State(Append(log[c], Outcome(TRUE, got)), 0, <<>>, FALSE, sys, dma)
    <3>1. CASE IsStruct(c)
      BY <1>6, <1>8, <2>1, <2>2, <3>1, ViewAfter
    <3>2. CASE ~IsStruct(c)
      <4>1. result'[c] = got
        BY <1>2, <1>6, <3>2
      <4> QED
        BY <1>8, <2>1, <2>2, <3>2, <4>1, ViewAfter
    <3> QED
      BY <3>1, <3>2
  <2>4. Reacts(a, s, View(c)', b)
    <3>1. /\ sys = mtcadummy_performActionOnWrite(s.sys, WordOffset(a, s.k), b)
          /\ dma = SampledDma(s.sys, s.dma, WordOffset(a, s.k)) /\ WriteActionFails(WordOffset(a, s.k))
      BY <1>10, <1>11
    <3> HIDE DEF s, sys, dma, a
    <3> QED BY <1>10, <2>3, <3>1 DEF Reacts, Over
  <2>5. Access(c)' = a /\ IsStruct(c)' = IsStruct(c) /\ job' = job /\ log' = log /\ done' = done
    BY DEF clientVars, Access, IsStruct
  <2>6. Answered(c)'
    <3>1. <<>> \in Seq(Word) /\ Len(<<>>) = 0 /\ result'[c] = <<>>
      BY <1>2, <1>5
    <3> QED
      BY <2>2, <2>5, <3>1 DEF Answered
  <2>7. InCall(c)'
    BY <1>1, <1>2, <2>1, <2>5, <2>6 DEF InCall
  <2> QED
    BY <2>4, <2>7, <1>1, NextOfJob, NextIfDisturbed DEF Follows, Progress, InWork, OtherState, Disturbable
<1>12. CASE ~WriteActionFails(o)
  <2>1. IF IsStruct(c) THEN pc'[c] = "done" /\ ret'[c] = sizeof_device_rw /\ idx' = idx
                       ELSE pc'[c] = "body" /\ idx'[c] = idx[c] + 1
    BY <1>1, <1>6, <1>7, <1>12 DEF FirmwareAction, Finish, Return, Goto
  <2>2. View(c)' = State(log[c], k + 1, got, FALSE, sys, dma)
    <3>1. CASE IsStruct(c)
      <4>1. View(c)' = State(log[c], done[c] + 1, got, FALSE, sys, dma)
        BY <1>2, <1>8, <2>1, <3>1, ViewAfter
      <4>2. done[c] + 1 = k + 1
        BY <1>1, <1>6, <3>1
      <4> QED
        BY <4>1, <4>2
    <3>2. CASE ~IsStruct(c)
      <4>1. View(c)' = State(log[c], done[c] + idx'[c], got, FALSE, sys, dma)
        BY <1>2, <1>3, <1>8, <2>1, <3>2, ViewAfter
      <4>2. done[c] + idx'[c] = k + 1
        BY <1>1, <1>6, <2>1, <3>2
      <4> QED
        BY <4>1, <4>2
    <3> QED
      BY <3>1, <3>2
  <2>3. Reacts(a, s, View(c)', b)
    <3>1. /\ sys = mtcadummy_performActionOnWrite(s.sys, WordOffset(a, s.k), b)
          /\ dma = SampledDma(s.sys, s.dma, WordOffset(a, s.k)) /\ ~WriteActionFails(WordOffset(a, s.k))
      BY <1>10, <1>12
    <3> HIDE DEF s, sys, dma, a
    <3> QED BY <1>10, <2>2, <3>1 DEF Reacts
  <2>4. Access(c)' = a /\ IsStruct(c)' = IsStruct(c) /\ job' = job /\ log' = log /\ done' = done
    BY DEF clientVars, Access, IsStruct
  <2>5. pc'[c] = "done" => Answered(c)'
    <3>1. <<>> \in Seq(Word) /\ Len(<<>>) = 0 /\ result'[c] = <<>>
      BY <1>2, <1>5
    <3>2. pc'[c] = "done" => IsStruct(c)
      BY <2>1
    <3> QED
      BY <1>6, <2>4, <3>1, <3>2 DEF Answered
  <2>6. ~IsStruct(c) => idx'[c] <= a.nWords
    BY <1>1, <1>6, <1>9, <2>1
  <2>7. InCall(c)'
    BY <1>1, <1>2, <1>6, <2>1, <2>4, <2>5, <2>6 DEF InCall
  <2> QED
    BY <2>3, <2>7, <1>1, NextOfJob, NextIfDisturbed DEF Follows, Progress, InWork, OtherState, Disturbable
<1> QED
  BY <1>11, <1>12

(* So every step of a working client inside the driver is a step of its    *)
(* job or no step of it.                                                   *)
LEMMA DriverFollows ==
  ASSUME NEW c \in Clients, InWork(c), UNCHANGED clientVars, DriverStep(c)
  PROVE  Follows(c)
<1>1. IInv /\ c \in Threads /\ pc[c] # "idle"
  BY WorkFacts DEF InWork, DeliveryInv
<1>2. call[c].op \in StructOps \cup PlainOps /\ (call[c].op = "read" => call[c].mode = RW_D32)
  BY StructFacts, PlainFacts DEF StructOps, PlainOps
<1>3. ASSUME GoesOn(c) PROVE Follows(c)
  BY <1>3, ViewGoesOn DEF Follows, Progress
<1>4. CASE LockControl(c) \/ LockDevice(c) \/ SampleSpiError(c)
  BY <1>1, <1>2, <1>3, <1>4, GoingOn
<1>5. CASE GateInterrupted(c) \/ DeviceInterrupted(c) \/ FirmwareInterrupted(c)
           \/ NullOperation(c) \/ mtcaDummy_write_rejected(c) \/ ReadWordFails(c)
  BY <1>5, GivingUpFollows
<1>6. CASE PassGate(c)
  <2>1. CASE control[GateFlag(call[c].op)]
    BY <1>6, <2>1, GivingUpFollows
  <2>2. CASE ~control[GateFlag(call[c].op)]
    BY <1>1, <1>2, <1>3, <1>6, <2>2, GoingOn
  <2> QED
    BY <2>1, <2>2
<1>7. CASE CheckTransfer(c)
  <2>1. CASE TransferAccepted(call[c].count, call[c].pos)
    BY <1>1, <1>2, <1>3, <1>7, <2>1, GoingOn
  <2>2. CASE ~TransferAccepted(call[c].count, call[c].pos)
    BY <1>7, <2>2, GivingUpFollows
  <2> QED
    BY <2>1, <2>2
<1>8. CASE mtcaDummy_read(c) \/ mtcaDummy_write(c) \/ ReadWord(c) \/ WriteWord(c)
           \/ WriteWordFaults(c) \/ TransferDone(c) \/ FirmwareAction(c)
  BY <1>8, StructReadFollows, StructWriteFollows, ReadWordFollows, WriteWordFollows,
     WriteFaultFollows, TransferDoneFollows, FirmwareFollows
<1> QED
  BY <1>1, <1>2, <1>4, <1>5, <1>6, <1>7, <1>8, DataActions

-----------------------------------------------------------------------------
(* The other two calls of a client: it opens its file, *)
LEMMA OpenFollows ==
  ASSUME DeliveryInv, ClientType, NEW c \in Clients, ClientState(c), stage[c] = "opening",
         pc[c] # "done", UNCHANGED clientVars, DriverStep(c)
  PROVE  Placed(c)'
<1> DEFINE d == job[c].dev
<1>1. /\ c \in Threads /\ IInv /\ AtLabel(c) /\ AtFile(c) /\ pc \in [Threads -> Labels]
      /\ ret \in [Threads -> Int] /\ file \in [Threads -> Devices \cup {NoFile}]
  BY JobFacts DEF ClientType, DeliveryInv, IInv, TypeOK, CallState
<1>2. pc[c] # "idle" /\ call[c] = OpenCall(d)
  BY DEF ClientState, Placed
<1>3. call[c].op = "open" /\ call[c].dev = d
  BY <1>2 DEF OpenCall
<1>4. file[c] = NoFile
  BY <1>1, <1>2, <1>3 DEF AtFile
<1>5. pc[c] \in {"gate", "gateLocked", "install", "null"}
  BY <1>1, <1>2, <1>3 DEF AtLabel, Labels, StructOps, PlainOps, FirmwareLabels
<1>6. LockControl(c) \/ GateInterrupted(c) \/ PassGate(c) \/ Install(c) \/ NullOperation(c)
  BY <1>5 DEF DriverStep, Step, Signal, LockDevice, DeviceInterrupted, FirmwareInterrupted,
              ProcWriteInterrupted, Exit, Release, mtcaDummy_read,
              mtcaDummy_write_rejected, mtcaDummy_write, CheckTransfer, ReadWord, ReadWordFails,
              WriteWord, WriteWordFaults, TransferDone, SampleSpiError, FirmwareAction,
              IoctlCheck, mtcaDummy_ioctl, ProcWriteCopy, SetControl, SeqShow, PrintSystemBar,
              PrintDmaBar, SeqStop, CopyDmaWord, CopyDmaEnds, InDmaCopy
<1>7. /\ call' = call /\ pc'[c] # "idle"
      /\ pc'[c] = "done" => file'[c] = IF ret'[c] < 0 THEN NoFile ELSE d
  <2> USE DEF Goto, Return, locals
  <2>1. CASE LockControl(c)
    BY <1>1, <1>5, <2>1 DEF LockControl, AfterLock
  <2>2. CASE GateInterrupted(c)
    BY <1>1, <1>4, <2>2 DEF GateInterrupted, ERESTARTSYS
  <2>3. CASE PassGate(c)
    BY <1>1, <1>3, <1>4, <2>3 DEF PassGate, GateError, EINVAL
  <2>4. CASE Install(c)
    BY <1>1, <1>3, <2>4 DEF Install
  <2>5. CASE NullOperation(c)
    BY <1>1, <1>3, <2>5 DEF NullOperation
  <2> QED
    BY <1>6, <2>1, <2>2, <2>3, <2>4, <2>5
<1> QED
  BY <1>2, <1>7 DEF Placed, clientVars

(* and closes it. *)
LEMMA CloseFollows ==
  ASSUME DeliveryInv, ClientType, NEW c \in Clients, ClientState(c), stage[c] = "closing",
         pc[c] # "done", UNCHANGED clientVars, DriverStep(c)
  PROVE  Placed(c)'
<1>1. /\ c \in Threads /\ IInv /\ AtLabel(c) /\ AtFile(c) /\ pc \in [Threads -> Labels]
      /\ file \in [Threads -> Devices \cup {NoFile}]
  BY JobFacts DEF ClientType, DeliveryInv, IInv, TypeOK, CallState
<1>2. pc[c] # "idle" /\ call[c] = CloseCall
  BY DEF ClientState, Placed
<1>3. call[c].op = "release"
  BY <1>2 DEF CloseCall
<1>4. pc[c] \in {"release", "null"}
  BY <1>1, <1>2, <1>3 DEF AtLabel, Labels, GatedOps, StructOps, PlainOps, FirmwareLabels
<1>5. Release(c) \/ NullOperation(c)
  BY <1>4 DEF DriverStep, Step, Signal, LockControl, AfterLock, LockDevice, GateInterrupted,
              DeviceInterrupted, FirmwareInterrupted, ProcWriteInterrupted, Exit, PassGate,
              Install, mtcaDummy_read,
              mtcaDummy_write_rejected, mtcaDummy_write, CheckTransfer, ReadWord, ReadWordFails,
              WriteWord, WriteWordFaults, TransferDone, SampleSpiError, FirmwareAction,
              IoctlCheck, mtcaDummy_ioctl, ProcWriteCopy, SetControl, SeqShow, PrintSystemBar,
              PrintDmaBar, SeqStop, CopyDmaWord, CopyDmaEnds, InDmaCopy
<1>6. call' = call /\ pc'[c] = "done" /\ file'[c] = NoFile
  BY <1>1, <1>3, <1>5 DEF Release, NullOperation, Goto, Return
<1> QED
  BY <1>2, <1>6 DEF Placed, clientVars
-----------------------------------------------------------------------------
(* Clients make system calls of the driver. *)
LEMMA ClientMoves ==
  ASSUME ClientType, NEW c \in Clients, ClientState(c), ClientStep(c)
  PROVE  ThreadStep(c) \/ UNCHANGED vars
<1>1. OpenCall(job[c].dev) \in Calls /\ CloseCall \in Calls
  BY JobFacts DEF ClientType
<1>2. CASE Construct(c) \/ Destruct(c)
  BY <1>1, <1>2 DEF Construct, Destruct, ThreadStep
<1>3. CASE CallForWord(c)
  <2>1. /\ MoreToDo(job[c], log[c]) /\ IsStruct(c) /\ done[c] < Access(c).nWords
        /\ Enter(c, StructCall(Access(c), done[c], Words(Access(c), log[c])))
    BY <1>3 DEF CallForWord, Working
  <2>2. Access(c).nWords \in Nat /\ done[c] \in Nat
    BY <2>1, AccessFacts DEF ClientType
  <2>3. done[c] \in 0 .. Access(c).nWords - 1
    BY <2>1, <2>2
  <2>4. StructCall(Access(c), done[c], Words(Access(c), log[c])) \in Calls
    BY <2>1, <2>3, KnownCalls DEF ClientState
  <2> QED
    BY <2>1, <2>4 DEF ThreadStep
<1>4. CASE CallForArea(c)
  <2>1. /\ MoreToDo(job[c], log[c]) /\ ~IsStruct(c)
        /\ Enter(c, NormalCall(Access(c), Words(Access(c), log[c])))
    BY <1>4 DEF CallForArea, Working
  <2>2. NormalCall(Access(c), Words(Access(c), log[c])) \in Calls
    BY <2>1, KnownCalls DEF ClientState
  <2> QED
    BY <2>1, <2>2 DEF ThreadStep
<1>5. CASE OpenReturns(c) \/ WordReturns(c) \/ AreaReturns(c) \/ CloseReturns(c)
  BY <1>5 DEF OpenReturns, WordReturns, AreaReturns, CloseReturns, ThreadStep, Step
<1>6. CASE LoopEnds(c) \/ BarTooLarge(c)
  BY <1>6 DEF LoopEnds, BarTooLarge, vars
<1> QED
  BY <1>2, <1>3, <1>4, <1>5, <1>6 DEF ClientStep

(* A step of the clients and the others, by who makes it. *)
LEMMA WhoMoves ==
  ASSUME ClientsInv, ClientsNext
  PROVE  \/ \E c \in Clients : ClientStep(c) /\ (ThreadStep(c) \/ UNCHANGED vars)
         \/ \E c \in Clients : DriverStep(c) /\ ThreadStep(c) /\ UNCHANGED clientVars
         \/ \E t \in Threads \ Clients : OtherStep(t) /\ ThreadStep(t)
<1>1. ASSUME NEW c \in Clients, ClientStep(c)
      PROVE  ThreadStep(c) \/ UNCHANGED vars
  BY <1>1, ClientMoves DEF ClientsInv
<1>2. ASSUME NEW c \in Clients, Advance(c) \/ Lock(c) \/ (Signal(c) /\ UNCHANGED clientVars)
      PROVE  DriverStep(c) /\ ThreadStep(c) /\ UNCHANGED clientVars
  BY <1>2 DEF Advance, Lock, DriverStep, ThreadStep
<1>3. ASSUME NEW t \in Threads \ Clients, OtherStep(t)
      PROVE  ThreadStep(t)
  BY <1>3, ClientsAssumption DEF OtherStep, ThreadStep
<1> QED
  BY <1>1, <1>2, <1>3 DEF ClientsNext

LEMMA NextMoves ==
  ASSUME ClientsInv, [ClientsNext]_allVars
  PROVE  [Next]_vars
<1>1. CASE UNCHANGED allVars
  BY <1>1 DEF allVars
<1>2. CASE ClientsNext
  <2>1. Clients \subseteq Threads
    BY ClientsAssumption
  <2> QED
    BY <1>2, <2>1, WhoMoves DEF Next
<1> QED
  BY <1>1, <1>2

-----------------------------------------------------------------------------
(* What a client is in is its own. *)
SameClient(c) ==
  /\ job' = job /\ stage'[c] = stage[c] /\ done'[c] = done[c] /\ buffer'[c] = buffer[c]
  /\ log'[c] = log[c]

SameCall(c) ==
  /\ pc'[c] = pc[c] /\ call'[c] = call[c] /\ file'[c] = file[c] /\ idx'[c] = idx[c]
  /\ result'[c] = result[c] /\ ret'[c] = ret[c]

LEMMA ClientFrame ==
  ASSUME NEW c \in Clients, ClientState(c), SameClient(c), SameCall(c)
  PROVE  ClientState(c)'
<1>1. Access(c)' = Access(c) /\ IsStruct(c)' = IsStruct(c)
  BY DEF SameClient, Access, IsStruct
<1>2. Recorded(c)' /\ Looping(c)'
  BY <1>1 DEF ClientState, SameClient, Recorded, Looping
<1>3. Answered(c) => Answered(c)'
  BY <1>1 DEF SameCall, Answered
<1>4. InCall(c) => InCall(c)'
  BY <1>1, <1>3 DEF SameCall, SameClient, InCall
<1>5. Placed(c)'
  BY <1>4 DEF ClientState, SameClient, SameCall, Placed
<1> QED
  BY <1>2, <1>5 DEF ClientState

LEMMA ViewFrame ==
  ASSUME NEW c \in Clients, SameClient(c), SameCall(c),
         systemBar'[job[c].dev] = systemBar[job[c].dev], dmaBar'[job[c].dev] = dmaBar[job[c].dev]
  PROVE  View(c)' = View(c)
<1>1. Access(c)' = Access(c) /\ IsStruct(c)' = IsStruct(c)
  BY DEF SameClient, Access, IsStruct
<1> QED
  BY <1>1 DEF SameClient, SameCall, View

(* The outcome of an access is recorded. *)
LEMMA Recording ==
  ASSUME ClientType, NEW c \in Clients, Recorded(c), MoreToDo(job[c], log[c]),
         NEW threw \in BOOLEAN, NEW words \in Seq(Word), job' = job,
         Access(c).op = "read" /\ ~threw => Len(words) = Access(c).nWords,
         Complete(c, threw, words)
  PROVE  /\ Recorded(c)'
         /\ log' \in [Clients -> Seq(Outcomes)] /\ done' \in [Clients -> Nat]
         /\ buffer' \in [Clients -> Seq(Word)]
         /\ log'[c] = Append(log[c], Outcome(threw, words)) /\ done'[c] = 0 /\ buffer'[c] = <<>>
         /\ Looping(c)'
<1> DEFINE o == Outcome(threw, words)
<1>1. o \in Outcomes /\ o.threw = threw /\ o.data = words
  BY DEF Outcomes, Outcome
<1>2. log \in [Clients -> Seq(Outcomes)] /\ done \in [Clients -> Nat] /\ buffer \in [Clients -> Seq(Word)]
  BY DEF ClientType
<1>3. /\ log' = [log EXCEPT ![c] = Append(log[c], o)]
      /\ done' = [done EXCEPT ![c] = 0] /\ buffer' = [buffer EXCEPT ![c] = <<>>]
  BY DEF Complete
<1> HIDE DEF o
<1>4. /\ Append(log[c], o) \in Seq(Outcomes) /\ Len(Append(log[c], o)) = Len(log[c]) + 1
      /\ \A n \in 1 .. Len(log[c]) : Append(log[c], o)[n] = log[c][n]
      /\ Append(log[c], o)[Len(log[c]) + 1] = o
  BY <1>1, <1>2, AppendProperties
<1>5. <<>> \in Seq(Word) /\ Len(<<>>) = 0
  OBVIOUS
<1>6. /\ log' \in [Clients -> Seq(Outcomes)] /\ log'[c] = Append(log[c], o)
      /\ done' \in [Clients -> Nat] /\ done'[c] = 0
      /\ buffer' \in [Clients -> Seq(Word)] /\ buffer'[c] = <<>>
  BY <1>2, <1>3, <1>4, <1>5
<1>7. Len(log[c]) \in Nat /\ Len(job[c].accesses) \in Nat /\ Len(log[c]) < Len(job[c].accesses)
  BY AccessFacts, JobFacts DEF MoreToDo, ClientType, IsJob
<1>8. Recorded(c)'
  <2>1. Len(log'[c]) <= Len(job[c].accesses)
    BY <1>4, <1>6, <1>7
  <2>2. ASSUME NEW n \in 1 .. Len(log'[c]), ~log'[c][n].threw, job[c].accesses[n].op = "read"
        PROVE  Len(log'[c][n].data) = job[c].accesses[n].nWords
    <3>1. CASE n \in 1 .. Len(log[c])
      BY <1>4, <1>6, <2>2, <3>1 DEF Recorded
    <3>2. CASE n = Len(log[c]) + 1
      BY <1>1, <1>4, <1>6, <2>2, <3>2 DEF Access
    <3> QED
      BY <1>4, <1>6, <1>7, <3>1, <3>2
  <2> QED
    BY <2>1, <2>2 DEF Recorded
<1>9. Looping(c)'
  BY <1>5, <1>6 DEF Looping
<1> QED
  BY <1>6, <1>8, <1>9 DEF o

-----------------------------------------------------------------------------
(* How far a job has come, before and after a step that leaves the         *)
(* firmware alone.                                                         *)
LEMMA ViewNow ==
  ASSUME NEW c \in Clients, pc[c] \notin FirmwareLabels
  PROVE  LET s(l, k, got) ==
               State(l, k, got, FALSE, systemBar[job[c].dev], dmaBar[job[c].dev])
             over(threw, got) == s(Append(log[c], Outcome(threw, got)), 0, <<>>)
         IN  /\ stage[c] # "working" => View(c) = s(log[c], 0, <<>>)
             /\ stage[c] = "working" /\ pc[c] # "done" =>
                  View(c) = s(log[c], done[c] + idx[c], buffer[c] \o result[c])
             /\ stage[c] = "working" /\ pc[c] = "done" /\ IsStruct(c) =>
                  View(c) = IF ret[c] # sizeof_device_rw THEN over(TRUE, buffer[c])
                            ELSE s(log[c], done[c] + 1, buffer[c] \o result[c])
             /\ stage[c] = "working" /\ pc[c] = "done" /\ ~IsStruct(c) =>
                  View(c) = over(ret[c] # 4 * Access(c).nWords, result[c])
<1>1. (pc[c] \in FirmwareLabels) = FALSE
  OBVIOUS
<1> QED
  BY <1>1 DEF View

LEMMA ViewThen ==
  ASSUME NEW c \in Clients, job' = job, pc'[c] \notin {"done"} \cup FirmwareLabels
  PROVE  LET s(l, k, got) ==
               State(l, k, got, FALSE, systemBar'[job[c].dev], dmaBar'[job[c].dev])
         IN  /\ stage'[c] # "working" => View(c)' = s(log'[c], 0, <<>>)
             /\ stage'[c] = "working" =>
                  View(c)' = s(log'[c], done'[c] + idx'[c], buffer'[c] \o result'[c])
<1>1. (pc'[c] \in FirmwareLabels) = FALSE
  OBVIOUS
<1> QED
  BY <1>1 DEF View

(* Entering the driver and leaving it. *)
LEMMA Idle ==
  ASSUME DeliveryInv, NEW t \in Threads, pc[t] = "idle"
  PROVE  idx[t] = 0 /\ result[t] = <<>> /\ pc[t] \notin {"done"} \cup FirmwareLabels
<1>1. Advanced(t) /\ Delivered(t)
  BY DEF DeliveryInv
<1>2. call[t].op # "dump"
  BY <1>1, NoCallFacts DEF Advanced
<1> QED
  BY <1>1, <1>2 DEF Advanced, Delivered, DeviceLabels, FirmwareLabels

LEMMA Entering ==
  ASSUME TypeOK, NEW t \in Threads, NEW x, Enter(t, x), x.op \in GatedOps \cup {"release"}
  PROVE  /\ pc'[t] \notin {"idle", "done"} \cup FirmwareLabels
         /\ pc'[t] = "null" /\ x.op \in StructOps \cup PlainOps => FileOps(file[t]).rw = "none"
         /\ call'[t] = x /\ file' = file /\ idx' = idx /\ result' = result /\ ret' = ret
         /\ systemBar' = systemBar /\ dmaBar' = dmaBar
<1>1. pc'[t] = Entry(x, IF x.op = "open" THEN x.dev ELSE file[t]) /\ call'[t] = x
  BY DEF TypeOK, Enter, Goto
<1>2. pc'[t] \in {"null", "gate", "release"}
  BY <1>1 DEF Entry, GatedOps, StructOps, PlainOps
<1>3. pc'[t] = "null" /\ x.op \in StructOps \cup PlainOps => FileOps(file[t]).rw = "none"
  BY <1>1 DEF Entry, HasHandler, GatedOps, StructOps, PlainOps
<1> QED
  BY <1>1, <1>2, <1>3 DEF Enter, bars, FirmwareLabels

LEMMA Leaving ==
  ASSUME TypeOK, DOMAIN result = Threads, NEW t \in Threads, Exit(t)
  PROVE  /\ pc'[t] = "idle" /\ pc'[t] \notin {"done"} \cup FirmwareLabels
         /\ pc[t] \notin FirmwareLabels
         /\ idx'[t] = 0 /\ result'[t] = <<>> /\ file' = file
         /\ systemBar' = systemBar /\ dmaBar' = dmaBar
BY DEF TypeOK, Exit, Goto, bars, FirmwareLabels

(* A client without a word done has none read. *)
LEMMA NothingDone ==
  ASSUME ClientType, NEW c \in Clients, Looping(c), done[c] = 0
  PROVE  buffer[c] = <<>> /\ buffer[c] \o <<>> = <<>>
<1>1. buffer[c] \in Seq(Word) /\ Len(buffer[c]) = 0
  BY DEF ClientType, Looping
<1>2. buffer[c] = <<>>
  BY <1>1, EmptySeq
<1> QED
  BY <1>2

(* What a step of a client of its own keeps and does. *)
Kept(c) ==
  /\ ClientType' /\ ClientState(c)'
  /\ FileOps(job[c].dev).rw # "none" => Progress(c)

LEMMA ConstructKeeps ==
  ASSUME DeliveryInv, ClientType, NEW c \in Clients, ClientState(c), Construct(c)
  PROVE  Kept(c)
<1> DEFINE x == OpenCall(job[c].dev)
<1>1. c \in Threads /\ TypeOK /\ x.op = "open"
  BY JobFacts DEF ClientType, DeliveryInv, IInv, OpenCall
<1>2. /\ stage[c] = "start" /\ Enter(c, x) /\ stage' = [stage EXCEPT ![c] = "opening"]
      /\ job' = job /\ done' = done /\ buffer' = buffer /\ log' = log
  BY DEF Construct
<1> HIDE DEF x
<1>3. /\ pc'[c] \notin {"idle", "done"} \cup FirmwareLabels /\ call'[c] = x
      /\ systemBar' = systemBar /\ dmaBar' = dmaBar
  BY <1>1, <1>2, Entering DEF GatedOps
<1>4. ClientType' /\ stage'[c] = "opening"
  BY <1>2 DEF ClientType
<1>5. done[c] = 0 /\ Recorded(c) /\ Looping(c) /\ pc[c] = "idle"
  BY <1>2 DEF ClientState, Looping, Placed
<1>6. Recorded(c)' /\ Looping(c)'
  BY <1>2, <1>5 DEF Recorded, Looping, Access, IsStruct
<1>7. Placed(c)'
  BY <1>2, <1>3, <1>4 DEF Placed, x
<1>8. View(c)' = View(c)
  <2>1. View(c) = State(log[c], 0, <<>>, FALSE, systemBar[job[c].dev], dmaBar[job[c].dev])
    BY <1>2, <1>5, ViewNow DEF FirmwareLabels
  <2>2. View(c)' = State(log[c], 0, <<>>, FALSE, systemBar[job[c].dev], dmaBar[job[c].dev])
    BY <1>2, <1>3, <1>4, ViewThen
  <2> QED
    BY <2>1, <2>2
<1> QED
  BY <1>4, <1>6, <1>7, <1>8 DEF Kept, ClientState, Progress

LEMMA DestructKeeps ==
  ASSUME DeliveryInv, ClientType, NEW c \in Clients, ClientState(c), Destruct(c)
  PROVE  Kept(c)
<1>1. c \in Threads /\ TypeOK /\ CloseCall.op = "release"
  BY JobFacts DEF ClientType, DeliveryInv, IInv, CloseCall
<1>2. /\ stage[c] = "working" /\ pc[c] = "idle" /\ ~MoreToDo(job[c], log[c]) /\ Enter(c, CloseCall)
      /\ stage' = [stage EXCEPT ![c] = "closing"]
      /\ job' = job /\ done' = done /\ buffer' = buffer /\ log' = log
  BY DEF Destruct
<1>3. /\ pc'[c] \notin {"idle", "done"} \cup FirmwareLabels /\ call'[c] = CloseCall
      /\ systemBar' = systemBar /\ dmaBar' = dmaBar /\ file' = file
  BY <1>1, <1>2, Entering DEF GatedOps
<1>4. ClientType' /\ stage'[c] = "closing"
  BY <1>2 DEF ClientType
<1>5. done[c] = 0 /\ Recorded(c) /\ Looping(c) /\ file[c] = job[c].dev
  BY <1>2 DEF ClientState, Looping, Placed
<1>6. Recorded(c)' /\ Looping(c)'
  BY <1>2, <1>5 DEF Recorded, Looping, Access, IsStruct
<1>7. Placed(c)'
  BY <1>2, <1>3, <1>4, <1>5 DEF Placed
<1>8. View(c)' = View(c)
  <2>1. idx[c] = 0 /\ result[c] = <<>> /\ pc[c] \notin {"done"} \cup FirmwareLabels
    BY <1>1, <1>2, Idle
  <2>2. View(c) = State(log[c], done[c] + idx[c], buffer[c] \o result[c], FALSE,
                        systemBar[job[c].dev], dmaBar[job[c].dev])
    BY <1>2, <2>1, ViewNow
  <2>3. done[c] + idx[c] = 0 /\ buffer[c] \o result[c] = <<>>
    BY <1>5, <2>1, NothingDone
  <2>4. View(c)' = State(log[c], 0, <<>>, FALSE, systemBar[job[c].dev], dmaBar[job[c].dev])
    BY <1>2, <1>3, <1>4, ViewThen
  <2> QED
    BY <2>2, <2>3, <2>4
<1> QED
  BY <1>4, <1>6, <1>7, <1>8 DEF Kept, ClientState, Progress

LEMMA OpenReturnKeeps ==
  ASSUME DeliveryInv, ClientType, NEW c \in Clients, ClientState(c), OpenReturns(c)
  PROVE  Kept(c)
<1>1. c \in Threads /\ TypeOK /\ DOMAIN result = Threads
  BY JobFacts DEF ClientType, DeliveryInv, IInv
<1>2. /\ stage[c] = "opening" /\ pc[c] = "done" /\ Exit(c)
      /\ stage' = [stage EXCEPT ![c] = IF ret[c] < 0 THEN "ended" ELSE "working"]
      /\ job' = job /\ done' = done /\ buffer' = buffer /\ log' = log
  BY DEF OpenReturns
<1>3. /\ pc'[c] = "idle" /\ pc'[c] \notin {"done"} \cup FirmwareLabels /\ pc[c] \notin FirmwareLabels
      /\ idx'[c] = 0 /\ result'[c] = <<>> /\ file' = file
      /\ systemBar' = systemBar /\ dmaBar' = dmaBar
  BY <1>1, <1>2, Leaving
<1>4. ClientType' /\ stage'[c] = IF ret[c] < 0 THEN "ended" ELSE "working"
  BY <1>2 DEF ClientType
<1>5. done[c] = 0 /\ Recorded(c) /\ Looping(c) /\ file[c] = IF ret[c] < 0 THEN NoFile ELSE job[c].dev
  BY <1>2 DEF ClientState, Looping, Placed
<1>6. Recorded(c)' /\ Looping(c)'
  BY <1>2, <1>5 DEF Recorded, Looping, Access, IsStruct
<1>7. Placed(c)'
  BY <1>2, <1>3, <1>4, <1>5 DEF Placed
<1>8. View(c)' = View(c)
  <2>1. View(c) = State(log[c], 0, <<>>, FALSE, systemBar[job[c].dev], dmaBar[job[c].dev])
    BY <1>2, <1>3, ViewNow
  <2>2. done[c] + 0 = 0 /\ buffer[c] \o <<>> = <<>>
    BY <1>5, NothingDone
  <2>3. View(c)' = State(log[c], 0, <<>>, FALSE, systemBar[job[c].dev], dmaBar[job[c].dev])
    BY <1>2, <1>3, <1>4, <2>2, ViewThen
  <2> QED
    BY <2>1, <2>3
<1> QED
  BY <1>4, <1>6, <1>7, <1>8 DEF Kept, ClientState, Progress

LEMMA CloseReturnKeeps ==
  ASSUME DeliveryInv, ClientType, NEW c \in Clients, ClientState(c), CloseReturns(c)
  PROVE  Kept(c)
<1>1. c \in Threads /\ TypeOK /\ DOMAIN result = Threads
  BY JobFacts DEF ClientType, DeliveryInv, IInv
<1>2. /\ stage[c] = "closing" /\ pc[c] = "done" /\ Exit(c)
      /\ stage' = [stage EXCEPT ![c] = "ended"]
      /\ job' = job /\ done' = done /\ buffer' = buffer /\ log' = log
  BY DEF CloseReturns
<1>3. /\ pc'[c] = "idle" /\ pc'[c] \notin {"done"} \cup FirmwareLabels /\ pc[c] \notin FirmwareLabels
      /\ file' = file /\ systemBar' = systemBar /\ dmaBar' = dmaBar
  BY <1>1, <1>2, Leaving
<1>4. ClientType' /\ stage'[c] = "ended"
  BY <1>2 DEF ClientType
<1>5. done[c] = 0 /\ Recorded(c) /\ Looping(c) /\ file[c] = NoFile
  BY <1>2 DEF ClientState, Looping, Placed
<1>6. Recorded(c)' /\ Looping(c)'
  BY <1>2, <1>5 DEF Recorded, Looping, Access, IsStruct
<1>7. Placed(c)'
  BY <1>2, <1>3, <1>4, <1>5 DEF Placed
<1>8. View(c)' = View(c)
  <2>1. View(c) = State(log[c], 0, <<>>, FALSE, systemBar[job[c].dev], dmaBar[job[c].dev])
    BY <1>2, <1>3, ViewNow
  <2>2. View(c)' = State(log[c], 0, <<>>, FALSE, systemBar[job[c].dev], dmaBar[job[c].dev])
    BY <1>2, <1>3, <1>4, ViewThen
  <2> QED
    BY <2>1, <2>2
<1> QED
  BY <1>4, <1>6, <1>7, <1>8 DEF Kept, ClientState, Progress

(* A working client between two system calls. *)
LEMMA WorkingFacts ==
  ASSUME DeliveryInv, ClientType, NEW c \in Clients, ClientState(c), Working(c)
  PROVE  /\ c \in Threads /\ TypeOK /\ DOMAIN result = Threads
         /\ stage[c] = "working" /\ pc[c] = "idle" /\ MoreToDo(job[c], log[c])
         /\ idx[c] = 0 /\ result[c] = <<>> /\ done[c] \in Nat /\ buffer[c] \in Seq(Word)
         /\ file[c] = job[c].dev /\ Recorded(c) /\ Looping(c)
         /\ View(c) = State(log[c], done[c], buffer[c], FALSE,
                            systemBar[job[c].dev], dmaBar[job[c].dev])
<1>1. c \in Threads /\ TypeOK /\ DOMAIN result = Threads
  BY JobFacts DEF ClientType, DeliveryInv, IInv
<1>2. stage[c] = "working" /\ pc[c] = "idle" /\ MoreToDo(job[c], log[c])
  BY DEF Working
<1>3. idx[c] = 0 /\ result[c] = <<>> /\ pc[c] \notin {"done"} \cup FirmwareLabels
  BY <1>1, <1>2, Idle
<1>4. done[c] \in Nat /\ buffer[c] \in Seq(Word)
  BY DEF ClientType
<1>5. file[c] = job[c].dev /\ Recorded(c) /\ Looping(c)
  BY <1>2 DEF ClientState, Placed
<1>6. View(c) = State(log[c], done[c] + idx[c], buffer[c] \o result[c], FALSE,
                      systemBar[job[c].dev], dmaBar[job[c].dev])
  BY <1>2, <1>3, ViewNow
<1>7. done[c] + idx[c] = done[c] /\ buffer[c] \o result[c] = buffer[c]
  BY <1>3, <1>4
<1> QED
  BY <1>1, <1>2, <1>3, <1>4, <1>5, <1>6, <1>7

LEMMA CallKeeps ==
  ASSUME DeliveryInv, ClientType, NEW c \in Clients, ClientState(c), CallForWord(c) \/ CallForArea(c)
  PROVE  Kept(c)
<1> DEFINE a == Access(c)
           w == Words(a, log[c])
<1>1. Working(c) /\ UNCHANGED clientVars
  BY DEF CallForWord, CallForArea
<1>2. /\ c \in Threads /\ TypeOK /\ stage[c] = "working" /\ MoreToDo(job[c], log[c])
      /\ idx[c] = 0 /\ result[c] = <<>> /\ done[c] \in Nat /\ buffer[c] \in Seq(Word)
      /\ file[c] = job[c].dev /\ Recorded(c) /\ Looping(c)
      /\ View(c) = State(log[c], done[c], buffer[c], FALSE,
                         systemBar[job[c].dev], dmaBar[job[c].dev])
  BY <1>1, WorkingFacts
<1>3. a.op \in {"read", "write"} /\ a.nWords \in Nat
  BY <1>2, AccessFacts
<1>4. PICK x : /\ Enter(c, x) /\ x.op \in StructOps \cup PlainOps
               /\ IsStruct(c) => done[c] < a.nWords /\ x = StructCall(a, done[c], w)
               /\ ~IsStruct(c) => a.bar <= 5 /\ x = NormalCall(a, w)
  <2> HIDE DEF a, w
  <2>1. StructCall(a, done[c], w).op \in StructOps /\ NormalCall(a, w).op \in PlainOps
    BY <1>3 DEF StructCall, NormalCall, StructOps, PlainOps
  <2>2. CASE CallForWord(c)
    BY <2>1, <2>2 DEF CallForWord, a, w
  <2>3. CASE CallForArea(c)
    BY <2>1, <2>3 DEF CallForArea, a, w
  <2> QED
    BY <2>2, <2>3
<1>5. /\ pc'[c] \notin {"idle", "done"} \cup FirmwareLabels
      /\ pc'[c] = "null" => FileOps(job[c].dev).rw = "none"
      /\ call'[c] = x /\ file' = file /\ idx' = idx /\ result' = result
      /\ systemBar' = systemBar /\ dmaBar' = dmaBar
  <2>1. x.op \in GatedOps \cup {"release"}
    BY <1>4 DEF GatedOps
  <2> QED
    BY <1>2, <1>4, <2>1, Entering
<1>6. job' = job /\ stage' = stage /\ done' = done /\ buffer' = buffer /\ log' = log
  BY <1>1 DEF clientVars
<1>7. Access(c)' = a /\ IsStruct(c)' = IsStruct(c)
  BY <1>6 DEF Access, IsStruct
<1>8. ClientType' /\ Recorded(c)' /\ Looping(c)'
  BY <1>2, <1>6, <1>7 DEF ClientType, Recorded, Looping
<1>9. InCall(c)'
  <2> HIDE DEF a
  <2>1. 0 <= a.nWords
    BY <1>3
  <2> QED
    BY <1>2, <1>4, <1>5, <1>6, <1>7, <2>1 DEF InCall
<1>10. Placed(c)'
  BY <1>2, <1>5, <1>6, <1>9 DEF Placed
<1>11. View(c)' = View(c)
  <2>1. View(c)' = State(log[c], done[c] + idx[c], buffer[c] \o result[c], FALSE,
                         systemBar[job[c].dev], dmaBar[job[c].dev])
    BY <1>2, <1>5, <1>6, ViewThen
  <2>2. done[c] + idx[c] = done[c] /\ buffer[c] \o result[c] = buffer[c]
    BY <1>2
  <2> QED
    BY <1>2, <2>1, <2>2
<1> QED
  BY <1>8, <1>10, <1>11 DEF Kept, ClientState, Progress

(* The loop comes to its end, or the wrapper refuses the bar. *)
LEMMA EndKeeps ==
  ASSUME DeliveryInv, ClientType, NEW c \in Clients, ClientState(c), LoopEnds(c) \/ BarTooLarge(c)
  PROVE  Kept(c)
<1> DEFINE a == Access(c)
           d == job[c].dev
<1>1. Working(c) /\ UNCHANGED <<vars, job, stage>>
  BY DEF LoopEnds, BarTooLarge
<1>2. /\ c \in Threads /\ stage[c] = "working" /\ MoreToDo(job[c], log[c]) /\ pc[c] = "idle"
      /\ idx[c] = 0 /\ result[c] = <<>> /\ done[c] \in Nat /\ buffer[c] \in Seq(Word)
      /\ file[c] = job[c].dev /\ Recorded(c) /\ Looping(c)
      /\ View(c) = State(log[c], done[c], buffer[c], FALSE, systemBar[d], dmaBar[d])
  BY <1>1, WorkingFacts
<1>3. /\ a.op \in {"read", "write"} /\ a.nWords \in Nat /\ a.nWords > 0 /\ a.bar \in Nat
      /\ a.offset \in Nat
  BY <1>2, AccessFacts
<1>4. PICK threw \in BOOLEAN :
        /\ Complete(c, threw, buffer[c])
        /\ a.op = "read" /\ ~threw => Len(buffer[c]) = a.nWords
        /\ ~threw => done[c] = a.nWords
        /\ threw => done[c] < a.nWords /\ Refused(a, done[c])
  <2>1. CASE LoopEnds(c)
    <3>1. Complete(c, FALSE, buffer[c]) /\ done[c] = a.nWords
      BY <2>1 DEF LoopEnds
    <3>2. done[c] # 0
      BY <1>3, <3>1
    <3>3. a.op = "read" => Len(buffer[c]) = a.nWords
      BY <1>2, <3>1, <3>2 DEF Looping
    <3> QED
      BY <3>1, <3>3
  <2>2. CASE BarTooLarge(c)
    <3>1. Complete(c, TRUE, <<>>) /\ ~IsStruct(c) /\ a.bar > 5
      BY <2>2 DEF BarTooLarge
    <3>2. done[c] = 0
      BY <1>2, <3>1 DEF Looping
    <3>3. buffer[c] = <<>>
      BY <1>2, <3>2, NothingDone
    <3>4. Refused(a, done[c])
      <4>1. a.bar \notin {0, 2}
        BY <1>3, <3>1
      <4> QED
        BY <4>1 DEF Refused, RegisterAccessible
    <3> QED
      BY <1>3, <3>1, <3>2, <3>3, <3>4
  <2> QED
    BY <2>1, <2>2
<1>5. job' = job /\ stage' = stage
  BY <1>1
<1>6. /\ log' \in [Clients -> Seq(Outcomes)] /\ done' \in [Clients -> Nat]
      /\ buffer' \in [Clients -> Seq(Word)]
      /\ log'[c] = Append(log[c], Outcome(threw, buffer[c])) /\ done'[c] = 0 /\ buffer'[c] = <<>>
      /\ Recorded(c)' /\ Looping(c)'
  BY <1>2, <1>4, <1>5, Recording
<1>7. ClientType'
  BY <1>5, <1>6 DEF ClientType
<1>8. /\ pc' = pc /\ idx' = idx /\ result' = result /\ file' = file /\ call' = call
      /\ systemBar' = systemBar /\ dmaBar' = dmaBar
  BY <1>1 DEF vars
<1>9. Placed(c)'
  BY <1>2, <1>5, <1>8 DEF Placed
<1>10. View(c)' = State(Append(log[c], Outcome(threw, buffer[c])), 0, <<>>, FALSE,
                        systemBar[d], dmaBar[d])
  <2>1. View(c)' = State(log'[c], done'[c] + idx[c], buffer'[c] \o result[c], FALSE,
                         systemBar[d], dmaBar[d])
    BY <1>2, <1>5, <1>8, ViewThen DEF FirmwareLabels
  <2>2. done'[c] + idx[c] = 0 /\ buffer'[c] \o result[c] = <<>>
    BY <1>2, <1>6
  <2> QED
    BY <1>6, <2>1, <2>2
<1>11. Serial(job[c], View(c), View(c)')
  <2> DEFINE s == View(c)
             n == View(c)'
  <2>1. /\ s.log = log[c] /\ s.k = done[c] /\ s.got = buffer[c] /\ s.stored = FALSE
        /\ s.sys = systemBar[d] /\ s.dma = dmaBar[d]
    BY <1>2 DEF State
  <2> HIDE DEF s, n
  <2>2. n = Over(s, threw, s.sys, s.dma)
    BY <1>10, <2>1 DEF Over, n
  <2>3. Ends(a, s, n) \/ Throws(a, s, n)
    BY <1>4, <2>1, <2>2 DEF Ends, Throws
  <2>4. Serial(job[c], s, n)
    BY <1>2, <2>1, <2>3 DEF Serial, Access
  <2> QED
    BY <2>4 DEF s, n
<1> QED
  BY <1>6, <1>7, <1>9, <1>11 DEF Kept, ClientState, Progress

(* A system call returns to the wrapper. *)
LEMMA ReturnKeeps ==
  ASSUME DeliveryInv, ClientType, NEW c \in Clients, ClientState(c), WordReturns(c) \/ AreaReturns(c)
  PROVE  Kept(c)
<1> DEFINE a == Access(c)
           d == job[c].dev
<1>1. /\ stage[c] = "working" /\ pc[c] = "done" /\ Exit(c) /\ job' = job /\ stage' = stage
  BY DEF WordReturns, AreaReturns
<1>2. c \in Threads /\ TypeOK /\ DOMAIN result = Threads
  BY JobFacts DEF ClientType, DeliveryInv, IInv
<1>3. /\ pc'[c] = "idle" /\ pc'[c] \notin {"done"} \cup FirmwareLabels /\ pc[c] \notin FirmwareLabels
      /\ idx'[c] = 0 /\ result'[c] = <<>> /\ file' = file
      /\ systemBar' = systemBar /\ dmaBar' = dmaBar
  BY <1>1, <1>2, Leaving
<1>4. InCall(c) /\ file[c] = d /\ Recorded(c) /\ Looping(c)
  BY <1>1 DEF ClientState, Placed
<1>5. MoreToDo(job[c], log[c]) /\ Answered(c) /\ result[c] \in Seq(Word)
  BY <1>1, <1>4 DEF InCall, Answered
<1>6. a.op \in {"read", "write"} /\ a.nWords \in Nat
  BY <1>5, AccessFacts
<1>7. buffer[c] \in Seq(Word) /\ done[c] \in Nat
  BY DEF ClientType
<1>8. Placed(c)'
  BY <1>1, <1>3, <1>4 DEF Placed
<1>9. ASSUME NEW threw \in BOOLEAN, NEW words \in Seq(Word), Complete(c, threw, words),
             a.op = "read" /\ ~threw => Len(words) = a.nWords,
             View(c) = State(Append(log[c], Outcome(threw, words)), 0, <<>>, FALSE,
                             systemBar[d], dmaBar[d])
      PROVE  Kept(c)
  <2>1. /\ log' \in [Clients -> Seq(Outcomes)] /\ done' \in [Clients -> Nat]
        /\ buffer' \in [Clients -> Seq(Word)]
        /\ log'[c] = Append(log[c], Outcome(threw, words)) /\ done'[c] = 0 /\ buffer'[c] = <<>>
        /\ Recorded(c)' /\ Looping(c)'
    BY <1>1, <1>4, <1>5, <1>9, Recording
  <2>2. ClientType'
    BY <1>1, <2>1 DEF ClientType
  <2>3. View(c)' = State(log'[c], done'[c] + idx'[c], buffer'[c] \o result'[c], FALSE,
                         systemBar[d], dmaBar[d])
    BY <1>1, <1>3, ViewThen
  <2>4. done'[c] + idx'[c] = 0 /\ buffer'[c] \o result'[c] = <<>>
    BY <1>3, <2>1
  <2>5. View(c)' = View(c)
    BY <1>9, <2>1, <2>3, <2>4
  <2> QED
    BY <1>8, <2>1, <2>2, <2>5 DEF Kept, ClientState, Progress
<1>10. CASE AreaReturns(c)
  <2>1. ~IsStruct(c) /\ Complete(c, ret[c] # 4 * a.nWords, result[c])
    BY <1>10 DEF AreaReturns
  <2>2. View(c) = State(Append(log[c], Outcome(ret[c] # 4 * a.nWords, result[c])), 0, <<>>, FALSE,
                        systemBar[d], dmaBar[d])
    BY <1>1, <1>3, <2>1, ViewNow
  <2>3. PICK threw \in BOOLEAN : threw = (ret[c] # 4 * a.nWords)
    OBVIOUS
  <2>4. a.op = "read" /\ ~threw => Len(result[c]) = a.nWords
    BY <1>5, <2>1, <2>3 DEF Answered
  <2> QED
    BY <1>5, <1>9, <2>1, <2>2, <2>3, <2>4
<1>11. CASE WordReturns(c) /\ ret[c] # sizeof_device_rw
  <2>1. IsStruct(c) /\ Complete(c, TRUE, buffer[c])
    BY <1>11 DEF WordReturns
  <2>2. View(c) = State(Append(log[c], Outcome(TRUE, buffer[c])), 0, <<>>, FALSE,
                        systemBar[d], dmaBar[d])
    BY <1>1, <1>3, <1>11, <2>1, ViewNow
  <2> QED
    BY <1>7, <1>9, <2>1, <2>2
<1>12. CASE WordReturns(c) /\ ret[c] = sizeof_device_rw
  <2>1. /\ IsStruct(c) /\ log' = log
        /\ done' = [done EXCEPT ![c] = done[c] + 1]
        /\ buffer' = [buffer EXCEPT ![c] = buffer[c] \o result[c]]
    BY <1>12 DEF WordReturns
  <2>2. /\ buffer[c] \o result[c] \in Seq(Word)
        /\ Len(buffer[c] \o result[c]) = Len(buffer[c]) + Len(result[c])
    BY <1>5, <1>7, ConcatProperties
  <2>3. /\ ClientType' /\ done'[c] = done[c] + 1 /\ buffer'[c] = buffer[c] \o result[c]
    BY <1>1, <2>1, <2>2 DEF ClientType
  <2>4. Access(c)' = a /\ IsStruct(c)' /\ MoreToDo(job[c], log[c])'
    BY <1>1, <1>5, <2>1 DEF Access, IsStruct
  <2>5. Recorded(c)'
    BY <1>1, <1>4, <2>1 DEF Recorded
  <2>6. done[c] < a.nWords
    BY <1>4, <2>1 DEF InCall
  <2>7. Len(buffer[c] \o result[c]) = IF a.op = "read" THEN done[c] + 1 ELSE 0
    <3>1. Len(result[c]) = IF a.op = "read" THEN 1 ELSE 0
      BY <1>5, <1>12, <2>1 DEF Answered
    <3>2. Len(buffer[c]) = IF a.op = "read" THEN done[c] ELSE 0
      BY <1>4, <1>7 DEF Looping
    <3> HIDE DEF a
    <3> QED
      BY <1>6, <1>7, <2>2, <3>1, <3>2
  <2>8. Looping(c)'
    <3>1. done[c] + 1 # 0 /\ done[c] + 1 <= a.nWords
      BY <1>6, <1>7, <2>6
    <3> HIDE DEF a
    <3> QED
      BY <1>1, <1>6, <2>3, <2>4, <2>7, <3>1 DEF Looping
  <2>9. View(c) = State(log[c], done[c] + 1, buffer[c] \o result[c], FALSE, systemBar[d], dmaBar[d])
    BY <1>1, <1>3, <1>12, <2>1, ViewNow
  <2>10. View(c)' = State(log[c], done'[c] + idx'[c], buffer'[c] \o result'[c], FALSE,
                          systemBar[d], dmaBar[d])
    BY <1>1, <1>3, <2>1, ViewThen
  <2>11. done'[c] + idx'[c] = done[c] + 1 /\ buffer'[c] \o result'[c] = buffer[c] \o result[c]
    BY <1>3, <1>7, <2>2, <2>3
  <2> QED
    BY <1>8, <2>3, <2>5, <2>8, <2>9, <2>10, <2>11 DEF Kept, ClientState, Progress
<1> QED
  BY <1>10, <1>11, <1>12

-----------------------------------------------------------------------------
(* The calls of a client never inject errors, and the only ones that write *)
(* a bar are those for its writes.                                         *)
LEMMA ClientCall ==
  ASSUME ClientType, NEW c \in Clients, ClientState(c), pc[c] # "idle"
  PROVE  /\ call[c].op \in {"open", "release"} \cup StructOps \cup PlainOps
         /\ call[c].op \in {"write", "pwrite"} =>
              /\ file[c] = job[c].dev
              /\ \E n \in 1 .. Len(job[c].accesses) : job[c].accesses[n].op = "write"
<1>1. stage[c] \in {"opening", "working", "closing"}
  BY DEF ClientType, ClientState, Placed
<1>2. CASE stage[c] \in {"opening", "closing"}
  BY <1>2 DEF ClientState, Placed, OpenCall, CloseCall
<1>3. CASE stage[c] = "working"
  <2> DEFINE a == Access(c)
  <2>1. InCall(c) /\ file[c] = job[c].dev
    BY <1>3 DEF ClientState, Placed
  <2>2. MoreToDo(job[c], log[c])
    BY <2>1 DEF InCall
  <2>3. Len(log[c]) + 1 \in 1 .. Len(job[c].accesses) /\ a.op \in {"read", "write"}
    BY <2>2, AccessFacts
  <2>4. a = job[c].accesses[Len(log[c]) + 1]
    BY DEF Access
  <2>5. call[c] = StructCall(a, done[c], Words(a, log[c])) \/ call[c] = NormalCall(a, Words(a, log[c]))
    BY <2>1 DEF InCall
  <2> HIDE DEF a
  <2>6. call[c].op = a.op \/ call[c].op = IF a.op = "read" THEN "pread" ELSE "pwrite"
    BY <2>3, <2>5 DEF StructCall, NormalCall
  <2> QED
    BY <2>1, <2>3, <2>4, <2>6 DEF StructOps, PlainOps
<1> QED
  BY <1>1, <1>2, <1>3

(* A thread inside the driver is neither before nor behind a call. *)
LEMMA Inside ==
  ASSUME NEW t, DriverStep(t)
  PROVE  pc[t] \notin {"idle", "done"}
BY DEF DriverStep, Step, Signal, LockControl, AfterLock, LockDevice, GateInterrupted,
       DeviceInterrupted, FirmwareInterrupted, ProcWriteInterrupted, NullOperation, Exit, PassGate,
       Install, Release, mtcaDummy_read,
       mtcaDummy_write_rejected, mtcaDummy_write, CheckTransfer, ReadWord, ReadWordFails,
       WriteWord, WriteWordFaults, TransferDone, SampleSpiError, FirmwareAction,
       IoctlCheck, mtcaDummy_ioctl, ProcWriteCopy, SetControl, SeqShow, PrintSystemBar,
       PrintDmaBar, SeqStop, CopyDmaWord, CopyDmaEnds, InDmaCopy

(* What a step of a client, of its own or inside the driver, keeps. *)
LEMMA OwnKeeps ==
  ASSUME DeliveryInv, IInv', ClientType, OtherState, NEW c \in Clients, ClientState(c),
         \/ ClientStep(c)
         \/ DriverStep(c) /\ ThreadStep(c) /\ UNCHANGED clientVars
  PROVE  Kept(c)
<1>1. CASE ClientStep(c)
  BY <1>1, ConstructKeeps, OpenReturnKeeps, CallKeeps, ReturnKeeps, EndKeeps, DestructKeeps,
     CloseReturnKeeps DEF ClientStep
<1>2. CASE DriverStep(c) /\ ThreadStep(c) /\ UNCHANGED clientVars
  <2>1. pc[c] \notin {"idle", "done"} /\ c \in Threads /\ job[c].dev \in Devices
    BY <1>2, Inside, JobFacts DEF ClientType
  <2>2. job' = job /\ stage' = stage /\ done' = done /\ buffer' = buffer /\ log' = log
    BY <1>2 DEF clientVars
  <2>3. ClientType' /\ Recorded(c)' /\ Looping(c)'
    BY <2>2 DEF ClientType, ClientState, Recorded, Looping, Access, IsStruct
  <2>4. stage[c] \in {"opening", "working", "closing"}
    BY <2>1 DEF ClientType, ClientState, Placed
  <2>5. CASE stage[c] = "working"
    <3>1. InWork(c)
      BY <2>1, <2>5 DEF InWork
    <3>2. Follows(c)
      BY <1>2, <3>1, DriverFollows
    <3>3. file[c] = job[c].dev /\ call[c].op \in StructOps \cup PlainOps
      <4>1. call[c].op \in StructOps \cup PlainOps
        BY <3>1, StructFacts, PlainFacts DEF StructOps, PlainOps
      <4> QED
        BY <3>1, <4>1, WorkFacts
    <3>4. file'[c] = file[c]
      <4>1. ~Install(c) /\ ~Release(c)
        BY <2>1, <3>3 DEF DeliveryInv, IInv, CallState, AtLabel, Install, Release, StructOps, PlainOps
      <4>2. NullOperation(c) => file'[c] = file[c]
        BY <2>1, <3>3 DEF DeliveryInv, IInv, TypeOK, NullOperation, StructOps, PlainOps
      <4> QED
        BY <1>2, <2>1, <4>1, <4>2, FilesUnchanged
    <3>5. Placed(c)'
      BY <2>2, <2>5, <3>2, <3>3, <3>4 DEF Placed, Follows
    <3> QED
      BY <2>3, <3>2, <3>5 DEF Kept, ClientState, Follows
  <2>6. CASE stage[c] \in {"opening", "closing"}
    <3>1. Placed(c)'
      BY <1>2, <2>1, <2>6, OpenFollows, CloseFollows
    <3>2. call[c].op \in {"open", "release"} /\ call'[c].op \in {"open", "release"}
      BY <2>2, <2>6, <3>1 DEF ClientState, Placed, OpenCall, CloseCall
    <3>3. pc[c] \notin FirmwareLabels /\ pc'[c] \notin FirmwareLabels
      BY <2>1, <3>2 DEF DeliveryInv, IInv, CallState, AtLabel
    <3>4. /\ systemBar'[job[c].dev] = systemBar[job[c].dev]
          /\ dmaBar'[job[c].dev] = dmaBar[job[c].dev]
      BY <1>2, <2>1, <3>2, BarStep DEF DeliveryInv
    <3>5. View(c)' = View(c)
      <4>1. (pc'[c] \in FirmwareLabels) = (pc[c] \in FirmwareLabels)
        BY <3>3
      <4> QED
        BY <2>2, <2>6, <3>4, <4>1 DEF View
    <3> QED
      BY <2>3, <3>1, <3>5 DEF Kept, ClientState, Progress
  <2> QED
    BY <2>4, <2>5, <2>6
<1> QED
  BY <1>1, <1>2

(* It leaves the other clients as they are, *)
LEMMA OtherClients ==
  ASSUME ClientType, NEW c \in Clients, ClientStep(c), NEW b \in Clients \ {c}
  PROVE  SameClient(b)
<1> USE DEF ClientType, SameClient, Complete
<1>1. CASE Construct(c) \/ OpenReturns(c) \/ Destruct(c) \/ CloseReturns(c)
  BY <1>1 DEF Construct, OpenReturns, Destruct, CloseReturns
<1>2. CASE CallForWord(c) \/ CallForArea(c)
  BY <1>2 DEF CallForWord, CallForArea, clientVars
<1>3. CASE LoopEnds(c) \/ BarTooLarge(c)
  BY <1>3 DEF LoopEnds, BarTooLarge
<1>4. CASE WordReturns(c) \/ AreaReturns(c)
  BY <1>4 DEF WordReturns, AreaReturns
<1> QED
  BY <1>1, <1>2, <1>3, <1>4 DEF ClientStep

LEMMA ElsewhereKeeps ==
  ASSUME DeliveryInv, NEW t \in Threads, ThreadStep(t) \/ UNCHANGED vars,
         NEW b \in Clients \ {t}
  PROVE  SameCall(b)
<1>1. b \in Threads \ {t}
  BY ClientsAssumption
<1>2. CASE ThreadStep(t)
  BY <1>1, <1>2, OthersUnchanged, OthersKeep DEF DeliveryInv, IInv, SameCall
<1>3. CASE UNCHANGED vars
  BY <1>3 DEF vars, SameCall
<1> QED
  BY <1>2, <1>3

(* and nobody writes the bars of an owner. *)
LEMMA BarsOfOwner ==
  ASSUME DeliveryInv, ClientsInv, NEW t \in Threads, ThreadStep(t) \/ UNCHANGED vars,
         NEW c \in Owners, c # t
  PROVE  systemBar'[job[c].dev] = systemBar[job[c].dev] /\ dmaBar'[job[c].dev] = dmaBar[job[c].dev]
<1> DEFINE d == job[c].dev
<1>1. CASE UNCHANGED vars
  BY <1>1 DEF vars
<1>2. CASE ThreadStep(t)
  <2>1. c \in Clients /\ d \in Devices
    BY JobFacts DEF Owners, ClientsInv, ClientType
  <2> SUFFICES ASSUME systemBar'[d] # systemBar[d] \/ dmaBar'[d] # dmaBar[d]
               PROVE  FALSE
    OBVIOUS
  <2>2. devMutex[d] = t /\ Dev(t) = d /\ call[t].op \in {"write", "pwrite"}
    BY <1>2, <2>1, BarStep DEF DeliveryInv
  <2>3. pc[t] # "idle" /\ file[t] = d
    BY <2>1, <2>2 DEF DeliveryInv, IInv, LockDiscipline, DeviceLabels, FirmwareLabels, Dev
  <2>4. CASE t \notin Clients
    BY <2>2, <2>3, <2>4 DEF Owners, ClientsInv, OtherState
  <2>5. CASE t \in Clients
    <3>1. /\ file[t] = job[t].dev
          /\ \E n \in 1 .. Len(job[t].accesses) : job[t].accesses[n].op = "write"
      BY <2>2, <2>3, <2>5, ClientCall DEF ClientsInv
    <3> QED
      BY <2>3, <2>5, <3>1 DEF Owners
  <2> QED
    BY <2>4, <2>5
<1> QED
  BY <1>1, <1>2

(* Only a write to the proc file sets a flag, and only the firmware reads  *)
(* the one of the SPI simulation.                                          *)
LEMMA SpiFailStays ==
  ASSUME NEW t \in Threads, ThreadStep(t), ~SampleSpiError(t), ~Exit(t)
  PROVE  spiFail' = spiFail
<1>1. CASE (\E c \in Calls : Enter(t, c)) \/ LockControl(t) \/ LockDevice(t) \/ Signal(t)
  BY <1>1 DEF Enter, LockControl, LockDevice, locals, Signal, GateInterrupted, DeviceInterrupted,
              FirmwareInterrupted, ProcWriteInterrupted
<1>2. CASE Step(t)
  BY <1>2 DEF Step, NullOperation, PassGate, Install, Release, mtcaDummy_read,
              mtcaDummy_write_rejected, mtcaDummy_write, CheckTransfer, ReadWord, ReadWordFails,
              WriteWord, WriteWordFaults, TransferDone, FirmwareAction,
              IoctlCheck, mtcaDummy_ioctl, ProcWriteCopy, SetControl, SeqShow, PrintSystemBar,
              PrintDmaBar, SeqStop, CopyDmaWord, CopyDmaEnds, InDmaCopy
<1> QED
  BY <1>1, <1>2 DEF ThreadStep

LEMMA NoErrors ==
  ASSUME DeliveryInv, ClientsInv, NEW t \in Threads, ThreadStep(t) \/ UNCHANGED vars,
         ~\E o \in OtherCalls : o.op = "control"
  PROVE  (\A o \in Options : ~control'[o]) /\ (\A u \in Threads : ~spiFail'[u])
<1>1. (\A o \in Options : ~control[o]) /\ (\A u \in Threads : ~spiFail[u])
  BY DEF ClientsInv, OtherState
<1>2. CASE UNCHANGED vars
  BY <1>1, <1>2 DEF vars
<1>3. CASE ThreadStep(t)
  <2>1. ~SetControl(t)
    <3>1. pc[t] # "idle" => call[t].op # "control"
      BY ClientCall DEF ClientsInv, OtherState, StructOps, PlainOps
    <3> QED
      BY <3>1 DEF DeliveryInv, IInv, CallState, AtLabel, SetControl
  <2>2. control' = control
    BY <1>3, <2>1, FlagsStay
  <2>3. "spi" \in Options
    BY DEF Options
  <2>4. spiFail \in [Threads -> BOOLEAN] /\ control.spi = FALSE
    BY <1>1, <2>3 DEF DeliveryInv, IInv, TypeOK
  <2>5. SampleSpiError(t) => spiFail' = [spiFail EXCEPT ![t] = FALSE]
    BY <2>4 DEF SampleSpiError
  <2>6. Exit(t) => spiFail' = [spiFail EXCEPT ![t] = FALSE]
    BY DEF Exit
  <2>7. spiFail' = spiFail \/ spiFail' = [spiFail EXCEPT ![t] = FALSE]
    BY <1>3, <2>5, <2>6, SpiFailStays
  <2> QED
    BY <1>1, <2>2, <2>4, <2>7
<1> QED
  BY <1>2, <1>3

(* A call the others are in is one they have made. *)
LEMMA CallStays ==
  ASSUME TypeOK, NEW t \in Threads, OtherStep(t), pc'[t] # "idle",
         ~\E c \in OtherCalls : Enter(t, c)
  PROVE  call'[t] = call[t] /\ pc[t] # "idle"
<1>1. CASE LockControl(t) \/ LockDevice(t) \/ Signal(t)
  BY <1>1 DEF LockControl, AfterLock, LockDevice, locals, Signal, GateInterrupted, DeviceInterrupted,
              FirmwareInterrupted, ProcWriteInterrupted
<1>2. CASE Step(t) /\ ~Exit(t)
  BY <1>2 DEF Step, NullOperation, PassGate, Install, Release, mtcaDummy_read,
              mtcaDummy_write_rejected, mtcaDummy_write, CheckTransfer, ReadWord, ReadWordFails,
              WriteWord, WriteWordFaults, TransferDone, SampleSpiError, FirmwareAction,
              IoctlCheck, mtcaDummy_ioctl, ProcWriteCopy, SetControl, SeqShow, PrintSystemBar,
              PrintDmaBar, SeqStop, CopyDmaWord, CopyDmaEnds, InDmaCopy
<1>3. ~Exit(t)
  BY DEF TypeOK, Exit, Goto
<1> QED
  BY <1>1, <1>2, <1>3 DEF OtherStep

LEMMA OtherStateStep ==
  ASSUME DeliveryInv, ClientsInv, NEW t \in Threads, ThreadStep(t) \/ UNCHANGED vars,
         t \notin Clients => OtherStep(t)
  PROVE  OtherState'
<1>1. ASSUME NEW u \in Threads \ Clients, pc'[u] # "idle"
      PROVE  call'[u] \in OtherCalls
  <2>1. pc[u] # "idle" => call[u] \in OtherCalls
    BY DEF ClientsInv, OtherState
  <2>2. CASE UNCHANGED vars
    BY <1>1, <2>1, <2>2 DEF vars
  <2>3. CASE ThreadStep(t) /\ u # t
    BY <1>1, <2>1, <2>3, OthersUnchanged DEF DeliveryInv, IInv
  <2>4. CASE u = t
    <3>1. TypeOK
      BY DEF DeliveryInv, IInv
    <3>2. CASE \E c \in OtherCalls : Enter(t, c)
      BY <2>4, <3>1, <3>2 DEF TypeOK, Enter
    <3>3. CASE ~\E c \in OtherCalls : Enter(t, c)
      BY <1>1, <2>1, <2>4, <3>1, <3>3, CallStays
    <3> QED
      BY <3>2, <3>3
  <2> QED
    BY <2>2, <2>3, <2>4
<1> QED
  BY <1>1, NoErrors DEF OtherState

(* One step of anybody. *)
LEMMA ClientsStep ==
  ASSUME DeliveryInv, ClientsInv, IInv', [ClientsNext]_allVars
  PROVE  ClientsInv' /\ \A c \in Owners : Progress(c)
<1>1. ClientType /\ OtherState /\ Clients \subseteq Threads /\ Owners \subseteq Clients
  BY ClientsAssumption DEF ClientsInv, Owners
<1>2. ASSUME NEW t \in Threads, ThreadStep(t) \/ UNCHANGED vars,
             t \notin Clients => OtherStep(t),
             t \in Clients => \/ ClientStep(t)
                              \/ DriverStep(t) /\ ThreadStep(t) /\ UNCHANGED clientVars
      PROVE  ClientsInv' /\ \A c \in Owners : Progress(c)
  <2>1. OtherState'
    BY <1>2, OtherStateStep
  <2>2. t \in Clients => Kept(t)
    BY <1>1, <1>2, OwnKeeps DEF ClientsInv
  <2>3. ClientType'
    <3>1. CASE t \in Clients
      BY <2>2, <3>1 DEF Kept
    <3>2. CASE t \notin Clients
      BY <1>1, <1>2, <3>2 DEF ClientType, OtherStep, clientVars
    <3> QED
      BY <3>1, <3>2
  <2>4. ASSUME NEW b \in Clients \ {t}
        PROVE  ClientState(b)' /\ (b \in Owners => Progress(b))
    <3>1. SameClient(b)
      <4>1. CASE t \in Clients /\ ClientStep(t)
        BY <1>1, <4>1, OtherClients
      <4>2. CASE UNCHANGED clientVars
        BY <4>2 DEF clientVars, SameClient
      <4> QED
        BY <1>2, <4>1, <4>2 DEF OtherStep
    <3>2. SameCall(b)
      BY <1>2, ElsewhereKeeps
    <3>3. ClientState(b)'
      BY <3>1, <3>2, ClientFrame DEF ClientsInv
    <3>4. b \in Owners => View(b)' = View(b)
      BY <1>2, <3>1, <3>2, BarsOfOwner, ViewFrame
    <3> QED
      BY <3>3, <3>4 DEF Progress
  <2>5. \A c \in Clients : ClientState(c)'
    BY <2>2, <2>4 DEF Kept
  <2>6. ASSUME NEW c \in Owners PROVE Progress(c)
    BY <1>1, <2>2, <2>4 DEF Kept, Owners
  <2> QED
    BY <2>1, <2>3, <2>5, <2>6 DEF ClientsInv
<1>3. CASE UNCHANGED allVars
  <2>1. UNCHANGED vars /\ UNCHANGED clientVars
    BY <1>3 DEF allVars
  <2>2. \A c \in Clients : SameClient(c) /\ SameCall(c)
    BY <2>1 DEF vars, clientVars, SameClient, SameCall
  <2>3. \A c \in Clients : ClientState(c)'
    BY <2>2, ClientFrame DEF ClientsInv
  <2>4. \A c \in Clients : View(c)' = View(c)
    BY <2>1, <2>2, ViewFrame DEF vars
  <2>5. ClientType' /\ OtherState'
    BY <1>1, <2>1 DEF vars, clientVars, ClientType, OtherState
  <2> QED
    BY <1>1, <2>3, <2>4, <2>5 DEF ClientsInv, Progress
<1>4. CASE ClientsNext
  BY <1>1, <1>2, <1>4, WhoMoves
<1> QED
  BY <1>3, <1>4

LEMMA ClientsStart ==
  ClientsInit => DeliveryInv /\ ClientsInv
<1> SUFFICES ASSUME ClientsInit PROVE DeliveryInv /\ ClientsInv
  OBVIOUS
<1>1. Init /\ job \in Jobs
  BY DEF ClientsInit
<1>2. DeliveryInv
  BY <1>1, InitDelivery
<1>3. <<>> \in Seq(Word) /\ Len(<<>>) = 0 /\ <<>> \in Seq(Outcomes)
  OBVIOUS
<1>4. ClientType
  BY <1>3 DEF ClientsInit, ClientType
<1>5. OtherState
  BY <1>1 DEF Init, OtherState
<1>6. ASSUME NEW c \in Clients PROVE ClientState(c)
  <2>1. /\ stage[c] = "start" /\ done[c] = 0 /\ buffer[c] = <<>> /\ log[c] = <<>>
        /\ pc[c] = "idle" /\ file[c] = NoFile
    BY <1>1, ClientsAssumption DEF ClientsInit, Init
  <2>2. Len(job[c].accesses) \in Nat
    BY <1>1, JobFacts DEF IsJob
  <2>3. Recorded(c)
    BY <1>3, <2>1, <2>2 DEF Recorded
  <2> QED
    BY <1>3, <2>1, <2>3 DEF ClientState, Looping, Placed
<1> QED
  BY <1>2, <1>4, <1>5, <1>6 DEF ClientsInv

(* Clients use the driver as its theorems assume: every call of theirs is  *)
(* one of Calls, and each is the call of its wrapper for the word or the   *)
(* area it is at.                                                          *)
THEOREM ClientsInductive == ClientsSpec => [](DeliveryInv /\ ClientsInv)
<1>1. ClientsInit => DeliveryInv /\ ClientsInv
  BY ClientsStart
<1>2. DeliveryInv /\ ClientsInv /\ [ClientsNext]_allVars => (DeliveryInv /\ ClientsInv)'
  <2> SUFFICES ASSUME DeliveryInv, ClientsInv, [ClientsNext]_allVars
               PROVE  DeliveryInv' /\ ClientsInv'
    OBVIOUS
  <2>1. [Next]_vars
    BY NextMoves
  <2>2. IInv'
    BY <2>1, NextIInv DEF DeliveryInv
  <2> QED
    BY <2>1, <2>2, DeliveryStep, ClientsStep
<1> QED
  BY <1>1, <1>2, PTL DEF ClientsSpec

(* The clients and the other threads are threads of the driver: what is    *)
(* proved of the driver holds with the client library on top of it.        *)
THEOREM ClientsImplementDriver == ClientsSpec => Spec
<1>1. ClientsInit => Init
  BY DEF ClientsInit
<1>2. ClientsInv /\ [ClientsNext]_allVars => [Next]_vars
  BY NextMoves
<1> QED
  BY <1>1, <1>2, ClientsInductive, PTL DEF ClientsSpec, Spec

(* With either wrapper, on a device that nobody else writes, every access  *)
(* is a loop over its words that stops at the first one that is refused,   *)
(* and only injected errors, signals and faults end it earlier             *)
(* (ReaderWriter.h).                                                       *)
THEOREM Serialisation == ClientsSpec => AccessesAreSerial
<1>1. DeliveryInv /\ ClientsInv /\ [ClientsNext]_allVars => \A c \in Owners : Progress(c)
  <2> SUFFICES ASSUME DeliveryInv, ClientsInv, [ClientsNext]_allVars
               PROVE  \A c \in Owners : Progress(c)
    OBVIOUS
  <2>1. IInv'
    BY NextMoves, NextIInv DEF DeliveryInv
  <2> QED
    BY <2>1, ClientsStep
<1>2. DeliveryInv /\ ClientsInv /\ [ClientsNext]_allVars =>
        [\A c \in Owners : \/ View(c)' = View(c)
                           \/ Serial(job[c], View(c), View(c)')
                           \/ Disturbable /\ Disturbed(job[c], View(c), View(c)')]_allVars
  BY <1>1 DEF Progress
<1> QED
  BY <1>2, ClientsInductive, PTL DEF ClientsSpec, AccessesAreSerial

-----------------------------------------------------------------------------
(* What a job has come to is a state of a ReaderWriter. *)
SerialState ==
  [log : Seq(Outcomes), k : Nat, got : Seq(Word), stored : BOOLEAN, sys : SystemBar, dma : DmaBar]

LEMMA StateType ==
  ASSUME NEW l \in Seq(Outcomes), NEW k \in Nat, NEW got \in Seq(Word), NEW b \in BOOLEAN,
         NEW sys \in SystemBar, NEW dma \in DmaBar
  PROVE  State(l, k, got, b, sys, dma) \in SerialState
BY DEF State, SerialState

LEMMA ViewType ==
  ASSUME DeliveryInv, ClientsInv, NEW c \in Clients
  PROVE  View(c) \in SerialState
<1> DEFINE d == job[c].dev
<1>1. c \in Threads /\ d \in Devices /\ ClientType /\ ClientState(c) /\ IInv
  BY JobFacts DEF ClientsInv, ClientType, DeliveryInv
<1>2. /\ systemBar[d] \in SystemBar /\ dmaBar[d] \in DmaBar /\ idx[c] \in Nat
      /\ log[c] \in Seq(Outcomes) /\ done[c] \in Nat /\ buffer[c] \in Seq(Word)
  BY <1>1 DEF IInv, TypeOK, ClientType
<1>3. <<>> \in Seq(Word)
  OBVIOUS
<1>4. ASSUME stage[c] = "working"
      PROVE  result[c] \in Seq(Word)
  <2>1. Delivered(c) /\ (pc[c] = "idle" => call[c] = NoCall)
    BY <1>1 DEF DeliveryInv, Advanced
  <2>2. CASE pc[c] = "done"
    BY <1>1, <1>4, <2>2 DEF ClientState, Placed, InCall, Answered
  <2>3. CASE pc[c] # "done" /\ pc[c] # "body"
    BY <1>3, <2>1, <2>3 DEF Delivered
  <2>4. CASE pc[c] = "body"
    <3>1. call[c].op # "dump"
      BY <1>1, <2>4, ClientCall DEF StructOps, PlainOps
    <3> QED
      BY <1>3, <2>1, <2>4, <3>1 DEF Delivered, DmaDelivered
  <2> QED
    BY <2>2, <2>3, <2>4
<1>5. PICK fw \in BOOLEAN : fw = (pc[c] \in FirmwareLabels)
  <2>1. CASE pc[c] \in FirmwareLabels
    BY <2>1
  <2>2. CASE pc[c] \notin FirmwareLabels
    <3>1. FALSE = (pc[c] \in FirmwareLabels)
      BY <2>2
    <3> QED
      BY <3>1
  <2> QED
    BY <2>1, <2>2
<1>9. /\ log[c] \in Seq(Outcomes)
      /\ \A l \in Seq(Outcomes), k \in Nat, got \in Seq(Word), b \in BOOLEAN :
           State(l, k, got, b, systemBar[d], dmaBar[d]) \in SerialState
  <2>1. PICK x \in SystemBar, y \in DmaBar : x = systemBar[d] /\ y = dmaBar[d]
    BY <1>2
  <2>2. \A l \in Seq(Outcomes), k \in Nat, got \in Seq(Word), b \in BOOLEAN :
           State(l, k, got, b, x, y) \in SerialState
    BY StateType
  <2> QED
    BY <1>2, <2>1, <2>2, Zenon
<1>6. CASE stage[c] # "working"
  <2>1. View(c) = State(log[c], 0, <<>>, fw, systemBar[d], dmaBar[d])
    BY <1>5, <1>6 DEF View
  <2>2. State(log[c], 0, <<>>, fw, systemBar[d], dmaBar[d]) \in SerialState
    BY <1>9, <1>3
  <2> QED
    BY <2>1, <2>2, Zenon
<1>7. CASE stage[c] = "working" /\ pc[c] # "done"
  <2>1. View(c) = State(log[c], done[c] + idx[c], buffer[c] \o result[c], fw, systemBar[d], dmaBar[d])
    BY <1>5, <1>7 DEF View
  <2>2. done[c] + idx[c] \in Nat /\ buffer[c] \o result[c] \in Seq(Word)
    BY <1>2, <1>4, <1>7, ConcatProperties
  <2>3. State(log[c], done[c] + idx[c], buffer[c] \o result[c], fw, systemBar[d], dmaBar[d])
          \in SerialState
    BY <1>2, <1>9, <2>2
  <2> QED
    BY <2>1, <2>3, Zenon
<1>8. CASE stage[c] = "working" /\ pc[c] = "done"
  <2>1. pc[c] \notin FirmwareLabels /\ result[c] \in Seq(Word)
    BY <1>4, <1>8 DEF FirmwareLabels
  <2>2. ASSUME NEW threw \in BOOLEAN, NEW words \in Seq(Word),
               View(c) = State(Append(log[c], Outcome(threw, words)), 0, <<>>, FALSE,
                               systemBar[d], dmaBar[d])
        PROVE  View(c) \in SerialState
    <3>1. Outcome(threw, words) \in Outcomes
      BY DEF Outcome, Outcomes
    <3>2. Append(log[c], Outcome(threw, words)) \in Seq(Outcomes)
      BY <1>2, <3>1, AppendProperties
    <3>3. State(Append(log[c], Outcome(threw, words)), 0, <<>>, FALSE, systemBar[d], dmaBar[d])
            \in SerialState
      BY <1>3, <1>9, <3>2
    <3> QED
      BY <2>2, <3>3, Zenon
  <2>3. CASE ~IsStruct(c)
    <3>1. PICK threw \in BOOLEAN : threw = (ret[c] # 4 * Access(c).nWords)
      OBVIOUS
    <3> QED
      BY <1>8, <2>1, <2>2, <2>3, <3>1, ViewNow
  <2>4. CASE IsStruct(c) /\ ret[c] # sizeof_device_rw
    BY <1>2, <1>8, <2>1, <2>2, <2>4, ViewNow
  <2>5. CASE IsStruct(c) /\ ret[c] = sizeof_device_rw
    <3>1. View(c) = State(log[c], done[c] + 1, buffer[c] \o result[c], FALSE, systemBar[d], dmaBar[d])
      BY <1>8, <2>1, <2>5, ViewNow
    <3>2. done[c] + 1 \in Nat /\ buffer[c] \o result[c] \in Seq(Word)
      BY <1>2, <2>1, ConcatProperties
    <3> QED
      BY <1>2, <3>1, <3>2, StateType
  <2> QED
    BY <2>3, <2>4, <2>5
<1> QED
  BY <1>6, <1>7, <1>8

(* Jobs are given once and for all. *)
LEMMA JobStays ==
  ASSUME [ClientsNext]_allVars
  PROVE  job' = job /\ Owners' = Owners
<1>1. job' = job
  BY DEF ClientsNext, ClientStep, Advance, Lock, OtherStep, allVars, clientVars, Construct, OpenReturns,
         CallForWord, WordReturns, LoopEnds, BarTooLarge, CallForArea, AreaReturns, Destruct,
         CloseReturns
<1> QED
  BY <1>1 DEF Owners

LEMMA ViewAtStart ==
  ASSUME ClientsInit, NEW c \in Clients
  PROVE  View(c) = State(<<>>, 0, <<>>, FALSE, mtcadummy_initialiseSystemBar,
                         [w \in 0 .. (MTCADUMMY_DMA_SIZE \div 4) - 1 |-> 0])
<1>1. /\ stage[c] = "start" /\ log[c] = <<>> /\ pc[c] = "idle"
      /\ systemBar[job[c].dev] = mtcadummy_initialiseSystemBar
      /\ dmaBar[job[c].dev] = [w \in 0 .. (MTCADUMMY_DMA_SIZE \div 4) - 1 |-> 0]
  BY JobFacts DEF ClientsInit, Init
<1>2. pc[c] \notin FirmwareLabels
  BY <1>1 DEF FirmwareLabels
<1> QED
  BY <1>1, <1>2, ViewNow

(* Between two accesses the state is that of the log and the bars. *)
LEMMA ViewBetween ==
  ASSUME DeliveryInv, ClientsInv, NEW c \in Clients, stage[c] = "working", pc[c] = "idle", done[c] = 0
  PROVE  View(c) = State(log[c], 0, <<>>, FALSE, systemBar[job[c].dev], dmaBar[job[c].dev])
<1>1. c \in Threads /\ ClientType /\ Looping(c)
  BY JobFacts DEF ClientsInv, ClientType, ClientState
<1>2. idx[c] = 0 /\ result[c] = <<>> /\ pc[c] \notin {"done"} \cup FirmwareLabels
  BY <1>1, Idle
<1>3. done[c] + idx[c] = 0 /\ buffer[c] \o result[c] = <<>>
  BY <1>1, <1>2, NothingDone
<1>4. View(c) = State(log[c], done[c] + idx[c], buffer[c] \o result[c], FALSE,
                      systemBar[job[c].dev], dmaBar[job[c].dev])
  BY <1>2, ViewNow
<1> QED
  BY <1>3, <1>4

-----------------------------------------------------------------------------
(* The interactive test: the state of the board after each of its writes,  *)
(* and while one of them waits for the firmware.                           *)
SampledBars(sys, dma) ==
  /\ REG(sys, 64) = 0 /\ REG(sys, 16) = nSamples
  /\ \A w \in 0 .. nSamples - 1 : dma[w] = w * w

AfterWrite(n, sys, dma) ==
  /\ n \in {1, 3, 4} => SampledBars(sys, dma)
  /\ n = 2 => REG(sys, 64) = 1 /\ \A r \in ClockRegisters : REG(sys, r) = 0
  /\ n = 4 => REG(sys, 68) = 0

DuringWrite(n, sys, dma) ==
  /\ n \in {1, 3} => REG(sys, 68) = 1
  /\ n = 2 => REG(sys, 64) = 1
  /\ n = 4 => SampledBars(sys, dma) /\ REG(sys, 68) = 0

(* Only its last access can have thrown, for then the job is over. *)
MainRun(v) ==
  LET l == Len(v.log) IN
    /\ l <= 4
    /\ \A n \in 1 .. l - 1 : ~v.log[n].threw
    /\ (l # 0 => ~v.log[l].threw) =>
         /\ ~v.stored /\ v.k = 0 => AfterWrite(l, v.sys, v.dma)
         /\ v.stored => v.k = 0 /\ DuringWrite(l + 1, v.sys, v.dma)
         /\ ~v.stored /\ v.k # 0 => v.k = 1 /\ AfterWrite(l + 1, v.sys, v.dma)

LEMMA MainAccesses ==
  ASSUME NEW d, NEW n \in 1 .. 4
  PROVE  main(d).accesses[n] = writeSingle(IF n = 2 THEN 64 ELSE 68, 0, IF n = 4 THEN 0 ELSE 1)
<1>1. n = 1 \/ n = 2 \/ n = 3 \/ n = 4
  OBVIOUS
<1> QED
  BY <1>1 DEF main, MTCADUMMY_WORD_ADC_ENA, MTCADUMMY_WORD_CLK_RST

(* The reactions to CLK_RST and ADC_ENA. *)
LEMMA ResetReaction ==
  ASSUME NEW sys \in SystemBar, NEW dma \in DmaBar, NEW fail, REG(sys, 64) = 1
  PROVE  LET n == mtcadummy_performActionOnWrite(sys, 64, fail) IN
           REG(n, 64) = 1 /\ \A r \in ClockRegisters : REG(n, r) = 0
<1> DEFINE R == Reaction(sys, 64, fail)
<1>1. R = [r \in ClockRegisters |-> 0]
  BY ReactionCases
<1>2. ClockRegisters \subseteq Register /\ 64 \in Register /\ 64 \notin ClockRegisters
  BY RegisterNumbers
<1> HIDE DEF R
<1>3. \A r \in Register : REG(mtcadummy_performActionOnWrite(sys, 64, fail), r) =
                            IF r \in DOMAIN R THEN R[r] ELSE REG(sys, r)
  BY RegisterAfter DEF R
<1> QED
  BY <1>1, <1>2, <1>3

LEMMA SamplingReaction ==
  ASSUME NEW sys \in SystemBar, NEW dma \in DmaBar, NEW fail
  PROVE  LET n == mtcadummy_performActionOnWrite(sys, 68, fail)
             m == SampledDma(sys, dma, 68)
         IN  /\ REG(sys, 68) # 0 => SampledBars(n, m)
             /\ REG(sys, 68) # 0 => \A w \in DOMAIN dma : w >= nSamples => m[w] = dma[w]
             /\ REG(sys, 68) = 0 => m = dma /\ \A r \in {16, 64, 68} : REG(n, r) = REG(sys, r)
             /\ REG(n, 60) = REG(sys, 60)
<1> DEFINE R == Reaction(sys, 68, fail)
           n == mtcadummy_performActionOnWrite(sys, 68, fail)
           m == SampledDma(sys, dma, 68)
<1>1. {16, 60, 64, 68} \subseteq Register
  BY DEF Register, MTCADUMMY_N_REGISTERS
<1>2. \A r \in Register : REG(n, r) = IF r \in DOMAIN R THEN R[r] ELSE REG(sys, r)
  BY RegisterAfter
<1>3. CASE REG(sys, 68) # 0
  <2>1. DOMAIN R = {16, 64} /\ R[16] = nSamples /\ R[64] = 0
    BY <1>3, ReactionCases
  <2>2. DOMAIN m = DOMAIN dma /\ \A w \in DOMAIN dma : m[w] = IF w < nSamples THEN w * w ELSE dma[w]
    BY <1>3, SamplingFills
  <2>3. DOMAIN dma = 0 .. (MTCADUMMY_DMA_SIZE \div 4) - 1 /\ nSamples <= MTCADUMMY_DMA_SIZE \div 4
        /\ nSamples \in Nat /\ MTCADUMMY_DMA_SIZE \div 4 \in Nat
    BY HeaderAssumption DEF DmaBar
  <2> HIDE DEF R, n, m
  <2>4. REG(n, 64) = 0 /\ REG(n, 16) = nSamples /\ REG(n, 60) = REG(sys, 60)
    BY <1>1, <1>2, <2>1
  <2>5. \A w \in 0 .. nSamples - 1 : m[w] = w * w
    BY <2>2, <2>3
  <2>6. \A w \in DOMAIN dma : w >= nSamples => m[w] = dma[w]
    BY <2>2, <2>3
  <2> QED
    BY <1>3, <2>4, <2>5, <2>6 DEF SampledBars, n, m
<1>4. CASE REG(sys, 68) = 0
  <2>1. DOMAIN R = {}
    BY <1>4 DEF Reaction, ReadOnlyValue, MTCADUMMY_WORD_CLK_RST, MTCADUMMY_WORD_ADC_ENA,
                MTCADUMMY_WORD_FIRMWARE, MTCADUMMY_WORD_COMPILATION, MTCADUMMY_WORD_DUMMY,
                MTCADUMMY_WORD_SPI_WRITE
  <2>2. m = dma
    BY <1>4, SamplingFills
  <2> HIDE DEF R, n, m
  <2>3. \A r \in {16, 60, 64, 68} : REG(n, r) = REG(sys, r)
    BY <1>1, <1>2, <2>1
  <2> QED
    BY <1>4, <2>2, <2>3 DEF n, m
<1> QED
  BY <1>3, <1>4

(* An outcome is added to a log. *)
LEMMA LogGrows ==
  ASSUME NEW l \in Seq(Outcomes), NEW threw \in BOOLEAN, NEW words \in Seq(Word)
  PROVE  LET n == Append(l, Outcome(threw, words)) IN
           /\ Len(l) \in Nat /\ Len(n) = Len(l) + 1
           /\ \A i \in 1 .. Len(l) : n[i] = l[i]
           /\ n[Len(l) + 1] = Outcome(threw, words)
           /\ n[Len(l) + 1].threw = threw /\ n[Len(l) + 1].data = words
<1> DEFINE o == Outcome(threw, words)
<1>1. o \in Outcomes /\ o.threw = threw /\ o.data = words
  BY DEF Outcome, Outcomes
<1> HIDE DEF o
<1>2. /\ Len(l) \in Nat /\ Len(Append(l, o)) = Len(l) + 1
      /\ \A i \in 1 .. Len(l) : Append(l, o)[i] = l[i]
      /\ Append(l, o)[Len(l) + 1] = o
  BY <1>1, AppendProperties
<1> QED
  BY <1>1, <1>2 DEF o

LEMMA MainStep ==
  ASSUME NEW d, NEW v \in SerialState, NEW n \in SerialState, MainRun(v),
         Serial(main(d), v, n) \/ Disturbed(main(d), v, n)
  PROVE  MainRun(n)
<1> DEFINE l == Len(v.log)
           a == main(d).accesses[l + 1]
           o == IF l + 1 = 2 THEN 64 ELSE 68
<1>1. /\ v.log \in Seq(Outcomes) /\ v.k \in Nat /\ v.got \in Seq(Word) /\ v.stored \in BOOLEAN
      /\ v.sys \in SystemBar /\ v.dma \in DmaBar /\ n.log \in Seq(Outcomes) /\ n.k \in Nat
  BY DEF SerialState
<1>2. l \in Nat /\ Len(main(d).accesses) = 4 /\ main(d).quits
  BY <1>1 DEF main
<1>3. l < 4 /\ \A i \in 1 .. l : ~v.log[i].threw
  BY <1>2 DEF Serial, Disturbed, MoreToDo
<1>4. l + 1 \in 1 .. 4
  BY <1>2, <1>3
<1>5. /\ a.op = "write" /\ a.bar = 0 /\ a.nWords = 1 /\ a.from = 0 /\ a.offset = o
      /\ a.data = << IF l + 1 = 4 THEN 0 ELSE 1 >>
  <2>1. PICK m : m = l + 1
    OBVIOUS
  <2>2. a = writeSingle(IF m = 2 THEN 64 ELSE 68, 0, IF m = 4 THEN 0 ELSE 1)
    BY <1>4, <2>1, MainAccesses
  <2> HIDE DEF a, l
  <2> QED
    BY <2>1, <2>2 DEF writeSingle, writeArea
<1>6. /\ ~v.stored /\ v.k = 0 => AfterWrite(l, v.sys, v.dma)
      /\ v.stored => v.k = 0 /\ DuringWrite(l + 1, v.sys, v.dma)
      /\ ~v.stored /\ v.k # 0 => v.k = 1 /\ AfterWrite(l + 1, v.sys, v.dma)
  BY <1>2, <1>3 DEF MainRun
<1>7. PICK fail \in BOOLEAN :
        \/ ReadsWord(a, v, n) \/ StoresWord(a, v, n) \/ Reacts(a, v, n, fail)
        \/ Ends(a, v, n) \/ Throws(a, v, n) \/ CutShort(a, v, n)
  BY DEF Serial, Disturbed
<1> HIDE DEF a
<1>8. v.k = 0 => WordOffset(a, v.k) = o /\ WordOffset(a, v.k) \div 4 = o \div 4
  BY <1>5 DEF WordOffset
<1>9. ASSUME n.log = v.log, n.stored = TRUE, n.k = 0, DuringWrite(l + 1, n.sys, n.dma)
      PROVE  MainRun(n)
  BY <1>2, <1>3, <1>9 DEF MainRun
<1>10. ASSUME n.log = v.log, n.stored = FALSE, n.k = 1, AfterWrite(l + 1, n.sys, n.dma)
       PROVE  MainRun(n)
  BY <1>2, <1>3, <1>10 DEF MainRun
<1>11. ASSUME NEW threw \in BOOLEAN, n.log = Append(v.log, Outcome(threw, v.got)),
              n.stored = FALSE, n.k = 0, ~threw => AfterWrite(l + 1, n.sys, n.dma)
       PROVE  MainRun(n)
  <2>1. /\ Len(n.log) = l + 1 /\ \A i \in 1 .. l : n.log[i] = v.log[i]
        /\ n.log[l + 1].threw = threw
    BY <1>1, <1>11, LogGrows
  <2>2. \A i \in 1 .. l : ~n.log[i].threw
    BY <1>3, <2>1
  <2>3. l + 1 <= 4 /\ (l + 1) - 1 = l
    BY <1>2, <1>3
  <2> HIDE DEF l
  <2> QED
    BY <1>2, <1>11, <2>1, <2>2, <2>3 DEF MainRun
<1>12. CASE ReadsWord(a, v, n)
  BY <1>5, <1>12 DEF ReadsWord
<1>13. CASE StoresWord(a, v, n)
  <2>1. /\ ~v.stored /\ v.k < 1 /\ n.log = v.log /\ n.k = v.k /\ n.stored = TRUE /\ n.dma = v.dma
        /\ n.sys = [v.sys EXCEPT ![WordOffset(a, v.k) \div 4] = Words(a, v.log)[v.k + 1]]
    <3>1. /\ ~v.stored /\ v.k < 1
          /\ n = State(v.log, v.k, v.got, TRUE,
                       [v.sys EXCEPT ![WordOffset(a, v.k) \div 4] = Words(a, v.log)[v.k + 1]], v.dma)
      BY <1>5, <1>13 DEF StoresWord
    <3> QED
      BY <3>1 DEF State
  <2>2. v.k = 0
    BY <1>1, <2>1
  <2>3. Words(a, v.log)[v.k + 1] = IF l + 1 = 4 THEN 0 ELSE 1
    BY <1>5, <2>2 DEF Words
  <2>4. n.sys = [v.sys EXCEPT ![o \div 4] = IF l + 1 = 4 THEN 0 ELSE 1]
    BY <1>8, <2>1, <2>2, <2>3
  <2>5. /\ REG(n.sys, o) = IF l + 1 = 4 THEN 0 ELSE 1
        /\ \A r \in {12, 16, 60, 64, 68} : r # o => REG(n.sys, r) = REG(v.sys, r)
    <3>1. o \in {12, 64, 68, 72, 76}
      OBVIOUS
    <3> HIDE DEF o, l
    <3>2. PICK word : word = IF l + 1 = 4 THEN 0 ELSE 1
      OBVIOUS
    <3>3. n.sys = [v.sys EXCEPT ![o \div 4] = word]
      BY <2>4, <3>2
    <3> QED
      <4>0. PICK m : m = n.sys
        OBVIOUS
      <4>1. PICK sys \in SystemBar : sys = v.sys
        BY <1>1
      <4>2. m = [sys EXCEPT ![o \div 4] = word]
        BY <3>3, <4>0, <4>1
      <4>3. REG(m, o) = word /\ \A r \in {12, 16, 60, 64, 68} : r # o => REG(m, r) = REG(sys, r)
        BY <3>1, <4>2, <4>1 DEF SystemBar, REG, MTCADUMMY_N_REGISTERS
      <4> QED
        BY <3>2, <4>0, <4>1, <4>3
  <2>6. AfterWrite(l, v.sys, v.dma)
    BY <1>6, <2>1, <2>2
  <2>7. DuringWrite(l + 1, n.sys, n.dma)
    <3>1. CASE l + 1 = 2
      BY <2>5, <3>1 DEF DuringWrite
    <3>2. CASE l + 1 \in {1, 3}
      BY <2>5, <3>2 DEF DuringWrite
    <3>3. CASE l + 1 = 4
      <4>1. n.dma = v.dma
        BY <2>1
      <4> HIDE DEF l
      <4>2. l = 3 /\ o = 68
        BY <1>2, <3>3
      <4>3. SampledBars(v.sys, v.dma)
        BY <2>6, <4>2 DEF AfterWrite
      <4>4. REG(n.sys, 68) = 0 /\ REG(n.sys, 64) = REG(v.sys, 64) /\ REG(n.sys, 16) = REG(v.sys, 16)
        BY <2>5, <3>3, <4>2
      <4> QED
        BY <3>3, <4>1, <4>3, <4>4 DEF DuringWrite, SampledBars
    <3> QED
      BY <1>4, <3>1, <3>2, <3>3
  <2> QED
    BY <1>9, <2>1, <2>2, <2>7
<1>14. CASE Reacts(a, v, n, fail)
  <2>1. v.stored
    BY <1>14 DEF Reacts
  <2>2. v.k = 0 /\ DuringWrite(l + 1, v.sys, v.dma)
    BY <1>6, <2>1
  <2>3. WordOffset(a, v.k) = o
    BY <1>8, <2>2
  <2>4. ~WriteActionFails(o)
    BY DEF WriteActionFails, MTCADUMMY_BROKEN_REGISTER, MTCADUMMY_BROKEN_WRITE
  <2>5. /\ n.stored = FALSE /\ n.log = v.log /\ n.k = v.k + 1
        /\ n.sys = mtcadummy_performActionOnWrite(v.sys, o, fail)
        /\ n.dma = SampledDma(v.sys, v.dma, o)
    <3>1. n = State(v.log, v.k + 1, v.got, FALSE, mtcadummy_performActionOnWrite(v.sys, o, fail),
                    SampledDma(v.sys, v.dma, o))
      BY <1>14, <2>3, <2>4 DEF Reacts
    <3> QED
      BY <3>1 DEF State
  <2>6. AfterWrite(l + 1, n.sys, n.dma)
    <3>1. CASE l + 1 = 2
      <4>1. o = 64 /\ REG(v.sys, 64) = 1
        BY <2>2, <3>1 DEF DuringWrite
      <4>2. REG(n.sys, 64) = 1 /\ \A r \in ClockRegisters : REG(n.sys, r) = 0
        BY <1>1, <2>5, <4>1, ResetReaction
      <4> QED
        BY <3>1, <4>2 DEF AfterWrite
    <3>2. CASE l + 1 \in {1, 3}
      <4>1. o = 68 /\ REG(v.sys, 68) # 0
        BY <2>2, <3>2 DEF DuringWrite
      <4>2. SampledBars(n.sys, n.dma)
        BY <1>1, <2>5, <4>1, SamplingReaction
      <4> QED
        BY <3>2, <4>2 DEF AfterWrite
    <3>3. CASE l + 1 = 4
      <4>1. o = 68 /\ REG(v.sys, 68) = 0 /\ SampledBars(v.sys, v.dma)
        BY <2>2, <3>3 DEF DuringWrite
      <4>2. n.dma = v.dma /\ \A r \in {16, 64, 68} : REG(n.sys, r) = REG(v.sys, r)
        BY <1>1, <2>5, <4>1, SamplingReaction
      <4> QED
        BY <3>3, <4>1, <4>2 DEF AfterWrite, SampledBars
    <3> QED
      BY <1>4, <3>1, <3>2, <3>3
  <2>7. n.stored = FALSE /\ n.k = 1
    BY <2>2, <2>5
  <2> QED
    BY <1>10, <2>5, <2>6, <2>7
<1>15. CASE Ends(a, v, n)
  <2>1. /\ v.k = 1 /\ ~v.stored /\ n.stored = FALSE /\ n.k = 0
        /\ n.log = Append(v.log, Outcome(FALSE, v.got)) /\ n.sys = v.sys /\ n.dma = v.dma
    <3>1. v.k = 1 /\ ~v.stored /\ n = Over(v, FALSE, v.sys, v.dma)
      BY <1>5, <1>15 DEF Ends
    <3> QED
      BY <3>1 DEF Over, State
  <2>2. AfterWrite(l + 1, n.sys, n.dma)
    BY <1>6, <2>1
  <2> QED
    BY <1>11, <2>1, <2>2
<1>16. CASE Throws(a, v, n) \/ CutShort(a, v, n)
  <2>1. n.log = Append(v.log, Outcome(TRUE, v.got)) /\ n.stored = FALSE /\ n.k = 0
    <3>1. PICK x, y : n = Over(v, TRUE, x, y)
      BY <1>16 DEF Throws, CutShort
    <3> QED
      BY <3>1 DEF Over, State
  <2>2. ~TRUE => AfterWrite(l + 1, n.sys, n.dma)
    OBVIOUS
  <2> QED
    BY <1>11, <2>1, <2>2
<1> QED
  BY <1>7, <1>12, <1>13, <1>14, <1>15, <1>16

MainRuns == \A c \in Owners : job[c] = main(job[c].dev) => MainRun(View(c))

(* The registers and the samples main announces to its user are those of   *)
(* the board whenever it pauses after a write that succeeded               *)
(* (test/testMtcaDummy.cpp), whatever signals, injected errors, faults,    *)
(* dumps and readers there are.                                            *)
THEOREM Pauses == ClientsSpec => []PausesAsDocumented
<1> DEFINE Both == DeliveryInv /\ ClientsInv
           ViewTypes == \A c \in Clients : View(c) \in SerialState
<1>0. Both => ViewTypes
  BY ViewType
<1>1. ClientsInit => MainRuns
  <2> SUFFICES ASSUME ClientsInit, NEW c \in Owners PROVE MainRun(View(c))
    BY DEF MainRuns
  <2>1. View(c) = State(<<>>, 0, <<>>, FALSE, mtcadummy_initialiseSystemBar,
                        [w \in 0 .. (MTCADUMMY_DMA_SIZE \div 4) - 1 |-> 0])
    BY ViewAtStart DEF Owners
  <2>2. View(c).log = <<>> /\ View(c).k = 0 /\ View(c).stored = FALSE
    BY <2>1 DEF State
  <2>3. Len(<<>>) = 0 /\ 1 .. 0 - 1 = {}
    OBVIOUS
  <2> QED
    BY <2>2, <2>3 DEF MainRun, AfterWrite
<1>2. MainRuns /\ Both /\ Both' /\ ViewTypes /\ ViewTypes' /\ [ClientsNext]_allVars => MainRuns'
  <2> SUFFICES ASSUME MainRuns, DeliveryInv, ClientsInv, DeliveryInv', ClientsInv', ViewTypes,
                      ViewTypes', [ClientsNext]_allVars, NEW c \in Owners,
                      job[c] = main(job[c].dev)
               PROVE  MainRun(View(c))'
    BY JobStays DEF MainRuns
  <2>1. View(c) \in SerialState /\ View(c)' \in SerialState
    BY DEF Owners, ViewTypes
  <2>2. Progress(c)
    BY ClientsStep DEF DeliveryInv
  <2>3. MainRun(View(c))
    BY DEF MainRuns
  <2>4. MainRun(View(c)')
    BY <2>1, <2>2, <2>3, MainStep DEF Progress
  <2> QED
    BY <2>4
<1>3. MainRuns /\ Both => PausesAsDocumented
  <2> SUFFICES ASSUME MainRuns, DeliveryInv, ClientsInv, NEW c \in Owners,
                      job[c] = main(job[c].dev), stage[c] = "working", pc[c] = "idle", done[c] = 0,
                      log[c] # <<>>, ~log[c][Len(log[c])].threw
               PROVE  LET d == job[c].dev IN
                        CASE Len(log[c]) \in {1, 3} -> Started(d)
                          [] Len(log[c]) = 2 ->
                               /\ REG(systemBar[d], MTCADUMMY_WORD_CLK_RST) = 1
                               /\ \A r \in ClockRegisters : REG(systemBar[d], r) = 0
                          [] OTHER -> Started(d) /\ REG(systemBar[d], MTCADUMMY_WORD_ADC_ENA) = 0
    BY DEF PausesAsDocumented
  <2> DEFINE d == job[c].dev
             l == Len(log[c])
  <2>1. View(c) = State(log[c], 0, <<>>, FALSE, systemBar[d], dmaBar[d])
    BY ViewBetween DEF Owners
  <2>2. /\ View(c).log = log[c] /\ View(c).k = 0 /\ View(c).stored = FALSE
        /\ View(c).sys = systemBar[d] /\ View(c).dma = dmaBar[d]
    BY <2>1 DEF State
  <2>3. log[c] \in Seq(Outcomes)
    BY DEF Owners, ClientsInv, ClientType
  <2>4. l \in Nat /\ l # 0
    BY <2>3, EmptySeq
  <2>5. MainRun(View(c))
    BY DEF MainRuns
  <2>6. l <= 4 /\ AfterWrite(l, systemBar[d], dmaBar[d])
    BY <2>2, <2>4, <2>5 DEF MainRun
  <2> HIDE DEF l, d
  <2>7. l \in {1, 2, 3, 4}
    BY <2>4, <2>6
  <2>8. /\ l \in {1, 3} => Started(d)
        /\ l = 2 => /\ REG(systemBar[d], MTCADUMMY_WORD_CLK_RST) = 1
                    /\ \A r \in ClockRegisters : REG(systemBar[d], r) = 0
        /\ l = 4 => Started(d) /\ REG(systemBar[d], MTCADUMMY_WORD_ADC_ENA) = 0
    BY <2>6 DEF AfterWrite, SampledBars, Started, MTCADUMMY_WORD_CLK_RST, MTCADUMMY_WORD_CLK_CNT_0,
                MTCADUMMY_WORD_ADC_ENA
  <2>9. /\ l \in {1, 3} => l # 2
        /\ l \notin {1, 3} /\ l # 2 => l = 4
    BY <2>7
  <2> QED
    BY <2>7, <2>8, <2>9 DEF l, d
<1> QED
  BY <1>0, <1>1, <1>2, <1>3, ClientsInductive, PTL DEF ClientsSpec

-----------------------------------------------------------------------------
(* The two wrappers.  What a ReaderWriter does next is determined, and it  *)
(* never comes back: its log grows, or it gets on within an access.        *)
Successor(accesses, s, n) ==
  LET a == accesses[Len(s.log) + 1] IN
    \/ ReadsWord(a, s, n) \/ StoresWord(a, s, n) \/ Reacts(a, s, n, FALSE)
    \/ Ends(a, s, n) \/ Throws(a, s, n)

Before(s, n) ==
  /\ Len(s.log) <= Len(n.log)
  /\ \A i \in 1 .. Len(s.log) : n.log[i] = s.log[i]
  /\ Len(n.log) = Len(s.log) => s.k < n.k \/ (s.k = n.k /\ s.stored = FALSE /\ n.stored = TRUE)

LEMMA OneSuccessor ==
  ASSUME NEW accesses, NEW s \in SerialState, NEW n, NEW m,
         Successor(accesses, s, n), Successor(accesses, s, m)
  PROVE  n = m
<1> DEFINE a == accesses[Len(s.log) + 1]
<1>1. s.k \in Nat /\ s.stored \in BOOLEAN
  BY DEF SerialState
<1>2. ASSUME NEW x, Successor(accesses, s, x)
      PROVE  \/ ReadsWord(a, s, x) \/ StoresWord(a, s, x) \/ Reacts(a, s, x, FALSE)
             \/ Ends(a, s, x) \/ Throws(a, s, x)
  BY <1>2 DEF Successor
<1> HIDE DEF a
<1>3. s.k < a.nWords => s.k # a.nWords
  BY <1>1
<1>4. ASSUME NEW x
      PROVE  /\ ReadsWord(a, s, x) => ~s.stored /\ s.k # a.nWords /\ ~Refused(a, s.k) /\ a.op = "read"
             /\ StoresWord(a, s, x) => ~s.stored /\ s.k # a.nWords /\ ~Refused(a, s.k) /\ a.op # "read"
             /\ Reacts(a, s, x, FALSE) => s.stored
             /\ Ends(a, s, x) => ~s.stored /\ s.k = a.nWords
             /\ Throws(a, s, x) => ~s.stored /\ s.k # a.nWords /\ Refused(a, s.k)
  <2>1. ReadsWord(a, s, x) => ~s.stored /\ s.k # a.nWords /\ ~Refused(a, s.k) /\ a.op = "read"
    BY <1>3 DEF ReadsWord
  <2>2. StoresWord(a, s, x) => ~s.stored /\ s.k # a.nWords /\ ~Refused(a, s.k) /\ a.op # "read"
    BY <1>3 DEF StoresWord
  <2>3. (Reacts(a, s, x, FALSE) => s.stored) /\ (Ends(a, s, x) => ~s.stored /\ s.k = a.nWords)
    BY DEF Reacts, Ends
  <2>4. Throws(a, s, x) => ~s.stored /\ s.k # a.nWords /\ Refused(a, s.k)
    BY <1>3 DEF Throws
  <2> QED
    BY <2>1, <2>2, <2>3, <2>4
<1>5. CASE ReadsWord(a, s, n)
  <2>1. ReadsWord(a, s, m)
    BY <1>2, <1>4, <1>5
  <2> QED
    BY <1>5, <2>1 DEF ReadsWord
<1>6. CASE StoresWord(a, s, n)
  <2>1. StoresWord(a, s, m)
    BY <1>2, <1>4, <1>6
  <2> QED
    BY <1>6, <2>1 DEF StoresWord
<1>7. CASE Reacts(a, s, n, FALSE)
  <2>1. Reacts(a, s, m, FALSE)
    BY <1>2, <1>4, <1>7
  <2> QED
    BY <1>7, <2>1 DEF Reacts
<1>8. CASE Ends(a, s, n)
  <2>1. Ends(a, s, m)
    BY <1>2, <1>4, <1>8
  <2> QED
    BY <1>8, <2>1 DEF Ends
<1>9. CASE Throws(a, s, n)
  <2>1. Throws(a, s, m)
    BY <1>2, <1>4, <1>9
  <2> QED
    BY <1>9, <2>1 DEF Throws
<1> QED
  BY <1>2, <1>5, <1>6, <1>7, <1>8, <1>9

LEMMA GoesForward ==
  ASSUME NEW accesses, NEW s \in SerialState, NEW n \in SerialState, Successor(accesses, s, n)
  PROVE  Before(s, n)
<1> DEFINE a == accesses[Len(s.log) + 1]
<1>1. s.log \in Seq(Outcomes) /\ s.k \in Nat /\ s.got \in Seq(Word)
  BY DEF SerialState
<1>2. \/ ReadsWord(a, s, n) \/ StoresWord(a, s, n) \/ Reacts(a, s, n, FALSE)
      \/ Ends(a, s, n) \/ Throws(a, s, n)
  BY DEF Successor
<1> HIDE DEF a
<1>3. ASSUME NEW threw \in BOOLEAN, NEW x, NEW y, n = Over(s, threw, x, y)
      PROVE  Before(s, n)
  <2>1. n.log = Append(s.log, Outcome(threw, s.got))
    BY <1>3 DEF Over, State
  <2>2. PICK l \in Seq(Outcomes) : l = s.log
    BY <1>1
  <2>3. /\ Len(l) \in Nat /\ Len(n.log) = Len(l) + 1
        /\ \A i \in 1 .. Len(l) : n.log[i] = l[i]
    BY <1>1, <2>1, <2>2, LogGrows
  <2>4. Len(l) <= Len(n.log) /\ Len(n.log) # Len(l)
    BY <2>3
  <2> QED
    BY <2>2, <2>3, <2>4 DEF Before
<1>4. ASSUME NEW x, NEW y, NEW got, n = State(s.log, s.k + 1, got, FALSE, x, y)
      PROVE  Before(s, n)
  <2>1. n.log = s.log /\ n.k = s.k + 1
    BY <1>4 DEF State
  <2>2. Len(s.log) \in Nat /\ s.k < n.k
    BY <1>1, <2>1
  <2> QED
    BY <2>1, <2>2 DEF Before
<1>5. ASSUME NEW x, NEW y, NEW got, ~s.stored, n = State(s.log, s.k, got, TRUE, x, y)
      PROVE  Before(s, n)
  <2>1. n.log = s.log /\ n.k = s.k /\ n.stored = TRUE
    BY <1>5 DEF State
  <2>2. Len(s.log) \in Nat /\ s.stored = FALSE
    BY <1>1, <1>5 DEF SerialState
  <2> QED
    BY <2>1, <2>2 DEF Before
<1>6. CASE ReadsWord(a, s, n)
  <2>1. \E got : n = State(s.log, s.k + 1, got, FALSE, s.sys, s.dma)
    BY <1>6 DEF ReadsWord
  <2> QED
    BY <1>4, <2>1
<1>7. CASE StoresWord(a, s, n)
  <2>1. \/ \E x : n = State(s.log, s.k, s.got, TRUE, x, s.dma)
        \/ \E x : n = State(s.log, s.k + 1, s.got, FALSE, s.sys, x)
    BY <1>7 DEF StoresWord
  <2>2. ~s.stored
    BY <1>7 DEF StoresWord
  <2> QED
    BY <1>4, <1>5, <2>1, <2>2
<1>8. CASE Reacts(a, s, n, FALSE)
  <2>1. \/ \E x, y : n = Over(s, TRUE, x, y)
        \/ \E x, y : n = State(s.log, s.k + 1, s.got, FALSE, x, y)
    BY <1>8 DEF Reacts
  <2> QED
    BY <1>3, <1>4, <2>1
<1>9. CASE Ends(a, s, n)
  BY <1>3, <1>9 DEF Ends
<1>10. CASE Throws(a, s, n)
  BY <1>3, <1>10 DEF Throws
<1> QED
  BY <1>2, <1>6, <1>7, <1>8, <1>9, <1>10

LEMMA BeforeAgain ==
  ASSUME NEW s \in SerialState, NEW n \in SerialState, NEW m \in SerialState,
         Before(s, n), Before(n, m)
  PROVE  Before(s, m)
<1>1. Len(s.log) \in Nat /\ Len(n.log) \in Nat /\ Len(m.log) \in Nat
      /\ s.k \in Nat /\ n.k \in Nat /\ m.k \in Nat
  BY DEF SerialState
<1>2. /\ Len(s.log) <= Len(n.log) /\ Len(n.log) <= Len(m.log)
      /\ \A i \in 1 .. Len(s.log) : n.log[i] = s.log[i]
      /\ \A i \in 1 .. Len(n.log) : m.log[i] = n.log[i]
  BY DEF Before
<1>3. \A i \in 1 .. Len(s.log) : m.log[i] = s.log[i]
  BY <1>1, <1>2
<1>4. ASSUME Len(m.log) = Len(s.log)
      PROVE  s.k < m.k \/ (s.k = m.k /\ s.stored = FALSE /\ m.stored = TRUE)
  <2>1. Len(n.log) = Len(s.log) /\ Len(m.log) = Len(n.log)
    BY <1>1, <1>2, <1>4
  <2>2. /\ s.k < n.k \/ (s.k = n.k /\ s.stored = FALSE /\ n.stored = TRUE)
        /\ n.k < m.k \/ (n.k = m.k /\ n.stored = FALSE /\ m.stored = TRUE)
    BY <2>1 DEF Before
  <2> QED
    BY <1>1, <2>2
<1>5. Len(s.log) <= Len(m.log)
  BY <1>1, <1>2
<1> QED
  BY <1>3, <1>4, <1>5 DEF Before

(* Two ReaderWriters with the same accesses go the same way: what they     *)
(* have come to are two places on one chain of successors.                 *)
Way(accesses, n, f) ==
  /\ f \in [0 .. n -> SerialState]
  /\ \A i \in 0 .. n - 1 : Successor(accesses, f[i], f[i + 1])
  /\ \A i, j \in 0 .. n : i < j => Before(f[i], f[j])

OnOneWay(accesses, s, r) ==
  \E n \in Nat : \E f : Way(accesses, n, f) /\ \E i, j \in 0 .. n : s = f[i] /\ r = f[j]

LEMMA WayStarts ==
  ASSUME NEW accesses, NEW s \in SerialState
  PROVE  OnOneWay(accesses, s, s)
<1> DEFINE f == [i \in 0 .. 0 |-> s]
<1>1. f \in [0 .. 0 -> SerialState] /\ f[0] = s
  OBVIOUS
<1>2. 0 .. 0 - 1 = {} /\ \A i, j \in 0 .. 0 : ~(i < j)
  OBVIOUS
<1> HIDE DEF f
<1>3. Way(accesses, 0, f)
  BY <1>1, <1>2 DEF Way
<1> QED
  BY <1>1, <1>3 DEF OnOneWay

LEMMA WayTurned ==
  ASSUME NEW accesses, NEW s, NEW r, OnOneWay(accesses, s, r)
  PROVE  OnOneWay(accesses, r, s)
BY DEF OnOneWay

LEMMA WayGoesOn ==
  ASSUME NEW accesses, NEW s, NEW r, NEW m \in SerialState,
         OnOneWay(accesses, s, r), Successor(accesses, s, m)
  PROVE  OnOneWay(accesses, m, r)
<1>1. PICK n \in Nat : \E f : Way(accesses, n, f) /\ \E i, j \in 0 .. n : s = f[i] /\ r = f[j]
  BY DEF OnOneWay
<1>2. PICK f : Way(accesses, n, f) /\ \E i, j \in 0 .. n : s = f[i] /\ r = f[j]
  BY <1>1
<1>3. PICK i \in 0 .. n, j \in 0 .. n : s = f[i] /\ r = f[j]
  BY <1>2
<1>4. /\ f \in [0 .. n -> SerialState]
      /\ \A k \in 0 .. n - 1 : Successor(accesses, f[k], f[k + 1])
      /\ \A k, l \in 0 .. n : k < l => Before(f[k], f[l])
  BY <1>2 DEF Way
<1>5. CASE i < n
  <2>1. i \in 0 .. n - 1 /\ i + 1 \in 0 .. n
    BY <1>5
  <2>2. m = f[i + 1]
    <3>1. Successor(accesses, s, f[i + 1]) /\ s \in SerialState
      BY <1>3, <1>4, <2>1
    <3> QED
      BY <3>1, OneSuccessor
  <2> QED
    BY <1>2, <1>3, <2>1, <2>2 DEF OnOneWay
<1>6. CASE i = n
  <2> DEFINE g == [k \in 0 .. n + 1 |-> IF k <= n THEN f[k] ELSE m]
  <2>1. g \in [0 .. n + 1 -> SerialState] /\ g[n + 1] = m /\ \A k \in 0 .. n : g[k] = f[k]
    BY <1>4
  <2> HIDE DEF g
  <2>2. ASSUME NEW k \in 0 .. (n + 1) - 1
        PROVE  Successor(accesses, g[k], g[k + 1])
    <3>1. CASE k = n
      BY <1>3, <1>6, <2>1, <3>1
    <3>2. CASE k # n
      <4>1. k \in 0 .. n - 1 /\ k \in 0 .. n /\ k + 1 \in 0 .. n
        BY <3>2
      <4> QED
        BY <1>4, <2>1, <4>1
    <3> QED
      BY <3>1, <3>2
  <2>3. Before(f[n], m) /\ f[n] \in SerialState
    BY <1>3, <1>4, <1>6, GoesForward
  <2>4. ASSUME NEW k \in 0 .. n + 1, NEW l \in 0 .. n + 1, k < l
        PROVE  Before(g[k], g[l])
    <3>1. k \in 0 .. n /\ g[k] = f[k] /\ f[k] \in SerialState
      BY <1>4, <2>1, <2>4
    <3>2. CASE l # n + 1
      <4>1. l \in 0 .. n
        BY <3>2
      <4> QED
        BY <1>4, <2>1, <2>4, <3>1, <4>1
    <3>3. CASE l = n + 1 /\ k = n
      BY <2>1, <2>3, <3>1, <3>3
    <3>4. CASE l = n + 1 /\ k # n
      <4>1. n \in 0 .. n /\ k < n
        BY <3>1, <3>4
      <4>2. Before(f[k], f[n])
        BY <1>4, <3>1, <4>1
      <4>3. Before(f[k], m)
        BY <2>3, <3>1, <4>2, BeforeAgain
      <4> QED
        BY <2>1, <3>1, <3>4, <4>3
    <3> QED
      BY <3>2, <3>3, <3>4
  <2>5. Way(accesses, n + 1, g)
    BY <2>1, <2>2, <2>4 DEF Way
  <2>6. n + 1 \in Nat /\ n + 1 \in 0 .. n + 1 /\ j \in 0 .. n + 1
    OBVIOUS
  <2> QED
    BY <1>3, <2>1, <2>5, <2>6 DEF OnOneWay
<1> QED
  BY <1>3, <1>5, <1>6

(* On one way the outcomes are the same, and so are the bars between two   *)
(* accesses.                                                               *)
LEMMA OneWayOutcomes ==
  ASSUME NEW accesses, NEW s, NEW r, OnOneWay(accesses, s, r)
  PROVE  \A n \in 1 .. Len(s.log) : n <= Len(r.log) => s.log[n] = r.log[n]
<1>1. PICK n \in Nat : \E f : Way(accesses, n, f) /\ \E i, j \in 0 .. n : s = f[i] /\ r = f[j]
  BY DEF OnOneWay
<1>2. PICK f : Way(accesses, n, f) /\ \E i, j \in 0 .. n : s = f[i] /\ r = f[j]
  BY <1>1
<1>3. PICK i \in 0 .. n, j \in 0 .. n : s = f[i] /\ r = f[j]
  BY <1>2
<1>4. s \in SerialState /\ r \in SerialState
  BY <1>2, <1>3 DEF Way
<1>5. Len(s.log) \in Nat /\ Len(r.log) \in Nat
  BY <1>4 DEF SerialState
<1>6. i < j \/ i = j \/ j < i
  OBVIOUS
<1>7. CASE i = j
  BY <1>3, <1>7
<1>8. CASE i < j
  <2>1. Before(s, r)
    BY <1>2, <1>3, <1>8 DEF Way
  <2> QED
    BY <1>5, <2>1 DEF Before
<1>9. CASE j < i
  <2>1. Before(r, s)
    BY <1>2, <1>3, <1>9 DEF Way
  <2> QED
    BY <1>5, <2>1 DEF Before
<1> QED
  BY <1>6, <1>7, <1>8, <1>9

LEMMA OneWayBars ==
  ASSUME NEW accesses, NEW s, NEW r, OnOneWay(accesses, s, r), Len(s.log) = Len(r.log),
         s.k = 0, r.k = 0, s.stored = FALSE, r.stored = FALSE
  PROVE  s = r
<1>1. PICK n \in Nat : \E f : Way(accesses, n, f) /\ \E i, j \in 0 .. n : s = f[i] /\ r = f[j]
  BY DEF OnOneWay
<1>2. PICK f : Way(accesses, n, f) /\ \E i, j \in 0 .. n : s = f[i] /\ r = f[j]
  BY <1>1
<1>3. PICK i \in 0 .. n, j \in 0 .. n : s = f[i] /\ r = f[j]
  BY <1>2
<1>4. s \in SerialState /\ r \in SerialState
  BY <1>2, <1>3 DEF Way
<1>5. Len(s.log) \in Nat /\ Len(r.log) \in Nat
  BY <1>4 DEF SerialState
<1>6. i < j \/ i = j \/ j < i
  OBVIOUS
<1>7. CASE i = j
  BY <1>3, <1>7
<1>8. CASE i < j
  <2>1. Before(s, r)
    BY <1>2, <1>3, <1>8 DEF Way
  <2> QED
    BY <1>5, <2>1 DEF Before
<1>9. CASE j < i
  <2>1. Before(r, s)
    BY <1>2, <1>3, <1>9 DEF Way
  <2> QED
    BY <1>5, <2>1 DEF Before
<1> QED
  BY <1>6, <1>7, <1>8, <1>9

(* A client that is not in the driver and not inside an access. *)
LEMMA ViewAtRest ==
  ASSUME DeliveryInv, ClientsInv, NEW c \in Clients, pc[c] = "idle", done[c] = 0
  PROVE  View(c) = State(log[c], 0, <<>>, FALSE, systemBar[job[c].dev], dmaBar[job[c].dev])
<1>1. CASE stage[c] = "working"
  BY <1>1, ViewBetween
<1>2. CASE stage[c] # "working"
  <2>1. pc[c] \notin FirmwareLabels
    BY DEF FirmwareLabels
  <2> QED
    BY <1>2, <2>1, ViewNow
<1> QED
  BY <1>1, <1>2

(* The outcomes the client knows of are in its view. *)
LEMMA ViewLog ==
  ASSUME DeliveryInv, ClientsInv, NEW c \in Clients
  PROVE  /\ log[c] \in Seq(Outcomes) /\ Len(log[c]) <= Len(View(c).log)
         /\ \A n \in 1 .. Len(log[c]) : View(c).log[n] = log[c][n]
<1>1. log[c] \in Seq(Outcomes) /\ Len(log[c]) \in Nat /\ buffer[c] \in Seq(Word)
  BY DEF ClientsInv, ClientType
<1>2. CASE View(c).log = log[c]
  BY <1>1, <1>2
<1>3. ASSUME NEW o, View(c).log = Append(log[c], o)
      PROVE  /\ Len(log[c]) <= Len(View(c).log)
             /\ \A n \in 1 .. Len(log[c]) : View(c).log[n] = log[c][n]
  <2>1. View(c) \in SerialState
    BY ViewType
  <2>2. Len(Append(log[c], o)) = Len(log[c]) + 1
        /\ \A n \in 1 .. Len(log[c]) : Append(log[c], o)[n] = log[c][n]
    BY <1>1
  <2> QED
    BY <1>1, <1>3, <2>2
<1>4. View(c).log = log[c] \/ \E o : View(c).log = Append(log[c], o)
  BY DEF View, State
<1> QED
  BY <1>1, <1>2, <1>3, <1>4

Together ==
  ~Disturbable =>
    \A a, b \in Owners : job[a].accesses = job[b].accesses =>
      OnOneWay(job[a].accesses, View(a), View(b))

(* StructReaderWriter and NormalReaderWriter deliver the same words, throw *)
(* at the same accesses and leave the same bars.                           *)
THEOREM WrappersAgree == ClientsSpec => []ClientsAgree
<1> DEFINE Both == DeliveryInv /\ ClientsInv
           ViewTypes == \A c \in Clients : View(c) \in SerialState
<1>0. Both => ViewTypes
  BY ViewType
<1>1. ClientsInit /\ ViewTypes => Together
  <2> SUFFICES ASSUME ClientsInit, ViewTypes, NEW a \in Owners, NEW b \in Owners
               PROVE  OnOneWay(job[a].accesses, View(a), View(b))
    BY DEF Together
  <2>1. a \in Clients /\ b \in Clients /\ View(a) \in SerialState
    BY DEF Owners
  <2>2. View(a) = View(b)
    BY <2>1, ViewAtStart
  <2>3. OnOneWay(job[a].accesses, View(a), View(a))
    BY <2>1, WayStarts
  <2> QED
    BY <2>2, <2>3
<1>2. Together /\ Both /\ Both' /\ ViewTypes /\ ViewTypes' /\ [ClientsNext]_allVars => Together'
  <2> SUFFICES ASSUME Together, DeliveryInv, ClientsInv, DeliveryInv', ClientsInv', ViewTypes,
                      ViewTypes', [ClientsNext]_allVars, ~Disturbable,
                      NEW a \in Owners, NEW b \in Owners, job[a].accesses = job[b].accesses
               PROVE  OnOneWay(job[a].accesses, View(a)', View(b)')
    BY JobStays DEF Together, Disturbable
  <2> DEFINE accesses == job[a].accesses
  <2>1. \A c \in Owners : View(c) \in SerialState /\ View(c)' \in SerialState
    BY DEF Owners
  <2>2. \A c \in Owners : Progress(c)
    BY ClientsStep DEF DeliveryInv
  <2>3. \A c \in Owners : View(c)' = View(c) \/ Successor(job[c].accesses, View(c), View(c)')
    BY <2>2 DEF Progress, Serial, Successor
  <2>4. OnOneWay(accesses, View(a), View(b))
    BY DEF Together
  <2> HIDE DEF ViewTypes
  <2>5. OnOneWay(accesses, View(a)', View(b))
    <3>1. CASE View(a)' = View(a)
      BY <2>4, <3>1
    <3>2. CASE Successor(accesses, View(a), View(a)')
      BY <2>1, <2>4, <3>2, WayGoesOn
    <3> QED
      BY <2>3, <3>1, <3>2
  <2>6. OnOneWay(accesses, View(b), View(a)')
    BY <2>5, WayTurned
  <2>7. OnOneWay(accesses, View(b)', View(a)')
    <3>1. CASE View(b)' = View(b)
      BY <2>6, <3>1
    <3>2. CASE Successor(accesses, View(b), View(b)')
      BY <2>1, <2>6, <3>2, WayGoesOn
    <3> QED
      BY <2>3, <3>1, <3>2
  <2> QED
    BY <2>7, WayTurned
<1>3. Together /\ Both => ClientsAgree
  <2> SUFFICES ASSUME Together, DeliveryInv, ClientsInv, ~Disturbable,
                      NEW a \in Owners, NEW b \in Owners, job[a].accesses = job[b].accesses
               PROVE  /\ \A n \in 1 .. Len(log[a]) : n <= Len(log[b]) => log[a][n] = log[b][n]
                      /\ Len(log[a]) = Len(log[b]) /\ done[a] = 0 /\ done[b] = 0
                           /\ {pc[a], pc[b]} = {"idle"} =>
                           /\ systemBar[job[a].dev] = systemBar[job[b].dev]
                           /\ dmaBar[job[a].dev] = dmaBar[job[b].dev]
    BY DEF ClientsAgree
  <2>1. a \in Clients /\ b \in Clients /\ OnOneWay(job[a].accesses, View(a), View(b))
    BY DEF Owners, Together
  <2>2. /\ \A n \in 1 .. Len(View(a).log) : n <= Len(View(b).log) => View(a).log[n] = View(b).log[n]
        /\ Len(View(a).log) = Len(View(b).log) /\ View(a).k = 0 /\ View(b).k = 0
             /\ View(a).stored = FALSE /\ View(b).stored = FALSE => View(a) = View(b)
    <3>1. PICK s, r, accesses :
            s = View(a) /\ r = View(b) /\ accesses = job[a].accesses /\ OnOneWay(accesses, s, r)
      BY <2>1
    <3>2. \A n \in 1 .. Len(s.log) : n <= Len(r.log) => s.log[n] = r.log[n]
      BY <3>1, OneWayOutcomes
    <3>3. ASSUME Len(s.log) = Len(r.log), s.k = 0, r.k = 0, s.stored = FALSE, r.stored = FALSE
          PROVE  s = r
      BY <3>1, <3>3, OneWayBars
    <3> QED
      BY <3>1, <3>2, <3>3
  <2>3. /\ Len(log[a]) <= Len(View(a).log) /\ \A n \in 1 .. Len(log[a]) : View(a).log[n] = log[a][n]
        /\ Len(log[b]) <= Len(View(b).log) /\ \A n \in 1 .. Len(log[b]) : View(b).log[n] = log[b][n]
        /\ log[a] \in Seq(Outcomes) /\ log[b] \in Seq(Outcomes)
    BY <2>1, ViewLog
  <2>4. Len(View(a).log) \in Nat /\ Len(View(b).log) \in Nat
    <3>1. View(a) \in SerialState /\ View(b) \in SerialState
      BY <2>1, ViewType
    <3> QED
      BY <3>1 DEF SerialState
  <2>5. ASSUME NEW n \in 1 .. Len(log[a]), n <= Len(log[b])
        PROVE  log[a][n] = log[b][n]
    <3>1. Len(log[a]) \in Nat /\ Len(log[b]) \in Nat
      BY <2>3
    <3>2. n \in 1 .. Len(View(a).log) /\ n <= Len(View(b).log) /\ n \in 1 .. Len(log[b])
      BY <2>3, <2>4, <2>5, <3>1
    <3> QED
      BY <2>2, <2>3, <3>2
  <2>6. ASSUME Len(log[a]) = Len(log[b]), done[a] = 0, done[b] = 0, {pc[a], pc[b]} = {"idle"}
        PROVE  /\ systemBar[job[a].dev] = systemBar[job[b].dev]
               /\ dmaBar[job[a].dev] = dmaBar[job[b].dev]
    <3>1. pc[a] = "idle" /\ pc[b] = "idle"
      BY <2>6
    <3>2. /\ View(a) = State(log[a], 0, <<>>, FALSE, systemBar[job[a].dev], dmaBar[job[a].dev])
          /\ View(b) = State(log[b], 0, <<>>, FALSE, systemBar[job[b].dev], dmaBar[job[b].dev])
      BY <2>1, <2>6, <3>1, ViewAtRest
    <3>3. /\ View(a).log = log[a] /\ View(a).k = 0 /\ View(a).stored = FALSE
          /\ View(a).sys = systemBar[job[a].dev] /\ View(a).dma = dmaBar[job[a].dev]
      BY <3>2 DEF State
    <3>4. /\ View(b).log = log[b] /\ View(b).k = 0 /\ View(b).stored = FALSE
          /\ View(b).sys = systemBar[job[b].dev] /\ View(b).dma = dmaBar[job[b].dev]
      BY <3>2 DEF State
    <3>5. View(a) = View(b)
      BY <2>2, <2>6, <3>3, <3>4
    <3> QED
      BY <3>3, <3>4, <3>5
  <2> QED
    BY <2>5, <2>6
<1> QED
  BY <1>0, <1>1, <1>2, <1>3, ClientsInductive, PTL DEF ClientsSpec

-----------------------------------------------------------------------------
(* The test suite: what bar 2 holds, the value written after a read, what  *)
(* the checks say of the outcomes, and the state of the board between two  *)
(* accesses, where l of the 17 accesses are over.                          *)
Places == 0 .. N_WORDS_DMA - 1

Helix(w) == IF w < nSamples THEN w * w ELSE 0

Expected(w) ==
  IF w \in WriteStartIndex .. WriteStartIndex + nWordsToWrite - 1 THEN w * w ELSE Helix(w)

Plus(o) == (o.data[1] + 1) % U32

RightData(n, l, data) ==
  /\ n = 2 => data = << MTCADUMMY_DMMY_AS_ASCII >>
  /\ n = 3 => data = << ProbeIndex * ProbeIndex >>
  /\ n = 8 => data = << Plus(l[6]) >>
  /\ n = 11 => data = << Plus(l[9]) >>
  /\ n = 14 => data = Squares(ReadStartIndex, nWordsToRead)
  /\ n = 17 => data = expectedBuffer

ChecksHold(l) ==
  /\ Len(l) <= 17
  /\ \A n \in 1 .. Len(l) : (l[n].threw <=> n \in {4, 12, 13}) /\ RightData(n, l, l[n].data)

IsHelix(dma) == \A w \in Places : dma[w] = Helix(w)
IsHelixButProbe(dma) == \A w \in Places \ {ProbeIndex} : dma[w] = Helix(w)

Between(n, l, sys, dma) ==
  /\ REG(sys, 60) = MTCADUMMY_DMMY_AS_ASCII
  /\ n \in 1 .. 9 \cup {15} => IsHelix(dma)
  /\ n \in 10 .. 14 => IsHelixButProbe(dma)
  /\ n = 7 => REG(sys, 12) = Plus(l[6])
  /\ n = 10 => dma[ProbeIndex] = Plus(l[9])
  /\ n \in 16 .. 17 => \A w \in Places : dma[w] = Expected(w)

(* Inside an access: a read has the words of the board, a write of bar 2   *)
(* has come to word k, a register has been stored and waits for the        *)
(* firmware.                                                               *)
Reading(a, k, got, sys, dma) ==
  /\ k <= a.nWords /\ Len(got) = k
  /\ \A i \in 1 .. k :
       got[i] = IF a.bar = 0 THEN sys[(a.offset \div 4) + i - 1] ELSE dma[(a.offset \div 4) + i - 1]

SuiteReads == {2, 3, 4, 5, 6, 8, 9, 11, 14, 17}

(* The number of accesses that are over. *)
Past(l) == Len(l)

SuiteRun(accesses, l, k, got, stored, sys, dma) ==
  LET n == Past(l) IN
    /\ ChecksHold(l)
    /\ REG(sys, 60) = MTCADUMMY_DMMY_AS_ASCII
    /\ k = 0 /\ stored = FALSE => Between(n, l, sys, dma)
    /\ n + 1 \in SuiteReads =>
         stored = FALSE /\ Between(n, l, sys, dma) /\ Reading(accesses[n + 1], k, got, sys, dma)
    /\ n = 3 => k = 0
    /\ n \in {6, 14} => /\ k <= 1
                        /\ k = 1 => stored = FALSE /\ Between(n + 1, l, sys, dma)
    /\ n = 6 /\ stored = TRUE => IsHelix(dma) /\ REG(sys, 12) = Plus(l[6])
    /\ n = 14 /\ stored = TRUE => IsHelixButProbe(dma) /\ REG(sys, 68) = 1
    /\ n \in {11, 12} => k = 0 /\ IsHelixButProbe(dma)
    /\ n = 9 => stored = FALSE /\ k <= 1 /\ (k = 1 => Between(10, l, sys, dma))
    /\ n = 0 => stored = FALSE /\ k <= N_WORDS_DMA /\ \A w \in 0 .. k - 1 : dma[w] = Helix(w)
    /\ n = 15 => /\ stored = FALSE /\ k <= nWordsToWrite
                 /\ \A w \in Places :
                      dma[w] = IF w \in WriteStartIndex .. WriteStartIndex + k - 1 THEN w * w
                                                                                  ELSE Helix(w)

LEMMA SuiteAccesses ==
  ASSUME NEW d
  PROVE  LET s == MtcaDummyTestSuite(d).accesses IN
           /\ Len(s) = 17
           /\ s[1] = writeArea(0, 2, N_WORDS_DMA, bufferHelix)
           /\ s[2] = readSingle(60, 0) /\ s[3] = readSingle(4 * ProbeIndex, 2)
           /\ s[4] = readSingle(72, 0) /\ s[5] = readSingle(76, 0)
           /\ s[6] = readSingle(12, 0) /\ s[7] = writeIncremented(12, 0, 6) /\ s[8] = readSingle(12, 0)
           /\ s[9] = readSingle(4 * ProbeIndex, 2) /\ s[10] = writeIncremented(4 * ProbeIndex, 2, 9)
           /\ s[11] = readSingle(4 * ProbeIndex, 2)
           /\ s[12] = writeSingle(72, 0, 42) /\ s[13] = writeSingle(76, 0, 42)
           /\ s[14] = readArea(4 * ReadStartIndex, 2, nWordsToRead)
           /\ s[15] = writeSingle(68, 0, 1)
           /\ s[16] = writeArea(4 * WriteStartIndex, 2, nWordsToWrite,
                                Squares(WriteStartIndex, nWordsToWrite))
           /\ s[17] = readArea(0, 2, N_WORDS_DMA)
BY DEF MtcaDummyTestSuite, MtcaDummyTest, testReadSingle, testReadSingleWithError, testWriteSingle,
       testWriteSingleWithError, testReadArea, testWriteArea, MTCADUMMY_WORD_DUMMY,
       MTCADUMMY_BROKEN_REGISTER, MTCADUMMY_BROKEN_WRITE, MTCADUMMY_WORD_USER, MTCADUMMY_WORD_ADC_ENA

(* The places of the suite are words of bar 2. *)
LEMMA SuitePlaces ==
  /\ N_WORDS_DMA \in Nat /\ MTCADUMMY_DMA_SIZE = 4 * N_WORDS_DMA
  /\ nSamples \in Nat /\ nSamples <= N_WORDS_DMA
  /\ ProbeIndex \in Nat /\ ProbeIndex < nSamples /\ ProbeIndex < ReadStartIndex
  /\ ReadStartIndex \in Nat /\ nWordsToRead \in Nat /\ ReadStartIndex + nWordsToRead <= nSamples
  /\ WriteStartIndex \in Nat /\ nSamples <= WriteStartIndex
  /\ nWordsToWrite \in Nat /\ WriteStartIndex + nWordsToWrite <= N_WORDS_DMA
  /\ DmaBar = [Places -> Word]
<1>1. N_WORDS_DMA \in Nat /\ MTCADUMMY_DMA_SIZE = 4 * N_WORDS_DMA /\ DmaBar = [Places -> Word]
  BY HeaderAssumption DEF N_WORDS_DMA, DmaBar, Places
<1>2. nSamples \in Nat /\ nSamples <= N_WORDS_DMA
  BY <1>1, HeaderAssumption
<1> QED
  BY <1>1, <1>2, TestsAssumption

IsSuiteRead(a, m) ==
  /\ a.op = "read" /\ a.bar = IF m \in {3, 9, 11, 14, 17} THEN 2 ELSE 0
  /\ a.nWords \in Nat /\ a.offset \in Nat
  /\ a.nWords = IF m = 14 THEN nWordsToRead ELSE IF m = 17 THEN N_WORDS_DMA ELSE 1
  /\ m \in {3, 9, 11} => a.offset = 4 * ProbeIndex
  /\ m \in {6, 8} => a.offset = 12
  /\ m = 2 => a.offset = 60
  /\ m = 4 => a.offset = 72
  /\ m = 5 => a.offset = 76
  /\ m = 14 => a.offset = 4 * ReadStartIndex
  /\ m = 17 => a.offset = 0

LEMMA SuiteReadAccesses ==
  ASSUME NEW d, NEW m \in SuiteReads
  PROVE  IsSuiteRead(MtcaDummyTestSuite(d).accesses[m], m)
<1> DEFINE s == MtcaDummyTestSuite(d).accesses
           a == s[m]
<1>1. /\ s[2] = readSingle(60, 0) /\ s[3] = readSingle(4 * ProbeIndex, 2)
      /\ s[4] = readSingle(72, 0) /\ s[5] = readSingle(76, 0)
      /\ s[6] = readSingle(12, 0) /\ s[8] = readSingle(12, 0)
      /\ s[9] = readSingle(4 * ProbeIndex, 2) /\ s[11] = readSingle(4 * ProbeIndex, 2)
      /\ s[14] = readArea(4 * ReadStartIndex, 2, nWordsToRead)
      /\ s[17] = readArea(0, 2, N_WORDS_DMA)
  BY SuiteAccesses
<1> SUFFICES IsSuiteRead(a, m)
  BY DEF s
<1> HIDE DEF s
<1>2. CASE m \in {3, 9, 11}
  <2>1. a = readSingle(4 * ProbeIndex, 2)
    BY <1>1, <1>2
  <2> QED
    BY <1>2, <2>1, SuitePlaces DEF readSingle, readArea, IsSuiteRead
<1>3. CASE m \in {6, 8}
  <2>1. a = readSingle(12, 0)
    BY <1>1, <1>3
  <2> QED
    BY <1>3, <2>1 DEF readSingle, readArea, IsSuiteRead
<1>4. CASE m = 2
  BY <1>1, <1>4 DEF readSingle, readArea, IsSuiteRead
<1>5. CASE m = 4
  BY <1>1, <1>5 DEF readSingle, readArea, IsSuiteRead
<1>6. CASE m = 5
  BY <1>1, <1>6 DEF readSingle, readArea, IsSuiteRead
<1>7. CASE m = 14
  <2>1. a = readArea(4 * ReadStartIndex, 2, nWordsToRead)
    BY <1>1, <1>7
  <2>2. ReadStartIndex \in Nat /\ nWordsToRead \in Nat
    BY SuitePlaces
  <2>3. /\ a.op = "read" /\ a.bar = 2 /\ a.nWords = nWordsToRead /\ a.offset = 4 * ReadStartIndex
    BY <2>1 DEF readArea
  <2> QED
    BY <1>7, <2>2, <2>3 DEF IsSuiteRead
<1>8. CASE m = 17
  <2>1. a = readArea(0, 2, N_WORDS_DMA)
    BY <1>1, <1>8
  <2>2. N_WORDS_DMA \in Nat
    BY SuitePlaces
  <2>3. /\ a.op = "read" /\ a.bar = 2 /\ a.nWords = N_WORDS_DMA /\ a.offset = 0
    BY <2>1 DEF readArea
  <2> QED
    BY <1>8, <2>2, <2>3 DEF IsSuiteRead
<1> QED
  BY <1>2, <1>3, <1>4, <1>5, <1>6, <1>7, <1>8 DEF SuiteReads

LEMMA OneWord ==
  ASSUME NEW got \in Seq(Word), NEW x, Len(got) = 1, got[1] = x
  PROVE  got = <<x>>
OBVIOUS

LEMMA AllWords ==
  ASSUME NEW got \in Seq(Word), NEW n \in Nat, NEW f, f = [i \in 1 .. n |-> f[i]],
         Len(got) = n, \A i \in 1 .. n : got[i] = f[i]
  PROVE  got = f
<1>1. got \in [1 .. Len(got) -> Word]
  OBVIOUS
<1> QED
  BY <1>1

(* One more outcome. *)
LEMMA OneMoreCheck ==
  ASSUME NEW l \in Seq(Outcomes), NEW threw \in BOOLEAN, NEW words \in Seq(Word),
         ChecksHold(l), Len(l) < 17, threw <=> Len(l) + 1 \in {4, 12, 13},
         RightData(Len(l) + 1, l, words)
  PROVE  ChecksHold(Append(l, Outcome(threw, words)))
<1> DEFINE n == Append(l, Outcome(threw, words))
<1>1. /\ Len(l) \in Nat /\ Len(n) = Len(l) + 1
      /\ \A i \in 1 .. Len(l) : n[i] = l[i]
      /\ n[Len(l) + 1].threw = threw /\ n[Len(l) + 1].data = words
  BY LogGrows
<1> HIDE DEF n
<1>2. ASSUME NEW i \in 1 .. Len(n), NEW data, RightData(i, l, data)
      PROVE  RightData(i, n, data)
  <2>1. (i = 8 => n[6] = l[6]) /\ (i = 11 => n[9] = l[9])
    BY <1>1
  <2> QED
    BY <1>2, <2>1 DEF RightData
<1>3. ASSUME NEW i \in 1 .. Len(n)
      PROVE  (n[i].threw <=> i \in {4, 12, 13}) /\ RightData(i, n, n[i].data)
  <2>1. CASE i = Len(l) + 1
    BY <1>1, <1>2, <2>1
  <2>2. CASE i # Len(l) + 1
    <3>1. i \in 1 .. Len(l)
      BY <1>1, <2>2
    <3>2. (l[i].threw <=> i \in {4, 12, 13}) /\ RightData(i, l, l[i].data)
      BY <3>1 DEF ChecksHold
    <3> QED
      BY <1>1, <1>2, <3>1, <3>2
  <2> QED
    BY <2>1, <2>2
<1>4. Len(n) <= 17
  BY <1>1
<1> QED
  BY <1>3, <1>4 DEF ChecksHold, n

(* An access begins. *)
LEMMA SuiteAccessBegins ==
  ASSUME NEW d, NEW l \in Seq(Outcomes), NEW sys, NEW dma, ChecksHold(l), Between(Past(l), l, sys, dma)
  PROVE  SuiteRun(MtcaDummyTestSuite(d).accesses, l, 0, <<>>, FALSE, sys, dma)
<1> DEFINE n == Past(l)
           s == MtcaDummyTestSuite(d).accesses
<1>1. n \in Nat /\ n <= 17
  BY DEF ChecksHold, Past
<1>2. Len(<<>>) = 0 /\ 1 .. 0 = {} /\ 0 .. 0 - 1 = {}
  OBVIOUS
<1>3. n + 1 \in SuiteReads => Reading(s[n + 1], 0, <<>>, sys, dma)
  <2> SUFFICES ASSUME n + 1 \in SuiteReads PROVE 0 <= s[n + 1].nWords
    BY <1>2 DEF Reading
  <2> HIDE DEF s, n
  <2>1. PICK m \in SuiteReads : m = n + 1
    OBVIOUS
  <2>2. s[m].nWords \in Nat
    BY SuiteReadAccesses DEF s, IsSuiteRead
  <2> QED
    BY <2>1, <2>2
<1>4. n = 15 => \A w \in Places : dma[w] = IF w \in WriteStartIndex .. WriteStartIndex + 0 - 1
                                             THEN w * w ELSE Helix(w)
  <2>1. WriteStartIndex .. WriteStartIndex + 0 - 1 = {}
    BY SuitePlaces
  <2> QED
    BY <2>1 DEF Between, IsHelix
<1>5. n \in {11, 12} => IsHelixButProbe(dma)
  BY DEF Between
<1>6. REG(sys, 60) = MTCADUMMY_DMMY_AS_ASCII
  BY DEF Between
<1> HIDE DEF n, s
<1> QED
  BY <1>1, <1>2, <1>3, <1>4, <1>5, <1>6, SuitePlaces DEF SuiteRun, n, s

LEMMA SuiteRefused ==
  ASSUME NEW d, NEW m \in SuiteReads, NEW k \in Nat, k < MtcaDummyTestSuite(d).accesses[m].nWords
  PROVE  Refused(MtcaDummyTestSuite(d).accesses[m], k) <=> m = 4
<1> DEFINE a == MtcaDummyTestSuite(d).accesses[m]
<1>1. /\ a.op = "read" /\ a.bar = IF m \in {3, 9, 11, 14, 17} THEN 2 ELSE 0
      /\ a.nWords = IF m = 14 THEN nWordsToRead ELSE IF m = 17 THEN N_WORDS_DMA ELSE 1
      /\ m \in {3, 9, 11} => a.offset = 4 * ProbeIndex
      /\ m \in {6, 8} => a.offset = 12
      /\ m = 2 => a.offset = 60
      /\ m = 4 => a.offset = 72
      /\ m = 5 => a.offset = 76
      /\ m = 14 => a.offset = 4 * ReadStartIndex
      /\ m = 17 => a.offset = 0
  <2>1. IsSuiteRead(a, m)
    BY SuiteReadAccesses
  <2> HIDE DEF a
  <2> QED
    BY <2>1 DEF IsSuiteRead
<1>2. k < a.nWords
  OBVIOUS
<1> SUFFICES Refused(a, k) <=> m = 4
  OBVIOUS
<1> HIDE DEF a
<1>3. ASSUME NEW w \in Nat, w < N_WORDS_DMA, a.bar = 2, a.offset + 4 * k = 4 * w
      PROVE  ~Refused(a, k)
  BY <1>3, SuitePlaces DEF Refused, RegisterAccessible, BarSize, WordOffset,
                           mtcadummy_performPreReadAction
<1>4. CASE m \in {3, 9, 11}
  <2>1. a.bar = 2 /\ a.nWords = 1 /\ a.offset = 4 * ProbeIndex
    BY <1>1, <1>4
  <2>2. k = 0
    BY <1>2, <2>1
  <2>3. PICK w \in Nat : w < N_WORDS_DMA /\ a.offset + 4 * k = 4 * w
    BY <2>1, <2>2, SuitePlaces
  <2> QED
    BY <1>3, <1>4, <2>1, <2>3
<1>5. CASE m = 14
  <2>1. a.bar = 2 /\ a.offset + 4 * k = 4 * (ReadStartIndex + k)
    BY <1>1, <1>5, SuitePlaces
  <2>2. ReadStartIndex + k \in Nat /\ ReadStartIndex + k < N_WORDS_DMA
    BY <1>1, <1>2, <1>5, SuitePlaces
  <2>3. PICK w \in Nat : w < N_WORDS_DMA /\ a.offset + 4 * k = 4 * w
    BY <2>1, <2>2
  <2> QED
    BY <1>3, <1>5, <2>1, <2>3
<1>6. CASE m = 17
  <2>1. a.bar = 2 /\ a.offset + 4 * k = 4 * k /\ k < N_WORDS_DMA
    BY <1>1, <1>2, <1>6
  <2>2. PICK w \in Nat : w < N_WORDS_DMA /\ a.offset + 4 * k = 4 * w
    BY <2>1
  <2> QED
    BY <1>3, <1>6, <2>1, <2>2
<1>7. CASE m \in {2, 4, 5, 6, 8}
  <2>1. k = 0 /\ a.bar = 0 /\ a.op = "read" /\ a.offset \in {12, 60, 72, 76} /\ (a.offset = 72 <=> m = 4)
    BY <1>1, <1>2, <1>7
  <2>2. RegisterAccessible(0, a.offset) /\ WordOffset(a, k) = a.offset
    BY <2>1 DEF RegisterAccessible, BarSize, MTCADUMMY_N_REGISTERS, WordOffset
  <2>3. CASE m = 4
    BY <2>1, <2>2, <2>3 DEF Refused, mtcadummy_performPreReadAction, MTCADUMMY_BROKEN_REGISTER
  <2>4. CASE m # 4
    BY <2>1, <2>2, <2>4 DEF Refused, mtcadummy_performPreReadAction, MTCADUMMY_BROKEN_REGISTER
  <2> QED
    BY <2>3, <2>4
<1> QED
  BY <1>4, <1>5, <1>6, <1>7 DEF SuiteReads

(* A read that is over has delivered what its check expects. *)
LEMMA SuiteDelivers ==
  ASSUME NEW d, NEW m \in SuiteReads, NEW l \in Seq(Outcomes), m = Past(l) + 1, NEW got \in Seq(Word),
         NEW sys, NEW dma, Between(Past(l), l, sys, dma),
         Reading(MtcaDummyTestSuite(d).accesses[m], MtcaDummyTestSuite(d).accesses[m].nWords, got, sys, dma)
  PROVE  RightData(m, l, got)
<1> DEFINE a == MtcaDummyTestSuite(d).accesses[m]
<1>1. /\ a.op = "read" /\ a.bar = IF m \in {3, 9, 11, 14, 17} THEN 2 ELSE 0
      /\ a.nWords \in Nat /\ a.offset \in Nat
      /\ a.nWords = IF m = 14 THEN nWordsToRead ELSE IF m = 17 THEN N_WORDS_DMA ELSE 1
      /\ m \in {3, 9, 11} => a.offset = 4 * ProbeIndex
      /\ m \in {6, 8} => a.offset = 12
      /\ m = 2 => a.offset = 60
      /\ m = 14 => a.offset = 4 * ReadStartIndex
      /\ m = 17 => a.offset = 0
  <2>1. IsSuiteRead(a, m)
    BY SuiteReadAccesses
  <2> HIDE DEF a
  <2> QED
    BY <2>1 DEF IsSuiteRead
<1>2. /\ Len(got) = a.nWords
      /\ \A i \in 1 .. a.nWords :
           got[i] = IF a.bar = 0 THEN sys[(a.offset \div 4) + i - 1] ELSE dma[(a.offset \div 4) + i - 1]
  BY DEF Reading
<1> HIDE DEF a
<1>3. Past(l) = m - 1 /\ m \in Nat
  <2>1. Past(l) \in Nat
    BY DEF Past
  <2> QED
    BY <2>1 DEF SuiteReads
<1>4. CASE m \in {2, 8}
  <2>1. a.nWords = 1 /\ a.bar = 0 /\ a.offset \div 4 = IF m = 2 THEN 15 ELSE 3
    BY <1>1, <1>4
  <2>2. Len(got) = 1 /\ got[1] = sys[IF m = 2 THEN 15 ELSE 3]
    BY <1>2, <2>1
  <2>3. (m = 2 => sys[15] = MTCADUMMY_DMMY_AS_ASCII) /\ (m = 8 => sys[3] = Plus(l[6]))
    <3>1. (m = 2 => Between(1, l, sys, dma)) /\ (m = 8 => Between(7, l, sys, dma))
      BY <1>3
    <3> QED
      BY <3>1 DEF Between, REG
  <2> QED
    BY <1>4, <2>2, <2>3, OneWord DEF RightData
<1>5. CASE m \in {3, 11}
  <2>1. a.nWords = 1 /\ a.bar = 2 /\ a.offset \div 4 = ProbeIndex /\ ProbeIndex \in Places
    BY <1>1, <1>5, SuitePlaces DEF Places
  <2>2. Len(got) = 1 /\ got[1] = dma[ProbeIndex]
    BY <1>2, <2>1, SuitePlaces
  <2>3. Helix(ProbeIndex) = ProbeIndex * ProbeIndex
    BY SuitePlaces DEF Helix
  <2>4. (m = 3 => dma[ProbeIndex] = Helix(ProbeIndex)) /\ (m = 11 => dma[ProbeIndex] = Plus(l[9]))
    <3>1. (m = 3 => Between(2, l, sys, dma)) /\ (m = 11 => Between(10, l, sys, dma))
      BY <1>3
    <3> QED
      BY <2>1, <3>1 DEF Between, IsHelix
  <2>5. (m = 3 => got = << ProbeIndex * ProbeIndex >>) /\ (m = 11 => got = << Plus(l[9]) >>)
    BY <2>2, <2>3, <2>4, OneWord
  <2> QED
    BY <1>5, <2>5 DEF RightData
<1>6. CASE m = 14
  <2> DEFINE f == Squares(ReadStartIndex, nWordsToRead)
  <2>1. a.nWords = nWordsToRead /\ a.bar = 2 /\ a.offset \div 4 = ReadStartIndex
    BY <1>1, <1>6, SuitePlaces
  <2>2. IsHelixButProbe(dma)
    <3>1. Between(13, l, sys, dma)
      BY <1>3, <1>6
    <3> QED
      BY <3>1 DEF Between
  <2>3. ASSUME NEW i \in 1 .. nWordsToRead
        PROVE  got[i] = f[i]
    <3>1. PICK w : w = ReadStartIndex + i - 1
      OBVIOUS
    <3>2. w \in Places \ {ProbeIndex} /\ w < nSamples
      BY <3>1, SuitePlaces DEF Places
    <3>3. got[i] = dma[w] /\ dma[w] = w * w
      BY <1>2, <2>1, <2>2, <3>1, <3>2 DEF IsHelixButProbe, Helix
    <3> QED
      BY <3>1, <3>3 DEF Squares
  <2>4. f = [i \in 1 .. nWordsToRead |-> f[i]]
    BY DEF Squares
  <2> HIDE DEF f
  <2>5. got = f
    BY <1>2, <2>1, <2>3, <2>4, SuitePlaces, AllWords
  <2> QED
    BY <1>6, <2>5 DEF RightData, f
<1>7. CASE m = 17
  <2> DEFINE f == expectedBuffer
  <2>1. a.nWords = N_WORDS_DMA /\ a.bar = 2 /\ a.offset \div 4 = 0 /\ N_WORDS_DMA \in Nat
    BY <1>1, <1>7, SuitePlaces
  <2>2. \A w \in Places : dma[w] = Expected(w)
    <3>1. Between(16, l, sys, dma)
      BY <1>3, <1>7
    <3> QED
      BY <3>1 DEF Between
  <2>3. ASSUME NEW i \in 1 .. N_WORDS_DMA
        PROVE  got[i] = f[i]
    <3>1. PICK w : w = i - 1
      OBVIOUS
    <3>2. w \in Places
      BY <2>1, <3>1 DEF Places
    <3>3. got[i] = dma[w] /\ dma[w] = Expected(w)
      BY <1>2, <2>1, <2>2, <3>1, <3>2
    <3>4. f[i] = Expected(w)
      BY <3>1, SuitePlaces DEF expectedBuffer, Expected, bufferHelix, Helix
    <3> QED
      BY <3>3, <3>4
  <2>4. f = [i \in 1 .. N_WORDS_DMA |-> f[i]]
    BY DEF expectedBuffer
  <2> HIDE DEF f
  <2>5. got = f
    BY <1>2, <2>1, <2>3, <2>4, AllWords
  <2> QED
    BY <1>7, <2>5 DEF RightData, f
<1>8. CASE m \in {4, 5, 6, 9}
  BY <1>8 DEF RightData
<1> QED
  BY <1>4, <1>5, <1>6, <1>7, <1>8 DEF SuiteReads

SuiteRunOf(d, v) ==
  SuiteRun(MtcaDummyTestSuite(d).accesses, v.log, v.k, v.got, v.stored, v.sys, v.dma)

(* An access is over and the next one begins. *)
LEMMA SuiteAccessEnds ==
  ASSUME NEW d, NEW l \in Seq(Outcomes), NEW threw \in BOOLEAN, NEW words \in Seq(Word),
         NEW sys, NEW dma, NEW n, ChecksHold(l), Past(l) < 17, threw <=> Past(l) + 1 \in {4, 12, 13},
         RightData(Past(l) + 1, l, words), Between(Past(l) + 1, l, sys, dma),
         n = State(Append(l, Outcome(threw, words)), 0, <<>>, FALSE, sys, dma)
  PROVE  SuiteRunOf(d, n)
<1> DEFINE m == Append(l, Outcome(threw, words))
<1>1. m \in Seq(Outcomes)
  <2>1. Outcome(threw, words) \in Outcomes
    BY DEF Outcome, Outcomes
  <2> QED
    BY <2>1, AppendProperties
<1>2. /\ Len(l) \in Nat /\ Len(m) = Len(l) + 1 /\ \A i \in 1 .. Len(l) : m[i] = l[i]
  BY LogGrows
<1>p. Past(l) \in Nat /\ Past(m) = Past(l) + 1 /\ \A i \in 1 .. Past(l) : m[i] = l[i]
  BY <1>2 DEF Past
<1>3. ChecksHold(m)
  <2>1. Len(l) < 17 /\ (threw <=> Len(l) + 1 \in {4, 12, 13}) /\ RightData(Len(l) + 1, l, words)
    BY DEF Past
  <2> QED
    BY <2>1, OneMoreCheck
<1>4. /\ n.log = m /\ n.k = 0 /\ n.got = <<>> /\ n.stored = FALSE /\ n.sys = sys /\ n.dma = dma
  BY DEF State
<1> HIDE DEF m
<1>5. (Past(m) = 7 => m[6] = l[6]) /\ (Past(m) = 10 => m[9] = l[9])
  BY <1>p
<1>6. Between(Past(m), l, sys, dma)
  BY <1>p
<1>7. Between(Past(m), m, sys, dma)
  BY <1>5, <1>6 DEF Between
<1>8. SuiteRun(MtcaDummyTestSuite(d).accesses, m, 0, <<>>, FALSE, sys, dma)
  BY <1>1, <1>3, <1>7, SuiteAccessBegins
<1> QED
  BY <1>4, <1>8 DEF SuiteRunOf

LEMMA SuiteReadStep ==
  ASSUME NEW d, NEW l \in Seq(Outcomes), NEW k \in Nat, NEW got \in Seq(Word), NEW b \in BOOLEAN,
         NEW sys \in SystemBar, NEW dma \in DmaBar, NEW s, s = State(l, k, got, b, sys, dma),
         NEW n \in SerialState, SuiteRun(MtcaDummyTestSuite(d).accesses, l, k, got, b, sys, dma),
         Successor(MtcaDummyTestSuite(d).accesses, s, n), Past(l) + 1 \in SuiteReads
  PROVE  SuiteRunOf(d, n)
<1> DEFINE accesses == MtcaDummyTestSuite(d).accesses
<1>1. PICK m \in SuiteReads : m = Past(l) + 1
  OBVIOUS
<1> DEFINE a == accesses[m]
<1>2. /\ ChecksHold(l) /\ REG(sys, 60) = MTCADUMMY_DMMY_AS_ASCII /\ b = FALSE
      /\ Between(Past(l), l, sys, dma) /\ Reading(a, k, got, sys, dma)
      /\ Past(l) = 3 => k = 0
  BY <1>1 DEF SuiteRun
<1>3. a.op = "read" /\ a.nWords \in Nat /\ a.offset \in Nat /\ (m = 4 => a.nWords = 1)
  <2>1. IsSuiteRead(a, m)
    BY SuiteReadAccesses
  <2> HIDE DEF a
  <2> QED
    BY <2>1 DEF IsSuiteRead
<1>4. \/ ReadsWord(a, s, n) \/ StoresWord(a, s, n) \/ Reacts(a, s, n, FALSE)
      \/ Ends(a, s, n) \/ Throws(a, s, n)
  <2>1. s.log = l /\ Len(l) + 1 = m
    BY <1>1 DEF State, Past
  <2> QED
    BY <2>1 DEF Successor
<1>5. s = State(l, k, got, FALSE, sys, dma)
  BY <1>2
<1>6. k < a.nWords => (Refused(a, k) <=> m = 4)
  BY SuiteRefused
<1>7. Past(l) \in Nat /\ Past(l) < 17 /\ Past(l) = m - 1
  <2>1. Past(l) \in Nat
    BY DEF Past
  <2> QED
    BY <1>1, <2>1 DEF SuiteReads
<1>8. Between(m, l, sys, dma)
  <2>1. Between(m - 1, l, sys, dma)
    BY <1>2, <1>7
  <2>2. CASE m \in {2, 3, 4, 5, 6, 8, 9}
    <3>1. m - 1 \in 1 .. 9 /\ m \in 1 .. 9 /\ m # 7
      BY <2>2
    <3>2. IsHelix(dma)
      BY <2>1, <3>1 DEF Between
    <3>3. m \notin 10 .. 14 /\ m \notin 16 .. 17 /\ m # 10
      BY <2>2
    <3> QED
      BY <1>2, <3>1, <3>2, <3>3 DEF Between
  <2>3. CASE m \in {11, 14}
    <3>1. m - 1 \in 10 .. 14 /\ m \in 10 .. 14 /\ m # 10 /\ m # 7
          /\ m \notin 1 .. 9 \cup {15} /\ m \notin 16 .. 17
      BY <2>3
    <3>2. IsHelixButProbe(dma)
      BY <2>1, <3>1 DEF Between
    <3> QED
      BY <1>2, <3>1, <3>2 DEF Between
  <2>4. CASE m = 17
    <3>1. \A w \in Places : dma[w] = Expected(w)
      BY <2>1, <2>4 DEF Between
    <3> QED
      BY <1>2, <2>4, <3>1 DEF Between
  <2> QED
    BY <2>2, <2>3, <2>4 DEF SuiteReads
<1> HIDE DEF a, accesses
<1>9. \/ \E g \in Seq(Word) : /\ k < a.nWords /\ ~Refused(a, k) /\ Reading(a, k + 1, g, sys, dma)
                              /\ n = State(l, k + 1, g, FALSE, sys, dma)
      \/ /\ k = a.nWords
         /\ n = State(Append(l, Outcome(FALSE, got)), 0, <<>>, FALSE, sys, dma)
      \/ /\ k < a.nWords /\ Refused(a, k)
         /\ n = State(Append(l, Outcome(TRUE, got)), 0, <<>>, FALSE, sys, dma)
  <2>1. s.log = l /\ s.k = k /\ s.got = got /\ s.stored = FALSE /\ s.sys = sys /\ s.dma = dma
    BY <1>5 DEF State
  <2>2. ~StoresWord(a, s, n) /\ ~Reacts(a, s, n, FALSE)
    BY <1>3, <2>1 DEF StoresWord, Reacts
  <2>3. CASE ReadsWord(a, s, n)
    <3> DEFINE w == WordOffset(a, k) \div 4
               x == IF a.bar = 0 THEN sys[w] ELSE dma[w]
               g == Append(got, x)
    <3>1. k < a.nWords /\ ~Refused(a, k) /\ n = State(l, k + 1, g, FALSE, sys, dma)
      BY <2>1, <2>3 DEF ReadsWord
    <3>2. g \in Seq(Word)
      <4> HIDE DEF g
      <4>1. n.got = g
        BY <3>1 DEF State
      <4> QED
        BY <4>1 DEF SerialState
    <3>3. Len(g) = k + 1 /\ (\A i \in 1 .. k : g[i] = got[i]) /\ g[k + 1] = x
      <4>1. Len(got) = k
        BY <1>2 DEF Reading
      <4> HIDE DEF x
      <4> QED
        BY <4>1
    <3>4. w = (a.offset \div 4) + (k + 1) - 1
      <4>1. PICK o \in Nat : o = a.offset
        BY <1>3
      <4>2. (o + 4 * k) \div 4 = (o \div 4) + (k + 1) - 1
        OBVIOUS
      <4> QED
        BY <4>1, <4>2 DEF WordOffset
    <3>5. x = IF a.bar = 0 THEN sys[(a.offset \div 4) + (k + 1) - 1]
                           ELSE dma[(a.offset \div 4) + (k + 1) - 1]
      BY <3>4
    <3> HIDE DEF g, x, w
    <3>6. Reading(a, k + 1, g, sys, dma)
      <4>1. k + 1 <= a.nWords
        BY <1>3, <3>1
      <4>2. ASSUME NEW i \in 1 .. k + 1
            PROVE  g[i] = IF a.bar = 0 THEN sys[(a.offset \div 4) + i - 1]
                                       ELSE dma[(a.offset \div 4) + i - 1]
        <5>1. CASE i = k + 1
          BY <3>3, <3>5, <5>1
        <5>2. CASE i # k + 1
          <6>1. i \in 1 .. k
            BY <5>2
          <6> QED
            BY <1>2, <3>3, <6>1 DEF Reading
        <5> QED
          BY <5>1, <5>2
      <4> QED
        BY <3>3, <4>1, <4>2 DEF Reading
    <3> QED
      BY <3>1, <3>2, <3>6
  <2>4. CASE Ends(a, s, n)
    BY <2>1, <2>4 DEF Ends, Over
  <2>5. CASE Throws(a, s, n)
    BY <2>1, <2>5 DEF Throws, Over
  <2> QED
    BY <1>4, <2>2, <2>3, <2>4, <2>5
<1>10. ASSUME NEW g \in Seq(Word), k < a.nWords, ~Refused(a, k), Reading(a, k + 1, g, sys, dma),
              n = State(l, k + 1, g, FALSE, sys, dma)
       PROVE  SuiteRunOf(d, n)
  <2>1. /\ n.log = l /\ n.k = k + 1 /\ n.got = g /\ n.stored = FALSE /\ n.sys = sys /\ n.dma = dma
    BY <1>10 DEF State
  <2>2. m # 4 /\ Past(l) \notin {0, 3, 6, 9, 11, 12, 14, 15}
    BY <1>6, <1>7, <1>10 DEF SuiteReads
  <2>3. k + 1 # 0
    OBVIOUS
  <2>4. Reading(accesses[Past(l) + 1], k + 1, g, sys, dma)
    BY <1>1, <1>10 DEF a
  <2>5. SuiteRun(accesses, l, k + 1, g, FALSE, sys, dma)
    BY <1>2, <2>2, <2>3, <2>4 DEF SuiteRun
  <2> QED
    BY <2>1, <2>5 DEF SuiteRunOf, accesses
<1>11. CASE k = a.nWords /\ n = State(Append(l, Outcome(FALSE, got)), 0, <<>>, FALSE, sys, dma)
  <2>1. m # 4
    BY <1>2, <1>3, <1>7, <1>11
  <2>2. Reading(a, a.nWords, got, sys, dma)
    BY <1>2, <1>11
  <2>3. RightData(m, l, got)
    BY <1>1, <1>2, <2>2, SuiteDelivers DEF a, accesses
  <2>4. FALSE <=> Past(l) + 1 \in {4, 12, 13}
    BY <1>1, <2>1 DEF SuiteReads
  <2>5. RightData(Past(l) + 1, l, got) /\ Between(Past(l) + 1, l, sys, dma)
    BY <1>1, <1>8, <2>3
  <2> QED
    BY <1>2, <1>7, <1>11, <2>4, <2>5, SuiteAccessEnds
<1>12. CASE k < a.nWords /\ Refused(a, k)
            /\ n = State(Append(l, Outcome(TRUE, got)), 0, <<>>, FALSE, sys, dma)
  <2>1. m = 4
    BY <1>6, <1>12
  <2>2. RightData(Past(l) + 1, l, got) /\ Between(Past(l) + 1, l, sys, dma)
    BY <1>1, <1>8, <2>1 DEF RightData
  <2>3. TRUE <=> Past(l) + 1 \in {4, 12, 13}
    BY <1>1, <2>1
  <2> QED
    BY <1>2, <1>7, <1>12, <2>2, <2>3, SuiteAccessEnds
<1> QED
  BY <1>9, <1>10, <1>11, <1>12

SuiteRegisters == {12, 68, 72, 76}
PlainRegisters == {12, 72, 76}

(* The steps of a write of one register, and of a write of words of bar 2. *)
OneStep(a, s, n) ==
  \/ ReadsWord(a, s, n) \/ StoresWord(a, s, n) \/ Reacts(a, s, n, FALSE)
  \/ Ends(a, s, n) \/ Throws(a, s, n)

RegisterWritten(a, o, l, k, got, b, sys, dma, n) ==
  \/ /\ k = 0 /\ b = FALSE
     /\ n = State(l, 0, got, TRUE, [sys EXCEPT ![o \div 4] = Words(a, l)[1]], dma)
  \/ /\ b = TRUE /\ ~WriteActionFails(o)
     /\ n = State(l, 1, got, FALSE, mtcadummy_performActionOnWrite(sys, o, FALSE),
                  SampledDma(sys, dma, o))
  \/ /\ b = TRUE /\ WriteActionFails(o)
     /\ n = State(Append(l, Outcome(TRUE, got)), 0, <<>>, FALSE,
                  mtcadummy_performActionOnWrite(sys, o, FALSE), SampledDma(sys, dma, o))
  \/ /\ k = 1 /\ b = FALSE
     /\ n = State(Append(l, Outcome(FALSE, got)), 0, <<>>, FALSE, sys, dma)

DmaWritten(a, w, l, k, got, sys, dma, n) ==
  \/ /\ k < a.nWords
     /\ n = State(l, k + 1, got, FALSE, sys, [dma EXCEPT ![w + k] = Words(a, l)[k + 1]])
  \/ /\ k = a.nWords
     /\ n = State(Append(l, Outcome(FALSE, got)), 0, <<>>, FALSE, sys, dma)

LEMMA RegisterWriteStep ==
  ASSUME NEW a, NEW o \in SuiteRegisters, a.op = "write", a.bar = 0, a.nWords = 1, a.offset = o,
         NEW l, NEW k \in Nat, NEW got, NEW b \in BOOLEAN, NEW sys, NEW dma,
         NEW s, s = State(l, k, got, b, sys, dma), NEW n, k <= 1, b = TRUE => k = 0,
         OneStep(a, s, n)
  PROVE  RegisterWritten(a, o, l, k, got, b, sys, dma, n)
<1>1. s.log = l /\ s.k = k /\ s.got = got /\ s.stored = b /\ s.sys = sys /\ s.dma = dma
  BY DEF State
<1>2. k = 0 => WordOffset(a, k) = o /\ RegisterAccessible(0, o) /\ ~Refused(a, k)
  BY DEF SuiteRegisters, WordOffset, RegisterAccessible, BarSize, MTCADUMMY_N_REGISTERS, Refused
<1>3. ~ReadsWord(a, s, n) /\ ~Throws(a, s, n)
  <2>1. ~ReadsWord(a, s, n)
    BY DEF ReadsWord
  <2>2. ASSUME Throws(a, s, n) PROVE FALSE
    <3>1. k < 1 /\ Refused(a, k)
      BY <1>1, <2>2 DEF Throws
    <3> QED
      BY <1>2, <3>1
  <2> QED
    BY <2>1, <2>2
<1>4. CASE StoresWord(a, s, n)
  <2>1. ~s.stored /\ k < 1
    BY <1>1, <1>4 DEF StoresWord
  <2>2. b = FALSE /\ k = 0
    BY <1>1, <2>1
  <2>3. n = State(l, k, got, TRUE, [sys EXCEPT ![WordOffset(a, k) \div 4] = Words(a, l)[k + 1]], dma)
    BY <1>1, <1>4 DEF StoresWord
  <2>4. WordOffset(a, k) = o /\ k + 1 = 1
    BY <1>2, <2>2
  <2>5. n = State(l, 0, got, TRUE, [sys EXCEPT ![o \div 4] = Words(a, l)[1]], dma)
    BY <2>2, <2>3, <2>4, Zenon
  <2> QED
    BY <2>2, <2>5, Zenon DEF RegisterWritten
<1>5. CASE Reacts(a, s, n, FALSE)
  <2>1. s.stored
    BY <1>5 DEF Reacts
  <2>2. b = TRUE /\ k = 0 /\ WordOffset(a, k) = o
    BY <1>1, <1>2, <2>1
  <2> DEFINE x == mtcadummy_performActionOnWrite(sys, o, FALSE)
             y == SampledDma(sys, dma, o)
  <2>3. /\ ~WriteActionFails(o) => n = State(l, k + 1, got, FALSE, x, y)
        /\ WriteActionFails(o) => n = State(Append(l, Outcome(TRUE, got)), 0, <<>>, FALSE, x, y)
    BY <1>1, <1>5, <2>2 DEF Reacts, Over
  <2>4. k + 1 = 1
    BY <2>2
  <2> HIDE DEF x, y
  <2>5. ~WriteActionFails(o) => n = State(l, 1, got, FALSE, x, y)
    BY <2>3, <2>4, Zenon
  <2> QED
    BY <2>2, <2>3, <2>5, Zenon DEF x, y, RegisterWritten
<1>6. CASE Ends(a, s, n)
  <2>1. ~s.stored /\ k = 1
    BY <1>1, <1>6 DEF Ends
  <2>2. b = FALSE
    BY <1>1, <2>1
  <2> QED
    BY <1>1, <1>6, <2>1, <2>2 DEF Ends, Over, RegisterWritten
<1> QED
  BY <1>3, <1>4, <1>5, <1>6 DEF OneStep

LEMMA DmaWriteStep ==
  ASSUME NEW a, NEW w \in Nat, a.op = "write", a.bar = 2, a.nWords \in Nat, a.offset = 4 * w,
         w + a.nWords <= N_WORDS_DMA,
         NEW l, NEW k \in Nat, NEW got, NEW sys, NEW dma,
         NEW s, s = State(l, k, got, FALSE, sys, dma), NEW n, k <= a.nWords,
         OneStep(a, s, n)
  PROVE  DmaWritten(a, w, l, k, got, sys, dma, n)
<1>1. s.log = l /\ s.k = k /\ s.got = got /\ s.stored = FALSE /\ s.sys = sys /\ s.dma = dma
  BY DEF State
<1>2. WordOffset(a, k) \div 4 = w + k
  <2>1. WordOffset(a, k) = 4 * (w + k)
    BY DEF WordOffset
  <2> QED
    BY <2>1
<1>3. k < a.nWords => ~Refused(a, k)
  <2> SUFFICES ASSUME k < a.nWords PROVE ~Refused(a, k)
    OBVIOUS
  <2>1. WordOffset(a, k) = 4 * (w + k) /\ w + k < N_WORDS_DMA /\ w + k \in Nat
    BY SuitePlaces DEF WordOffset
  <2>2. 4 * (w + k) < MTCADUMMY_DMA_SIZE /\ (4 * (w + k)) % 4 = 0
    BY <2>1, SuitePlaces
  <2> QED
    BY <2>1, <2>2 DEF Refused, RegisterAccessible, BarSize
<1>4. ~ReadsWord(a, s, n) /\ ~Throws(a, s, n) /\ ~Reacts(a, s, n, FALSE)
  <2>1. ~ReadsWord(a, s, n) /\ ~Reacts(a, s, n, FALSE)
    BY <1>1 DEF ReadsWord, Reacts
  <2>2. ASSUME Throws(a, s, n) PROVE FALSE
    <3>1. k < a.nWords /\ Refused(a, k)
      BY <1>1, <2>2 DEF Throws
    <3> QED
      BY <1>3, <3>1
  <2> QED
    BY <2>1, <2>2
<1>5. CASE StoresWord(a, s, n)
  <2>1. k < a.nWords
    BY <1>1, <1>5 DEF StoresWord
  <2>2. n = State(l, k + 1, got, FALSE, sys,
                  [dma EXCEPT ![WordOffset(a, k) \div 4] = Words(a, l)[k + 1]])
    BY <1>1, <1>5 DEF StoresWord
  <2>3. n = State(l, k + 1, got, FALSE, sys, [dma EXCEPT ![w + k] = Words(a, l)[k + 1]])
    BY <1>2, <2>2, Zenon
  <2> QED
    BY <2>1, <2>3 DEF DmaWritten
<1>6. CASE Ends(a, s, n)
  BY <1>1, <1>6 DEF Ends, Over, DmaWritten
<1> QED
  BY <1>4, <1>5, <1>6 DEF OneStep

(* The firmware does not react to USER and to the two broken registers.    *)
LEMMA PlainReaction ==
  ASSUME NEW sys \in SystemBar, NEW dma \in DmaBar, NEW fail, NEW o \in PlainRegisters
  PROVE  /\ SampledDma(sys, dma, o) = dma
         /\ \A r \in {12, 60} : REG(mtcadummy_performActionOnWrite(sys, o, fail), r) = REG(sys, r)
<1> DEFINE R == Reaction(sys, o, fail)
           n == mtcadummy_performActionOnWrite(sys, o, fail)
<1>1. {12, 60} \subseteq Register
  BY DEF Register, MTCADUMMY_N_REGISTERS
<1>2. \A r \in Register : REG(n, r) = IF r \in DOMAIN R THEN R[r] ELSE REG(sys, r)
  BY RegisterAfter
<1>3. DOMAIN R = {}
  BY DEF PlainRegisters, Reaction, ReadOnlyValue, MTCADUMMY_WORD_CLK_RST, MTCADUMMY_WORD_ADC_ENA,
         MTCADUMMY_WORD_FIRMWARE, MTCADUMMY_WORD_COMPILATION, MTCADUMMY_WORD_DUMMY,
         MTCADUMMY_WORD_SPI_WRITE
<1> HIDE DEF R, n
<1>4. \A r \in {12, 60} : REG(n, r) = REG(sys, r)
  BY <1>1, <1>2, <1>3
<1>5. SampledDma(sys, dma, o) = dma
  BY DEF PlainRegisters, SampledDma, MTCADUMMY_WORD_ADC_ENA
<1> QED
  BY <1>4, <1>5 DEF n

StoredIn(m, sys, o, word) == m = [sys EXCEPT ![o \div 4] = word]

LEMMA RegisterStored ==
  ASSUME NEW sys \in SystemBar, NEW o \in SuiteRegisters, NEW word, NEW m,
         StoredIn(m, sys, o, word)
  PROVE  REG(m, o) = word /\ REG(m, 60) = REG(sys, 60)
<1>1. DOMAIN sys = 0 .. 31
  BY DEF SystemBar, MTCADUMMY_N_REGISTERS
<1>2. PICK w \in 0 .. 31 : w = o \div 4 /\ w # 15
  BY DEF SuiteRegisters
<1>3. m = [sys EXCEPT ![w] = word]
  BY <1>2, Zenon DEF StoredIn
<1>4. m[w] = word /\ m[15] = sys[15]
  BY <1>1, <1>2, <1>3
<1>5. 60 \div 4 = 15
  OBVIOUS
<1> QED
  BY <1>2, <1>4, <1>5, Zenon DEF REG

ReactedTo(m, y, sys, dma, o) ==
  m = mtcadummy_performActionOnWrite(sys, o, FALSE) /\ y = SampledDma(sys, dma, o)

LEMMA PlainReacted ==
  ASSUME NEW sys \in SystemBar, NEW dma \in DmaBar, NEW o \in PlainRegisters, NEW m, NEW y,
         ReactedTo(m, y, sys, dma, o)
  PROVE  y = dma /\ REG(m, 12) = REG(sys, 12) /\ REG(m, 60) = REG(sys, 60)
<1>1. m = mtcadummy_performActionOnWrite(sys, o, FALSE) /\ y = SampledDma(sys, dma, o)
  BY DEF ReactedTo
<1>2. PICK fail : fail = FALSE
  OBVIOUS
<1>3. y = dma
  BY <1>1, PlainReaction
<1>4. \A r \in {12, 60} : REG(m, r) = REG(sys, r)
  <2>1. \A r \in {12, 60} : REG(mtcadummy_performActionOnWrite(sys, o, fail), r) = REG(sys, r)
    BY PlainReaction
  <2> QED
    BY <1>1, <1>2, <2>1, Zenon
<1> QED
  BY <1>3, <1>4

LEMMA SamplingReacted ==
  ASSUME NEW sys \in SystemBar, NEW dma \in DmaBar, NEW m, NEW y, REG(sys, 68) # 0,
         ReactedTo(m, y, sys, dma, 68)
  PROVE  /\ SampledBars(m, y) /\ \A w \in DOMAIN dma : w >= nSamples => y[w] = dma[w]
         /\ REG(m, 60) = REG(sys, 60)
<1>0. PICK fail : fail = FALSE
  OBVIOUS
<1> DEFINE M == mtcadummy_performActionOnWrite(sys, 68, fail)
           Y == SampledDma(sys, dma, 68)
<1>1. m = M /\ y = Y
  BY <1>0, Zenon DEF ReactedTo
<1>2. REG(M, 60) = REG(sys, 60)
  BY SamplingReaction
<1>3. SampledBars(M, Y) /\ \A w \in DOMAIN dma : w >= nSamples => Y[w] = dma[w]
  BY SamplingReaction
<1> HIDE DEF M, Y
<1> QED
  BY <1>1, <1>2, <1>3, Zenon

IsSuiteWrite(a, n, l) ==
  /\ a.op = "write" /\ a.bar = 0 /\ a.nWords = 1
  /\ n = 6 => a.offset = 12 /\ Words(a, l)[1] = Plus(l[6])
  /\ n = 11 => a.offset = 72
  /\ n = 12 => a.offset = 76
  /\ n = 14 => a.offset = 68 /\ Words(a, l)[1] = 1

LEMMA SuiteWriteAccesses ==
  ASSUME NEW d, NEW l, NEW n \in {6, 11, 12, 14}
  PROVE  IsSuiteWrite(MtcaDummyTestSuite(d).accesses[n + 1], n, l)
<1> DEFINE s == MtcaDummyTestSuite(d).accesses
           a == s[n + 1]
<1>1. /\ s[7] = writeIncremented(12, 0, 6) /\ s[12] = writeSingle(72, 0, 42)
      /\ s[13] = writeSingle(76, 0, 42) /\ s[15] = writeSingle(68, 0, 1)
  BY SuiteAccesses
<1> SUFFICES IsSuiteWrite(a, n, l)
  OBVIOUS
<1> HIDE DEF s
<1>2. CASE n = 6
  <2>1. a = writeIncremented(12, 0, 6)
    BY <1>1, <1>2
  <2>2. a.op = "write" /\ a.bar = 0 /\ a.nWords = 1 /\ a.offset = 12 /\ a.from = 6
    BY <2>1 DEF writeIncremented
  <2> HIDE DEF a
  <2>3. Words(a, l)[1] = Plus(l[6])
    BY <2>2 DEF Words, Plus
  <2> QED
    BY <1>2, <2>2, <2>3 DEF IsSuiteWrite
<1>3. CASE n = 11
  BY <1>1, <1>3 DEF writeSingle, writeArea, IsSuiteWrite
<1>4. CASE n = 12
  BY <1>1, <1>4 DEF writeSingle, writeArea, IsSuiteWrite
<1>5. CASE n = 14
  <2>1. a = writeSingle(68, 0, 1)
    BY <1>1, <1>5
  <2>2. a.op = "write" /\ a.bar = 0 /\ a.nWords = 1 /\ a.offset = 68 /\ a.from = 0 /\ a.data = <<1>>
    BY <2>1 DEF writeSingle, writeArea
  <2> HIDE DEF a
  <2>3. Words(a, l)[1] = 1
    BY <2>2 DEF Words
  <2> QED
    BY <1>5, <2>2, <2>3 DEF IsSuiteWrite
<1> QED
  BY <1>2, <1>3, <1>4, <1>5

LEMMA SuiteRegisterStep ==
  ASSUME NEW d, NEW l \in Seq(Outcomes), NEW k \in Nat, NEW got \in Seq(Word), NEW b \in BOOLEAN,
         NEW sys \in SystemBar, NEW dma \in DmaBar, NEW s, s = State(l, k, got, b, sys, dma),
         NEW n \in SerialState, SuiteRun(MtcaDummyTestSuite(d).accesses, l, k, got, b, sys, dma),
         Successor(MtcaDummyTestSuite(d).accesses, s, n), Past(l) \in {6, 11, 12, 14}
  PROVE  SuiteRunOf(d, n)
<1> DEFINE accesses == MtcaDummyTestSuite(d).accesses
<1>1. PICK i \in {6, 11, 12, 14} : i = Past(l)
  OBVIOUS
<1>p. PICK p \in {7, 12, 13, 15} : p = Past(l) + 1 /\ p = i + 1
  BY <1>1
<1> DEFINE a == accesses[i + 1]
           o == IF i = 6 THEN 12 ELSE IF i = 11 THEN 72 ELSE IF i = 12 THEN 76 ELSE 68
<1>2. a.op = "write" /\ a.bar = 0 /\ a.nWords = 1 /\ a.offset = o
      /\ (i = 6 => Words(a, l)[1] = Plus(l[6])) /\ (i = 14 => Words(a, l)[1] = 1)
  <2>1. IsSuiteWrite(a, i, l)
    BY SuiteWriteAccesses
  <2> HIDE DEF a
  <2> QED
    BY <2>1 DEF IsSuiteWrite
<1>3. /\ ChecksHold(l) /\ REG(sys, 60) = MTCADUMMY_DMMY_AS_ASCII
      /\ k = 0 /\ b = FALSE => Between(i, l, sys, dma)
      /\ i \in {6, 14} => k <= 1 /\ (k = 1 => b = FALSE /\ Between(i + 1, l, sys, dma))
      /\ i = 6 /\ b = TRUE => IsHelix(dma) /\ REG(sys, 12) = Plus(l[6])
      /\ i = 14 /\ b = TRUE => IsHelixButProbe(dma) /\ REG(sys, 68) = 1
      /\ i \in {11, 12} => k = 0 /\ IsHelixButProbe(dma)
  BY <1>1 DEF SuiteRun
<1>4. OneStep(a, s, n)
  <2>1. s.log = l /\ Len(l) + 1 = i + 1
    BY <1>1 DEF State, Past
  <2> QED
    BY <2>1 DEF Successor, OneStep
<1>5. k <= 1 /\ (b = TRUE => k = 0) /\ o \in SuiteRegisters
  BY <1>3 DEF SuiteRegisters
<1> HIDE DEF a, o, accesses
<1>6. RegisterWritten(a, o, l, k, got, b, sys, dma, n)
  BY <1>2, <1>4, <1>5, RegisterWriteStep
<1>7. WriteActionFails(o) <=> i \in {11, 12}
  BY DEF o, WriteActionFails, MTCADUMMY_BROKEN_REGISTER, MTCADUMMY_BROKEN_WRITE
<1>8. Past(l) + 1 \notin SuiteReads
  <2>1. p \notin SuiteReads
    BY DEF SuiteReads
  <2> QED
    BY <1>p, <2>1
<1>9. CASE k = 0 /\ b = FALSE
           /\ n = State(l, 0, got, TRUE, [sys EXCEPT ![o \div 4] = Words(a, l)[1]], dma)
  <2>1. PICK m, word : m = [sys EXCEPT ![o \div 4] = word] /\ word = Words(a, l)[1]
    OBVIOUS
  <2>2. n = State(l, 0, got, TRUE, m, dma)
    BY <1>9, <2>1
  <2>3. /\ n.log = l /\ n.k = 0 /\ n.got = got /\ n.stored = TRUE /\ n.sys = m /\ n.dma = dma
    BY <2>2 DEF State
  <2>4. REG(m, o) = word /\ REG(m, 60) = MTCADUMMY_DMMY_AS_ASCII
    <3>1. REG(m, o) = word /\ REG(m, 60) = REG(sys, 60)
      <4>1. StoredIn(m, sys, o, word)
        BY <2>1, Zenon DEF StoredIn
      <4> QED
        BY <1>5, <4>1, RegisterStored
    <3> QED
      BY <1>3, <3>1
  <2>5. Between(i, l, sys, dma)
    BY <1>3, <1>9
  <2>6. i = 6 => IsHelix(dma) /\ REG(m, 12) = Plus(l[6])
    <3> SUFFICES ASSUME i = 6 PROVE IsHelix(dma) /\ REG(m, 12) = Plus(l[6])
      OBVIOUS
    <3>1. Between(6, l, sys, dma) /\ o = 12
      BY <2>5 DEF o
    <3> QED
      BY <1>2, <2>1, <2>4, <3>1 DEF Between
  <2>7. i = 14 => IsHelixButProbe(dma) /\ REG(m, 68) = 1
    <3> SUFFICES ASSUME i = 14 PROVE IsHelixButProbe(dma) /\ REG(m, 68) = 1
      OBVIOUS
    <3>1. Between(14, l, sys, dma) /\ o = 68
      BY <2>5 DEF o
    <3> QED
      BY <1>2, <2>1, <2>4, <3>1 DEF Between
  <2>8. SuiteRun(accesses, l, 0, got, TRUE, m, dma)
    <3>1. Past(l) \notin {0, 3, 9, 15}
      BY <1>1
    <3>2. Past(l) \in {11, 12} => IsHelixButProbe(dma)
      BY <1>1, <1>3
    <3>3. /\ Past(l) = 6 => IsHelix(dma) /\ REG(m, 12) = Plus(l[6])
          /\ Past(l) = 14 => IsHelixButProbe(dma) /\ REG(m, 68) = 1
      BY <1>1, <2>6, <2>7
    <3>4. ChecksHold(l)
      BY <1>3
    <3> QED
      BY <1>8, <2>4, <3>1, <3>2, <3>3, <3>4 DEF SuiteRun
  <2> QED
    BY <2>3, <2>8 DEF SuiteRunOf, accesses
<1>10. CASE b = TRUE /\ ~WriteActionFails(o)
            /\ n = State(l, 1, got, FALSE, mtcadummy_performActionOnWrite(sys, o, FALSE),
                         SampledDma(sys, dma, o))
  <2>1. PICK m, y : m = mtcadummy_performActionOnWrite(sys, o, FALSE) /\ y = SampledDma(sys, dma, o)
    OBVIOUS
  <2>2. n = State(l, 1, got, FALSE, m, y)
    BY <1>10, <2>1
  <2>3. /\ n.log = l /\ n.k = 1 /\ n.got = got /\ n.stored = FALSE /\ n.sys = m /\ n.dma = y
    BY <2>2 DEF State
  <2>4. REG(m, 60) = MTCADUMMY_DMMY_AS_ASCII /\ Between(i + 1, l, m, y)
    <3>1. CASE i = 6
      <4>1. o = 12
        BY <3>1 DEF o
      <4>2. y = dma /\ REG(m, 12) = REG(sys, 12) /\ REG(m, 60) = REG(sys, 60)
        <5>1. o \in PlainRegisters
          BY <4>1 DEF PlainRegisters
        <5>2. ReactedTo(m, y, sys, dma, o)
          BY <2>1, Zenon DEF ReactedTo
        <5> QED
          BY <5>1, <5>2, PlainReacted
      <4>3. IsHelix(dma) /\ REG(m, 12) = Plus(l[6]) /\ REG(m, 60) = MTCADUMMY_DMMY_AS_ASCII
        BY <1>3, <1>10, <3>1, <4>2
      <4>4. Between(7, l, m, y)
        BY <4>2, <4>3 DEF Between
      <4> QED
        BY <3>1, <4>3, <4>4
    <3>2. CASE i = 14
      <4>1. o = 68 /\ REG(sys, 68) # 0
        BY <1>3, <1>10, <3>2 DEF o
      <4>2. /\ SampledBars(m, y) /\ \A w \in DOMAIN dma : w >= nSamples => y[w] = dma[w]
            /\ REG(m, 60) = REG(sys, 60)
        <5>1. ReactedTo(m, y, sys, dma, 68)
          BY <2>1, <4>1, Zenon DEF ReactedTo
        <5> QED
          BY <4>1, <5>1, SamplingReacted
      <4>3. IsHelixButProbe(dma) /\ DOMAIN dma = Places
        BY <1>3, <1>10, <3>2, SuitePlaces
      <4>4. ASSUME NEW w \in Places PROVE y[w] = Helix(w)
        <5>1. CASE w < nSamples
          BY <4>2, <5>1, SuitePlaces DEF SampledBars, Helix, Places
        <5>2. CASE ~(w < nSamples)
          <6>1. w >= nSamples /\ w # ProbeIndex
            BY <5>2, SuitePlaces DEF Places
          <6> QED
            BY <4>2, <4>3, <6>1 DEF IsHelixButProbe
        <5> QED
          BY <5>1, <5>2
      <4>5. IsHelix(y) /\ REG(m, 60) = MTCADUMMY_DMMY_AS_ASCII
        BY <1>3, <4>2, <4>4 DEF IsHelix
      <4>6. Between(15, l, m, y)
        BY <4>5 DEF Between
      <4> QED
        BY <3>2, <4>5, <4>6
    <3> QED
      BY <1>7, <1>10, <3>1, <3>2
  <2>5. i \in {6, 14}
    BY <1>7, <1>10
  <2>6. SuiteRun(accesses, l, 1, got, FALSE, m, y)
    <3>1. Past(l) \notin {0, 3, 9, 11, 12, 15}
      BY <1>1, <2>5
    <3>2. ChecksHold(l) /\ Between(Past(l) + 1, l, m, y)
      BY <1>1, <1>3, <2>4
    <3> QED
      BY <1>8, <2>4, <3>1, <3>2 DEF SuiteRun
  <2> QED
    BY <2>3, <2>6 DEF SuiteRunOf, accesses
<1>11. Past(l) < 17 /\ RightData(Past(l) + 1, l, got)
  <2>1. RightData(p, l, got)
    BY DEF RightData
  <2> QED
    BY <1>1, <1>p, <2>1
<1>12. CASE b = TRUE /\ WriteActionFails(o)
            /\ n = State(Append(l, Outcome(TRUE, got)), 0, <<>>, FALSE,
                         mtcadummy_performActionOnWrite(sys, o, FALSE), SampledDma(sys, dma, o))
  <2>1. PICK m, y : m = mtcadummy_performActionOnWrite(sys, o, FALSE) /\ y = SampledDma(sys, dma, o)
    OBVIOUS
  <2>2. n = State(Append(l, Outcome(TRUE, got)), 0, <<>>, FALSE, m, y)
    BY <1>12, <2>1
  <2>3. i \in {11, 12} /\ o \in {72, 76}
    BY <1>7, <1>12 DEF o
  <2>4. y = dma /\ REG(m, 60) = REG(sys, 60)
    <3>1. o \in PlainRegisters
      BY <2>3 DEF PlainRegisters
    <3>2. ReactedTo(m, y, sys, dma, o)
      BY <2>1, Zenon DEF ReactedTo
    <3> QED
      BY <3>1, <3>2, PlainReacted
  <2>5. Between(i + 1, l, m, y)
    <3>1. IsHelixButProbe(y) /\ REG(m, 60) = MTCADUMMY_DMMY_AS_ASCII
      BY <1>3, <2>3, <2>4
    <3>2. Between(12, l, m, y) /\ Between(13, l, m, y)
      BY <3>1 DEF Between
    <3> QED
      BY <2>3, <3>2
  <2>6. TRUE <=> Past(l) + 1 \in {4, 12, 13}
    <3>1. p \in {4, 12, 13}
      BY <1>p, <2>3
    <3> QED
      BY <1>p, <3>1
  <2>7. Between(Past(l) + 1, l, m, y)
    BY <1>1, <2>5
  <2> QED
    BY <1>3, <1>11, <2>2, <2>6, <2>7, SuiteAccessEnds
<1>13. CASE k = 1 /\ b = FALSE
            /\ n = State(Append(l, Outcome(FALSE, got)), 0, <<>>, FALSE, sys, dma)
  <2>1. i \in {6, 14} /\ Between(i + 1, l, sys, dma)
    BY <1>3, <1>13
  <2>2. FALSE <=> Past(l) + 1 \in {4, 12, 13}
    <3>1. p \notin {4, 12, 13}
      BY <1>p, <2>1
    <3> QED
      BY <1>p, <3>1
  <2>3. Between(Past(l) + 1, l, sys, dma)
    BY <1>1, <2>1
  <2> QED
    BY <1>3, <1>11, <1>13, <2>2, <2>3, SuiteAccessEnds
<1> QED
  BY <1>6, <1>9, <1>10, <1>12, <1>13 DEF RegisterWritten

(* The first, the tenth and the sixteenth access write words of bar 2. *)
SuiteWord(i, k, l) ==
  IF i = 0 THEN Helix(k)
  ELSE IF i = 9 THEN Plus(l[9])
  ELSE (WriteStartIndex + k) * (WriteStartIndex + k)

IsSuiteDmaWrite(a, i, l) ==
  /\ a.op = "write" /\ a.bar = 2
  /\ a.nWords = IF i = 0 THEN N_WORDS_DMA ELSE IF i = 9 THEN 1 ELSE nWordsToWrite
  /\ a.offset = 4 * (IF i = 0 THEN 0 ELSE IF i = 9 THEN ProbeIndex ELSE WriteStartIndex)
  /\ \A k \in Nat : k < a.nWords => Words(a, l)[k + 1] = SuiteWord(i, k, l)

LEMMA SuiteDmaWrites ==
  ASSUME NEW d, NEW l, NEW i \in {0, 9, 15}
  PROVE  IsSuiteDmaWrite(MtcaDummyTestSuite(d).accesses[i + 1], i, l)
<1> DEFINE s == MtcaDummyTestSuite(d).accesses
           a == s[i + 1]
<1>1. /\ s[1] = writeArea(0, 2, N_WORDS_DMA, bufferHelix)
      /\ s[10] = writeIncremented(4 * ProbeIndex, 2, 9)
      /\ s[16] = writeArea(4 * WriteStartIndex, 2, nWordsToWrite,
                           Squares(WriteStartIndex, nWordsToWrite))
  BY SuiteAccesses
<1> SUFFICES IsSuiteDmaWrite(a, i, l)
  OBVIOUS
<1> HIDE DEF s
<1>2. CASE i = 0
  <2>1. a = writeArea(0, 2, N_WORDS_DMA, bufferHelix)
    BY <1>1, <1>2
  <2>2. /\ a.op = "write" /\ a.bar = 2 /\ a.nWords = N_WORDS_DMA /\ a.offset = 0
        /\ a.from = 0 /\ a.data = bufferHelix
    BY <2>1 DEF writeArea
  <2> HIDE DEF a
  <2>3. ASSUME NEW k \in Nat, k < N_WORDS_DMA PROVE bufferHelix[k + 1] = Helix(k)
    <3>1. k + 1 \in 1 .. N_WORDS_DMA /\ (k + 1) - 1 = k /\ (k + 1 <= nSamples <=> k < nSamples)
      BY <2>3, SuitePlaces
    <3> QED
      BY <3>1 DEF bufferHelix, Helix
  <2>4. Words(a, l) = bufferHelix
    BY <2>2 DEF Words
  <2> QED
    BY <1>2, <2>2, <2>3, <2>4 DEF IsSuiteDmaWrite, SuiteWord
<1>3. CASE i = 9
  <2>1. a = writeIncremented(4 * ProbeIndex, 2, 9)
    BY <1>1, <1>3
  <2>2. a.op = "write" /\ a.bar = 2 /\ a.nWords = 1 /\ a.offset = 4 * ProbeIndex /\ a.from = 9
    BY <2>1 DEF writeIncremented
  <2> HIDE DEF a
  <2>3. Words(a, l)[1] = Plus(l[9])
    BY <2>2 DEF Words, Plus
  <2> QED
    BY <1>3, <2>2, <2>3 DEF IsSuiteDmaWrite, SuiteWord
<1>4. CASE i = 15
  <2> DEFINE v == WriteStartIndex
  <2>1. a = writeArea(4 * v, 2, nWordsToWrite, Squares(v, nWordsToWrite))
    BY <1>1, <1>4
  <2>2. /\ a.op = "write" /\ a.bar = 2 /\ a.nWords = nWordsToWrite /\ a.offset = 4 * v
        /\ a.from = 0 /\ a.data = Squares(v, nWordsToWrite)
    BY <2>1 DEF writeArea
  <2> HIDE DEF a
  <2>3. ASSUME NEW k \in Nat, k < nWordsToWrite
        PROVE  Squares(v, nWordsToWrite)[k + 1] = (v + k) * (v + k)
    <3>1. k + 1 \in 1 .. nWordsToWrite /\ v + (k + 1) - 1 = v + k
      BY <2>3, SuitePlaces
    <3>2. Squares(v, nWordsToWrite)[k + 1] = (v + (k + 1) - 1) * (v + (k + 1) - 1)
      BY <3>1 DEF Squares
    <3> QED
      BY <3>1, <3>2
  <2>4. Words(a, l) = Squares(v, nWordsToWrite)
    BY <2>2 DEF Words
  <2> QED
    BY <1>4, <2>2, <2>3, <2>4 DEF IsSuiteDmaWrite, SuiteWord
<1> QED
  BY <1>2, <1>3, <1>4

LEMMA SuiteDmaStep ==
  ASSUME NEW d, NEW l \in Seq(Outcomes), NEW k \in Nat, NEW got \in Seq(Word), NEW b \in BOOLEAN,
         NEW sys \in SystemBar, NEW dma \in DmaBar, NEW s, s = State(l, k, got, b, sys, dma),
         NEW n \in SerialState, SuiteRun(MtcaDummyTestSuite(d).accesses, l, k, got, b, sys, dma),
         Successor(MtcaDummyTestSuite(d).accesses, s, n), Past(l) \in {0, 9, 15}
  PROVE  SuiteRunOf(d, n)
<1> DEFINE accesses == MtcaDummyTestSuite(d).accesses
<1>1. PICK i \in {0, 9, 15} : i = Past(l)
  OBVIOUS
<1> DEFINE a == accesses[i + 1]
           v == IF i = 0 THEN 0 ELSE IF i = 9 THEN ProbeIndex ELSE WriteStartIndex
           z == IF i = 0 THEN N_WORDS_DMA ELSE IF i = 9 THEN 1 ELSE nWordsToWrite
<1>2. /\ a.op = "write" /\ a.bar = 2 /\ a.nWords = z /\ a.offset = 4 * v
      /\ k < z => Words(a, l)[k + 1] = SuiteWord(i, k, l)
  <2>1. IsSuiteDmaWrite(a, i, l)
    BY SuiteDmaWrites
  <2> HIDE DEF a
  <2> QED
    BY <2>1 DEF IsSuiteDmaWrite
<1>3. /\ ChecksHold(l) /\ REG(sys, 60) = MTCADUMMY_DMMY_AS_ASCII /\ b = FALSE
      /\ k = 0 => Between(i, l, sys, dma)
      /\ i = 9 => k <= 1 /\ (k = 1 => Between(10, l, sys, dma))
      /\ i = 0 => k <= N_WORDS_DMA /\ \A w \in 0 .. k - 1 : dma[w] = Helix(w)
      /\ i = 15 => /\ k <= nWordsToWrite
                   /\ \A w \in Places :
                        dma[w] = IF w \in WriteStartIndex .. WriteStartIndex + k - 1 THEN w * w
                                                                                    ELSE Helix(w)
  BY <1>1 DEF SuiteRun
<1>4. OneStep(a, s, n)
  <2>1. s.log = l /\ Len(l) + 1 = i + 1
    BY <1>1 DEF State, Past
  <2> QED
    BY <2>1 DEF Successor, OneStep
<1>5. v \in Nat /\ z \in Nat /\ v + z <= N_WORDS_DMA /\ k <= z
  BY <1>3, SuitePlaces
<1>6. s = State(l, k, got, FALSE, sys, dma)
  BY <1>3
<1> HIDE DEF a, v, z, accesses
<1>7. DmaWritten(a, v, l, k, got, sys, dma, n)
  BY <1>2, <1>4, <1>5, <1>6, DmaWriteStep
<1>8. Past(l) + 1 \notin SuiteReads /\ Past(l) < 17 /\ (FALSE <=> Past(l) + 1 \in {4, 12, 13})
      /\ RightData(Past(l) + 1, l, got)
  <2>1. PICK p \in {1, 10, 16} : p = Past(l) + 1 /\ p = i + 1
    BY <1>1
  <2>2. p \notin SuiteReads /\ p \notin {4, 12, 13}
    BY DEF SuiteReads
  <2>3. RightData(p, l, got)
    BY DEF RightData
  <2> QED
    BY <1>1, <2>1, <2>2, <2>3
<1>9. DOMAIN dma = Places /\ Places = 0 .. N_WORDS_DMA - 1
  BY SuitePlaces DEF Places
<1>10. CASE k < z /\ n = State(l, k + 1, got, FALSE, sys, [dma EXCEPT ![v + k] = Words(a, l)[k + 1]])
  <2>1. PICK y, word : y = [dma EXCEPT ![v + k] = word] /\ word = Words(a, l)[k + 1]
    OBVIOUS
  <2>2. n = State(l, k + 1, got, FALSE, sys, y)
    BY <1>10, <2>1
  <2>3. n.log = l /\ n.k = k + 1 /\ n.got = got /\ n.stored = FALSE /\ n.sys = sys /\ n.dma = y
    BY <2>2 DEF State
  <2>4. word = SuiteWord(i, k, l)
    BY <1>2, <1>10, <2>1
  <2>5. PICK w0 \in Places : w0 = v + k
    BY <1>5, <1>9, <1>10, SuitePlaces
  <2>6. y[w0] = word /\ \A w \in Places : w # w0 => y[w] = dma[w]
    BY <1>9, <2>1, <2>5
  <2>7. i = 0 => k + 1 <= N_WORDS_DMA /\ \A w \in 0 .. (k + 1) - 1 : y[w] = Helix(w)
    <3> SUFFICES ASSUME i = 0 PROVE k + 1 <= N_WORDS_DMA /\ \A w \in 0 .. (k + 1) - 1 : y[w] = Helix(w)
      OBVIOUS
    <3>1. z = N_WORDS_DMA /\ v = 0 /\ w0 = k /\ word = Helix(k)
      BY <2>4, <2>5 DEF z, v, SuiteWord
    <3>2. k + 1 <= N_WORDS_DMA
      BY <1>10, <3>1, SuitePlaces
    <3>3. ASSUME NEW w \in 0 .. (k + 1) - 1 PROVE y[w] = Helix(w)
      <4>1. CASE w = k
        BY <2>6, <3>1, <4>1
      <4>2. CASE w # k
        <5>1. w \in 0 .. k - 1 /\ w \in Places
          BY <1>9, <3>2, <4>2, SuitePlaces
        <5> QED
          BY <1>3, <2>6, <3>1, <4>2, <5>1
      <4> QED
        BY <4>1, <4>2
    <3> QED
      BY <3>2, <3>3
  <2>8. i = 9 => k + 1 <= 1 /\ Between(10, l, sys, y)
    <3> SUFFICES ASSUME i = 9 PROVE k + 1 <= 1 /\ Between(10, l, sys, y)
      OBVIOUS
    <3>1. z = 1 /\ v = ProbeIndex /\ word = Plus(l[9])
      BY <2>4 DEF z, v, SuiteWord
    <3>2. k = 0 /\ w0 = ProbeIndex
      BY <1>10, <2>5, <3>1, SuitePlaces
    <3>3. Between(9, l, sys, dma)
      BY <1>3, <3>2
    <3>4. IsHelix(dma)
      BY <3>3 DEF Between
    <3>5. IsHelixButProbe(y) /\ y[ProbeIndex] = Plus(l[9])
      BY <2>6, <3>1, <3>2, <3>4 DEF IsHelix, IsHelixButProbe
    <3>6. Between(10, l, sys, y)
      BY <1>3, <3>5 DEF Between
    <3> QED
      BY <3>2, <3>6
  <2>9. i = 15 => /\ k + 1 <= nWordsToWrite
                  /\ \A w \in Places :
                       y[w] = IF w \in WriteStartIndex .. WriteStartIndex + (k + 1) - 1
                                THEN w * w ELSE Helix(w)
    <3> SUFFICES ASSUME i = 15
                 PROVE  /\ k + 1 <= nWordsToWrite
                        /\ \A w \in Places :
                             y[w] = IF w \in WriteStartIndex .. WriteStartIndex + (k + 1) - 1
                                      THEN w * w ELSE Helix(w)
      OBVIOUS
    <3>1. /\ z = nWordsToWrite /\ v = WriteStartIndex
          /\ word = (WriteStartIndex + k) * (WriteStartIndex + k)
      BY <2>4 DEF z, v, SuiteWord
    <3>2. k + 1 <= nWordsToWrite /\ w0 = WriteStartIndex + k
      BY <1>10, <2>5, <3>1, SuitePlaces
    <3>3. ASSUME NEW w \in Places
          PROVE  y[w] = IF w \in WriteStartIndex .. WriteStartIndex + (k + 1) - 1
                          THEN w * w ELSE Helix(w)
      <4>1. CASE w = w0
        <5>1. y[w] = w * w
          BY <2>6, <3>1, <3>2, <4>1
        <5>2. w \in WriteStartIndex .. WriteStartIndex + (k + 1) - 1
          BY <3>2, <4>1, SuitePlaces
        <5> QED
          BY <5>1, <5>2
      <4>2. CASE w # w0
        <5>1. w \in WriteStartIndex .. WriteStartIndex + (k + 1) - 1
                <=> w \in WriteStartIndex .. WriteStartIndex + k - 1
          BY <1>9, <3>2, <4>2, SuitePlaces
        <5>2. y[w] = dma[w]
          BY <2>6, <4>2
        <5> QED
          BY <1>3, <5>1, <5>2
      <4> QED
        BY <4>1, <4>2
    <3> QED
      BY <3>2, <3>3
  <2>10. SuiteRun(accesses, l, k + 1, got, FALSE, sys, y)
    <3>1. Past(l) \notin {3, 6, 11, 12, 14}
      BY <1>1
    <3>2. k + 1 # 0
      OBVIOUS
    <3>3. ChecksHold(l) /\ REG(sys, 60) = MTCADUMMY_DMMY_AS_ASCII
      BY <1>3
    <3>4. Past(l) = 0 => k + 1 <= N_WORDS_DMA /\ \A w \in 0 .. (k + 1) - 1 : y[w] = Helix(w)
      BY <1>1, <2>7
    <3>5. Past(l) = 9 => k + 1 <= 1 /\ Between(10, l, sys, y)
      BY <1>1, <2>8
    <3>6. Past(l) = 15 => /\ k + 1 <= nWordsToWrite
                          /\ \A w \in Places :
                               y[w] = IF w \in WriteStartIndex .. WriteStartIndex + (k + 1) - 1
                                        THEN w * w ELSE Helix(w)
      BY <1>1, <2>9
    <3> QED
      BY <1>8, <3>1, <3>2, <3>3, <3>4, <3>5, <3>6 DEF SuiteRun
  <2> QED
    BY <2>3, <2>10 DEF SuiteRunOf, accesses
<1>11. CASE k = z /\ n = State(Append(l, Outcome(FALSE, got)), 0, <<>>, FALSE, sys, dma)
  <2>1. Between(i + 1, l, sys, dma)
    <3>1. CASE i = 0
      <4>1. k = N_WORDS_DMA
        BY <1>11, <3>1 DEF z
      <4>2. IsHelix(dma)
        BY <1>3, <3>1, <4>1 DEF IsHelix, Places
      <4>3. Between(1, l, sys, dma)
        BY <1>3, <4>2 DEF Between
      <4> QED
        BY <3>1, <4>3
    <3>2. CASE i = 9
      <4>1. k = 1
        BY <1>11, <3>2 DEF z
      <4> QED
        BY <1>3, <3>2, <4>1
    <3>3. CASE i = 15
      <4>1. k = nWordsToWrite
        BY <1>11, <3>3 DEF z
      <4>2. \A w \in Places : dma[w] = Expected(w)
        BY <1>3, <3>3, <4>1 DEF Expected
      <4>3. Between(16, l, sys, dma)
        BY <1>3, <4>2 DEF Between
      <4> QED
        BY <3>3, <4>3
    <3> QED
      BY <3>1, <3>2, <3>3
  <2>2. Between(Past(l) + 1, l, sys, dma)
    BY <1>1, <2>1
  <2> QED
    BY <1>3, <1>8, <1>11, <2>2, SuiteAccessEnds
<1> QED
  BY <1>2, <1>7, <1>10, <1>11 DEF DmaWritten

(* Every step of the suite. *)
LEMMA SuiteStep ==
  ASSUME NEW d, NEW s \in SerialState, NEW n \in SerialState, SuiteRunOf(d, s),
         Successor(MtcaDummyTestSuite(d).accesses, s, n), Past(s.log) < 17
  PROVE  SuiteRunOf(d, n)
<1>1. PICK l \in Seq(Outcomes), k \in Nat, got \in Seq(Word), b \in BOOLEAN, sys \in SystemBar,
           dma \in DmaBar : s = State(l, k, got, b, sys, dma)
  <2>1. s = State(s.log, s.k, s.got, s.stored, s.sys, s.dma)
    BY DEF SerialState, State
  <2> QED
    BY <2>1 DEF SerialState
<1>2. s.log = l /\ s.k = k /\ s.got = got /\ s.stored = b /\ s.sys = sys /\ s.dma = dma
  BY <1>1 DEF State
<1>3. SuiteRun(MtcaDummyTestSuite(d).accesses, l, k, got, b, sys, dma) /\ Past(l) < 17
  BY <1>2 DEF SuiteRunOf
<1>4. Past(l) \in {6, 11, 12, 14} \/ Past(l) \in {0, 9, 15} \/ Past(l) + 1 \in SuiteReads
  <2>1. PICK p \in 0 .. 16 : p = Past(l)
    <3>1. Past(l) \in Nat
      BY DEF Past
    <3>2. Past(l) < 17
      BY <1>3
    <3>3. \A p \in Nat : p < 17 => p \in 0 .. 16
      OBVIOUS
    <3> QED
      BY <3>1, <3>2, <3>3, Zenon
  <2>2. p \in {6, 11, 12, 14} \cup {0, 9, 15} \cup {1, 2, 3, 4, 5, 7, 8, 10, 13, 16}
    OBVIOUS
  <2>3. p \in {1, 2, 3, 4, 5, 7, 8, 10, 13, 16} => p + 1 \in SuiteReads
    BY DEF SuiteReads
  <2> QED
    BY <2>1, <2>2, <2>3
<1>5. CASE Past(l) + 1 \in SuiteReads
  BY <1>1, <1>3, <1>5, SuiteReadStep
<1>6. CASE Past(l) \in {6, 11, 12, 14}
  BY <1>1, <1>3, <1>6, SuiteRegisterStep
<1>7. CASE Past(l) \in {0, 9, 15}
  BY <1>1, <1>3, <1>7, SuiteDmaStep
<1> QED
  BY <1>4, <1>5, <1>6, <1>7

SuiteRuns ==
  ~Disturbable => \A c \in Owners : IsSuite(c) => SuiteRunOf(job[c].dev, View(c))

(* Every check of the automatic tests holds, with StructReaderWriter and   *)
(* with NormalReaderWriter, for every number of clients and every place of *)
(* the suite in bar 2 that TestsAssumption admits                          *)
(* (automatic_test/executables_src/testMtcaDummy.cpp).                     *)
THEOREM Tests == ClientsSpec => []TestsPass
<1> DEFINE Both == DeliveryInv /\ ClientsInv
           ViewTypes == \A c \in Clients : View(c) \in SerialState
<1>0. Both => ViewTypes
  BY ViewType
<1>1. ClientsInit => SuiteRuns
  <2> SUFFICES ASSUME ClientsInit, NEW c \in Owners PROVE SuiteRunOf(job[c].dev, View(c))
    BY DEF SuiteRuns
  <2>1. PICK sys, dma : /\ sys = mtcadummy_initialiseSystemBar
                        /\ View(c) = State(<<>>, 0, <<>>, FALSE, sys, dma)
    BY ViewAtStart DEF Owners
  <2>2. /\ View(c).log = <<>> /\ View(c).k = 0 /\ View(c).got = <<>> /\ View(c).stored = FALSE
        /\ View(c).sys = sys /\ View(c).dma = dma
    BY <2>1 DEF State
  <2>3. REG(sys, 60) = MTCADUMMY_DMMY_AS_ASCII
    <3>1. 60 \in DOMAIN ReadOnlyValue /\ ReadOnlyValue[60] = MTCADUMMY_DMMY_AS_ASCII
      BY DEF ReadOnlyValue, MTCADUMMY_WORD_DUMMY, MTCADUMMY_WORD_FIRMWARE, MTCADUMMY_WORD_COMPILATION
    <3>2. 15 \in 0 .. MTCADUMMY_N_REGISTERS - 1 /\ 4 * 15 = 60 /\ 60 \div 4 = 15
      BY DEF MTCADUMMY_N_REGISTERS
    <3>3. mtcadummy_initialiseSystemBar[15] = ReadOnlyValue[60]
      BY <3>1, <3>2 DEF mtcadummy_initialiseSystemBar, MTCADUMMY_WORD_CLK_RST, MTCADUMMY_BROKEN_WRITE
    <3> QED
      BY <2>1, <3>1, <3>2, <3>3 DEF REG
  <2>4. <<>> \in Seq(Outcomes) /\ Past(<<>>) = 0 /\ ChecksHold(<<>>)
    <3>1. Len(<<>>) = 0 /\ 1 .. 0 = {}
      OBVIOUS
    <3> QED
      BY <3>1 DEF Past, ChecksHold
  <2>5. Between(0, <<>>, sys, dma)
    BY <2>3 DEF Between
  <2>6. SuiteRun(MtcaDummyTestSuite(job[c].dev).accesses, <<>>, 0, <<>>, FALSE, sys, dma)
    BY <2>4, <2>5, SuiteAccessBegins
  <2> QED
    BY <2>2, <2>6 DEF SuiteRunOf
<1>2. SuiteRuns /\ Both /\ Both' /\ ViewTypes /\ ViewTypes' /\ [ClientsNext]_allVars => SuiteRuns'
  <2> SUFFICES ASSUME SuiteRuns, DeliveryInv, ClientsInv, DeliveryInv', ClientsInv', ViewTypes,
                      ViewTypes', [ClientsNext]_allVars, ~Disturbable, NEW c \in Owners, IsSuite(c)
               PROVE  SuiteRunOf(job[c].dev, View(c)')
    BY JobStays DEF SuiteRuns, IsSuite, Disturbable, SuiteRunOf
  <2>1. View(c) \in SerialState /\ View(c)' \in SerialState
    BY DEF Owners
  <2>2. Progress(c)
    BY ClientsStep DEF DeliveryInv
  <2>3. SuiteRunOf(job[c].dev, View(c))
    BY DEF SuiteRuns
  <2>4. CASE View(c)' = View(c)
    BY <2>3, <2>4
  <2>5. CASE Serial(job[c], View(c), View(c)')
    <3>1. Successor(job[c].accesses, View(c), View(c)')
      BY <2>5 DEF Serial, Successor
    <3>2. Len(View(c).log) < Len(job[c].accesses)
      BY <2>5 DEF Serial, MoreToDo
    <3>3. PICK d, s, n : d = job[c].dev /\ s = View(c) /\ n = View(c)'
      OBVIOUS
    <3>4. job[c].accesses = MtcaDummyTestSuite(d).accesses
      BY <3>3 DEF IsSuite
    <3>5. Past(s.log) < 17
      <4>1. Len(MtcaDummyTestSuite(d).accesses) = 17
        BY SuiteAccesses
      <4>2. Len(s.log) < Len(MtcaDummyTestSuite(d).accesses)
        BY <3>2, <3>3, <3>4, Zenon
      <4> QED
        BY <4>1, <4>2 DEF Past
    <3>6. Successor(MtcaDummyTestSuite(d).accesses, s, n)
      BY <3>1, <3>3, <3>4
    <3>7. SuiteRunOf(d, n)
      BY <2>1, <2>3, <3>3, <3>5, <3>6, SuiteStep
    <3> QED
      BY <3>3, <3>7
  <2> QED
    BY <2>2, <2>4, <2>5 DEF Progress
<1>3. SuiteRuns /\ Both => TestsPass
  <2> SUFFICES ASSUME SuiteRuns, DeliveryInv, ClientsInv, ~Disturbable, NEW c \in Owners, IsSuite(c)
               PROVE  /\ \A n \in 1 .. Len(log[c]) : log[c][n].threw <=> n \in {4, 12, 13}
                      /\ Reads(c, 2, << MTCADUMMY_DMMY_AS_ASCII >>)
                      /\ Reads(c, 3, << ProbeIndex * ProbeIndex >>)
                      /\ Incremented(c, 8, 6)
                      /\ Incremented(c, 11, 9)
                      /\ Reads(c, 14, Squares(ReadStartIndex, nWordsToRead))
                      /\ Reads(c, 17, expectedBuffer)
    BY DEF TestsPass
  <2>1. c \in Clients /\ View(c) \in SerialState
    BY ViewType DEF Owners
  <2>2. PICK l, v : l = log[c] /\ v = View(c).log
    OBVIOUS
  <2>3. /\ l \in Seq(Outcomes) /\ v \in Seq(Outcomes) /\ Len(l) <= Len(v)
        /\ \A n \in 1 .. Len(l) : v[n] = l[n]
    BY <2>1, <2>2, ViewLog DEF SerialState
  <2>4. ChecksHold(v)
    BY <2>2 DEF SuiteRuns, SuiteRunOf, SuiteRun
  <2>5. Len(l) \in Nat /\ Len(v) \in Nat
    BY <2>3
  <2>6. ASSUME NEW n \in 1 .. Len(l)
        PROVE  (l[n].threw <=> n \in {4, 12, 13}) /\ RightData(n, v, l[n].data) /\ l[n] \in Outcomes
    <3>1. n \in 1 .. Len(v) /\ v[n] = l[n] /\ l[n] \in Outcomes
      BY <2>3, <2>5
    <3> QED
      BY <2>4, <3>1 DEF ChecksHold
  <2>7. ASSUME NEW n \in {2, 3, 8, 11, 14, 17}, n <= Len(l)
        PROVE  l[n] = [threw |-> FALSE, data |-> l[n].data] /\ RightData(n, v, l[n].data)
    <3>1. n \in 1 .. Len(l) /\ n \notin {4, 12, 13}
      BY <2>5, <2>7
    <3>2. PICK o \in Outcomes : o = l[n] /\ ~o.threw /\ RightData(n, v, o.data)
      BY <2>6, <3>1
    <3>3. o = [threw |-> FALSE, data |-> o.data]
      BY <3>2 DEF Outcomes
    <3> QED
      BY <3>2, <3>3
  <2>8. ASSUME NEW n \in {2, 3, 14, 17}, NEW words, \A data : RightData(n, v, data) => data = words
        PROVE  Reads(c, n, words)
    BY <2>2, <2>7, <2>8 DEF Reads
  <2>9. /\ Reads(c, 2, << MTCADUMMY_DMMY_AS_ASCII >>) /\ Reads(c, 3, << ProbeIndex * ProbeIndex >>)
        /\ Reads(c, 14, Squares(ReadStartIndex, nWordsToRead)) /\ Reads(c, 17, expectedBuffer)
    <3>1. /\ \A data : RightData(2, v, data) => data = << MTCADUMMY_DMMY_AS_ASCII >>
          /\ \A data : RightData(3, v, data) => data = << ProbeIndex * ProbeIndex >>
          /\ \A data : RightData(14, v, data) => data = Squares(ReadStartIndex, nWordsToRead)
          /\ \A data : RightData(17, v, data) => data = expectedBuffer
      BY DEF RightData
    <3> QED
      BY <2>8, <3>1
  <2>10. Incremented(c, 8, 6)
    <3> SUFFICES ASSUME 8 <= Len(l) PROVE l[8] = [threw |-> FALSE, data |-> << (l[6].data[1] + 1) % U32 >>]
      BY <2>2 DEF Incremented, Reads
    <3>1. v[6] = l[6]
      BY <2>3, <2>5
    <3>2. RightData(8, v, l[8].data) /\ l[8] = [threw |-> FALSE, data |-> l[8].data]
      BY <2>7
    <3> QED
      BY <3>1, <3>2 DEF RightData, Plus
  <2>11. Incremented(c, 11, 9)
    <3> SUFFICES ASSUME 11 <= Len(l) PROVE l[11] = [threw |-> FALSE, data |-> << (l[9].data[1] + 1) % U32 >>]
      BY <2>2 DEF Incremented, Reads
    <3>1. v[9] = l[9]
      BY <2>3, <2>5
    <3>2. RightData(11, v, l[11].data) /\ l[11] = [threw |-> FALSE, data |-> l[11].data]
      BY <2>7
    <3> QED
      BY <3>1, <3>2 DEF RightData, Plus
  <2>12. \A n \in 1 .. Len(log[c]) : log[c][n].threw <=> n \in {4, 12, 13}
    BY <2>2, <2>6
  <2> QED
    BY <2>9, <2>10, <2>11, <2>12
<1> QED
  BY <1>0, <1>1, <1>2, <1>3, ClientsInductive, PTL DEF ClientsSpec

=============================================================================
