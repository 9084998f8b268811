------------------------- MODULE MtcaDummyClients -------------------------
(***************************************************************************)
(* The client library of the tests on top of the driver.  A client is a    *)
(* ReaderWriter: it opens its device, works through a job of area          *)
(* accesses, and closes the device.  StructReaderWriter makes one system   *)
(* call per word, NormalReaderWriter one per area.  readSingle and         *)
(* writeSingle are accesses of one word: a StructReaderWriter builds its   *)
(* areas from them, a NormalReaderWriter builds them from its areas.       *)
(* Threads that are no clients make the system calls of OtherCalls.        *)
(***************************************************************************)
EXTENDS MtcaDummySafety, MtcaDummyReaderWriter

CONSTANTS
  Clients,    \* the threads that run a client
  Jobs,       \* the assignments of a job to every client
  OtherCalls  \* the system calls of the other threads

(* A job: the device, the accesses, and whether an exception ends it. *)
IsJob(j) ==
  /\ j.dev \in Devices
  /\ j.quits \in BOOLEAN
  /\ Len(j.accesses) \in Nat
  /\ \A n \in 1 .. Len(j.accesses) : IsAccess(j.accesses, n)

(* The system calls of the wrappers: a StructReaderWriter's for word k of  *)
(* an access, counted from 0, a NormalReaderWriter's for the whole area.   *)
OpenCall(d) == [op |-> "open", dev |-> d]
CloseCall == [op |-> "release"]

StructCall(a, k, words) ==
  IF a.op = "read"
    THEN [op |-> "read", count |-> sizeof_device_rw, mode |-> RW_D32, bar |-> a.bar,
          offset |-> WordOffset(a, k), size |-> 0]
    ELSE [op |-> "write", count |-> sizeof_device_rw, mode |-> RW_D32, bar |-> a.bar,
          offset |-> WordOffset(a, k), data |-> words[k + 1]]

NormalCall(a, words) ==
  LET virtualOffset == a.bar * BAR_STRIDE + a.offset
  IN IF a.op = "read"
       THEN [op |-> "pread", count |-> 4 * a.nWords, pos |-> virtualOffset]
       ELSE [op |-> "pwrite", count |-> 4 * a.nWords, pos |-> virtualOffset,
             data |-> [n \in 0 .. a.nWords - 1 |-> words[n + 1]]]

(* The wrapper fits the handlers of the device. *)
HasStruct(d) == FileOps(d).rw = "struct"

AccessCalls(d, a) ==
  IF HasStruct(d)
    THEN {StructCall(a, k, w) : k \in 0 .. a.nWords - 1, w \in PossibleWords(a)}
    ELSE {NormalCall(a, w) : w \in PossibleWords(a)}

CallsOf(j) ==
  {OpenCall(j.dev), CloseCall}
    \cup UNION {AccessCalls(j.dev, j.accesses[n]) : n \in 1 .. Len(j.accesses)}

WrapperCalls == UNION {CallsOf(j[c]) : j \in Jobs, c \in Clients}

ASSUME ClientsAssumption ==
  /\ Clients \subseteq Threads
  /\ \A j \in Jobs : \A c \in Clients : IsJob(j[c])
  /\ WrapperCalls \subseteq Calls /\ OtherCalls \subseteq Calls

VARIABLES
  job,     \* per client, its job
  stage,   \* per client: start, opening, working, closing, ended
  done,    \* per client, the words of the current access done by the loop
  buffer,  \* per client, the words the loop has read
  log      \* per client, the outcomes of its accesses so far

clientVars == <<job, stage, done, buffer, log>>
allVars == <<vars, clientVars>>

ClientsInit ==
  /\ Init
  /\ job \in Jobs
  /\ stage = [c \in Clients |-> "start"]
  /\ done = [c \in Clients |-> 0]
  /\ buffer = [c \in Clients |-> <<>>]
  /\ log = [c \in Clients |-> <<>>]
-----------------------------------------------------------------------------
IsStruct(c) == HasStruct(job[c].dev)

Access(c) == job[c].accesses[Len(log[c]) + 1]

(* The access is over, with the words it has delivered. *)
Complete(c, threw, words) ==
  /\ log' = [log EXCEPT ![c] = Append(@, Outcome(threw, words))]
  /\ done' = [done EXCEPT ![c] = 0]
  /\ buffer' = [buffer EXCEPT ![c] = <<>>]
-----------------------------------------------------------------------------
(* The constructor; it throws when the file cannot be opened, and then     *)
(* there is no object to destroy.                                          *)
Construct(c) ==
  /\ stage[c] = "start"
  /\ Enter(c, OpenCall(job[c].dev))
  /\ stage' = [stage EXCEPT ![c] = "opening"]
  /\ UNCHANGED <<job, done, buffer, log>>

OpenReturns(c) ==
  /\ stage[c] = "opening" /\ pc[c] = "done"
  /\ stage' = [stage EXCEPT ![c] = IF ret[c] < 0 THEN "ended" ELSE "working"]
  /\ Exit(c)
  /\ UNCHANGED <<job, done, buffer, log>>

Working(c) == stage[c] = "working" /\ pc[c] = "idle" /\ MoreToDo(job[c], log[c])

(* StructReaderWriter: the loop over the words of an area. *)
CallForWord(c) ==
  /\ Working(c) /\ IsStruct(c)
  /\ done[c] < Access(c).nWords
  /\ Enter(c, StructCall(Access(c), done[c], Words(Access(c), log[c])))
  /\ UNCHANGED clientVars

LoopEnds(c) ==
  /\ Working(c) /\ IsStruct(c)
  /\ done[c] = Access(c).nWords
  /\ Complete(c, FALSE, buffer[c])
  /\ UNCHANGED <<vars, job, stage>>

(* Mutant: a failed word does not end the loop. *)
WordReturnsRegardless(c) ==
  /\ stage[c] = "working" /\ pc[c] = "done" /\ IsStruct(c)
  /\ done' = [done EXCEPT ![c] = @ + 1]
  /\ buffer' = [buffer EXCEPT ![c] = @ \o result[c]]
  /\ Exit(c)
  /\ UNCHANGED <<job, stage, log>>

WordReturns(c) ==
  /\ stage[c] = "working" /\ pc[c] = "done" /\ IsStruct(c)
  /\ IF ret[c] = sizeof_device_rw
       THEN /\ done' = [done EXCEPT ![c] = @ + 1]
            /\ buffer' = [buffer EXCEPT ![c] = @ \o result[c]]
            /\ UNCHANGED log
       ELSE Complete(c, TRUE, buffer[c])
  /\ Exit(c)
  /\ UNCHANGED <<job, stage>>

(* NormalReaderWriter: bars above 5 are turned down before the call. *)
BarTooLarge(c) ==
  /\ Working(c) /\ ~IsStruct(c)
  /\ Access(c).bar > 5
  /\ Complete(c, TRUE, <<>>)
  /\ UNCHANGED <<vars, job, stage>>

CallForArea(c) ==
  /\ Working(c) /\ ~IsStruct(c)
  /\ Access(c).bar <= 5
  /\ Enter(c, NormalCall(Access(c), Words(Access(c), log[c])))
  /\ UNCHANGED clientVars

(* Mutant: a short transfer passes for a complete one. *)
AreaReturnsShort(c) ==
  /\ stage[c] = "working" /\ pc[c] = "done" /\ ~IsStruct(c)
  /\ Complete(c, ret[c] < 0, result[c])
  /\ Exit(c)
  /\ UNCHANGED <<job, stage>>

AreaReturns(c) ==
  /\ stage[c] = "working" /\ pc[c] = "done" /\ ~IsStruct(c)
  /\ Complete(c, ret[c] # 4 * Access(c).nWords, result[c])
  /\ Exit(c)
  /\ UNCHANGED <<job, stage>>

(* Mutant: an exception that ends the job leaves the file open. *)
DestructUnlessThrown(c) ==
  /\ stage[c] = "working" /\ pc[c] = "idle" /\ ~MoreToDo(job[c], log[c])
  /\ IF Len(log[c]) = Len(job[c].accesses)
       THEN Enter(c, CloseCall) /\ stage' = [stage EXCEPT ![c] = "closing"]
       ELSE stage' = [stage EXCEPT ![c] = "ended"] /\ UNCHANGED vars
  /\ UNCHANGED <<job, done, buffer, log>>

(* The destructor. *)
Destruct(c) ==
  /\ stage[c] = "working" /\ pc[c] = "idle" /\ ~MoreToDo(job[c], log[c])
  /\ Enter(c, CloseCall)
  /\ stage' = [stage EXCEPT ![c] = "closing"]
  /\ UNCHANGED <<job, done, buffer, log>>

CloseReturns(c) ==
  /\ stage[c] = "closing" /\ pc[c] = "done"
  /\ stage' = [stage EXCEPT ![c] = "ended"]
  /\ Exit(c)
  /\ UNCHANGED <<job, done, buffer, log>>
-----------------------------------------------------------------------------
ClientStep(c) ==
  \/ Construct(c) \/ OpenReturns(c)
  \/ CallForWord(c) \/ WordReturns(c) \/ LoopEnds(c)
  \/ BarTooLarge(c) \/ CallForArea(c) \/ AreaReturns(c)
  \/ Destruct(c) \/ CloseReturns(c)

(* A client inside the driver. *)
Advance(c) == pc[c] # "done" /\ Step(c) /\ UNCHANGED clientVars
Lock(c) == (LockControl(c) \/ LockDevice(c)) /\ UNCHANGED clientVars

OtherStep(t) ==
  /\ \/ \E c \in OtherCalls : Enter(t, c)
     \/ LockControl(t) \/ LockDevice(t) \/ Signal(t) \/ Step(t)
  /\ UNCHANGED clientVars

ClientsNext ==
  \/ \E c \in Clients : ClientStep(c) \/ Advance(c) \/ Lock(c) \/ (Signal(c) /\ UNCHANGED clientVars)
  \/ \E t \in Threads \ Clients : OtherStep(t)

ClientsSpec == ClientsInit /\ [][ClientsNext]_allVars

(* Clients run on.  In the driver the fairness is that of MtcaDummyDriver. *)
ClientsFairness ==
  /\ \A c \in Clients : WF_allVars(ClientStep(c)) /\ WF_allVars(Advance(c))
  /\ \A t \in Threads \ Clients : WF_allVars(Step(t) /\ UNCHANGED clientVars)
  /\ \A t \in Threads : /\ SF_allVars(LockControl(t) /\ UNCHANGED clientVars)
                        /\ SF_allVars(LockDevice(t) /\ UNCHANGED clientVars)

FairClientsSpec == ClientsSpec /\ ClientsFairness
-----------------------------------------------------------------------------
(* The clients that nobody else writes the device of, if it has handlers,  *)
(* and whether errors can be injected into their calls or signals and      *)
(* faults meet them.                                                       *)
Owners ==
  {c \in Clients :
     /\ FileOps(job[c].dev).rw # "none"
     /\ \A o \in OtherCalls : o.op \notin {"write", "pwrite"}
     /\ \A b \in Clients \ {c} : job[b].dev = job[c].dev =>
          \A n \in 1 .. Len(job[b].accesses) : job[b].accesses[n].op = "read"}

Disturbable == Signals \/ TRUE \in Faults \/ \E o \in OtherCalls : o.op = "control"

(* How far a client has come with its job, with what a call has brought    *)
(* about that the wrapper has not looked at yet.                           *)
View(c) ==
  LET at(l, k, got) ==
        State(l, k, got, pc[c] \in FirmwareLabels, systemBar[job[c].dev], dmaBar[job[c].dev])
      over(threw, words) == at(Append(log[c], Outcome(threw, words)), 0, <<>>)
  IN  IF stage[c] # "working" THEN at(log[c], 0, <<>>)
      ELSE IF pc[c] # "done" THEN at(log[c], done[c] + idx[c], buffer[c] \o result[c])
      ELSE IF ~IsStruct(c) THEN over(ret[c] # 4 * Access(c).nWords, result[c])
      ELSE IF ret[c] # sizeof_device_rw THEN over(TRUE, buffer[c])
      ELSE at(log[c], done[c] + 1, buffer[c] \o result[c])

(* "A loop around readSingle", "a loop around writeSingle"                 *)
(* (ReaderWriter.h): with the loop of a StructReaderWriter over single     *)
(* words and with the one system call of a NormalReaderWriter, every step  *)
(* anybody makes leaves an access and the bars where they are, or is the   *)
(* next step of the loop: it reads or stores the next word, lets the       *)
(* firmware react to it, comes to the end or throws at the first word that *)
(* is refused.  Only injected errors, signals and faults end it earlier.   *)
AccessesAreSerial ==
  [][\A c \in Owners :
       \/ View(c)' = View(c)
       \/ Serial(job[c], View(c), View(c)')
       \/ Disturbable /\ Disturbed(job[c], View(c), View(c)')]_allVars

(* The two wrappers come to the same.  Clients with the same accesses on   *)
(* devices of their own deliver the same words, throw at the same accesses *)
(* and leave the same bars, also when an area runs over the end of a bar   *)
(* or meets a register that fails.                                         *)
ClientsAgree ==
  \A a, b \in Owners :
    ~Disturbable /\ job[a].accesses = job[b].accesses =>
      /\ \A n \in 1 .. Len(log[a]) : n <= Len(log[b]) => log[a][n] = log[b][n]
      /\ Len(log[a]) = Len(log[b]) /\ done[a] = 0 /\ done[b] = 0 /\ {pc[a], pc[b]} = {"idle"} =>
           /\ systemBar[job[a].dev] = systemBar[job[b].dev]
           /\ dmaBar[job[a].dev] = dmaBar[job[b].dev]

(* Every client comes to its end with its file closed, also when an        *)
(* exception or a signal cuts its job short, when it cannot open the       *)
(* device, and when others take the mutexes again and again.               *)
ClientsEnd ==
  <>(\A c \in Clients : stage[c] = "ended" /\ file[c] = NoFile)
=============================================================================
