-------------------------- MODULE MtcaDummyDump --------------------------
(***************************************************************************)
(* What a dump of /proc/mtcadummy shows while devices are opened and       *)
(* closed: the driver with a history of every dump.  The dump looks at     *)
(* inUse, waits for devMutex and prints what it then finds.                *)
(***************************************************************************)
EXTENDS MtcaDummySafety

VARIABLES
  printed,   \* per thread, the devices whose bars its dump has printed
  everOpen,  \* per thread, the devices open at some time during its dump
  alwaysOpen \* per thread, the devices open during all of its dump so far

history == <<printed, everOpen, alwaysOpen>>
dumpVars == <<vars, history>>

OpenDevices == {d \in Devices : FileOps(d).open /\ OpenFiles(d) # {}}

Dumping(t) == call[t].op = "dump"

DumpInit ==
  /\ Init
  /\ printed = [t \in Threads |-> {}]
  /\ everOpen = [t \in Threads |-> {}]
  /\ alwaysOpen = [t \in Threads |-> {}]

Record ==
  /\ printed' = [t \in Threads |->
       IF Dumping(t)' THEN printed[t] \cup {d \in {idx[t]} : pc[t] = "body" /\ pc'[t] = "dump"}
                      ELSE {}]
  /\ everOpen' = [t \in Threads |-> IF Dumping(t)' THEN everOpen[t] \cup OpenDevices' ELSE {}]
  /\ alwaysOpen' = [t \in Threads |->
       IF Dumping(t)' THEN (IF Dumping(t) THEN alwaysOpen[t] ELSE Devices) \cap OpenDevices'
                      ELSE {}]

DumpNext == Next /\ Record

DumpSpec == DumpInit /\ [][DumpNext]_dumpVars
-----------------------------------------------------------------------------
(* "Only print something for devices which have been opened"               *)
(* (mtcadummy_proc.c:40): the last user may close a device between the     *)
(* dump's look at inUse and its printing, but a device that nobody has had *)
(* open since the dump began is not printed.                               *)
PrintsOnlyOpened == \A t \in Threads : printed[t] \subseteq everOpen[t]

(* A dump that comes to its end has printed every device that somebody had *)
(* open all the time.                                                      *)
PrintsAllOpen ==
  \A t \in Threads : Dumping(t) /\ pc[t] = "done" /\ ret[t] = 0 => alwaysOpen[t] \subseteq printed[t]
=============================================================================
