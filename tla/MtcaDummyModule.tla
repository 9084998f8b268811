------------------------- MODULE MtcaDummyModule -------------------------
(***************************************************************************)
(* The life of the module: mtcaDummy_init_module, which acquires what the  *)
(* devices need and gives it back when a step fails, and                   *)
(* mtcaDummy_cleanup_module.  Meanwhile threads open and close the devices *)
(* that are already, or still, registered, and read the proc file.         *)
(*                                                                         *)
(* One step of the module is one call into the kernel.  What the handlers  *)
(* do with a device is MtcaDummyDriver; here a thread that has a device    *)
(* open may use its mutex and its bars at any moment.                      *)
(***************************************************************************)
EXTENDS Integers, Sequences, FiniteSets

CONSTANTS
  Threads,           \* the threads that open devices or read the proc file
  MTCADUMMY_NR_DEVS, \* 7
  EmptyTables        \* the devices whose file_operations table is empty: {5}

ASSUME ModuleAssumption ==
  /\ MTCADUMMY_NR_DEVS \in Nat
  /\ EmptyTables \subseteq 0 .. MTCADUMMY_NR_DEVS - 1
  /\ IsFiniteSet(Threads)

VARIABLES
  pc,      \* the point the loading or unloading process has reached
  i,       \* the loop variable of mtcaDummy_init_module
  j,       \* the loop variable of the two loops that take devices down
  k,       \* the position in the sequence of calls that takes one device down
  held,    \* what the module as a whole has acquired
  has,     \* per device, what has been acquired for it
  inUse,   \* per device, the count of openings
  at,      \* per thread, where it is
  file     \* per thread, the device that it opens or has opened

loader == <<pc, i, j, k>>
vars == <<pc, i, j, k, held, has, inUse, at, file>>

NoFile == -1
Slots == 0 .. MTCADUMMY_NR_DEVS - 1

(* What a handler needs of its device, and what else a device has: the     *)
(* registered character device and the node in /dev.                       *)
Vital == {"systemBar", "dmaBar", "devMutex"}
DeviceParts == Vital \cup {"cdev", "node"}

Init ==
  /\ pc = "absent"
  /\ i = 0 /\ j = 0 /\ k = 1
  /\ held = {}
  /\ has = [d \in Slots |-> {}]
  /\ inUse = [d \in Slots |-> 0]
  /\ at = [t \in Threads |-> "out"]
  /\ file = [t \in Threads |-> NoFile]
-----------------------------------------------------------------------------
(* mtcaDummy_init_module. *)

Acquire(r) == has' = [has EXCEPT ![i] = @ \cup {r}]

(* insmod.  What happens after a load has failed with files open, whose    *)
(* handlers are gone, is not modelled: no load follows.                    *)
Load ==
  /\ pc = "absent"
  /\ \A t \in Threads : file[t] = NoFile
  /\ pc' = "alloc_chrdev_region"
  /\ UNCHANGED <<i, j, k, held, has, inUse, at, file>>

alloc_chrdev_region ==
  /\ pc = "alloc_chrdev_region"
  /\ \/ held' = held \cup {"region"} /\ pc' = "class_create"
     \/ pc' = "absent" /\ UNCHANGED held
  /\ UNCHANGED <<i, j, k, has, inUse, at, file>>

(* With the memset of dummyPrivateData and the start of the loop. *)
class_create ==
  /\ pc = "class_create"
  /\ \/ /\ held' = held \cup {"class"}
        /\ pc' = "loop"
        /\ i' = 0
        /\ inUse' = [d \in Slots |-> 0]
     \/ pc' = "unregister" /\ UNCHANGED <<held, i, inUse>>
  /\ UNCHANGED <<j, k, has, at, file>>

(* The calls that take device i down when a step for it has failed, and    *)
(* the labels at which the code enters them.                               *)
ErrorOrder == <<"cdev", "devMutex", "dmaBar", "systemBar">>
err_cdev_init == 2
err_allocate_dmaBar == 4
err_allocate_systemBar == 5

GotoError(label) == pc' = "undo" /\ k' = label

(* Mutants: a jump to the label before, and to the label behind. *)
AllocateDmaBarLeaks ==
  /\ pc = "dmaBar"
  /\ \/ Acquire("dmaBar") /\ pc' = "setup" /\ UNCHANGED k
     \/ GotoError(err_allocate_systemBar) /\ UNCHANGED has
  /\ UNCHANGED <<i, j, held, inUse, at, file>>

cdev_add_undone_twice ==
  /\ pc = "cdev_add"
  /\ \/ Acquire("cdev") /\ pc' = "device_create" /\ UNCHANGED k
     \/ GotoError(1) /\ UNCHANGED has
  /\ UNCHANGED <<i, j, held, inUse, at, file>>

AllocateSystemBar ==
  /\ pc = "loop" /\ i < MTCADUMMY_NR_DEVS
  /\ \/ Acquire("systemBar") /\ pc' = "dmaBar" /\ UNCHANGED k
     \/ GotoError(err_allocate_systemBar) /\ UNCHANGED has
  /\ UNCHANGED <<i, j, held, inUse, at, file>>

AllocateDmaBar ==
  /\ pc = "dmaBar"
  /\ \/ Acquire("dmaBar") /\ pc' = "setup" /\ UNCHANGED k
     \/ GotoError(err_allocate_dmaBar) /\ UNCHANGED has
  /\ UNCHANGED <<i, j, held, inUse, at, file>>

(* The bars are initialised, then the mutex and the count, and the         *)
(* character device gets its table.                                        *)
SetUpDevice ==
  /\ pc = "setup"
  /\ Acquire("devMutex")
  /\ inUse' = [inUse EXCEPT ![i] = 0]
  /\ pc' = "cdev_add"
  /\ UNCHANGED <<i, j, k, held, at, file>>

(* From here on the device can be opened. *)
cdev_add ==
  /\ pc = "cdev_add"
  /\ \/ Acquire("cdev") /\ pc' = "device_create" /\ UNCHANGED k
     \/ GotoError(err_cdev_init) /\ UNCHANGED has
  /\ UNCHANGED <<i, j, held, inUse, at, file>>

(* Mutant: the count is set at the end of the loop. *)
device_create_resets_count ==
  /\ pc = "device_create"
  /\ Acquire("node") \/ UNCHANGED has
  /\ inUse' = [inUse EXCEPT ![i] = 0]
  /\ i' = i + 1
  /\ pc' = "loop"
  /\ UNCHANGED <<j, k, held, at, file>>

(* A failure is an error pointer and never NULL, with which the code       *)
(* compares: the loop goes on without a node, and err_device_create, which *)
(* is the first call of ErrorOrder, is never entered.                      *)
device_create ==
  /\ pc = "device_create"
  /\ Acquire("node") \/ UNCHANGED has
  /\ i' = i + 1
  /\ pc' = "loop"
  /\ UNCHANGED <<j, k, held, inUse, at, file>>

(* Whether the proc file could be created is not looked at. *)
mtcadummy_create_proc ==
  /\ pc = "loop" /\ i = MTCADUMMY_NR_DEVS
  /\ held' = held \cup {"proc"} \/ UNCHANGED held
  /\ pc' = "live"
  /\ UNCHANGED <<i, j, k, has, inUse, at, file>>
-----------------------------------------------------------------------------
(* The way back: the rest of device i, the devices before it, the module.  *)

ReleasePart(d, r) == has' = [has EXCEPT ![d] = @ \ {r}]

UndoDevice ==
  /\ pc = "undo"
  /\ IF k <= Len(ErrorOrder)
       THEN ReleasePart(i, ErrorOrder[k]) /\ k' = k + 1 /\ UNCHANGED <<pc, j>>
       ELSE pc' = "unroll" /\ j' = 0 /\ k' = 1 /\ UNCHANGED has
  /\ UNCHANGED <<i, held, inUse, at, file>>

(* Mutant: the memory is freed while the device is still registered. *)
UnrollMemoryFirst == <<"devMutex", "systemBar", "dmaBar", "node", "cdev">>

UnrollOrder == <<"node", "cdev", "devMutex", "systemBar", "dmaBar">>

CleanupOrder == <<"node", "cdev", "devMutex", "systemBar", "dmaBar">>

(* One call of a loop that takes devices down in the given order of calls, *)
(* and its end.                                                            *)
TakeDown(label, order, last) ==
  /\ pc = label
  /\ IF j < last
       THEN /\ ReleasePart(j, order[k])
            /\ IF k < Len(order) THEN k' = k + 1 /\ UNCHANGED j ELSE k' = 1 /\ j' = j + 1
            /\ UNCHANGED pc
       ELSE pc' = "class_destroy" /\ UNCHANGED <<j, k, has>>
  /\ UNCHANGED <<i, held, inUse, at, file>>

(* Mutant: the loop does not go on to the next device. *)
UnrollSameDevice ==
  /\ pc = "unroll"
  /\ IF j < i
       THEN ReleasePart(j, UnrollOrder[k]) /\ k' = (k % Len(UnrollOrder)) + 1 /\ UNCHANGED pc
       ELSE pc' = "class_destroy" /\ UNCHANGED <<k, has>>
  /\ UNCHANGED <<i, j, held, inUse, at, file>>

UnrollDevices == TakeDown("unroll", UnrollOrder, i)

class_destroy ==
  /\ pc = "class_destroy"
  /\ held' = held \ {"class"}
  /\ pc' = "unregister"
  /\ UNCHANGED <<i, j, k, has, inUse, at, file>>

unregister_chrdev_region ==
  /\ pc = "unregister"
  /\ held' = held \ {"region"}
  /\ pc' = "absent"
  /\ UNCHANGED <<i, j, k, has, inUse, at, file>>
-----------------------------------------------------------------------------
(* rmmod: the kernel turns it down while a file of the module is open, and *)
(* no file can be opened any more once it has accepted.                    *)
Going == {"remove_proc", "rundown", "cleanup", "class_destroy", "unregister", "absent"}

(* Mutant: the device has no owner, so that a file does not keep the       *)
(* module.                                                                 *)
HoldsNothing(t) == FALSE

(* A file of a device holds a reference to the module, its cdev.owner. *)
HoldsModule(t) == file[t] # NoFile

Unload ==
  /\ pc = "live"
  /\ \A t \in Threads : ~HoldsModule(t)
  /\ pc' = "remove_proc"
  /\ UNCHANGED <<i, j, k, held, has, inUse, at, file>>

(* Mutant: the proc file stays. *)
KeepProc ==
  /\ pc = "remove_proc"
  /\ pc' = "cleanup"
  /\ j' = 0 /\ k' = 1
  /\ UNCHANGED <<i, held, has, inUse, at, file>>

(* remove_proc_entry lets nobody in any more, and returns when the last    *)
(* reader has left.                                                        *)
mtcadummy_remove_proc ==
  /\ pc = "remove_proc"
  /\ held' = held \ {"proc"}
  /\ pc' = "rundown"
  /\ UNCHANGED <<i, j, k, has, inUse, at, file>>

ReadersHaveLeft ==
  /\ pc = "rundown"
  /\ \A t \in Threads : at[t] # "dump"
  /\ pc' = "cleanup"
  /\ j' = 0 /\ k' = 1
  /\ UNCHANGED <<i, held, has, inUse, at, file>>

(* Mutant: the loop runs one device too far. *)
CleanupOneMore == TakeDown("cleanup", CleanupOrder, MTCADUMMY_NR_DEVS + 1)

CleanupDevices == TakeDown("cleanup", CleanupOrder, MTCADUMMY_NR_DEVS)
-----------------------------------------------------------------------------
(* The threads. *)

(* The kernel finds the registered device and calls the driver. *)
chrdev_open(t, d) ==
  /\ at[t] = "out"
  /\ "cdev" \in has[d]
  /\ pc \notin Going
  /\ at' = [at EXCEPT ![t] = "opening"]
  /\ file' = [file EXCEPT ![t] = d]
  /\ UNCHANGED <<loader, held, has, inUse>>

(* The table of the device has an open and a release handler. *)
HasHandlers(t) == file[t] \notin EmptyTables

(* mtcaDummy_open returns 0, or it has been told to fail. *)
mtcaDummy_open(t) ==
  /\ at[t] = "opening" /\ pc # "absent"
  /\ HasHandlers(t)
  /\ \/ /\ inUse' = [inUse EXCEPT ![file[t]] = @ + 1]
        /\ at' = [at EXCEPT ![t] = "open"]
        /\ UNCHANGED file
     \/ /\ at' = [at EXCEPT ![t] = "out"]
        /\ file' = [file EXCEPT ![t] = NoFile]
        /\ UNCHANGED inUse
  /\ UNCHANGED <<loader, held, has>>

mtcaDummy_release(t) ==
  /\ at[t] = "open" /\ pc # "absent"
  /\ HasHandlers(t)
  /\ inUse' = [inUse EXCEPT ![file[t]] = @ - 1]
  /\ at' = [at EXCEPT ![t] = "out"]
  /\ file' = [file EXCEPT ![t] = NoFile]
  /\ UNCHANGED <<loader, held, has>>

(* Without handlers the kernel opens and closes by itself: nobody counts.  *)
OpenUncounted(t) ==
  /\ at[t] = "opening" /\ pc # "absent"
  /\ ~HasHandlers(t)
  /\ at' = [at EXCEPT ![t] = "open"]
  /\ UNCHANGED <<loader, held, has, inUse, file>>

CloseUncounted(t) ==
  /\ at[t] = "open" /\ pc # "absent"
  /\ ~HasHandlers(t)
  /\ at' = [at EXCEPT ![t] = "out"]
  /\ file' = [file EXCEPT ![t] = NoFile]
  /\ UNCHANGED <<loader, held, has, inUse>>

(* A dump reads the bars of every device in use; it holds no reference to  *)
(* the module.                                                             *)
StartDump(t) ==
  /\ at[t] = "out"
  /\ "proc" \in held
  /\ at' = [at EXCEPT ![t] = "dump"]
  /\ UNCHANGED <<loader, held, has, inUse, file>>

EndDump(t) ==
  /\ at[t] = "dump"
  /\ at' = [at EXCEPT ![t] = "out"]
  /\ UNCHANGED <<loader, held, has, inUse, file>>
-----------------------------------------------------------------------------
mtcaDummy_init_module ==
  \/ alloc_chrdev_region \/ class_create
  \/ AllocateSystemBar \/ AllocateDmaBar \/ SetUpDevice \/ cdev_add \/ device_create
  \/ mtcadummy_create_proc
  \/ UndoDevice \/ UnrollDevices \/ class_destroy \/ unregister_chrdev_region

mtcaDummy_cleanup_module == mtcadummy_remove_proc \/ ReadersHaveLeft \/ CleanupDevices

LoaderStep == mtcaDummy_init_module \/ mtcaDummy_cleanup_module

ThreadStep(t) ==
  \/ \E d \in Slots : chrdev_open(t, d)
  \/ mtcaDummy_open(t) \/ mtcaDummy_release(t) \/ OpenUncounted(t) \/ CloseUncounted(t)
  \/ StartDump(t) \/ EndDump(t)

Next == Load \/ LoaderStep \/ Unload \/ \E t \in Threads : ThreadStep(t)

Spec == Init /\ [][Next]_vars

(* insmod and rmmod run on once they have begun, and a dump ends: it walks *)
(* over a fixed number of slots.  Nobody need load, unload, open or close. *)
FairSpec == Spec /\ WF_vars(LoaderStep) /\ \A t \in Threads : WF_vars(EndDump(t))
-----------------------------------------------------------------------------
Labels ==
  {"absent", "alloc_chrdev_region", "class_create", "loop", "dmaBar", "setup", "cdev_add",
   "device_create", "live", "undo", "unroll", "class_destroy", "unregister", "remove_proc",
   "rundown", "cleanup"}

(* Type correctness.  No loop runs past the last device, and inUse does    *)
(* not become negative.                                                    *)
TypeOK ==
  /\ pc \in Labels
  /\ i \in 0 .. MTCADUMMY_NR_DEVS /\ j \in 0 .. MTCADUMMY_NR_DEVS /\ k \in 1 .. 5
  /\ held \subseteq {"region", "class", "proc"}
  /\ has \in [Slots -> SUBSET DeviceParts]
  /\ inUse \in [Slots -> Nat]
  /\ at \in [Threads -> {"out", "opening", "open", "dump"}]
  /\ file \in [Threads -> Slots \cup {NoFile}]

Ready(d) == Vital \subseteq has[d]

(* "These have to be in place before the device file becomes available"    *)
(* (mtcadummy_drv.c:83): a device that can be opened has its bars and its  *)
(* mutex, during the load, on every way back from a failed load and during *)
(* the unload.                                                             *)
RegisteredMeansReady == \A d \in Slots : "cdev" \in has[d] => Ready(d)

(* When the module is gone, after an unload or a load that failed at any   *)
(* step, everything it had acquired has been given back.                   *)
NothingLeaked == pc = "absent" => held = {} /\ \A d \in Slots : has[d] = {}

(* Every call that gives something back gives back what is held, so        *)
(* nothing is freed or unregistered twice; only a node that could not be   *)
(* created is destroyed for nothing, which the kernel tolerates.           *)
ReleasedOnce ==
  /\ pc = "undo" /\ k <= Len(ErrorOrder) => ErrorOrder[k] \in has[i]
  /\ pc = "unroll" /\ j < i => UnrollOrder[k] \in has[j] \cup {"node"}
  /\ pc = "cleanup" /\ j < MTCADUMMY_NR_DEVS => CleanupOrder[k] \in has[j] \cup {"node"}
  /\ pc = "class_destroy" => "class" \in held
  /\ pc = "unregister" => "region" \in held

(* The devices of open files stay ready.  The exception is a load that has *)
(* failed for a later device: it takes down the earlier ones although they *)
(* may have been opened meanwhile.                                         *)
LoadFailed == pc \in {"undo", "unroll", "class_destroy", "unregister", "absent"}

OpenFileKeepsDevice ==
  \A t \in Threads : at[t] \in {"opening", "open"} => Ready(file[t]) \/ LoadFailed

(* While somebody reads the proc file every device is ready: the file      *)
(* appears after the last device and goes before the first.                *)
DumpFindsDevices == \A t \in Threads : at[t] = "dump" => \A d \in Slots : Ready(d)

(* inUse counts the open files of a device from the moment it can be       *)
(* opened, also while the load still goes on or is being undone.  Openings *)
(* of a device with an empty table are not counted.                        *)
InUseSinceRegistered ==
  \A d \in Slots \ EmptyTables :
    inUse[d] = Cardinality({t \in Threads : at[t] = "open" /\ file[t] = d})

(* "It provides 7 devices" (README.md:5): after a load that returned 0     *)
(* every device has its node.  A failed device_create refutes it.          *)
LoadedMeansAllNodes == pc = "live" => \A d \in Slots : "node" \in has[d]

(* A load and an unload come to an end, whatever fails and whoever has     *)
(* files open or reads the proc file.                                      *)
LoaderReturns == pc \notin {"absent", "live"} ~> pc \in {"absent", "live"}
-----------------------------------------------------------------------------
(* The inductive invariant behind the safety properties: what is held at   *)
(* each point of the load and the unload.                                  *)

Building == {"loop", "dmaBar", "setup", "cdev_add", "device_create"}
Serving == {"live", "remove_proc", "rundown"}
Empty == {"absent", "alloc_chrdev_region", "class_create", "class_destroy", "unregister"}

ModuleHolds ==
  /\ pc \in {"absent", "alloc_chrdev_region"} => held = {}
  /\ pc \in {"class_create", "unregister"} => held = {"region"}
  /\ pc \in Building \cup {"undo", "unroll", "rundown", "cleanup", "class_destroy"} =>
       held = {"region", "class"}
  /\ pc \in {"live", "remove_proc"} => {"region", "class"} \subseteq held

(* A device that is up; its node may be missing. *)
Up(d) == has[d] \ {"node"} = Vital \cup {"cdev"}
Down(d) == has[d] = {}

(* What device i has while it is built and when a step for it has failed,  *)
(* and what device j still has while it is taken down.                     *)
BuiltParts ==
  /\ pc = "loop" => has[i] = {}
  /\ pc = "dmaBar" => has[i] = {"systemBar"}
  /\ pc = "setup" => has[i] = {"systemBar", "dmaBar"}
  /\ pc = "cdev_add" => has[i] = Vital
  /\ pc = "device_create" => has[i] = Vital \cup {"cdev"}

UndoneParts ==
  /\ k = 2 => has[i] = Vital
  /\ k = 3 => has[i] = {"systemBar", "dmaBar"}
  /\ k = 4 => has[i] = {"systemBar"}
  /\ k = 5 => has[i] = {}

PartsLeft ==
  /\ k = 1 => Up(j)
  /\ k = 2 => has[j] = Vital \cup {"cdev"}
  /\ k = 3 => has[j] = Vital
  /\ k = 4 => has[j] = {"systemBar", "dmaBar"}
  /\ k = 5 => has[j] = {"dmaBar"}

TakenDownTo(last) ==
  /\ j <= last
  /\ \A d \in Slots : (d < j \/ d >= last => Down(d)) /\ (j < d /\ d < last => Up(d))
  /\ j < last => PartsLeft
  /\ j = last => k = 1

DevicesHave ==
  /\ pc \in Building \cup {"undo"} =>
       \A d \in Slots : (d < i => Up(d)) /\ (d > i => Down(d))
  /\ pc \in Building /\ i < MTCADUMMY_NR_DEVS => BuiltParts
  /\ pc \in (Building \ {"loop"}) \cup {"undo"} => i < MTCADUMMY_NR_DEVS
  /\ pc = "undo" => k > 1 /\ UndoneParts
  /\ pc \in Serving => \A d \in Slots : Up(d)
  /\ pc = "unroll" => TakenDownTo(i)
  /\ pc = "cleanup" => TakenDownTo(MTCADUMMY_NR_DEVS)
  /\ pc \in Empty => \A d \in Slots : Down(d)

(* Who can have a file, or read the proc file, at each point. *)
ThreadsUse ==
  \A t \in Threads :
    /\ at[t] \in {"opening", "open"} <=> file[t] # NoFile
    /\ pc \in {"alloc_chrdev_region", "class_create", "remove_proc", "rundown", "cleanup"} =>
         file[t] = NoFile
    /\ pc \in Building /\ file[t] # NoFile =>
         file[t] < i \/ (file[t] = i /\ pc = "device_create")
    /\ at[t] = "dump" => pc \in Serving

IInv == TypeOK /\ ModuleHolds /\ DevicesHave /\ ThreadsUse /\ InUseSinceRegistered
=============================================================================
