----------------------- MODULE MtcaDummyModuleProofs -----------------------
(***************************************************************************)
(* Proofs about the life of the module, for any number of devices and any  *)
(* finite set of threads.                                                  *)
(***************************************************************************)
EXTENDS MtcaDummyModule, FiniteSetTheorems, TLAPS

(* The parts of a device as they come and go. *)
LEMMA Parts ==
  /\ {} \cup {"systemBar"} = {"systemBar"}
  /\ {"systemBar"} \cup {"dmaBar"} = {"systemBar", "dmaBar"}
  /\ {"systemBar", "dmaBar"} \cup {"devMutex"} = Vital
  /\ (Vital \cup {"cdev"}) \ {"cdev"} = Vital
  /\ Vital \ {"devMutex"} = {"systemBar", "dmaBar"}
  /\ {"systemBar", "dmaBar"} \ {"dmaBar"} = {"systemBar"}
  /\ {"systemBar", "dmaBar"} \ {"systemBar"} = {"dmaBar"}
  /\ {"systemBar"} \ {"systemBar"} = {}
  /\ {"dmaBar"} \ {"dmaBar"} = {}
  /\ (Vital \cup {"cdev"}) \ {"node"} = Vital \cup {"cdev"}
  /\ ((Vital \cup {"cdev"}) \cup {"node"}) \ {"node"} = Vital \cup {"cdev"}
BY DEF Vital

(* Which of them a device can be opened with. *)
LEMMA CdevParts ==
  /\ "cdev" \notin {"systemBar"} /\ "cdev" \notin {"systemBar", "dmaBar"}
  /\ "cdev" \notin {"dmaBar"} /\ "cdev" \notin Vital
  /\ "cdev" \in Vital \cup {"cdev"} /\ Vital \subseteq Vital \cup {"cdev"}
BY DEF Vital

LEMMA UpParts ==
  ASSUME NEW d, Up(d)
  PROVE  Vital \subseteq has[d] /\ {"cdev"} \subseteq has[d] /\ has[d] \subseteq DeviceParts
BY DEF Up, Vital, DeviceParts

(* The calls that take a device down, in both loops, and the labels of the *)
(* error path.                                                             *)
LEMMA Orders ==
  /\ CleanupOrder = UnrollOrder /\ Len(UnrollOrder) = 5
  /\ UnrollOrder[1] = "node" /\ UnrollOrder[2] = "cdev" /\ UnrollOrder[3] = "devMutex"
  /\ UnrollOrder[4] = "systemBar" /\ UnrollOrder[5] = "dmaBar"
  /\ Len(ErrorOrder) = 4
  /\ ErrorOrder[2] = "devMutex" /\ ErrorOrder[3] = "dmaBar" /\ ErrorOrder[4] = "systemBar"
BY DEF CleanupOrder, UnrollOrder, ErrorOrder

LEMMA SlotFacts ==
  /\ \A d \in Slots : d \in Int /\ 0 <= d /\ d < MTCADUMMY_NR_DEVS /\ d # NoFile
  /\ \A d \in Nat : d < MTCADUMMY_NR_DEVS => d \in Slots
  /\ MTCADUMMY_NR_DEVS \in Nat
BY ModuleAssumption DEF Slots, NoFile
-----------------------------------------------------------------------------
LEMMA InitInv == Init => IInv
<1> SUFFICES ASSUME Init PROVE IInv
  OBVIOUS
<1>1. TypeOK
  BY SlotFacts DEF Init, TypeOK, Labels
<1>2. ModuleHolds
  BY DEF Init, ModuleHolds, Building
<1>3. DevicesHave
  BY DEF Init, DevicesHave, Building, Serving, Empty, Down
<1>4. ThreadsUse
  BY DEF Init, ThreadsUse, Building, Serving
<1>5. InUseSinceRegistered
  <2>1. \A d \in Slots : {t \in Threads : at[t] = "open" /\ file[t] = d} = {}
    BY DEF Init
  <2> QED
    BY <2>1, FS_EmptySet DEF Init, InUseSinceRegistered
<1> QED
  BY <1>1, <1>2, <1>3, <1>4, <1>5 DEF IInv

(* What the module as a whole holds. *)
LEMMA ModuleHoldsStep ==
  ASSUME TypeOK, ModuleHolds, Next
  PROVE  ModuleHolds'
<1> USE DEF ModuleHolds, Building
<1>1. CASE Load \/ Unload
  BY <1>1 DEF Load, Unload
<1>2. CASE mtcaDummy_init_module
  <2>1. CASE alloc_chrdev_region
    BY <2>1 DEF alloc_chrdev_region
  <2>2. CASE class_create
    BY <2>2 DEF class_create
  <2>3. CASE AllocateSystemBar \/ AllocateDmaBar \/ SetUpDevice \/ cdev_add \/ device_create
    BY <2>3 DEF AllocateSystemBar, AllocateDmaBar, SetUpDevice, cdev_add, device_create, GotoError
  <2>4. CASE mtcadummy_create_proc
    BY <2>4 DEF mtcadummy_create_proc
  <2>5. CASE UndoDevice \/ UnrollDevices
    BY <2>5 DEF UndoDevice, UnrollDevices, TakeDown
  <2>6. CASE class_destroy
    BY <2>6 DEF class_destroy
  <2>7. CASE unregister_chrdev_region
    BY <2>7 DEF unregister_chrdev_region
  <2> QED
    BY <1>2, <2>1, <2>2, <2>3, <2>4, <2>5, <2>6, <2>7 DEF mtcaDummy_init_module
<1>3. CASE mtcaDummy_cleanup_module
  <2>1. CASE mtcadummy_remove_proc
    BY <2>1 DEF mtcadummy_remove_proc, TypeOK
  <2>2. CASE ReadersHaveLeft \/ CleanupDevices
    BY <2>2 DEF ReadersHaveLeft, CleanupDevices, TakeDown
  <2> QED
    BY <1>3, <2>1, <2>2 DEF mtcaDummy_cleanup_module
<1>4. CASE \E t \in Threads : ThreadStep(t)
  BY <1>4 DEF ThreadStep, chrdev_open, mtcaDummy_open, mtcaDummy_release, OpenUncounted,
              CloseUncounted, StartDump, EndDump, loader
<1> QED
  BY <1>1, <1>2, <1>3, <1>4 DEF Next, LoaderStep

(* A call of one of the two loops that take devices down.  The device it   *)
(* works on loses a part, the others keep theirs.                          *)
LEMMA TakeDownStep ==
  ASSUME TypeOK, NEW last \in 0 .. MTCADUMMY_NR_DEVS, NEW label,
         TakenDownTo(last), TakeDown(label, UnrollOrder, last), j < last
  PROVE  /\ j' <= last
         /\ \A d \in Slots : /\ d < j' \/ d >= last => has'[d] = {}
                             /\ j' < d /\ d < last => has'[d] \ {"node"} = Vital \cup {"cdev"}
         /\ j' < last => /\ k' = 1 => has'[j'] \ {"node"} = Vital \cup {"cdev"}
                         /\ k' = 2 => has'[j'] = Vital \cup {"cdev"}
                         /\ k' = 3 => has'[j'] = Vital
                         /\ k' = 4 => has'[j'] = {"systemBar", "dmaBar"}
                         /\ k' = 5 => has'[j'] = {"dmaBar"}
         /\ j' = last => k' = 1
<1>1. j \in Slots /\ j \in Int /\ k \in 1 .. 5 /\ has \in [Slots -> SUBSET DeviceParts]
  BY SlotFacts DEF TypeOK
<1>2. has' = [has EXCEPT ![j] = has[j] \ {UnrollOrder[k]}]
  BY <1>1 DEF TakeDown, ReleasePart
<1>3. \A d \in Slots : d # j => has'[d] = has[d]
  BY <1>1, <1>2
<1>4. has'[j] = has[j] \ {UnrollOrder[k]}
  BY <1>1, <1>2
<1>5. CASE k < 5
  <2>1. j' = j /\ k' = k + 1
    BY <1>5, Orders DEF TakeDown
  <2>2. /\ k = 1 => has'[j] = Vital \cup {"cdev"}
        /\ k = 2 => has'[j] = Vital
        /\ k = 3 => has'[j] = {"systemBar", "dmaBar"}
        /\ k = 4 => has'[j] = {"dmaBar"}
    BY <1>4, Orders, Parts DEF TakenDownTo, PartsLeft, Up
  <2> QED
    BY <1>1, <1>3, <1>5, <2>1, <2>2, SlotFacts DEF TakenDownTo, Up, Down
<1>6. CASE k = 5
  <2>1. j' = j + 1 /\ k' = 1
    BY <1>6, Orders DEF TakeDown
  <2>2. has'[j] = {}
    BY <1>4, <1>6, Orders, Parts DEF TakenDownTo, PartsLeft
  <2>3. j + 1 < last => j + 1 \in Slots
    BY <1>1, SlotFacts
  <2> QED
    BY <1>1, <1>3, <2>1, <2>2, <2>3, SlotFacts DEF TakenDownTo, Up, Down
<1>7. k < 5 \/ k = 5
  BY <1>1
<1> QED
  BY <1>5, <1>6, <1>7, Zenon

(* What the devices have while they are built. *)
LEMMA BuildStep ==
  ASSUME TypeOK, DevicesHave,
         AllocateSystemBar \/ AllocateDmaBar \/ SetUpDevice \/ cdev_add \/ device_create
  PROVE  DevicesHave'
<1>1. i \in Int /\ 0 <= i /\ i < MTCADUMMY_NR_DEVS /\ i \in Slots
  BY SlotFacts DEF TypeOK, DevicesHave, Building, AllocateSystemBar, AllocateDmaBar, SetUpDevice,
                   cdev_add, device_create
<1>2. has \in [Slots -> SUBSET DeviceParts] /\ \A d \in Slots : (d < i => Up(d)) /\ (d > i => Down(d))
  BY DEF TypeOK, DevicesHave, Building, AllocateSystemBar, AllocateDmaBar, SetUpDevice,
         cdev_add, device_create
<1>3. BuiltParts
  BY <1>1 DEF DevicesHave, Building, AllocateSystemBar, AllocateDmaBar, SetUpDevice,
              cdev_add, device_create
<1> USE DEF Building, Serving, Empty
<1>4. CASE device_create
  <2>1. pc' = "loop" /\ i' = i + 1
    BY <1>4 DEF device_create
  <2>2. has'[i] \ {"node"} = Vital \cup {"cdev"} /\ \A d \in Slots : d # i => has'[d] = has[d]
    BY <1>1, <1>2, <1>3, <1>4, Parts DEF device_create, Acquire, BuiltParts
  <2>3. \A d \in Slots : (d < i + 1 => Up(d)') /\ (d >= i + 1 => Down(d)')
    BY <1>1, <1>2, <2>2, SlotFacts DEF Up, Down
  <2>4. i + 1 < MTCADUMMY_NR_DEVS => has'[i + 1] = {}
    BY <1>1, <2>3, SlotFacts DEF Down
  <2> QED
    BY <1>1, <2>1, <2>3, <2>4, SlotFacts DEF DevicesHave, BuiltParts
<1>5. CASE AllocateSystemBar \/ AllocateDmaBar \/ SetUpDevice \/ cdev_add
  <2>1. i' = i /\ \A d \in Slots : d # i => has'[d] = has[d]
    BY <1>1, <1>2, <1>5 DEF AllocateSystemBar, AllocateDmaBar, SetUpDevice, cdev_add, Acquire
  <2>2. \A d \in Slots : (d < i' => Up(d)') /\ (d > i' => Down(d)')
    BY <1>1, <1>2, <2>1, SlotFacts DEF Up, Down
  <2>3. \/ pc' \in {"dmaBar", "setup", "cdev_add", "device_create"} /\ BuiltParts'
        \/ pc' = "undo" /\ k' > 1 /\ UndoneParts'
    <3>1. CASE AllocateSystemBar
      BY <1>1, <1>2, <1>3, <2>1, <3>1, Parts
      DEF AllocateSystemBar, Acquire, GotoError, err_allocate_systemBar, BuiltParts, UndoneParts
    <3>2. CASE AllocateDmaBar
      BY <1>1, <1>2, <1>3, <2>1, <3>2, Parts
      DEF AllocateDmaBar, Acquire, GotoError, err_allocate_dmaBar, BuiltParts, UndoneParts
    <3>3. CASE SetUpDevice
      BY <1>1, <1>2, <1>3, <2>1, <3>3, Parts DEF SetUpDevice, Acquire, BuiltParts
    <3>4. CASE cdev_add
      BY <1>1, <1>2, <1>3, <2>1, <3>4, Parts
      DEF cdev_add, Acquire, GotoError, err_cdev_init, BuiltParts, UndoneParts
    <3> QED
      BY <1>5, <3>1, <3>2, <3>3, <3>4
  <2> QED
    BY <1>1, <2>1, <2>2, <2>3 DEF DevicesHave
<1> QED
  BY <1>4, <1>5

(* What they have on the way back from a failed load. *)
LEMMA UndoStep ==
  ASSUME TypeOK, DevicesHave, UndoDevice
  PROVE  DevicesHave'
<1>1. /\ i \in Slots /\ i \in Int /\ 0 <= i /\ i < MTCADUMMY_NR_DEVS
      /\ k \in 2 .. 5 /\ UndoneParts /\ has \in [Slots -> SUBSET DeviceParts] /\ i' = i
      /\ \A d \in Slots : (d < i => Up(d)) /\ (d > i => Down(d))
  BY SlotFacts DEF TypeOK, DevicesHave, UndoDevice
<1> USE DEF Building, Serving, Empty
<1>2. CASE k <= 4
  <2>1. pc' = "undo" /\ k' = k + 1 /\ has' = [has EXCEPT ![i] = @ \ {ErrorOrder[k]}]
    BY <1>2, Orders DEF UndoDevice, ReleasePart
  <2>2. has'[i] = has[i] \ {ErrorOrder[k]} /\ \A d \in Slots : d # i => has'[d] = has[d]
    BY <1>1, <2>1
  <2>3. UndoneParts'
    BY <1>1, <1>2, <2>1, <2>2, Orders, Parts DEF UndoneParts
  <2>4. \A d \in Slots : (d < i => Up(d)') /\ (d > i => Down(d)')
    BY <1>1, <2>2, SlotFacts DEF Up, Down
  <2> QED
    BY <1>1, <2>1, <2>3, <2>4 DEF DevicesHave
<1>3. CASE k = 5
  <2>1. pc' = "unroll" /\ j' = 0 /\ k' = 1 /\ has' = has
    BY <1>3, Orders DEF UndoDevice
  <2>2. has[i] = {}
    BY <1>1, <1>3 DEF UndoneParts
  <2>3. \A d \in Slots : (d < i => Up(d)) /\ (d >= i => Down(d))
    BY <1>1, <2>2, SlotFacts DEF Down
  <2>4. TakenDownTo(i)'
    BY <1>1, <2>1, <2>3, SlotFacts DEF TakenDownTo, PartsLeft, Up, Down
  <2> QED
    BY <2>1, <2>4 DEF DevicesHave
<1> QED
  BY <1>1, <1>2, <1>3

LEMMA UnrollStep ==
  ASSUME TypeOK, DevicesHave, UnrollDevices \/ CleanupDevices
  PROVE  DevicesHave'
<1> USE DEF Building, Serving, Empty
<1>1. CASE UnrollDevices
  <2>1. pc = "unroll" /\ i' = i /\ i \in 0 .. MTCADUMMY_NR_DEVS /\ TakenDownTo(i)
    BY <1>1 DEF UnrollDevices, TakeDown, TypeOK, DevicesHave
  <2>2. CASE j < i
    <3>1. TakenDownTo(i)'
      BY <1>1, <2>1, <2>2, TakeDownStep DEF UnrollDevices, TakenDownTo, PartsLeft, Up, Down
    <3>2. pc' = "unroll"
      BY <1>1, <2>2 DEF UnrollDevices, TakeDown
    <3> QED
      BY <3>1, <3>2 DEF DevicesHave
  <2>3. CASE ~(j < i)
    <3>1. pc' = "class_destroy" /\ has' = has
      BY <1>1, <2>3 DEF UnrollDevices, TakeDown
    <3>2. \A d \in Slots : Down(d)
      BY <2>1, <2>3, SlotFacts DEF TakenDownTo, TypeOK
    <3> QED
      BY <3>1, <3>2 DEF DevicesHave, Down
  <2> QED
    BY <2>2, <2>3
<1>2. CASE CleanupDevices
  <2> DEFINE N == MTCADUMMY_NR_DEVS
  <2>1. pc = "cleanup" /\ N \in 0 .. N /\ TakenDownTo(N) /\ TakeDown("cleanup", UnrollOrder, N)
    BY <1>2, Orders, SlotFacts DEF CleanupDevices, TakeDown, TypeOK, DevicesHave
  <2>2. CASE j < N
    <3>1. TakenDownTo(N)'
      BY <2>1, <2>2, TakeDownStep DEF TakenDownTo, PartsLeft, Up, Down
    <3>2. pc' = "cleanup"
      BY <2>1, <2>2 DEF TakeDown
    <3> QED
      BY <3>1, <3>2 DEF DevicesHave
  <2>3. CASE ~(j < N)
    <3>1. pc' = "class_destroy" /\ has' = has
      BY <2>1, <2>3 DEF TakeDown
    <3>2. \A d \in Slots : Down(d)
      BY <2>1, <2>3, SlotFacts DEF TakenDownTo, TypeOK
    <3> QED
      BY <3>1, <3>2 DEF DevicesHave, Down
  <2> QED
    BY <2>2, <2>3
<1> QED
  BY <1>1, <1>2

(* The parts of the devices at every point of the load and the unload. *)
LEMMA DevicesStep ==
  ASSUME TypeOK, DevicesHave, Next
  PROVE  DevicesHave'
<1> USE DEF Building, Serving, Empty
<1>1. CASE Load \/ alloc_chrdev_region \/ class_destroy \/ unregister_chrdev_region
  BY <1>1 DEF Load, alloc_chrdev_region, class_destroy, unregister_chrdev_region,
              DevicesHave, Down
<1>2. CASE class_create
  BY <1>2, SlotFacts DEF class_create, DevicesHave, BuiltParts, Up, Down
<1>3. CASE mtcadummy_create_proc
  BY <1>3, SlotFacts DEF mtcadummy_create_proc, DevicesHave, Up
<1>4. CASE Unload \/ mtcadummy_remove_proc
  BY <1>4 DEF Unload, mtcadummy_remove_proc, DevicesHave, Up
<1>5. CASE ReadersHaveLeft
  BY <1>5, SlotFacts DEF ReadersHaveLeft, DevicesHave, TakenDownTo, PartsLeft, Up, Down
<1>6. CASE \E t \in Threads : ThreadStep(t)
  <2>1. pc' = pc /\ i' = i /\ j' = j /\ k' = k /\ has' = has
    BY <1>6 DEF ThreadStep, chrdev_open, mtcaDummy_open, mtcaDummy_release, OpenUncounted,
                CloseUncounted, StartDump, EndDump,
                loader
  <2> QED
    BY <2>1 DEF DevicesHave, BuiltParts, UndoneParts, TakenDownTo, PartsLeft, Up, Down
<1> QED
  BY <1>1, <1>2, <1>3, <1>4, <1>5, <1>6, BuildStep, UndoStep, UnrollStep
  DEF Next, LoaderStep, mtcaDummy_init_module, mtcaDummy_cleanup_module
-----------------------------------------------------------------------------
(* Who has files open or reads the proc file. *)
LEMMA ThreadsUseStep ==
  ASSUME TypeOK, DevicesHave, ThreadsUse, ModuleHolds, Next
  PROVE  ThreadsUse'
<1> USE DEF Building, Serving
<1>1. CASE Load \/ Unload
  BY <1>1 DEF Load, Unload, HoldsModule, ThreadsUse
<1>2. CASE alloc_chrdev_region \/ class_create \/ class_destroy \/ unregister_chrdev_region
  BY <1>2 DEF alloc_chrdev_region, class_create, class_destroy, unregister_chrdev_region, ThreadsUse
<1>3. CASE AllocateSystemBar \/ AllocateDmaBar \/ SetUpDevice \/ cdev_add
  BY <1>3 DEF AllocateSystemBar, AllocateDmaBar, SetUpDevice, cdev_add, GotoError, ThreadsUse
<1>4. CASE device_create
  BY <1>4, SlotFacts DEF device_create, ThreadsUse, TypeOK
<1>5. CASE mtcadummy_create_proc \/ UndoDevice \/ UnrollDevices
  BY <1>5 DEF mtcadummy_create_proc, UndoDevice, UnrollDevices, TakeDown, ThreadsUse
<1>6. CASE mtcadummy_remove_proc \/ ReadersHaveLeft \/ CleanupDevices
  BY <1>6 DEF mtcadummy_remove_proc, ReadersHaveLeft, CleanupDevices, TakeDown, ThreadsUse
<1>7. ASSUME NEW t \in Threads, ThreadStep(t)
      PROVE  ThreadsUse'
  <2>1. CASE mtcaDummy_open(t) \/ mtcaDummy_release(t)
    BY <2>1, SlotFacts DEF mtcaDummy_open, mtcaDummy_release, loader, ThreadsUse, TypeOK
  <2>4. CASE OpenUncounted(t) \/ CloseUncounted(t)
    BY <2>4, SlotFacts DEF OpenUncounted, CloseUncounted, loader, ThreadsUse, TypeOK
  <2>2. CASE StartDump(t) \/ EndDump(t)
    BY <2>2 DEF StartDump, EndDump, loader, ThreadsUse, TypeOK, ModuleHolds, Labels
  <2>3. ASSUME NEW d \in Slots, chrdev_open(t, d)
        PROVE  ThreadsUse'
    <3>1. /\ pc' = pc /\ i' = i /\ pc \notin Going /\ "cdev" \in has[d]
          /\ at' = [at EXCEPT ![t] = "opening"] /\ file' = [file EXCEPT ![t] = d]
      BY <2>3 DEF chrdev_open, loader
    <3>2. pc \notin {"alloc_chrdev_region", "class_create"}
      BY <3>1 DEF DevicesHave, Empty, Down
    <3>3. pc \in Building => d < i \/ (d = i /\ pc = "device_create")
      BY <3>1, SlotFacts, CdevParts DEF DevicesHave, BuiltParts, Down, TypeOK
    <3> QED
      BY <3>1, <3>2, <3>3, SlotFacts DEF ThreadsUse, TypeOK, Going
  <2> QED
    BY <1>7, <2>1, <2>2, <2>3, <2>4 DEF ThreadStep
<1> QED
  BY <1>1, <1>2, <1>3, <1>4, <1>5, <1>6, <1>7
  DEF Next, LoaderStep, mtcaDummy_init_module, mtcaDummy_cleanup_module

Openers(d) == {t \in Threads : at[t] = "open" /\ file[t] = d}

LEMMA OpenersFinite ==
  ASSUME NEW d
  PROVE  IsFiniteSet(Openers(d)) /\ Cardinality(Openers(d)) \in Nat
BY ModuleAssumption, FS_Subset, FS_CardinalityType DEF Openers

(* The count follows the openings, and is only set while nobody has the    *)
(* device open.                                                            *)
LEMMA CountStep ==
  ASSUME TypeOK, ThreadsUse, InUseSinceRegistered, Next
  PROVE  InUseSinceRegistered'
<1> SUFFICES ASSUME NEW d \in Slots, d \notin EmptyTables
             PROVE  inUse'[d] = Cardinality(Openers(d)')
  BY DEF InUseSinceRegistered, Openers
<1>1. inUse[d] = Cardinality(Openers(d))
  BY DEF InUseSinceRegistered, Openers
<1>2. CASE at' = at /\ file' = file /\ inUse' = inUse
  BY <1>1, <1>2 DEF Openers
<1>3. CASE class_create
  <2>1. Openers(d)' = {}
    BY <1>3 DEF class_create, Openers, ThreadsUse
  <2>2. inUse'[d] = 0 \/ inUse' = inUse
    BY <1>3 DEF class_create
  <2> QED
    BY <1>1, <1>2, <1>3, <2>1, <2>2, FS_EmptySet DEF class_create
<1>4. CASE SetUpDevice
  <2>1. Openers(d)' = Openers(d)
    BY <1>4 DEF SetUpDevice, Openers
  <2>2. CASE d # i
    BY <1>1, <1>4, <2>1, <2>2 DEF SetUpDevice, TypeOK
  <2>3. CASE d = i
    <3>1. Openers(d) = {}
      BY <1>4, <2>3, SlotFacts DEF SetUpDevice, Openers, ThreadsUse, Building, TypeOK
    <3> QED
      BY <1>4, <2>1, <2>3, <3>1, FS_EmptySet DEF SetUpDevice, TypeOK
  <2> QED
    BY <2>2, <2>3
<1>5. ASSUME NEW t \in Threads, mtcaDummy_open(t)
      PROVE  inUse'[d] = Cardinality(Openers(d)')
  <2>1. file[t] \in Slots /\ at[t] = "opening"
    BY <1>5 DEF mtcaDummy_open, ThreadsUse, TypeOK
  <2>2. CASE at' = [at EXCEPT ![t] = "out"] /\ file' = [file EXCEPT ![t] = NoFile] /\ inUse' = inUse
    <3>1. Openers(d)' = Openers(d)
      BY <2>1, <2>2 DEF Openers, TypeOK
    <3> QED
      BY <1>1, <2>2, <3>1
  <2>3. CASE at' = [at EXCEPT ![t] = "open"] /\ file' = file
             /\ inUse' = [inUse EXCEPT ![file[t]] = @ + 1]
    <3>1. CASE d = file[t]
      <4>1. Openers(d)' = Openers(d) \cup {t} /\ t \notin Openers(d)
        BY <2>1, <2>3, <3>1 DEF Openers, TypeOK
      <4>2. Cardinality(Openers(d) \cup {t}) = Cardinality(Openers(d)) + 1
        BY <4>1, OpenersFinite, FS_AddElement
      <4> QED
        BY <1>1, <2>1, <2>3, <3>1, <4>1, <4>2 DEF TypeOK
    <3>2. CASE d # file[t]
      <4>1. Openers(d)' = Openers(d)
        BY <2>1, <2>3, <3>2 DEF Openers, TypeOK
      <4> QED
        BY <1>1, <2>1, <2>3, <3>2, <4>1 DEF TypeOK
    <3> QED
      BY <3>1, <3>2
  <2> QED
    BY <1>5, <2>2, <2>3 DEF mtcaDummy_open
<1>6. ASSUME NEW t \in Threads, mtcaDummy_release(t)
      PROVE  inUse'[d] = Cardinality(Openers(d)')
  <2>1. /\ file[t] \in Slots /\ at[t] = "open" /\ at' = [at EXCEPT ![t] = "out"]
        /\ file' = [file EXCEPT ![t] = NoFile] /\ inUse' = [inUse EXCEPT ![file[t]] = @ - 1]
    BY <1>6 DEF mtcaDummy_release, ThreadsUse, TypeOK
  <2>2. CASE d = file[t]
    <3>1. Openers(d)' = Openers(d) \ {t} /\ t \in Openers(d)
      BY <2>1, <2>2, SlotFacts DEF Openers, TypeOK
    <3>2. Cardinality(Openers(d) \ {t}) = Cardinality(Openers(d)) - 1
      BY <3>1, OpenersFinite, FS_RemoveElement
    <3> QED
      BY <1>1, <2>1, <2>2, <3>1, <3>2 DEF TypeOK
  <2>3. CASE d # file[t]
    <3>1. Openers(d)' = Openers(d)
      BY <2>1, <2>3, SlotFacts DEF Openers, TypeOK
    <3> QED
      BY <1>1, <2>1, <2>3, <3>1 DEF TypeOK
  <2> QED
    BY <2>2, <2>3
<1>7. ASSUME NEW t \in Threads, StartDump(t) \/ EndDump(t) \/ \E e \in Slots : chrdev_open(t, e)
      PROVE  inUse'[d] = Cardinality(Openers(d)')
  <2>1. Openers(d)' = Openers(d) /\ inUse' = inUse
    BY <1>7 DEF StartDump, EndDump, chrdev_open, Openers, TypeOK
  <2> QED
    BY <1>1, <2>1
<1>8. ASSUME NEW t \in Threads, OpenUncounted(t) \/ CloseUncounted(t)
      PROVE  inUse'[d] = Cardinality(Openers(d)')
  <2>1. file[t] # d /\ inUse' = inUse
    BY <1>8 DEF OpenUncounted, CloseUncounted, HasHandlers
  <2>2. Openers(d)' = Openers(d)
    BY <1>8, <2>1 DEF OpenUncounted, CloseUncounted, Openers, TypeOK
  <2> QED
    BY <1>1, <2>1, <2>2
<1>9. CASE Load \/ Unload \/ mtcaDummy_cleanup_module
  BY <1>2, <1>9 DEF Load, Unload, mtcaDummy_cleanup_module, mtcadummy_remove_proc,
                    ReadersHaveLeft, CleanupDevices, TakeDown
<1>10. CASE mtcaDummy_init_module /\ ~class_create /\ ~SetUpDevice
  BY <1>2, <1>10 DEF mtcaDummy_init_module, alloc_chrdev_region, AllocateSystemBar, AllocateDmaBar,
                    cdev_add, device_create, mtcadummy_create_proc, UndoDevice, UnrollDevices,
                    TakeDown, class_destroy, unregister_chrdev_region
<1> QED
  BY <1>3, <1>4, <1>5, <1>6, <1>7, <1>8, <1>9, <1>10 DEF Next, LoaderStep, ThreadStep

(* No loop runs past the last device and no count below zero. *)
LEMMA TypeStep ==
  ASSUME TypeOK, DevicesHave, ThreadsUse, InUseSinceRegistered, Next
  PROVE  TypeOK'
<1> USE SlotFacts DEF TypeOK, Labels
<1>1. CASE Load \/ Unload
  BY <1>1 DEF Load, Unload
<1>2. CASE mtcaDummy_init_module
  <2>1. CASE alloc_chrdev_region \/ class_create
    <3>1. CASE alloc_chrdev_region
      BY <3>1 DEF alloc_chrdev_region
    <3>2. CASE class_create
      <4>1. /\ held' = held \cup {"class"} \/ held' = held
            /\ i' = 0 \/ i' = i
        BY <3>2 DEF class_create
      <4>2. held' \subseteq {"region", "class", "proc"}
        BY <4>1
      <4>3. inUse' \in [Slots -> Nat]
        BY <3>2 DEF class_create
      <4> QED
        BY <3>2, <4>1, <4>2, <4>3 DEF class_create
    <3> QED
      BY <2>1, <3>1, <3>2
  <2>2. CASE AllocateSystemBar \/ AllocateDmaBar \/ SetUpDevice \/ cdev_add
    <3>1. has' \in [Slots -> SUBSET DeviceParts]
      <4>1. has' = has \/ \E r \in DeviceParts : has' = [has EXCEPT ![i] = @ \cup {r}]
        BY <2>2 DEF AllocateSystemBar, AllocateDmaBar, SetUpDevice, cdev_add, Acquire,
                    DeviceParts, Vital
      <4> QED
        BY <4>1
    <3>2. k' \in 1 .. 5 /\ pc' \in Labels
      BY <2>2 DEF AllocateSystemBar, AllocateDmaBar, SetUpDevice, cdev_add, GotoError,
                  err_cdev_init, err_allocate_dmaBar, err_allocate_systemBar
    <3>3. inUse' \in [Slots -> Nat]
      BY <2>2 DEF AllocateSystemBar, AllocateDmaBar, SetUpDevice, cdev_add
    <3> QED
      BY <2>2, <3>1, <3>2, <3>3 DEF AllocateSystemBar, AllocateDmaBar, SetUpDevice, cdev_add
  <2>3. CASE device_create
    BY <2>3 DEF device_create, Acquire, DevicesHave, Building, DeviceParts, Vital
  <2>4. CASE mtcadummy_create_proc \/ class_destroy \/ unregister_chrdev_region
    BY <2>4 DEF mtcadummy_create_proc, class_destroy, unregister_chrdev_region
  <2>5. CASE UndoDevice
    BY <2>5, Orders DEF UndoDevice, ReleasePart
  <2>6. CASE UnrollDevices
    BY <2>6, Orders DEF UnrollDevices, TakeDown, ReleasePart
  <2> QED
    BY <1>2, <2>1, <2>2, <2>3, <2>4, <2>5, <2>6 DEF mtcaDummy_init_module
<1>3. CASE mtcaDummy_cleanup_module
  <2>1. CASE mtcadummy_remove_proc
    BY <2>1 DEF mtcadummy_remove_proc
  <2>2. CASE ReadersHaveLeft
    BY <2>2 DEF ReadersHaveLeft
  <2>3. CASE CleanupDevices
    BY <2>3, Orders DEF CleanupDevices, TakeDown, ReleasePart
  <2> QED
    BY <1>3, <2>1, <2>2, <2>3 DEF mtcaDummy_cleanup_module
<1>4. ASSUME NEW t \in Threads, ThreadStep(t)
      PROVE  TypeOK'
  <2>1. CASE StartDump(t) \/ EndDump(t) \/ \E d \in Slots : chrdev_open(t, d)
    <3>1. CASE StartDump(t)
      BY <3>1 DEF StartDump, loader
    <3>2. CASE EndDump(t)
      BY <3>2 DEF EndDump, loader
    <3>3. ASSUME NEW d \in Slots, chrdev_open(t, d)
          PROVE  TypeOK'
      BY <3>3 DEF chrdev_open, loader
    <3> QED
      BY <2>1, <3>1, <3>2, <3>3
  <2>2. CASE mtcaDummy_open(t)
    BY <2>2 DEF mtcaDummy_open, loader, ThreadsUse
  <2>4. CASE OpenUncounted(t) \/ CloseUncounted(t)
    BY <2>4 DEF OpenUncounted, CloseUncounted, loader
  <2>3. CASE mtcaDummy_release(t)
    <3>1. file[t] \in Slots /\ t \in Openers(file[t])
      BY <2>3 DEF mtcaDummy_release, ThreadsUse, Openers
    <3>2. inUse[file[t]] = Cardinality(Openers(file[t]))
      BY <2>3, <3>1 DEF mtcaDummy_release, HasHandlers, InUseSinceRegistered, Openers
    <3>3. Cardinality(Openers(file[t])) # 0
      BY <3>1, OpenersFinite, FS_EmptySet
    <3> QED
      BY <2>3, <3>1, <3>2, <3>3 DEF mtcaDummy_release, loader
  <2> QED
    BY <1>4, <2>1, <2>2, <2>3, <2>4 DEF ThreadStep
<1> QED
  BY <1>1, <1>2, <1>3, <1>4 DEF Next, LoaderStep
-----------------------------------------------------------------------------
LEMMA StutterInv == ASSUME IInv, UNCHANGED vars PROVE IInv'
BY DEF vars, IInv, TypeOK, ModuleHolds, DevicesHave, ThreadsUse, InUseSinceRegistered, BuiltParts,
       UndoneParts, TakenDownTo, PartsLeft, Up, Down

(* The inductive invariant: what is held at each point of the load, of the *)
(* way back from a failure at any step, and of the unload, and who can be  *)
(* using it there.                                                         *)
THEOREM Lifecycle == Spec => []IInv
<1>1. IInv /\ [Next]_vars => IInv'
  <2>1. ASSUME IInv, Next PROVE IInv'
    BY <2>1, TypeStep, ModuleHoldsStep, DevicesStep, ThreadsUseStep, CountStep DEF IInv
  <2> QED
    BY <2>1, StutterInv
<1> QED
  BY InitInv, <1>1, PTL DEF Spec

(* Type correctness: no loop of the load or the unload runs past the last  *)
(* device, and inUse does not become negative.                             *)
THEOREM LifecycleTypes == Spec => []TypeOK
<1>1. IInv => TypeOK
  BY DEF IInv
<1> QED
  BY Lifecycle, <1>1, PTL

(* A device that can be opened has its bars and its mutex, during the      *)
(* load, on every way back from a failed load, and during the unload.      *)
THEOREM Readiness == Spec => []RegisteredMeansReady
<1>1. IInv => RegisteredMeansReady
  <2> SUFFICES ASSUME IInv, NEW d \in Slots, "cdev" \in has[d] PROVE Vital \subseteq has[d]
    BY DEF RegisteredMeansReady, Ready
  <2> USE SlotFacts, CdevParts DEF IInv, TypeOK, DevicesHave, Building, Serving, Empty, Down
  <2>1. CASE Up(d)
    BY <2>1, UpParts
  <2>2. CASE pc \in Building
    <3>1. d = i \/ Up(d)
      BY <2>2
    <3>2. d = i => has[d] = Vital \cup {"cdev"}
      BY <2>2 DEF BuiltParts
    <3> QED
      BY <2>1, <3>1, <3>2
  <2>3. CASE pc = "undo"
    <3>1. d = i \/ Up(d)
      BY <2>3
    <3>2. d # i
      BY <2>3 DEF UndoneParts
    <3> QED
      BY <2>1, <3>1, <3>2
  <2>4. ASSUME NEW last \in 0 .. MTCADUMMY_NR_DEVS, TakenDownTo(last)
        PROVE  Vital \subseteq has[d]
    <3>1. (d = j /\ j < last) \/ Up(d)
      BY <2>4 DEF TakenDownTo
    <3>2. d = j /\ j < last => Up(d) \/ has[d] = Vital \cup {"cdev"}
      BY <2>4 DEF TakenDownTo, PartsLeft
    <3> QED
      BY <2>1, <3>1, <3>2
  <2>5. CASE pc \in {"unroll", "cleanup"}
    BY <2>4, <2>5
  <2>6. CASE pc \in Serving \cup Empty
    BY <2>1, <2>6
  <2> QED
    BY <2>2, <2>3, <2>5, <2>6 DEF Labels
<1> QED
  BY Lifecycle, <1>1, PTL

(* When the module is gone, after an unload or a load that failed at any   *)
(* step for any device, everything it had acquired has been given back.    *)
THEOREM NoLeak == Spec => []NothingLeaked
<1>1. IInv => NothingLeaked
  BY DEF IInv, NothingLeaked, ModuleHolds, DevicesHave, Empty, Down
<1> QED
  BY Lifecycle, <1>1, PTL

(* Every call that gives something back, on any of the error paths and in  *)
(* the unload, gives back what is held.                                    *)
THEOREM NoDoubleRelease == Spec => []ReleasedOnce
<1>1. IInv => ReleasedOnce
  <2> SUFFICES ASSUME IInv PROVE ReleasedOnce
    OBVIOUS
  <2>1. k \in 1 .. 5
    BY DEF IInv, TypeOK
  <2>2. pc = "undo" /\ k <= Len(ErrorOrder) => ErrorOrder[k] \in has[i]
    BY <2>1, Orders DEF IInv, DevicesHave, UndoneParts, Vital
  <2>3. ASSUME NEW last \in 0 .. MTCADUMMY_NR_DEVS, TakenDownTo(last), j < last
        PROVE  UnrollOrder[k] \in has[j] \cup {"node"}
    BY <2>1, <2>3, Orders DEF TakenDownTo, PartsLeft, Vital
  <2>4. pc = "unroll" /\ j < i => UnrollOrder[k] \in has[j] \cup {"node"}
    BY <2>3 DEF IInv, TypeOK, DevicesHave
  <2>5. pc = "cleanup" /\ j < MTCADUMMY_NR_DEVS => CleanupOrder[k] \in has[j] \cup {"node"}
    BY <2>3, Orders, SlotFacts DEF IInv, DevicesHave
  <2>6. (pc = "class_destroy" => "class" \in held) /\ (pc = "unregister" => "region" \in held)
    BY DEF IInv, ModuleHolds
  <2> QED
    BY <2>2, <2>4, <2>5, <2>6 DEF ReleasedOnce
<1> QED
  BY Lifecycle, <1>1, PTL

(* The devices of open files stay ready, except when a load fails for a    *)
(* later device.                                                           *)
THEOREM FilesKeepDevices == Spec => []OpenFileKeepsDevice
<1>1. IInv => OpenFileKeepsDevice
  <2> SUFFICES ASSUME IInv, NEW t \in Threads, file[t] # NoFile, ~LoadFailed
               PROVE  Vital \subseteq has[file[t]]
    BY DEF OpenFileKeepsDevice, Ready, IInv, ThreadsUse
  <2>1. file[t] \in Slots
    BY DEF IInv, TypeOK
  <2>2. CASE Up(file[t])
    BY <2>2, UpParts
  <2>3. CASE pc \in Building
    <3>1. file[t] < i \/ (file[t] = i /\ pc = "device_create")
      BY <2>3 DEF IInv, ThreadsUse
    <3>2. CASE file[t] < i
      BY <2>1, <2>2, <2>3, <3>2 DEF IInv, DevicesHave
    <3>3. CASE file[t] = i /\ pc = "device_create"
      BY <3>3, <2>3, SlotFacts, CdevParts DEF IInv, DevicesHave, BuiltParts, Building
    <3> QED
      BY <3>1, <3>2, <3>3
  <2>4. CASE pc \notin Building
    <3>1. pc \in Serving
      BY <2>4 DEF IInv, TypeOK, Labels, ThreadsUse, LoadFailed, Building, Serving
    <3> QED
      BY <2>1, <2>2, <3>1 DEF IInv, DevicesHave
  <2> QED
    BY <2>3, <2>4
<1> QED
  BY Lifecycle, <1>1, PTL

(* While somebody reads the proc file every device is ready.               *)
THEOREM DumpsAreSafe == Spec => []DumpFindsDevices
<1>1. IInv => DumpFindsDevices
  BY UpParts DEF IInv, DumpFindsDevices, Ready, ThreadsUse, DevicesHave
<1> QED
  BY Lifecycle, <1>1, PTL

(* inUse counts the open files of a device with handlers from the moment   *)
(* it can be opened, for any set of devices with an empty table.           *)
THEOREM CountsSinceRegistered == Spec => []InUseSinceRegistered
<1>1. IInv => InUseSinceRegistered
  BY DEF IInv
<1> QED
  BY Lifecycle, <1>1, PTL
=============================================================================
