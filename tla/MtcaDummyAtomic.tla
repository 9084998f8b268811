------------------------- MODULE MtcaDummyAtomic -------------------------
(***************************************************************************)
(* The driver implements MtcaDummyBoard.  Between the store of a register  *)
(* and the reaction of the firmware to it the handler waits for another    *)
(* mutex; nobody sees the register in between.  The history variable       *)
(* committed holds bar 0 as it was before such a store.                    *)
(***************************************************************************)
EXTENDS MtcaDummySafety

VARIABLE committed

atomicVars == <<vars, committed>>

InFirmware(d) == \E t \in Threads : pc[t] \in FirmwareLabels /\ file[t] = d

AtomicInit == Init /\ committed = systemBar

AtomicNext ==
  /\ Next
  /\ committed' = [d \in Devices |-> IF InFirmware(d)' THEN committed[d] ELSE systemBar'[d]]

AtomicSpec == AtomicInit /\ [][AtomicNext]_atomicVars
-----------------------------------------------------------------------------
(* The words that the calls write, one by one. *)
StructWrites ==
  {[bar |-> c.bar, word |-> c.offset \div 4, value |-> c.data] : c \in {c \in Calls : c.op = "write"}}

AreaWrites(c) ==
  {[bar |-> BarOf(c.pos), word |-> (OffsetOf(c.pos) + 4 * n) \div 4, value |-> c.data[n]] :
     n \in 0 .. (c.count \div 4) - 1}

ClientWrites == StructWrites \cup UNION {AreaWrites(c) : c \in {c \in Calls : c.op = "pwrite"}}

(* A DMA read may deliver words from outside of bar 2 only if there are    *)
(* calls whose offset and size wrap.                                       *)
Wraps(c) == c.op \in {"read", "ioctl"} /\ c.offset + c.size >= U32

Stray == IF \E c \in Calls : Wraps(c) THEN Beyond ELSE {}

(* What a call has delivered to its caller; the text of a dump is not      *)
(* looked at.                                                              *)
Answer(t) == IF call[t].op = "dump" THEN <<>> ELSE result[t]

Board == INSTANCE MtcaDummyBoard WITH
  Clients <- Threads,
  Slots <- Devices,
  StrayWords <- Stray,
  WordWrites <- ClientWrites,
  registers <- committed,
  samples <- dmaBar,
  holder <- devMutex,
  answer <- [t \in Threads |-> Answer(t)]

(* Every behaviour of the driver is one of the board: register writes and  *)
(* their reactions are atomic although the handler waits for controlMutex  *)
(* in between, an area transfer has the board to itself, and what is       *)
(* delivered is what the board holds.                                      *)
ImplementsBoard == Board!Spec
=============================================================================
