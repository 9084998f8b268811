----------------------------- MODULE MCModule -----------------------------
(***************************************************************************)
(* The life of the module with three devices, so that a failure has        *)
(* devices before it and devices behind it, and two threads.               *)
(***************************************************************************)
EXTENDS MtcaDummyModule
=============================================================================
