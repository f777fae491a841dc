---------------------------- MODULE MCScheduler -----------------------------
(***************************************************************************)
(* Scheduler for TLC: the properties of Scheduler on small sets of         *)
(* threads.                                                                *)
(***************************************************************************)
EXTENDS Scheduler
=============================================================================
