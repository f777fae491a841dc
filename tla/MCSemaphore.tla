---------------------------- MODULE MCSemaphore -----------------------------
(* Instances of Semaphore for TLC: an object's name tells what it is. *)
EXTENDS Semaphore, TLC

Named == [mutex |-> "mutex", list |-> "crit", auto |-> "auto", auto2 |-> "auto",
          manual |-> "manual", pool |-> "semaphore"]

KindOf == [s \in Sems |-> Named[s]]

MaxOf == [s \in Sems |-> IF Named[s] = "semaphore" THEN 2 ELSE 1]

InitOf == [s \in Sems |-> IF Named[s] \in {"mutex", "crit"} THEN 1 ELSE 0]

Symmetry == Permutations(Threads)
=============================================================================
