----------------------------- MODULE MCHandles ------------------------------
(* Handles for TLC: threads, handles, objects and names are alike. *)
EXTENDS Handles, TLC

Symmetry ==
  Permutations(Threads) \cup Permutations(Handles) \cup Permutations(Sems) \cup Permutations(Names)
=============================================================================
