------------------------- MODULE MCCriticalSection --------------------------
(* Instances of CriticalSection for TLC: a thread's name tells its priority. *)
EXTENDS CriticalSection

Named == [hi |-> 1, mid |-> 2, lo |-> 3]

PriorityOf == [t \in Threads |-> Named[t]]
=============================================================================
