-------------------------------- MODULE Lock --------------------------------
(***************************************************************************)
(* What a critical section promises: at most one thread is inside, it may  *)
(* enter again and is out when it has left as often, and nobody else can   *)
(* let it out (the contract of KL_EnterCriticalSection and                 *)
(* KL_LeaveCriticalSection, semaphor.c).                                   *)
(***************************************************************************)
EXTENDS Naturals

CONSTANTS Threads, Sections, NULL

VARIABLES holder,  \* the thread inside each section, or NULL
          depth    \* how often it has entered

vars == <<holder, depth>>

Init ==
  /\ holder = [s \in Sections |-> NULL]
  /\ depth = [s \in Sections |-> 0]

Enter(t, s) ==
  /\ holder[s] \in {t, NULL}
  /\ holder' = [holder EXCEPT ![s] = t]
  /\ depth' = [depth EXCEPT ![s] = @ + 1]

Leave(t, s) ==
  /\ holder[s] = t
  /\ holder' = [holder EXCEPT ![s] = IF depth[s] = 1 THEN NULL ELSE t]
  /\ depth' = [depth EXCEPT ![s] = @ - 1]

Next == \E t \in Threads, s \in Sections : Enter(t, s) \/ Leave(t, s)

Spec == Init /\ [][Next]_vars
=============================================================================
