----------------------- MODULE CriticalSectionProofs ------------------------
(***************************************************************************)
(* The critical section implements a lock, its fields agree, no waiter is  *)
(* lost and no priority is kept, for any threads, sections and priorities. *)
(***************************************************************************)
EXTENDS CriticalSection, TLAPS

IInv == TypeOK /\ OwnersAgree /\ PriorityRestored /\ NoLostWaiter

USE CriticalSectionAssumption

LEMMA InitIInv == Init => IInv
<1> SUFFICES ASSUME Init PROVE IInv
  OBVIOUS
<1>1. TypeOK
  BY DEF Init, TypeOK, States, PCs
<1>2. OwnersAgree
  BY DEF Init, OwnersAgree
<1>3. PriorityRestored
  BY DEF Init, PriorityRestored
<1>4. NoLostWaiter
  BY DEF Init, NoLostWaiter, Asleep
<1> QED
  BY <1>1, <1>2, <1>3, <1>4 DEF IInv

-----------------------------------------------------------------------------
\* Steps that leave the sections alone, and put no thread to sleep on one.
LEMMA MovesKeep ==
  ASSUME IInv, NEW t \in Threads,
         Schedule \/ Block(t) \/ Unblock(t) \/ TryFails(t) \/ LeaveDown(t)
         \/ \E s \in Sections, l \in {"enter", "try"} : CallEnter(t, s, l)
  PROVE  IInv'
<1> USE DEF IInv, At, Goto, csVars, thrVars
<1>1. TypeOK'
  BY DEF TypeOK, States, PCs, Schedule, Block, Unblock, TryFails, LeaveDown, CallEnter, Ready
<1>2. OwnersAgree'
  BY DEF OwnersAgree, Schedule, Block, Unblock, TryFails, LeaveDown, CallEnter
<1>3. PriorityRestored'
  BY DEF PriorityRestored, Schedule, Block, Unblock, TryFails, LeaveDown, CallEnter
<1>4. NoLostWaiter'
  BY DEF NoLostWaiter, Asleep, TypeOK, Schedule, Block, Unblock, TryFails, LeaveDown, CallEnter
<1> QED
  BY <1>1, <1>2, <1>3, <1>4

\* The owner counts up or down.
LEMMA CountingKeeps ==
  ASSUME IInv, NEW t \in Threads, NEW s \in Sections, EnterAgain(t, s) \/ LeaveOnce(t, s)
  PROVE  IInv'
<1> USE DEF IInv, At, Goto, csVars, thrVars
<1>1. TypeOK' /\ OwnersAgree'
  <2>1. lpOwner[s] = t /\ iLockCount[s] \in Nat \ {0}
    BY DEF OwnersAgree, TypeOK, EnterAgain, LeaveOnce
  <2>2. iLockCount' \in [Sections -> Nat] /\ iLockCount'[s] # 0
    BY <2>1 DEF TypeOK, EnterAgain, LeaveOnce
  <2>3. \A u \in Sections \ {s} : iLockCount'[u] = iLockCount[u]
    BY DEF TypeOK, EnterAgain, LeaveOnce
  <2> QED
    BY <2>1, <2>2, <2>3 DEF TypeOK, OwnersAgree, EnterAgain, LeaveOnce
<1>2. PriorityRestored' /\ NoLostWaiter'
  BY DEF PriorityRestored, NoLostWaiter, Asleep, EnterAgain, LeaveOnce
<1> QED
  BY <1>1, <1>2

\* A thread takes a free section.
LEMMA TakeKeeps ==
  ASSUME IInv, NEW t \in Threads, At(t, "enter") \/ At(t, "try"), Take(t)
  PROVE  IInv'
<1> USE DEF IInv, At, Goto, csVars, thrVars
<1> DEFINE s == lpcs[t]
<1>0. s \in Sections
  BY DEF TypeOK
<1>1. TypeOK'
  BY DEF TypeOK, States, PCs, Take
<1>2. OwnersAgree'
  BY DEF OwnersAgree, TypeOK, Take
<1>3. PriorityRestored'
  BY <1>0 DEF PriorityRestored, OwnersAgree, TypeOK, Take
<1>4. NoLostWaiter'
  BY <1>0 DEF NoLostWaiter, Asleep, TypeOK, Take
<1> QED
  BY <1>1, <1>2, <1>3, <1>4

\* A thread that finds the section taken raises the owner, which owns a section.
LEMMA RaiseKeeps ==
  ASSUME IInv, NEW t \in Threads, At(t, "enter"), RaiseOwner(t)
  PROVE  IInv'
<1> USE DEF IInv, At, Goto, csVars, thrVars
<1> DEFINE s == lpcs[t]
<1>0. s \in Sections /\ lpOwner[s] \in Threads
  BY DEF TypeOK, OwnersAgree, RaiseOwner
<1>1. TypeOK'
  BY <1>0 DEF TypeOK, States, PCs, RaiseOwner
<1>2. OwnersAgree'
  BY DEF OwnersAgree, RaiseOwner
<1>3. PriorityRestored'
  BY <1>0 DEF PriorityRestored, TypeOK, RaiseOwner
<1>4. NoLostWaiter'
  BY DEF NoLostWaiter, Asleep, TypeOK, RaiseOwner
<1> QED
  BY <1>1, <1>2, <1>3, <1>4

\* A thread goes to sleep on a taken section only, and is counted.
LEMMA DownKeeps ==
  ASSUME IInv, NEW t \in Threads, Down(t)
  PROVE  IInv'
<1> USE DEF IInv, At, Goto, csVars, thrVars
<1> DEFINE s == lpcs[t]
<1>0. s \in Sections
  BY DEF TypeOK
<1>1. TypeOK'
  BY DEF TypeOK, States, PCs, Down
<1>2. OwnersAgree'
  BY DEF OwnersAgree, Down
<1>3. PriorityRestored'
  BY DEF PriorityRestored, Down
<1>4. NoLostWaiter'
  BY <1>0 DEF NoLostWaiter, Asleep, TypeOK, Down
<1> QED
  BY <1>1, <1>2, <1>3, <1>4

\* The last Leave gives up the section and the inherited priority, and owes the wake-up.
LEMMA UpCritKeeps ==
  ASSUME IInv, NEW t \in Threads, NEW s \in Sections, UpCrit(t, s)
  PROVE  IInv'
<1> USE DEF IInv, At, Goto, csVars, thrVars
<1>1. TypeOK'
  BY DEF TypeOK, States, PCs, UpCrit
<1>2. OwnersAgree'
  BY DEF OwnersAgree, TypeOK, UpCrit
<1>3. PriorityRestored'
  BY DEF PriorityRestored, OwnersAgree, TypeOK, UpCrit
<1>4. NoLostWaiter'
  BY DEF NoLostWaiter, Asleep, TypeOK, UpCrit
<1> QED
  BY <1>1, <1>2, <1>3, <1>4

\* The wake-up leaves nobody asleep on the section.
LEMMA UpKeeps ==
  ASSUME IInv, NEW t \in Threads, Up(t)
  PROVE  IInv'
<1> USE DEF IInv, At, Goto, csVars, thrVars
<1>1. TypeOK'
  BY DEF TypeOK, States, PCs, Up
<1>2. OwnersAgree' /\ PriorityRestored'
  BY DEF OwnersAgree, PriorityRestored, Up
<1>3. NoLostWaiter'
  BY DEF NoLostWaiter, Asleep, TypeOK, Up
<1> QED
  BY <1>1, <1>2, <1>3

LEMMA NextKeeps == IInv /\ [Next]_vars => IInv'
<1> SUFFICES ASSUME IInv, [Next]_vars PROVE IInv'
  OBVIOUS
<1>1. CASE UNCHANGED vars
  BY <1>1 DEF IInv, TypeOK, OwnersAgree, PriorityRestored, NoLostWaiter, Asleep, vars, csVars, thrVars
<1>2. CASE Schedule
  <2>1. CASE Threads = {}
    BY <1>2, <2>1 DEF Schedule, Ready, IInv, TypeOK, OwnersAgree, PriorityRestored, NoLostWaiter, Asleep,
                      csVars, thrVars
  <2> QED
    BY <1>2, <2>1, MovesKeep
<1>3. CASE \E t \in Threads : Call(t) \/ Continue(t) \/ Unblock(t)
  <2> PICK t \in Threads : Call(t) \/ Continue(t) \/ Unblock(t)
    BY <1>3
  <2>1. CASE Call(t)
    BY <2>1, MovesKeep, CountingKeeps, UpCritKeeps DEF Call
  <2>2. CASE Continue(t)
    BY <2>2, TakeKeeps, RaiseKeeps, MovesKeep, DownKeeps, UpKeeps DEF Continue, CheckCount
  <2>3. CASE Unblock(t)
    BY <2>3, MovesKeep
  <2> QED
    BY <2>1, <2>2, <2>3
<1> QED
  BY <1>1, <1>2, <1>3 DEF Next

THEOREM InvariantHolds == Spec => []IInv
  BY InitIInv, NextKeeps, PTL DEF Spec

\* Every field keeps to its range (SEMAPHORE, CRITICAL_SECTION, THREAD).
THEOREM TypeCorrect == Spec => []TypeOK
  BY InvariantHolds, PTL DEF IInv

\* The count, the owner and the depth of a section never disagree (UpCrit, DownCrit).
THEOREM FieldsAgree == Spec => []OwnersAgree
  BY InvariantHolds, PTL DEF IInv

\* A thread outside every section runs with its own priority (UpCrit).
THEOREM NoPriorityKept == Spec => []PriorityRestored
  BY InvariantHolds, PTL DEF IInv

\* A thread that sleeps on a section is counted there or about to be woken (UpCrit,
\* __DownSemphores).
THEOREM WaitersAreWoken == Spec => []NoLostWaiter
  BY InvariantHolds, PTL DEF IInv

-----------------------------------------------------------------------------
(* The refinement: taking a free section and counting up enter the lock,   *)
(* counting down and UpCrit leave it, all other steps stutter.             *)

LEMMA InitRefines == Init => Abstract!Init
  BY DEF Init, Abstract!Init

LEMMA EnterRefines ==
  ASSUME IInv, NEW t \in Threads, NEW s \in Sections, EnterAgain(t, s)
  PROVE  Abstract!Enter(t, s)
  BY DEF IInv, OwnersAgree, TypeOK, EnterAgain, Abstract!Enter

LEMMA TakeRefines ==
  ASSUME IInv, NEW t \in Threads, Take(t)
  PROVE  Abstract!Enter(t, lpcs[t])
<1>1. lpcs[t] \in Sections /\ lpOwner[lpcs[t]] = NULL /\ iLockCount[lpcs[t]] = 0
  BY DEF IInv, OwnersAgree, TypeOK, Take
<1> QED
  BY <1>1 DEF IInv, TypeOK, Take, Abstract!Enter

LEMMA LeaveRefines ==
  ASSUME IInv, NEW t \in Threads, NEW s \in Sections, LeaveOnce(t, s) \/ UpCrit(t, s)
  PROVE  Abstract!Leave(t, s)
<1>1. lpOwner[s] = t
  BY DEF IInv, OwnersAgree, LeaveOnce, UpCrit
<1>2. CASE LeaveOnce(t, s)
  BY <1>1, <1>2 DEF IInv, TypeOK, LeaveOnce, Abstract!Leave
<1>3. CASE UpCrit(t, s)
  BY <1>1, <1>3 DEF IInv, TypeOK, UpCrit, Abstract!Leave
<1> QED
  BY <1>2, <1>3

LEMMA NextRefines == IInv /\ [Next]_vars => [Abstract!Next]_(Abstract!vars)
<1> SUFFICES ASSUME IInv, [Next]_vars PROVE [Abstract!Next]_(Abstract!vars)
  OBVIOUS
<1>1. CASE UNCHANGED <<lpOwner, iLockCount>>
  BY <1>1 DEF Abstract!vars
<1>2. CASE \E t \in Threads, s \in Sections : Abstract!Enter(t, s) \/ Abstract!Leave(t, s)
  BY <1>2 DEF Abstract!Next
<1>3. CASE \E t \in Threads, s \in Sections : EnterAgain(t, s) \/ LeaveOnce(t, s) \/ UpCrit(t, s)
  BY <1>2, <1>3, EnterRefines, LeaveRefines
<1>4. CASE \E t \in Threads : Take(t)
  <2> PICK t \in Threads : Take(t)
    BY <1>4
  <2>1. lpcs[t] \in Sections
    BY DEF IInv, TypeOK
  <2> QED
    BY <1>2, <2>1, TakeRefines
<1>5. CASE \E t \in Threads : \/ Block(t) \/ Unblock(t) \/ RaiseOwner(t) \/ TryFails(t) \/ Down(t)
                              \/ LeaveDown(t) \/ Up(t)
                              \/ \E s \in Sections, l \in {"enter", "try"} : CallEnter(t, s, l)
  BY <1>1, <1>5 DEF Block, Unblock, RaiseOwner, TryFails, Down, LeaveDown, Up, CallEnter, csVars
<1>6. CASE Schedule \/ UNCHANGED vars
  BY <1>1, <1>6 DEF Schedule, vars, csVars
<1> QED
  BY <1>3, <1>4, <1>5, <1>6 DEF Next, Call, Continue, CheckCount

\* The critical section is a lock: at most one thread is inside, it leaves as often as it
\* entered, and only it does (DoEnterCriticalSection, KL_LeaveCriticalSection).
THEOREM SectionIsALock == Spec => ImplementsLock
  BY InvariantHolds, InitRefines, NextRefines, PTL DEF Spec, ImplementsLock, Abstract!Spec
=============================================================================
