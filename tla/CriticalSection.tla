-------------------------- MODULE CriticalSection ---------------------------
(***************************************************************************)
(* Critical sections with priority inheritance (DownCrit and UpCrit of     *)
(* downup.c, KL_EnterCriticalSection, KL_TryEnterCriticalSection and       *)
(* KL_LeaveCriticalSection of semaphor.c, __DownSemphores and __Up of      *)
(* sche.c as they use them).                                               *)
(*                                                                         *)
(* A step is a stretch with interrupts off.  Only lpCurThread takes steps; *)
(* whenever interrupts are on a reschedule may give the processor to a     *)
(* ready thread of the best priority, and it may also come late: AddTo-    *)
(* RunQueue only asks for it (module Scheduler, bNeedResched).  The lower  *)
(* the number the better the priority.                                     *)
(*                                                                         *)
(* The wait queue of s holds the threads at "sleep" or "leave" that wait   *)
(* for s.  nWaiting is only told zero (0) from not zero (1), which is all  *)
(* that is asked of it but for nBoost, the order among equal priorities.   *)
(* The interrupts that a try which fails leaves off are on again when the  *)
(* system call returns.                                                    *)
(***************************************************************************)
EXTENDS Integers

CONSTANTS Threads, Sections, NULL,
          OriginPriority,  \* nOriginPriority of each thread
          IDLE_PRIORITY,
          MaxLock          \* bound on iLockCount

ASSUME CriticalSectionAssumption ==
  /\ NULL \notin Threads
  /\ Sections # {}
  /\ IDLE_PRIORITY \in Nat
  /\ OriginPriority \in [Threads -> 0..(IDLE_PRIORITY - 1)]
  /\ MaxLock \in Nat

VARIABLES
  \* of the semaphore under each critical section
  nCount, nWaiting, lpOwner, nHighPriority,
  \* of the CRITICAL_SECTION itself
  dwOwnerThreadId, iLockCount,
  \* of the threads
  dwState, nCurPriority,
  pc,           \* where a thread is
  lpcs,         \* the section of the call a thread is in
  lpCurThread   \* NULL: the idle thread

csVars == <<nCount, nWaiting, lpOwner, nHighPriority, dwOwnerThreadId, iLockCount>>
thrVars == <<dwState, nCurPriority, pc, lpcs>>
vars == <<csVars, thrVars, lpCurThread>>

States == {"RUNNING", "INTERRUPTIBLE", "UNINTERRUPTIBLE"}
PCs == {"idle", "away", "enter", "try", "down", "sleep", "leave", "up"}

Init ==
  /\ nCount = [s \in Sections |-> 1]
  /\ nWaiting = [s \in Sections |-> 0]
  /\ lpOwner = [s \in Sections |-> NULL]
  /\ nHighPriority = [s \in Sections |-> IDLE_PRIORITY]
  /\ dwOwnerThreadId = [s \in Sections |-> NULL]
  /\ iLockCount = [s \in Sections |-> 0]
  /\ dwState = [t \in Threads |-> "RUNNING"]
  /\ nCurPriority = OriginPriority
  /\ pc = [t \in Threads |-> "idle"]
  /\ lpcs = [t \in Threads |-> CHOOSE s \in Sections : TRUE]
  /\ lpCurThread = NULL

\* The current thread, which is ready, is at l.
At(t, l) == lpCurThread = t /\ dwState[t] = "RUNNING" /\ pc[t] = l

Goto(t, l) == pc' = [pc EXCEPT ![t] = l]

-----------------------------------------------------------------------------
(* The scheduler and what else the threads do *)

Ready == {t \in Threads : dwState[t] = "RUNNING"}

\* The reschedule: a ready thread of the best priority.
Schedule ==
  /\ lpCurThread' \in IF Ready = {} THEN {NULL}
                      ELSE {t \in Ready : \A u \in Ready : nCurPriority[t] <= nCurPriority[u]}
  /\ UNCHANGED <<csVars, thrVars>>

\* A thread waits for something else, inside its sections or not.
Block(t) ==
  /\ At(t, "idle")
  /\ dwState' = [dwState EXCEPT ![t] = "INTERRUPTIBLE"]
  /\ Goto(t, "away")
  /\ UNCHANGED <<csVars, nCurPriority, lpcs, lpCurThread>>

\* An interrupt ends that wait.
Unblock(t) ==
  /\ pc[t] = "away"
  /\ dwState' = [dwState EXCEPT ![t] = "RUNNING"]
  /\ Goto(t, "idle")
  /\ UNCHANGED <<csVars, nCurPriority, lpcs, lpCurThread>>

-----------------------------------------------------------------------------
(* DownCrit *)

\* DoEnterCriticalSection: the owner only counts.
EnterAgain(t, s) ==
  /\ At(t, "idle")
  /\ dwOwnerThreadId[s] = t
  /\ iLockCount[s] < MaxLock
  /\ iLockCount' = [iLockCount EXCEPT ![s] = @ + 1]
  /\ UNCHANGED <<nCount, nWaiting, lpOwner, nHighPriority, dwOwnerThreadId, thrVars, lpCurThread>>

\* DoEnterCriticalSection of a thread that does not own it.  l: "enter", or "try" when
\* bEntryBlock is FALSE.
CallEnter(t, s, l) ==
  /\ At(t, "idle")
  /\ dwOwnerThreadId[s] # t
  /\ lpcs' = [lpcs EXCEPT ![t] = s]
  /\ Goto(t, l)
  /\ UNCHANGED <<csVars, dwState, nCurPriority, lpCurThread>>

\* Mutant: the count is not looked at.
Take_Unguarded(t) ==
  LET s == lpcs[t]
  IN  /\ nCount' = [nCount EXCEPT ![s] = 0]
      /\ lpOwner' = [lpOwner EXCEPT ![s] = t]
      /\ dwOwnerThreadId' = [dwOwnerThreadId EXCEPT ![s] = t]
      /\ iLockCount' = [iLockCount EXCEPT ![s] = 1]
      /\ Goto(t, "idle")
      /\ UNCHANGED <<nWaiting, nHighPriority, dwState, nCurPriority, lpcs, lpCurThread>>

\* The section is free: t owns it, with the best priority a waiter has left behind.
Take(t) ==
  LET s == lpcs[t]
  IN  /\ nCount[s] > 0
      /\ nCount' = [nCount EXCEPT ![s] = 0]
      /\ lpOwner' = [lpOwner EXCEPT ![s] = t]
      /\ dwOwnerThreadId' = [dwOwnerThreadId EXCEPT ![s] = t]
      /\ iLockCount' = [iLockCount EXCEPT ![s] = 1]
      /\ nCurPriority' = [nCurPriority EXCEPT ![t] =
           IF @ > nHighPriority[s] THEN nHighPriority[s] ELSE @]
      /\ Goto(t, "idle")
      /\ UNCHANGED <<nWaiting, nHighPriority, dwState, lpcs, lpCurThread>>

\* Mutant: the waiter gets the priority of the owner.
RaiseOwner_Swapped(t) ==
  LET s == lpcs[t]
      owner == lpOwner[s]
  IN  /\ nCount[s] = 0
      /\ nCurPriority' = [nCurPriority EXCEPT ![t] =
           IF nCurPriority[owner] > @ THEN nCurPriority[owner] ELSE @]
      /\ Goto(t, "down")
      /\ UNCHANGED <<csVars, dwState, lpcs, lpCurThread>>

\* The section is taken: raise its owner to the priority of t, and wait.
RaiseOwner(t) ==
  LET s == lpcs[t]
      owner == lpOwner[s]
  IN  /\ nCount[s] = 0
      /\ IF nCurPriority[owner] > nCurPriority[t]
         THEN /\ nHighPriority' = [nHighPriority EXCEPT ![s] = nCurPriority[t]]
              /\ nCurPriority' = [nCurPriority EXCEPT ![owner] = nCurPriority[t]]
         ELSE UNCHANGED <<nHighPriority, nCurPriority>>
      /\ Goto(t, "down")
      /\ UNCHANGED <<nCount, nWaiting, lpOwner, dwOwnerThreadId, iLockCount, dwState, lpcs,
                     lpCurThread>>

\* The check at __CHECK_COUNT.
CheckCount(t) ==
  \/ (At(t, "enter") \/ At(t, "try")) /\ Take(t)
  \/ At(t, "enter") /\ RaiseOwner(t)

TryFails(t) ==
  /\ At(t, "try")
  /\ nCount[lpcs[t]] = 0
  /\ Goto(t, "idle")
  /\ UNCHANGED <<csVars, dwState, nCurPriority, lpcs, lpCurThread>>

\* Mutant: the waiter is not counted.
Down_NotCounted(t) ==
  /\ At(t, "down") \/ At(t, "sleep")
  /\ IF nCount[lpcs[t]] > 0
     THEN Goto(t, "leave") /\ UNCHANGED dwState
     ELSE dwState' = [dwState EXCEPT ![t] = "UNINTERRUPTIBLE"] /\ Goto(t, "sleep")
  /\ UNCHANGED <<csVars, nCurPriority, lpcs, lpCurThread>>

\* __DownSemphores, on entry and after each return of Schedule: a waiter that finds the
\* section taken sleeps again, and does not look at the owner's priority any more.
Down(t) ==
  LET s == lpcs[t]
  IN  /\ At(t, "down") \/ At(t, "sleep")
      /\ IF nCount[s] > 0
         THEN Goto(t, "leave") /\ UNCHANGED <<nWaiting, dwState>>
         ELSE /\ nWaiting' = [nWaiting EXCEPT ![s] = 1]
              /\ dwState' = [dwState EXCEPT ![t] = "UNINTERRUPTIBLE"]
              /\ Goto(t, "sleep")
      /\ UNCHANGED <<nCount, lpOwner, nHighPriority, dwOwnerThreadId, iLockCount, nCurPriority,
                     lpcs, lpCurThread>>

\* The wait element is freed, or could not be allocated: DownCrit checks again.
LeaveDown(t) ==
  /\ At(t, "leave") \/ At(t, "down")
  /\ Goto(t, "enter")
  /\ UNCHANGED <<csVars, dwState, nCurPriority, lpcs, lpCurThread>>

-----------------------------------------------------------------------------
(* KL_LeaveCriticalSection and UpCrit *)

\* Mutant: the last time is not told from the others.
LeaveOnce_Unguarded(t, s) ==
  /\ At(t, "idle")
  /\ dwOwnerThreadId[s] = t
  /\ iLockCount' = [iLockCount EXCEPT ![s] = @ - 1]
  /\ UNCHANGED <<nCount, nWaiting, lpOwner, nHighPriority, dwOwnerThreadId, thrVars, lpCurThread>>

LeaveOnce(t, s) ==
  /\ At(t, "idle")
  /\ dwOwnerThreadId[s] = t
  /\ iLockCount[s] # 1
  /\ iLockCount' = [iLockCount EXCEPT ![s] = @ - 1]
  /\ UNCHANGED <<nCount, nWaiting, lpOwner, nHighPriority, dwOwnerThreadId, thrVars, lpCurThread>>

\* UpCrit up to where it turns interrupts on again.
UpCrit(t, s) ==
  /\ At(t, "idle")
  /\ dwOwnerThreadId[s] = t
  /\ iLockCount[s] = 1
  /\ nCount' = [nCount EXCEPT ![s] = 1]
  /\ lpOwner' = [lpOwner EXCEPT ![s] = NULL]
  /\ dwOwnerThreadId' = [dwOwnerThreadId EXCEPT ![s] = NULL]
  /\ iLockCount' = [iLockCount EXCEPT ![s] = 0]
  /\ nCurPriority' = [nCurPriority EXCEPT ![t] = OriginPriority[t]]
  /\ nWaiting' = [nWaiting EXCEPT ![s] = 0]
  /\ IF nWaiting[s] > 0
     THEN Goto(t, "up") /\ UNCHANGED nHighPriority
     ELSE nHighPriority' = [nHighPriority EXCEPT ![s] = IDLE_PRIORITY] /\ UNCHANGED pc
  /\ lpcs' = [lpcs EXCEPT ![t] = s]
  /\ UNCHANGED <<dwState, lpCurThread>>

\* __Up.
Up(t) ==
  /\ At(t, "up")
  /\ dwState' = [u \in Threads |-> IF pc[u] = "sleep" /\ lpcs[u] = lpcs[t] THEN "RUNNING"
                                   ELSE dwState[u]]
  /\ Goto(t, "idle")
  /\ UNCHANGED <<csVars, nCurPriority, lpcs, lpCurThread>>

-----------------------------------------------------------------------------
Call(t) ==
  \/ Block(t)
  \/ \E s \in Sections : EnterAgain(t, s) \/ LeaveOnce(t, s) \/ UpCrit(t, s)
  \/ \E s \in Sections, l \in {"enter", "try"} : CallEnter(t, s, l)

\* A thread goes on with the call it is in.
Continue(t) == CheckCount(t) \/ TryFails(t) \/ Down(t) \/ LeaveDown(t) \/ Up(t)

Next == Schedule \/ \E t \in Threads : Call(t) \/ Continue(t) \/ Unblock(t)

Spec == Init /\ [][Next]_vars

-----------------------------------------------------------------------------
(* Properties *)

TypeOK ==
  /\ nCount \in [Sections -> 0..1]
  /\ nWaiting \in [Sections -> 0..1]
  /\ lpOwner \in [Sections -> Threads \cup {NULL}]
  /\ nHighPriority \in [Sections -> 0..IDLE_PRIORITY]
  /\ dwOwnerThreadId \in [Sections -> Threads \cup {NULL}]
  /\ iLockCount \in [Sections -> Nat]
  /\ dwState \in [Threads -> States]
  /\ nCurPriority \in [Threads -> 0..IDLE_PRIORITY]
  /\ pc \in [Threads -> PCs]
  /\ lpcs \in [Threads -> Sections]
  /\ lpCurThread \in Threads \cup {NULL}

\* The three fields that say whether a section is taken, and by whom, agree: the count
\* of its semaphore and the owner there with the owner and the depth in the section.
\* DownCrit asks the first, __DownSemphores too, Enter and Leave ask the others.
OwnersAgree ==
  \A s \in Sections :
    /\ nCount[s] = 1 <=> lpOwner[s] = NULL
    /\ dwOwnerThreadId[s] = lpOwner[s]
    /\ iLockCount[s] = 0 <=> lpOwner[s] = NULL

\* A thread keeps no priority that is not its own: once it is out of every section it
\* runs with nOriginPriority, whoever raised it in between ("restore the original
\* priority", UpCrit).
PriorityRestored ==
  \A t \in Threads : (\A s \in Sections : lpOwner[s] # t) => nCurPriority[t] = OriginPriority[t]

Asleep(t, s) == pc[t] = "sleep" /\ dwState[t] = "UNINTERRUPTIBLE" /\ lpcs[t] = s

\* Whoever sleeps on a section will be woken: it is taken and its waiters are counted,
\* or a thread that has left it is about to wake them.
NoLostWaiter ==
  \A t \in Threads, s \in Sections : Asleep(t, s) =>
    \/ nCount[s] = 0 /\ nWaiting[s] = 1
    \/ \E u \in Threads : pc[u] = "up" /\ lpcs[u] = s

\* A waiter's priority is its owner's: no thread in between delays the waiter ("raise
\* the owner's priority", DownCrit).
OwnerInherits ==
  \A t \in Threads, s \in Sections :
    Asleep(t, s) /\ nCount[s] = 0 => nCurPriority[lpOwner[s]] <= nCurPriority[t]

\* The section as its callers see it.
Abstract == INSTANCE Lock WITH holder <- lpOwner, depth <- iLockCount

ImplementsLock == Abstract!Spec
=============================================================================
