------------------------------ MODULE RunQueue ------------------------------
(***************************************************************************)
(* The run queue of the Kingmos kernel (os/core/kernel/sche.c): one ring   *)
(* of ready threads per priority, doubly linked through the thread         *)
(* structures, found through lpThreadList and a two-level priority bitmap. *)
(*                                                                         *)
(* Every operation runs with interrupts off on a single CPU, so it is one  *)
(* operator from the kernel's scheduling data k to the next one.  Pointers *)
(* are modelled as pointers: a thread or NULL.                             *)
(*                                                                         *)
(* k is a record with one function per field of the THREAD structures and  *)
(* one field per global of sche.c; the names are the source's.             *)
(***************************************************************************)
EXTENDS Integers

CONSTANTS Threads,        \* the thread structures, lpInitKernelThread included
          InitThread,     \* lpInitKernelThread, the idle thread
          NULL,           \* the null pointer
          IDLE_PRIORITY,  \* the lowest priority (255 in the build)
          GroupSize,      \* priorities in one bitmap word (32 in the build)
          DEF_PRIORITY,   \* the priority of a new thread
          DEF_ROTATE      \* the time slice of a thread

ASSUME RunQueueAssumption ==
  /\ InitThread \in Threads
  /\ NULL \notin Threads
  /\ IDLE_PRIORITY \in Nat
  /\ DEF_PRIORITY \in 0..IDLE_PRIORITY
  /\ GroupSize \in Nat \ {0}
  /\ DEF_ROTATE \in Nat

Priorities == 0..IDLE_PRIORITY

GroupOf(p) == p \div GroupSize

Groups == {GroupOf(p) : p \in Priorities}

\* THREAD_RUNNING means ready as well as running; "FREE" is a structure that is
\* not allocated.
States == {"RUNNING", "INTERRUPTIBLE", "UNINTERRUPTIBLE", "SUSPENDED", "ZOMBIE",
           "FREE"}

\* nRotate: the initial thread's is 0 (INIT_THREAD), every other one's the default.
nRotate(t) == IF t = InitThread THEN 0 ELSE DEF_ROTATE

RunQueueType ==
  [lpNextRun: [Threads -> Threads \cup {NULL}],
   lpPrevRun: [Threads -> Threads \cup {NULL}],
   lpThreadList: [Priorities -> Threads \cup {NULL}],
   dwPriorityBitmap: [Groups -> SUBSET Priorities],
   uPriorityGroup: SUBSET Groups,
   nCurPriority: [Threads -> Priorities],
   dwState: [Threads -> States],
   nSuspendCount: [Threads -> Nat],
   nTickCount: [Threads -> Nat],
   nBoost: [Threads -> Nat],
   nCountRunning: Int,
   bNeedResched: BOOLEAN,
   fault: BOOLEAN]

\* The state InitScheduler leaves: only the initial thread is ready, alone on
\* the ring of the idle priority.
InitScheduler ==
  [lpNextRun |-> [t \in Threads |-> IF t = InitThread THEN t ELSE NULL],
   lpPrevRun |-> [t \in Threads |-> IF t = InitThread THEN t ELSE NULL],
   lpThreadList |-> [p \in Priorities |->
                       IF p = IDLE_PRIORITY THEN InitThread ELSE NULL],
   dwPriorityBitmap |-> [g \in Groups |->
                       IF g = GroupOf(IDLE_PRIORITY) THEN {IDLE_PRIORITY} ELSE {}],
   uPriorityGroup |-> {GroupOf(IDLE_PRIORITY)},
   nCurPriority |-> [t \in Threads |-> IDLE_PRIORITY],
   dwState |-> [t \in Threads |-> IF t = InitThread THEN "RUNNING" ELSE "FREE"],
   nSuspendCount |-> [t \in Threads |-> 0],
   nTickCount |-> [t \in Threads |-> 0],
   nBoost |-> [t \in Threads |-> 0],
   nCountRunning |-> 0,
   bNeedResched |-> FALSE,
   fault |-> FALSE]

-----------------------------------------------------------------------------
Linked(k, t) == k.lpNextRun[t] # NULL

SetPriorityBitmap(k, p) ==
  [k EXCEPT !.uPriorityGroup = @ \cup {GroupOf(p)},
            !.dwPriorityBitmap[GroupOf(p)] = @ \cup {p}]

ClearPriorityBitmap(k, p) ==
  [k EXCEPT !.uPriorityGroup = IF k.dwPriorityBitmap[GroupOf(p)] \ {p} = {}
                               THEN @ \ {GroupOf(p)} ELSE @,
            !.dwPriorityBitmap[GroupOf(p)] = @ \ {p}]

\* Mutant of IsHighestPriority: the last priority of the group instead of the first.
IsHighestPriority_LastBit(k, p) ==
  /\ GroupOf(p) \in k.uPriorityGroup
  /\ \A g \in k.uPriorityGroup : GroupOf(p) <= g
  /\ p \in k.dwPriorityBitmap[GroupOf(p)]
  /\ \A q \in k.dwPriorityBitmap[GroupOf(p)] : p >= q

\* GetHighestPriority finds p: the first group with a bit set, and in it the first
\* priority.
IsHighestPriority(k, p) ==
  /\ GroupOf(p) \in k.uPriorityGroup
  /\ \A g \in k.uPriorityGroup : GroupOf(p) <= g
  /\ p \in k.dwPriorityBitmap[GroupOf(p)]
  /\ \A q \in k.dwPriorityBitmap[GroupOf(p)] : p <= q

\* The pointer assignments of AddToRunQueue: t becomes the head of its ring.
LinkAtHead(k, t) ==
  LET p == k.nCurPriority[t]
      h == k.lpThreadList[p]
  IN  IF h # NULL
      THEN [k EXCEPT !.lpNextRun = [@ EXCEPT ![k.lpPrevRun[h]] = t, ![t] = h],
                     !.lpPrevRun = [@ EXCEPT ![t] = k.lpPrevRun[h], ![h] = t],
                     !.lpThreadList[p] = t]
      ELSE [SetPriorityBitmap(k, p) EXCEPT !.lpNextRun[t] = t,
                                           !.lpPrevRun[t] = t,
                                           !.lpThreadList[p] = t]

\* Mutant of AddToRunQueue: without the check of the suspend count (added in 2003).
AddToRunQueue_NoSuspendCheck(k, t, cur) ==
  IF k.lpNextRun[t] # NULL \/ k.lpPrevRun[t] # NULL THEN k
  ELSE [LinkAtHead(k, t) EXCEPT
          !.bNeedResched = @ \/ k.nCurPriority[t] <= k.nCurPriority[cur],
          !.nCountRunning = @ + 1]

\* Mutant of AddToRunQueue: < for <= in the request for a reschedule.
AddToRunQueue_StrictPriority(k, t, cur) ==
  IF k.nSuspendCount[t] # 0 THEN [k EXCEPT !.dwState[t] = "SUSPENDED"]
  ELSE IF k.lpNextRun[t] # NULL \/ k.lpPrevRun[t] # NULL THEN k
  ELSE [LinkAtHead(k, t) EXCEPT
          !.bNeedResched = @ \/ k.nCurPriority[t] < k.nCurPriority[cur],
          !.nCountRunning = @ + 1]

\* A suspended thread is marked suspended instead of queued; a queued one stays
\* where it is.
AddToRunQueue(k, t, cur) ==
  IF k.nSuspendCount[t] # 0 THEN [k EXCEPT !.dwState[t] = "SUSPENDED"]
  ELSE IF k.lpNextRun[t] # NULL \/ k.lpPrevRun[t] # NULL THEN k
  ELSE [LinkAtHead(k, t) EXCEPT
          !.bNeedResched = @ \/ k.nCurPriority[t] <= k.nCurPriority[cur],
          !.nCountRunning = @ + 1]

\* Mutant of Unlink: the head is not moved on when it is the thread taken off.
Unlink_KeepHead(k, t) ==
  LET p == k.nCurPriority[t]
      n == k.lpNextRun[t]
      v == k.lpPrevRun[t]
  IN  IF n = t
      THEN [ClearPriorityBitmap(k, p) EXCEPT !.lpThreadList[p] = NULL,
                                             !.lpNextRun[t] = NULL,
                                             !.lpPrevRun[t] = NULL]
      ELSE [k EXCEPT !.lpNextRun = [@ EXCEPT ![v] = n, ![t] = NULL],
                     !.lpPrevRun = [@ EXCEPT ![n] = v, ![t] = NULL]]

\* The pointer assignments of RemoveFromRunQueue.
Unlink(k, t) ==
  LET p == k.nCurPriority[t]
      n == k.lpNextRun[t]
      v == k.lpPrevRun[t]
  IN  IF n = t
      THEN [ClearPriorityBitmap(k, p) EXCEPT !.lpThreadList[p] = NULL,
                                             !.lpNextRun[t] = NULL,
                                             !.lpPrevRun[t] = NULL]
      ELSE [k EXCEPT !.lpThreadList[p] = IF @ = t THEN n ELSE @,
                     !.lpNextRun = [@ EXCEPT ![v] = n, ![t] = NULL],
                     !.lpPrevRun = [@ EXCEPT ![n] = v, ![t] = NULL]]

\* Mutant of RemoveFromRunQueue: the counter is not decremented.
RemoveFromRunQueue_NoCount(k, t) ==
  IF t = InitThread \/ k.lpNextRun[t] = NULL \/ k.lpPrevRun[t] = NULL
  THEN [k EXCEPT !.fault = TRUE]
  ELSE [Unlink(k, t) EXCEPT !.nBoost[t] = 0]

\* A thread that is on no ring makes the code write through a null pointer, and
\* the initial thread runs into ASSERT(0): both are recorded as a fault.
RemoveFromRunQueue(k, t) ==
  IF t = InitThread \/ k.lpNextRun[t] = NULL \/ k.lpPrevRun[t] = NULL
  THEN [k EXCEPT !.fault = TRUE]
  ELSE [Unlink(k, t) EXCEPT !.nBoost[t] = 0, !.nCountRunning = @ - 1]

\* The assignments as the code makes them, in its order: lpPrev is overwritten
\* with lpList, and lpList is the head read before the head moved on.
MoveToEndOfRunQueue(k, t) ==
  LET p == k.nCurPriority[t]
      n == k.lpNextRun[t]
      v == k.lpPrevRun[t]
      h == k.lpThreadList[p]
  IN  [k EXCEPT
         !.lpThreadList[p] = IF h = t THEN n ELSE h,
         !.lpPrevRun = [[@ EXCEPT ![n] = v] EXCEPT ![h] = t, ![t] = h],
         !.lpNextRun = [[@ EXCEPT ![v] = n] EXCEPT ![t] = h, ![h] = t]]

SetThreadCurrentPriority(k, t, p, cur) ==
  IF k.dwState[t] = "RUNNING"
  THEN AddToRunQueue([RemoveFromRunQueue(k, t) EXCEPT !.nCurPriority[t] = p], t, cur)
  ELSE [k EXCEPT !.nCurPriority[t] = p]

WakeupThread(k, t, bHighLevel, cur) ==
  LET r == [k EXCEPT !.dwState[t] = "RUNNING"]
  IN  IF r.lpNextRun[t] # NULL THEN r
      ELSE AddToRunQueue([r EXCEPT !.nBoost[t] = IF bHighLevel THEN @ + 1 ELSE @], t, cur)

-----------------------------------------------------------------------------
Ready(k, p) == {t \in Threads : Linked(k, t) /\ k.nCurPriority[t] = p}

\* The links of the ready threads: forward and backward links are inverse to each
\* other and stay on one priority.
LinksOK(k) ==
  \A t \in Threads :
    /\ (k.lpNextRun[t] = NULL) <=> (k.lpPrevRun[t] = NULL)
    /\ Linked(k, t) =>
         /\ k.lpPrevRun[k.lpNextRun[t]] = t
         /\ k.lpNextRun[k.lpPrevRun[t]] = t
         /\ k.nCurPriority[k.lpNextRun[t]] = k.nCurPriority[t]
         /\ k.nCurPriority[k.lpPrevRun[t]] = k.nCurPriority[t]

\* The head of a priority is one of its ready threads, and there is one when it
\* has ready threads.
HeadsOK(k) ==
  \A p \in Priorities :
    /\ k.lpThreadList[p] # NULL => k.lpThreadList[p] \in Ready(k, p)
    /\ k.lpThreadList[p] = NULL => Ready(k, p) = {}

\* The two bitmap levels say which priorities have a head.
BitmapOK(k) ==
  /\ \A p \in Priorities :
       p \in k.dwPriorityBitmap[GroupOf(p)] <=> k.lpThreadList[p] # NULL
  /\ \A g \in Groups : \A p \in k.dwPriorityBitmap[g] : GroupOf(p) = g
  /\ \A g \in Groups : g \in k.uPriorityGroup <=> k.dwPriorityBitmap[g] # {}

\* The ready threads of one priority are on one ring: a nonempty set of them that
\* is closed under the forward link is all of them.
OneRing(k) ==
  \A p \in Priorities : \A S \in SUBSET Ready(k, p) :
    (S # {} /\ \A t \in S : k.lpNextRun[t] \in S) => S = Ready(k, p)
=============================================================================
