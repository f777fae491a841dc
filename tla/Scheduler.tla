----------------------------- MODULE Scheduler ------------------------------
(***************************************************************************)
(* Scheduling of the threads of the Kingmos kernel: Schedule, GetNextRun,  *)
(* the timer interrupt and the timed sleeps of sche.c, the thread control  *)
(* calls of thread.c, and the preemption at interrupt exit and at the      *)
(* return of an API call (DefaultHandler).                                 *)
(*                                                                         *)
(* There is one CPU.  cur is the thread it runs; the steps of cur are      *)
(* enabled while ctx = "thread".  The other contexts are the interrupt     *)
(* (ctx = "isr"), the timer interrupt service routine walking the timer    *)
(* list (ctx = "timer"), and GetNextRun walking a ring with interrupts off *)
(* (ctx = "scan").  A thread that is preempted keeps its pc and goes on    *)
(* from there when it is scheduled again.                                  *)
(*                                                                         *)
(* Time is kept as the number of jiffies left: dwExpires - dwJiffies, not  *)
(* below 0, or Off.  The time slices, boosts and timers are the code's.    *)
(***************************************************************************)
EXTENDS RunQueue, FiniteSets

CONSTANTS BootThread,    \* the thread the system start creates
          Controllers,   \* the threads that call the API on other threads
          Calls,         \* the kinds of calls the threads make
          Policies,      \* the policies SetThreadPolicy is called with
          UsedPriorities,\* the priorities SetThreadPriority is called with
          Sleeps,        \* the times Sleep is called with, in jiffies; 0 yields
          MaxSuspend,    \* MAXIMUM_SUSPEND_COUNT
          MaxNested      \* bound on the ticks that arrive during one service routine

ASSUME SchedulerAssumption ==
  /\ BootThread \in Threads \ {InitThread}
  /\ Controllers \subseteq Threads \ {InitThread}
  /\ Policies \subseteq {"OTHER", "FIFO", "ROTATION"}
  /\ UsedPriorities \subseteq Priorities
  /\ Sleeps \subseteq Nat
  /\ MaxSuspend \in Nat
  /\ MaxNested \in Nat

VARIABLES
  k,          \* the run queue and the scheduling fields of the threads
  cur,        \* lpCurThread
  ctx,        \* what the CPU executes
  scan,       \* the local variables of GetNextRun
  pc,         \* where each thread is in the kernel
  arg,        \* the thread it is resuming
  fPolicy,    \* the scheduling policy of each thread
  timer,      \* the timers in the timer list, by thread: jiffies left, or Off
  dwTimeout,  \* the wakeup time of each thread: jiffies left, or Off
  dwLostTicks,\* ticks not yet charged to a thread
  pending,    \* bISRActives[SYSINTR_TIMING]
  dwSignal    \* SIGNAL_CLEAR is set in lpInitKernelThread

vars == <<k, cur, ctx, scan, pc, arg, fPolicy, timer, dwTimeout, dwLostTicks,
          pending, dwSignal>>

Off == -1

PCs == {"none", "run", "resume", "suspend", "sleep", "slept", "waited", "exiting",
        "zombie"}

ScanType == [lpHeadList: Threads, p: Threads, lpNext: Threads, lCount: Int,
             dwTimeout: BOOLEAN]

\* The locals of GetNextRun while it does not run.
NoScan == [lpHeadList |-> InitThread, p |-> InitThread, lpNext |-> InitThread,
           lCount |-> 0, dwTimeout |-> FALSE]

Blocked == {"INTERRUPTIBLE", "UNINTERRUPTIBLE"}

\* Threads whose handle leads to a thread structure.
Alive == {t \in Threads \ {InitThread} : k.dwState[t] \notin {"ZOMBIE", "FREE"}}

\* What InitThreadData sets in the thread structure, with n suspensions.
InitThreadData(r, t, s, n) ==
  [r EXCEPT !.dwState[t] = s, !.nSuspendCount[t] = n, !.nCurPriority[t] = DEF_PRIORITY,
            !.nTickCount[t] = DEF_ROTATE, !.nBoost[t] = 0]

Init ==
  /\ k = AddToRunQueue(InitThreadData(InitScheduler, BootThread, "RUNNING", 0),
                       BootThread, InitThread)
  /\ cur = InitThread
  /\ ctx = "thread"
  /\ scan = NoScan
  /\ pc = [t \in Threads |-> IF t \in {InitThread, BootThread} THEN "run" ELSE "none"]
  /\ arg = [t \in Threads |-> t]
  /\ fPolicy = [t \in Threads |-> "OTHER"]
  /\ timer = [t \in Threads |-> Off]
  /\ dwTimeout = [t \in Threads |-> Off]
  /\ dwLostTicks = 0
  /\ pending = FALSE
  /\ dwSignal = FALSE

-----------------------------------------------------------------------------
(* Schedule and GetNextRun *)

\* The rotation policy at the entry of Schedule.
Rotate(r) ==
  IF r.nTickCount[cur] # 0 /\ fPolicy[cur] = "ROTATION"
  THEN MoveToEndOfRunQueue([r EXCEPT !.nTickCount[cur] = nRotate(cur)], cur)
  ELSE r

\* HandleSignal deletes the exited threads when the initial thread has SIGNAL_CLEAR.
Reaps == cur = InitThread /\ dwSignal

HandleSignal(r) ==
  IF Reaps
  THEN [r EXCEPT !.dwState = [t \in Threads |->
                    IF r.dwState[t] = "ZOMBIE" THEN "FREE" ELSE r.dwState[t]]]
  ELSE r

\* An interruptible thread whose time has come only gives up the CPU once.
GivesUp(r, dt) == r.dwState[cur] = "INTERRUPTIBLE" /\ dt[cur] = 0

\* Mutant of Settle: an interruptible thread stays on the run queue.
Settle_KeepInterruptible(r, dt) ==
  IF r.dwState[cur] = "RUNNING" \/ r.dwState[cur] = "INTERRUPTIBLE" THEN r
  ELSE RemoveFromRunQueue(r, cur)

\* What becomes of the thread that called Schedule.
Settle(r, dt) ==
  IF r.dwState[cur] = "RUNNING" THEN r
  ELSE IF GivesUp(r, dt)
       THEN [r EXCEPT !.nBoost[cur] = 0, !.dwState[cur] = "RUNNING"]
       ELSE RemoveFromRunQueue(r, cur)

\* GetNextRun starts at the head of the highest ready priority.
StartScan(r, giveup) ==
  \E p \in Priorities :
    LET h == r.lpThreadList[p]
    IN  /\ IsHighestPriority(r, p)
        /\ scan' = [lpHeadList |-> h, p |-> r.lpNextRun[h], lpNext |-> h,
                    lCount |-> r.nTickCount[h] + r.nBoost[h], dwTimeout |-> giveup]

\* Schedule called by cur, up to the loop of GetNextRun, with run queue r and
\* wakeup times dt.
Schedule(r, dt) ==
  LET r1 == HandleSignal(Rotate([r EXCEPT !.bNeedResched = FALSE]))
      r2 == Settle(r1, dt)
  IN  /\ k' = r2
      /\ dwTimeout' = IF GivesUp(r1, dt) THEN [dt EXCEPT ![cur] = Off] ELSE dt
      /\ dwSignal' = (dwSignal /\ ~Reaps)
      /\ StartScan(r2, GivesUp(r1, dt))
      /\ ctx' = "scan"
      /\ UNCHANGED <<cur, fPolicy, dwLostTicks, pending>>

\* Mutant of lCurCount: the caller is preferred even when its time slice is used up.
lCurCount_AlwaysPrevious(t) ==
  LET n == k.nTickCount[t] + k.nBoost[t]
  IN  IF t = cur THEN IF scan.dwTimeout THEN -1000 ELSE n + 1 ELSE n

\* The score of a thread of the ring: its ticks and boost; the thread that called
\* Schedule is preferred if it can still run, and passed over if it gives up.
lCurCount(t) ==
  LET n == k.nTickCount[t] + k.nBoost[t]
  IN  IF n # 0 /\ t = cur THEN IF scan.dwTimeout THEN -1000 ELSE n + 1 ELSE n

ScanStep ==
  /\ ctx = "scan"
  /\ scan.p # scan.lpHeadList
  /\ scan' = [scan EXCEPT !.p = k.lpNextRun[scan.p],
                          !.lpNext = IF scan.lCount < lCurCount(scan.p) THEN scan.p ELSE @,
                          !.lCount = IF @ < lCurCount(scan.p) THEN lCurCount(scan.p) ELSE @]
  /\ UNCHANGED <<k, cur, ctx, pc, arg, fPolicy, timer, dwTimeout, dwLostTicks, pending,
                 dwSignal>>

\* When every count is 0 the ring's time slices are renewed.
RenewTicks(r) ==
  IF scan.lCount = 0
  THEN [r EXCEPT !.nTickCount = [t \in Threads |->
          IF t \in Ready(r, r.nCurPriority[scan.lpHeadList]) THEN nRotate(t)
          ELSE r.nTickCount[t]]]
  ELSE r

\* Mutant of SpendBoost: the boost is taken even when there is none.
SpendBoost_Unchecked(r, t) == [r EXCEPT !.nBoost[t] = @ - 1]

\* The thread GetNextRun picked loses one point of its boost.
SpendBoost(r, t) == [r EXCEPT !.nBoost[t] = IF @ > 0 THEN @ - 1 ELSE @]

SwitchTo ==
  /\ ctx = "scan"
  /\ scan.p = scan.lpHeadList
  /\ k' = SpendBoost(RenewTicks(k), scan.lpNext)
  /\ cur' = scan.lpNext
  /\ ctx' = "thread"
  /\ scan' = NoScan
  /\ UNCHANGED <<pc, arg, fPolicy, timer, dwTimeout, dwLostTicks, pending, dwSignal>>

-----------------------------------------------------------------------------
(* The timer interrupt *)

\* DoTimer: one jiffy passes; the timing service routine becomes active.  The
\* interrupt may also arrive while a service routine runs.
Tick ==
  /\ ~k.fault
  /\ \/ ctx = "thread"
     \/ ctx = "timer" /\ dwLostTicks < MaxNested
  /\ timer' = [t \in Threads |-> IF timer[t] > 0 THEN timer[t] - 1 ELSE timer[t]]
  /\ dwTimeout' = [t \in Threads |-> IF dwTimeout[t] > 0 THEN dwTimeout[t] - 1
                                     ELSE dwTimeout[t]]
  /\ dwLostTicks' = dwLostTicks + 1
  /\ pending' = TRUE
  /\ k' = [k EXCEPT !.bNeedResched = TRUE]
  /\ ctx' = IF ctx = "thread" THEN "isr" ELSE ctx
  /\ UNCHANGED <<cur, scan, pc, arg, fPolicy, dwSignal>>

\* UpdateThreadTimes charges the lost ticks to the current thread.
ChargeTicks(r) ==
  IF fPolicy[cur] = "FIFO" THEN r
  ELSE [r EXCEPT !.nTickCount[cur] = IF @ < dwLostTicks THEN 0 ELSE @ - dwLostTicks,
                 !.bNeedResched = @ \/ r.nTickCount[cur] < dwLostTicks]

\* TimerISR up to its timer loop.
TimerISR ==
  /\ ctx = "isr"
  /\ pending
  /\ pending' = FALSE
  /\ k' = ChargeTicks(k)
  /\ dwLostTicks' = 0
  /\ ctx' = "timer"
  /\ UNCHANGED <<cur, scan, pc, arg, fPolicy, timer, dwTimeout, dwSignal>>

\* Mutant of ThreadTimeout: only interruptible threads are woken.
ThreadTimeout_InterruptibleOnly(r, t) ==
  IF r.dwState[t] = "INTERRUPTIBLE" THEN WakeupThread(r, t, FALSE, cur) ELSE r

ThreadTimeout(r, t) ==
  IF r.dwState[t] \in Blocked THEN WakeupThread(r, t, FALSE, cur) ELSE r

\* RunTimerList takes one expired timer off the list and calls it.
FireTimer(t) ==
  /\ ctx = "timer"
  /\ timer[t] = 0
  /\ timer' = [timer EXCEPT ![t] = Off]
  /\ dwTimeout' = [dwTimeout EXCEPT ![t] = Off]
  /\ k' = ThreadTimeout(k, t)
  /\ UNCHANGED <<cur, ctx, scan, pc, arg, fPolicy, dwLostTicks, pending, dwSignal>>

TimersDone ==
  /\ ctx = "timer"
  /\ \A t \in Threads : timer[t] # 0
  /\ ctx' = "isr"
  /\ UNCHANGED <<k, cur, scan, pc, arg, fPolicy, timer, dwTimeout, dwLostTicks, pending,
                 dwSignal>>

\* INTR_Interrupt for another device: ISR_Active, no rescheduling asked for.
DeviceInterrupt ==
  /\ ~k.fault
  /\ ctx = "thread"
  /\ ctx' = "isr"
  /\ UNCHANGED <<k, cur, scan, pc, arg, fPolicy, timer, dwTimeout, dwLostTicks, pending,
                 dwSignal>>

\* DefaultHandler at interrupt exit, once no service routine is active.
InterruptExit ==
  /\ ctx = "isr"
  /\ ~pending
  /\ ~k.bNeedResched
  /\ ctx' = "thread"
  /\ UNCHANGED <<k, cur, scan, pc, arg, fPolicy, timer, dwTimeout, dwLostTicks, pending,
                 dwSignal>>

\* The exited threads of a Schedule by the initial thread are gone afterwards.
Reclaim(f, v) ==
  IF Reaps THEN [t \in Threads |-> IF k.dwState[t] = "ZOMBIE" THEN v ELSE f[t]] ELSE f

\* DefaultHandler preempts the thread: at interrupt exit, or when an API call of
\* the thread returns.
Preempt ==
  /\ ~k.fault
  /\ \/ ctx = "isr" /\ ~pending
     \/ ctx = "thread" /\ pc[cur] = "run"
  /\ k.bNeedResched
  /\ Schedule(k, dwTimeout)
  /\ pc' = Reclaim(pc, "none")
  /\ UNCHANGED <<arg, timer>>

-----------------------------------------------------------------------------
(* Calls of the running thread *)

Running == ctx = "thread" /\ ~k.fault

InUser == Running /\ pc[cur] = "run"

\* CpuIdle, the loop of the initial thread: on SIGNAL_CLEAR it deletes the exited
\* threads and calls Schedule; otherwise it waits for an interrupt.
CpuIdle ==
  /\ InUser
  /\ cur = InitThread
  /\ \/ /\ dwSignal
        /\ Schedule([k EXCEPT !.nTickCount[cur] = 0], dwTimeout)
        /\ pc' = Reclaim(pc, "none")
     \/ /\ ~dwSignal
        /\ k' = [k EXCEPT !.nTickCount[cur] = 0]
        /\ UNCHANGED <<cur, ctx, scan, pc, fPolicy, dwTimeout, dwLostTicks, pending, dwSignal>>
  /\ UNCHANGED <<arg, timer>>

\* _CreateThread: the new thread is suspended once.
CreateThread(t) ==
  /\ InUser
  /\ cur \in Controllers
  /\ k.dwState[t] = "FREE"
  /\ k' = InitThreadData(k, t, "SUSPENDED", 1)
  /\ pc' = [pc EXCEPT ![t] = "run"]
  /\ fPolicy' = [fPolicy EXCEPT ![t] = "OTHER"]
  /\ UNCHANGED <<cur, ctx, scan, arg, timer, dwTimeout, dwLostTicks, pending, dwSignal>>

\* Mutant of DoSuspendThread: the thread's state is not looked at.
DoSuspendThread_AnyState(r, t) ==
  LET s == [r EXCEPT !.nSuspendCount[t] = @ + 1]
  IN  IF r.nSuspendCount[t] = 0
      THEN [RemoveFromRunQueue(s, t) EXCEPT !.dwState[t] = "SUSPENDED"]
      ELSE s

\* The first suspension takes a ready thread off the run queue.
DoSuspendThread(r, t) ==
  LET s == [r EXCEPT !.nSuspendCount[t] = @ + 1]
  IN  IF r.nSuspendCount[t] = 0 /\ r.dwState[t] = "RUNNING"
      THEN [RemoveFromRunQueue(s, t) EXCEPT !.dwState[t] = "SUSPENDED"]
      ELSE s

\* DoSuspendThread of another thread.
SuspendThread(t) ==
  /\ InUser
  /\ cur \in Controllers
  /\ t \in Alive \ {cur}
  /\ k.nSuspendCount[t] < MaxSuspend
  /\ k' = DoSuspendThread(k, t)
  /\ UNCHANGED <<cur, ctx, scan, pc, arg, fPolicy, timer, dwTimeout, dwLostTicks, pending,
                 dwSignal>>

\* DoSuspendThread of the thread itself, up to its call of Schedule.
SuspendSelf ==
  /\ InUser
  /\ cur # InitThread
  /\ k.nSuspendCount[cur] < MaxSuspend
  /\ k' = [k EXCEPT !.nSuspendCount[cur] = @ + 1, !.dwState[cur] = "SUSPENDED"]
  /\ pc' = [pc EXCEPT ![cur] = "suspend"]
  /\ UNCHANGED <<cur, ctx, scan, arg, fPolicy, timer, dwTimeout, dwLostTicks, pending,
                 dwSignal>>

\* DoResumeThread up to UnlockIRQRestore: the thread is marked ready ...
ResumeThread(t) ==
  /\ InUser
  /\ cur \in Controllers
  /\ t \in Alive \ {cur}
  /\ LET n == IF k.nSuspendCount[t] > 0 THEN k.nSuspendCount[t] - 1 ELSE 0
         resumed == k.dwState[t] = "SUSPENDED" /\ n = 0
     IN  /\ k' = [k EXCEPT !.nSuspendCount[t] = n,
                           !.dwState[t] = IF resumed THEN "RUNNING" ELSE @]
         /\ pc' = [pc EXCEPT ![cur] = IF resumed THEN "resume" ELSE @]
         /\ arg' = [arg EXCEPT ![cur] = IF resumed THEN t ELSE @]
  /\ UNCHANGED <<cur, ctx, scan, fPolicy, timer, dwTimeout, dwLostTicks, pending, dwSignal>>

\* ... and put on the run queue after interrupts are back on.
ResumeAdd ==
  /\ Running
  /\ pc[cur] = "resume"
  /\ k' = AddToRunQueue(k, arg[cur], cur)
  /\ pc' = [pc EXCEPT ![cur] = "run"]
  /\ arg' = [arg EXCEPT ![cur] = cur]
  /\ UNCHANGED <<cur, ctx, scan, fPolicy, timer, dwTimeout, dwLostTicks, pending,
                 dwSignal>>

SetThreadPriority(t, p) ==
  /\ InUser
  /\ t = cur \/ cur \in Controllers
  /\ t \in Alive
  /\ k' = SetThreadCurrentPriority(k, t, p, cur)
  /\ UNCHANGED <<cur, ctx, scan, pc, arg, fPolicy, timer, dwTimeout, dwLostTicks, pending,
                 dwSignal>>

SetThreadPolicy(t, q) ==
  /\ InUser
  /\ t = cur \/ cur \in Controllers
  /\ t \in Alive
  /\ fPolicy' = [fPolicy EXCEPT ![t] = q]
  /\ UNCHANGED <<k, cur, ctx, scan, pc, arg, timer, dwTimeout, dwLostTicks, pending,
                 dwSignal>>

\* Sleep and ScheduleTimeout up to the call of Schedule, interrupts on again: n
\* jiffies, or Off for INFINITE.
Sleep(n) ==
  /\ InUser
  /\ cur # InitThread
  /\ k' = [k EXCEPT !.dwState[cur] = IF n = 0 THEN "INTERRUPTIBLE" ELSE "UNINTERRUPTIBLE",
                    !.nTickCount[cur] = IF n = 0 THEN 0 ELSE @,
                    !.nBoost[cur] = IF n = 0 THEN 0 ELSE @]
  /\ timer' = [timer EXCEPT ![cur] = n]
  /\ dwTimeout' = [dwTimeout EXCEPT ![cur] = IF n = Off THEN @ ELSE n]
  /\ pc' = [pc EXCEPT ![cur] = "sleep"]
  /\ UNCHANGED <<cur, ctx, scan, arg, fPolicy, dwLostTicks, pending, dwSignal>>

\* The call of Schedule that SuspendSelf, Sleep or ExitThread ends in.
CallSchedule ==
  /\ Running
  /\ pc[cur] \in {"suspend", "sleep", "zombie"}
  /\ Schedule(k, dwTimeout)
  /\ pc' = [pc EXCEPT ![cur] = CASE @ = "suspend" -> "run"
                                 [] @ = "sleep" -> "slept"
                                 [] OTHER -> @]
  /\ UNCHANGED <<arg, timer>>

\* ScheduleTimeout after Schedule: the timer goes off the list if it is still there.
SleepReturn ==
  /\ Running
  /\ pc[cur] = "slept"
  /\ timer' = [timer EXCEPT ![cur] = Off]
  /\ pc' = [pc EXCEPT ![cur] = "run"]
  /\ UNCHANGED <<k, cur, ctx, scan, arg, fPolicy, dwTimeout, dwLostTicks, pending, dwSignal>>

\* __DownSemphores finds no count and waits: interrupts stay off into Schedule.
Wait(n) ==
  /\ InUser
  /\ cur # InitThread
  /\ n # 0
  /\ timer' = [timer EXCEPT ![cur] = n]
  /\ pc' = [pc EXCEPT ![cur] = "waited"]
  /\ Schedule([k EXCEPT !.dwState[cur] = IF n = Off THEN "UNINTERRUPTIBLE"
                                         ELSE "INTERRUPTIBLE"],
              [dwTimeout EXCEPT ![cur] = IF n = Off THEN @ ELSE n])
  /\ UNCHANGED arg

\* The end of __DownSemphores.
WaitReturn ==
  /\ Running
  /\ pc[cur] = "waited"
  /\ k' = [k EXCEPT !.dwState[cur] = "RUNNING"]
  /\ timer' = [timer EXCEPT ![cur] = Off]
  /\ dwTimeout' = [dwTimeout EXCEPT ![cur] = Off]
  /\ pc' = [pc EXCEPT ![cur] = "run"]
  /\ UNCHANGED <<cur, ctx, scan, arg, fPolicy, dwLostTicks, pending, dwSignal>>

\* WakeupWaitQueue reaches a waiting thread, called by a thread or by a device's
\* interrupt service routine.
Wakeup(t) ==
  /\ ~k.fault
  /\ (InUser /\ cur # InitThread) \/ ctx = "isr"
  /\ pc[t] = "waited"
  /\ k.dwState[t] \in Blocked
  /\ k' = WakeupThread(k, t, TRUE, cur)
  /\ UNCHANGED <<cur, ctx, scan, pc, arg, fPolicy, timer, dwTimeout, dwLostTicks, pending,
                 dwSignal>>

\* TerminateThread of another thread: MakeThreadToDie sends it to ThreadSelfExit.
TerminateThread(t) ==
  /\ InUser
  /\ cur \in Controllers
  /\ t \in Alive \ {cur}
  /\ k' = LET r == [k EXCEPT !.nSuspendCount[t] = 0]
          IN  IF k.dwState[t] = "RUNNING" THEN r
              ELSE AddToRunQueue([r EXCEPT !.dwState[t] = "RUNNING"], t, cur)
  /\ pc' = [pc EXCEPT ![t] = "exiting"]
  /\ UNCHANGED <<cur, ctx, scan, arg, fPolicy, timer, dwTimeout, dwLostTicks, pending,
                 dwSignal>>

ExitThread ==
  /\ InUser
  /\ cur \notin Controllers \cup {InitThread}
  /\ pc' = [pc EXCEPT ![cur] = "exiting"]
  /\ UNCHANGED <<k, cur, ctx, scan, arg, fPolicy, timer, dwTimeout, dwLostTicks, pending,
                 dwSignal>>

\* _DoThreadExit and _FreeThreadResourceAndReschedule up to the call of Schedule.
BecomeZombie ==
  /\ Running
  /\ pc[cur] = "exiting"
  /\ timer' = [timer EXCEPT ![cur] = Off]
  /\ dwSignal' = TRUE
  /\ k' = [k EXCEPT !.nTickCount[InitThread] = 1, !.dwState[cur] = "ZOMBIE"]
  /\ pc' = [pc EXCEPT ![cur] = "zombie"]
  /\ UNCHANGED <<cur, ctx, scan, arg, fPolicy, dwTimeout, dwLostTicks, pending>>

-----------------------------------------------------------------------------
Next ==
  \/ ScanStep \/ SwitchTo
  \/ Tick \/ TimerISR \/ TimersDone \/ DeviceInterrupt \/ InterruptExit \/ Preempt
  \/ \E t \in Threads : FireTimer(t)
  \/ CpuIdle
  \/ \E t \in Threads : CreateThread(t) \/ ResumeThread(t)
  \/ ResumeAdd
  \/ "suspend" \in Calls /\ \E t \in Threads : SuspendThread(t)
  \/ "suspend" \in Calls /\ SuspendSelf
  \/ \E t \in Threads, p \in UsedPriorities : SetThreadPriority(t, p)
  \/ \E t \in Threads, q \in Policies : SetThreadPolicy(t, q)
  \/ "sleep" \in Calls /\ \E n \in Sleeps \cup {Off} : Sleep(n)
  \/ "wait" \in Calls /\ \E n \in Sleeps \cup {Off} : Wait(n)
  \/ CallSchedule \/ SleepReturn \/ WaitReturn
  \/ \E t \in Threads : Wakeup(t)
  \/ "exit" \in Calls /\ \E t \in Threads : TerminateThread(t)
  \/ "exit" \in Calls /\ ExitThread
  \/ BecomeZombie

Spec == Init /\ [][Next]_vars
\* The scheduling the code guarantees: a service routine, GetNextRun and a call
\* already under way go on, and the clock keeps ticking.  Tick is strongly fair: the
\* interrupt controller holds a tick that arrives while interrupts are off until they
\* are on again.  What a thread calls is its own business, so calls are not fair.
Fairness ==
  /\ WF_vars(ScanStep \/ SwitchTo)
  /\ SF_vars(Tick)
  /\ WF_vars(TimerISR \/ TimersDone \/ InterruptExit \/ Preempt)
  /\ \A t \in Threads : WF_vars(FireTimer(t))
  /\ WF_vars(ResumeAdd \/ CallSchedule \/ SleepReturn \/ WaitReturn \/ BecomeZombie)

FairSpec == Spec /\ Fairness

-----------------------------------------------------------------------------
(* Properties *)

TypeOK ==
  /\ k \in RunQueueType
  /\ cur \in Threads
  /\ ctx \in {"thread", "isr", "timer", "scan"}
  /\ scan \in ScanType
  /\ pc \in [Threads -> PCs]
  /\ arg \in [Threads -> Threads]
  /\ fPolicy \in [Threads -> {"OTHER", "FIFO", "ROTATION"}]
  /\ timer \in [Threads -> Nat \cup {Off}]
  /\ dwTimeout \in [Threads -> Nat \cup {Off}]
  /\ dwLostTicks \in Nat
  /\ pending \in BOOLEAN
  /\ dwSignal \in BOOLEAN

\* The run queue is well formed after every step: the links of the ready threads
\* are inverse to each other, every priority has one ring, its head is on it, and
\* the bitmap says which priorities have one (sche.c, AddToRunQueue,
\* RemoveFromRunQueue, MoveToEndOfRunQueue).
QueueOK == LinksOK(k) /\ HeadsOK(k) /\ BitmapOK(k) /\ OneRing(k)

\* RemoveFromRunQueue is never asked to take a thread off that is on no ring, and
\* never the initial thread: its own comments "ASSERT( lpNext && lpPrev )" and
\* "never get here".
NoFault == ~k.fault

\* A thread is between the two halves of DoResumeThread.
BeingResumed(t) == \E c \in Controllers : pc[c] = "resume" /\ arg[c] = t

\* The thread the CPU runs is on the run queue until Schedule takes it off; any other
\* thread is on it exactly when its state is THREAD_RUNNING, except while
\* DoResumeThread is between marking and queueing it.  So no ready thread is lost, and
\* none that waits, is suspended or has exited is picked by GetNextRun.
ReadyIffQueued ==
  /\ ctx # "scan" => Linked(k, cur)
  /\ \A t \in Threads \ {cur} :
       Linked(k, t) <=> (k.dwState[t] = "RUNNING" /\ ~BeingResumed(t))

\* A thread with a suspend count is not on the run queue, except for the one that
\* suspends itself and has not called Schedule yet (thread.c, DoSuspendThread, and
\* the check of nSuspendCount in AddToRunQueue).
SuspendedNotQueued ==
  \A t \in Threads : k.nSuspendCount[t] > 0 =>
    ~Linked(k, t) \/ (t = cur /\ pc[t] = "suspend")

\* When a thread runs and no reschedule is pending, no ready thread has a higher
\* priority: every way to become ready, or to lower the running thread's priority,
\* asks for a reschedule (bNeedResched in AddToRunQueue).
NoMissedResched ==
  (ctx = "thread" /\ ~k.bNeedResched) =>
    \A t \in Threads : Linked(k, t) => k.nCurPriority[cur] <= k.nCurPriority[t]

\* nCountRunning, the answer of GetCountRunning, counts the ready threads other than
\* the initial one.
CountRunningOK ==
  k.nCountRunning = Cardinality({t \in Threads \ {InitThread} : Linked(k, t)})

\* A step to another thread goes to a ready thread of the highest ready priority
\* (GetNextRun: "returns the one with the highest priority").
PicksHighest ==
  [][cur' # cur =>
      /\ Linked(k, cur')
      /\ \A t \in Threads : Linked(k, t) => k.nCurPriority[cur'] <= k.nCurPriority[t]]_vars

\* A thread that sleeps for a time is woken: the timer of a sleeping thread is never
\* lost, however ticks, service routines and other threads' calls interleave.
SleepEnds ==
  \A t \in Threads :
    (k.dwState[t] = "UNINTERRUPTIBLE" /\ timer[t] # Off)
      ~> k.dwState[t] # "UNINTERRUPTIBLE"

\* A thread that stays ready at the highest priority gets the CPU: the time slices
\* and boosts of GetNextRun do not starve it.
NoStarvation ==
  \A t \in Threads :
    []<>(cur = t \/ ~Linked(k, t) \/ ~IsHighestPriority(k, k.nCurPriority[t]))
=============================================================================
