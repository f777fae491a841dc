----------------------------- MODULE Semaphore ------------------------------
(***************************************************************************)
(* The wait objects of the Kingmos kernel: semaphores, mutexes, events and *)
(* the semaphore under a critical section (semaphor.c, downup.c, and       *)
(* __DownSemphores and WakeupWaitQueue of sche.c), with the exit and the   *)
(* termination of threads that wait on them or own them (thread.c).        *)
(*                                                                         *)
(* A step is a stretch of code that runs with interrupts off, or several   *)
(* of them whose order no other thread can tell.  Between two steps of a   *)
(* thread any other ready thread may run: the scheduler (module Scheduler) *)
(* is abstracted to "a thread whose dwState is THREAD_RUNNING may take its *)
(* next step".  A wait queue is a set, because every use of it goes        *)
(* through all of it.  A timer may go off whenever it is armed.            *)
(*                                                                         *)
(* Not modelled: creation and deletion of objects, and the priority that   *)
(* the owner of a critical section inherits.                               *)
(***************************************************************************)
EXTENDS Integers, FiniteSets, FiniteSetsExt, Sequences

CONSTANTS Threads, Sems, NULL,
          csSemList,   \* the semaphore of the critical section csSemList
          Kind,        \* what each object is: "mutex", "semaphore", "auto", "manual", "crit"
          InitCount,   \* nInitialCount of each object
          nMaxCount,
          Calls,       \* the kinds of calls the threads make
          MaxWaiting,  \* nWaiting has the values 0..MaxWaiting (a short: 2^16 values in the code)
          CountWraps,  \* nWaiting wraps to 0 after MaxWaiting, else it stays there
          MaxLock      \* bound on how often a thread waits for a mutex it owns

ASSUME SemaphoreAssumption ==
  /\ NULL \notin Threads
  /\ csSemList \in Sems
  /\ Kind \in [Sems -> {"mutex", "semaphore", "auto", "manual", "crit"}]
  /\ Kind[csSemList] = "crit"
  /\ nMaxCount \in [Sems -> Nat \ {0}]
  /\ \A s \in Sems : Kind[s] # "semaphore" => nMaxCount[s] = 1
  /\ InitCount \in [Sems -> Nat]
  /\ \A s \in Sems : InitCount[s] <= nMaxCount[s]
  /\ \A s \in Sems : Kind[s] \in {"mutex", "crit"} => InitCount[s] = 1
  /\ MaxWaiting \in Nat \ {0}
  /\ CountWraps \in BOOLEAN
  /\ MaxLock \in Nat

VARIABLES
  sem,   \* the SEMAPHORE structures
  thr,   \* the fields of the THREAD structures that waiting uses
  call,  \* the arguments and locals of the call each thread is in
  pc     \* where each thread is in the kernel

vars == <<sem, thr, call, pc>>

\* An element of a wait queue.  A thread on its way out waits with elements of its own.
Nodes == [lpThread: Threads, sem: Sems, exit: BOOLEAN]

SemType == [nCount: Nat, nWaiting: 0..MaxWaiting, lpOwner: Threads \cup {NULL},
            nLockCount: Nat, lpWaitQueue: SUBSET Nodes]

\* timer: the thread's timer is in the timer list.  expired: dwTimeout is 0.
\* pulsing: FLAG_PULSE_EVENTING.  lpWaitQueue: the elements it waits with.
ThreadType == [dwState: {"RUNNING", "INTERRUPTIBLE", "UNINTERRUPTIBLE", "ZOMBIE"},
               timer: BOOLEAN, expired: BOOLEAN, pulsing: BOOLEAN,
               lpRouser: Nodes \cup {NULL}, lpWaitQueue: SUBSET Nodes]

\* lppsem and bWaitAll, whether the wait has a timeout, what __DownSemphores returned
\* (an index, 0 is WAIT_TIMEOUT; nsemRet keeps it), whether the thread is on its way
\* out, the object it signals.
CallType == [lppsem: Seq(Sems), bWaitAll: BOOLEAN, timed: BOOLEAN, dwRetv: Nat,
             exit: BOOLEAN, lpsem: Sems]

NoCall == [lppsem |-> <<>>, bWaitAll |-> FALSE, timed |-> FALSE, dwRetv |-> 0,
           exit |-> FALSE, lpsem |-> csSemList]

PCs == {"idle", "check", "down", "sleep", "leave", "up", "pulse", "reset",
        "pulseUp", "dying", "sweep", "sweepUp", "clear", "sweepLeave", "detach", "dead"}

Init ==
  /\ sem = [s \in Sems |-> [nCount |-> InitCount[s], nWaiting |-> 0, lpOwner |-> NULL,
                            nLockCount |-> 0, lpWaitQueue |-> {}]]
  /\ thr = [t \in Threads |-> [dwState |-> "RUNNING", timer |-> FALSE, expired |-> TRUE,
                               pulsing |-> FALSE, lpRouser |-> NULL, lpWaitQueue |-> {}]]
  /\ call = [t \in Threads |-> NoCall]
  /\ pc = [t \in Threads |-> "idle"]

Blocked(t) == thr[t].dwState \in {"INTERRUPTIBLE", "UNINTERRUPTIBLE"}

\* The thread may take its next step.
At(t, l) == pc[t] = l /\ thr[t].dwState = "RUNNING"

\* t goes on at l, in the call c; the locals of a call are gone when it returns.
Goto(t, l, c) ==
  /\ pc' = [pc EXCEPT ![t] = l]
  /\ call' = [call EXCEPT ![t] = IF l = "idle" THEN NoCall ELSE c]

Indices(t) == DOMAIN call[t].lppsem
Obj(t, i) == call[t].lppsem[i]
Objs(t) == {Obj(t, i) : i \in Indices(t)}

-----------------------------------------------------------------------------
(* DownSemphores and DownCrit: take what is signalled, or wait *)

\* An unsignalled manual-reset event counts as signalled for the thread PulseEvent woke.
Pulsed(t, i) ==
  /\ sem[Obj(t, i)].nCount = 0
  /\ Kind[Obj(t, i)] = "manual"
  /\ call[t].dwRetv = i
  /\ thr[t].pulsing

Available(t, i) ==
  \/ sem[Obj(t, i)].nCount > 0
  \/ Kind[Obj(t, i)] = "mutex" /\ sem[Obj(t, i)].lpOwner = t
  \/ Pulsed(t, i)

\* The object after t has taken it.
Taken(r, s, t) ==
  IF r.nCount = 0 THEN
    IF Kind[s] = "mutex" THEN [r EXCEPT !.nLockCount = @ + 1] ELSE r
  ELSE [r EXCEPT !.nCount = IF Kind[s] = "manual" THEN @ ELSE @ - 1,
                 !.lpOwner = IF Kind[s] \in {"mutex", "crit"} THEN t ELSE @,
                 !.nLockCount = IF Kind[s] \in {"mutex", "crit"} THEN 1 ELSE @]

\* The indices a check of the objects takes: none when the thread has to wait.
Takes(t) ==
  LET ready == {i \in Indices(t) : Available(t, i)}
  IN  IF call[t].bWaitAll THEN IF ready = Indices(t) THEN ready ELSE {}
      ELSE IF ready = {} THEN {} ELSE {Min(ready)}

\* The check uses the pulse up: it got as far as the pulsed event.
SpendsPulse(t) ==
  \E i \in Indices(t) :
    /\ Pulsed(t, i)
    /\ \A j \in 1..(i - 1) : Available(t, j) = call[t].bWaitAll

\* The check at __CHECK_COUNT.
CheckCount(t) ==
  /\ At(t, "check")
  /\ sem' = [s \in Sems |-> IF \E i \in Takes(t) : Obj(t, i) = s THEN Taken(sem[s], s, t)
                            ELSE sem[s]]
  /\ thr' = [thr EXCEPT ![t].pulsing = @ /\ ~SpendsPulse(t)]
  /\ Goto(t, IF Takes(t) = {} THEN "down" ELSE IF call[t].exit THEN "sweep" ELSE "idle",
          call[t])

\* The entry of the calls that wait.
Wait(t, objs, all, timed) ==
  /\ At(t, "idle")
  /\ \A i \in DOMAIN objs : sem[objs[i]].lpOwner = t => sem[objs[i]].nLockCount < MaxLock
  /\ thr' = [thr EXCEPT ![t].pulsing = FALSE]
  /\ Goto(t, "check", [NoCall EXCEPT !.lppsem = objs, !.bWaitAll = all, !.timed = timed])
  /\ UNCHANGED sem

-----------------------------------------------------------------------------
(* __DownSemphores *)

OwnNodes(t) == {[lpThread |-> t, sem |-> s, exit |-> call[t].exit] : s \in Objs(t)}

\* The _return label: the thread stops waiting, with return value i.
ReturnFromDown(t, S, r, i) ==
  /\ sem' = S
  /\ thr' = [thr EXCEPT ![t] =
       [r EXCEPT !.dwState = "RUNNING", !.expired = TRUE, !.lpWaitQueue = {}]]
  /\ Goto(t, "leave", [call[t] EXCEPT !.dwRetv = i])

CountWaiter(n) == IF n < MaxWaiting THEN n + 1 ELSE IF CountWraps THEN 0 ELSE n

\* The loop body: return when an object is signalled or the time is up, and give the
\* processor up otherwise.  A return takes back the counts of this pass only.  Schedule
\* gives back a thread whose time is up instead of blocking it.
Pass(t, S, r) ==
  LET signalled == {i \in Indices(t) : S[Obj(t, i)].nCount > 0}
  IN  IF signalled # {} THEN ReturnFromDown(t, S, r, Min(signalled))
      ELSE IF call[t].timed /\ r.expired THEN ReturnFromDown(t, S, r, 0)
      ELSE /\ sem' = [s \in Sems |-> IF s \in Objs(t)
                        THEN [S[s] EXCEPT !.nWaiting = CountWaiter(@)] ELSE S[s]]
           /\ \/ thr' = [thr EXCEPT ![t] = [r EXCEPT !.dwState =
                           IF call[t].timed THEN "INTERRUPTIBLE" ELSE "UNINTERRUPTIBLE"]]
              \/ call[t].timed /\ thr' = [thr EXCEPT ![t] = [r EXCEPT !.expired = TRUE]]
           /\ Goto(t, "sleep", call[t])

\* Mutant: the thread queues on the first object only.
EnterDown_FirstOnly(t) ==
  /\ At(t, "down")
  /\ LET first == {n \in OwnNodes(t) : n.sem = Obj(t, 1)}
     IN  Pass(t, [s \in Sems |-> [sem[s] EXCEPT !.lpWaitQueue = @ \cup {n \in first : n.sem = s}]],
              [thr[t] EXCEPT !.lpWaitQueue = first, !.timer = @ \/ call[t].timed,
                             !.expired = @ /\ ~call[t].timed])

\* From the allocation of the wait elements to the first Schedule.
EnterDown(t) ==
  /\ At(t, "down")
  /\ Pass(t,
          [s \in Sems |-> IF s \in Objs(t)
             THEN [sem[s] EXCEPT !.lpWaitQueue = @ \cup {n \in OwnNodes(t) : n.sem = s}]
             ELSE sem[s]],
          [thr[t] EXCEPT !.lpWaitQueue = OwnNodes(t), !.timer = @ \/ call[t].timed,
                         !.expired = @ /\ ~call[t].timed])

\* KHeap_Alloc fails: the wait returns WAIT_FAILED, DownCrit checks again.
AllocFails(t) ==
  /\ "nomem" \in Calls
  /\ At(t, "down")
  /\ Goto(t, IF Kind[Obj(t, 1)] = "crit" THEN "check" ELSE "idle", call[t])
  /\ UNCHANGED <<sem, thr>>

\* Mutant: lpRouser is left as it is.
Resume_KeepRouser(t) ==
  /\ At(t, "sleep")
  /\ LET rouser == thr[t].lpRouser
     IN  IF rouser \in thr[t].lpWaitQueue /\ (sem[rouser.sem].nCount > 0 \/ thr[t].pulsing)
         THEN ReturnFromDown(t, sem, thr[t], CHOOSE i \in Indices(t) : Obj(t, i) = rouser.sem)
         ELSE Pass(t, sem, thr[t])

\* Mutant: the object is looked at, the pulse is not.
Resume_NoPulse(t) ==
  At(t, "sleep") /\ Pass(t, sem, [thr[t] EXCEPT !.lpRouser = NULL])

\* The return of Schedule: look at the object the thread was woken by, then at all.
Resume(t) ==
  /\ At(t, "sleep")
  /\ LET rouser == thr[t].lpRouser
         r == [thr[t] EXCEPT !.lpRouser = NULL]
     IN  IF rouser \in r.lpWaitQueue /\ (sem[rouser.sem].nCount > 0 \/ r.pulsing)
         THEN ReturnFromDown(t, sem, r, CHOOSE i \in Indices(t) : Obj(t, i) = rouser.sem)
         ELSE Pass(t, sem, r)

\* Mutant: only the element of the first object is taken off its queue.
LeaveDown_FirstOnly(t) ==
  /\ At(t, "leave")
  /\ sem' = [sem EXCEPT ![Obj(t, 1)].lpWaitQueue = @ \ OwnNodes(t)]
  /\ thr' = [thr EXCEPT ![t].timer = @ /\ ~call[t].timed]
  /\ Goto(t, IF \/ call[t].dwRetv = 0
                \/ ~call[t].bWaitAll /\ Kind[Obj(t, call[t].dwRetv)] = "manual"
             THEN "idle" ELSE "check", call[t])

\* The wait elements and the timer go, interrupts on; then DownSemphores returns or
\* checks again.
LeaveDown(t) ==
  /\ At(t, "leave")
  /\ sem' = [s \in Sems |-> [sem[s] EXCEPT !.lpWaitQueue = @ \ OwnNodes(t)]]
  /\ thr' = [thr EXCEPT ![t].timer = @ /\ ~call[t].timed]
  /\ Goto(t, IF \/ call[t].dwRetv = 0
                \/ ~call[t].bWaitAll /\ Kind[Obj(t, call[t].dwRetv)] = "manual"
             THEN "idle" ELSE "check", call[t])

\* ThreadTimeout, called by the timer service routine.
ThreadTimeout(t) ==
  /\ thr[t].timer
  /\ thr' = [thr EXCEPT ![t].timer = FALSE, ![t].expired = TRUE,
                        ![t].dwState = IF Blocked(t) THEN "RUNNING" ELSE @]
  /\ UNCHANGED <<sem, call, pc>>

-----------------------------------------------------------------------------
(* UpSemaphore, UpCrit and the calls that signal *)

\* Mutant: nWaiting is not reset.
Up_KeepWaiting(r, s, n, owned) ==
  IF r.nCount + n > nMaxCount[s] THEN r
  ELSE [r EXCEPT !.nCount = @ + n, !.lpOwner = IF owned THEN NULL ELSE @,
                 !.nLockCount = IF owned THEN 0 ELSE @]

\* Mutant: nMaxCount is not looked at.
Up_NoMaximum(r, s, n, owned) ==
  [r EXCEPT !.nCount = @ + n, !.nWaiting = 0, !.lpOwner = IF owned THEN NULL ELSE @,
            !.nLockCount = IF owned THEN 0 ELSE @]

\* Mutant: the owner is not reset.
Up_KeepOwner(r, s, n, owned) ==
  IF r.nCount + n > nMaxCount[s] THEN r ELSE [r EXCEPT !.nCount = @ + n, !.nWaiting = 0]

\* The part of UpSemaphore and UpCrit with interrupts off.  owned: the object loses its
\* owner (SF_OWNER in UpSemaphore, always in UpCrit).
Up(r, s, n, owned) ==
  IF r.nCount + n > nMaxCount[s] THEN r
  ELSE [r EXCEPT !.nCount = @ + n, !.nWaiting = 0,
                 !.lpOwner = IF owned THEN NULL ELSE @,
                 !.nLockCount = IF owned THEN 0 ELSE @]

\* __Up is still to be called: there were waiting threads to wake.
MustWake(r, s, n) == r.nCount + n <= nMaxCount[s] /\ r.nWaiting > 0

\* Mutant: only a wait with a timeout is interrupted.
WakeAll_Interruptible(f, queue) ==
  [t \in Threads |->
     LET mine == {n \in queue : n.lpThread = t}
     IN  IF mine # {} /\ f[t].dwState = "INTERRUPTIBLE"
         THEN [f[t] EXCEPT !.dwState = "RUNNING",
                           !.lpRouser = IF @ = NULL THEN CHOOSE n \in mine : TRUE ELSE @]
         ELSE f[t]]

\* WakeupWaitQueue.
WakeAll(f, queue) ==
  [t \in Threads |->
     LET mine == {n \in queue : n.lpThread = t}
     IN  IF mine # {} /\ f[t].dwState \in {"INTERRUPTIBLE", "UNINTERRUPTIBLE"}
         THEN [f[t] EXCEPT !.dwState = "RUNNING",
                           !.lpRouser = IF @ = NULL THEN CHOOSE n \in mine : TRUE ELSE @]
         ELSE f[t]]

\* t signals s n times from label l; it goes on at next, by way of wake if it has to
\* call __Up first.
Signal(t, s, n, owned, l, wake, next) ==
  /\ At(t, l)
  /\ sem' = [sem EXCEPT ![s] = Up(@, s, n, owned)]
  /\ Goto(t, IF MustWake(sem[s], s, n) THEN wake ELSE next, [call[t] EXCEPT !.lpsem = s])
  /\ UNCHANGED thr

WakeupWaitQueue(t, l, next) ==
  /\ At(t, l)
  /\ thr' = WakeAll(thr, sem[call[t].lpsem].lpWaitQueue)
  /\ Goto(t, next, call[t])
  /\ UNCHANGED sem

LowerLockCount(t, s, l, next) ==
  /\ At(t, l)
  /\ sem' = [sem EXCEPT ![s].nLockCount = @ - 1]
  /\ Goto(t, next, call[t])
  /\ UNCHANGED thr

ReleaseMutex(t, s) ==
  /\ At(t, "idle")
  /\ Kind[s] = "mutex"
  /\ sem[s].lpOwner = t
  /\ \/ sem[s].nLockCount = 1 /\ Signal(t, s, 1, TRUE, "idle", "up", "idle")
     \/ sem[s].nLockCount # 1 /\ LowerLockCount(t, s, "idle", "idle")

ReleaseSemaphore(t, s, n) ==
  Kind[s] = "semaphore" /\ Signal(t, s, n, FALSE, "idle", "up", "idle")

SetEvent(t, s) ==
  Kind[s] \in {"auto", "manual"} /\ Signal(t, s, 1, FALSE, "idle", "up", "idle")

SemaphoreReset(t, s, l) ==
  /\ At(t, l)
  /\ sem' = [sem EXCEPT ![s].nCount = 0]
  /\ Goto(t, "idle", call[t])
  /\ UNCHANGED thr

ResetEvent(t, s) ==
  Kind[s] \in {"auto", "manual"} /\ SemaphoreReset(t, s, "idle")

\* PulseEvent: mark the threads that wait on a manual-reset event, then set it and
\* reset it.
PulseEvent(t, s) ==
  \/ Kind[s] = "auto" /\ Signal(t, s, 1, FALSE, "idle", "up", "idle")
  \/ /\ Kind[s] = "manual"
     /\ At(t, "idle")
     /\ thr' = [u \in Threads |-> [thr[u] EXCEPT !.pulsing =
                  @ \/ \E n \in sem[s].lpWaitQueue : n.lpThread = u]]
     /\ Goto(t, "pulse", [call[t] EXCEPT !.lpsem = s])
     /\ UNCHANGED sem

PulseSet(t) == Signal(t, call[t].lpsem, 1, FALSE, "pulse", "pulseUp", "reset")

PulseReset(t) == SemaphoreReset(t, call[t].lpsem, "reset")

\* INTR_ISRFun sets the event of an interrupt; no thread runs in between.
INTR_ISRFun(s) ==
  /\ Kind[s] = "auto"
  /\ sem' = [sem EXCEPT ![s] = Up(@, s, 1, FALSE)]
  /\ thr' = IF MustWake(sem[s], s, 1) THEN WakeAll(thr, sem[s].lpWaitQueue) ELSE thr
  /\ UNCHANGED <<call, pc>>

LeaveCrit(t, s) ==
  /\ Kind[s] = "crit"
  /\ sem[s].lpOwner = t
  /\ Signal(t, s, 1, TRUE, "idle", "up", "idle")

-----------------------------------------------------------------------------
(* Termination and exit of threads *)

\* MakeThreadToDie: wherever it is, u goes on in ThreadSelfExit.
TerminateThread(u) ==
  /\ pc[u] \notin {"dead", "sweep", "sweepUp", "clear", "sweepLeave", "detach"}
  /\ ~call[u].exit
  /\ thr' = [thr EXCEPT ![u].dwState = "RUNNING"]
  /\ Goto(u, "dying", NoCall)
  /\ UNCHANGED sem

ExitThread(t) ==
  /\ At(t, "idle")
  /\ sem[csSemList].lpOwner # t
  /\ Goto(t, "dying", NoCall)
  /\ UNCHANGED <<sem, thr>>

\* _DoThreadExit up to the sweep of _Semaphore_HandleThreadExit: it enters csSemList,
\* unless it is inside already.
EnterSweep(t) ==
  LET exit == [NoCall EXCEPT !.lppsem = <<csSemList>>, !.exit = TRUE]
  IN  /\ At(t, "dying")
      /\ \/ /\ sem[csSemList].lpOwner = t
            /\ sem' = [sem EXCEPT ![csSemList].nLockCount = @ + 1]
            /\ Goto(t, "sweep", exit)
         \/ /\ sem[csSemList].lpOwner # t
            /\ Goto(t, "check", exit)
            /\ UNCHANGED sem
      /\ UNCHANGED thr

Owned(t) == {s \in Sems \ {csSemList} : sem[s].lpOwner = t}

\* One object of the sweep: UpSemaphore, __Up if needed, then lpOwner = NULL.
SweepUp(t) ==
  \E s \in Owned(t) : Signal(t, s, 1, Kind[s] = "mutex", "sweep", "sweepUp", "clear")

SweepClear(t) ==
  /\ At(t, "clear")
  /\ sem' = [sem EXCEPT ![call[t].lpsem].lpOwner = NULL]
  /\ Goto(t, "sweep", call[t])
  /\ UNCHANGED thr

\* Mutant: the sweep stops after one object.
SweepDone_AfterOne(t) ==
  /\ Cardinality(Owned(t)) <= 1
  /\ \/ /\ sem[csSemList].nLockCount = 1
        /\ Signal(t, csSemList, 1, TRUE, "sweep", "sweepLeave", "detach")
     \/ /\ sem[csSemList].nLockCount # 1
        /\ LowerLockCount(t, csSemList, "sweep", "detach")

SweepDone(t) ==
  /\ Owned(t) = {}
  /\ \/ /\ sem[csSemList].nLockCount = 1
        /\ Signal(t, csSemList, 1, TRUE, "sweep", "sweepLeave", "detach")
     \/ /\ sem[csSemList].nLockCount # 1
        /\ LowerLockCount(t, csSemList, "sweep", "detach")

\* The rest of _DoThreadExit: the timer and the wait elements the thread structure
\* still names go, and the thread is a zombie.
Detach(t) ==
  /\ At(t, "detach")
  /\ sem' = [s \in Sems |-> [sem[s] EXCEPT !.lpWaitQueue = @ \ thr[t].lpWaitQueue]]
  /\ thr' = [thr EXCEPT ![t].dwState = "ZOMBIE", ![t].timer = FALSE, ![t].lpWaitQueue = {}]
  /\ Goto(t, "dead", NoCall)
-----------------------------------------------------------------------------
Timed == IF "timed" \in Calls THEN BOOLEAN ELSE {FALSE}

Objects == {s \in Sems : Kind[s] # "crit"}

\* The code that holds csSemList starts no other call before it leaves it.
Outside(t) == sem[csSemList].lpOwner # t

\* A thread starts a call.  WaitForSingleObject asks DownSemphores for all of one object.
CallWait(t) ==
  /\ Outside(t)
  /\ \/ "single" \in Calls /\ \E s \in Objects, w \in Timed : Wait(t, <<s>>, TRUE, w)
     \/ "any" \in Calls /\ \E s, u \in Objects, w \in Timed : s # u /\ Wait(t, <<s, u>>, FALSE, w)
     \/ "all" \in Calls /\ \E s, u \in Objects, w \in Timed : s # u /\ Wait(t, <<s, u>>, TRUE, w)
     \/ "crit" \in Calls /\ \E s \in Sems \ Objects :
          sem[s].lpOwner # t /\ Wait(t, <<s>>, FALSE, FALSE)

CallSignal(t) ==
  \/ "crit" \in Calls /\ \E s \in Sems : LeaveCrit(t, s)
  \/ /\ Outside(t)
     /\ \E s \in Objects :
          \/ "release" \in Calls /\ ReleaseMutex(t, s)
          \/ "release" \in Calls /\ \E n \in 1..nMaxCount[s] : ReleaseSemaphore(t, s, n)
          \/ "set" \in Calls /\ SetEvent(t, s)
          \/ "reset" \in Calls /\ ResetEvent(t, s)
          \/ "pulse" \in Calls /\ PulseEvent(t, s)

\* A thread goes on with the call it is in.
Continue(t) ==
  \/ CheckCount(t) \/ EnterDown(t) \/ Resume(t) \/ LeaveDown(t)
  \/ WakeupWaitQueue(t, "up", "idle")
  \/ PulseSet(t) \/ WakeupWaitQueue(t, "pulseUp", "reset") \/ PulseReset(t)
  \/ EnterSweep(t) \/ SweepUp(t) \/ WakeupWaitQueue(t, "sweepUp", "clear") \/ SweepClear(t)
  \/ SweepDone(t) \/ WakeupWaitQueue(t, "sweepLeave", "detach") \/ Detach(t)

Next ==
  \/ \E t \in Threads :
       \/ CallWait(t) \/ CallSignal(t) \/ Continue(t) \/ AllocFails(t) \/ ThreadTimeout(t)
       \/ "kill" \in Calls /\ TerminateThread(t)
       \/ "exit" \in Calls /\ ExitThread(t)
  \/ "isr" \in Calls /\ \E s \in Sems : INTR_ISRFun(s)

Spec == Init /\ [][Next]_vars

\* A thread in the kernel goes on: the ready threads of one priority share the processor
\* (Scheduler, NoStarvation), and a timer that is armed goes off.
Fairness == \A t \in Threads : WF_vars(Continue(t)) /\ SF_vars(ThreadTimeout(t))

FairSpec == Spec /\ Fairness

-----------------------------------------------------------------------------
(* Properties *)

TypeOK ==
  /\ sem \in [Sems -> SemType]
  /\ \A s \in Sems : sem[s].nCount <= nMaxCount[s]
  /\ thr \in [Threads -> ThreadType]
  /\ call \in [Threads -> CallType]
  /\ pc \in [Threads -> PCs]

\* A signaller has signalled s and is about to wake its waiters.
Waking(s) == \E t \in Threads : pc[t] \in {"up", "pulseUp", "sweepUp", "sweepLeave"} /\ call[t].lpsem = s

\* No signal is lost: whoever sleeps on an object that has been signalled is about to be
\* woken.  The wake-up is skipped when nWaiting is 0, and nWaiting is reset by every
\* signal and counted again by every waiter (downup.c, UpSemaphore; sche.c,
\* __DownSemphores).
NoLostSignal ==
  \A s \in Sems, t \in Threads :
    sem[s].nCount > 0 /\ pc[t] = "sleep" /\ s \in Objs(t) => ~Blocked(t) \/ Waking(s)

\* No object is signalled and waited for at once: the assertion
\* "ASSERT( !(lpsem->nCount && lpsem->nWaiting) )" of UpSemaphore.
NoWaiterWhenSignalled ==
  \A s \in Sems : sem[s].nCount = 0 \/ sem[s].nWaiting = 0

\* The element a thread was woken by is one of those it waits with: the assertion
\* "ASSERT( i < nCount )" on lpRouser in __DownSemphores.
RouserIsOwn ==
  \A t \in Threads : pc[t] = "sleep" /\ thr[t].lpRouser # NULL =>
    thr[t].lpRouser \in thr[t].lpWaitQueue

\* A mutex or critical section is taken exactly when it has an owner.
OwnedWhenTaken ==
  \A s \in Sems : Kind[s] \in {"mutex", "crit"} =>
    (sem[s].nCount = 0 <=> sem[s].lpOwner # NULL)

\* The elements on the wait queues belong to threads that are inside __DownSemphores,
\* so none is left behind for memory that is gone.
QueuedAreWaiting ==
  \A s \in Sems : \A n \in sem[s].lpWaitQueue :
    pc[n.lpThread] \in {"sleep", "leave"} /\ n.sem \in Objs(n.lpThread)

\* A thread PulseEvent has marked is released: it does not go back to sleep on the
\* event it was marked for ("when the event is manual-reset, all threads that wait get
\* the signal and are released", KL_PulseEvent).
PulsedIsReleased ==
  \A t \in Threads :
    thr[t].pulsing /\ Blocked(t) /\ (\E s \in Objs(t) : Kind[s] = "manual") =>
    \/ \E u \in Threads : pc[u] = "pulse"
    \/ \E s \in Sems : Waking(s)

\* A thread that is gone owns nothing: the sweep of its exit has released every object
\* it owned, wherever it was terminated (_Semaphore_HandleThreadExit; csSemList itself
\* is not covered by the sweep).
DeadOwnsNothing ==
  \A s \in Sems \ {csSemList} : sem[s].lpOwner # NULL => pc[sem[s].lpOwner] # "dead"

\* An object that is signalled is taken, if a thread waits for it alone.
SignalIsTaken ==
  \A t \in Threads, s \in Sems :
    (pc[t] = "sleep" /\ call[t].lppsem = <<s>> /\ sem[s].nCount > 0)
      ~> (sem[s].nCount = 0 \/ pc[t] = "idle")
=============================================================================
