-------------------------- MODULE SchedulerProofs ---------------------------
(***************************************************************************)
(* Safety of the scheduler for any number of threads, priorities and time  *)
(* slices, under the two restrictions without which the code is known to   *)
(* go wrong: one thread controls the others, and no thread uses the        *)
(* rotation policy.                                                        *)
(***************************************************************************)
EXTENDS Scheduler, RunQueueProofs, FiniteSetTheorems

SingleController == \A a, b \in Controllers : a = b

NoRotation == "ROTATION" \notin Policies

-----------------------------------------------------------------------------
(* The inductive invariant *)

\* The places where a thread that has the CPU is in state THREAD_RUNNING.
ReadyPCs == {"run", "resume", "slept", "waited", "exiting"}

\* The initial thread never blocks.
InitThreadOK == k.dwState[InitThread] = "RUNNING" /\ pc[InitThread] = "run"

\* ReadyIffQueued, with the thread that called Schedule included once it is settled.
QueuedOK ==
  \A t \in Threads :
    IF t = cur /\ ctx # "scan" THEN Linked(k, t)
    ELSE Linked(k, t) <=> (k.dwState[t] = "RUNNING" /\ ~BeingResumed(t))

\* A thread in DoResumeThread and the thread it resumes.
ResumeOK ==
  \A c \in Threads : pc[c] = "resume" =>
    /\ c \in Controllers
    /\ k.dwState[c] = "RUNNING"
    /\ arg[c] # InitThread
    /\ k.dwState[arg[c]] = "RUNNING"
    /\ ~Linked(k, arg[c])

\* A ready thread has no suspend count; the current thread has one only when it has
\* just suspended itself.
SuspendOK ==
  /\ \A t \in Threads : k.dwState[t] = "RUNNING" => k.nSuspendCount[t] = 0
  /\ ctx # "scan" /\ k.nSuspendCount[cur] # 0 => k.dwState[cur] = "SUSPENDED"

\* The state of the current thread.
CurOK ==
  ctx # "scan" => /\ pc[cur] \in ReadyPCs => k.dwState[cur] = "RUNNING"
                  /\ k.dwState[cur] = "SUSPENDED" => pc[cur] = "suspend"

\* GetNextRun stays on the ring of the highest ready priority.
ScanOK ==
  ctx = "scan" =>
    /\ \A x \in {scan.lpHeadList, scan.p, scan.lpNext} :
         Linked(k, x) /\ k.nCurPriority[x] = k.nCurPriority[scan.lpHeadList]
    /\ \A t \in Threads : Linked(k, t) =>
         k.nCurPriority[scan.lpHeadList] <= k.nCurPriority[t]

\* NoMissedResched, in the interrupt contexts as well.
ReschedOK ==
  (ctx # "scan" /\ ~k.bNeedResched) =>
    \A t \in Threads : Linked(k, t) => k.nCurPriority[cur] <= k.nCurPriority[t]

PolicyOK == \A t \in Threads : fPolicy[t] # "ROTATION"

IInv ==
  /\ TypeOK
  /\ WellFormed(k)
  /\ NoFault
  /\ InitThreadOK
  /\ QueuedOK
  /\ ResumeOK
  /\ SuspendOK
  /\ CurOK
  /\ ScanOK
  /\ ReschedOK
  /\ PolicyOK

-----------------------------------------------------------------------------
(* Initial states *)

\* InitThreadData of a structure that is on no ring keeps the queue well formed.
LEMMA InitThreadDataFields ==
  ASSUME NEW r, WellFormed(r), NEW t \in Threads, ~Linked(r, t), NEW s \in States,
         NEW n \in Nat
  PROVE  LET d == InitThreadData(r, t, s, n)
         IN  /\ WellFormed(d)
             /\ \A u \in Threads : Linked(d, u) <=> Linked(r, u)
             /\ d.nCurPriority = [r.nCurPriority EXCEPT ![t] = DEF_PRIORITY]
             /\ d.dwState = [r.dwState EXCEPT ![t] = s]
             /\ d.nSuspendCount = [r.nSuspendCount EXCEPT ![t] = n]
             /\ d.fault = r.fault
             /\ d.bNeedResched = r.bNeedResched
<1> DEFINE d == InitThreadData(r, t, s, n)
<1>0. DEF_PRIORITY \in Priorities /\ DEF_ROTATE \in Nat /\ r \in RunQueueType
  BY RunQueueAssumption DEF Priorities, WellFormed
<1>1. d \in RunQueueType
  BY <1>0 DEF InitThreadData, RunQueueType
<1>2. /\ d.lpNextRun = r.lpNextRun
      /\ d.lpPrevRun = r.lpPrevRun
      /\ d.lpThreadList = r.lpThreadList
      /\ d.dwPriorityBitmap = r.dwPriorityBitmap
      /\ d.uPriorityGroup = r.uPriorityGroup
      /\ d.nCurPriority = [r.nCurPriority EXCEPT ![t] = DEF_PRIORITY]
      /\ d.dwState = [r.dwState EXCEPT ![t] = s]
      /\ d.nSuspendCount = [r.nSuspendCount EXCEPT ![t] = n]
      /\ d.fault = r.fault
      /\ d.bNeedResched = r.bNeedResched
  BY <1>0 DEF InitThreadData, RunQueueType
<1> HIDE DEF d
<1>3. WellFormed(d) /\ \A u \in Threads : Linked(d, u) <=> Linked(r, u)
  BY <1>0, <1>1, <1>2, PriorityOfUnlinked
<1> QED
  BY <1>2, <1>3 DEF d

LEMMA InitInvariant == Init => IInv
<1> SUFFICES ASSUME Init PROVE IInv
  OBVIOUS
<1> DEFINE r == InitThreadData(InitScheduler, BootThread, "RUNNING", 0)
<1>0. /\ BootThread \in Threads /\ BootThread # InitThread /\ InitThread \in Threads
      /\ "RUNNING" \in States /\ 0 \in Nat
  BY RunQueueAssumption, SchedulerAssumption DEF States
<1>1. /\ WellFormed(InitScheduler)
      /\ \A t \in Threads : Linked(InitScheduler, t) <=> t = InitThread
  BY InitSchedulerWellFormed
<1>2. /\ InitScheduler.dwState = [t \in Threads |-> IF t = InitThread THEN "RUNNING" ELSE "FREE"]
      /\ InitScheduler.nSuspendCount = [t \in Threads |-> 0]
      /\ InitScheduler.nCurPriority = [t \in Threads |-> IDLE_PRIORITY]
      /\ InitScheduler.fault = FALSE
      /\ InitScheduler.bNeedResched = FALSE
  BY DEF InitScheduler
<1>3. /\ WellFormed(r)
      /\ \A u \in Threads : Linked(r, u) <=> u = InitThread
      /\ r.nCurPriority = [InitScheduler.nCurPriority EXCEPT ![BootThread] = DEF_PRIORITY]
      /\ r.dwState = [InitScheduler.dwState EXCEPT ![BootThread] = "RUNNING"]
      /\ r.nSuspendCount = [InitScheduler.nSuspendCount EXCEPT ![BootThread] = 0]
      /\ r.fault = InitScheduler.fault
      /\ r.bNeedResched = InitScheduler.bNeedResched
  BY <1>0, <1>1, InitThreadDataFields
<1> HIDE DEF r
<1>4. ~Linked(r, BootThread) /\ r.nSuspendCount[BootThread] = 0
  BY <1>0, <1>2, <1>3
<1>5. k = AddToRunQueue(r, BootThread, InitThread)
  BY DEF Init, r
<1>6. /\ WellFormed(k)
      /\ \A u \in Threads : Linked(k, u) <=> Linked(r, u) \/ u = BootThread
      /\ k.nCurPriority = r.nCurPriority
      /\ k.dwState = r.dwState
      /\ k.nSuspendCount = r.nSuspendCount
      /\ k.fault = r.fault
      /\ k.bNeedResched <=>
           r.bNeedResched \/ r.nCurPriority[BootThread] <= r.nCurPriority[InitThread]
  <2>1. WellFormed(r)
    BY <1>3
  <2> QED
    BY <1>0, <1>4, <1>5, <2>1, AddQueues
<1>7. \A t \in Threads :
        /\ k.dwState[t] = IF t \in {InitThread, BootThread} THEN "RUNNING" ELSE "FREE"
        /\ k.nSuspendCount[t] = 0
        /\ k.nCurPriority[t] = IF t = BootThread THEN DEF_PRIORITY ELSE IDLE_PRIORITY
  <2>1. /\ k.dwState = [InitScheduler.dwState EXCEPT ![BootThread] = "RUNNING"]
        /\ k.nSuspendCount = [InitScheduler.nSuspendCount EXCEPT ![BootThread] = 0]
        /\ k.nCurPriority = [InitScheduler.nCurPriority EXCEPT ![BootThread] = DEF_PRIORITY]
    BY <1>3, <1>6
  <2> QED
    BY <1>0, <1>2, <2>1
<1>8. TypeOK
  <2>1. k \in RunQueueType
    BY <1>6 DEF WellFormed
  <2>2. scan \in ScanType
    BY <1>0 DEF Init, NoScan, ScanType
  <2>3. /\ pc \in [Threads -> PCs]
        /\ arg \in [Threads -> Threads]
        /\ fPolicy \in [Threads -> {"OTHER", "FIFO", "ROTATION"}]
        /\ timer \in [Threads -> Nat \cup {Off}]
        /\ dwTimeout \in [Threads -> Nat \cup {Off}]
    BY DEF Init, PCs
  <2> QED
    BY <1>0, <2>1, <2>2, <2>3 DEF Init, TypeOK
<1>9. NoFault /\ InitThreadOK
  BY <1>0, <1>2, <1>3, <1>6, <1>7 DEF NoFault, InitThreadOK, Init
<1>10. QueuedOK /\ ResumeOK
  <2>1. \A t \in Threads : pc[t] # "resume"
    BY DEF Init
  <2>2. cur = InitThread /\ ctx = "thread"
    BY DEF Init
  <2>3. \A t \in Threads : ~BeingResumed(t)
    BY <2>1, SchedulerAssumption DEF BeingResumed
  <2> QED
    BY <1>0, <1>3, <1>6, <1>7, <2>1, <2>2, <2>3 DEF QueuedOK, ResumeOK
<1>11. SuspendOK
  BY <1>0, <1>7 DEF SuspendOK, Init
<1>12. CurOK /\ ScanOK /\ PolicyOK
  BY <1>0, <1>7 DEF CurOK, ScanOK, PolicyOK, Init
<1>13. ReschedOK
  <2>1. cur = InitThread /\ ctx = "thread"
    BY DEF Init
  <2>2. DEF_PRIORITY <= IDLE_PRIORITY
    BY RunQueueAssumption
  <2>3. k.bNeedResched
    BY <1>0, <1>6, <1>7, <2>2
  <2> QED
    BY <2>3 DEF ReschedOK
<1> QED
  BY <1>6, <1>8, <1>9, <1>10, <1>11, <1>12, <1>13 DEF IInv

-----------------------------------------------------------------------------
(* Schedule *)

\* The part of Schedule before Settle: no thread is moved; exited threads may be freed.
LEMMA EntryFields ==
  ASSUME NEW r, WellFormed(r), cur \in Threads, PolicyOK
  PROVE  LET h == HandleSignal(Rotate([r EXCEPT !.bNeedResched = FALSE]))
         IN  /\ WellFormed(h)
             /\ \A t \in Threads : Linked(h, t) <=> Linked(r, t)
             /\ h.nCurPriority = r.nCurPriority
             /\ h.nSuspendCount = r.nSuspendCount
             /\ h.fault = r.fault
             /\ ~h.bNeedResched
             /\ \A t \in Threads :
                  \/ h.dwState[t] = r.dwState[t]
                  \/ Reaps /\ r.dwState[t] = "ZOMBIE" /\ h.dwState[t] = "FREE"
<1> DEFINE m == [r EXCEPT !.bNeedResched = FALSE]
           h == HandleSignal(m)
<1>0. r \in RunQueueType
  BY DEF WellFormed
<1>1. Rotate(m) = m
  BY DEF Rotate, PolicyOK
<1>2. m \in RunQueueType
  BY <1>0, Zenon DEF RunQueueType
<1>3. /\ SameQueue(r, m)
      /\ m.nSuspendCount = r.nSuspendCount
      /\ m.dwState = r.dwState
      /\ m.fault = r.fault
  BY <1>0 DEF RunQueueType, SameQueue
<1>4. m.bNeedResched = FALSE
  BY <1>0, Zenon DEF RunQueueType
<1> HIDE DEF m
<1>5. CASE ~Reaps
  <2>1. h = m
    BY <1>5 DEF HandleSignal
  <2> QED
    BY <1>0, <1>1, <1>2, <1>3, <1>4, <2>1, SameQueueWellFormed DEF SameQueue, m
<1>6. CASE Reaps
  <2> DEFINE f == [t \in Threads |-> IF m.dwState[t] = "ZOMBIE" THEN "FREE" ELSE m.dwState[t]]
  <2>1. h = [m EXCEPT !.dwState = f]
    BY <1>6 DEF HandleSignal
  <2>2. f \in [Threads -> States]
    BY <1>2 DEF RunQueueType, States
  <2>3. \A t \in Threads : f[t] = m.dwState[t] \/ (m.dwState[t] = "ZOMBIE" /\ f[t] = "FREE")
    OBVIOUS
  <2> HIDE DEF f, h
  <2>4. h \in RunQueueType
    BY <1>2, <2>1, <2>2 DEF RunQueueType
  <2>5. /\ SameQueue(m, h)
        /\ h.nSuspendCount = m.nSuspendCount
        /\ h.fault = m.fault
        /\ h.dwState = f
    BY <1>2, <2>1 DEF RunQueueType, SameQueue
  <2>6. h.bNeedResched = m.bNeedResched
    BY <1>2, <2>1 DEF RunQueueType
  <2>7. SameQueue(r, h)
    BY <1>3, <2>5 DEF SameQueue
  <2>8. WellFormed(h) /\ \A t \in Threads : Linked(h, t) <=> Linked(r, t)
    BY <2>4, <2>7, SameQueueWellFormed
  <2> QED
    BY <1>1, <1>3, <1>4, <1>6, <2>3, <2>5, <2>6, <2>7, <2>8 DEF SameQueue, h, m
<1> QED
  BY <1>5, <1>6

\* Settle takes the caller off the run queue exactly when it is not ready any more.
LEMMA SettleFields ==
  ASSUME NEW h, WellFormed(h), NEW dt, cur \in Threads, Linked(h, cur),
         h.dwState[InitThread] = "RUNNING"
  PROVE  LET s == Settle(h, dt)
         IN  /\ WellFormed(s)
             /\ \A t \in Threads \ {cur} : Linked(s, t) <=> Linked(h, t)
             /\ Linked(s, cur) <=> s.dwState[cur] = "RUNNING"
             /\ s.nCurPriority = h.nCurPriority
             /\ s.nSuspendCount = h.nSuspendCount
             /\ s.fault = h.fault
             /\ s.bNeedResched = h.bNeedResched
             /\ \A t \in Threads \ {cur} : s.dwState[t] = h.dwState[t]
             /\ \/ s.dwState[cur] = h.dwState[cur]
                \/ h.dwState[cur] = "INTERRUPTIBLE" /\ s.dwState[cur] = "RUNNING"
<1>0. h \in RunQueueType
  BY DEF WellFormed
<1>1. CASE h.dwState[cur] = "RUNNING"
  BY <1>1 DEF Settle
<1>2. CASE h.dwState[cur] # "RUNNING" /\ ~GivesUp(h, dt)
  <2>1. cur \in Threads \ {InitThread}
    BY <1>2
  <2> QED
    BY <1>2, <2>1, RemoveUnlinks DEF Settle
<1>3. CASE h.dwState[cur] # "RUNNING" /\ GivesUp(h, dt)
  <2> DEFINE s == [h EXCEPT !.nBoost[cur] = 0, !.dwState[cur] = "RUNNING"]
  <2>1. Settle(h, dt) = s
    BY <1>3 DEF Settle
  <2>2. h.dwState[cur] = "INTERRUPTIBLE"
    BY <1>3 DEF GivesUp
  <2>3. s \in RunQueueType
    BY <1>0 DEF RunQueueType, States
  <2>4. /\ SameQueue(h, s)
        /\ s.nSuspendCount = h.nSuspendCount
        /\ s.fault = h.fault
        /\ s.bNeedResched = h.bNeedResched
        /\ s.dwState = [h.dwState EXCEPT ![cur] = "RUNNING"]
    BY <1>0 DEF RunQueueType, SameQueue
  <2> HIDE DEF s
  <2>5. WellFormed(s) /\ \A t \in Threads : Linked(s, t) <=> Linked(h, t)
    BY <2>3, <2>4, SameQueueWellFormed
  <2>6. /\ \A t \in Threads \ {cur} : s.dwState[t] = h.dwState[t]
        /\ s.dwState[cur] = "RUNNING"
    BY <1>0, <2>4 DEF RunQueueType
  <2> QED
    BY <2>1, <2>2, <2>4, <2>5, <2>6 DEF SameQueue
<1> QED
  BY <1>1, <1>2, <1>3

\* The first group with a priority set holds the first priority set.
LEMMA DivOrder ==
  ASSUME NEW p \in Int, NEW q \in Int, NEW n \in Int, n > 0, p \div n < q \div n
  PROVE  p < q
  BY SMT

\* GetNextRun starts at the head of the highest ready priority.
LEMMA StartScanOK ==
  ASSUME NEW s, WellFormed(s), NEW b \in BOOLEAN, StartScan(s, b)
  PROVE  /\ scan' \in ScanType
         /\ \A x \in {scan'.lpHeadList, scan'.p, scan'.lpNext} :
              Linked(s, x) /\ s.nCurPriority[x] = s.nCurPriority[scan'.lpHeadList]
         /\ \A t \in Threads : Linked(s, t) =>
              s.nCurPriority[scan'.lpHeadList] <= s.nCurPriority[t]
<1>0. s \in RunQueueType /\ NULL \notin Threads
  BY RunQueueAssumption DEF WellFormed
<1>1. PICK p \in Priorities :
        /\ IsHighestPriority(s, p)
        /\ scan' = [lpHeadList |-> s.lpThreadList[p], p |-> s.lpNextRun[s.lpThreadList[p]],
                    lpNext |-> s.lpThreadList[p],
                    lCount |-> s.nTickCount[s.lpThreadList[p]] + s.nBoost[s.lpThreadList[p]],
                    dwTimeout |-> b]
  BY DEF StartScan
<1> DEFINE h == s.lpThreadList[p]
           n == s.lpNextRun[h]
<1>2. h # NULL
  BY <1>1 DEF IsHighestPriority, WellFormed, BitmapOK
<1>3. h \in Threads /\ Linked(s, h) /\ s.nCurPriority[h] = p
  BY <1>0, <1>2 DEF WellFormed, HeadsOK, RunQueueType, Ready
<1>4. n \in Threads /\ Linked(s, n) /\ s.nCurPriority[n] = p
  BY <1>0, <1>3 DEF WellFormed, LinksOK, RunQueueType, Linked
<1>5. s.nTickCount[h] + s.nBoost[h] \in Int
  <2>1. s.nTickCount[h] \in Nat /\ s.nBoost[h] \in Nat
    BY <1>0, <1>3 DEF RunQueueType
  <2> QED
    BY <2>1
<1>6. ASSUME NEW t \in Threads, Linked(s, t) PROVE p <= s.nCurPriority[t]
  <2> DEFINE q == s.nCurPriority[t]
  <2>1. q \in Priorities /\ p \in Priorities
    BY <1>0 DEF RunQueueType
  <2>2. s.lpThreadList[q] # NULL
    BY <1>6, <2>1 DEF WellFormed, HeadsOK, Ready
  <2>3. q \in s.dwPriorityBitmap[GroupOf(q)] /\ GroupOf(q) \in Groups
    BY <2>1, <2>2 DEF WellFormed, BitmapOK, Groups
  <2>4. GroupOf(q) \in s.uPriorityGroup
    BY <2>3 DEF WellFormed, BitmapOK
  <2>5. GroupOf(p) <= GroupOf(q)
    BY <1>1, <2>4 DEF IsHighestPriority
  <2>6. CASE GroupOf(p) = GroupOf(q)
    BY <1>1, <2>3, <2>6 DEF IsHighestPriority
  <2>7. CASE GroupOf(p) # GroupOf(q)
    <3>1. p \in Int /\ q \in Int /\ GroupSize \in Int /\ GroupSize > 0
      BY <2>1, RunQueueAssumption DEF Priorities
    <3>2. p \div GroupSize < q \div GroupSize
      BY <2>5, <2>7, <3>1 DEF GroupOf
    <3>3. p < q
      BY <3>1, <3>2, DivOrder
    <3> QED
      BY <3>1, <3>3
  <2> QED
    BY <2>6, <2>7
<1> QED
  BY <1>1, <1>3, <1>4, <1>5, <1>6 DEF ScanType

\* What Schedule, called with run queue r, does to the run queue.
LEMMA ScheduleEffect ==
  ASSUME NEW r, NEW dt, WellFormed(r), cur \in Threads, PolicyOK, Linked(r, cur),
         r.dwState[InitThread] = "RUNNING", Schedule(r, dt)
  PROVE  /\ WellFormed(k')
         /\ \A t \in Threads \ {cur} : Linked(k', t) <=> Linked(r, t)
         /\ Linked(k', cur) <=> k'.dwState[cur] = "RUNNING"
         /\ k'.nSuspendCount = r.nSuspendCount
         /\ k'.fault = r.fault
         /\ \A t \in Threads \ {cur} :
              \/ k'.dwState[t] = r.dwState[t]
              \/ r.dwState[t] = "ZOMBIE" /\ k'.dwState[t] = "FREE"
         /\ \/ k'.dwState[cur] = r.dwState[cur]
            \/ r.dwState[cur] = "INTERRUPTIBLE" /\ k'.dwState[cur] = "RUNNING"
            \/ r.dwState[cur] = "ZOMBIE" /\ k'.dwState[cur] # "RUNNING"
         /\ scan' \in ScanType
         /\ ScanOK'
<1> DEFINE h == HandleSignal(Rotate([r EXCEPT !.bNeedResched = FALSE]))
           s == Settle(h, dt)
<1>0. InitThread \in Threads
  BY RunQueueAssumption
<1>1. /\ WellFormed(h)
      /\ \A t \in Threads : Linked(h, t) <=> Linked(r, t)
      /\ h.nSuspendCount = r.nSuspendCount
      /\ h.fault = r.fault
      /\ \A t \in Threads :
           \/ h.dwState[t] = r.dwState[t]
           \/ r.dwState[t] = "ZOMBIE" /\ h.dwState[t] = "FREE"
  BY EntryFields
<1>2. k' = s /\ StartScan(s, GivesUp(h, dt)) /\ ctx' = "scan" /\ cur' = cur
  BY DEF Schedule
<1>3. GivesUp(h, dt) \in BOOLEAN
  BY DEF GivesUp
<1> HIDE DEF h
<1>4. /\ WellFormed(s)
      /\ \A t \in Threads \ {cur} : Linked(s, t) <=> Linked(h, t)
      /\ Linked(s, cur) <=> s.dwState[cur] = "RUNNING"
      /\ s.nSuspendCount = h.nSuspendCount
      /\ s.fault = h.fault
      /\ \A t \in Threads \ {cur} : s.dwState[t] = h.dwState[t]
      /\ \/ s.dwState[cur] = h.dwState[cur]
         \/ h.dwState[cur] = "INTERRUPTIBLE" /\ s.dwState[cur] = "RUNNING"
  <2>1. Linked(h, cur) /\ h.dwState[InitThread] = "RUNNING"
    BY <1>0, <1>1
  <2> QED
    BY <1>1, <2>1, SettleFields
<1> HIDE DEF s
<1>5. /\ scan' \in ScanType
      /\ \A x \in {scan'.lpHeadList, scan'.p, scan'.lpNext} :
           Linked(s, x) /\ s.nCurPriority[x] = s.nCurPriority[scan'.lpHeadList]
      /\ \A t \in Threads : Linked(s, t) =>
           s.nCurPriority[scan'.lpHeadList] <= s.nCurPriority[t]
  BY <1>2, <1>3, <1>4, StartScanOK
<1>6. ScanOK'
  BY <1>2, <1>5 DEF ScanOK
<1> QED
  BY <1>1, <1>2, <1>4, <1>5, <1>6

\* A step that calls Schedule keeps the invariant: r is the run queue it is called
\* with, which differs from k at most in the current thread's state and ticks.
LEMMA ScheduleKeepsInvariant ==
  ASSUME IInv, ctx # "scan", NEW r, NEW dt, Schedule(r, dt),
         r \in RunQueueType, SameQueue(k, r),
         r.nSuspendCount = k.nSuspendCount, r.fault = k.fault,
         \A t \in Threads \ {cur} : r.dwState[t] = k.dwState[t],
         r.dwState[cur] \in Blocked => k.nSuspendCount[cur] = 0,
         r.dwState[cur] = "RUNNING" => k.nSuspendCount[cur] = 0,
         pc[cur] = "resume" \/ cur = InitThread => r.dwState[cur] = "RUNNING",
         dt \in [Threads -> Nat \cup {Off}],
         pc' \in [Threads -> PCs], pc'[InitThread] = "run",
         \A c \in Threads : pc'[c] = "resume" <=> pc[c] = "resume",
         arg' = arg, timer' \in [Threads -> Nat \cup {Off}]
  PROVE  IInv'
<1>0. /\ InitThread \in Threads /\ Controllers \subseteq Threads
      /\ cur \in Threads /\ k \in RunQueueType /\ arg \in [Threads -> Threads]
  BY RunQueueAssumption, SchedulerAssumption DEF IInv, TypeOK
<1>1. WellFormed(r) /\ \A t \in Threads : Linked(r, t) <=> Linked(k, t)
  BY SameQueueWellFormed DEF IInv
<1>2. Linked(r, cur) /\ r.dwState[InitThread] = "RUNNING" /\ PolicyOK
  BY <1>0, <1>1 DEF IInv, QueuedOK, InitThreadOK
<1>3. /\ WellFormed(k')
      /\ \A t \in Threads \ {cur} : Linked(k', t) <=> Linked(k, t)
      /\ Linked(k', cur) <=> k'.dwState[cur] = "RUNNING"
      /\ k'.nSuspendCount = k.nSuspendCount
      /\ k'.fault = k.fault
      /\ \A t \in Threads \ {cur} :
           \/ k'.dwState[t] = k.dwState[t]
           \/ k.dwState[t] = "ZOMBIE" /\ k'.dwState[t] = "FREE"
      /\ \/ k'.dwState[cur] = r.dwState[cur]
         \/ r.dwState[cur] = "INTERRUPTIBLE" /\ k'.dwState[cur] = "RUNNING"
         \/ r.dwState[cur] = "ZOMBIE" /\ k'.dwState[cur] # "RUNNING"
      /\ scan' \in ScanType
      /\ ScanOK'
  BY <1>0, <1>1, <1>2, ScheduleEffect
<1>4. /\ cur' = cur /\ ctx' = "scan" /\ fPolicy' = fPolicy
      /\ dwLostTicks' = dwLostTicks /\ pending' = pending
      /\ dwTimeout' \in [Threads -> Nat \cup {Off}]
  BY <1>0 DEF Schedule
<1>5. dwSignal' \in BOOLEAN
  BY Zenon DEF Schedule
<1>6. TypeOK'
  BY <1>0, <1>3, <1>4, <1>5 DEF IInv, TypeOK, WellFormed
<1>7. NoFault' /\ InitThreadOK' /\ PolicyOK'
  BY <1>0, <1>2, <1>3, <1>4 DEF IInv, NoFault, InitThreadOK, PolicyOK
<1>8. \A t \in Threads : BeingResumed(t)' <=> BeingResumed(t)
  BY <1>0 DEF BeingResumed
<1>9. ~BeingResumed(cur)
  BY <1>0 DEF IInv, BeingResumed, ResumeOK, QueuedOK
<1>10. QueuedOK'
  <2> SUFFICES ASSUME NEW t \in Threads
               PROVE  Linked(k', t) <=> (k'.dwState[t] = "RUNNING" /\ ~BeingResumed(t))
    BY <1>4, <1>8 DEF QueuedOK
  <2>1. CASE t = cur
    BY <1>3, <1>9, <2>1
  <2>2. CASE t # cur
    BY <1>3, <2>2 DEF IInv, QueuedOK
  <2> QED
    BY <2>1, <2>2
<1>11. ResumeOK'
  <2> SUFFICES ASSUME NEW c \in Threads, pc[c] = "resume"
               PROVE  /\ c \in Controllers
                      /\ k'.dwState[c] = "RUNNING"
                      /\ arg[c] # InitThread
                      /\ k'.dwState[arg[c]] = "RUNNING"
                      /\ ~Linked(k', arg[c])
    BY DEF ResumeOK
  <2>1. /\ c \in Controllers /\ arg[c] # InitThread /\ arg[c] \in Threads /\ arg[c] # cur
        /\ k.dwState[c] = "RUNNING" /\ k.dwState[arg[c]] = "RUNNING" /\ ~Linked(k, arg[c])
    BY <1>0 DEF IInv, ResumeOK, QueuedOK
  <2> QED
    BY <1>3, <2>1
<1>12. SuspendOK'
  BY <1>0, <1>3, <1>4 DEF IInv, SuspendOK, Blocked
<1> QED
  BY <1>3, <1>4, <1>6, <1>7, <1>10, <1>11, <1>12 DEF IInv, CurOK, ReschedOK

-----------------------------------------------------------------------------
(* The actions *)

LEMMA Basics ==
  ASSUME IInv
  PROVE  /\ InitThread \in Threads /\ InitThread \notin Controllers /\ NULL \notin Threads
         /\ Controllers \subseteq Threads
         /\ k \in RunQueueType /\ WellFormed(k) /\ cur \in Threads
         /\ arg \in [Threads -> Threads] /\ pc \in [Threads -> PCs]
         /\ ctx # "scan" => Linked(k, cur) /\ ~BeingResumed(cur)
  BY RunQueueAssumption, SchedulerAssumption
     DEF IInv, TypeOK, QueuedOK, BeingResumed, ResumeOK

\* Steps that leave the run queue, the threads' places and the policies alone.
LEMMA ContextSteps ==
  ASSUME IInv, TimersDone \/ DeviceInterrupt \/ InterruptExit
  PROVE  IInv'
<1>1. /\ k' = k /\ cur' = cur /\ ctx # "scan" /\ ctx' # "scan" /\ pc' = pc /\ arg' = arg
      /\ fPolicy' = fPolicy
      /\ ctx' \in {"thread", "isr", "timer", "scan"}
  BY DEF TimersDone, DeviceInterrupt, InterruptExit, NoFault, IInv
<1>2. TypeOK'
  BY <1>1 DEF IInv, TypeOK, TimersDone, DeviceInterrupt, InterruptExit
<1>3. \A t \in Threads : BeingResumed(t)' <=> BeingResumed(t)
  BY <1>1 DEF BeingResumed
<1> QED
  BY <1>1, <1>2, <1>3 DEF IInv, NoFault, InitThreadOK, QueuedOK, ResumeOK, SuspendOK, CurOK,
     ScanOK, ReschedOK, PolicyOK

LEMMA ScanStepOK ==
  ASSUME IInv, ScanStep
  PROVE  IInv'
<1> USE Basics
<1>1. /\ k' = k /\ cur' = cur /\ ctx = "scan" /\ ctx' = "scan" /\ pc' = pc /\ arg' = arg
      /\ fPolicy' = fPolicy /\ timer' = timer /\ dwTimeout' = dwTimeout
      /\ dwLostTicks' = dwLostTicks /\ pending' = pending /\ dwSignal' = dwSignal
  BY DEF ScanStep
<1>2. /\ scan \in ScanType
      /\ scan.p \in Threads /\ Linked(k, scan.p)
      /\ k.nCurPriority[scan.p] = k.nCurPriority[scan.lpHeadList]
  BY <1>1 DEF IInv, TypeOK, ScanType, ScanOK
<1>3. /\ k.lpNextRun[scan.p] \in Threads
      /\ Linked(k, k.lpNextRun[scan.p])
      /\ k.nCurPriority[k.lpNextRun[scan.p]] = k.nCurPriority[scan.p]
  BY <1>2 DEF WellFormed, LinksOK, Linked, RunQueueType
<1>4. lCurCount(scan.p) \in Int
  <2>1. k.nTickCount[scan.p] \in Nat /\ k.nBoost[scan.p] \in Nat
    BY <1>2 DEF RunQueueType
  <2> QED
    BY <2>1 DEF lCurCount
<1>5. /\ scan'.lpHeadList = scan.lpHeadList
      /\ scan'.p = k.lpNextRun[scan.p]
      /\ scan'.lpNext \in {scan.lpNext, scan.p}
      /\ scan' \in ScanType
  BY <1>2, <1>3, <1>4 DEF ScanStep, ScanType
<1>6. TypeOK'
  BY <1>1, <1>5 DEF IInv, TypeOK
<1>7. ScanOK'
  BY <1>1, <1>2, <1>3, <1>5 DEF IInv, ScanOK
<1>8. \A t \in Threads : BeingResumed(t)' <=> BeingResumed(t)
  BY <1>1 DEF BeingResumed
<1> QED
  BY <1>1, <1>6, <1>7, <1>8 DEF IInv, NoFault, InitThreadOK, QueuedOK, ResumeOK, SuspendOK,
     CurOK, ReschedOK, PolicyOK

\* Steps that give the current thread a new place and leave the run queue alone.
LEMMA PlaceSteps ==
  ASSUME IInv, SleepReturn \/ ExitThread
  PROVE  IInv'
<1> USE Basics
<1>1. /\ k' = k /\ cur' = cur /\ ctx = "thread" /\ ctx' = ctx /\ arg' = arg /\ scan' = scan
      /\ fPolicy' = fPolicy /\ dwTimeout' = dwTimeout
      /\ dwLostTicks' = dwLostTicks /\ pending' = pending /\ dwSignal' = dwSignal
      /\ pc[cur] \in {"slept", "run"}
      /\ pc[cur] = "run" => cur # InitThread
  BY DEF SleepReturn, ExitThread, Running, InUser
<1>2. /\ pc' = [pc EXCEPT ![cur] = "run"] \/ pc' = [pc EXCEPT ![cur] = "exiting"]
      /\ cur # InitThread
  BY <1>1 DEF SleepReturn, ExitThread, IInv, InitThreadOK
<1>3. timer' \in [Threads -> Nat \cup {Off}]
  BY DEF SleepReturn, ExitThread, IInv, TypeOK
<1>4. TypeOK'
  BY <1>1, <1>2, <1>3 DEF IInv, TypeOK, PCs
<1>5. \A c \in Threads : pc'[c] = "resume" <=> pc[c] = "resume"
  BY <1>1, <1>2
<1>6. \A t \in Threads : BeingResumed(t)' <=> BeingResumed(t)
  BY <1>1, <1>5 DEF BeingResumed
<1>7. k.dwState[cur] = "RUNNING"
  BY <1>1 DEF IInv, CurOK, ReadyPCs
<1>8. InitThreadOK' /\ ResumeOK' /\ CurOK'
  BY <1>1, <1>2, <1>5, <1>7 DEF IInv, InitThreadOK, ResumeOK, CurOK
<1> QED
  BY <1>1, <1>4, <1>6, <1>8 DEF IInv, NoFault, QueuedOK, SuspendOK, ScanOK, ReschedOK,
     PolicyOK

LEMMA SetThreadPolicyOK ==
  ASSUME IInv, NoRotation, NEW t \in Threads, NEW q \in Policies, SetThreadPolicy(t, q)
  PROVE  IInv'
<1> USE Basics
<1>1. /\ fPolicy' = [fPolicy EXCEPT ![t] = q]
      /\ UNCHANGED <<k, cur, ctx, scan, pc, arg, timer, dwTimeout, dwLostTicks, pending,
                     dwSignal>>
      /\ q \in {"OTHER", "FIFO", "ROTATION"} /\ q # "ROTATION"
  BY SchedulerAssumption DEF SetThreadPolicy, NoRotation
<1>2. TypeOK' /\ PolicyOK'
  BY <1>1 DEF IInv, TypeOK, PolicyOK
<1>3. \A u \in Threads : BeingResumed(u)' <=> BeingResumed(u)
  BY <1>1 DEF BeingResumed
<1> QED
  BY <1>1, <1>2, <1>3 DEF IInv, NoFault, InitThreadOK, QueuedOK, ResumeOK, SuspendOK, CurOK,
     ScanOK, ReschedOK

\* The next thread is one GetNextRun looked at.
LEMMA SwitchToOK ==
  ASSUME IInv, SwitchTo
  PROVE  IInv'
<1> USE Basics
<1> DEFINE n == scan.lpNext
           r == RenewTicks(k)
<1>1. /\ ctx = "scan" /\ ctx' = "thread" /\ cur' = n /\ scan' = NoScan
      /\ UNCHANGED <<pc, arg, fPolicy, timer, dwTimeout, dwLostTicks, pending, dwSignal>>
      /\ k' = SpendBoost(r, n)
  BY DEF SwitchTo
<1>2. /\ n \in Threads /\ Linked(k, n)
      /\ \A t \in Threads : Linked(k, t) => k.nCurPriority[n] <= k.nCurPriority[t]
  BY <1>1 DEF IInv, TypeOK, ScanType, ScanOK
<1>3. /\ r \in RunQueueType /\ SameQueue(k, r)
      /\ r.dwState = k.dwState
      /\ r.nSuspendCount = k.nSuspendCount
      /\ r.fault = k.fault
  <2>1. CASE scan.lCount # 0
    BY <2>1 DEF RenewTicks, SameQueue
  <2>2. CASE scan.lCount = 0
    <3> DEFINE f == [t \in Threads |->
                       IF t \in Ready(k, k.nCurPriority[scan.lpHeadList]) THEN nRotate(t)
                       ELSE k.nTickCount[t]]
    <3>1. r = [k EXCEPT !.nTickCount = f]
      BY <2>2 DEF RenewTicks
    <3>2. f \in [Threads -> Nat]
      BY RunQueueAssumption DEF RunQueueType, nRotate
    <3> HIDE DEF f, r
    <3> QED
      BY <3>1, <3>2 DEF RunQueueType, SameQueue
  <2> QED
    BY <2>1, <2>2
<1> HIDE DEF r, n
<1>4. /\ k' \in RunQueueType /\ SameQueue(r, k')
      /\ k'.dwState = r.dwState
      /\ k'.nSuspendCount = r.nSuspendCount
      /\ k'.fault = r.fault
  <2> DEFINE b == IF r.nBoost[n] > 0 THEN r.nBoost[n] - 1 ELSE r.nBoost[n]
  <2>1. k' = [r EXCEPT !.nBoost[n] = b]
    BY <1>1 DEF SpendBoost
  <2>2. b \in Nat
    <3>1. r.nBoost[n] \in Nat
      BY <1>2, <1>3 DEF RunQueueType
    <3> QED
      BY <3>1
  <2> HIDE DEF b
  <2> QED
    BY <1>2, <1>3, <2>1, <2>2 DEF RunQueueType, SameQueue
<1>5. SameQueue(k, k')
  BY <1>3, <1>4 DEF SameQueue
<1>6. WellFormed(k') /\ \A t \in Threads : Linked(k', t) <=> Linked(k, t)
  BY <1>4, <1>5, SameQueueWellFormed
<1>7. /\ k'.dwState = k.dwState /\ k'.nSuspendCount = k.nSuspendCount /\ k'.fault = k.fault
      /\ k'.nCurPriority = k.nCurPriority
  BY <1>3, <1>4, <1>5 DEF SameQueue
<1>8. TypeOK'
  BY <1>1, <1>2, <1>4 DEF IInv, TypeOK, NoScan, ScanType
<1>9. \A t \in Threads : BeingResumed(t)' <=> BeingResumed(t)
  BY <1>1 DEF BeingResumed
<1>10. k'.dwState[n] = "RUNNING" /\ k'.nSuspendCount[n] = 0
  BY <1>1, <1>2, <1>7 DEF IInv, QueuedOK, SuspendOK
<1>11. QueuedOK'
  BY <1>1, <1>2, <1>6, <1>7, <1>9 DEF IInv, QueuedOK
<1>12. NoFault' /\ InitThreadOK' /\ ResumeOK' /\ PolicyOK'
  BY <1>1, <1>6, <1>7 DEF IInv, NoFault, InitThreadOK, ResumeOK, PolicyOK
<1>13. SuspendOK' /\ CurOK' /\ ScanOK'
  BY <1>1, <1>7, <1>10 DEF IInv, SuspendOK, CurOK, ScanOK
<1>14. ReschedOK'
  BY <1>1, <1>2, <1>6, <1>7 DEF ReschedOK
<1> QED
  BY <1>6, <1>8, <1>11, <1>12, <1>13, <1>14 DEF IInv

\* Steps of the timer interrupt that only charge ticks and ask for a reschedule.
LEMMA QueueUntouched ==
  ASSUME IInv, ctx # "scan", ctx' # "scan", TypeOK', SameQueue(k, k'),
         k'.dwState = k.dwState, k'.nSuspendCount = k.nSuspendCount, k'.fault = k.fault,
         k.bNeedResched => k'.bNeedResched,
         cur' = cur, pc' = pc, arg' = arg, fPolicy' = fPolicy
  PROVE  IInv'
<1> USE Basics
<1>1. WellFormed(k') /\ \A t \in Threads : Linked(k', t) <=> Linked(k, t)
  BY SameQueueWellFormed DEF TypeOK
<1>2. \A t \in Threads : BeingResumed(t)' <=> BeingResumed(t)
  BY DEF BeingResumed
<1>3. QueuedOK' /\ ResumeOK'
  BY <1>1, <1>2 DEF IInv, QueuedOK, ResumeOK
<1>4. NoFault' /\ InitThreadOK' /\ SuspendOK' /\ CurOK' /\ ScanOK' /\ PolicyOK'
  BY DEF IInv, NoFault, InitThreadOK, SuspendOK, CurOK, ScanOK, PolicyOK
<1>5. ReschedOK'
  BY <1>1 DEF IInv, ReschedOK, SameQueue
<1> QED
  BY <1>1, <1>3, <1>4, <1>5 DEF IInv

LEMMA TickOK ==
  ASSUME IInv, Tick
  PROVE  IInv'
<1> USE Basics
<1>1. /\ ctx # "scan" /\ ctx' # "scan" /\ ctx' \in {"thread", "isr", "timer", "scan"}
      /\ UNCHANGED <<cur, scan, pc, arg, fPolicy, dwSignal>> /\ pending' = TRUE
      /\ k' = [k EXCEPT !.bNeedResched = TRUE]
  BY DEF Tick
<1>2. /\ timer' \in [Threads -> Nat \cup {Off}]
      /\ dwTimeout' \in [Threads -> Nat \cup {Off}]
      /\ dwLostTicks' \in Nat
  BY DEF Tick, IInv, TypeOK, Off
<1>3. k' \in RunQueueType
  BY <1>1, Zenon DEF RunQueueType
<1>4. /\ SameQueue(k, k') /\ k'.dwState = k.dwState
      /\ k'.nSuspendCount = k.nSuspendCount /\ k'.fault = k.fault
  BY <1>1 DEF RunQueueType, SameQueue
<1>5. k'.bNeedResched
  BY <1>1, Zenon DEF RunQueueType
<1>6. TypeOK'
  BY <1>1, <1>2, <1>3 DEF IInv, TypeOK
<1> QED
  BY <1>1, <1>4, <1>5, <1>6, QueueUntouched

LEMMA TimerISROK ==
  ASSUME IInv, TimerISR
  PROVE  IInv'
<1> USE Basics
<1>1. /\ ctx # "scan" /\ ctx' = "timer" /\ pending' = FALSE /\ dwLostTicks' = 0
      /\ UNCHANGED <<cur, scan, pc, arg, fPolicy, timer, dwTimeout, dwSignal>>
      /\ k' = ChargeTicks(k)
  BY DEF TimerISR
<1>2. /\ k' \in RunQueueType /\ SameQueue(k, k') /\ k'.dwState = k.dwState
      /\ k'.nSuspendCount = k.nSuspendCount /\ k'.fault = k.fault
      /\ k.bNeedResched => k'.bNeedResched
  <2>1. CASE fPolicy[cur] = "FIFO"
    BY <1>1, <2>1 DEF ChargeTicks, SameQueue
  <2>2. CASE fPolicy[cur] # "FIFO"
    <3> DEFINE n == IF k.nTickCount[cur] < dwLostTicks THEN 0
                    ELSE k.nTickCount[cur] - dwLostTicks
               b == k.bNeedResched \/ k.nTickCount[cur] < dwLostTicks
    <3>1. k' = [k EXCEPT !.nTickCount[cur] = n, !.bNeedResched = b]
      BY <1>1, <2>2 DEF ChargeTicks
    <3>2. n \in Nat
      <4>1. k.nTickCount[cur] \in Nat /\ dwLostTicks \in Nat
        BY DEF RunQueueType, IInv, TypeOK
      <4> QED
        BY <4>1
    <3>3. b \in BOOLEAN /\ (k.bNeedResched => b)
      BY Zenon
    <3> HIDE DEF n, b
    <3>4. [k.nTickCount EXCEPT ![cur] = n] \in [Threads -> Nat]
      BY <3>2 DEF RunQueueType
    <3>5. k' \in RunQueueType
      BY <3>1, <3>3, <3>4, Zenon DEF RunQueueType
    <3>6. k'.bNeedResched = b
      BY <3>1, Zenon DEF RunQueueType
    <3>7. /\ SameQueue(k, k') /\ k'.dwState = k.dwState
          /\ k'.nSuspendCount = k.nSuspendCount /\ k'.fault = k.fault
      BY <3>1 DEF RunQueueType, SameQueue
    <3> QED
      BY <3>3, <3>5, <3>6, <3>7
  <2> QED
    BY <2>1, <2>2
<1>3. TypeOK'
  BY <1>1, <1>2 DEF IInv, TypeOK
<1> QED
  BY <1>1, <1>2, <1>3, QueueUntouched

\* Steps by which the current thread changes its own state, before it calls Schedule or
\* after it came back.
LEMMA OwnState ==
  ASSUME IInv, ctx = "thread", ctx' = "thread", TypeOK', SameQueue(k, k'),
         k'.fault = k.fault, k.bNeedResched => k'.bNeedResched, cur # InitThread,
         cur' = cur, arg' = arg, fPolicy' = fPolicy, pc[cur] # "resume",
         NEW v, pc' = [pc EXCEPT ![cur] = v], v # "resume",
         \A t \in Threads \ {cur} : /\ k'.dwState[t] = k.dwState[t]
                                    /\ k'.nSuspendCount[t] = k.nSuspendCount[t],
         k'.dwState[cur] = "RUNNING" => k'.nSuspendCount[cur] = 0,
         k'.nSuspendCount[cur] # 0 => k'.dwState[cur] = "SUSPENDED",
         v \in ReadyPCs => k'.dwState[cur] = "RUNNING",
         k'.dwState[cur] = "SUSPENDED" => v = "suspend"
  PROVE  IInv'
<1> USE Basics
<1>1. WellFormed(k') /\ \A t \in Threads : Linked(k', t) <=> Linked(k, t)
  BY SameQueueWellFormed DEF TypeOK
<1>2. \A c \in Threads : pc'[c] = "resume" <=> pc[c] = "resume"
  OBVIOUS
<1>3. \A t \in Threads : BeingResumed(t)' <=> BeingResumed(t)
  BY <1>2 DEF BeingResumed
<1>4. QueuedOK'
  BY <1>1, <1>3 DEF IInv, QueuedOK
<1>5. ResumeOK'
  <2> SUFFICES ASSUME NEW c \in Threads, pc[c] = "resume"
               PROVE  /\ c \in Controllers
                      /\ k'.dwState[c] = "RUNNING"
                      /\ arg[c] # InitThread
                      /\ k'.dwState[arg[c]] = "RUNNING"
                      /\ ~Linked(k', arg[c])
    BY <1>2 DEF ResumeOK
  <2>1. /\ c \in Controllers /\ arg[c] # InitThread /\ arg[c] \in Threads /\ c # cur
        /\ k.dwState[c] = "RUNNING" /\ k.dwState[arg[c]] = "RUNNING" /\ ~Linked(k, arg[c])
    BY DEF IInv, ResumeOK
  <2>2. arg[c] # cur
    BY <2>1
  <2> QED
    BY <1>1, <2>1, <2>2
<1>6. NoFault' /\ InitThreadOK' /\ SuspendOK' /\ CurOK' /\ ScanOK' /\ PolicyOK'
  BY DEF IInv, NoFault, InitThreadOK, SuspendOK, CurOK, ScanOK, PolicyOK
<1>7. ReschedOK'
  BY <1>1 DEF IInv, ReschedOK, SameQueue
<1> QED
  BY <1>1, <1>4, <1>5, <1>6, <1>7 DEF IInv

LEMMA SuspendSelfOK ==
  ASSUME IInv, SuspendSelf
  PROVE  IInv'
<1> USE Basics
<1> DEFINE n == k.nSuspendCount[cur] + 1
<1>1. /\ ctx = "thread" /\ ctx' = ctx /\ cur # InitThread /\ pc[cur] = "run"
      /\ UNCHANGED <<cur, scan, arg, fPolicy, timer, dwTimeout, dwLostTicks, pending, dwSignal>>
      /\ pc' = [pc EXCEPT ![cur] = "suspend"]
      /\ k' = [k EXCEPT !.nSuspendCount[cur] = n, !.dwState[cur] = "SUSPENDED"]
  BY DEF SuspendSelf, InUser, Running
<1>2. n \in Nat
  <2>1. k.nSuspendCount[cur] \in Nat
    BY DEF RunQueueType
  <2> QED
    BY <2>1
<1> HIDE DEF n
<1>3. /\ k' \in RunQueueType /\ SameQueue(k, k')
      /\ k'.fault = k.fault /\ k'.bNeedResched = k.bNeedResched
      /\ k'.dwState = [k.dwState EXCEPT ![cur] = "SUSPENDED"]
      /\ k'.nSuspendCount = [k.nSuspendCount EXCEPT ![cur] = n]
  BY <1>1, <1>2 DEF RunQueueType, SameQueue, States
<1>4. /\ \A t \in Threads \ {cur} : /\ k'.dwState[t] = k.dwState[t]
                                    /\ k'.nSuspendCount[t] = k.nSuspendCount[t]
      /\ k'.dwState[cur] = "SUSPENDED"
  BY <1>3 DEF RunQueueType
<1>5. TypeOK'
  BY <1>1, <1>3 DEF IInv, TypeOK, PCs
<1> QED
  BY <1>1, <1>3, <1>4, <1>5, OwnState DEF ReadyPCs

LEMMA SleepOK ==
  ASSUME IInv, NEW n \in Sleeps \cup {Off}, Sleep(n)
  PROVE  IInv'
<1> USE Basics
<1> DEFINE d == IF n = 0 THEN "INTERRUPTIBLE" ELSE "UNINTERRUPTIBLE"
           x == IF n = 0 THEN 0 ELSE k.nTickCount[cur]
           y == IF n = 0 THEN 0 ELSE k.nBoost[cur]
<1>1. /\ ctx = "thread" /\ ctx' = ctx /\ cur # InitThread /\ pc[cur] = "run"
      /\ UNCHANGED <<cur, scan, arg, fPolicy, dwLostTicks, pending, dwSignal>>
      /\ pc' = [pc EXCEPT ![cur] = "sleep"]
      /\ timer' = [timer EXCEPT ![cur] = n]
      /\ dwTimeout' = [dwTimeout EXCEPT ![cur] = IF n = Off THEN @ ELSE n]
      /\ k' = [k EXCEPT !.dwState[cur] = d, !.nTickCount[cur] = x, !.nBoost[cur] = y]
  BY DEF Sleep, InUser, Running
<1>2. /\ n \in Nat \cup {Off} /\ d \in States /\ d \notin {"RUNNING", "SUSPENDED"}
      /\ x \in Nat /\ y \in Nat
  BY SchedulerAssumption DEF RunQueueType, States
<1> HIDE DEF d, x, y
<1>3. /\ k' \in RunQueueType /\ SameQueue(k, k')
      /\ k'.fault = k.fault /\ k'.bNeedResched = k.bNeedResched
      /\ k'.dwState = [k.dwState EXCEPT ![cur] = d]
      /\ k'.nSuspendCount = k.nSuspendCount
  BY <1>1, <1>2 DEF RunQueueType, SameQueue
<1>4. /\ \A t \in Threads \ {cur} : /\ k'.dwState[t] = k.dwState[t]
                                    /\ k'.nSuspendCount[t] = k.nSuspendCount[t]
      /\ k'.dwState[cur] = d
  BY <1>3 DEF RunQueueType
<1>5. /\ timer' \in [Threads -> Nat \cup {Off}]
      /\ dwTimeout' \in [Threads -> Nat \cup {Off}]
  BY <1>1, <1>2 DEF IInv, TypeOK
<1>6. TypeOK'
  BY <1>1, <1>3, <1>5 DEF IInv, TypeOK, PCs
<1>7. k'.nSuspendCount[cur] = 0
  BY <1>1, <1>3 DEF IInv, CurOK, SuspendOK, ReadyPCs
<1> QED
  BY <1>1, <1>2, <1>3, <1>4, <1>6, <1>7, OwnState DEF ReadyPCs

LEMMA WaitReturnOK ==
  ASSUME IInv, WaitReturn
  PROVE  IInv'
<1> USE Basics
<1>1. /\ ctx = "thread" /\ ctx' = ctx /\ pc[cur] = "waited"
      /\ UNCHANGED <<cur, scan, arg, fPolicy, dwLostTicks, pending, dwSignal>>
      /\ pc' = [pc EXCEPT ![cur] = "run"]
      /\ timer' = [timer EXCEPT ![cur] = Off]
      /\ dwTimeout' = [dwTimeout EXCEPT ![cur] = Off]
      /\ k' = [k EXCEPT !.dwState[cur] = "RUNNING"]
  BY DEF WaitReturn, Running
<1>2. cur # InitThread /\ k.nSuspendCount[cur] = 0
  BY <1>1 DEF IInv, InitThreadOK, CurOK, SuspendOK, ReadyPCs
<1>3. /\ k' \in RunQueueType /\ SameQueue(k, k')
      /\ k'.fault = k.fault /\ k'.bNeedResched = k.bNeedResched
      /\ k'.dwState = [k.dwState EXCEPT ![cur] = "RUNNING"]
      /\ k'.nSuspendCount = k.nSuspendCount
  BY <1>1 DEF RunQueueType, SameQueue, States
<1>4. /\ \A t \in Threads \ {cur} : /\ k'.dwState[t] = k.dwState[t]
                                    /\ k'.nSuspendCount[t] = k.nSuspendCount[t]
      /\ k'.dwState[cur] = "RUNNING"
  BY <1>3 DEF RunQueueType
<1>5. TypeOK'
  BY <1>1, <1>3 DEF IInv, TypeOK, PCs
<1> QED
  BY <1>1, <1>2, <1>3, <1>4, <1>5, OwnState DEF ReadyPCs

LEMMA BecomeZombieOK ==
  ASSUME IInv, BecomeZombie
  PROVE  IInv'
<1> USE Basics
<1>1. /\ ctx = "thread" /\ ctx' = ctx /\ pc[cur] = "exiting"
      /\ UNCHANGED <<cur, scan, arg, fPolicy, dwTimeout, dwLostTicks, pending>>
      /\ pc' = [pc EXCEPT ![cur] = "zombie"]
      /\ timer' = [timer EXCEPT ![cur] = Off]
      /\ dwSignal' = TRUE
      /\ k' = [k EXCEPT !.nTickCount[InitThread] = 1, !.dwState[cur] = "ZOMBIE"]
  BY DEF BecomeZombie, Running
<1>2. cur # InitThread /\ k.nSuspendCount[cur] = 0
  BY <1>1 DEF IInv, InitThreadOK, CurOK, SuspendOK, ReadyPCs
<1>3. /\ k' \in RunQueueType /\ SameQueue(k, k')
      /\ k'.fault = k.fault /\ k'.bNeedResched = k.bNeedResched
      /\ k'.dwState = [k.dwState EXCEPT ![cur] = "ZOMBIE"]
      /\ k'.nSuspendCount = k.nSuspendCount
  BY <1>1 DEF RunQueueType, SameQueue, States
<1>4. /\ \A t \in Threads \ {cur} : /\ k'.dwState[t] = k.dwState[t]
                                    /\ k'.nSuspendCount[t] = k.nSuspendCount[t]
      /\ k'.dwState[cur] = "ZOMBIE"
  BY <1>3 DEF RunQueueType
<1>5. TypeOK'
  BY <1>1, <1>3 DEF IInv, TypeOK, PCs
<1> QED
  BY <1>1, <1>2, <1>3, <1>4, <1>5, OwnState DEF ReadyPCs

\* Preempt, CpuIdle, CallSchedule and Wait end in Schedule.
LEMMA ReclaimOK ==
  ASSUME IInv, pc' = Reclaim(pc, "none")
  PROVE  /\ pc' \in [Threads -> PCs]
         /\ pc'[InitThread] = "run"
         /\ \A c \in Threads : pc'[c] = "resume" <=> pc[c] = "resume"
<1> USE Basics
<1>1. pc[InitThread] = "run" /\ k.dwState[InitThread] = "RUNNING"
  BY DEF IInv, InitThreadOK
<1>2. \A c \in Threads : pc[c] = "resume" => k.dwState[c] = "RUNNING"
  BY DEF IInv, ResumeOK
<1>3. CASE ~Reaps
  <2>1. pc' = pc
    BY <1>3 DEF Reclaim
  <2> QED
    BY <1>1, <2>1
<1>4. CASE Reaps
  <2>1. pc' = [t \in Threads |-> IF k.dwState[t] = "ZOMBIE" THEN "none" ELSE pc[t]]
    BY <1>4 DEF Reclaim
  <2> QED
    BY <1>1, <1>2, <2>1 DEF PCs
<1> QED
  BY <1>3, <1>4

\* What the invariant says of a current thread that calls Schedule as it is.
LEMMA CallerOK ==
  ASSUME IInv, ctx # "scan"
  PROVE  /\ k.dwState[cur] \in Blocked => k.nSuspendCount[cur] = 0
         /\ k.dwState[cur] = "RUNNING" => k.nSuspendCount[cur] = 0
         /\ pc[cur] = "resume" \/ cur = InitThread => k.dwState[cur] = "RUNNING"
         /\ SameQueue(k, k)
         /\ dwTimeout \in [Threads -> Nat \cup {Off}]
         /\ timer \in [Threads -> Nat \cup {Off}]
  BY Basics DEF IInv, TypeOK, SuspendOK, CurOK, ReadyPCs, Blocked, InitThreadOK, SameQueue

LEMMA PreemptOK ==
  ASSUME IInv, Preempt
  PROVE  IInv'
<1> USE Basics
<1>1. ctx # "scan" /\ Schedule(k, dwTimeout) /\ pc' = Reclaim(pc, "none")
      /\ arg' = arg /\ timer' = timer
  BY DEF Preempt
<1> QED
  BY <1>1, CallerOK, ReclaimOK, ScheduleKeepsInvariant

LEMMA CallScheduleOK ==
  ASSUME IInv, CallSchedule
  PROVE  IInv'
<1> USE Basics
<1>1. ctx # "scan" /\ Schedule(k, dwTimeout) /\ arg' = arg /\ timer' = timer
      /\ pc[cur] \in {"suspend", "sleep", "zombie"}
  BY DEF CallSchedule, Running
<1>2. cur # InitThread
  BY <1>1 DEF IInv, InitThreadOK
<1>3. pc' = [pc EXCEPT ![cur] = CASE @ = "suspend" -> "run" [] @ = "sleep" -> "slept"
                                   [] OTHER -> @]
  BY DEF CallSchedule
<1>4. PICK v : v \in {"run", "slept", "zombie"} /\ pc' = [pc EXCEPT ![cur] = v]
  BY <1>1, <1>3
<1>5. /\ pc' \in [Threads -> PCs]
      /\ pc'[InitThread] = "run"
      /\ \A c \in Threads : pc'[c] = "resume" <=> pc[c] = "resume"
  BY <1>1, <1>2, <1>4 DEF PCs, IInv, InitThreadOK
<1> QED
  BY <1>1, <1>5, CallerOK, ScheduleKeepsInvariant

LEMMA CpuIdleOK ==
  ASSUME IInv, CpuIdle
  PROVE  IInv'
<1> USE Basics
<1> DEFINE r == [k EXCEPT !.nTickCount[cur] = 0]
<1>1. /\ ctx = "thread" /\ cur = InitThread /\ arg' = arg /\ timer' = timer
      /\ pc[cur] = "run"
  BY DEF CpuIdle, InUser, Running
<1>2. /\ r \in RunQueueType /\ SameQueue(k, r)
      /\ r.dwState = k.dwState /\ r.nSuspendCount = k.nSuspendCount /\ r.fault = k.fault
      /\ r.bNeedResched = k.bNeedResched
  BY DEF RunQueueType, SameQueue
<1>3. CASE dwSignal
  <2>1. Schedule(r, dwTimeout) /\ pc' = Reclaim(pc, "none")
    BY <1>3 DEF CpuIdle
  <2> HIDE DEF r
  <2> QED
    BY <1>1, <1>2, <2>1, CallerOK, ReclaimOK, ScheduleKeepsInvariant
<1>4. CASE ~dwSignal
  <2>1. /\ k' = r
        /\ UNCHANGED <<cur, ctx, scan, pc, fPolicy, dwTimeout, dwLostTicks, pending, dwSignal>>
    BY <1>4 DEF CpuIdle
  <2> HIDE DEF r
  <2>2. TypeOK'
    BY <1>1, <1>2, <2>1 DEF IInv, TypeOK
  <2> QED
    BY <1>1, <1>2, <2>1, <2>2, QueueUntouched
<1> QED
  BY <1>3, <1>4

LEMMA WaitOK ==
  ASSUME IInv, NEW n \in Sleeps \cup {Off}, Wait(n)
  PROVE  IInv'
<1> USE Basics
<1> DEFINE d == IF n = Off THEN "UNINTERRUPTIBLE" ELSE "INTERRUPTIBLE"
           r == [k EXCEPT !.dwState[cur] = d]
           dt == [dwTimeout EXCEPT ![cur] = IF n = Off THEN @ ELSE n]
<1>1. /\ ctx = "thread" /\ cur # InitThread /\ pc[cur] = "run" /\ arg' = arg
      /\ timer' = [timer EXCEPT ![cur] = n]
      /\ pc' = [pc EXCEPT ![cur] = "waited"]
      /\ Schedule(r, dt)
  BY DEF Wait, InUser, Running
<1>2. n \in Nat \cup {Off} /\ d \in Blocked /\ d \in States
  BY SchedulerAssumption DEF Blocked, States
<1>3. dt \in [Threads -> Nat \cup {Off}] /\ timer' \in [Threads -> Nat \cup {Off}]
  BY <1>1, <1>2 DEF IInv, TypeOK
<1> HIDE DEF d
<1>4. /\ r \in RunQueueType /\ SameQueue(k, r)
      /\ r.dwState = [k.dwState EXCEPT ![cur] = d]
      /\ r.nSuspendCount = k.nSuspendCount /\ r.fault = k.fault
  BY <1>2 DEF RunQueueType, SameQueue
<1> HIDE DEF r, dt
<1>5. /\ r.dwState[cur] = d
      /\ \A t \in Threads \ {cur} : r.dwState[t] = k.dwState[t]
  BY <1>4 DEF RunQueueType
<1>6. k.nSuspendCount[cur] = 0
  BY <1>1 DEF IInv, CurOK, SuspendOK, ReadyPCs
<1>7. /\ pc' \in [Threads -> PCs]
      /\ pc'[InitThread] = "run"
      /\ \A c \in Threads : pc'[c] = "resume" <=> pc[c] = "resume"
  BY <1>1 DEF PCs, IInv, InitThreadOK
<1>8. pc[cur] = "resume" \/ cur = InitThread => r.dwState[cur] = "RUNNING"
  BY <1>1
<1> QED
  BY <1>1, <1>3, <1>4, <1>5, <1>6, <1>7, <1>8, ScheduleKeepsInvariant

\* Steps that change the run queue, the state or the priority of one thread t other
\* than the current one, and leave t queued exactly when it is ready.
LEMMA OtherThread ==
  ASSUME IInv, ctx # "scan", ctx' = ctx, cur' = cur, TypeOK', WellFormed(k'), PolicyOK',
         k'.fault = k.fault,
         NEW t \in Threads \ {cur, InitThread},
         \A u \in Threads \ {t} : /\ Linked(k', u) <=> Linked(k, u)
                                  /\ k'.dwState[u] = k.dwState[u]
                                  /\ k'.nSuspendCount[u] = k.nSuspendCount[u]
                                  /\ k'.nCurPriority[u] = k.nCurPriority[u]
                                  /\ BeingResumed(u)' <=> BeingResumed(u),
         ~BeingResumed(t)',
         Linked(k', t) <=> k'.dwState[t] = "RUNNING",
         k'.dwState[t] = "RUNNING" => k'.nSuspendCount[t] = 0,
         k.bNeedResched => k'.bNeedResched,
         Linked(k', t) => k'.bNeedResched \/ k'.nCurPriority[cur] <= k'.nCurPriority[t],
         \A c \in Threads : pc'[c] = "resume" =>
           pc[c] = "resume" /\ arg'[c] = arg[c] /\ c # t /\ arg[c] # t,
         pc'[InitThread] = "run", pc'[cur] = pc[cur] \/ pc'[cur] = "run",
         pc'[cur] \in ReadyPCs => pc[cur] \in ReadyPCs
  PROVE  IInv'
<1> USE Basics
<1>1. QueuedOK'
  BY DEF IInv, QueuedOK
<1>2. ResumeOK'
  <2> SUFFICES ASSUME NEW c \in Threads, pc'[c] = "resume"
               PROVE  /\ c \in Controllers
                      /\ k'.dwState[c] = "RUNNING"
                      /\ arg'[c] # InitThread
                      /\ k'.dwState[arg'[c]] = "RUNNING"
                      /\ ~Linked(k', arg'[c])
    BY DEF ResumeOK
  <2>1. /\ c \in Controllers /\ arg[c] # InitThread /\ arg[c] \in Threads
        /\ k.dwState[c] = "RUNNING" /\ k.dwState[arg[c]] = "RUNNING" /\ ~Linked(k, arg[c])
        /\ c # t /\ arg[c] # t /\ arg'[c] = arg[c]
    BY DEF IInv, ResumeOK
  <2> QED
    BY <2>1
<1>3. NoFault' /\ InitThreadOK' /\ SuspendOK'
  BY DEF IInv, NoFault, InitThreadOK, SuspendOK
<1>4. CurOK'
  BY DEF IInv, CurOK, ReadyPCs
<1>5. ScanOK'
  BY DEF ScanOK
<1>6. ReschedOK'
  <2> SUFFICES ASSUME ~k'.bNeedResched, NEW u \in Threads, Linked(k', u)
               PROVE  k'.nCurPriority[cur] <= k'.nCurPriority[u]
    BY DEF ReschedOK
  <2>1. CASE u = t
    BY <2>1
  <2>2. CASE u # t
    BY <2>2 DEF IInv, ReschedOK
  <2> QED
    BY <2>1, <2>2
<1> QED
  BY <1>1, <1>2, <1>3, <1>4, <1>5, <1>6 DEF IInv

\* With one controller, nobody is being resumed while the controller makes a call.
LEMMA NothingResumed ==
  ASSUME IInv, SingleController, cur \in Controllers, pc[cur] = "run"
  PROVE  /\ \A c \in Threads : pc[c] # "resume"
         /\ \A u \in Threads : ~BeingResumed(u)
  BY Basics DEF IInv, ResumeOK, SingleController, BeingResumed

\* _WakeupThread of a thread that is on no ring.
LEMMA WakeupUnlinked ==
  ASSUME NEW r, WellFormed(r), NEW t \in Threads, ~Linked(r, t), NEW b \in BOOLEAN,
         NEW c \in Threads
  PROVE  LET w == WakeupThread(r, t, b, c)
         IN  /\ WellFormed(w)
             /\ \A u \in Threads \ {t} : /\ Linked(w, u) <=> Linked(r, u)
                                         /\ w.dwState[u] = r.dwState[u]
             /\ Linked(w, t) <=> w.dwState[t] = "RUNNING"
             /\ w.dwState[t] = "RUNNING" => r.nSuspendCount[t] = 0
             /\ w.nCurPriority = r.nCurPriority
             /\ w.nSuspendCount = r.nSuspendCount
             /\ w.fault = r.fault
             /\ r.bNeedResched => w.bNeedResched
             /\ Linked(w, t) => w.bNeedResched \/ w.nCurPriority[c] <= w.nCurPriority[t]
<1> DEFINE n == IF b THEN r.nBoost[t] + 1 ELSE r.nBoost[t]
           m == [r EXCEPT !.dwState[t] = "RUNNING", !.nBoost[t] = n]
           w == AddToRunQueue(m, t, c)
<1>0. r \in RunQueueType
  BY DEF WellFormed
<1>1. WakeupThread(r, t, b, c) = w
  <2> DEFINE q == [r EXCEPT !.dwState[t] = "RUNNING"]
  <2>1. q.lpNextRun = r.lpNextRun /\ q.nBoost = r.nBoost /\ q \in RunQueueType
    BY <1>0 DEF RunQueueType, States
  <2>2. [q EXCEPT !.nBoost[t] = IF b THEN @ + 1 ELSE @] = m
    BY <1>0, <2>1
  <2> QED
    BY <2>1, <2>2 DEF WakeupThread, Linked
<1>2. n \in Nat
  <2>1. r.nBoost[t] \in Nat
    BY <1>0 DEF RunQueueType
  <2> QED
    BY <2>1
<1> HIDE DEF n
<1>3. /\ m \in RunQueueType /\ SameQueue(r, m)
      /\ m.dwState = [r.dwState EXCEPT ![t] = "RUNNING"]
      /\ m.nSuspendCount = r.nSuspendCount
      /\ m.fault = r.fault
      /\ m.bNeedResched = r.bNeedResched
  BY <1>0, <1>2 DEF RunQueueType, SameQueue, States
<1> HIDE DEF m
<1>4. WellFormed(m) /\ \A u \in Threads : Linked(m, u) <=> Linked(r, u)
  BY <1>3, SameQueueWellFormed
<1>5. /\ \A u \in Threads \ {t} : m.dwState[u] = r.dwState[u]
      /\ m.dwState[t] = "RUNNING"
      /\ m.nCurPriority = r.nCurPriority /\ m.dwState \in [Threads -> States]
  BY <1>0, <1>3 DEF RunQueueType, SameQueue
<1>6. m.nCurPriority[t] \in Int /\ m.nCurPriority[c] \in Int
  BY <1>3, RunQueueAssumption DEF RunQueueType, Priorities
<1>7. CASE r.nSuspendCount[t] = 0
  <2>1. ~Linked(m, t) /\ m.nSuspendCount[t] = 0
    BY <1>3, <1>4, <1>7
  <2>2. /\ WellFormed(w)
        /\ \A u \in Threads : Linked(w, u) <=> Linked(m, u) \/ u = t
        /\ w.nCurPriority = m.nCurPriority
        /\ w.dwState = m.dwState
        /\ w.nSuspendCount = m.nSuspendCount
        /\ w.fault = m.fault
        /\ w.bNeedResched <=> m.bNeedResched \/ m.nCurPriority[t] <= m.nCurPriority[c]
    BY <1>4, <2>1, AddQueues
  <2> HIDE DEF w
  <2> QED
    BY <1>1, <1>3, <1>4, <1>5, <1>6, <1>7, <2>2
<1>8. CASE r.nSuspendCount[t] # 0
  <2>1. m.nSuspendCount[t] # 0
    BY <1>3, <1>8
  <2>2. /\ WellFormed(w)
        /\ \A u \in Threads : Linked(w, u) <=> Linked(m, u)
        /\ w.nCurPriority = m.nCurPriority
        /\ w.dwState = [m.dwState EXCEPT ![t] = "SUSPENDED"]
        /\ w.nSuspendCount = m.nSuspendCount
        /\ w.fault = m.fault
        /\ w.bNeedResched = m.bNeedResched
    BY <1>4, <2>1, AddMarks
  <2>3. /\ \A u \in Threads \ {t} : w.dwState[u] = m.dwState[u]
        /\ w.dwState[t] = "SUSPENDED"
    BY <1>5, <2>2
  <2> HIDE DEF w
  <2> QED
    BY <1>1, <1>3, <1>4, <1>5, <2>2, <2>3
<1> QED
  BY <1>7, <1>8

\* WakeupThread of a blocked thread other than the current one, by whatever context.
LEMMA WakeupOther ==
  ASSUME IInv, ctx # "scan", ctx' = ctx, cur' = cur, pc' = pc, arg' = arg,
         fPolicy' = fPolicy, scan' = scan, pending' = pending,
         dwLostTicks' = dwLostTicks, dwSignal' = dwSignal,
         timer' \in [Threads -> Nat \cup {Off}], dwTimeout' \in [Threads -> Nat \cup {Off}],
         NEW t \in Threads \ {cur}, k.dwState[t] \in Blocked,
         NEW b \in BOOLEAN, k' = WakeupThread(k, t, b, cur)
  PROVE  IInv'
<1> USE Basics
<1>1. /\ t # InitThread /\ ~Linked(k, t) /\ ~BeingResumed(t)
      /\ \A c \in Threads : pc[c] = "resume" => c # t /\ arg[c] # t
  BY DEF IInv, InitThreadOK, QueuedOK, ResumeOK, BeingResumed, Blocked
<1>2. /\ WellFormed(k')
      /\ \A u \in Threads \ {t} : /\ Linked(k', u) <=> Linked(k, u)
                                  /\ k'.dwState[u] = k.dwState[u]
      /\ Linked(k', t) <=> k'.dwState[t] = "RUNNING"
      /\ k'.dwState[t] = "RUNNING" => k.nSuspendCount[t] = 0
      /\ k'.nCurPriority = k.nCurPriority
      /\ k'.nSuspendCount = k.nSuspendCount
      /\ k'.fault = k.fault
      /\ k.bNeedResched => k'.bNeedResched
      /\ Linked(k', t) => k'.bNeedResched \/ k'.nCurPriority[cur] <= k'.nCurPriority[t]
  BY <1>1, WakeupUnlinked
<1>3. \A u \in Threads : BeingResumed(u)' <=> BeingResumed(u)
  BY DEF BeingResumed
<1>4. TypeOK' /\ PolicyOK'
  BY <1>2 DEF IInv, TypeOK, WellFormed, PolicyOK
<1>5. pc'[InitThread] = "run"
  BY DEF IInv, InitThreadOK
<1> QED
  BY <1>1, <1>2, <1>3, <1>4, <1>5, OtherThread

LEMMA WakeupOK ==
  ASSUME IInv, NEW t \in Threads, Wakeup(t)
  PROVE  IInv'
<1> USE Basics
<1>1. /\ ctx \in {"thread", "isr"} /\ pc[t] = "waited" /\ k.dwState[t] \in Blocked
      /\ k' = WakeupThread(k, t, TRUE, cur)
      /\ UNCHANGED <<cur, ctx, scan, pc, arg, fPolicy, timer, dwTimeout, dwLostTicks, pending,
                     dwSignal>>
  BY DEF Wakeup, InUser, Running
<1>2. t # cur
  BY <1>1 DEF IInv, CurOK, ReadyPCs, Blocked
<1>3. /\ timer' \in [Threads -> Nat \cup {Off}]
      /\ dwTimeout' \in [Threads -> Nat \cup {Off}]
  BY <1>1 DEF IInv, TypeOK
<1> QED
  BY <1>1, <1>2, <1>3, WakeupOther

LEMMA FireTimerOK ==
  ASSUME IInv, NEW t \in Threads, FireTimer(t)
  PROVE  IInv'
<1> USE Basics
<1>1. /\ ctx = "timer" /\ ctx' = ctx
      /\ k' = ThreadTimeout(k, t)
      /\ UNCHANGED <<cur, scan, pc, arg, fPolicy, dwLostTicks, pending, dwSignal>>
  BY DEF FireTimer
<1>2. /\ timer' \in [Threads -> Nat \cup {Off}]
      /\ dwTimeout' \in [Threads -> Nat \cup {Off}]
  BY DEF FireTimer, IInv, TypeOK
<1>3. CASE k.dwState[t] \notin Blocked
  <2>1. k' = k
    BY <1>1, <1>3 DEF ThreadTimeout
  <2>2. TypeOK'
    BY <1>1, <1>2, <2>1 DEF IInv, TypeOK
  <2> QED
    BY <1>1, <2>1, <2>2, QueueUntouched DEF SameQueue
<1>4. CASE k.dwState[t] \in Blocked /\ t # cur
  BY <1>1, <1>2, <1>4, WakeupOther DEF ThreadTimeout
<1>5. CASE k.dwState[t] \in Blocked /\ t = cur
  <2>1. k' = [k EXCEPT !.dwState[cur] = "RUNNING"]
    <3> DEFINE r == [k EXCEPT !.dwState[cur] = "RUNNING"]
    <3>1. r.lpNextRun = k.lpNextRun
      BY DEF RunQueueType
    <3> QED
      BY <1>1, <1>5, <3>1 DEF ThreadTimeout, WakeupThread, Linked
  <2>2. /\ k' \in RunQueueType /\ SameQueue(k, k')
        /\ k'.nSuspendCount = k.nSuspendCount /\ k'.fault = k.fault
        /\ k'.bNeedResched = k.bNeedResched
        /\ k'.dwState = [k.dwState EXCEPT ![cur] = "RUNNING"]
    BY <2>1 DEF RunQueueType, SameQueue, States
  <2>3. /\ \A u \in Threads \ {cur} : k'.dwState[u] = k.dwState[u]
        /\ k'.dwState[cur] = "RUNNING"
    BY <2>2 DEF RunQueueType
  <2>4. WellFormed(k') /\ \A u \in Threads : Linked(k', u) <=> Linked(k, u)
    BY <2>2, SameQueueWellFormed
  <2>5. cur # InitThread /\ k.nSuspendCount[cur] = 0 /\ pc[cur] # "resume"
    BY <1>1, <1>5 DEF IInv, InitThreadOK, SuspendOK, CurOK, ReadyPCs, Blocked
  <2>6. TypeOK'
    BY <1>1, <1>2, <2>2 DEF IInv, TypeOK
  <2>7. \A u \in Threads : BeingResumed(u)' <=> BeingResumed(u)
    BY <1>1 DEF BeingResumed
  <2>8. QueuedOK' /\ ResumeOK'
    BY <1>1, <2>3, <2>4, <2>7 DEF IInv, QueuedOK, ResumeOK
  <2>9. NoFault' /\ InitThreadOK' /\ PolicyOK' /\ ScanOK'
    BY <1>1, <2>2, <2>3, <2>5 DEF IInv, NoFault, InitThreadOK, PolicyOK, ScanOK
  <2>10. SuspendOK' /\ CurOK'
    BY <1>1, <2>2, <2>3, <2>5 DEF IInv, SuspendOK, CurOK
  <2>11. ReschedOK'
    BY <1>1, <2>2, <2>4 DEF IInv, ReschedOK, SameQueue
  <2> QED
    BY <2>4, <2>6, <2>8, <2>9, <2>10, <2>11 DEF IInv
<1> QED
  BY <1>3, <1>4, <1>5

LEMMA CreateThreadOK ==
  ASSUME IInv, SingleController, NEW t \in Threads, CreateThread(t)
  PROVE  IInv'
<1> USE Basics
<1>1. /\ ctx = "thread" /\ ctx' = ctx /\ cur \in Controllers /\ pc[cur] = "run"
      /\ k.dwState[t] = "FREE"
      /\ k' = InitThreadData(k, t, "SUSPENDED", 1)
      /\ pc' = [pc EXCEPT ![t] = "run"]
      /\ fPolicy' = [fPolicy EXCEPT ![t] = "OTHER"]
      /\ UNCHANGED <<cur, scan, arg, timer, dwTimeout, dwLostTicks, pending, dwSignal>>
  BY DEF CreateThread, InUser, Running
<1>2. /\ t # cur /\ t # InitThread /\ ~Linked(k, t)
  BY <1>1 DEF IInv, CurOK, ReadyPCs, InitThreadOK, QueuedOK
<1>3. /\ WellFormed(k')
      /\ \A u \in Threads : Linked(k', u) <=> Linked(k, u)
      /\ k'.nCurPriority = [k.nCurPriority EXCEPT ![t] = DEF_PRIORITY]
      /\ k'.dwState = [k.dwState EXCEPT ![t] = "SUSPENDED"]
      /\ k'.nSuspendCount = [k.nSuspendCount EXCEPT ![t] = 1]
      /\ k'.fault = k.fault
      /\ k'.bNeedResched = k.bNeedResched
  <2>1. "SUSPENDED" \in States /\ 1 \in Nat
    BY DEF States
  <2> QED
    BY <1>1, <1>2, <2>1, InitThreadDataFields
<1>4. /\ \A u \in Threads \ {t} : /\ Linked(k', u) <=> Linked(k, u)
                                  /\ k'.dwState[u] = k.dwState[u]
                                  /\ k'.nSuspendCount[u] = k.nSuspendCount[u]
                                  /\ k'.nCurPriority[u] = k.nCurPriority[u]
      /\ k'.dwState[t] = "SUSPENDED" /\ ~Linked(k', t)
  BY <1>2, <1>3 DEF RunQueueType
<1>5. /\ \A c \in Threads : pc[c] # "resume" /\ pc'[c] # "resume"
      /\ \A u \in Threads : ~BeingResumed(u) /\ ~BeingResumed(u)'
  <2>1. \A c \in Threads : pc[c] # "resume" /\ pc'[c] # "resume"
    BY <1>1, NothingResumed
  <2> QED
    BY <2>1 DEF BeingResumed
<1>6. TypeOK' /\ PolicyOK'
  BY <1>1, <1>3 DEF IInv, TypeOK, WellFormed, PolicyOK, PCs
<1>7. pc'[InitThread] = "run" /\ pc'[cur] = pc[cur]
  BY <1>1, <1>2 DEF IInv, InitThreadOK
<1> QED
  BY <1>1, <1>2, <1>3, <1>4, <1>5, <1>6, <1>7, OtherThread

LEMMA SuspendThreadOK ==
  ASSUME IInv, SingleController, NEW t \in Threads, SuspendThread(t)
  PROVE  IInv'
<1> USE Basics
<1> DEFINE n == k.nSuspendCount[t] + 1
           s == [k EXCEPT !.nSuspendCount[t] = n]
           m == RemoveFromRunQueue(s, t)
<1>1. /\ ctx = "thread" /\ ctx' = ctx /\ cur \in Controllers /\ pc[cur] = "run"
      /\ t # cur /\ t # InitThread
      /\ k' = DoSuspendThread(k, t)
      /\ UNCHANGED <<cur, scan, pc, arg, fPolicy, timer, dwTimeout, dwLostTicks, pending,
                     dwSignal>>
  BY DEF SuspendThread, InUser, Running, Alive
<1>2. n \in Nat
  <2>1. k.nSuspendCount[t] \in Nat
    BY DEF RunQueueType
  <2> QED
    BY <2>1
<1>3. k' = IF k.nSuspendCount[t] = 0 /\ k.dwState[t] = "RUNNING"
           THEN [m EXCEPT !.dwState[t] = "SUSPENDED"] ELSE s
  BY <1>1 DEF DoSuspendThread
<1> HIDE DEF n
<1>4. /\ s \in RunQueueType /\ SameQueue(k, s)
      /\ s.nSuspendCount = [k.nSuspendCount EXCEPT ![t] = n]
      /\ s.dwState = k.dwState /\ s.fault = k.fault /\ s.bNeedResched = k.bNeedResched
  BY <1>2 DEF RunQueueType, SameQueue
<1> HIDE DEF s
<1>5. WellFormed(s) /\ \A u \in Threads : Linked(s, u) <=> Linked(k, u)
  BY <1>4, SameQueueWellFormed
<1>6. \A c \in Threads : pc[c] # "resume" /\ ~BeingResumed(c)
  BY <1>1, NothingResumed
<1>7. Linked(k, t) <=> k.dwState[t] = "RUNNING"
  BY <1>1, <1>6 DEF IInv, QueuedOK
<1>8. k.dwState[t] = "RUNNING" => k.nSuspendCount[t] = 0
  BY DEF IInv, SuspendOK
<1>9. \A u \in Threads \ {t} : s.nSuspendCount[u] = k.nSuspendCount[u]
  BY <1>4 DEF RunQueueType
<1>10. /\ WellFormed(k')
       /\ \A u \in Threads \ {t} : /\ Linked(k', u) <=> Linked(k, u)
                                   /\ k'.dwState[u] = k.dwState[u]
       /\ k'.nSuspendCount = s.nSuspendCount
       /\ k'.nCurPriority = k.nCurPriority
       /\ k'.fault = k.fault
       /\ k'.bNeedResched = k.bNeedResched
       /\ ~Linked(k', t) /\ k'.dwState[t] # "RUNNING"
  <2>1. CASE k.dwState[t] = "RUNNING"
    <3>1. k' = [m EXCEPT !.dwState[t] = "SUSPENDED"]
      BY <1>3, <1>8, <2>1
    <3>2. Linked(s, t) /\ t \in Threads \ {InitThread}
      BY <1>1, <1>5, <1>7, <2>1
    <3>3. /\ WellFormed(m)
          /\ \A u \in Threads : Linked(m, u) <=> Linked(s, u) /\ u # t
          /\ m.nCurPriority = s.nCurPriority
          /\ m.dwState = s.dwState
          /\ m.nSuspendCount = s.nSuspendCount
          /\ m.fault = s.fault
          /\ m.bNeedResched = s.bNeedResched
      BY <1>5, <3>2, RemoveUnlinks
    <3> HIDE DEF m
    <3>4. /\ k' \in RunQueueType /\ SameQueue(m, k')
          /\ k'.dwState = [m.dwState EXCEPT ![t] = "SUSPENDED"]
          /\ k'.nSuspendCount = m.nSuspendCount
          /\ k'.fault = m.fault /\ k'.bNeedResched = m.bNeedResched
      BY <3>1, <3>3 DEF WellFormed, RunQueueType, SameQueue, States
    <3>5. WellFormed(k') /\ \A u \in Threads : Linked(k', u) <=> Linked(m, u)
      BY <3>3, <3>4, SameQueueWellFormed
    <3>6. /\ \A u \in Threads \ {t} : k'.dwState[u] = k.dwState[u]
          /\ k'.dwState[t] = "SUSPENDED"
      BY <1>4, <3>3, <3>4 DEF RunQueueType
    <3> QED
      BY <1>4, <1>5, <3>3, <3>4, <3>5, <3>6 DEF SameQueue
  <2>2. CASE k.dwState[t] # "RUNNING"
    BY <1>3, <1>4, <1>5, <1>7, <2>2 DEF SameQueue
  <2> QED
    BY <2>1, <2>2
<1>11. TypeOK' /\ PolicyOK' /\ pc'[InitThread] = "run"
  BY <1>1, <1>10 DEF IInv, TypeOK, WellFormed, PolicyOK, InitThreadOK
<1>12. \A u \in Threads : BeingResumed(u)' <=> BeingResumed(u)
  BY <1>1 DEF BeingResumed
<1> QED
  BY <1>1, <1>6, <1>9, <1>10, <1>11, <1>12, OtherThread

LEMMA ResumeThreadOK ==
  ASSUME IInv, SingleController, NEW t \in Threads, ResumeThread(t)
  PROVE  IInv'
<1> USE Basics
<1> DEFINE n == IF k.nSuspendCount[t] > 0 THEN k.nSuspendCount[t] - 1 ELSE 0
           resumed == k.dwState[t] = "SUSPENDED" /\ n = 0
           d == IF resumed THEN "RUNNING" ELSE k.dwState[t]
<1>1. /\ ctx = "thread" /\ ctx' = ctx /\ cur \in Controllers /\ pc[cur] = "run"
      /\ t # cur /\ t # InitThread
      /\ k' = [k EXCEPT !.nSuspendCount[t] = n, !.dwState[t] = d]
      /\ pc' = [pc EXCEPT ![cur] = IF resumed THEN "resume" ELSE pc[cur]]
      /\ arg' = [arg EXCEPT ![cur] = IF resumed THEN t ELSE arg[cur]]
      /\ UNCHANGED <<cur, scan, fPolicy, timer, dwTimeout, dwLostTicks, pending, dwSignal>>
  BY DEF ResumeThread, InUser, Running, Alive
<1>2. n \in Nat /\ (k.nSuspendCount[t] = 0 => n = 0)
  <2>1. k.nSuspendCount[t] \in Nat
    BY DEF RunQueueType
  <2> QED
    BY <2>1
<1>3. d \in States /\ resumed \in BOOLEAN
  BY DEF RunQueueType, States
<1> HIDE DEF n
<1>4. /\ k' \in RunQueueType /\ SameQueue(k, k')
      /\ k'.nSuspendCount = [k.nSuspendCount EXCEPT ![t] = n]
      /\ k'.dwState = [k.dwState EXCEPT ![t] = d]
      /\ k'.fault = k.fault /\ k'.bNeedResched = k.bNeedResched
  <2> HIDE DEF d
  <2> QED
    BY <1>1, <1>2, <1>3 DEF RunQueueType, SameQueue
<1>5. WellFormed(k') /\ \A u \in Threads : Linked(k', u) <=> Linked(k, u)
  BY <1>4, SameQueueWellFormed
<1>6. /\ \A u \in Threads \ {t} : /\ k'.dwState[u] = k.dwState[u]
                                  /\ k'.nSuspendCount[u] = k.nSuspendCount[u]
      /\ k'.dwState[t] = d /\ k'.nSuspendCount[t] = n
  BY <1>4 DEF RunQueueType
<1>7. \A c \in Threads : pc[c] # "resume" /\ ~BeingResumed(c)
  BY <1>1, NothingResumed
<1>8. Linked(k, t) <=> k.dwState[t] = "RUNNING"
  BY <1>1, <1>7 DEF IInv, QueuedOK
<1>9. k.dwState[t] = "RUNNING" => k.nSuspendCount[t] = 0
  BY DEF IInv, SuspendOK
<1>10. TypeOK' /\ PolicyOK' /\ NoFault' /\ ScanOK'
  <2>1. pc' \in [Threads -> PCs] /\ arg' \in [Threads -> Threads]
    BY <1>1 DEF PCs
  <2> QED
    BY <1>1, <1>4, <2>1 DEF IInv, TypeOK, PolicyOK, NoFault, ScanOK
<1>11. CASE ~resumed
  <2>1. pc' = pc /\ arg' = arg /\ d = k.dwState[t]
    BY <1>1, <1>11
  <2>2. \A u \in Threads : ~BeingResumed(u)'
    BY <1>7, <2>1 DEF BeingResumed
  <2>3. pc'[InitThread] = "run"
    BY <2>1 DEF IInv, InitThreadOK
  <2>4. Linked(k', t) => k'.bNeedResched \/ k'.nCurPriority[cur] <= k'.nCurPriority[t]
    BY <1>1, <1>4, <1>5 DEF IInv, ReschedOK, SameQueue
  <2> HIDE DEF d
  <2> QED
    BY <1>1, <1>2, <1>4, <1>5, <1>6, <1>7, <1>8, <1>9, <1>10, <2>1, <2>2, <2>3, <2>4,
       OtherThread DEF SameQueue
<1>12. CASE resumed
  <2>1. /\ pc' = [pc EXCEPT ![cur] = "resume"] /\ arg' = [arg EXCEPT ![cur] = t]
        /\ d = "RUNNING" /\ n = 0 /\ k.dwState[t] = "SUSPENDED"
    BY <1>1, <1>12
  <2>2. \A c \in Threads : pc'[c] = "resume" <=> c = cur
    BY <1>7, <2>1
  <2>3. arg'[cur] = t
    BY <2>1
  <2>4. \A u \in Threads : BeingResumed(u)' <=> u = t
    BY <1>1, <2>2, <2>3 DEF BeingResumed
  <2>5. ~Linked(k', t) /\ k'.dwState[t] = "RUNNING" /\ k'.nSuspendCount[t] = 0
    BY <1>5, <1>6, <1>8, <2>1
  <2>6. QueuedOK'
    BY <1>1, <1>5, <1>6, <1>7, <2>4, <2>5 DEF IInv, QueuedOK
  <2>7. k.dwState[cur] = "RUNNING"
    BY <1>1 DEF IInv, CurOK, ReadyPCs
  <2>8. ResumeOK'
    BY <1>1, <1>6, <2>2, <2>3, <2>5, <2>7 DEF ResumeOK
  <2>9. InitThreadOK' /\ SuspendOK' /\ CurOK'
    <3>1. pc'[InitThread] = "run" /\ k'.dwState[InitThread] = "RUNNING"
      BY <1>1, <1>6, <2>1 DEF IInv, InitThreadOK
    <3>2. k'.dwState[cur] = "RUNNING"
      BY <1>1, <1>6, <2>7
    <3>3. SuspendOK'
      BY <1>1, <1>6, <2>5 DEF IInv, SuspendOK
    <3> QED
      BY <1>1, <3>1, <3>2, <3>3 DEF InitThreadOK, CurOK
  <2>10. ReschedOK'
    BY <1>1, <1>4, <1>5 DEF IInv, ReschedOK, SameQueue
  <2> QED
    BY <1>5, <1>10, <2>6, <2>8, <2>9, <2>10 DEF IInv
<1> QED
  BY <1>3, <1>11, <1>12

LEMMA ResumeAddOK ==
  ASSUME IInv, SingleController, ResumeAdd
  PROVE  IInv'
<1> USE Basics
<1> DEFINE t == arg[cur]
<1>1. /\ ctx = "thread" /\ ctx' = ctx /\ pc[cur] = "resume"
      /\ k' = AddToRunQueue(k, t, cur)
      /\ pc' = [pc EXCEPT ![cur] = "run"]
      /\ arg' = [arg EXCEPT ![cur] = cur]
      /\ UNCHANGED <<cur, scan, fPolicy, timer, dwTimeout, dwLostTicks, pending, dwSignal>>
  BY DEF ResumeAdd, Running
<1>2. /\ cur \in Controllers /\ t \in Threads /\ t # InitThread
      /\ k.dwState[t] = "RUNNING" /\ ~Linked(k, t) /\ k.nSuspendCount[t] = 0
  BY <1>1 DEF IInv, ResumeOK, SuspendOK
<1>3. t # cur
  BY <1>1, <1>2
<1>4. /\ \A c \in Threads : pc[c] = "resume" <=> c = cur
      /\ \A c \in Threads : pc'[c] # "resume"
  BY <1>1, <1>2 DEF IInv, ResumeOK, SingleController
<1>5. /\ \A u \in Threads : BeingResumed(u) <=> u = t
      /\ \A u \in Threads : ~BeingResumed(u)'
  BY <1>2, <1>4 DEF BeingResumed
<1> HIDE DEF t
<1>6. /\ WellFormed(k')
      /\ \A u \in Threads : Linked(k', u) <=> Linked(k, u) \/ u = t
      /\ k'.nCurPriority = k.nCurPriority
      /\ k'.dwState = k.dwState
      /\ k'.nSuspendCount = k.nSuspendCount
      /\ k'.fault = k.fault
      /\ k'.bNeedResched <=> k.bNeedResched \/ k.nCurPriority[t] <= k.nCurPriority[cur]
  BY <1>1, <1>2, AddQueues
<1>7. k.nCurPriority[t] \in Int /\ k.nCurPriority[cur] \in Int
  BY <1>2, RunQueueAssumption DEF RunQueueType, Priorities
<1>8. k'.bNeedResched \/ k'.nCurPriority[cur] <= k'.nCurPriority[t]
  BY <1>6, <1>7
<1>9. TypeOK' /\ PolicyOK'
  BY <1>1, <1>6 DEF IInv, TypeOK, WellFormed, PolicyOK, PCs
<1>10. /\ pc'[InitThread] = "run" /\ pc'[cur] = "run" /\ pc[cur] \in ReadyPCs
  BY <1>1 DEF IInv, InitThreadOK, ReadyPCs
<1> QED
  BY <1>1, <1>2, <1>3, <1>4, <1>5, <1>6, <1>8, <1>9, <1>10, OtherThread

LEMMA SetThreadPriorityOK ==
  ASSUME IInv, SingleController, NEW t \in Threads, NEW p \in UsedPriorities,
         SetThreadPriority(t, p)
  PROVE  IInv'
<1> USE Basics
<1> DEFINE m == RemoveFromRunQueue(k, t)
           r == [m EXCEPT !.nCurPriority[t] = p]
<1>1. /\ ctx = "thread" /\ ctx' = ctx /\ pc[cur] = "run" /\ t # InitThread
      /\ t = cur \/ cur \in Controllers
      /\ k' = SetThreadCurrentPriority(k, t, p, cur)
      /\ UNCHANGED <<cur, scan, pc, arg, fPolicy, timer, dwTimeout, dwLostTicks, pending,
                     dwSignal>>
  BY DEF SetThreadPriority, InUser, Running, Alive
<1>2. p \in Priorities
  BY SchedulerAssumption
<1>3. \A u \in Threads : BeingResumed(u)' <=> BeingResumed(u)
  BY <1>1 DEF BeingResumed
<1>4. /\ ~BeingResumed(t)
      /\ k.dwState[t] = "RUNNING" => Linked(k, t) /\ k.nSuspendCount[t] = 0
      /\ t # cur => \A c \in Threads : pc[c] # "resume"
      /\ t # cur => (Linked(k, t) <=> k.dwState[t] = "RUNNING")
      /\ k.dwState[cur] = "RUNNING"
  BY <1>1, NothingResumed DEF IInv, QueuedOK, SuspendOK, CurOK, ReadyPCs
<1>5. pc'[InitThread] = "run" /\ PolicyOK'
  BY <1>1 DEF IInv, InitThreadOK, PolicyOK
<1>6. CASE k.dwState[t] = "RUNNING"
  <2>1. k' = AddToRunQueue(r, t, cur)
    BY <1>1, <1>6 DEF SetThreadCurrentPriority
  <2>2. /\ WellFormed(m)
        /\ \A u \in Threads : Linked(m, u) <=> Linked(k, u) /\ u # t
        /\ m.nCurPriority = k.nCurPriority
        /\ m.dwState = k.dwState
        /\ m.nSuspendCount = k.nSuspendCount
        /\ m.fault = k.fault
        /\ m.bNeedResched = k.bNeedResched
    <3>1. t \in Threads \ {InitThread} /\ Linked(k, t)
      BY <1>1, <1>4, <1>6
    <3> QED
      BY <3>1, RemoveUnlinks
  <2> HIDE DEF m
  <2>3. /\ r \in RunQueueType
        /\ r.lpNextRun = m.lpNextRun /\ r.lpPrevRun = m.lpPrevRun
        /\ r.lpThreadList = m.lpThreadList /\ r.dwPriorityBitmap = m.dwPriorityBitmap
        /\ r.uPriorityGroup = m.uPriorityGroup
        /\ r.nCurPriority = [m.nCurPriority EXCEPT ![t] = p]
        /\ r.dwState = m.dwState /\ r.nSuspendCount = m.nSuspendCount
        /\ r.fault = m.fault /\ r.bNeedResched = m.bNeedResched
    BY <1>2, <2>2 DEF WellFormed, RunQueueType
  <2> HIDE DEF r
  <2>4. WellFormed(r) /\ \A u \in Threads : Linked(r, u) <=> Linked(m, u)
    BY <1>2, <2>2, <2>3, PriorityOfUnlinked
  <2>5. ~Linked(r, t) /\ r.nSuspendCount[t] = 0
    BY <1>4, <1>6, <2>2, <2>3, <2>4
  <2>6. /\ WellFormed(k')
        /\ \A u \in Threads : Linked(k', u) <=> Linked(r, u) \/ u = t
        /\ k'.nCurPriority = r.nCurPriority
        /\ k'.dwState = r.dwState
        /\ k'.nSuspendCount = r.nSuspendCount
        /\ k'.fault = r.fault
        /\ k'.bNeedResched <=> r.bNeedResched \/ r.nCurPriority[t] <= r.nCurPriority[cur]
    BY <2>1, <2>4, <2>5, AddQueues
  <2>7. /\ \A u \in Threads : Linked(k', u) <=> Linked(k, u)
        /\ k'.dwState = k.dwState /\ k'.nSuspendCount = k.nSuspendCount
        /\ k'.fault = k.fault
        /\ \A u \in Threads \ {t} : k'.nCurPriority[u] = k.nCurPriority[u]
        /\ k'.nCurPriority[t] = p
        /\ k.bNeedResched => k'.bNeedResched
        /\ k'.bNeedResched \/ k'.nCurPriority[cur] <= k'.nCurPriority[t]
        /\ t = cur => k'.bNeedResched
    <3>1. r.nCurPriority[t] \in Int /\ r.nCurPriority[cur] \in Int
      <4>1. r \in RunQueueType /\ Priorities \subseteq Int
        BY <2>3, RunQueueAssumption DEF Priorities
      <4> QED
        BY <4>1 DEF RunQueueType
    <3>2. /\ \A u \in Threads \ {t} : r.nCurPriority[u] = k.nCurPriority[u]
          /\ r.nCurPriority[t] = p
      BY <2>2, <2>3 DEF RunQueueType
    <3>3. \A u \in Threads : Linked(k', u) <=> Linked(k, u)
      BY <1>4, <1>6, <2>2, <2>4, <2>6
    <3> QED
      BY <2>2, <2>3, <2>6, <3>1, <3>2, <3>3
  <2>8. TypeOK'
    BY <1>1, <2>6 DEF IInv, TypeOK, WellFormed
  <2>9. CASE t = cur
    <3>1. QueuedOK' /\ ResumeOK'
      BY <1>1, <1>3, <2>7 DEF IInv, QueuedOK, ResumeOK
    <3>2. NoFault' /\ InitThreadOK' /\ SuspendOK' /\ CurOK' /\ ScanOK'
      BY <1>1, <2>7 DEF IInv, NoFault, InitThreadOK, SuspendOK, CurOK, ScanOK
    <3>3. ReschedOK'
      BY <2>7, <2>9 DEF ReschedOK
    <3> QED
      BY <1>5, <2>6, <2>8, <3>1, <3>2, <3>3 DEF IInv
  <2>10. CASE t # cur
    BY <1>1, <1>3, <1>4, <1>5, <1>6, <2>6, <2>7, <2>8, <2>10, OtherThread
  <2> QED
    BY <2>9, <2>10
<1>7. CASE k.dwState[t] # "RUNNING"
  <2>1. k' = [k EXCEPT !.nCurPriority[t] = p] /\ t # cur
    BY <1>1, <1>4, <1>7 DEF SetThreadCurrentPriority
  <2>2. /\ k' \in RunQueueType
        /\ k'.lpNextRun = k.lpNextRun /\ k'.lpPrevRun = k.lpPrevRun
        /\ k'.lpThreadList = k.lpThreadList /\ k'.dwPriorityBitmap = k.dwPriorityBitmap
        /\ k'.uPriorityGroup = k.uPriorityGroup
        /\ k'.nCurPriority = [k.nCurPriority EXCEPT ![t] = p]
        /\ k'.dwState = k.dwState /\ k'.nSuspendCount = k.nSuspendCount
        /\ k'.fault = k.fault /\ k'.bNeedResched = k.bNeedResched
    BY <1>2, <2>1 DEF RunQueueType
  <2>3. ~Linked(k, t)
    BY <1>4, <1>7, <2>1
  <2>4. WellFormed(k') /\ \A u \in Threads : Linked(k', u) <=> Linked(k, u)
    BY <1>2, <2>2, <2>3, PriorityOfUnlinked
  <2>5. \A u \in Threads \ {t} : k'.nCurPriority[u] = k.nCurPriority[u]
    BY <2>2 DEF RunQueueType
  <2>6. TypeOK'
    BY <1>1, <2>2 DEF IInv, TypeOK
  <2> QED
    BY <1>1, <1>3, <1>4, <1>5, <1>7, <2>1, <2>2, <2>3, <2>4, <2>5, <2>6, OtherThread
<1> QED
  BY <1>6, <1>7

LEMMA TerminateThreadOK ==
  ASSUME IInv, SingleController, NEW t \in Threads, TerminateThread(t)
  PROVE  IInv'
<1> USE Basics
<1> DEFINE q == [k EXCEPT !.nSuspendCount[t] = 0]
           r == [q EXCEPT !.dwState[t] = "RUNNING"]
<1>1. /\ ctx = "thread" /\ ctx' = ctx /\ cur \in Controllers /\ pc[cur] = "run"
      /\ t # cur /\ t # InitThread
      /\ k' = IF k.dwState[t] = "RUNNING" THEN q ELSE AddToRunQueue(r, t, cur)
      /\ pc' = [pc EXCEPT ![t] = "exiting"]
      /\ UNCHANGED <<cur, scan, arg, fPolicy, timer, dwTimeout, dwLostTicks, pending,
                     dwSignal>>
  BY DEF TerminateThread, InUser, Running, Alive
<1>2. \A c \in Threads : pc[c] # "resume" /\ ~BeingResumed(c)
  BY <1>1, NothingResumed
<1>3. Linked(k, t) <=> k.dwState[t] = "RUNNING"
  BY <1>1, <1>2 DEF IInv, QueuedOK
<1>4. \A c \in Threads : pc'[c] # "resume" /\ ~BeingResumed(c)'
  <2>1. \A c \in Threads : pc'[c] # "resume"
    BY <1>1, <1>2
  <2> QED
    BY <2>1 DEF BeingResumed
<1>5. /\ q \in RunQueueType /\ SameQueue(k, q)
      /\ q.nSuspendCount = [k.nSuspendCount EXCEPT ![t] = 0]
      /\ q.dwState = k.dwState /\ q.fault = k.fault /\ q.bNeedResched = k.bNeedResched
  BY DEF RunQueueType, SameQueue
<1> HIDE DEF q
<1>6. WellFormed(q) /\ \A u \in Threads : Linked(q, u) <=> Linked(k, u)
  BY <1>5, SameQueueWellFormed
<1>7. /\ \A u \in Threads \ {t} : q.nSuspendCount[u] = k.nSuspendCount[u]
      /\ q.nSuspendCount[t] = 0
  BY <1>5 DEF RunQueueType
<1>8. /\ r \in RunQueueType /\ SameQueue(q, r)
      /\ r.nSuspendCount = q.nSuspendCount
      /\ r.dwState = [k.dwState EXCEPT ![t] = "RUNNING"]
      /\ r.fault = k.fault /\ r.bNeedResched = k.bNeedResched
  BY <1>5 DEF RunQueueType, SameQueue, States
<1> HIDE DEF r
<1>9. /\ \A u \in Threads \ {t} : r.dwState[u] = k.dwState[u]
      /\ r.dwState[t] = "RUNNING"
  BY <1>8 DEF RunQueueType
<1>10. /\ WellFormed(k')
       /\ \A u \in Threads \ {t} : /\ Linked(k', u) <=> Linked(k, u)
                                   /\ k'.dwState[u] = k.dwState[u]
       /\ Linked(k', t) /\ k'.dwState[t] = "RUNNING"
       /\ k'.nCurPriority = k.nCurPriority
       /\ k'.nSuspendCount = q.nSuspendCount
       /\ k'.fault = k.fault
       /\ k.bNeedResched => k'.bNeedResched
       /\ k'.bNeedResched \/ k'.nCurPriority[cur] <= k'.nCurPriority[t]
  <2>1. CASE k.dwState[t] = "RUNNING"
    BY <1>1, <1>3, <1>5, <1>6, <2>1 DEF SameQueue, IInv, ReschedOK
  <2>2. CASE k.dwState[t] # "RUNNING"
    <3>1. k' = AddToRunQueue(r, t, cur)
      BY <1>1, <2>2
    <3>2. WellFormed(r) /\ \A u \in Threads : Linked(r, u) <=> Linked(k, u)
      BY <1>6, <1>8, SameQueueWellFormed
    <3>3. ~Linked(r, t) /\ r.nSuspendCount[t] = 0
      BY <1>3, <1>7, <1>8, <2>2, <3>2
    <3>4. /\ WellFormed(k')
          /\ \A u \in Threads : Linked(k', u) <=> Linked(r, u) \/ u = t
          /\ k'.nCurPriority = r.nCurPriority
          /\ k'.dwState = r.dwState
          /\ k'.nSuspendCount = r.nSuspendCount
          /\ k'.fault = r.fault
          /\ k'.bNeedResched <=> r.bNeedResched \/ r.nCurPriority[t] <= r.nCurPriority[cur]
      BY <3>1, <3>2, <3>3, AddQueues
    <3>5. r.nCurPriority[t] \in Int /\ r.nCurPriority[cur] \in Int
      BY <1>8, RunQueueAssumption DEF RunQueueType, Priorities
    <3>6. r.nCurPriority = k.nCurPriority
      BY <1>5, <1>8 DEF SameQueue
    <3> QED
      BY <1>8, <1>9, <3>2, <3>4, <3>5, <3>6
  <2> QED
    BY <2>1, <2>2
<1>11. TypeOK' /\ PolicyOK'
  BY <1>1, <1>10 DEF IInv, TypeOK, WellFormed, PolicyOK, PCs
<1>12. pc'[InitThread] = "run" /\ pc'[cur] = pc[cur]
  BY <1>1 DEF IInv, InitThreadOK
<1> QED
  BY <1>1, <1>2, <1>4, <1>7, <1>10, <1>11, <1>12, OtherThread

-----------------------------------------------------------------------------
(* The theorems *)

\* Every step keeps the invariant.
LEMMA StepInvariant ==
  ASSUME SingleController, NoRotation
  PROVE  IInv /\ [Next]_vars => IInv'
<1> SUFFICES ASSUME IInv, [Next]_vars
             PROVE  IInv'
  OBVIOUS
<1>1. CASE UNCHANGED vars
  BY <1>1 DEF vars, IInv, TypeOK, NoFault, InitThreadOK, QueuedOK, BeingResumed, ResumeOK,
     SuspendOK, CurOK, ScanOK, ReschedOK, PolicyOK
<1>2. CASE ScanStep \/ SwitchTo
  BY <1>2, ScanStepOK, SwitchToOK
<1>3. CASE Tick \/ TimerISR \/ TimersDone \/ DeviceInterrupt \/ InterruptExit
  BY <1>3, TickOK, TimerISROK, ContextSteps
<1>4. ASSUME NEW t \in Threads,
             FireTimer(t) \/ Wakeup(t)
      PROVE  IInv'
  BY <1>4, FireTimerOK, WakeupOK
<1>5. CASE Preempt \/ CpuIdle \/ CallSchedule
  BY <1>5, PreemptOK, CpuIdleOK, CallScheduleOK
<1>6. ASSUME NEW n \in Sleeps \cup {Off}, Sleep(n) \/ Wait(n)
      PROVE  IInv'
  BY <1>6, SleepOK, WaitOK
<1>7. CASE SleepReturn \/ WaitReturn \/ SuspendSelf \/ ExitThread \/ BecomeZombie
  BY <1>7, PlaceSteps, WaitReturnOK, SuspendSelfOK, BecomeZombieOK
<1>8. ASSUME NEW t \in Threads,
             CreateThread(t) \/ SuspendThread(t) \/ ResumeThread(t) \/ TerminateThread(t)
      PROVE  IInv'
  BY <1>8, CreateThreadOK, SuspendThreadOK, ResumeThreadOK, TerminateThreadOK
<1>9. CASE ResumeAdd
  BY <1>9, ResumeAddOK
<1>10. ASSUME NEW t \in Threads, NEW p \in UsedPriorities, SetThreadPriority(t, p)
       PROVE  IInv'
  BY <1>10, SetThreadPriorityOK
<1>11. ASSUME NEW t \in Threads, NEW q \in Policies, SetThreadPolicy(t, q)
       PROVE  IInv'
  BY <1>11, SetThreadPolicyOK
<1> QED
  BY <1>1, <1>2, <1>3, <1>4, <1>5, <1>6, <1>7, <1>8, <1>9, <1>10, <1>11 DEF Next

\* What the invariant says in the terms of Scheduler's properties.
LEMMA InvariantImplies ==
  ASSUME IInv
  PROVE  TypeOK /\ QueueOK /\ NoFault /\ ReadyIffQueued /\ SuspendedNotQueued
         /\ NoMissedResched
<1> USE Basics
<1>1. TypeOK /\ QueueOK /\ NoFault
  BY DEF IInv, WellFormed, QueueOK
<1>2. ReadyIffQueued
  BY DEF IInv, QueuedOK, ReadyIffQueued
<1>3. SuspendedNotQueued
  BY DEF IInv, QueuedOK, SuspendOK, CurOK, SuspendedNotQueued
<1>4. NoMissedResched
  BY DEF IInv, ReschedOK, NoMissedResched
<1> QED
  BY <1>1, <1>2, <1>3, <1>4

\* The inductive invariant holds in every reachable state (sche.c and thread.c with one
\* controlling thread and without the rotation policy).
THEOREM InvariantHolds ==
  ASSUME SingleController, NoRotation
  PROVE  Spec => []IInv
<1>1. Init => IInv
  BY InitInvariant
<1>2. IInv /\ [Next]_vars => IInv'
  BY StepInvariant
<1> QED
  BY <1>1, <1>2, PTL DEF Spec

\* Type correctness: no pointer the scheduler follows is null, no count is negative.
THEOREM TypeCorrect ==
  ASSUME SingleController, NoRotation
  PROVE  Spec => []TypeOK
<1>1. IInv => TypeOK
  BY DEF IInv
<1> QED
  BY <1>1, InvariantHolds, PTL

\* The rings, their heads and the bitmaps stay well formed under every interleaving of
\* AddToRunQueue, RemoveFromRunQueue and SetThreadCurrentPriority.
THEOREM QueueCorrect ==
  ASSUME SingleController, NoRotation
  PROVE  Spec => []QueueOK
<1>1. IInv => QueueOK
  BY InvariantImplies
<1> QED
  BY <1>1, InvariantHolds, PTL

\* RemoveFromRunQueue never meets a thread that is on no ring, nor the initial thread.
THEOREM NeverFaults ==
  ASSUME SingleController, NoRotation
  PROVE  Spec => []NoFault
<1>1. IInv => NoFault
  BY DEF IInv
<1> QED
  BY <1>1, InvariantHolds, PTL

\* No ready thread is lost and no other is queued.
THEOREM NoLostThread ==
  ASSUME SingleController, NoRotation
  PROVE  Spec => []ReadyIffQueued
<1>1. IInv => ReadyIffQueued
  BY InvariantImplies
<1> QED
  BY <1>1, InvariantHolds, PTL

\* A suspended thread is off the run queue.
THEOREM SuspensionHolds ==
  ASSUME SingleController, NoRotation
  PROVE  Spec => []SuspendedNotQueued
<1>1. IInv => SuspendedNotQueued
  BY InvariantImplies
<1> QED
  BY <1>1, InvariantHolds, PTL

\* Every way to become ready at the running thread's priority or above asks for a
\* reschedule.
THEOREM ReschedulesAreRequested ==
  ASSUME SingleController, NoRotation
  PROVE  Spec => []NoMissedResched
<1>1. IInv => NoMissedResched
  BY InvariantImplies
<1> QED
  BY <1>1, InvariantHolds, PTL

\* GetNextRun hands the CPU to a ready thread of the highest ready priority.
THEOREM HighestPriorityRuns ==
  ASSUME SingleController, NoRotation
  PROVE  Spec => PicksHighest
<1> DEFINE A == cur' # cur =>
                  /\ Linked(k, cur')
                  /\ \A t \in Threads : Linked(k, t) =>
                       k.nCurPriority[cur'] <= k.nCurPriority[t]
<1>1. IInv /\ [Next]_vars => [A]_vars
  <2> SUFFICES ASSUME IInv, Next, cur' # cur
               PROVE  A
    BY DEF vars
  <2>1. SwitchTo
    BY DEF Next, ScanStep, Tick, TimerISR, TimersDone, DeviceInterrupt,
       InterruptExit, Preempt, FireTimer,
       CpuIdle, CreateThread, ResumeThread, ResumeAdd, SuspendThread, SuspendSelf,
       SetThreadPriority, SetThreadPolicy, Sleep, Wait, CallSchedule, SleepReturn,
       WaitReturn, Wakeup, TerminateThread, ExitThread, BecomeZombie, Schedule
  <2>2. cur' = scan.lpNext /\ ctx = "scan"
    BY <2>1 DEF SwitchTo
  <2> QED
    BY <2>2 DEF IInv, ScanOK
<1> QED
  BY <1>1, InvariantHolds, PTL DEF Spec, PicksHighest

-----------------------------------------------------------------------------
(* The count of the ready threads *)

\* The ready threads nCountRunning counts, and that it counts them in run queue r.
Counted(r) == {t \in Threads \ {InitThread} : Linked(r, t)}

Counts(r) == r.nCountRunning = Cardinality(Counted(r))

\* A change to other fields keeps the count right.
LEMMA CountSame ==
  ASSUME NEW a, NEW b, Counts(a), b.nCountRunning = a.nCountRunning,
         b.lpNextRun = a.lpNextRun
  PROVE  Counts(b)
<1>1. Counted(b) = Counted(a)
  BY DEF Counted, Linked
<1> QED
  BY <1>1 DEF Counts

\* AddToRunQueue counts a thread exactly when it links it.
LEMMA CountAdd ==
  ASSUME IsFiniteSet(Threads), NEW a, WellFormed(a), Counts(a),
         NEW t \in Threads \ {InitThread}, NEW c
  PROVE  Counts(AddToRunQueue(a, t, c))
<1> DEFINE m == LinkAtHead(a, t)
           n == a.bNeedResched \/ a.nCurPriority[t] <= a.nCurPriority[c]
           r == AddToRunQueue(a, t, c)
<1>0. a \in RunQueueType
  BY DEF WellFormed
<1>1. CASE a.nSuspendCount[t] # 0
  <2>1. r.nCountRunning = a.nCountRunning /\ r.lpNextRun = a.lpNextRun
    BY <1>0, <1>1 DEF AddToRunQueue, RunQueueType
  <2> QED
    BY <2>1, CountSame
<1>2. CASE a.nSuspendCount[t] = 0 /\ Linked(a, t)
  <2>1. r = a
    BY <1>2 DEF AddToRunQueue, Linked
  <2> QED
    BY <2>1
<1>3. CASE a.nSuspendCount[t] = 0 /\ ~Linked(a, t)
  <2>1. /\ m \in RunQueueType /\ m.bNeedResched = a.bNeedResched
        /\ m.nCountRunning = a.nCountRunning
        /\ \A u \in Threads : Linked(m, u) <=> Linked(a, u) \/ u = t
    BY <1>3, LinkAtHeadQueue DEF WellFormed, SameThreads
  <2>2. a.lpNextRun[t] = NULL /\ a.lpPrevRun[t] = NULL
    BY <1>3 DEF Linked, WellFormed, LinksOK
  <2>3. r = [m EXCEPT !.bNeedResched = n, !.nCountRunning = m.nCountRunning + 1]
    BY <1>3, <2>1, <2>2 DEF AddToRunQueue
  <2> HIDE DEF m, n, r
  <2>4. r.nCountRunning = a.nCountRunning + 1 /\ r.lpNextRun = m.lpNextRun
    BY <2>1, <2>3 DEF RunQueueType
  <2>5. Counted(r) = Counted(a) \cup {t} /\ t \notin Counted(a)
    BY <1>3, <2>1, <2>4 DEF Counted, Linked
  <2>6. IsFiniteSet(Counted(a))
    BY FS_Subset DEF Counted
  <2>7. Cardinality(Counted(a) \cup {t}) = Cardinality(Counted(a)) + 1
    BY <2>5, <2>6, FS_AddElement
  <2> QED
    BY <2>4, <2>5, <2>7 DEF Counts, r
<1> QED
  BY <1>1, <1>2, <1>3

\* RemoveFromRunQueue counts a thread off exactly when it unlinks it.
LEMMA CountRemove ==
  ASSUME IsFiniteSet(Threads), NEW a, WellFormed(a), Counts(a), NEW t \in Threads
  PROVE  Counts(RemoveFromRunQueue(a, t))
<1> DEFINE m == Unlink(a, t)
           r == RemoveFromRunQueue(a, t)
<1>0. a \in RunQueueType
  BY DEF WellFormed
<1>1. CASE t = InitThread \/ ~Linked(a, t)
  <2>1. r = [a EXCEPT !.fault = TRUE]
    BY <1>1 DEF RemoveFromRunQueue, Linked
  <2>2. r.nCountRunning = a.nCountRunning /\ r.lpNextRun = a.lpNextRun
    BY <1>0, <2>1 DEF RunQueueType
  <2> QED
    BY <2>2, CountSame
<1>2. CASE t # InitThread /\ Linked(a, t)
  <2>1. /\ m \in RunQueueType /\ m.nCountRunning = a.nCountRunning
        /\ \A u \in Threads : Linked(m, u) <=> Linked(a, u) /\ u # t
    BY <1>2, UnlinkQueue DEF WellFormed, SameThreads
  <2>2. a.lpNextRun[t] # NULL /\ a.lpPrevRun[t] # NULL
    BY <1>2 DEF Linked, WellFormed, LinksOK
  <2>3. r = [m EXCEPT !.nBoost[t] = 0, !.nCountRunning = m.nCountRunning - 1]
    BY <1>2, <2>2 DEF RemoveFromRunQueue
  <2> HIDE DEF m, r
  <2>4. r.nCountRunning = a.nCountRunning - 1 /\ r.lpNextRun = m.lpNextRun
    BY <2>1, <2>3 DEF RunQueueType
  <2>5. Counted(r) = Counted(a) \ {t} /\ t \in Counted(a)
    BY <1>2, <2>1, <2>4 DEF Counted, Linked
  <2>6. IsFiniteSet(Counted(a))
    BY FS_Subset DEF Counted
  <2>7. Cardinality(Counted(a) \ {t}) = Cardinality(Counted(a)) - 1
    BY <2>5, <2>6, FS_RemoveElement
  <2> QED
    BY <2>4, <2>5, <2>7 DEF Counts, r
<1> QED
  BY <1>1, <1>2

\* Waking a thread counts it if it is linked.
LEMMA CountWakeup ==
  ASSUME IsFiniteSet(Threads), NEW a, WellFormed(a), Counts(a),
         NEW t \in Threads \ {InitThread}, NEW b \in BOOLEAN, NEW c
  PROVE  Counts(WakeupThread(a, t, b, c))
<1> DEFINE r == [a EXCEPT !.dwState[t] = "RUNNING"]
           n == IF b THEN r.nBoost[t] + 1 ELSE r.nBoost[t]
           m == [r EXCEPT !.nBoost[t] = n]
<1>0. a \in RunQueueType
  BY DEF WellFormed
<1>1. /\ r \in RunQueueType /\ SameQueue(a, r)
      /\ r.nCountRunning = a.nCountRunning
  BY <1>0 DEF RunQueueType, States, SameQueue
<1>2. WakeupThread(a, t, b, c) = IF r.lpNextRun[t] # NULL THEN r ELSE AddToRunQueue(m, t, c)
  BY DEF WakeupThread
<1> HIDE DEF r
<1>3. n \in Nat
  <2>1. r.nBoost[t] \in Nat
    BY <1>1 DEF RunQueueType
  <2> QED
    BY <2>1
<1> HIDE DEF n
<1>4. /\ m \in RunQueueType /\ SameQueue(a, m)
      /\ m.nCountRunning = a.nCountRunning
  BY <1>1, <1>3 DEF RunQueueType, SameQueue
<1> HIDE DEF m
<1>5. Counts(r) /\ Counts(m) /\ WellFormed(m)
  BY <1>1, <1>4, CountSame, SameQueueWellFormed DEF SameQueue
<1>6. Counts(AddToRunQueue(m, t, c))
  BY <1>5, CountAdd
<1> QED
  BY <1>2, <1>5, <1>6

\* Schedule counts the calling thread off if it takes it off its ring.
LEMMA CountSchedule ==
  ASSUME IsFiniteSet(Threads), IInv, NEW r \in RunQueueType, SameQueue(k, r),
         Counts(r), NEW dt, Schedule(r, dt)
  PROVE  Counts(k')
<1> USE Basics
<1> DEFINE e == [r EXCEPT !.bNeedResched = FALSE]
           h == HandleSignal(Rotate(e))
           s == Settle(h, dt)
<1>1. WellFormed(h)
  <2>1. WellFormed(r)
    BY SameQueueWellFormed
  <2> QED
    BY <2>1, EntryFields DEF IInv
<1>2. Rotate(e) = e
  BY DEF Rotate, IInv, PolicyOK
<1>3. e.nCountRunning = r.nCountRunning /\ e.lpNextRun = r.lpNextRun
  BY DEF RunQueueType
<1>4. h.nCountRunning = r.nCountRunning /\ h.lpNextRun = r.lpNextRun
  <2>1. e \in [lpNextRun : {e.lpNextRun}, lpPrevRun : {e.lpPrevRun},
               lpThreadList : {e.lpThreadList}, dwPriorityBitmap : {e.dwPriorityBitmap},
               uPriorityGroup : {e.uPriorityGroup}, nCurPriority : {e.nCurPriority},
               dwState : {e.dwState}, nSuspendCount : {e.nSuspendCount},
               nTickCount : {e.nTickCount}, nBoost : {e.nBoost},
               nCountRunning : {e.nCountRunning}, bNeedResched : {e.bNeedResched},
               fault : {e.fault}]
    BY DEF RunQueueType
  <2> HIDE DEF e
  <2> QED
    BY <1>2, <1>3, <2>1 DEF HandleSignal
<1> HIDE DEF h
<1>5. Counts(h) /\ h \in RunQueueType
  BY <1>1, <1>4, CountSame DEF WellFormed
<1>6. Counts(s)
  <2>1. CASE h.dwState[cur] = "RUNNING"
    BY <1>5, <2>1 DEF Settle
  <2>2. CASE h.dwState[cur] # "RUNNING" /\ GivesUp(h, dt)
    <3>1. s = [h EXCEPT !.nBoost[cur] = 0, !.dwState[cur] = "RUNNING"]
      BY <2>2 DEF Settle
    <3>2. s.nCountRunning = h.nCountRunning /\ s.lpNextRun = h.lpNextRun
      BY <1>5, <3>1 DEF RunQueueType
    <3> QED
      BY <1>5, <3>2, CountSame
  <2>3. CASE h.dwState[cur] # "RUNNING" /\ ~GivesUp(h, dt)
    BY <1>1, <1>5, <2>3, CountRemove DEF Settle
  <2> QED
    BY <2>1, <2>2, <2>3
<1> QED
  BY <1>6 DEF Schedule, h

\* The steps that assign other fields of the threads only, or nothing of them.
LEMMA CountUntouched ==
  ASSUME IInv, Counts(k), NEW t \in Threads, NEW n, NEW q,
         \/ ScanStep \/ SwitchTo \/ Tick \/ TimerISR \/ TimersDone \/ DeviceInterrupt
         \/ InterruptExit \/ CreateThread(t) \/ ResumeThread(t) \/ SuspendSelf
         \/ SetThreadPolicy(t, q) \/ Sleep(n) \/ SleepReturn \/ WaitReturn \/ ExitThread
         \/ BecomeZombie
  PROVE  Counts(k')
<1> USE Basics
<1> SUFFICES k'.nCountRunning = k.nCountRunning /\ k'.lpNextRun = k.lpNextRun
  BY CountSame
<1>1. CASE \/ ScanStep \/ TimersDone \/ DeviceInterrupt \/ InterruptExit
           \/ SetThreadPolicy(t, q) \/ SleepReturn \/ ExitThread
  BY <1>1 DEF ScanStep, TimersDone, DeviceInterrupt, InterruptExit, SetThreadPolicy,
     SleepReturn, ExitThread
<1>2. CASE SwitchTo
  <2> DEFINE r == RenewTicks(k)
  <2>1. k' = SpendBoost(r, scan.lpNext)
    BY <1>2 DEF SwitchTo
  <2>2. /\ DOMAIN r = DOMAIN k
        /\ r.nCountRunning = k.nCountRunning /\ r.lpNextRun = k.lpNextRun
    BY DEF RenewTicks, RunQueueType
  <2> HIDE DEF r
  <2> QED
    BY <2>1, <2>2 DEF SpendBoost, RunQueueType
<1>3. CASE Tick
  BY <1>3 DEF Tick, RunQueueType
<1>4. CASE TimerISR
  BY <1>4 DEF TimerISR, ChargeTicks, RunQueueType
<1>5. CASE CreateThread(t)
  BY <1>5 DEF CreateThread, InitThreadData, RunQueueType
<1>6. CASE ResumeThread(t)
  BY <1>6 DEF ResumeThread, RunQueueType
<1>7. CASE SuspendSelf \/ Sleep(n) \/ WaitReturn \/ BecomeZombie
  BY <1>7 DEF SuspendSelf, Sleep, WaitReturn, BecomeZombie, RunQueueType
<1> QED
  BY <1>1, <1>2, <1>3, <1>4, <1>5, <1>6, <1>7

\* The steps that end in Schedule.
LEMMA CountCalls ==
  ASSUME IsFiniteSet(Threads), IInv, Counts(k), NEW n,
         Preempt \/ CpuIdle \/ CallSchedule \/ Wait(n)
  PROVE  Counts(k')
<1> USE Basics
<1>1. CASE Preempt \/ CallSchedule
  <2>1. SameQueue(k, k)
    BY DEF SameQueue
  <2> QED
    BY <1>1, <2>1, CountSchedule DEF Preempt, CallSchedule
<1>2. CASE CpuIdle
  <2> DEFINE r == [k EXCEPT !.nTickCount[cur] = 0]
  <2>1. /\ r \in RunQueueType /\ SameQueue(k, r)
        /\ r.nCountRunning = k.nCountRunning
    BY DEF RunQueueType, SameQueue
  <2>2. k' = r \/ Schedule(r, dwTimeout)
    BY <1>2 DEF CpuIdle
  <2> HIDE DEF r
  <2>3. Counts(r)
    BY <2>1, CountSame DEF SameQueue
  <2> QED
    BY <2>1, <2>2, <2>3, CountSchedule
<1>3. CASE Wait(n)
  <2> DEFINE d == IF n = Off THEN "UNINTERRUPTIBLE" ELSE "INTERRUPTIBLE"
             r == [k EXCEPT !.dwState[cur] = d]
             dt == [dwTimeout EXCEPT ![cur] = IF n = Off THEN @ ELSE n]
  <2>1. /\ r \in RunQueueType /\ SameQueue(k, r)
        /\ r.nCountRunning = k.nCountRunning
    BY DEF RunQueueType, SameQueue, States
  <2>2. Schedule(r, dt)
    BY <1>3 DEF Wait
  <2> HIDE DEF r, dt
  <2>3. Counts(r)
    BY <2>1, CountSame DEF SameQueue
  <2> QED
    BY <2>1, <2>2, <2>3, CountSchedule
<1> QED
  BY <1>1, <1>2, <1>3

\* The steps that take another thread off its ring or put it on one.
LEMMA CountOthers ==
  ASSUME IsFiniteSet(Threads), IInv, Counts(k), NEW t \in Threads,
         FireTimer(t) \/ Wakeup(t) \/ ResumeAdd \/ SuspendThread(t) \/ TerminateThread(t)
  PROVE  Counts(k')
<1> USE Basics
<1>1. CASE FireTimer(t)
  BY <1>1, CountWakeup DEF FireTimer, ThreadTimeout, Blocked, IInv, InitThreadOK
<1>2. CASE Wakeup(t)
  <2>1. t # InitThread /\ k' = WakeupThread(k, t, TRUE, cur)
    BY <1>2 DEF Wakeup, Blocked, IInv, InitThreadOK
  <2> QED
    BY <2>1, CountWakeup
<1>3. CASE ResumeAdd
  <2>1. arg[cur] \in Threads \ {InitThread} /\ k' = AddToRunQueue(k, arg[cur], cur)
    BY <1>3 DEF ResumeAdd, IInv, ResumeOK
  <2> QED
    BY <2>1, CountAdd
<1>4. CASE SuspendThread(t)
  <2> DEFINE n == k.nSuspendCount[t] + 1
             s == [k EXCEPT !.nSuspendCount[t] = n]
             m == RemoveFromRunQueue(s, t)
             z == [m EXCEPT !.dwState[t] = "SUSPENDED"]
  <2>1. k' = z \/ k' = s
    BY <1>4 DEF SuspendThread, DoSuspendThread
  <2>2. n \in Nat
    <3>1. k.nSuspendCount[t] \in Nat
      BY DEF RunQueueType
    <3> QED
      BY <3>1
  <2> HIDE DEF n
  <2>3. /\ s \in RunQueueType /\ SameQueue(k, s)
        /\ s.nCountRunning = k.nCountRunning
    BY <2>2 DEF RunQueueType, SameQueue
  <2> HIDE DEF s
  <2>4. Counts(s) /\ WellFormed(s)
    BY <2>3, CountSame, SameQueueWellFormed DEF SameQueue
  <2>5. Counts(m)
    BY <2>4, CountRemove
  <2>6. m \in RunQueueType
    <3>1. CASE t # InitThread /\ Linked(s, t)
      BY <2>4, <3>1, RemoveUnlinks DEF WellFormed
    <3>2. CASE t = InitThread \/ ~Linked(s, t)
      BY <2>3, <3>2 DEF RemoveFromRunQueue, Linked, RunQueueType
    <3> QED
      BY <3>1, <3>2
  <2> HIDE DEF m
  <2>7. z.nCountRunning = m.nCountRunning /\ z.lpNextRun = m.lpNextRun
    BY <2>6 DEF RunQueueType
  <2> HIDE DEF z
  <2> QED
    BY <2>1, <2>4, <2>5, <2>7, CountSame
<1>5. CASE TerminateThread(t)
  <2> DEFINE q == [k EXCEPT !.nSuspendCount[t] = 0]
             r == [q EXCEPT !.dwState[t] = "RUNNING"]
  <2>1. t # InitThread /\ (k' = q \/ k' = AddToRunQueue(r, t, cur))
    BY <1>5 DEF TerminateThread, Alive
  <2>2. /\ q \in RunQueueType /\ SameQueue(k, q)
        /\ q.nCountRunning = k.nCountRunning
    BY DEF RunQueueType, SameQueue
  <2> HIDE DEF q
  <2>3. /\ r \in RunQueueType /\ SameQueue(k, r)
        /\ r.nCountRunning = k.nCountRunning
    BY <2>2 DEF RunQueueType, SameQueue, States
  <2> HIDE DEF r
  <2>4. Counts(q) /\ Counts(r) /\ WellFormed(r)
    BY <2>2, <2>3, CountSame, SameQueueWellFormed DEF SameQueue
  <2>5. Counts(AddToRunQueue(r, t, cur))
    BY <2>1, <2>4, CountAdd
  <2> QED
    BY <2>1, <2>4, <2>5
<1> QED
  BY <1>1, <1>2, <1>3, <1>4, <1>5

\* SetThreadCurrentPriority counts a ready thread off and on again.
LEMMA CountPriority ==
  ASSUME IsFiniteSet(Threads), SingleController, IInv, Counts(k), NEW t \in Threads,
         NEW p \in UsedPriorities, SetThreadPriority(t, p)
  PROVE  Counts(k')
<1> USE Basics
<1> DEFINE m == RemoveFromRunQueue(k, t)
           r == [m EXCEPT !.nCurPriority[t] = p]
<1>1. t # InitThread /\ p \in Priorities /\ k' = SetThreadCurrentPriority(k, t, p, cur)
  BY SchedulerAssumption DEF SetThreadPriority, Alive
<1>2. CASE k.dwState[t] # "RUNNING"
  <2>1. k' = [k EXCEPT !.nCurPriority[t] = p]
    BY <1>1, <1>2 DEF SetThreadCurrentPriority
  <2>2. k'.nCountRunning = k.nCountRunning /\ k'.lpNextRun = k.lpNextRun
    BY <2>1 DEF RunQueueType
  <2> QED
    BY <2>2, CountSame
<1>3. CASE k.dwState[t] = "RUNNING"
  <2>1. k' = AddToRunQueue(r, t, cur)
    BY <1>1, <1>3 DEF SetThreadCurrentPriority
  <2>2. Linked(k, t)
    <3>1. t = cur \/ ~BeingResumed(t)
      BY NothingResumed DEF SetThreadPriority, InUser, Running
    <3> QED
      BY <1>3, <3>1 DEF IInv, QueuedOK, SetThreadPriority, InUser, Running
  <2>3. WellFormed(m) /\ ~Linked(m, t)
    BY <1>1, <2>2, RemoveUnlinks
  <2>4. Counts(m)
    BY CountRemove
  <2> HIDE DEF m
  <2>5. /\ r \in RunQueueType
        /\ r.lpNextRun = m.lpNextRun /\ r.lpPrevRun = m.lpPrevRun
        /\ r.lpThreadList = m.lpThreadList /\ r.dwPriorityBitmap = m.dwPriorityBitmap
        /\ r.uPriorityGroup = m.uPriorityGroup
        /\ r.nCurPriority = [m.nCurPriority EXCEPT ![t] = p]
        /\ r.nCountRunning = m.nCountRunning
    BY <1>1, <2>3 DEF WellFormed, RunQueueType
  <2> HIDE DEF r
  <2>6. WellFormed(r) /\ Counts(r)
    BY <1>1, <2>3, <2>4, <2>5, PriorityOfUnlinked, CountSame
  <2> QED
    BY <1>1, <2>1, <2>6, CountAdd
<1> QED
  BY <1>2, <1>3

\* At the start the boot thread is the one counted.
LEMMA CountInit ==
  ASSUME IsFiniteSet(Threads), Init
  PROVE  Counts(k)
<1> DEFINE d == InitThreadData(InitScheduler, BootThread, "RUNNING", 0)
<1>0. BootThread \in Threads \ {InitThread} /\ "RUNNING" \in States /\ 0 \in Nat
  BY SchedulerAssumption DEF States
<1>1. /\ WellFormed(InitScheduler) /\ InitScheduler \in RunQueueType
      /\ \A t \in Threads : Linked(InitScheduler, t) <=> t = InitThread
  BY InitSchedulerWellFormed DEF WellFormed
<1>2. Counts(InitScheduler)
  <2>1. Counted(InitScheduler) = {}
    BY <1>1 DEF Counted
  <2>2. InitScheduler.nCountRunning = 0
    BY DEF InitScheduler
  <2> QED
    BY <2>1, <2>2, FS_EmptySet DEF Counts
<1>3. WellFormed(d)
  BY <1>0, <1>1, InitThreadDataFields
<1>4. d.nCountRunning = InitScheduler.nCountRunning /\ d.lpNextRun = InitScheduler.lpNextRun
  <2> DEFINE i == InitScheduler
  <2>1. i \in RunQueueType
    BY <1>1
  <2> HIDE DEF i
  <2>2. InitThreadData(i, BootThread, "RUNNING", 0).nCountRunning = i.nCountRunning
    BY <2>1 DEF InitThreadData, RunQueueType
  <2>3. InitThreadData(i, BootThread, "RUNNING", 0).lpNextRun = i.lpNextRun
    BY <2>1 DEF InitThreadData, RunQueueType
  <2> QED
    BY <2>2, <2>3 DEF i
<1> HIDE DEF d
<1>5. Counts(d)
  BY <1>2, <1>4, CountSame
<1> QED
  BY <1>0, <1>3, <1>5, CountAdd DEF Init, d

\* GetCountRunning answers the number of ready threads, the initial one left out: every
\* AddToRunQueue and RemoveFromRunQueue that links or unlinks a thread counts it, and no
\* other does, whatever interrupts them.
THEOREM CountIsRight ==
  ASSUME SingleController, NoRotation, IsFiniteSet(Threads)
  PROVE  Spec => []CountRunningOK
<1>1. Init => Counts(k)
  BY CountInit
<1>2. IInv /\ Counts(k) /\ [Next]_vars => Counts(k')
  <2> SUFFICES ASSUME IInv, Counts(k), [Next]_vars
               PROVE  Counts(k')
    OBVIOUS
  <2>1. CASE UNCHANGED vars
    BY <2>1 DEF vars
  <2>2. CASE \/ ScanStep \/ SwitchTo \/ Tick \/ TimerISR \/ TimersDone \/ DeviceInterrupt
             \/ InterruptExit \/ SuspendSelf \/ SleepReturn \/ WaitReturn \/ ExitThread
             \/ BecomeZombie
    BY <2>2, CountUntouched, Basics
  <2>3. ASSUME NEW t \in Threads, CreateThread(t) \/ ResumeThread(t)
        PROVE  Counts(k')
    BY <2>3, CountUntouched
  <2>4. ASSUME NEW t \in Threads, NEW q \in Policies, SetThreadPolicy(t, q)
        PROVE  Counts(k')
    BY <2>4, CountUntouched
  <2>5. ASSUME NEW n \in Sleeps \cup {Off}, Sleep(n)
        PROVE  Counts(k')
    BY <2>5, CountUntouched, Basics
  <2>6. CASE Preempt \/ CpuIdle \/ CallSchedule
    BY <2>6, CountCalls
  <2>7. ASSUME NEW n \in Sleeps \cup {Off}, Wait(n)
        PROVE  Counts(k')
    BY <2>7, CountCalls
  <2>8. ASSUME NEW t \in Threads,
               FireTimer(t) \/ Wakeup(t) \/ SuspendThread(t) \/ TerminateThread(t)
        PROVE  Counts(k')
    BY <2>8, CountOthers
  <2>9. CASE ResumeAdd
    BY <2>9, CountOthers, Basics
  <2>10. ASSUME NEW t \in Threads, NEW p \in UsedPriorities, SetThreadPriority(t, p)
         PROVE  Counts(k')
    BY <2>10, CountPriority
  <2> QED
    BY <2>1, <2>2, <2>3, <2>4, <2>5, <2>6, <2>7, <2>8, <2>9, <2>10 DEF Next
<1>3. Counts(k) => CountRunningOK
  BY DEF Counts, Counted, CountRunningOK
<1> DEFINE C == Counts(k)
<1>4. Init => C
  BY <1>1
<1>5. IInv /\ C /\ [Next]_vars => C'
  BY <1>2 DEF Counts, Counted, Linked
<1>6. C => CountRunningOK
  BY <1>3
<1> HIDE DEF C
<1> QED
  BY <1>4, <1>5, <1>6, InvariantHolds, PTL DEF Spec
=============================================================================
