-------------------------- MODULE SemaphoreProofs ---------------------------
(***************************************************************************)
(* The wait objects keep their types, no object is signalled and waited    *)
(* for at once, and a thread that is gone owns nothing; no signal is lost, *)
(* what is taken has an owner, and a pulse releases whom it marks; for any *)
(* threads, objects and calls.                                             *)
(***************************************************************************)
EXTENDS Semaphore, WellFoundedInduction, TLAPS

\* A thread that waits asks for something, and on its way out only for csSemList.
CallsAsk ==
  \A t \in Threads :
    /\ pc[t] \in {"check", "down", "sleep", "leave"} => call[t].lppsem # <<>>
    /\ call[t].exit => call[t].lppsem = <<csSemList>> /\ ~call[t].bWaitAll
    /\ pc[t] = "sleep" => thr[t].lpWaitQueue = OwnNodes(t)

\* What the object is that a thread works on.
CallsSignal ==
  \A t \in Threads :
    /\ pc[t] \in {"pulse", "pulseUp", "reset"} => Kind[call[t].lpsem] = "manual"
    /\ pc[t] \in {"sweepUp", "clear"} => call[t].lpsem # csSemList

\* Who owns an object has locked it, and csSemList is only taken by its owner.
Locked ==
  /\ \A s \in Sems : sem[s].lpOwner # NULL => sem[s].nLockCount > 0
  /\ sem[csSemList].lpOwner # NULL => sem[csSemList].nCount = 0

\* The sweep of an exiting thread is inside csSemList, and what it leaves has no owner.
Swept ==
  \A t \in Threads :
    /\ pc[t] \in {"sweep", "sweepUp", "clear"} => sem[csSemList].lpOwner = t
    /\ pc[t] \in {"sweepLeave", "detach", "dead"} => Owned(t) = {}

Base == TypeOK /\ CallsAsk /\ CallsSignal /\ Locked /\ Swept /\ NoWaiterWhenSignalled

\* What the proofs use of the assumptions.
LEMMA ConstantFacts ==
  /\ NULL \notin Threads
  /\ csSemList \in Sems
  /\ Kind[csSemList] = "crit"
  /\ 0 \in 0 .. MaxWaiting
  /\ \A s \in Sems : nMaxCount[s] \in Nat \ {0}
  /\ \A s \in Sems : Kind[s] # "semaphore" => nMaxCount[s] = 1
  BY SemaphoreAssumption DEF SemaphoreAssumption

LEMMA NoCallType == NoCall \in CallType
  BY ConstantFacts DEF NoCall, CallType

LEMMA InitBase == Init => Base
<1> SUFFICES ASSUME Init PROVE Base
  OBVIOUS
<1>1. TypeOK
  <2>1. \A s \in Sems : InitCount[s] \in Nat /\ InitCount[s] <= nMaxCount[s]
    BY SemaphoreAssumption DEF SemaphoreAssumption
  <2> QED
    BY <2>1, ConstantFacts, NoCallType DEF Init, TypeOK, SemType, ThreadType, PCs
<1>2. CallsAsk /\ CallsSignal /\ Swept
  BY DEF Init, CallsAsk, CallsSignal, Swept, NoCall
<1>3. Locked /\ NoWaiterWhenSignalled
  BY ConstantFacts DEF Init, Locked, NoWaiterWhenSignalled
<1> QED
  BY <1>1, <1>2, <1>3 DEF Base

\* The least of some numbers is one of them.
LEMMA MinIsOne ==
  ASSUME NEW S, S \subseteq Nat, S # {}
  PROVE  Min(S) \in S
<1> DEFINE less == {p \in Nat \X Nat : p[1] < p[2]}
<1>1. OpToRel(<, Nat) = less
  BY DEF OpToRel
<1>2. IsWellFoundedOn(less, Nat)
  BY <1>1, NatLessThanWellFounded, Zenon
<1> HIDE DEF less
<1>3. PICK m \in S : \A n \in S : <<n, m>> \notin less
  BY <1>2, WFMin, Zenon
<1>4. \A n \in S : m <= n
  <2> SUFFICES ASSUME NEW n \in S, n < m PROVE FALSE
    BY SMT
  <2>1. <<n, m>> \in Nat \X Nat /\ <<n, m>>[1] < <<n, m>>[2]
    OBVIOUS
  <2> QED
    BY <1>3, <2>1 DEF less
<1> QED
  BY <1>4 DEF Min

\* Goto changes the place and the call of one thread.
LEMMA GotoOne ==
  ASSUME TypeOK, NEW t \in Threads, NEW l \in PCs, NEW c \in CallType, Goto(t, l, c)
  PROVE  /\ pc' \in [Threads -> PCs]
         /\ call' \in [Threads -> CallType]
         /\ pc'[t] = l
         /\ call'[t] = IF l = "idle" THEN NoCall ELSE c
         /\ \A u \in Threads \ {t} : pc'[u] = pc[u] /\ call'[u] = call[u]
  BY NoCallType DEF TypeOK, Goto

-----------------------------------------------------------------------------
\* Fields that are set keep the type of a record.
LEMMA SemLocked ==
  ASSUME NEW r \in SemType, NEW k \in Nat
  PROVE  [r EXCEPT !.nLockCount = k] \in SemType
  BY DEF SemType

\* Taking an object: only csSemList and mutexes get an owner, and with it a lock.
LEMMA TakenKeeps ==
  ASSUME NEW s \in Sems, NEW t \in Threads, NEW r \in SemType
  PROVE  /\ Taken(r, s, t) \in SemType
         /\ Taken(r, s, t).nCount <= r.nCount
         /\ Taken(r, s, t).nWaiting = r.nWaiting
         /\ Taken(r, s, t).lpWaitQueue = r.lpWaitQueue
         /\ Taken(r, s, t).lpOwner \in {r.lpOwner, t}
         /\ r.nCount = 0 => Taken(r, s, t).lpOwner = r.lpOwner /\ Taken(r, s, t).nCount = 0
         /\ r.nLockCount > 0 => Taken(r, s, t).nLockCount > 0
         /\ Taken(r, s, t).lpOwner # r.lpOwner => Taken(r, s, t).nLockCount > 0
         /\ Kind[s] = "crit" /\ r.nCount = 1 =>
              Taken(r, s, t).lpOwner = t /\ Taken(r, s, t).nCount = 0
<1>0. r.nCount \in Nat /\ r.lpOwner \in Threads \cup {NULL} /\ r.nLockCount \in Nat
  BY DEF SemType
<1>1. CASE r.nCount = 0
  <2>1. [r EXCEPT !.nLockCount = r.nLockCount + 1] \in SemType
    BY <1>0, SemLocked
  <2>2. Taken(r, s, t) \in {r, [r EXCEPT !.nLockCount = r.nLockCount + 1]}
    BY <1>1 DEF Taken
  <2> QED
    BY <1>0, <1>1, <2>1, <2>2 DEF SemType
<1>2. CASE r.nCount # 0 /\ Kind[s] \in {"mutex", "crit"}
  <2>1. Taken(r, s, t) = [r EXCEPT !.nCount = r.nCount - 1, !.lpOwner = t, !.nLockCount = 1]
    BY <1>2 DEF Taken
  <2>2. r.nCount - 1 \in Nat
    BY <1>2 DEF SemType
  <2>3. Taken(r, s, t) \in SemType
    <3>1. 1 \in Nat /\ t \in Threads \cup {NULL}
      OBVIOUS
    <3> QED
      BY <3>1, <2>1, <2>2 DEF SemType
  <2> QED
    BY <1>0, <1>2, <2>1, <2>2, <2>3 DEF SemType
<1>3. CASE r.nCount # 0 /\ Kind[s] \notin {"mutex", "crit"}
  <2> DEFINE c == IF Kind[s] = "manual" THEN r.nCount ELSE r.nCount - 1
  <2>1. Taken(r, s, t) = [r EXCEPT !.nCount = c, !.lpOwner = r.lpOwner,
                                   !.nLockCount = r.nLockCount]
    BY <1>3 DEF Taken
  <2>2. c \in Nat /\ c <= r.nCount
    BY <1>3 DEF SemType
  <2> HIDE DEF c
  <2>3. Taken(r, s, t) \in SemType
    BY <1>0, <2>1, <2>2 DEF SemType
  <2> QED
    BY <1>0, <1>3, <2>1, <2>2, <2>3 DEF SemType
<1> QED
  BY <1>1, <1>2, <1>3

\* Signalling an object.
LEMMA UpKeeps ==
  ASSUME NEW s \in Sems, NEW n \in Nat \ {0}, NEW owned \in BOOLEAN, NEW r \in SemType
  PROVE  /\ Up(r, s, n, owned) \in SemType
         /\ r.nCount <= nMaxCount[s] => Up(r, s, n, owned).nCount <= nMaxCount[s]
         /\ Up(r, s, n, owned).nWaiting = 0 \/ Up(r, s, n, owned) = r
         /\ Up(r, s, n, owned).lpWaitQueue = r.lpWaitQueue
         /\ Up(r, s, n, owned).lpOwner \in {r.lpOwner, NULL}
         /\ Up(r, s, n, owned).lpOwner # NULL =>
              Up(r, s, n, owned).nLockCount = r.nLockCount
         /\ owned => Up(r, s, n, owned) = r \/ Up(r, s, n, owned).lpOwner = NULL
<1>1. nMaxCount[s] \in Nat
  BY ConstantFacts
<1>2. CASE r.nCount + n > nMaxCount[s]
  BY <1>1, <1>2 DEF Up
<1>3. CASE ~(r.nCount + n > nMaxCount[s])
  <2> DEFINE c == r.nCount + n
             o == IF owned THEN NULL ELSE r.lpOwner
             k == IF owned THEN 0 ELSE r.nLockCount
  <2>1. c \in Nat /\ o \in Threads \cup {NULL} /\ k \in Nat /\ c <= nMaxCount[s]
    BY <1>1, <1>3 DEF SemType
  <2>2. Up(r, s, n, owned) = [r EXCEPT !.nCount = c, !.nWaiting = 0, !.lpOwner = o,
                                       !.nLockCount = k]
    BY <1>3 DEF Up
  <2>3. (owned => o = NULL) /\ (~owned => o = r.lpOwner /\ k = r.nLockCount)
    OBVIOUS
  <2> HIDE DEF c, o, k
  <2>4. Up(r, s, n, owned) \in SemType
    <3>1. 0 \in 0 .. MaxWaiting
      BY ConstantFacts
    <3> QED
      BY <3>1, <2>1, <2>2 DEF SemType
  <2> QED
    BY <2>1, <2>2, <2>3, <2>4 DEF SemType
<1> QED
  BY <1>2, <1>3

LEMMA WakeAllKeeps ==
  ASSUME NEW f \in [Threads -> ThreadType], NEW Q \in SUBSET Nodes
  PROVE  /\ WakeAll(f, Q) \in [Threads -> ThreadType]
         /\ \A t \in Threads :
              /\ WakeAll(f, Q)[t].lpWaitQueue = f[t].lpWaitQueue
              /\ WakeAll(f, Q)[t].timer = f[t].timer
              /\ WakeAll(f, Q)[t].expired = f[t].expired
              /\ WakeAll(f, Q)[t].pulsing = f[t].pulsing
              /\ WakeAll(f, Q)[t].dwState \in {f[t].dwState, "RUNNING"}
<1> SUFFICES ASSUME NEW t \in Threads
             PROVE  /\ WakeAll(f, Q)[t] \in ThreadType
                    /\ WakeAll(f, Q)[t].lpWaitQueue = f[t].lpWaitQueue
                    /\ WakeAll(f, Q)[t].timer = f[t].timer
                    /\ WakeAll(f, Q)[t].expired = f[t].expired
                    /\ WakeAll(f, Q)[t].pulsing = f[t].pulsing
                    /\ WakeAll(f, Q)[t].dwState \in {f[t].dwState, "RUNNING"}
  BY DEF WakeAll
<1> DEFINE mine == {n \in Q : n.lpThread = t}
<1>1. mine # {} => (CHOOSE n \in mine : TRUE) \in Nodes
  BY DEF Nodes
<1> QED
  BY <1>1 DEF WakeAll, ThreadType

-----------------------------------------------------------------------------
\* The objects keep what Base says of them, and no other thread gains or loses any.
SemsKept(t) ==
  /\ sem' \in [Sems -> SemType]
  /\ \A s \in Sems :
       /\ sem'[s].nCount <= nMaxCount[s]
       /\ sem'[s].nCount = 0 \/ sem'[s].nWaiting = 0
       /\ sem'[s].lpOwner # NULL => sem'[s].nLockCount > 0
       /\ sem'[s].lpOwner \in {sem[s].lpOwner, t, NULL}
  /\ sem'[csSemList].lpOwner # NULL => sem'[csSemList].nCount = 0
  /\ sem[csSemList].lpOwner \in {t, NULL} \/ sem'[csSemList].lpOwner = sem[csSemList].lpOwner

ThreadsKept(t) ==
  /\ thr' \in [Threads -> ThreadType]
  /\ \A u \in Threads \ {t} : thr'[u].lpWaitQueue = thr[u].lpWaitQueue

\* Thread t may go on at l in the call c.
MayGo(t, l, c) ==
  /\ l \in {"check", "down", "sleep", "leave"} => c.lppsem # <<>>
  /\ c.exit => c.lppsem = <<csSemList>> /\ ~c.bWaitAll
  /\ l # "sleep"
  /\ l \in {"pulse", "pulseUp", "reset"} => Kind[c.lpsem] = "manual"
  /\ l \in {"sweepUp", "clear"} => c.lpsem # csSemList
  /\ l \in {"sweep", "sweepUp", "clear"} => sem'[csSemList].lpOwner = t
  /\ l \in {"sweepLeave", "detach", "dead"} => Owned(t)' = {}

\* It sleeps, in the call it is in.
MaySleep(t) ==
  /\ call[t].lppsem # <<>>
  /\ call[t].exit => call[t].lppsem = <<csSemList>> /\ ~call[t].bWaitAll
  /\ thr'[t].lpWaitQueue = OwnNodes(t)

LEMMA StepBase ==
  ASSUME Base, NEW t \in Threads, NEW l \in PCs, NEW c \in CallType,
         Goto(t, l, c), SemsKept(t), ThreadsKept(t),
         MayGo(t, l, c) \/ (l = "sleep" /\ c = call[t] /\ MaySleep(t))
  PROVE  Base'
<1>1. /\ pc' \in [Threads -> PCs]
      /\ call' \in [Threads -> CallType]
      /\ pc'[t] = l
      /\ call'[t] = IF l = "idle" THEN NoCall ELSE c
      /\ \A u \in Threads \ {t} : pc'[u] = pc[u] /\ call'[u] = call[u]
  BY GotoOne DEF Base
<1>2. TypeOK'
  BY <1>1 DEF TypeOK, SemsKept, ThreadsKept
<1>3. CallsAsk'
  <2>1. ~NoCall.exit
    BY DEF NoCall
  <2>2. \A u \in Threads \ {t} : OwnNodes(u)' = OwnNodes(u)
    BY <1>1 DEF OwnNodes, Objs, Indices, Obj
  <2>3. c = call[t] /\ l = "sleep" => OwnNodes(t)' = OwnNodes(t)
    BY <1>1 DEF OwnNodes, Objs, Indices, Obj
  <2> QED
    BY <1>1, <2>1, <2>2, <2>3 DEF Base, CallsAsk, MayGo, MaySleep, ThreadsKept
<1>4. CallsSignal'
  BY <1>1 DEF Base, CallsSignal, MayGo
<1>5. Swept'
  <2>1. ASSUME NEW u \in Threads \ {t}
        PROVE  /\ pc'[u] \in {"sweep", "sweepUp", "clear"} => sem'[csSemList].lpOwner = u
               /\ pc'[u] \in {"sweepLeave", "detach", "dead"} => Owned(u)' = {}
    BY <1>1, <2>1, ConstantFacts DEF Base, Swept, SemsKept, Owned
  <2> QED
    BY <1>1, <2>1 DEF Swept, MayGo
<1>6. Locked' /\ NoWaiterWhenSignalled'
  BY DEF SemsKept, Locked, NoWaiterWhenSignalled
<1> QED
  BY <1>2, <1>3, <1>4, <1>5, <1>6 DEF Base

\* A step may leave the counts, owners and locks alone.
LEMMA SameSems ==
  ASSUME Base, NEW t \in Threads, sem' \in [Sems -> SemType],
         \A s \in Sems :
           /\ sem'[s].nCount = sem[s].nCount
           /\ sem'[s].nWaiting = sem[s].nWaiting \/ sem[s].nCount = 0
           /\ sem'[s].lpOwner = sem[s].lpOwner
           /\ sem'[s].nLockCount = sem[s].nLockCount
  PROVE  SemsKept(t)
<1>1. ASSUME NEW s \in Sems
      PROVE  /\ sem'[s].nCount <= nMaxCount[s]
             /\ sem'[s].nCount = 0 \/ sem'[s].nWaiting = 0
             /\ sem'[s].lpOwner # NULL => sem'[s].nLockCount > 0
             /\ sem'[s].lpOwner \in {sem[s].lpOwner, t, NULL}
  <2>1. sem[s].nCount <= nMaxCount[s]
    BY DEF Base, TypeOK
  <2>2. sem[s].nCount = 0 \/ sem[s].nWaiting = 0
    BY DEF Base, NoWaiterWhenSignalled
  <2>3. sem[s].lpOwner # NULL => sem[s].nLockCount > 0
    BY DEF Base, Locked
  <2> QED
    BY <2>1, <2>2, <2>3
<1>2. sem[csSemList].lpOwner # NULL => sem[csSemList].nCount = 0
  BY DEF Base, Locked
<1> QED
  BY <1>1, <1>2, ConstantFacts DEF SemsKept

\* Or change one object.
LEMMA OneSem ==
  ASSUME Base, NEW t \in Threads, NEW s \in Sems, NEW r \in SemType,
         sem' = [sem EXCEPT ![s] = r],
         r.nCount <= nMaxCount[s],
         r.nCount = 0 \/ r.nWaiting = 0,
         r.lpOwner # NULL => r.nLockCount > 0,
         r.lpOwner \in {sem[s].lpOwner, t, NULL},
         s = csSemList => /\ r.lpOwner # NULL => r.nCount = 0
                          /\ sem[s].lpOwner \in {t, NULL} \/ r.lpOwner = sem[s].lpOwner
  PROVE  SemsKept(t)
<1>1. sem \in [Sems -> SemType]
  BY DEF Base, TypeOK
<1>2. sem' \in [Sems -> SemType] /\ sem'[s] = r /\ \A z \in Sems \ {s} : sem'[z] = sem[z]
  BY <1>1
<1> QED
  BY <1>2, ConstantFacts DEF Base, TypeOK, Locked, NoWaiterWhenSignalled, SemsKept

\* What is left when t signals s.
LEMMA SignalKeeps ==
  ASSUME Base, NEW t \in Threads, NEW s \in Sems, NEW n \in Nat \ {0}, NEW owned \in BOOLEAN,
         sem' = [sem EXCEPT ![s] = Up(sem[s], s, n, owned)],
         s = csSemList => owned /\ sem[s].lpOwner = t
  PROVE  /\ SemsKept(t)
         /\ \A z \in Sems : sem'[z].lpOwner \in {sem[z].lpOwner, NULL}
         /\ s # csSemList => sem'[csSemList].lpOwner = sem[csSemList].lpOwner
<1>1. /\ Up(sem[s], s, n, owned) \in SemType
      /\ Up(sem[s], s, n, owned).nCount <= nMaxCount[s]
      /\ Up(sem[s], s, n, owned).nWaiting = 0 \/ Up(sem[s], s, n, owned) = sem[s]
      /\ Up(sem[s], s, n, owned).lpOwner \in {sem[s].lpOwner, NULL}
      /\ Up(sem[s], s, n, owned).lpOwner # NULL =>
           Up(sem[s], s, n, owned).nLockCount = sem[s].nLockCount
      /\ owned => Up(sem[s], s, n, owned) = sem[s] \/ Up(sem[s], s, n, owned).lpOwner = NULL
  <2>1. sem[s] \in SemType /\ sem[s].nCount <= nMaxCount[s]
    BY DEF Base, TypeOK
  <2> QED
    BY <2>1, UpKeeps
<1> DEFINE r == Up(sem[s], s, n, owned)
<1> HIDE DEF r
<1>2. sem' = [sem EXCEPT ![s] = r]
  BY DEF r
<1>3. SemsKept(t)
  <2>1. r.nCount = 0 \/ r.nWaiting = 0
    BY <1>1 DEF r, Base, NoWaiterWhenSignalled
  <2>2. r.lpOwner # NULL => r.nLockCount > 0
    BY <1>1 DEF r, Base, Locked
  <2>3. s = csSemList => (r.lpOwner # NULL => r.nCount = 0)
    BY <1>1 DEF r, Base, Locked
  <2> QED
    BY <1>1, <1>2, <2>1, <2>2, <2>3, OneSem DEF r
<1> QED
  BY <1>1, <1>2, <1>3, ConstantFacts DEF Base, TypeOK, r

\* Where t may go on when it has signalled s.
AfterSignal(t, s, l) ==
  /\ l \in PCs \ {"check", "down", "sleep", "leave"}
  /\ l \in {"pulse", "pulseUp", "reset"} => Kind[s] = "manual"
  /\ l \in {"sweep", "sweepUp", "clear"} => sem[csSemList].lpOwner = t /\ s # csSemList
  /\ l \in {"sweepLeave", "detach", "dead"} => Owned(t) = {}

LEMMA SignalBase ==
  ASSUME Base, NEW t \in Threads, NEW s \in Sems, NEW n \in Nat \ {0}, NEW owned \in BOOLEAN,
         NEW l, NEW wake, NEW next, Signal(t, s, n, owned, l, wake, next),
         s = csSemList => owned /\ sem[s].lpOwner = t,
         AfterSignal(t, s, wake), AfterSignal(t, s, next)
  PROVE  Base'
<1> DEFINE go == IF MustWake(sem[s], s, n) THEN wake ELSE next
           c == [call[t] EXCEPT !.lpsem = s]
<1>1. go \in PCs /\ AfterSignal(t, s, go)
  BY DEF AfterSignal
<1>2. call[t] \in CallType
  BY DEF Base, TypeOK
<1>3. /\ c \in CallType
      /\ c.lpsem = s /\ c.lppsem = call[t].lppsem
      /\ c.exit = call[t].exit /\ c.bWaitAll = call[t].bWaitAll
  BY <1>2 DEF CallType
<1>4. Goto(t, go, c) /\ thr' = thr /\ sem' = [sem EXCEPT ![s] = Up(sem[s], s, n, owned)]
  BY DEF Signal
<1> HIDE DEF go, c
<1>5. /\ SemsKept(t)
      /\ \A z \in Sems : sem'[z].lpOwner \in {sem[z].lpOwner, NULL}
      /\ s # csSemList => sem'[csSemList].lpOwner = sem[csSemList].lpOwner
  BY <1>4, SignalKeeps
<1>6. Owned(t) = {} => Owned(t)' = {}
  BY <1>5, ConstantFacts DEF Owned
<1>7. MayGo(t, go, c)
  BY <1>1, <1>3, <1>5, <1>6 DEF AfterSignal, MayGo, Base, CallsAsk
<1>8. ThreadsKept(t)
  BY <1>4 DEF ThreadsKept, Base, TypeOK
<1> QED
  BY <1>1, <1>3, <1>4, <1>5, <1>7, <1>8, StepBase

LEMMA WakeBase ==
  ASSUME Base, NEW t \in Threads, NEW l \in PCs, NEW next \in PCs,
         WakeupWaitQueue(t, l, next),
         next \notin {"check", "down", "sleep", "leave"},
         next \in {"pulse", "pulseUp", "reset"} => Kind[call[t].lpsem] = "manual",
         next \in {"sweepUp", "clear"} => call[t].lpsem # csSemList,
         next \in {"sweep", "sweepUp", "clear"} => sem[csSemList].lpOwner = t,
         next \in {"sweepLeave", "detach", "dead"} => Owned(t) = {}
  PROVE  Base'
<1>1. /\ thr' = WakeAll(thr, sem[call[t].lpsem].lpWaitQueue) /\ sem' = sem
      /\ Goto(t, next, call[t]) /\ call[t] \in CallType
  BY DEF WakeupWaitQueue, Base, TypeOK
<1>2. thr \in [Threads -> ThreadType] /\ sem[call[t].lpsem].lpWaitQueue \in SUBSET Nodes
  BY DEF Base, TypeOK, CallType, SemType
<1>3. ThreadsKept(t)
  BY <1>1, <1>2, WakeAllKeeps DEF ThreadsKept
<1>4. SemsKept(t)
  BY <1>1, SameSems DEF Base, TypeOK
<1>5. MayGo(t, next, call[t])
  BY <1>1 DEF MayGo, Owned, Base, CallsAsk
<1> QED
  BY <1>1, <1>3, <1>4, <1>5, StepBase

LEMMA LowerBase ==
  ASSUME Base, NEW t \in Threads, NEW s \in Sems, NEW l \in PCs, NEW next \in {"idle", "detach"},
         LowerLockCount(t, s, l, next),
         next = "detach" => Owned(t) = {},
         sem[s].lpOwner = t, sem[s].nLockCount # 1
  PROVE  Base'
<1> DEFINE r == [sem[s] EXCEPT !.nLockCount = sem[s].nLockCount - 1]
<1>1. /\ sem' = [sem EXCEPT ![s] = r]
      /\ thr' = thr /\ Goto(t, next, call[t]) /\ call[t] \in CallType
  BY DEF LowerLockCount, Base, TypeOK
<1>2. sem[s] \in SemType /\ sem[s].nLockCount - 1 \in Nat /\ sem[s].nLockCount - 1 > 0
  BY ConstantFacts DEF Base, TypeOK, SemType, Locked
<1>3. /\ r \in SemType
      /\ r.nCount = sem[s].nCount /\ r.nWaiting = sem[s].nWaiting
      /\ r.lpOwner = t /\ r.nLockCount > 0
  BY <1>2 DEF SemType
<1> HIDE DEF r
<1>4. SemsKept(t)
  BY <1>1, <1>3, OneSem DEF Base, TypeOK, NoWaiterWhenSignalled, Locked
<1>5. Owned(t) = {} => Owned(t)' = {}
  BY <1>1, <1>3 DEF Owned, Base, TypeOK
<1>6. MayGo(t, next, call[t])
  BY <1>1, <1>5 DEF MayGo, Base, CallsAsk
<1>7. ThreadsKept(t) /\ next \in PCs
  BY <1>1 DEF ThreadsKept, Base, TypeOK, PCs
<1> QED
  BY <1>1, <1>4, <1>6, <1>7, StepBase

\* SemaphoreReset, of an event.
LEMMA ResetBase ==
  ASSUME Base, NEW t \in Threads, NEW s \in Sems, NEW l \in PCs, SemaphoreReset(t, s, l)
  PROVE  Base'
<1> DEFINE r == [sem[s] EXCEPT !.nCount = 0]
<1>1. /\ sem' = [sem EXCEPT ![s] = r]
      /\ thr' = thr /\ Goto(t, "idle", call[t]) /\ call[t] \in CallType
  BY DEF SemaphoreReset, Base, TypeOK
<1>2. sem[s] \in SemType
  BY DEF Base, TypeOK
<1>3. /\ r \in SemType /\ r.nCount = 0
      /\ r.lpOwner = sem[s].lpOwner /\ r.nLockCount = sem[s].nLockCount
  BY <1>2 DEF SemType
<1> HIDE DEF r
<1>4. SemsKept(t)
  <2>1. r.nCount <= nMaxCount[s]
    BY <1>3, ConstantFacts
  <2>2. r.lpOwner # NULL => r.nLockCount > 0
    BY <1>3 DEF Base, Locked
  <2> QED
    BY <1>1, <1>3, <2>1, <2>2, OneSem
<1>5. MayGo(t, "idle", call[t])
  BY DEF MayGo, Base, CallsAsk
<1>6. ThreadsKept(t) /\ "idle" \in PCs
  BY <1>1 DEF ThreadsKept, Base, TypeOK, PCs
<1> QED
  BY <1>1, <1>4, <1>5, <1>6, StepBase

-----------------------------------------------------------------------------
(* The calls that wait *)

LEMMA WaitBase ==
  ASSUME Base, NEW t \in Threads, NEW s \in Sems, NEW z \in Sems,
         NEW objs, objs = <<s>> \/ objs = <<s, z>>,
         NEW all \in BOOLEAN, NEW timed \in BOOLEAN, Wait(t, objs, all, timed)
  PROVE  Base'
<1> DEFINE c == [NoCall EXCEPT !.lppsem = objs, !.bWaitAll = all, !.timed = timed]
<1>1. c \in CallType /\ c.lppsem # <<>> /\ ~c.exit
  <2>1. objs \in Seq(Sems) /\ objs # <<>>
    <3>1. CASE objs = <<s>>
      BY <3>1
    <3>2. CASE objs = <<s, z>>
      BY <3>2
    <3> QED
      BY <3>1, <3>2
  <2>2. NoCall \in CallType /\ ~NoCall.exit
    BY NoCallType DEF NoCall
  <2> QED
    BY <2>1, <2>2 DEF CallType
<1>2. thr \in [Threads -> ThreadType]
  BY DEF Base, TypeOK
<1>3. [thr[t] EXCEPT !.pulsing = FALSE] \in ThreadType
  BY <1>2 DEF ThreadType
<1>4. thr' = [thr EXCEPT ![t] = [thr[t] EXCEPT !.pulsing = FALSE]] /\ sem' = sem /\ Goto(t, "check", c)
  BY DEF Wait
<1> HIDE DEF c
<1>5. ThreadsKept(t)
  BY <1>2, <1>3, <1>4 DEF ThreadsKept
<1>6. SemsKept(t) /\ "check" \in PCs
  BY <1>4, SameSems DEF Base, TypeOK, PCs
<1>7. MayGo(t, "check", c)
  BY <1>1 DEF MayGo
<1> QED
  BY <1>1, <1>4, <1>5, <1>6, <1>7, StepBase

LEMMA CheckCountBase ==
  ASSUME Base, NEW t \in Threads, CheckCount(t)
  PROVE  Base'
<1> DEFINE next == IF Takes(t) = {} THEN "down" ELSE IF call[t].exit THEN "sweep" ELSE "idle"
           T == {s \in Sems : \E i \in Takes(t) : Obj(t, i) = s}
<1>1. /\ sem' = [s \in Sems |-> IF s \in T THEN Taken(sem[s], s, t) ELSE sem[s]]
      /\ thr' = [thr EXCEPT ![t] = [thr[t] EXCEPT !.pulsing = thr[t].pulsing /\ ~SpendsPulse(t)]]
      /\ Goto(t, next, call[t])
      /\ call[t] \in CallType /\ pc[t] = "check"
  BY DEF CheckCount, Base, TypeOK, At
<1>2. next \in {"down", "sweep", "idle"} /\ next \in PCs
  BY DEF PCs
<1>3. ASSUME next = "sweep"
      PROVE  csSemList \in T /\ sem[csSemList].nCount > 0
  <2>1. call[t].lppsem = <<csSemList>>
    BY <1>3 DEF Base, CallsAsk
  <2>2. PICK i \in Takes(t) : TRUE
    BY <1>3
  <2>3. i \in Indices(t) /\ Available(t, i)
    <3> DEFINE ready == {j \in Indices(t) : Available(t, j)}
    <3>1. ready \subseteq Nat
      BY <2>1 DEF Indices
    <3>2. Takes(t) \subseteq ready
      BY <3>1, MinIsOne DEF Takes
    <3> QED
      BY <2>2, <3>2
  <2>4. i = 1 /\ Obj(t, i) = csSemList
    BY <2>1, <2>3 DEF Indices, Obj
  <2>5. sem[csSemList].nCount > 0
    BY <2>3, <2>4, ConstantFacts DEF Available, Pulsed
  <2> QED
    BY <2>2, <2>4, <2>5, ConstantFacts
<1> HIDE DEF next, T
<1>4. \A s \in Sems : sem[s] \in SemType /\ sem[s].nCount <= nMaxCount[s]
  BY DEF Base, TypeOK
<1>5. SemsKept(t)
  <2>1. \A s \in Sems : Taken(sem[s], s, t) \in SemType
    BY <1>4, TakenKeeps
  <2>2. sem' \in [Sems -> SemType]
    BY <1>1, <1>4, <2>1
  <2>3. ASSUME NEW s \in Sems
        PROVE  /\ sem'[s].nCount <= nMaxCount[s]
               /\ sem'[s].nCount = 0 \/ sem'[s].nWaiting = 0
               /\ sem'[s].lpOwner # NULL => sem'[s].nLockCount > 0
               /\ sem'[s].lpOwner \in {sem[s].lpOwner, t, NULL}
    <3>1. CASE s \notin T
      BY <1>1, <3>1 DEF Base, TypeOK, NoWaiterWhenSignalled, Locked
    <3>2. CASE s \in T
      <4>1. sem'[s] = Taken(sem[s], s, t)
        BY <1>1, <3>2
      <4>2. sem[s].nCount = 0 \/ sem[s].nWaiting = 0
        BY DEF Base, NoWaiterWhenSignalled
      <4>3. sem[s].lpOwner # NULL => sem[s].nLockCount > 0
        BY DEF Base, Locked
      <4>4. /\ Taken(sem[s], s, t).nCount <= sem[s].nCount
            /\ Taken(sem[s], s, t).nWaiting = sem[s].nWaiting
            /\ Taken(sem[s], s, t).lpOwner \in {sem[s].lpOwner, t}
            /\ sem[s].nCount = 0 => Taken(sem[s], s, t).nCount = 0
            /\ sem[s].nLockCount > 0 => Taken(sem[s], s, t).nLockCount > 0
            /\ Taken(sem[s], s, t).lpOwner # sem[s].lpOwner => Taken(sem[s], s, t).nLockCount > 0
        BY <1>4, TakenKeeps
      <4>5. Taken(sem[s], s, t).nCount \in Nat /\ sem[s].nCount \in Nat /\ nMaxCount[s] \in Nat
        BY <1>4, <2>1, ConstantFacts DEF SemType
      <4> QED
        BY <1>4, <4>1, <4>2, <4>3, <4>4, <4>5
    <3> QED
      BY <3>1, <3>2
  <2>4. /\ sem'[csSemList].lpOwner # NULL => sem'[csSemList].nCount = 0
        /\ sem[csSemList].lpOwner \in {t, NULL} \/ sem'[csSemList].lpOwner = sem[csSemList].lpOwner
    <3>1. sem[csSemList].nCount \in {0, 1} /\ sem[csSemList] \in SemType
      BY <1>4, ConstantFacts DEF SemType
    <3>2. sem[csSemList].lpOwner # NULL => sem[csSemList].nCount = 0
      BY DEF Base, Locked
    <3>3. /\ sem[csSemList].nCount = 0 =>
               /\ Taken(sem[csSemList], csSemList, t).lpOwner = sem[csSemList].lpOwner
               /\ Taken(sem[csSemList], csSemList, t).nCount = 0
          /\ sem[csSemList].nCount = 1 => Taken(sem[csSemList], csSemList, t).nCount = 0
      BY <3>1, TakenKeeps, ConstantFacts
    <3> QED
      BY <1>1, <3>1, <3>2, <3>3, ConstantFacts
  <2> QED
    BY <2>2, <2>3, <2>4 DEF SemsKept
<1>6. ThreadsKept(t)
  <2>1. thr \in [Threads -> ThreadType]
    BY DEF Base, TypeOK
  <2>2. [thr[t] EXCEPT !.pulsing = thr[t].pulsing /\ ~SpendsPulse(t)] \in ThreadType
    <3> DEFINE p == thr[t].pulsing /\ ~SpendsPulse(t)
    <3>1. p \in BOOLEAN
      OBVIOUS
    <3> HIDE DEF p
    <3>2. [thr[t] EXCEPT !.pulsing = p] \in ThreadType
      BY <2>1, <3>1 DEF ThreadType
    <3> QED
      BY <3>2 DEF p
  <2> QED
    BY <1>1, <2>1, <2>2 DEF ThreadsKept
<1>7. MayGo(t, next, call[t])
  <2>1. ASSUME next = "sweep" PROVE sem'[csSemList].lpOwner = t
    <3>1. sem[csSemList].nCount = 1 /\ sem[csSemList] \in SemType
      BY <1>3, <1>4, <2>1, ConstantFacts DEF SemType
    <3>2. Taken(sem[csSemList], csSemList, t).lpOwner = t
      BY <3>1, TakenKeeps, ConstantFacts
    <3> QED
      BY <1>1, <1>3, <2>1, <3>2, ConstantFacts
  <2> QED
    BY <1>1, <1>2, <2>1 DEF MayGo, Base, CallsAsk
<1> QED
  BY <1>1, <1>2, <1>5, <1>6, <1>7, StepBase

\* The thread waits no more, or sleeps: S and r are the objects and the thread before.
Waits(t, S, r) ==
  /\ pc[t] \in {"down", "sleep"}
  /\ S \in [Sems -> SemType]
  /\ \A s \in Sems :
       /\ S[s].nCount = sem[s].nCount /\ S[s].nWaiting = sem[s].nWaiting
       /\ S[s].lpOwner = sem[s].lpOwner /\ S[s].nLockCount = sem[s].nLockCount
  /\ r \in ThreadType
  /\ r.lpWaitQueue = OwnNodes(t)

LEMMA ReturnBase ==
  ASSUME Base, NEW t \in Threads, NEW S, NEW r, Waits(t, S, r),
         NEW i \in Nat, ReturnFromDown(t, S, r, i)
  PROVE  Base'
<1> DEFINE c == [call[t] EXCEPT !.dwRetv = i]
           q == [r EXCEPT !.dwState = "RUNNING", !.expired = TRUE, !.lpWaitQueue = {}]
<1>1. call[t] \in CallType
  BY DEF Base, TypeOK
<1>2. c \in CallType /\ c.lppsem = call[t].lppsem /\ c.exit = call[t].exit /\ c.bWaitAll = call[t].bWaitAll
  BY <1>1 DEF CallType
<1>3. q \in ThreadType
  BY DEF Waits, ThreadType
<1>4. sem' = S /\ thr' = [thr EXCEPT ![t] = q] /\ Goto(t, "leave", c)
  BY DEF ReturnFromDown
<1> HIDE DEF c, q
<1>5. SemsKept(t)
  BY <1>4, SameSems DEF Waits
<1>6. ThreadsKept(t) /\ "leave" \in PCs
  BY <1>3, <1>4 DEF ThreadsKept, Base, TypeOK, PCs
<1>7. MayGo(t, "leave", c)
  BY <1>2 DEF MayGo, Base, CallsAsk, Waits
<1> QED
  BY <1>2, <1>4, <1>5, <1>6, <1>7, StepBase

LEMMA PassBase ==
  ASSUME Base, NEW t \in Threads, NEW S, NEW r, Waits(t, S, r), Pass(t, S, r)
  PROVE  Base'
<1> DEFINE signalled == {i \in Indices(t) : S[Obj(t, i)].nCount > 0}
<1>1. call[t] \in CallType /\ call[t].lppsem \in Seq(Sems)
  BY DEF Base, TypeOK, CallType
<1>2. CASE signalled # {}
  <2>1. Indices(t) \subseteq Nat
    BY <1>1 DEF Indices
  <2>2. Min(signalled) \in Nat
    BY <1>2, <2>1, MinIsOne
  <2>3. ReturnFromDown(t, S, r, Min(signalled))
    BY <1>2 DEF Pass
  <2> QED
    BY <2>2, <2>3, ReturnBase
<1>3. CASE signalled = {} /\ call[t].timed /\ r.expired
  <2>1. ReturnFromDown(t, S, r, 0)
    BY <1>3 DEF Pass
  <2> QED
    BY <2>1, ReturnBase
<1>4. CASE signalled = {} /\ ~(call[t].timed /\ r.expired)
  <2>1. /\ sem' = [s \in Sems |-> IF s \in Objs(t) THEN [S[s] EXCEPT !.nWaiting = CountWaiter(S[s].nWaiting)]
                                                  ELSE S[s]]
        /\ \E q \in {[r EXCEPT !.dwState = IF call[t].timed THEN "INTERRUPTIBLE" ELSE "UNINTERRUPTIBLE"],
                     [r EXCEPT !.expired = TRUE]} : thr' = [thr EXCEPT ![t] = q]
        /\ Goto(t, "sleep", call[t])
    BY <1>4 DEF Pass
  <2>2. PICK q \in ThreadType : thr' = [thr EXCEPT ![t] = q] /\ q.lpWaitQueue = OwnNodes(t)
    <3>1. \A q \in {[r EXCEPT !.dwState = IF call[t].timed THEN "INTERRUPTIBLE" ELSE "UNINTERRUPTIBLE"],
                     [r EXCEPT !.expired = TRUE]} : q \in ThreadType /\ q.lpWaitQueue = OwnNodes(t)
      BY DEF Waits, ThreadType
    <3> QED
      BY <2>1, <3>1
  <2>3. ThreadsKept(t) /\ thr'[t].lpWaitQueue = OwnNodes(t) /\ "sleep" \in PCs
    BY <2>2 DEF ThreadsKept, Base, TypeOK, PCs
  <2>4. ASSUME NEW s \in Sems
        PROVE  /\ sem'[s] \in SemType
               /\ sem'[s].nCount = sem[s].nCount
               /\ sem'[s].nWaiting = sem[s].nWaiting \/ sem[s].nCount = 0
               /\ sem'[s].lpOwner = sem[s].lpOwner
               /\ sem'[s].nLockCount = sem[s].nLockCount
    <3>1. S[s] \in SemType
      BY DEF Waits
    <3>2. CASE s \notin Objs(t)
      BY <2>1, <3>1, <3>2 DEF Waits
    <3>3. CASE s \in Objs(t)
      <4>1. S[s].nCount = 0
        BY <1>4, <3>1, <3>3 DEF Objs, SemType
      <4>2. CountWaiter(S[s].nWaiting) \in 0 .. MaxWaiting
        BY <3>1, SemaphoreAssumption DEF CountWaiter, SemType, SemaphoreAssumption
      <4>3. sem'[s] = [S[s] EXCEPT !.nWaiting = CountWaiter(S[s].nWaiting)]
        BY <2>1, <3>3
      <4> QED
        BY <3>1, <4>1, <4>2, <4>3 DEF Waits, SemType
    <3> QED
      BY <3>2, <3>3
  <2>5. SemsKept(t)
    <3>1. sem' \in [Sems -> SemType]
      BY <2>1, <2>4
    <3> QED
      BY <2>4, <3>1, SameSems
  <2>6. MaySleep(t)
    BY <2>3 DEF MaySleep, Waits, Base, CallsAsk
  <2> QED
    BY <1>1, <2>1, <2>3, <2>5, <2>6, StepBase
<1> QED
  BY <1>2, <1>3, <1>4

\* The wait elements of a thread.
LEMMA OwnNodesType ==
  ASSUME Base, NEW t \in Threads
  PROVE  OwnNodes(t) \subseteq Nodes
<1>1. call[t].lppsem \in Seq(Sems) /\ call[t].exit \in BOOLEAN
  BY DEF Base, TypeOK, CallType
<1>2. Objs(t) \subseteq Sems
  BY <1>1 DEF Objs, Obj, Indices
<1> QED
  BY <1>1, <1>2 DEF OwnNodes, Nodes

LEMMA EnterDownBase ==
  ASSUME Base, NEW t \in Threads, EnterDown(t)
  PROVE  Base'
<1> DEFINE S == [s \in Sems |-> IF s \in Objs(t)
                   THEN [sem[s] EXCEPT !.lpWaitQueue = sem[s].lpWaitQueue \cup {n \in OwnNodes(t) : n.sem = s}]
                   ELSE sem[s]]
           r == [thr[t] EXCEPT !.lpWaitQueue = OwnNodes(t), !.timer = thr[t].timer \/ call[t].timed,
                               !.expired = thr[t].expired /\ ~call[t].timed]
<1>1. pc[t] = "down" /\ Pass(t, S, r)
  BY DEF EnterDown, At
<1>2. ASSUME NEW s \in Sems
      PROVE  /\ S[s] \in SemType
             /\ S[s].nCount = sem[s].nCount /\ S[s].nWaiting = sem[s].nWaiting
             /\ S[s].lpOwner = sem[s].lpOwner /\ S[s].nLockCount = sem[s].nLockCount
  <2>1. sem[s] \in SemType
    BY DEF Base, TypeOK
  <2>2. {n \in OwnNodes(t) : n.sem = s} \in SUBSET Nodes
    BY OwnNodesType
  <2> QED
    BY <2>1, <2>2 DEF SemType
<1>3. r \in ThreadType /\ r.lpWaitQueue = OwnNodes(t)
  <2> DEFINE timer == thr[t].timer \/ call[t].timed
             expired == thr[t].expired /\ ~call[t].timed
  <2>1. timer \in BOOLEAN /\ expired \in BOOLEAN
    OBVIOUS
  <2>2. thr[t] \in ThreadType /\ OwnNodes(t) \in SUBSET Nodes
    BY OwnNodesType DEF Base, TypeOK
  <2> HIDE DEF timer, expired
  <2>3. /\ [thr[t] EXCEPT !.lpWaitQueue = OwnNodes(t), !.timer = timer, !.expired = expired] \in ThreadType
        /\ [thr[t] EXCEPT !.lpWaitQueue = OwnNodes(t), !.timer = timer, !.expired = expired].lpWaitQueue
              = OwnNodes(t)
    BY <2>1, <2>2 DEF ThreadType
  <2> QED
    BY <2>3 DEF timer, expired
<1>4. Waits(t, S, r)
  BY <1>1, <1>2, <1>3 DEF Waits
<1> HIDE DEF S, r
<1> QED
  BY <1>1, <1>4, PassBase

LEMMA ResumeBase ==
  ASSUME Base, NEW t \in Threads, Resume(t)
  PROVE  Base'
<1> DEFINE rouser == thr[t].lpRouser
           r == [thr[t] EXCEPT !.lpRouser = NULL]
           i == CHOOSE j \in Indices(t) : Obj(t, j) = rouser.sem
<1>1. pc[t] = "sleep" /\ thr[t] \in ThreadType /\ thr[t].lpWaitQueue = OwnNodes(t)
  BY DEF Resume, At, Base, TypeOK, CallsAsk
<1>2. r \in ThreadType /\ r.lpWaitQueue = OwnNodes(t)
  BY <1>1 DEF ThreadType
<1>3. Waits(t, sem, r)
  BY <1>1, <1>2 DEF Waits, Base, TypeOK
<1>4. CASE rouser \in r.lpWaitQueue /\ (sem[rouser.sem].nCount > 0 \/ r.pulsing)
  <2>1. \E j \in Indices(t) : Obj(t, j) = rouser.sem
    BY <1>2, <1>4 DEF OwnNodes, Objs
  <2>2. Indices(t) \subseteq Nat
    BY DEF Base, TypeOK, CallType, Indices
  <2>3. i \in Nat
    BY <2>1, <2>2
  <2>4. ReturnFromDown(t, sem, r, i)
    BY <1>4 DEF Resume
  <2> QED
    BY <1>3, <2>3, <2>4, ReturnBase
<1>5. CASE ~(rouser \in r.lpWaitQueue /\ (sem[rouser.sem].nCount > 0 \/ r.pulsing))
  BY <1>3, <1>5, PassBase DEF Resume
<1> QED
  BY <1>4, <1>5

LEMMA AllocFailsBase ==
  ASSUME Base, NEW t \in Threads, AllocFails(t)
  PROVE  Base'
<1> DEFINE l == IF Kind[Obj(t, 1)] = "crit" THEN "check" ELSE "idle"
<1>1. /\ Goto(t, l, call[t]) /\ sem' = sem /\ thr' = thr /\ pc[t] = "down"
      /\ l \in {"check", "idle"} /\ l \in PCs /\ call[t] \in CallType
  BY DEF AllocFails, At, PCs, Base, TypeOK
<1>2. SemsKept(t) /\ ThreadsKept(t)
  BY <1>1, SameSems DEF ThreadsKept, Base, TypeOK
<1>3. MayGo(t, l, call[t])
  BY <1>1 DEF MayGo, Base, CallsAsk
<1> QED
  BY <1>1, <1>2, <1>3, StepBase

\* Wait elements are only taken off the queues.
LEMMA DequeueKeeps ==
  ASSUME Base, NEW t \in Threads, NEW Q,
         sem' = [s \in Sems |-> [sem[s] EXCEPT !.lpWaitQueue = sem[s].lpWaitQueue \ Q]]
  PROVE  /\ SemsKept(t)
         /\ \A s \in Sems : sem'[s].lpOwner = sem[s].lpOwner
<1>1. ASSUME NEW s \in Sems
      PROVE  /\ sem'[s] \in SemType
             /\ sem'[s].nCount = sem[s].nCount /\ sem'[s].nWaiting = sem[s].nWaiting
             /\ sem'[s].lpOwner = sem[s].lpOwner /\ sem'[s].nLockCount = sem[s].nLockCount
  BY DEF Base, TypeOK, SemType
<1>2. sem' \in [Sems -> SemType]
  BY <1>1
<1> QED
  BY <1>1, <1>2, SameSems

LEMMA LeaveDownBase ==
  ASSUME Base, NEW t \in Threads, LeaveDown(t)
  PROVE  Base'
<1> DEFINE l == IF \/ call[t].dwRetv = 0
                   \/ ~call[t].bWaitAll /\ Kind[Obj(t, call[t].dwRetv)] = "manual"
                THEN "idle" ELSE "check"
<1>1. /\ Goto(t, l, call[t])
      /\ sem' = [s \in Sems |-> [sem[s] EXCEPT !.lpWaitQueue = sem[s].lpWaitQueue \ OwnNodes(t)]]
      /\ thr' = [thr EXCEPT ![t] = [thr[t] EXCEPT !.timer = thr[t].timer /\ ~call[t].timed]]
      /\ pc[t] = "leave"
      /\ l \in {"check", "idle"} /\ l \in PCs /\ call[t] \in CallType
  BY DEF LeaveDown, At, PCs, Base, TypeOK
<1> HIDE DEF l
<1>2. SemsKept(t)
  BY <1>1, DequeueKeeps
<1>3. ThreadsKept(t)
  <2> DEFINE timer == thr[t].timer /\ ~call[t].timed
  <2>1. timer \in BOOLEAN
    OBVIOUS
  <2>2. thr \in [Threads -> ThreadType]
    BY DEF Base, TypeOK
  <2> HIDE DEF timer
  <2>3. [thr[t] EXCEPT !.timer = timer] \in ThreadType
    BY <2>1, <2>2 DEF ThreadType
  <2> QED
    BY <1>1, <2>2, <2>3 DEF ThreadsKept, timer
<1>4. MayGo(t, l, call[t])
  BY <1>1 DEF MayGo, Base, CallsAsk
<1> QED
  BY <1>1, <1>2, <1>3, <1>4, StepBase

\* Steps of no thread: a timer goes off, an interrupt sets its event.
LEMMA ThreadTimeoutBase ==
  ASSUME Base, NEW t \in Threads, ThreadTimeout(t)
  PROVE  Base'
<1> DEFINE q == [thr[t] EXCEPT !.timer = FALSE, !.expired = TRUE,
                               !.dwState = IF Blocked(t) THEN "RUNNING" ELSE thr[t].dwState]
<1>1. thr \in [Threads -> ThreadType] /\ sem' = sem /\ call' = call /\ pc' = pc
  BY DEF ThreadTimeout, Base, TypeOK
<1>2. thr' = [thr EXCEPT ![t] = q]
  BY <1>1 DEF ThreadTimeout
<1>3. q \in ThreadType /\ q.lpWaitQueue = thr[t].lpWaitQueue
  BY <1>1 DEF ThreadType
<1> HIDE DEF q
<1>4. thr' \in [Threads -> ThreadType] /\ \A u \in Threads : thr'[u].lpWaitQueue = thr[u].lpWaitQueue
  BY <1>1, <1>2, <1>3
<1>5. TypeOK'
  BY <1>1, <1>4 DEF Base, TypeOK
<1>6. CallsAsk' /\ CallsSignal'
  BY <1>1, <1>4 DEF Base, CallsAsk, CallsSignal, OwnNodes, Objs, Obj, Indices
<1>7. Locked' /\ Swept' /\ NoWaiterWhenSignalled'
  BY <1>1 DEF Base, Locked, Swept, Owned, NoWaiterWhenSignalled
<1> QED
  BY <1>5, <1>6, <1>7 DEF Base

LEMMA InterruptBase ==
  ASSUME Base, NEW s \in Sems, INTR_ISRFun(s)
  PROVE  Base'
<1>1. /\ s # csSemList /\ call' = call /\ pc' = pc
      /\ sem' = [sem EXCEPT ![s] = Up(sem[s], s, 1, FALSE)]
      /\ thr' = thr \/ thr' = WakeAll(thr, sem[s].lpWaitQueue)
  BY ConstantFacts DEF INTR_ISRFun
<1>2. thr \in [Threads -> ThreadType] /\ sem[s].lpWaitQueue \in SUBSET Nodes /\ sem[s] \in SemType
  BY DEF Base, TypeOK, SemType
<1>3. thr' \in [Threads -> ThreadType] /\ \A u \in Threads : thr'[u].lpWaitQueue = thr[u].lpWaitQueue
  BY <1>1, <1>2, WakeAllKeeps
<1> DEFINE r == Up(sem[s], s, 1, FALSE)
<1>4. /\ r \in SemType /\ r.nCount <= nMaxCount[s]
      /\ r.nWaiting = 0 \/ r = sem[s]
      /\ r.lpOwner \in {sem[s].lpOwner, NULL}
      /\ r.lpOwner # NULL => r.nLockCount = sem[s].nLockCount
  <2>1. sem[s].nCount <= nMaxCount[s] /\ 1 \in Nat \ {0} /\ FALSE \in BOOLEAN
    BY DEF Base, TypeOK
  <2> QED
    BY <1>2, <2>1, UpKeeps
<1>5. sem' = [sem EXCEPT ![s] = r]
  BY <1>1
<1> HIDE DEF r
<1>6. /\ sem' \in [Sems -> SemType] /\ sem'[s] = r
      /\ \A z \in Sems \ {s} : sem'[z] = sem[z]
  BY <1>4, <1>5 DEF Base, TypeOK
<1>7. TypeOK'
  BY <1>1, <1>3, <1>4, <1>6 DEF Base, TypeOK
<1>8. CallsAsk' /\ CallsSignal'
  BY <1>1, <1>3 DEF Base, CallsAsk, CallsSignal, OwnNodes, Objs, Obj, Indices
<1>9. Locked' /\ NoWaiterWhenSignalled'
  BY <1>1, <1>4, <1>6, ConstantFacts DEF Base, Locked, NoWaiterWhenSignalled
<1>10. Swept'
  <2>1. /\ sem'[csSemList] = sem[csSemList]
        /\ \A z \in Sems : sem'[z].lpOwner \in {sem[z].lpOwner, NULL}
    BY <1>1, <1>4, <1>6, ConstantFacts
  <2>2. \A u \in Threads : Owned(u) = {} => Owned(u)' = {}
    BY <2>1, ConstantFacts DEF Owned
  <2> QED
    BY <1>1, <2>1, <2>2 DEF Base, Swept
<1> QED
  BY <1>7, <1>8, <1>9, <1>10 DEF Base

LEMMA PulseEventBase ==
  ASSUME Base, NEW t \in Threads, NEW s \in Sems, PulseEvent(t, s)
  PROVE  Base'
<1>1. CASE Kind[s] = "auto" /\ Signal(t, s, 1, FALSE, "idle", "up", "idle")
  <2>1. s # csSemList /\ AfterSignal(t, s, "up") /\ AfterSignal(t, s, "idle")
    BY <1>1, ConstantFacts DEF AfterSignal, PCs
  <2>2. 1 \in Nat \ {0} /\ FALSE \in BOOLEAN
    OBVIOUS
  <2> QED
    BY <1>1, <2>1, <2>2, SignalBase
<1>2. CASE Kind[s] = "manual" /\ ~(Kind[s] = "auto" /\ Signal(t, s, 1, FALSE, "idle", "up", "idle"))
  <2> DEFINE c == [call[t] EXCEPT !.lpsem = s]
             p(u) == thr[u].pulsing \/ \E n \in sem[s].lpWaitQueue : n.lpThread = u
  <2>1. /\ thr' = [u \in Threads |-> [thr[u] EXCEPT !.pulsing = p(u)]]
        /\ Goto(t, "pulse", c) /\ sem' = sem /\ call[t] \in CallType /\ "pulse" \in PCs
    BY <1>2 DEF PulseEvent, Base, TypeOK, PCs
  <2>2. /\ c \in CallType /\ c.lpsem = s /\ c.lppsem = call[t].lppsem
        /\ c.exit = call[t].exit /\ c.bWaitAll = call[t].bWaitAll
    BY <2>1 DEF CallType
  <2>3. \A u \in Threads : p(u) \in BOOLEAN
    OBVIOUS
  <2> HIDE DEF c, p
  <2>4. ThreadsKept(t)
    BY <2>1, <2>3 DEF ThreadsKept, Base, TypeOK, ThreadType
  <2>5. SemsKept(t)
    BY <2>1, SameSems DEF Base, TypeOK
  <2>6. MayGo(t, "pulse", c)
    BY <1>2, <2>2 DEF MayGo, Base, CallsAsk
  <2> QED
    BY <2>1, <2>2, <2>4, <2>5, <2>6, StepBase
<1> QED
  BY <1>1, <1>2 DEF PulseEvent

-----------------------------------------------------------------------------
(* Exit and termination *)

LEMMA ToDieBase ==
  ASSUME Base, NEW t \in Threads, TerminateThread(t) \/ ExitThread(t)
  PROVE  Base'
<1>1. Goto(t, "dying", NoCall) /\ sem' = sem /\ "dying" \in PCs
  BY DEF TerminateThread, ExitThread, PCs
<1>2. thr' = thr \/ thr' = [thr EXCEPT ![t] = [thr[t] EXCEPT !.dwState = "RUNNING"]]
  BY DEF TerminateThread, ExitThread
<1>3. ThreadsKept(t)
  <2>1. thr \in [Threads -> ThreadType]
    BY DEF Base, TypeOK
  <2>2. [thr[t] EXCEPT !.dwState = "RUNNING"] \in ThreadType
    BY <2>1 DEF ThreadType
  <2> QED
    BY <1>2, <2>1, <2>2 DEF ThreadsKept
<1>4. SemsKept(t)
  BY <1>1, SameSems DEF Base, TypeOK
<1>5. MayGo(t, "dying", NoCall)
  BY DEF MayGo, NoCall
<1> QED
  BY <1>1, <1>3, <1>4, <1>5, NoCallType, StepBase

LEMMA EnterSweepBase ==
  ASSUME Base, NEW t \in Threads, EnterSweep(t)
  PROVE  Base'
<1> DEFINE exit == [NoCall EXCEPT !.lppsem = <<csSemList>>, !.exit = TRUE]
<1>1. exit \in CallType /\ exit.lppsem = <<csSemList>> /\ exit.lppsem # <<>> /\ ~exit.bWaitAll
  <2>1. <<csSemList>> \in Seq(Sems) /\ <<csSemList>> # <<>>
    BY ConstantFacts
  <2>2. NoCall \in CallType /\ ~NoCall.bWaitAll
    BY NoCallType DEF NoCall
  <2> QED
    BY <2>1, <2>2 DEF CallType
<1>2. thr' = thr /\ ThreadsKept(t)
  BY DEF EnterSweep, ThreadsKept, Base, TypeOK
<1> DEFINE r == [sem[csSemList] EXCEPT !.nLockCount = sem[csSemList].nLockCount + 1]
<1>3. \/ sem[csSemList].lpOwner = t /\ sem' = [sem EXCEPT ![csSemList] = r] /\ Goto(t, "sweep", exit)
      \/ Goto(t, "check", exit) /\ sem' = sem
  BY DEF EnterSweep
<1>4. /\ sem[csSemList] \in SemType /\ r \in SemType
      /\ r.nCount = sem[csSemList].nCount /\ r.nWaiting = sem[csSemList].nWaiting
      /\ r.lpOwner = sem[csSemList].lpOwner /\ r.nLockCount > 0
  <2>1. sem[csSemList] \in SemType
    BY ConstantFacts DEF Base, TypeOK
  <2> QED
    BY <2>1 DEF SemType
<1> HIDE DEF r, exit
<1>5. CASE sem[csSemList].lpOwner = t /\ sem' = [sem EXCEPT ![csSemList] = r] /\ Goto(t, "sweep", exit)
  <2>1. SemsKept(t)
    BY <1>4, <1>5, OneSem, ConstantFacts DEF Base, TypeOK, NoWaiterWhenSignalled, Locked
  <2>2. sem'[csSemList].lpOwner = t /\ "sweep" \in PCs
    BY <1>4, <1>5, ConstantFacts DEF Base, TypeOK, PCs
  <2>3. MayGo(t, "sweep", exit)
    BY <1>1, <2>2 DEF MayGo
  <2> QED
    BY <1>1, <1>2, <1>5, <2>1, <2>2, <2>3, StepBase
<1>6. CASE Goto(t, "check", exit) /\ sem' = sem
  <2>1. SemsKept(t) /\ "check" \in PCs
    BY <1>6, SameSems DEF Base, TypeOK, PCs
  <2>2. MayGo(t, "check", exit)
    BY <1>1 DEF MayGo
  <2> QED
    BY <1>1, <1>2, <1>6, <2>1, <2>2, StepBase
<1> QED
  BY <1>3, <1>5, <1>6

LEMMA SweepClearBase ==
  ASSUME Base, NEW t \in Threads, SweepClear(t)
  PROVE  Base'
<1> DEFINE s == call[t].lpsem
           r == [sem[s] EXCEPT !.lpOwner = NULL]
<1>1. /\ sem' = [sem EXCEPT ![s] = r] /\ thr' = thr /\ Goto(t, "sweep", call[t])
      /\ pc[t] = "clear" /\ call[t] \in CallType /\ "sweep" \in PCs
  BY DEF SweepClear, At, Base, TypeOK, PCs
<1>2. s \in Sems /\ s # csSemList
  BY <1>1 DEF Base, CallsSignal, CallType
<1>3. /\ r \in SemType /\ r.lpOwner = NULL
      /\ r.nCount = sem[s].nCount /\ r.nWaiting = sem[s].nWaiting
  BY <1>2 DEF Base, TypeOK, SemType
<1> HIDE DEF r, s
<1>4. SemsKept(t)
  BY <1>1, <1>2, <1>3, OneSem DEF Base, TypeOK, NoWaiterWhenSignalled
<1>5. sem'[csSemList].lpOwner = t
  BY <1>1, <1>2, ConstantFacts DEF Base, TypeOK, Swept
<1>6. MayGo(t, "sweep", call[t]) /\ ThreadsKept(t)
  BY <1>1, <1>5 DEF MayGo, Base, CallsAsk, ThreadsKept, TypeOK
<1> QED
  BY <1>1, <1>4, <1>6, StepBase

LEMMA SweepBase ==
  ASSUME Base, NEW t \in Threads, SweepUp(t) \/ SweepDone(t)
  PROVE  Base'
<1>1. {"sweep", "sweepUp", "clear", "sweepLeave", "detach"} \subseteq PCs /\ 1 \in Nat \ {0}
  BY DEF PCs
<1>2. CASE SweepUp(t)
  <2>1. PICK s \in Owned(t) : Signal(t, s, 1, Kind[s] = "mutex", "sweep", "sweepUp", "clear")
    BY <1>2 DEF SweepUp
  <2>2. s \in Sems /\ s # csSemList /\ sem[csSemList].lpOwner = t
    BY <2>1 DEF Owned, Signal, At, Base, Swept
  <2>3. (Kind[s] = "mutex") \in BOOLEAN /\ AfterSignal(t, s, "sweepUp") /\ AfterSignal(t, s, "clear")
    BY <1>1, <2>2 DEF AfterSignal
  <2> QED
    BY <1>1, <2>1, <2>2, <2>3, SignalBase
<1>3. CASE SweepDone(t)
  <2>0. pc[t] = "sweep" /\ Owned(t) = {}
    BY <1>3 DEF SweepDone, Signal, LowerLockCount, At
  <2>1. Owned(t) = {} /\ sem[csSemList].lpOwner = t
    BY <2>0 DEF Base, Swept
  <2>2. CASE Signal(t, csSemList, 1, TRUE, "sweep", "sweepLeave", "detach")
    <3>1. AfterSignal(t, csSemList, "sweepLeave") /\ AfterSignal(t, csSemList, "detach")
      BY <1>1, <2>1 DEF AfterSignal
    <3> QED
      BY <1>1, <2>1, <2>2, <3>1, ConstantFacts, SignalBase
  <2>3. CASE sem[csSemList].nLockCount # 1 /\ LowerLockCount(t, csSemList, "sweep", "detach")
    BY <1>1, <2>1, <2>3, ConstantFacts, LowerBase
  <2> QED
    BY <1>3, <2>2, <2>3 DEF SweepDone
<1> QED
  BY <1>2, <1>3

LEMMA DetachBase ==
  ASSUME Base, NEW t \in Threads, Detach(t)
  PROVE  Base'
<1> DEFINE q == [thr[t] EXCEPT !.dwState = "ZOMBIE", !.timer = FALSE, !.lpWaitQueue = {}]
<1>1. /\ sem' = [s \in Sems |-> [sem[s] EXCEPT !.lpWaitQueue = sem[s].lpWaitQueue \ thr[t].lpWaitQueue]]
      /\ thr' = [thr EXCEPT ![t] = q]
      /\ Goto(t, "dead", NoCall) /\ pc[t] = "detach" /\ "dead" \in PCs
  BY DEF Detach, At, PCs
<1>2. SemsKept(t) /\ \A s \in Sems : sem'[s].lpOwner = sem[s].lpOwner
  BY <1>1, DequeueKeeps
<1>3. ThreadsKept(t)
  <2>1. thr \in [Threads -> ThreadType]
    BY DEF Base, TypeOK
  <2>2. q \in ThreadType
    BY <2>1 DEF ThreadType
  <2> QED
    BY <1>1, <2>1, <2>2 DEF ThreadsKept
<1>4. Owned(t)' = {}
  BY <1>1, <1>2 DEF Owned, Base, Swept
<1>5. MayGo(t, "dead", NoCall)
  BY <1>4 DEF MayGo, NoCall
<1> QED
  BY <1>1, <1>2, <1>3, <1>5, NoCallType, StepBase

-----------------------------------------------------------------------------
\* A thread signals an object from its own code, or leaves a critical section.
LEMMA IdleSignalBase ==
  ASSUME Base, NEW t \in Threads, NEW s \in Sems, NEW n \in Nat \ {0}, NEW owned \in BOOLEAN,
         Signal(t, s, n, owned, "idle", "up", "idle"),
         s = csSemList => owned /\ sem[s].lpOwner = t
  PROVE  Base'
<1>1. AfterSignal(t, s, "up") /\ AfterSignal(t, s, "idle")
  BY DEF AfterSignal, PCs
<1> QED
  BY <1>1, SignalBase

LEMMA CallSignalBase ==
  ASSUME Base, NEW t \in Threads, CallSignal(t)
  PROVE  Base'
<1>0. 1 \in Nat \ {0} /\ TRUE \in BOOLEAN /\ FALSE \in BOOLEAN /\ "idle" \in PCs
  BY DEF PCs
<1>1. ASSUME NEW s \in Sems, LeaveCrit(t, s) PROVE Base'
  BY <1>0, <1>1, IdleSignalBase DEF LeaveCrit
<1>2. ASSUME NEW s \in Sems, ReleaseMutex(t, s) PROVE Base'
  <2>1. Kind[s] = "mutex" /\ sem[s].lpOwner = t /\ s # csSemList
    BY <1>2, ConstantFacts DEF ReleaseMutex
  <2>2. CASE Signal(t, s, 1, TRUE, "idle", "up", "idle")
    BY <1>0, <2>1, <2>2, IdleSignalBase
  <2>3. CASE sem[s].nLockCount # 1 /\ LowerLockCount(t, s, "idle", "idle")
    BY <1>0, <2>1, <2>3, LowerBase
  <2> QED
    BY <1>2, <2>2, <2>3 DEF ReleaseMutex
<1>3. ASSUME NEW s \in Sems, NEW n \in 1 .. nMaxCount[s], ReleaseSemaphore(t, s, n) PROVE Base'
  <2>1. s # csSemList /\ n \in Nat \ {0}
    BY <1>3, ConstantFacts DEF ReleaseSemaphore
  <2> QED
    BY <1>0, <1>3, <2>1, IdleSignalBase DEF ReleaseSemaphore
<1>4. ASSUME NEW s \in Sems, SetEvent(t, s) PROVE Base'
  <2>1. s # csSemList
    BY <1>4, ConstantFacts DEF SetEvent
  <2> QED
    BY <1>0, <1>4, <2>1, IdleSignalBase DEF SetEvent
<1>5. ASSUME NEW s \in Sems, ResetEvent(t, s) PROVE Base'
  BY <1>0, <1>5, ResetBase DEF ResetEvent
<1> QED
  BY <1>1, <1>2, <1>3, <1>4, <1>5, PulseEventBase DEF CallSignal, Objects

LEMMA CallWaitBase ==
  ASSUME Base, NEW t \in Threads, CallWait(t)
  PROVE  Base'
<1>1. Timed \subseteq BOOLEAN /\ TRUE \in BOOLEAN /\ FALSE \in BOOLEAN
  BY DEF Timed
<1>2. ASSUME NEW s \in Sems, NEW z \in Sems, NEW all \in BOOLEAN, NEW timed \in BOOLEAN,
             Wait(t, <<s>>, all, timed) \/ Wait(t, <<s, z>>, all, timed)
      PROVE  Base'
  BY <1>2, WaitBase
<1> QED
  BY <1>1, <1>2 DEF CallWait, Objects

LEMMA ContinueBase ==
  ASSUME Base, NEW t \in Threads, Continue(t)
  PROVE  Base'
<1>0. PCs = {"idle", "check", "down", "sleep", "leave", "up", "pulse", "reset", "pulseUp",
             "dying", "sweep", "sweepUp", "clear", "sweepLeave", "detach", "dead"}
  BY DEF PCs
<1>1. CASE CheckCount(t) \/ EnterDown(t) \/ Resume(t) \/ LeaveDown(t)
  BY <1>1, CheckCountBase, EnterDownBase, ResumeBase, LeaveDownBase
<1>2. CASE WakeupWaitQueue(t, "up", "idle")
  BY <1>0, <1>2, WakeBase
<1>3. CASE PulseSet(t)
  <2>1. pc[t] = "pulse"
    BY <1>3 DEF PulseSet, Signal, At
  <2>2. Kind[call[t].lpsem] = "manual" /\ call[t].lpsem \in Sems
    BY <2>1 DEF Base, CallsSignal, TypeOK, CallType
  <2>3. AfterSignal(t, call[t].lpsem, "pulseUp") /\ AfterSignal(t, call[t].lpsem, "reset")
    BY <1>0, <2>2 DEF AfterSignal
  <2>4. 1 \in Nat \ {0} /\ FALSE \in BOOLEAN /\ call[t].lpsem # csSemList
    BY <2>2, ConstantFacts
  <2> QED
    BY <1>3, <2>2, <2>3, <2>4, SignalBase DEF PulseSet
<1>4. CASE WakeupWaitQueue(t, "pulseUp", "reset")
  <2>1. Kind[call[t].lpsem] = "manual"
    BY <1>4 DEF WakeupWaitQueue, At, Base, CallsSignal
  <2> QED
    BY <1>0, <1>4, <2>1, WakeBase
<1>5. CASE PulseReset(t)
  <2>1. call[t].lpsem \in Sems /\ "reset" \in PCs
    BY <1>0 DEF Base, TypeOK, CallType
  <2> QED
    BY <1>5, <2>1, ResetBase DEF PulseReset
<1>6. CASE EnterSweep(t) \/ SweepUp(t) \/ SweepClear(t) \/ SweepDone(t) \/ Detach(t)
  BY <1>6, EnterSweepBase, SweepBase, SweepClearBase, DetachBase
<1>7. CASE WakeupWaitQueue(t, "sweepUp", "clear")
  <2>1. pc[t] = "sweepUp"
    BY <1>7 DEF WakeupWaitQueue, At
  <2>2. call[t].lpsem # csSemList /\ sem[csSemList].lpOwner = t
    BY <2>1 DEF Base, CallsSignal, Swept
  <2> QED
    BY <1>0, <1>7, <2>2, WakeBase
<1>8. CASE WakeupWaitQueue(t, "sweepLeave", "detach")
  <2>1. pc[t] = "sweepLeave"
    BY <1>8 DEF WakeupWaitQueue, At
  <2>2. Owned(t) = {}
    BY <2>1 DEF Base, Swept
  <2> QED
    BY <1>0, <1>8, <2>2, WakeBase
<1> QED
  BY <1>1, <1>2, <1>3, <1>4, <1>5, <1>6, <1>7, <1>8 DEF Continue

LEMMA NextBase == Base /\ [Next]_vars => Base'
<1> SUFFICES ASSUME Base, [Next]_vars PROVE Base'
  OBVIOUS
<1>1. CASE UNCHANGED vars
  BY <1>1 DEF vars, Base, TypeOK, CallsAsk, CallsSignal, Locked, Swept, NoWaiterWhenSignalled,
              OwnNodes, Objs, Obj, Indices, Owned
<1>2. ASSUME NEW t \in Threads,
             CallWait(t) \/ CallSignal(t) \/ Continue(t) \/ AllocFails(t) \/ ThreadTimeout(t)
             \/ TerminateThread(t) \/ ExitThread(t)
      PROVE  Base'
  BY <1>2, CallWaitBase, CallSignalBase, ContinueBase, AllocFailsBase, ThreadTimeoutBase, ToDieBase
<1>3. ASSUME NEW s \in Sems, INTR_ISRFun(s) PROVE Base'
  BY <1>3, InterruptBase
<1> QED
  BY <1>1, <1>2, <1>3 DEF Next

LEMMA AlwaysBase == Spec => []Base
  BY InitBase, NextBase, PTL DEF Spec

\* The wait objects keep their types, and no count exceeds its maximum.
THEOREM TypesAreKept == Spec => []TypeOK
<1>1. Base => TypeOK
  BY DEF Base
<1> QED
  BY <1>1, AlwaysBase, PTL

\* No object is signalled and waited for at once, whatever the calls, terminations and
\* the width of nWaiting: the assertion of UpSemaphore.
THEOREM SignalledHasNoWaiter == Spec => []NoWaiterWhenSignalled
<1>1. Base => NoWaiterWhenSignalled
  BY DEF Base
<1> QED
  BY <1>1, AlwaysBase, PTL

\* A thread that is gone owns nothing, wherever it was terminated: the sweep of its exit
\* ends when nothing names it any more, and it takes nothing after that.
THEOREM DeadOwnNothing == Spec => []DeadOwnsNothing
<1>1. Base => DeadOwnsNothing
  BY ConstantFacts DEF Base, TypeOK, SemType, Swept, Owned, DeadOwnsNothing
<1> QED
  BY <1>1, AlwaysBase, PTL

-----------------------------------------------------------------------------
(***************************************************************************)
(* No signal is lost and the wait queues are right, as long as no thread   *)
(* is terminated by another and nWaiting does not wrap; and what is taken  *)
(* has an owner, as long as no thread exits either.                        *)
(***************************************************************************)

NoTermination == "kill" \notin Calls

NoExit == "exit" \notin Calls

Wakers == {"up", "pulseUp", "sweepUp", "sweepLeave"}

\* The elements on a queue belong to threads that wait with them.
QueuesRight ==
  \A s \in Sems : \A n \in sem[s].lpWaitQueue :
    pc[n.lpThread] \in {"sleep", "leave"} /\ n \in OwnNodes(n.lpThread) /\ n.sem = s

\* A thread that sleeps is on the queues of all it waits for, and only then has it wait
\* elements or a rouser.
SleepersQueued ==
  \A t \in Threads :
    /\ Blocked(t) => pc[t] = "sleep"
    /\ pc[t] = "sleep" => \A n \in OwnNodes(t) : n \in sem[n.sem].lpWaitQueue
    /\ pc[t] # "sleep" => thr[t].lpWaitQueue = {} /\ thr[t].lpRouser = NULL

\* Whoever is blocked on an object is counted there, or about to be woken.
BlockedCounted ==
  \A t \in Threads : Blocked(t) =>
    \A s \in Objs(t) : Waking(s) \/ (sem[s].nCount = 0 /\ sem[s].nWaiting > 0)

Waiters == QueuesRight /\ SleepersQueued /\ RouserIsOwn /\ BlockedCounted

LEMMA InitWaiters == Init => Waiters
<1> SUFFICES ASSUME Init PROVE Waiters
  OBVIOUS
<1> QED
  BY DEF Init, Waiters, QueuesRight, SleepersQueued, RouserIsOwn, BlockedCounted, Blocked

\* A thread that is the same as before, to those that wait.
SameThread(u) ==
  /\ thr'[u].dwState = thr[u].dwState
  /\ thr'[u].lpRouser = thr[u].lpRouser
  /\ thr'[u].lpWaitQueue = thr[u].lpWaitQueue

\* A step of a thread that neither waits nor wakes.
LEMMA OutsideKeeps ==
  ASSUME TypeOK, Waiters, NEW t \in Threads, NEW l \in PCs, NEW c \in CallType, Goto(t, l, c),
         pc[t] \notin {"sleep", "leave"} \cup Wakers, l \notin {"sleep", "leave"},
         \A s \in Sems : sem'[s].lpWaitQueue = sem[s].lpWaitQueue,
         \A s \in Sems : sem[s].nCount = 0 /\ sem[s].nWaiting > 0 =>
           Waking(s)' \/ (sem'[s].nCount = 0 /\ sem'[s].nWaiting > 0),
         \A u \in Threads \ {t} : SameThread(u),
         ~Blocked(t)', thr'[t].lpRouser = thr[t].lpRouser, thr'[t].lpWaitQueue = {}
  PROVE  Waiters'
<1>1. /\ pc'[t] = l
      /\ \A u \in Threads \ {t} : pc'[u] = pc[u] /\ call'[u] = call[u]
  BY GotoOne
<1>2. \A u \in Threads \ {t} : OwnNodes(u)' = OwnNodes(u) /\ Objs(u)' = Objs(u)
  BY <1>1 DEF OwnNodes, Objs, Obj, Indices
<1>3. \A s \in Sems : Waking(s) => Waking(s)'
  BY <1>1 DEF Waking, Wakers
<1>4. QueuesRight'
  <2>1. \A s \in Sems : \A n \in sem[s].lpWaitQueue : n.lpThread \in Threads \ {t}
    BY DEF Waiters, QueuesRight, TypeOK, SemType, Nodes
  <2> QED
    BY <1>1, <1>2, <2>1 DEF Waiters, QueuesRight
<1>5. SleepersQueued'
  <2>1. \A u \in Threads : OwnNodes(u) \subseteq Nodes
    <3>1. \A u \in Threads : call[u].lppsem \in Seq(Sems) /\ call[u].exit \in BOOLEAN
      BY DEF TypeOK, CallType
    <3>2. \A u \in Threads : Objs(u) \subseteq Sems
      BY <3>1 DEF Objs, Obj, Indices
    <3> QED
      BY <3>1, <3>2 DEF OwnNodes, Nodes
  <2>2. \A u \in Threads \ {t} : pc'[u] = "sleep" => \A n \in OwnNodes(u)' : n \in sem'[n.sem].lpWaitQueue
    BY <1>1, <1>2, <2>1 DEF Waiters, SleepersQueued, Nodes
  <2>3. \A u \in Threads \ {t} : Blocked(u)' <=> Blocked(u)
    BY DEF Blocked, SameThread
  <2> QED
    BY <1>1, <2>2, <2>3 DEF Waiters, SleepersQueued, SameThread
<1>6. RouserIsOwn'
  BY <1>1 DEF Waiters, RouserIsOwn, SameThread
<1>7. BlockedCounted'
  <2>1. \A u \in Threads \ {t} : Blocked(u)' <=> Blocked(u)
    BY DEF Blocked, SameThread
  <2>2. \A u \in Threads : Objs(u) \subseteq Sems
    BY DEF Objs, Obj, Indices, TypeOK, CallType
  <2> QED
    BY <1>2, <1>3, <2>1, <2>2 DEF Waiters, BlockedCounted
<1> QED
  BY <1>4, <1>5, <1>6, <1>7 DEF Waiters

\* Such a step that leaves all threads as they are.
LEMMA OutsideSameThreads ==
  ASSUME Base, Waiters, NEW t \in Threads, NEW l \in PCs, NEW c \in CallType, Goto(t, l, c),
         pc[t] \notin {"sleep", "leave"} \cup Wakers, l \notin {"sleep", "leave"},
         \A s \in Sems : sem'[s].lpWaitQueue = sem[s].lpWaitQueue,
         \A s \in Sems : sem[s].nCount = 0 /\ sem[s].nWaiting > 0 =>
           Waking(s)' \/ (sem'[s].nCount = 0 /\ sem'[s].nWaiting > 0),
         \A u \in Threads : SameThread(u)
  PROVE  Waiters'
<1>1. ~Blocked(t)' /\ thr'[t].lpRouser = thr[t].lpRouser /\ thr'[t].lpWaitQueue = {}
  BY DEF Waiters, SleepersQueued, Blocked, SameThread
<1>2. TypeOK
  BY DEF Base
<1> QED
  BY <1>1, <1>2, OutsideKeeps

LEMMA SignalWaiters ==
  ASSUME Base, Waiters, NEW t \in Threads, NEW s \in Sems, NEW n \in 1 .. nMaxCount[s],
         NEW owned \in BOOLEAN, NEW l \in PCs, NEW wake \in Wakers, NEW next \in PCs,
         Signal(t, s, n, owned, l, wake, next),
         l \notin {"sleep", "leave"} \cup Wakers, next \notin {"sleep", "leave"}
  PROVE  Waiters'
<1> DEFINE go == IF MustWake(sem[s], s, n) THEN wake ELSE next
           c == [call[t] EXCEPT !.lpsem = s]
<1>1. /\ go \in PCs /\ go \notin {"sleep", "leave"}
      /\ MustWake(sem[s], s, n) => go \in Wakers /\ go # "idle"
  BY DEF Wakers, PCs
<1>2. c \in CallType /\ c.lpsem = s
  BY DEF Base, TypeOK, CallType
<1>3. /\ Goto(t, go, c) /\ thr' = thr /\ pc[t] = l
      /\ sem' = [sem EXCEPT ![s] = Up(sem[s], s, n, owned)]
  BY DEF Signal, At
<1> HIDE DEF go, c
<1>4. pc'[t] = go /\ (go # "idle" => call'[t] = c)
  BY <1>1, <1>2, <1>3, GotoOne DEF Base
<1>5. MustWake(sem[s], s, n) => Waking(s)'
  BY <1>1, <1>2, <1>4 DEF Waking, Wakers
<1>6. sem[s] \in SemType /\ sem \in [Sems -> SemType] /\ nMaxCount[s] \in Nat
  BY ConstantFacts DEF Base, TypeOK
<1>7. sem[s].nCount = 0 /\ sem[s].nWaiting > 0 => MustWake(sem[s], s, n)
  BY <1>6 DEF MustWake
<1>8. /\ sem'[s].lpWaitQueue = sem[s].lpWaitQueue
      /\ \A z \in Sems \ {s} : sem'[z] = sem[z]
  BY <1>3, <1>6 DEF Up, SemType
<1>9. \A z \in Sems : sem[z].nCount = 0 /\ sem[z].nWaiting > 0 =>
        Waking(z)' \/ (sem'[z].nCount = 0 /\ sem'[z].nWaiting > 0)
  BY <1>5, <1>7, <1>8
<1>10. \A u \in Threads : SameThread(u)
  BY <1>3 DEF SameThread
<1> QED
  BY <1>1, <1>2, <1>3, <1>8, <1>9, <1>10, OutsideSameThreads

\* Steps that leave the counts of all objects nobody can take as they are.
LEMMA QuietWaiters ==
  ASSUME Base, Waiters, NEW t \in Threads,
         \/ \E s, z \in Sems : \E objs \in {<<s>>, <<s, z>>}, all, timed \in BOOLEAN : Wait(t, objs, all, timed)
         \/ CheckCount(t) \/ AllocFails(t) \/ ExitThread(t) \/ EnterSweep(t) \/ SweepClear(t)
         \/ \E s \in Sems, l \in {"idle", "sweep"}, next \in {"idle", "detach"} : LowerLockCount(t, s, l, next)
         \/ \E s \in Sems, l \in {"idle", "reset"} : SemaphoreReset(t, s, l)
         \/ \E s \in Sems : PulseEvent(t, s) /\ Kind[s] = "manual"
  PROVE  Waiters'
<1>1. pc[t] \notin {"sleep", "leave"} \cup Wakers
  BY DEF Wait, CheckCount, AllocFails, ExitThread, EnterSweep, SweepClear, LowerLockCount,
         SemaphoreReset, PulseEvent, Signal, At, Wakers
<1>2. \A u \in Threads : SameThread(u)
  <2>1. thr \in [Threads -> ThreadType]
    BY DEF Base, TypeOK
  <2>2. thr' = thr \/ \E p \in [Threads -> BOOLEAN] : thr' = [u \in Threads |-> [thr[u] EXCEPT !.pulsing = p[u]]]
    <3>1. CASE \E s, z \in Sems : \E objs \in {<<s>>, <<s, z>>}, all, timed \in BOOLEAN : Wait(t, objs, all, timed)
      <4> DEFINE p == [u \in Threads |-> IF u = t THEN FALSE ELSE thr[u].pulsing]
      <4>1. thr' = [thr EXCEPT ![t] = [thr[t] EXCEPT !.pulsing = FALSE]]
        BY <3>1 DEF Wait
      <4>2. thr' = [u \in Threads |-> [thr[u] EXCEPT !.pulsing = p[u]]]
        BY <2>1, <4>1 DEF ThreadType
      <4>3. p \in [Threads -> BOOLEAN]
        BY <2>1 DEF ThreadType
      <4> QED
        BY <4>2, <4>3
    <3>2. CASE CheckCount(t)
      <4> DEFINE b == thr[t].pulsing /\ ~SpendsPulse(t)
                 p == [u \in Threads |-> IF u = t THEN b ELSE thr[u].pulsing]
      <4>1. thr' = [thr EXCEPT ![t] = [thr[t] EXCEPT !.pulsing = b]] /\ b \in BOOLEAN
        BY <3>2 DEF CheckCount
      <4> HIDE DEF b
      <4>2. thr' = [u \in Threads |-> [thr[u] EXCEPT !.pulsing = p[u]]]
        BY <2>1, <4>1 DEF ThreadType
      <4>3. p \in [Threads -> BOOLEAN]
        BY <2>1, <4>1 DEF ThreadType
      <4> QED
        BY <4>2, <4>3
    <3>3. CASE \E s \in Sems : PulseEvent(t, s) /\ Kind[s] = "manual"
      <4>1. PICK s \in Sems : thr' = [u \in Threads |-> [thr[u] EXCEPT !.pulsing =
                  thr[u].pulsing \/ \E n \in sem[s].lpWaitQueue : n.lpThread = u]]
        BY <3>3 DEF PulseEvent
      <4> DEFINE b(u) == thr[u].pulsing \/ \E n \in sem[s].lpWaitQueue : n.lpThread = u
                 p == [u \in Threads |-> b(u)]
      <4>2. \A u \in Threads : b(u) \in BOOLEAN
        OBVIOUS
      <4>3. thr' = [u \in Threads |-> [thr[u] EXCEPT !.pulsing = b(u)]]
        BY <4>1
      <4> HIDE DEF b
      <4>4. p \in [Threads -> BOOLEAN] /\ thr' = [u \in Threads |-> [thr[u] EXCEPT !.pulsing = p[u]]]
        BY <4>2, <4>3
      <4> QED
        BY <4>4
    <3> QED
      BY <3>1, <3>2, <3>3 DEF AllocFails, ExitThread, EnterSweep, SweepClear, LowerLockCount, SemaphoreReset
  <2> QED
    BY <2>1, <2>2 DEF SameThread, ThreadType
<1>3. \A s \in Sems :
        /\ sem'[s].lpWaitQueue = sem[s].lpWaitQueue
        /\ sem[s].nCount = 0 /\ sem[s].nWaiting > 0 => sem'[s].nCount = 0 /\ sem'[s].nWaiting > 0
  <2>1. sem \in [Sems -> SemType]
    BY DEF Base, TypeOK
  <2>2. CASE CheckCount(t)
    <3> SUFFICES ASSUME NEW s \in Sems
                 PROVE  /\ sem'[s].lpWaitQueue = sem[s].lpWaitQueue
                        /\ sem[s].nCount = 0 => sem'[s].nCount = 0
                        /\ sem'[s].nWaiting = sem[s].nWaiting
      OBVIOUS
    <3>1. sem'[s] \in {sem[s], Taken(sem[s], s, t)}
      BY <2>2 DEF CheckCount
    <3> QED
      BY <2>1, <3>1, TakenKeeps
  <2>3. CASE sem' = sem
    BY <2>3
  <2>4. CASE \E s \in Sems : sem' = [sem EXCEPT ![s] = [sem[s] EXCEPT !.nCount = 0]]
    BY <2>1, <2>4 DEF SemType
  <2>5. CASE \E s \in Sems, k \in Int : sem' = [sem EXCEPT ![s] = [sem[s] EXCEPT !.nLockCount = k]]
    BY <2>1, <2>5 DEF SemType
  <2>6. CASE \E s \in Sems : sem' = [sem EXCEPT ![s] = [sem[s] EXCEPT !.lpOwner = NULL]]
    BY <2>1, <2>6 DEF SemType
  <2>7. \A s \in Sems : sem[s].nLockCount + 1 \in Int /\ sem[s].nLockCount - 1 \in Int
    BY <2>1 DEF SemType
  <2>8. call[t].lpsem \in Sems
    BY DEF Base, TypeOK, CallType
  <2>9. EnterSweep(t) \/ (\E s \in Sems, l \in {"idle", "sweep"}, next \in {"idle", "detach"} : LowerLockCount(t, s, l, next))
        => sem' = sem \/ \E s \in Sems, k \in Int : sem' = [sem EXCEPT ![s] = [sem[s] EXCEPT !.nLockCount = k]]
    BY <2>7, ConstantFacts DEF EnterSweep, LowerLockCount
  <2> QED
    BY <2>2, <2>3, <2>4, <2>5, <2>6, <2>8, <2>9
       DEF Wait, AllocFails, ExitThread, SweepClear, SemaphoreReset, PulseEvent
<1>4. \E l \in PCs \ {"sleep", "leave"}, c \in CallType : Goto(t, l, c)
  <2> DEFINE ends == PCs \ {"sleep", "leave"}
  <2>1. call[t] \in CallType /\ {"idle", "check", "down", "sweep", "dying", "detach", "pulse"} \subseteq ends
    BY DEF Base, TypeOK, PCs
  <2>2. CASE \E s, z \in Sems : \E objs \in {<<s>>, <<s, z>>}, all, timed \in BOOLEAN : Wait(t, objs, all, timed)
    <3>1. PICK s \in Sems, z \in Sems :
            \E objs \in {<<s>>, <<s, z>>}, all, timed \in BOOLEAN : Wait(t, objs, all, timed)
      BY <2>2
    <3>2. PICK objs \in {<<s>>, <<s, z>>}, all \in BOOLEAN, timed \in BOOLEAN : Wait(t, objs, all, timed)
      BY <3>1
    <3>3. objs \in Seq(Sems)
      <4>1. CASE objs = <<s>>
        BY <4>1
      <4>2. CASE objs = <<s, z>>
        BY <4>2
      <4> QED
        BY <4>1, <4>2
    <3> DEFINE c == [NoCall EXCEPT !.lppsem = objs, !.bWaitAll = all, !.timed = timed]
    <3>4. c \in CallType
      BY <3>3, NoCallType DEF CallType
    <3>5. Goto(t, "check", c)
      BY <3>2 DEF Wait
    <3> HIDE DEF c
    <3> QED
      BY <2>1, <3>4, <3>5
  <2>3. CASE CheckCount(t) \/ AllocFails(t)
    BY <2>1, <2>3 DEF CheckCount, AllocFails
  <2>4. CASE ExitThread(t)
    BY <2>1, <2>4, NoCallType DEF ExitThread
  <2>5. CASE EnterSweep(t)
    <3>1. <<csSemList>> \in Seq(Sems)
      BY ConstantFacts
    <3>2. [NoCall EXCEPT !.lppsem = <<csSemList>>, !.exit = TRUE] \in CallType
      BY <3>1, NoCallType DEF CallType
    <3> QED
      BY <2>1, <2>5, <3>2 DEF EnterSweep
  <2>6. CASE SweepClear(t)
    BY <2>1, <2>6 DEF SweepClear
  <2>7. CASE \E s \in Sems, l \in {"idle", "sweep"}, next \in {"idle", "detach"} : LowerLockCount(t, s, l, next)
    BY <2>1, <2>7 DEF LowerLockCount
  <2>8. CASE \E s \in Sems, l \in {"idle", "reset"} : SemaphoreReset(t, s, l)
    BY <2>1, <2>8 DEF SemaphoreReset
  <2>9. CASE \E s \in Sems : PulseEvent(t, s) /\ Kind[s] = "manual"
    <3>1. PICK s \in Sems : PulseEvent(t, s) /\ Kind[s] = "manual"
      BY <2>9
    <3>2. [call[t] EXCEPT !.lpsem = s] \in CallType
      BY <2>1 DEF CallType
    <3> QED
      BY <2>1, <3>1, <3>2 DEF PulseEvent
  <2> QED
    BY <2>2, <2>3, <2>4, <2>5, <2>6, <2>7, <2>8, <2>9, Zenon
<1>5. PICK l \in PCs \ {"sleep", "leave"}, c \in CallType : Goto(t, l, c)
  BY <1>4
<1> QED
  BY <1>1, <1>2, <1>3, <1>5, OutsideSameThreads

-----------------------------------------------------------------------------
(* __DownSemphores *)

\* The objects and the thread before it returns or sleeps: its elements are queued.
Queues(t, S, r) ==
  /\ Waits(t, S, r)
  /\ \A s \in Sems : S[s].lpWaitQueue = sem[s].lpWaitQueue \cup {n \in OwnNodes(t) : n.sem = s}
  /\ r.dwState = "RUNNING" /\ r.lpRouser = NULL
  /\ ~Blocked(t)

LEMMA NodesOf ==
  ASSUME Base
  PROVE  \A u \in Threads :
           /\ OwnNodes(u) \subseteq Nodes
           /\ Objs(u) \subseteq Sems
           /\ \A n \in OwnNodes(u) : n.lpThread = u /\ n.sem \in Objs(u)
           /\ \A s \in Objs(u) : \E n \in OwnNodes(u) : n.sem = s
<1> SUFFICES ASSUME NEW u \in Threads
             PROVE  /\ OwnNodes(u) \subseteq Nodes
                    /\ Objs(u) \subseteq Sems
                    /\ \A n \in OwnNodes(u) : n.lpThread = u /\ n.sem \in Objs(u)
                    /\ \A s \in Objs(u) : \E n \in OwnNodes(u) : n.sem = s
  OBVIOUS
<1>1. call[u].lppsem \in Seq(Sems)
  BY DEF Base, TypeOK, CallType
<1>2. Objs(u) \subseteq Sems
  BY <1>1 DEF Objs, Obj, Indices
<1>3. \A s \in Objs(u) : [lpThread |-> u, sem |-> s, exit |-> call[u].exit] \in OwnNodes(u)
  BY DEF OwnNodes
<1>4. \A s \in Objs(u) : \E n \in OwnNodes(u) : n.sem = s
  <2> SUFFICES ASSUME NEW s \in Objs(u) PROVE \E n \in OwnNodes(u) : n.sem = s
    OBVIOUS
  <2> DEFINE n == [lpThread |-> u, sem |-> s, exit |-> call[u].exit]
  <2>1. n \in OwnNodes(u) /\ n.sem = s
    BY <1>3
  <2> QED
    BY <2>1
<1>5. \A n \in OwnNodes(u) : n.lpThread = u /\ n.sem \in Objs(u)
  BY DEF OwnNodes
<1> QED
  BY <1>2, <1>4, <1>5, OwnNodesType

\* t waits no more, or goes to sleep, while the queues of the others stay as they are.
LEMMA DownKeeps ==
  ASSUME Base, Waiters, NEW t \in Threads, NEW S, NEW r, Queues(t, S, r),
         NEW l \in {"sleep", "leave"}, NEW c \in CallType, Goto(t, l, c),
         c.lppsem = call[t].lppsem, c.exit = call[t].exit,
         NEW q \in ThreadType, thr' = [thr EXCEPT ![t] = q],
         q.lpRouser = NULL,
         q.lpWaitQueue = IF l = "sleep" THEN OwnNodes(t) ELSE {},
         l = "leave" => q.dwState = "RUNNING",
         \A s \in Sems :
           /\ sem'[s].lpWaitQueue = S[s].lpWaitQueue
           /\ sem'[s].nCount = S[s].nCount
           /\ S[s].nWaiting > 0 => sem'[s].nWaiting > 0,
         l = "sleep" => \A s \in Objs(t) : sem'[s].nCount = 0 /\ sem'[s].nWaiting > 0
  PROVE  Waiters'
<1>1. /\ pc'[t] = l /\ l # "idle" /\ call'[t] = c
      /\ \A u \in Threads \ {t} : pc'[u] = pc[u] /\ call'[u] = call[u]
  <2>1. l \in PCs /\ l # "idle"
    BY DEF PCs
  <2> QED
    BY <2>1, GotoOne DEF Base
<1>2. \A u \in Threads : OwnNodes(u)' = OwnNodes(u) /\ Objs(u)' = Objs(u)
  BY <1>1 DEF OwnNodes, Objs, Obj, Indices
<1>3. \A s \in Sems : Waking(s) => Waking(s)'
  BY <1>1 DEF Queues, Waits, Waking
<1>4. thr'[t] = q /\ \A u \in Threads \ {t} : thr'[u] = thr[u]
  BY DEF Base, TypeOK
<1>5. QueuesRight'
  <2> SUFFICES ASSUME NEW s \in Sems, NEW n \in sem'[s].lpWaitQueue
               PROVE  pc'[n.lpThread] \in {"sleep", "leave"} /\ n \in OwnNodes(n.lpThread)' /\ n.sem = s
    BY DEF QueuesRight
  <2>1. n \in sem[s].lpWaitQueue \/ (n \in OwnNodes(t) /\ n.sem = s)
    BY DEF Queues
  <2>2. CASE n \in OwnNodes(t) /\ n.sem = s
    BY <1>1, <1>2, <2>2, NodesOf
  <2>3. CASE n \in sem[s].lpWaitQueue
    <3>1. n.lpThread \in Threads
      BY <2>3 DEF Base, TypeOK, SemType, Nodes
    <3>2. pc[n.lpThread] \in {"sleep", "leave"} /\ n \in OwnNodes(n.lpThread) /\ n.sem = s
      BY <2>3 DEF Waiters, QueuesRight
    <3> QED
      BY <1>1, <1>2, <3>1, <3>2
  <2> QED
    BY <2>1, <2>2, <2>3
<1>6. SleepersQueued'
  <2> SUFFICES ASSUME NEW u \in Threads
               PROVE  /\ Blocked(u)' => pc'[u] = "sleep"
                      /\ pc'[u] = "sleep" => \A n \in OwnNodes(u) : n \in sem'[n.sem].lpWaitQueue
                      /\ pc'[u] # "sleep" => thr'[u].lpWaitQueue = {} /\ thr'[u].lpRouser = NULL
    BY <1>2 DEF SleepersQueued
  <2>1. CASE u = t
    <3>1. Blocked(u)' => pc'[u] = "sleep"
      BY <1>1, <1>4, <2>1 DEF Blocked
    <3>2. \A n \in OwnNodes(u) : n \in sem'[n.sem].lpWaitQueue
      BY <2>1, NodesOf DEF Queues
    <3> QED
      BY <1>1, <1>4, <2>1, <3>1, <3>2
  <2>2. CASE u # t
    <3>1. \A n \in OwnNodes(u) : n.sem \in Sems
      BY NodesOf
    <3>2. Blocked(u)' <=> Blocked(u)
      BY <1>4, <2>2 DEF Blocked
    <3> QED
      BY <1>1, <1>4, <2>2, <3>1, <3>2 DEF Waiters, SleepersQueued, Queues
  <2> QED
    BY <2>1, <2>2
<1>7. RouserIsOwn'
  BY <1>1, <1>4 DEF Waiters, RouserIsOwn
<1>8. BlockedCounted'
  <2> SUFFICES ASSUME NEW u \in Threads, Blocked(u)', NEW s \in Objs(u)
               PROVE  Waking(s)' \/ (sem'[s].nCount = 0 /\ sem'[s].nWaiting > 0)
    BY <1>2 DEF BlockedCounted
  <2>1. CASE u = t
    BY <1>1, <1>4, <2>1 DEF Blocked
  <2>2. CASE u # t
    <3>1. Blocked(u)
      BY <1>4, <2>2 DEF Blocked
    <3>2. s \in Sems
      BY NodesOf
    <3>3. Waking(s) \/ (sem[s].nCount = 0 /\ sem[s].nWaiting > 0)
      BY <3>1 DEF Waiters, BlockedCounted
    <3> QED
      BY <1>3, <3>2, <3>3 DEF Queues, Waits
  <2> QED
    BY <2>1, <2>2
<1> QED
  BY <1>5, <1>6, <1>7, <1>8 DEF Waiters

LEMMA ReturnWaiters ==
  ASSUME Base, Waiters, NEW t \in Threads, NEW S, NEW r, Queues(t, S, r),
         NEW i \in Nat, ReturnFromDown(t, S, r, i)
  PROVE  Waiters'
<1> DEFINE c == [call[t] EXCEPT !.dwRetv = i]
           q == [r EXCEPT !.dwState = "RUNNING", !.expired = TRUE, !.lpWaitQueue = {}]
<1>1. c \in CallType /\ c.lppsem = call[t].lppsem /\ c.exit = call[t].exit
  <2>1. call[t] \in CallType
    BY DEF Base, TypeOK
  <2> QED
    BY <2>1 DEF CallType
<1>2. q \in ThreadType /\ q.lpRouser = NULL /\ q.lpWaitQueue = {} /\ q.dwState = "RUNNING"
  BY DEF Queues, Waits, ThreadType
<1>3. sem' = S /\ thr' = [thr EXCEPT ![t] = q] /\ Goto(t, "leave", c)
  BY DEF ReturnFromDown
<1> HIDE DEF c, q
<1> QED
  BY <1>1, <1>2, <1>3, DownKeeps

LEMMA PassWaiters ==
  ASSUME ~CountWraps, Base, Waiters, NEW t \in Threads, NEW S, NEW r, Queues(t, S, r), Pass(t, S, r)
  PROVE  Waiters'
<1> DEFINE signalled == {i \in Indices(t) : S[Obj(t, i)].nCount > 0}
<1>1. call[t] \in CallType /\ call[t].lppsem \in Seq(Sems)
  BY DEF Base, TypeOK, CallType
<1>2. CASE signalled # {}
  <2>1. Indices(t) \subseteq Nat
    BY <1>1 DEF Indices
  <2>2. Min(signalled) \in Nat
    BY <1>2, <2>1, MinIsOne
  <2>3. ReturnFromDown(t, S, r, Min(signalled))
    BY <1>2 DEF Pass
  <2> QED
    BY <2>2, <2>3, ReturnWaiters
<1>3. CASE signalled = {} /\ call[t].timed /\ r.expired
  <2>1. ReturnFromDown(t, S, r, 0)
    BY <1>3 DEF Pass
  <2> QED
    BY <2>1, ReturnWaiters
<1>4. CASE signalled = {} /\ ~(call[t].timed /\ r.expired)
  <2>1. /\ sem' = [s \in Sems |-> IF s \in Objs(t) THEN [S[s] EXCEPT !.nWaiting = CountWaiter(S[s].nWaiting)]
                                                  ELSE S[s]]
        /\ \E q \in {[r EXCEPT !.dwState = IF call[t].timed THEN "INTERRUPTIBLE" ELSE "UNINTERRUPTIBLE"],
                     [r EXCEPT !.expired = TRUE]} : thr' = [thr EXCEPT ![t] = q]
        /\ Goto(t, "sleep", call[t])
    BY <1>4 DEF Pass
  <2>2. PICK q \in ThreadType : thr' = [thr EXCEPT ![t] = q] /\ q.lpWaitQueue = OwnNodes(t) /\ q.lpRouser = NULL
    <3>1. \A q \in {[r EXCEPT !.dwState = IF call[t].timed THEN "INTERRUPTIBLE" ELSE "UNINTERRUPTIBLE"],
                     [r EXCEPT !.expired = TRUE]} :
            q \in ThreadType /\ q.lpWaitQueue = OwnNodes(t) /\ q.lpRouser = NULL
      BY DEF Queues, Waits, ThreadType
    <3> QED
      BY <2>1, <3>1
  <2>3. ASSUME NEW s \in Sems
        PROVE  /\ sem'[s].lpWaitQueue = S[s].lpWaitQueue
               /\ sem'[s].nCount = S[s].nCount
               /\ S[s].nWaiting > 0 => sem'[s].nWaiting > 0
               /\ s \in Objs(t) => sem'[s].nCount = 0 /\ sem'[s].nWaiting > 0
    <3>1. S[s] \in SemType
      BY DEF Queues, Waits
    <3>2. CASE s \notin Objs(t)
      BY <2>1, <3>1, <3>2
    <3>3. CASE s \in Objs(t)
      <4>1. S[s].nCount = 0
        BY <1>4, <3>1, <3>3 DEF Objs, SemType
      <4>2. CountWaiter(S[s].nWaiting) > 0
        BY <3>1, SemaphoreAssumption DEF CountWaiter, SemType, SemaphoreAssumption
      <4>3. sem'[s] = [S[s] EXCEPT !.nWaiting = CountWaiter(S[s].nWaiting)]
        BY <2>1, <3>3
      <4> QED
        BY <3>1, <4>1, <4>2, <4>3 DEF SemType
    <3> QED
      BY <3>2, <3>3
  <2>4. \A s \in Objs(t) : sem'[s].nCount = 0 /\ sem'[s].nWaiting > 0
    BY <2>3, NodesOf
  <2> QED
    BY <1>1, <2>1, <2>2, <2>3, <2>4, DownKeeps
<1> QED
  BY <1>2, <1>3, <1>4

LEMMA EnterDownWaiters ==
  ASSUME ~CountWraps, Base, Waiters, NEW t \in Threads, EnterDown(t)
  PROVE  Waiters'
<1> DEFINE S == [s \in Sems |-> IF s \in Objs(t)
                   THEN [sem[s] EXCEPT !.lpWaitQueue = sem[s].lpWaitQueue \cup {n \in OwnNodes(t) : n.sem = s}]
                   ELSE sem[s]]
           r == [thr[t] EXCEPT !.lpWaitQueue = OwnNodes(t), !.timer = thr[t].timer \/ call[t].timed,
                               !.expired = thr[t].expired /\ ~call[t].timed]
<1>1. pc[t] = "down" /\ thr[t].dwState = "RUNNING" /\ Pass(t, S, r)
  BY DEF EnterDown, At
<1>2. ASSUME NEW s \in Sems
      PROVE  /\ S[s] \in SemType
             /\ S[s].nCount = sem[s].nCount /\ S[s].nWaiting = sem[s].nWaiting
             /\ S[s].lpOwner = sem[s].lpOwner /\ S[s].nLockCount = sem[s].nLockCount
             /\ S[s].lpWaitQueue = sem[s].lpWaitQueue \cup {n \in OwnNodes(t) : n.sem = s}
  <2>1. sem[s] \in SemType
    BY DEF Base, TypeOK
  <2>2. {n \in OwnNodes(t) : n.sem = s} \in SUBSET Nodes
    BY OwnNodesType
  <2>3. s \notin Objs(t) => {n \in OwnNodes(t) : n.sem = s} = {}
    BY NodesOf
  <2> QED
    BY <2>1, <2>2, <2>3 DEF SemType
<1>3. /\ r \in ThreadType /\ r.lpWaitQueue = OwnNodes(t)
      /\ r.dwState = thr[t].dwState /\ r.lpRouser = thr[t].lpRouser
  <2> DEFINE timer == thr[t].timer \/ call[t].timed
             expired == thr[t].expired /\ ~call[t].timed
  <2>1. timer \in BOOLEAN /\ expired \in BOOLEAN
    OBVIOUS
  <2>2. thr[t] \in ThreadType /\ OwnNodes(t) \in SUBSET Nodes
    BY OwnNodesType DEF Base, TypeOK
  <2> HIDE DEF timer, expired
  <2> DEFINE q == [thr[t] EXCEPT !.lpWaitQueue = OwnNodes(t), !.timer = timer, !.expired = expired]
  <2>3. /\ q \in ThreadType
        /\ q.lpWaitQueue = OwnNodes(t) /\ q.dwState = thr[t].dwState /\ q.lpRouser = thr[t].lpRouser
    BY <2>1, <2>2 DEF ThreadType
  <2> QED
    BY <2>3 DEF timer, expired
<1>4. thr[t].lpRouser = NULL /\ ~Blocked(t)
  BY <1>1 DEF Waiters, SleepersQueued, Blocked
<1>5. Queues(t, S, r)
  <2>1. Waits(t, S, r)
    BY <1>1, <1>2, <1>3 DEF Waits
  <2> QED
    BY <1>1, <1>2, <1>3, <1>4, <2>1 DEF Queues
<1> HIDE DEF S, r
<1> QED
  BY <1>1, <1>5, PassWaiters

LEMMA ResumeWaiters ==
  ASSUME ~CountWraps, Base, Waiters, NEW t \in Threads, Resume(t)
  PROVE  Waiters'
<1> DEFINE rouser == thr[t].lpRouser
           r == [thr[t] EXCEPT !.lpRouser = NULL]
           i == CHOOSE j \in Indices(t) : Obj(t, j) = rouser.sem
<1>1. /\ pc[t] = "sleep" /\ thr[t].dwState = "RUNNING"
      /\ thr[t] \in ThreadType /\ thr[t].lpWaitQueue = OwnNodes(t)
  BY DEF Resume, At, Base, TypeOK, CallsAsk
<1>2. r \in ThreadType /\ r.lpWaitQueue = OwnNodes(t) /\ r.dwState = "RUNNING" /\ r.lpRouser = NULL
  BY <1>1 DEF ThreadType
<1>3. Queues(t, sem, r)
  <2>1. Waits(t, sem, r)
    BY <1>1, <1>2 DEF Waits, Base, TypeOK
  <2>2. ASSUME NEW s \in Sems, NEW n \in OwnNodes(t), n.sem = s PROVE n \in sem[s].lpWaitQueue
    BY <1>1, <2>2 DEF Waiters, SleepersQueued
  <2>3. \A s \in Sems : sem[s].lpWaitQueue = sem[s].lpWaitQueue \cup {n \in OwnNodes(t) : n.sem = s}
    BY <2>2
  <2> QED
    BY <1>1, <1>2, <2>1, <2>3 DEF Queues, Blocked
<1>4. CASE rouser \in r.lpWaitQueue /\ (sem[rouser.sem].nCount > 0 \/ r.pulsing)
  <2>1. \E j \in Indices(t) : Obj(t, j) = rouser.sem
    BY <1>2, <1>4 DEF OwnNodes, Objs
  <2>2. Indices(t) \subseteq Nat
    BY DEF Base, TypeOK, CallType, Indices
  <2>3. i \in Nat
    BY <2>1, <2>2
  <2>4. ReturnFromDown(t, sem, r, i)
    BY <1>4 DEF Resume
  <2> HIDE DEF i, r
  <2> QED
    BY <1>3, <2>3, <2>4, ReturnWaiters
<1>5. CASE ~(rouser \in r.lpWaitQueue /\ (sem[rouser.sem].nCount > 0 \/ r.pulsing))
  BY <1>3, <1>5, PassWaiters DEF Resume
<1> QED
  BY <1>4, <1>5

LEMMA LeaveDownWaiters ==
  ASSUME Base, Waiters, NEW t \in Threads, LeaveDown(t)
  PROVE  Waiters'
<1> DEFINE l == IF \/ call[t].dwRetv = 0
                   \/ ~call[t].bWaitAll /\ Kind[Obj(t, call[t].dwRetv)] = "manual"
                THEN "idle" ELSE "check"
<1>1. /\ Goto(t, l, call[t])
      /\ sem' = [s \in Sems |-> [sem[s] EXCEPT !.lpWaitQueue = sem[s].lpWaitQueue \ OwnNodes(t)]]
      /\ thr' = [thr EXCEPT ![t] = [thr[t] EXCEPT !.timer = thr[t].timer /\ ~call[t].timed]]
      /\ pc[t] = "leave" /\ thr[t].dwState = "RUNNING"
      /\ l \in {"check", "idle"} /\ l \in PCs /\ call[t] \in CallType
  BY DEF LeaveDown, At, PCs, Base, TypeOK
<1> HIDE DEF l
<1>2. /\ pc'[t] = l
      /\ \A u \in Threads \ {t} : pc'[u] = pc[u] /\ call'[u] = call[u]
  BY <1>1, GotoOne DEF Base
<1>3. ASSUME NEW s \in Sems
      PROVE  /\ sem'[s].lpWaitQueue = sem[s].lpWaitQueue \ OwnNodes(t)
             /\ sem'[s].nCount = sem[s].nCount /\ sem'[s].nWaiting = sem[s].nWaiting
  BY <1>1 DEF Base, TypeOK, SemType
<1>4. \A u \in Threads : SameThread(u)
  BY <1>1 DEF SameThread, Base, TypeOK, ThreadType
<1>5. \A u \in Threads \ {t} : OwnNodes(u)' = OwnNodes(u) /\ Objs(u)' = Objs(u)
  BY <1>2 DEF OwnNodes, Objs, Obj, Indices
<1>6. \A s \in Sems : Waking(s) => Waking(s)'
  BY <1>1, <1>2 DEF Waking
<1>7. \A u \in Threads : Blocked(u)' <=> Blocked(u)
  BY <1>4 DEF Blocked, SameThread
<1>8. QueuesRight'
  <2> SUFFICES ASSUME NEW s \in Sems, NEW n \in sem'[s].lpWaitQueue
               PROVE  pc'[n.lpThread] \in {"sleep", "leave"} /\ n \in OwnNodes(n.lpThread)' /\ n.sem = s
    BY DEF QueuesRight
  <2>1. n \in sem[s].lpWaitQueue /\ n \notin OwnNodes(t)
    BY <1>3
  <2>2. n.lpThread \in Threads
    BY <2>1 DEF Base, TypeOK, SemType, Nodes
  <2>3. pc[n.lpThread] \in {"sleep", "leave"} /\ n \in OwnNodes(n.lpThread) /\ n.sem = s
    BY <2>1 DEF Waiters, QueuesRight
  <2> QED
    BY <1>2, <1>5, <2>1, <2>2, <2>3
<1>9. SleepersQueued'
  <2>1. ASSUME NEW u \in Threads \ {t}, pc'[u] = "sleep", NEW n \in OwnNodes(u)
        PROVE  n \in sem'[n.sem].lpWaitQueue
    <3>1. n.lpThread = u /\ n.sem \in Sems /\ n \notin OwnNodes(t)
      BY <2>1, NodesOf
    <3>2. n \in sem[n.sem].lpWaitQueue
      BY <1>2, <2>1 DEF Waiters, SleepersQueued
    <3> QED
      BY <1>3, <3>1, <3>2
  <2>2. ASSUME NEW u \in Threads, pc'[u] # "sleep"
        PROVE  thr'[u].lpWaitQueue = {} /\ thr'[u].lpRouser = NULL
    <3>1. pc[u] # "sleep"
      BY <1>1, <1>2, <2>2
    <3> QED
      BY <1>4, <3>1 DEF Waiters, SleepersQueued, SameThread
  <2>3. \A u \in Threads : Blocked(u)' => pc'[u] = "sleep"
    BY <1>1, <1>2, <1>7 DEF Waiters, SleepersQueued
  <2>4. pc'[t] # "sleep"
    BY <1>1, <1>2
  <2> QED
    BY <1>5, <2>1, <2>2, <2>3, <2>4 DEF SleepersQueued
<1>10. RouserIsOwn'
  BY <1>1, <1>2, <1>4 DEF Waiters, RouserIsOwn, SameThread
<1>11. BlockedCounted'
  <2> SUFFICES ASSUME NEW u \in Threads, Blocked(u), NEW s \in Objs(u)'
               PROVE  Waking(s)' \/ (sem'[s].nCount = 0 /\ sem'[s].nWaiting > 0)
    BY <1>7 DEF BlockedCounted
  <2>1. u # t
    BY <1>1 DEF Blocked
  <2>2. s \in Objs(u) /\ s \in Sems
    BY <1>5, <2>1, NodesOf
  <2>3. Waking(s) \/ (sem[s].nCount = 0 /\ sem[s].nWaiting > 0)
    BY <2>2 DEF Waiters, BlockedCounted
  <2> QED
    BY <1>3, <1>6, <2>2, <2>3
<1> QED
  BY <1>8, <1>9, <1>10, <1>11 DEF Waiters

-----------------------------------------------------------------------------
(* Steps that wake *)

\* Waking the queue of s leaves nobody blocked on s, and names a waker's own element.
LEMMA WakeAllReaches ==
  ASSUME Base, Waiters, NEW s \in Sems, NEW u \in Threads,
         NEW F, F = WakeAll(thr, sem[s].lpWaitQueue)
  PROVE  /\ F[u].lpWaitQueue = thr[u].lpWaitQueue
         /\ F[u].dwState \in {"INTERRUPTIBLE", "UNINTERRUPTIBLE"} => Blocked(u) /\ s \notin Objs(u)
         /\ F[u].lpRouser # thr[u].lpRouser =>
              pc[u] = "sleep" /\ F[u].lpRouser \in thr[u].lpWaitQueue
<1> DEFINE mine == {n \in sem[s].lpWaitQueue : n.lpThread = u}
           n0 == CHOOSE n \in mine : TRUE
<1>1. thr[u] \in ThreadType
  BY DEF Base, TypeOK
<1>2. Blocked(u) => pc[u] = "sleep" /\ thr[u].lpWaitQueue = OwnNodes(u)
  BY DEF Waiters, SleepersQueued, Base, CallsAsk
<1>3. Blocked(u) /\ s \in Objs(u) => mine # {}
  <2> SUFFICES ASSUME Blocked(u), s \in Objs(u) PROVE mine # {}
    OBVIOUS
  <2>1. PICK n \in OwnNodes(u) : n.sem = s /\ n.lpThread = u
    BY NodesOf
  <2>2. n \in sem[s].lpWaitQueue
    BY <1>2, <2>1 DEF Waiters, SleepersQueued
  <2> QED
    BY <2>1, <2>2
<1>4. mine # {} => n0 \in OwnNodes(u)
  BY DEF Waiters, QueuesRight
<1>5. F[u] = IF mine # {} /\ Blocked(u)
             THEN [thr[u] EXCEPT !.dwState = "RUNNING",
                                 !.lpRouser = IF thr[u].lpRouser = NULL THEN n0 ELSE thr[u].lpRouser]
             ELSE thr[u]
  BY DEF WakeAll, Blocked
<1> HIDE DEF mine, n0
<1>6. CASE mine # {} /\ Blocked(u)
  BY <1>1, <1>2, <1>4, <1>5, <1>6 DEF ThreadType
<1>7. CASE ~(mine # {} /\ Blocked(u))
  BY <1>1, <1>3, <1>5, <1>7 DEF Blocked
<1> QED
  BY <1>6, <1>7

LEMMA WakeWaiters ==
  ASSUME Base, Waiters, NEW t \in Threads, NEW l \in Wakers,
         NEW next \in {"idle", "reset", "clear", "detach"}, WakeupWaitQueue(t, l, next)
  PROVE  Waiters'
<1> DEFINE s == call[t].lpsem
           F == WakeAll(thr, sem[s].lpWaitQueue)
<1>1. /\ thr' = F /\ sem' = sem /\ Goto(t, next, call[t]) /\ pc[t] = l
      /\ call[t] \in CallType /\ s \in Sems
      /\ next \in PCs \ {"sleep", "leave"}
  BY DEF WakeupWaitQueue, At, Base, TypeOK, CallType, PCs
<1>2. \A u \in Threads :
        /\ thr'[u].lpWaitQueue = thr[u].lpWaitQueue
        /\ Blocked(u)' => Blocked(u) /\ s \notin Objs(u)
        /\ thr'[u].lpRouser # thr[u].lpRouser =>
             pc[u] = "sleep" /\ thr'[u].lpRouser \in thr[u].lpWaitQueue
  BY <1>1, WakeAllReaches DEF Blocked
<1> HIDE DEF F
<1>3. /\ pc'[t] = next /\ pc[t] \notin {"sleep", "leave"}
      /\ \A u \in Threads \ {t} : pc'[u] = pc[u] /\ call'[u] = call[u]
  BY <1>1, GotoOne DEF Base, Wakers
<1>4. \A u \in Threads \ {t} : OwnNodes(u)' = OwnNodes(u) /\ Objs(u)' = Objs(u)
  BY <1>3 DEF OwnNodes, Objs, Obj, Indices
<1>5. \A z \in Sems \ {s} : Waking(z) => Waking(z)'
  BY <1>3 DEF Waking
<1>6. QueuesRight'
  <2>1. \A z \in Sems : \A n \in sem[z].lpWaitQueue : n.lpThread \in Threads \ {t}
    BY <1>3 DEF Waiters, QueuesRight, Base, TypeOK, SemType, Nodes
  <2> QED
    BY <1>1, <1>3, <1>4, <2>1 DEF Waiters, QueuesRight
<1>7. SleepersQueued'
  <2>1. ~Blocked(t)
    BY <1>3 DEF Waiters, SleepersQueued
  <2> QED
    BY <1>1, <1>2, <1>3, <1>4, <2>1 DEF Waiters, SleepersQueued
<1>8. RouserIsOwn'
  BY <1>1, <1>2, <1>3 DEF Waiters, RouserIsOwn
<1>9. BlockedCounted'
  <2> SUFFICES ASSUME NEW u \in Threads, Blocked(u)', NEW z \in Objs(u)'
               PROVE  Waking(z)' \/ (sem'[z].nCount = 0 /\ sem'[z].nWaiting > 0)
    BY DEF BlockedCounted
  <2>1. Blocked(u) /\ u # t
    BY <1>2, <1>3 DEF Waiters, SleepersQueued
  <2>2. z \in Objs(u) /\ z # s /\ z \in Sems
    BY <1>2, <1>4, <2>1, NodesOf
  <2>3. Waking(z) \/ (sem[z].nCount = 0 /\ sem[z].nWaiting > 0)
    BY <2>1, <2>2 DEF Waiters, BlockedCounted
  <2> QED
    BY <1>1, <1>5, <2>2, <2>3
<1> QED
  BY <1>6, <1>7, <1>8, <1>9 DEF Waiters

\* Steps of no thread change no call; at least the threads they wake are not blocked.
LEMMA InterruptWaiters ==
  ASSUME Base, Waiters, NEW s \in Sems, INTR_ISRFun(s)
  PROVE  Waiters'
<1>1. /\ call' = call /\ pc' = pc
      /\ sem' = [sem EXCEPT ![s] = Up(sem[s], s, 1, FALSE)]
      /\ thr' = IF MustWake(sem[s], s, 1) THEN WakeAll(thr, sem[s].lpWaitQueue) ELSE thr
  BY DEF INTR_ISRFun
<1>2. \A u \in Threads :
        /\ thr'[u].lpWaitQueue = thr[u].lpWaitQueue
        /\ Blocked(u)' => Blocked(u) /\ (s \in Objs(u) => ~MustWake(sem[s], s, 1))
        /\ thr'[u].lpRouser # thr[u].lpRouser =>
             pc[u] = "sleep" /\ thr'[u].lpRouser \in thr[u].lpWaitQueue
  <2>1. CASE MustWake(sem[s], s, 1)
    BY <1>1, <2>1, WakeAllReaches DEF Blocked
  <2>2. CASE ~MustWake(sem[s], s, 1)
    BY <1>1, <2>2 DEF Blocked
  <2> QED
    BY <2>1, <2>2
<1>3. sem[s] \in SemType /\ sem \in [Sems -> SemType] /\ nMaxCount[s] \in Nat \ {0}
  BY ConstantFacts DEF Base, TypeOK
<1>4. /\ sem'[s].lpWaitQueue = sem[s].lpWaitQueue
      /\ \A z \in Sems \ {s} : sem'[z] = sem[z]
  BY <1>1, <1>3 DEF Up, SemType
<1>5. sem[s].nCount = 0 /\ sem[s].nWaiting > 0 => MustWake(sem[s], s, 1)
  BY <1>3 DEF MustWake
<1>6. \A u \in Threads : OwnNodes(u)' = OwnNodes(u) /\ Objs(u)' = Objs(u)
  BY <1>1 DEF OwnNodes, Objs, Obj, Indices
<1>7. \A z \in Sems : sem'[z].lpWaitQueue = sem[z].lpWaitQueue
  BY <1>4, Zenon
<1>8. QueuesRight'
  <2> SUFFICES ASSUME NEW z \in Sems, NEW n \in sem[z].lpWaitQueue
               PROVE  pc[n.lpThread] \in {"sleep", "leave"} /\ n \in OwnNodes(n.lpThread)' /\ n.sem = z
    BY <1>1, <1>7 DEF QueuesRight
  <2>1. n.lpThread \in Threads
    BY DEF Base, TypeOK, SemType, Nodes
  <2> QED
    BY <1>6, <2>1 DEF Waiters, QueuesRight
<1>9. SleepersQueued'
  <2>1. ASSUME NEW u \in Threads, pc[u] = "sleep", NEW n \in OwnNodes(u)
        PROVE  n \in sem'[n.sem].lpWaitQueue
    <3>1. n.sem \in Sems
      BY NodesOf
    <3> QED
      BY <1>7, <2>1, <3>1 DEF Waiters, SleepersQueued
  <2>2. ASSUME NEW u \in Threads, pc[u] # "sleep"
        PROVE  thr'[u].lpWaitQueue = {} /\ thr'[u].lpRouser = NULL
    <3>1. thr[u].lpWaitQueue = {} /\ thr[u].lpRouser = NULL
      BY <2>2 DEF Waiters, SleepersQueued
    <3> QED
      BY <1>2, <2>2, <3>1
  <2>3. ASSUME NEW u \in Threads, Blocked(u)'
        PROVE  pc[u] = "sleep"
    <3>1. Blocked(u)
      BY <1>2, <2>3
    <3> QED
      BY <3>1 DEF Waiters, SleepersQueued
  <2>4. pc' = pc
    BY <1>1
  <2>5. ASSUME NEW u \in Threads, pc[u] = "sleep", NEW n \in OwnNodes(u)'
        PROVE  (n \in sem[n.sem].lpWaitQueue)'
    BY <1>6, <2>1, <2>5
  <2> QED
    BY <2>2, <2>3, <2>4, <2>5 DEF SleepersQueued
<1>10. RouserIsOwn'
  BY <1>1, <1>2 DEF Waiters, RouserIsOwn
<1>11. BlockedCounted'
  <2> SUFFICES ASSUME NEW u \in Threads, Blocked(u)', NEW z \in Objs(u)
               PROVE  Waking(z)' \/ (sem'[z].nCount = 0 /\ sem'[z].nWaiting > 0)
    BY <1>6 DEF BlockedCounted
  <2>1. Blocked(u) /\ z \in Sems /\ (z = s => ~MustWake(sem[s], s, 1))
    BY <1>2, NodesOf
  <2>2. Waking(z) \/ (sem[z].nCount = 0 /\ sem[z].nWaiting > 0)
    BY <2>1 DEF Waiters, BlockedCounted
  <2>3. Waking(z)' <=> Waking(z)
    BY <1>1 DEF Waking
  <2> QED
    BY <1>4, <1>5, <2>1, <2>2, <2>3
<1> QED
  BY <1>8, <1>9, <1>10, <1>11 DEF Waiters

LEMMA TimeoutWaiters ==
  ASSUME Base, Waiters, NEW t \in Threads, ThreadTimeout(t)
  PROVE  Waiters'
<1>1. thr \in [Threads -> ThreadType] /\ sem' = sem /\ call' = call /\ pc' = pc
  BY DEF ThreadTimeout, Base, TypeOK
<1> DEFINE q == [thr[t] EXCEPT !.timer = FALSE, !.expired = TRUE,
                               !.dwState = IF Blocked(t) THEN "RUNNING" ELSE thr[t].dwState]
<1>2. thr' = [thr EXCEPT ![t] = q]
  BY <1>1 DEF ThreadTimeout
<1>3. q.lpWaitQueue = thr[t].lpWaitQueue /\ q.lpRouser = thr[t].lpRouser
      /\ q.dwState \notin {"INTERRUPTIBLE", "UNINTERRUPTIBLE"}
  BY <1>1 DEF ThreadType, Blocked
<1> HIDE DEF q
<1>4. \A u \in Threads :
        /\ thr'[u].lpWaitQueue = thr[u].lpWaitQueue /\ thr'[u].lpRouser = thr[u].lpRouser
        /\ Blocked(u)' => Blocked(u)
  BY <1>1, <1>2, <1>3 DEF Blocked
<1>5. \A u \in Threads : OwnNodes(u)' = OwnNodes(u) /\ Objs(u)' = Objs(u)
  BY <1>1 DEF OwnNodes, Objs, Obj, Indices
<1>6. \A z \in Sems : Waking(z)' <=> Waking(z)
  BY <1>1 DEF Waking
<1>7. QueuesRight'
  BY <1>1, <1>5 DEF Waiters, QueuesRight, Base, TypeOK, SemType, Nodes
<1>8. SleepersQueued' /\ RouserIsOwn'
  BY <1>1, <1>4, <1>5 DEF Waiters, SleepersQueued, RouserIsOwn
<1>9. BlockedCounted'
  BY <1>1, <1>4, <1>5, <1>6, NodesOf DEF Waiters, BlockedCounted
<1> QED
  BY <1>7, <1>8, <1>9 DEF Waiters

LEMMA DetachWaiters ==
  ASSUME Base, Waiters, NEW t \in Threads, Detach(t)
  PROVE  Waiters'
<1>1. pc[t] = "detach" /\ "dead" \in PCs /\ Goto(t, "dead", NoCall)
  BY DEF Detach, At, PCs
<1>2. thr[t].lpWaitQueue = {} /\ thr[t] \in ThreadType
  BY <1>1 DEF Waiters, SleepersQueued, Base, TypeOK
<1> DEFINE q == [thr[t] EXCEPT !.dwState = "ZOMBIE", !.timer = FALSE, !.lpWaitQueue = {}]
<1>3. thr' = [thr EXCEPT ![t] = q] /\ q.lpRouser = thr[t].lpRouser /\ q.lpWaitQueue = {} /\ q.dwState = "ZOMBIE"
  BY <1>2 DEF Detach, ThreadType
<1> HIDE DEF q
<1>4. \A s \in Sems :
        /\ sem'[s].lpWaitQueue = sem[s].lpWaitQueue
        /\ sem'[s].nCount = sem[s].nCount /\ sem'[s].nWaiting = sem[s].nWaiting
  BY <1>2 DEF Detach, Base, TypeOK, SemType
<1>5. /\ \A u \in Threads \ {t} : SameThread(u)
      /\ ~Blocked(t)' /\ thr'[t].lpRouser = thr[t].lpRouser /\ thr'[t].lpWaitQueue = {}
  BY <1>3 DEF SameThread, Blocked, Base, TypeOK
<1>6. TypeOK /\ pc[t] \notin {"sleep", "leave"} \cup Wakers /\ "dead" \notin {"sleep", "leave"}
  BY <1>1 DEF Base, Wakers
<1> QED
  BY <1>1, <1>4, <1>5, <1>6, NoCallType, OutsideKeeps

-----------------------------------------------------------------------------
LEMMA ContinueWaiters ==
  ASSUME ~CountWraps, Base, Waiters, NEW t \in Threads, Continue(t)
  PROVE  Waiters'
<1>0. /\ {"pulse", "reset", "sweep", "clear", "detach"} \subseteq PCs
      /\ "pulse" \notin {"sleep", "leave"} \cup Wakers /\ "sweep" \notin {"sleep", "leave"} \cup Wakers
      /\ "pulseUp" \in Wakers /\ "sweepUp" \in Wakers /\ "sweepLeave" \in Wakers
      /\ \A l \in {"reset", "clear", "detach"} : l \notin {"sleep", "leave"}
      /\ TRUE \in BOOLEAN /\ FALSE \in BOOLEAN
      /\ \A s \in Sems : 1 \in 1 .. nMaxCount[s]
  BY ConstantFacts DEF PCs, Wakers
<1>1. CASE EnterDown(t) \/ Resume(t) \/ LeaveDown(t)
  BY <1>1, EnterDownWaiters, ResumeWaiters, LeaveDownWaiters
<1>2. CASE WakeupWaitQueue(t, "up", "idle") \/ WakeupWaitQueue(t, "pulseUp", "reset")
           \/ WakeupWaitQueue(t, "sweepUp", "clear") \/ WakeupWaitQueue(t, "sweepLeave", "detach")
  BY <1>2, WakeWaiters DEF Wakers
<1>3. CASE CheckCount(t) \/ EnterSweep(t) \/ SweepClear(t)
  BY <1>3, QuietWaiters
<1>4. CASE PulseSet(t)
  <2>1. call[t].lpsem \in Sems
    BY DEF Base, TypeOK, CallType
  <2> QED
    BY <1>0, <1>4, <2>1, SignalWaiters DEF PulseSet
<1>5. CASE PulseReset(t)
  <2>1. call[t].lpsem \in Sems
    BY DEF Base, TypeOK, CallType
  <2> QED
    BY <1>5, <2>1, QuietWaiters DEF PulseReset
<1>6. CASE SweepUp(t)
  <2>1. PICK s \in Owned(t) : Signal(t, s, 1, Kind[s] = "mutex", "sweep", "sweepUp", "clear")
    BY <1>6 DEF SweepUp
  <2>2. s \in Sems /\ (Kind[s] = "mutex") \in BOOLEAN
    BY DEF Owned
  <2> QED
    BY <1>0, <2>1, <2>2, SignalWaiters
<1>7. CASE SweepDone(t)
  <2>1. CASE Signal(t, csSemList, 1, TRUE, "sweep", "sweepLeave", "detach")
    BY <1>0, <2>1, ConstantFacts, SignalWaiters
  <2>2. CASE LowerLockCount(t, csSemList, "sweep", "detach")
    BY <2>2, ConstantFacts, QuietWaiters
  <2> QED
    BY <1>7, <2>1, <2>2 DEF SweepDone
<1>8. CASE Detach(t)
  BY <1>8, DetachWaiters
<1> QED
  BY <1>1, <1>2, <1>3, <1>4, <1>5, <1>6, <1>7, <1>8 DEF Continue

LEMMA CallSignalWaiters ==
  ASSUME Base, Waiters, NEW t \in Threads, CallSignal(t)
  PROVE  Waiters'
<1>0. /\ TRUE \in BOOLEAN /\ FALSE \in BOOLEAN
      /\ "idle" \in PCs /\ "idle" \notin {"sleep", "leave"} \cup Wakers /\ "up" \in Wakers
      /\ \A s \in Sems : 1 \in 1 .. nMaxCount[s]
  BY ConstantFacts DEF PCs, Wakers
<1>1. ASSUME NEW s \in Sems, NEW n \in 1 .. nMaxCount[s], NEW owned \in BOOLEAN,
             Signal(t, s, n, owned, "idle", "up", "idle")
      PROVE  Waiters'
  BY <1>0, <1>1, SignalWaiters
<1>2. ASSUME NEW s \in Sems, LowerLockCount(t, s, "idle", "idle") \/ SemaphoreReset(t, s, "idle")
      PROVE  Waiters'
  BY <1>2, QuietWaiters
<1>3. ASSUME NEW s \in Sems, PulseEvent(t, s) PROVE Waiters'
  <2>1. CASE Kind[s] = "manual"
    BY <1>3, <2>1, QuietWaiters
  <2>2. CASE Kind[s] # "manual"
    BY <1>0, <1>1, <1>3, <2>2 DEF PulseEvent
  <2> QED
    BY <2>1, <2>2
<1>4. ASSUME NEW s \in Sems, LeaveCrit(t, s) \/ ReleaseMutex(t, s) \/ SetEvent(t, s) \/ ResetEvent(t, s)
      PROVE  Waiters'
  BY <1>0, <1>1, <1>2, <1>4 DEF LeaveCrit, ReleaseMutex, SetEvent, ResetEvent
<1>5. ASSUME NEW s \in Sems, NEW n \in 1 .. nMaxCount[s], ReleaseSemaphore(t, s, n) PROVE Waiters'
  BY <1>0, <1>1, <1>5 DEF ReleaseSemaphore
<1> QED
  BY <1>3, <1>4, <1>5 DEF CallSignal, Objects

LEMMA CallWaitWaiters ==
  ASSUME Base, Waiters, NEW t \in Threads, CallWait(t)
  PROVE  Waiters'
<1>1. \E s, z \in Sems : \E objs \in {<<s>>, <<s, z>>}, all, timed \in BOOLEAN : Wait(t, objs, all, timed)
  <2>1. Timed \subseteq BOOLEAN /\ TRUE \in BOOLEAN /\ FALSE \in BOOLEAN
    BY DEF Timed
  <2> QED
    BY <2>1 DEF CallWait, Objects
<1> QED
  BY <1>1, QuietWaiters

LEMMA NextWaiters ==
  ASSUME NoTermination, ~CountWraps
  PROVE  Base /\ Waiters /\ [Next]_vars => Waiters'
<1> SUFFICES ASSUME Base, Waiters, [Next]_vars PROVE Waiters'
  OBVIOUS
<1>1. CASE UNCHANGED vars
  BY <1>1 DEF vars, Waiters, QueuesRight, SleepersQueued, RouserIsOwn, BlockedCounted,
              OwnNodes, Objs, Obj, Indices, Blocked, Waking
<1>2. ASSUME NEW t \in Threads,
             CallWait(t) \/ CallSignal(t) \/ Continue(t) \/ AllocFails(t) \/ ThreadTimeout(t)
             \/ ExitThread(t)
      PROVE  Waiters'
  <2>1. CASE CallWait(t) \/ CallSignal(t) \/ Continue(t)
    BY <2>1, CallWaitWaiters, CallSignalWaiters, ContinueWaiters
  <2>2. CASE AllocFails(t) \/ ExitThread(t)
    BY <2>2, QuietWaiters
  <2> QED
    BY <1>2, <2>1, <2>2, TimeoutWaiters
<1>3. ASSUME NEW s \in Sems, INTR_ISRFun(s) PROVE Waiters'
  BY <1>3, InterruptWaiters
<1> QED
  BY <1>1, <1>2, <1>3 DEF Next, NoTermination

LEMMA AlwaysWaiters ==
  ASSUME NoTermination, ~CountWraps
  PROVE  Spec => [](Base /\ Waiters)
<1>1. Base /\ Waiters /\ [Next]_vars => Waiters'
  BY NextWaiters
<1> QED
  BY <1>1, InitBase, InitWaiters, NextBase, PTL DEF Spec

\* No signal is lost: whoever sleeps on a signalled object is about to be woken, although
\* the wake-up is skipped when nWaiting is 0, as long as nWaiting does not wrap and no
\* thread is terminated on its way to the wake-up.
THEOREM SignalsAreNotLost ==
  ASSUME NoTermination, ~CountWraps
  PROVE  Spec => []NoLostSignal
<1>1. Base /\ Waiters => NoLostSignal
  BY DEF Base, TypeOK, SemType, Waiters, BlockedCounted, NoLostSignal
<1> QED
  BY <1>1, AlwaysWaiters, PTL

\* The element a thread was woken by is one of those it waits with: the assertion of
\* __DownSemphores.
THEOREM RousersAreOwn ==
  ASSUME NoTermination, ~CountWraps
  PROVE  Spec => []RouserIsOwn
<1>1. Base /\ Waiters => RouserIsOwn
  BY DEF Waiters
<1> QED
  BY <1>1, AlwaysWaiters, PTL

\* No wait element is left on a queue by a thread that does not wait there any more.
THEOREM QueuedWait ==
  ASSUME NoTermination, ~CountWraps
  PROVE  Spec => []QueuedAreWaiting
<1>1. Base /\ Waiters => QueuedAreWaiting
  <2> SUFFICES ASSUME Base, Waiters, NEW s \in Sems, NEW n \in sem[s].lpWaitQueue
               PROVE  pc[n.lpThread] \in {"sleep", "leave"} /\ n.sem \in Objs(n.lpThread)
    BY DEF QueuedAreWaiting
  <2>1. n.lpThread \in Threads
    BY DEF Base, TypeOK, SemType, Nodes
  <2> QED
    BY <2>1, NodesOf DEF Waiters, QueuesRight
<1> QED
  BY <1>1, AlwaysWaiters, PTL
-----------------------------------------------------------------------------
(* Owners *)

Exiting == {"dying", "sweep", "sweepUp", "clear", "sweepLeave", "detach", "dead"}

\* No thread is on its way out.
Alive == \A t \in Threads : pc[t] \notin Exiting /\ ~call[t].exit

LEMMA AliveStep ==
  ASSUME TypeOK, Alive, NEW t \in Threads, NEW l, l \notin Exiting, NEW c, ~c.exit, Goto(t, l, c)
  PROVE  Alive'
<1>1. ~NoCall.exit
  BY DEF NoCall
<1> QED
  BY <1>1 DEF TypeOK, Alive, Goto

\* A step that only touches the counts of events and semaphores keeps the owners right.
LEMMA OwnersKept ==
  ASSUME OwnedWhenTaken,
         \A s \in Sems : Kind[s] \in {"mutex", "crit"} =>
           sem'[s].nCount = sem[s].nCount /\ sem'[s].lpOwner = sem[s].lpOwner
  PROVE  OwnedWhenTaken'
  BY DEF OwnedWhenTaken

LEMMA PassOwners ==
  ASSUME Base, Alive, NEW t \in Threads, NEW S \in [Sems -> SemType], NEW r, Pass(t, S, r)
  PROVE  /\ Alive'
         /\ \A s \in Sems : sem'[s].nCount = S[s].nCount /\ sem'[s].lpOwner = S[s].lpOwner
<1> DEFINE signalled == {i \in Indices(t) : S[Obj(t, i)].nCount > 0}
<1>1. call[t] \in CallType /\ ~call[t].exit /\ TypeOK
  BY DEF Base, TypeOK, Alive
<1>2. ASSUME NEW i, ReturnFromDown(t, S, r, i)
      PROVE  Alive' /\ sem' = S
  <2>1. ~[call[t] EXCEPT !.dwRetv = i].exit
    BY <1>1 DEF CallType
  <2> QED
    BY <1>1, <1>2, <2>1, AliveStep DEF ReturnFromDown, Exiting
<1>3. CASE signalled # {} \/ (call[t].timed /\ r.expired)
  <2>1. PICK i : ReturnFromDown(t, S, r, i)
    BY <1>3 DEF Pass
  <2> QED
    BY <1>2, <2>1
<1>4. CASE ~(signalled # {} \/ (call[t].timed /\ r.expired))
  <2>1. /\ Goto(t, "sleep", call[t])
        /\ sem' = [s \in Sems |-> IF s \in Objs(t)
                     THEN [S[s] EXCEPT !.nWaiting = CountWaiter(S[s].nWaiting)] ELSE S[s]]
    BY <1>4 DEF Pass
  <2>2. Alive'
    BY <1>1, <2>1, AliveStep DEF Exiting
  <2> QED
    BY <2>1, <2>2 DEF SemType
<1> QED
  BY <1>3, <1>4

\* Signalling an object that has an owner takes the owner away.
LEMMA SignalOwners ==
  ASSUME Base, Alive, OwnedWhenTaken, NEW t \in Threads, NEW s \in Sems, NEW n \in Nat \ {0},
         NEW owned \in BOOLEAN, NEW l, NEW wake, NEW next,
         Signal(t, s, n, owned, l, wake, next),
         wake \notin Exiting, next \notin Exiting,
         Kind[s] \in {"mutex", "crit"} => owned
  PROVE  Alive' /\ OwnedWhenTaken'
<1>1. /\ sem' = [sem EXCEPT ![s] = Up(sem[s], s, n, owned)]
      /\ Goto(t, IF MustWake(sem[s], s, n) THEN wake ELSE next, [call[t] EXCEPT !.lpsem = s])
  BY DEF Signal
<1>2. Alive'
  <2>1. ~[call[t] EXCEPT !.lpsem = s].exit
    BY DEF Base, TypeOK, CallType, Alive
  <2> QED
    BY <1>1, <2>1, AliveStep DEF Base
<1>3. sem \in [Sems -> SemType] /\ sem[s] \in SemType /\ nMaxCount[s] \in Nat
  <2>1. nMaxCount[s] \in Nat
    BY ConstantFacts
  <2> QED
    BY <2>1 DEF Base, TypeOK
<1>4. CASE sem[s].nCount + n > nMaxCount[s] \/ ~owned
  <2>1. \A z \in Sems : Kind[z] \in {"mutex", "crit"} => sem'[z] = sem[z]
    BY <1>1, <1>3, <1>4 DEF Up
  <2> QED
    BY <1>2, <2>1, OwnersKept
<1>5. CASE ~(sem[s].nCount + n > nMaxCount[s]) /\ owned
  <2> DEFINE r == Up(sem[s], s, n, owned)
  <2>1. r.nCount = sem[s].nCount + n /\ r.lpOwner = NULL /\ r.nCount # 0
    BY <1>3, <1>5 DEF Up, SemType
  <2> HIDE DEF r
  <2>2. sem'[s] = r /\ \A z \in Sems \ {s} : sem'[z] = sem[z]
    BY <1>1, <1>3 DEF r
  <2> QED
    BY <1>2, <2>1, <2>2 DEF OwnedWhenTaken
<1> QED
  BY <1>2, <1>4, <1>5

LEMMA CheckCountOwners ==
  ASSUME Base, Alive, OwnedWhenTaken, NEW t \in Threads, CheckCount(t)
  PROVE  Alive' /\ OwnedWhenTaken'
<1>1. /\ \A s \in Sems : sem'[s] \in {sem[s], Taken(sem[s], s, t)}
      /\ Goto(t, IF Takes(t) = {} THEN "down" ELSE IF call[t].exit THEN "sweep" ELSE "idle", call[t])
  BY DEF CheckCount
<1>2. Alive'
  BY <1>1, AliveStep DEF Alive, Exiting, Base
<1>3. ASSUME NEW s \in Sems, Kind[s] \in {"mutex", "crit"}
      PROVE  sem'[s].nCount = 0 <=> sem'[s].lpOwner # NULL
  <2>1. /\ sem[s] \in SemType /\ sem[s].nCount <= 1 /\ t # NULL
        /\ sem[s].nCount = 0 <=> sem[s].lpOwner # NULL
    BY <1>3, ConstantFacts DEF Base, TypeOK, OwnedWhenTaken
  <2>2. CASE sem[s].nCount = 0
    BY <1>1, <2>1, <2>2 DEF Taken, SemType
  <2>3. CASE sem[s].nCount # 0
    <3>1. sem[s].nCount = 1
      BY <2>1, <2>3 DEF SemType
    <3>2. Taken(sem[s], s, t).nCount = 0 /\ Taken(sem[s], s, t).lpOwner = t
      BY <1>3, <2>1, <3>1 DEF Taken, SemType
    <3> QED
      BY <1>1, <2>1, <3>2
  <2> QED
    BY <2>2, <2>3
<1> QED
  BY <1>2, <1>3 DEF OwnedWhenTaken

LEMMA DownOwners ==
  ASSUME Base, Alive, OwnedWhenTaken, NEW t \in Threads,
         EnterDown(t) \/ Resume(t) \/ LeaveDown(t)
  PROVE  Alive' /\ OwnedWhenTaken'
<1>1. sem \in [Sems -> SemType] /\ TypeOK /\ ~call[t].exit
  BY DEF Base, TypeOK, Alive
<1>2. CASE EnterDown(t)
  <2> DEFINE S == [s \in Sems |-> IF s \in Objs(t)
                     THEN [sem[s] EXCEPT !.lpWaitQueue = sem[s].lpWaitQueue \cup {n \in OwnNodes(t) : n.sem = s}]
                     ELSE sem[s]]
  <2>1. PICK r : Pass(t, S, r)
    BY <1>2 DEF EnterDown
  <2>2. S \in [Sems -> SemType]
    <3>1. ASSUME NEW s \in Sems PROVE S[s] \in SemType
      <4>1. sem[s] \in SemType /\ sem[s].lpWaitQueue \cup {n \in OwnNodes(t) : n.sem = s} \in SUBSET Nodes
        BY <1>1, OwnNodesType DEF SemType
      <4> QED
        BY <4>1 DEF SemType
    <3> QED
      BY <3>1
  <2>3. \A s \in Sems : S[s].nCount = sem[s].nCount /\ S[s].lpOwner = sem[s].lpOwner
    BY <1>1 DEF SemType
  <2> HIDE DEF S
  <2> QED
    BY <2>1, <2>2, <2>3, PassOwners, OwnersKept
<1>3. CASE Resume(t)
  <2>1. (\E r : Pass(t, sem, r)) \/ (\E r, i : ReturnFromDown(t, sem, r, i))
    BY <1>3 DEF Resume
  <2>2. CASE \E r : Pass(t, sem, r)
    BY <1>1, <2>2, PassOwners, OwnersKept
  <2>3. CASE \E r, i : ReturnFromDown(t, sem, r, i)
    <3>1. PICK i : sem' = sem /\ Goto(t, "leave", [call[t] EXCEPT !.dwRetv = i])
      BY <2>3 DEF ReturnFromDown
    <3>2. ~[call[t] EXCEPT !.dwRetv = i].exit
      BY <1>1 DEF TypeOK, CallType
    <3> QED
      BY <1>1, <3>1, <3>2, AliveStep, OwnersKept DEF Exiting
  <2> QED
    BY <2>1, <2>2, <2>3
<1>4. CASE LeaveDown(t)
  <2>1. /\ \A s \in Sems : sem'[s].nCount = sem[s].nCount /\ sem'[s].lpOwner = sem[s].lpOwner
        /\ \E l \in {"idle", "check"} : Goto(t, l, call[t])
    BY <1>1, <1>4 DEF LeaveDown, SemType
  <2> QED
    BY <1>1, <2>1, AliveStep, OwnersKept DEF Exiting
<1> QED
  BY <1>2, <1>3, <1>4

LEMMA OtherOwners ==
  ASSUME Base, Alive, OwnedWhenTaken, NEW t \in Threads,
         \/ CallWait(t) \/ AllocFails(t) \/ ThreadTimeout(t)
         \/ \E l \in PCs, next \in {"idle", "reset"} : WakeupWaitQueue(t, l, next)
         \/ \E s \in Sems, l \in PCs : LowerLockCount(t, s, l, "idle")
         \/ \E s \in Sems, l \in PCs : Kind[s] \in {"auto", "manual"} /\ SemaphoreReset(t, s, l)
         \/ \E s \in Sems : Kind[s] = "manual" /\ PulseEvent(t, s)
  PROVE  Alive' /\ OwnedWhenTaken'
<1>1. sem \in [Sems -> SemType] /\ TypeOK /\ ~call[t].exit /\ call[t] \in CallType
  BY DEF Base, TypeOK, Alive
<1>2. CASE CallWait(t) \/ AllocFails(t)
  <2>1. sem' = sem
    BY <1>2 DEF CallWait, Wait, AllocFails
  <2>2. \E l \in {"check", "idle"} : \E c : ~c.exit /\ Goto(t, l, c)
    <3>1. CASE CallWait(t)
      <4>1. PICK objs, all, timed : Wait(t, objs, all, timed)
        BY <3>1 DEF CallWait
      <4>2. ~[NoCall EXCEPT !.lppsem = objs, !.bWaitAll = all, !.timed = timed].exit
        BY DEF NoCall
      <4> QED
        BY <4>1, <4>2 DEF Wait
    <3>2. CASE AllocFails(t)
      BY <1>1, <3>2 DEF AllocFails
    <3> QED
      BY <1>2, <3>1, <3>2
  <2> QED
    BY <1>1, <2>1, <2>2, AliveStep, OwnersKept DEF Exiting
<1>3. CASE ThreadTimeout(t)
  BY <1>3, OwnersKept DEF ThreadTimeout, Alive
<1>4. CASE \E l \in PCs, next \in {"idle", "reset"} : WakeupWaitQueue(t, l, next)
  BY <1>1, <1>4, AliveStep, OwnersKept DEF WakeupWaitQueue, Exiting
<1>5. CASE \E s \in Sems, l \in PCs : LowerLockCount(t, s, l, "idle")
  <2>1. \A z \in Sems : sem'[z].nCount = sem[z].nCount /\ sem'[z].lpOwner = sem[z].lpOwner
    BY <1>1, <1>5 DEF LowerLockCount, SemType
  <2>2. Goto(t, "idle", call[t])
    BY <1>5 DEF LowerLockCount
  <2> QED
    BY <1>1, <2>1, <2>2, AliveStep, OwnersKept DEF Exiting
<1>6. CASE \E s \in Sems, l \in PCs : Kind[s] \in {"auto", "manual"} /\ SemaphoreReset(t, s, l)
  <2>1. \A z \in Sems : Kind[z] \in {"mutex", "crit"} => sem'[z] = sem[z]
    BY <1>1, <1>6 DEF SemaphoreReset
  <2>2. Goto(t, "idle", call[t])
    BY <1>6 DEF SemaphoreReset
  <2> QED
    BY <1>1, <2>1, <2>2, AliveStep, OwnersKept DEF Exiting
<1>7. CASE \E s \in Sems : Kind[s] = "manual" /\ PulseEvent(t, s)
  <2>1. PICK s \in Sems : sem' = sem /\ Goto(t, "pulse", [call[t] EXCEPT !.lpsem = s])
    BY <1>7 DEF PulseEvent
  <2>2. ~[call[t] EXCEPT !.lpsem = s].exit
    BY <1>1 DEF CallType
  <2> QED
    BY <1>1, <2>1, <2>2, AliveStep, OwnersKept DEF Exiting
<1> QED
  BY <1>2, <1>3, <1>4, <1>5, <1>6, <1>7

LEMMA CallSignalOwners ==
  ASSUME Base, Alive, OwnedWhenTaken, NEW t \in Threads, CallSignal(t)
  PROVE  Alive' /\ OwnedWhenTaken'
<1>0. /\ 1 \in Nat \ {0} /\ TRUE \in BOOLEAN /\ FALSE \in BOOLEAN
      /\ "up" \notin Exiting /\ "idle" \notin Exiting /\ "idle" \in PCs
  BY DEF Exiting, PCs
<1>1. ASSUME NEW s \in Sems, LeaveCrit(t, s) PROVE Alive' /\ OwnedWhenTaken'
  BY <1>0, <1>1, SignalOwners DEF LeaveCrit
<1>2. ASSUME NEW s \in Sems, ReleaseMutex(t, s) PROVE Alive' /\ OwnedWhenTaken'
  <2>1. CASE Signal(t, s, 1, TRUE, "idle", "up", "idle")
    BY <1>0, <2>1, SignalOwners
  <2>2. CASE LowerLockCount(t, s, "idle", "idle")
    BY <1>0, <2>2, OtherOwners
  <2> QED
    BY <1>2, <2>1, <2>2 DEF ReleaseMutex
<1>3. ASSUME NEW s \in Sems, NEW n \in 1 .. nMaxCount[s], ReleaseSemaphore(t, s, n)
      PROVE  Alive' /\ OwnedWhenTaken'
  <2>1. n \in Nat \ {0} /\ Kind[s] \notin {"mutex", "crit"}
    BY <1>3, ConstantFacts DEF ReleaseSemaphore
  <2> QED
    BY <1>0, <1>3, <2>1, SignalOwners DEF ReleaseSemaphore
<1>4. ASSUME NEW s \in Sems, SetEvent(t, s) PROVE Alive' /\ OwnedWhenTaken'
  BY <1>0, <1>4, SignalOwners DEF SetEvent
<1>5. ASSUME NEW s \in Sems, ResetEvent(t, s) PROVE Alive' /\ OwnedWhenTaken'
  BY <1>0, <1>5, OtherOwners DEF ResetEvent
<1>6. ASSUME NEW s \in Sems, PulseEvent(t, s) PROVE Alive' /\ OwnedWhenTaken'
  <2>1. CASE Kind[s] = "auto" /\ Signal(t, s, 1, FALSE, "idle", "up", "idle")
    BY <1>0, <2>1, SignalOwners
  <2>2. CASE Kind[s] = "manual"
    BY <1>6, <2>2, OtherOwners
  <2> QED
    BY <1>6, <2>1, <2>2 DEF PulseEvent
<1> QED
  BY <1>1, <1>2, <1>3, <1>4, <1>5, <1>6 DEF CallSignal, Objects

LEMMA ContinueOwners ==
  ASSUME Base, Alive, OwnedWhenTaken, NEW t \in Threads, Continue(t)
  PROVE  Alive' /\ OwnedWhenTaken'
<1>1. CASE CheckCount(t) \/ EnterDown(t) \/ Resume(t) \/ LeaveDown(t)
  BY <1>1, CheckCountOwners, DownOwners
<1>2. CASE WakeupWaitQueue(t, "up", "idle") \/ WakeupWaitQueue(t, "pulseUp", "reset")
  <2>1. "up" \in PCs /\ "pulseUp" \in PCs
    BY DEF PCs
  <2> QED
    BY <1>2, <2>1, OtherOwners
<1>3. CASE PulseSet(t) \/ PulseReset(t)
  <2>1. call[t].lpsem \in Sems /\ Kind[call[t].lpsem] = "manual"
    BY <1>3 DEF PulseSet, PulseReset, Signal, SemaphoreReset, At, Base, TypeOK, CallType, CallsSignal
  <2>2. /\ 1 \in Nat \ {0} /\ FALSE \in BOOLEAN /\ "reset" \in PCs
        /\ "pulseUp" \notin Exiting /\ "reset" \notin Exiting
    BY DEF Exiting, PCs
  <2>3. CASE PulseSet(t)
    BY <2>1, <2>2, <2>3, SignalOwners DEF PulseSet
  <2>4. CASE PulseReset(t)
    BY <2>1, <2>2, <2>4, OtherOwners DEF PulseReset
  <2> QED
    BY <1>3, <2>3, <2>4
<1>4. pc[t] \notin {"dying", "sweep", "sweepUp", "clear", "sweepLeave", "detach"}
  BY DEF Alive, Exiting
<1>5. CASE EnterSweep(t) \/ SweepUp(t) \/ WakeupWaitQueue(t, "sweepUp", "clear") \/ SweepClear(t)
           \/ SweepDone(t) \/ WakeupWaitQueue(t, "sweepLeave", "detach") \/ Detach(t)
  BY <1>4, <1>5 DEF EnterSweep, SweepUp, WakeupWaitQueue, SweepClear, SweepDone, Detach, Signal,
                    LowerLockCount, At
<1> QED
  BY <1>1, <1>2, <1>3, <1>5 DEF Continue

LEMMA NextOwners ==
  ASSUME NoTermination, NoExit, Base, Alive, OwnedWhenTaken, [Next]_vars
  PROVE  Alive' /\ OwnedWhenTaken'
<1>1. CASE UNCHANGED vars
  BY <1>1, OwnersKept DEF vars, Alive
<1>2. ASSUME NEW t \in Threads,
             CallWait(t) \/ CallSignal(t) \/ Continue(t) \/ AllocFails(t) \/ ThreadTimeout(t)
      PROVE  Alive' /\ OwnedWhenTaken'
  BY <1>2, CallSignalOwners, ContinueOwners, OtherOwners
<1>3. ASSUME NEW s \in Sems, INTR_ISRFun(s) PROVE Alive' /\ OwnedWhenTaken'
  <2>1. \A z \in Sems : Kind[z] \in {"mutex", "crit"} => sem'[z] = sem[z]
    BY <1>3 DEF INTR_ISRFun, Base, TypeOK
  <2> QED
    BY <1>3, <2>1, OwnersKept DEF INTR_ISRFun, Alive
<1> QED
  BY <1>1, <1>2, <1>3 DEF Next, NoTermination, NoExit

\* A mutex or a critical section is taken exactly when it has an owner, as long as no
\* thread exits: the sweep of an exit signals the object before it clears lpOwner.
THEOREM TakenIsOwned ==
  ASSUME NoTermination, NoExit
  PROVE  Spec => []OwnedWhenTaken
<1>1. Init => Alive /\ OwnedWhenTaken
  <2> SUFFICES ASSUME Init PROVE Alive /\ OwnedWhenTaken
    OBVIOUS
  <2>1. \A s \in Sems : Kind[s] \in {"mutex", "crit"} => InitCount[s] = 1
    BY SemaphoreAssumption DEF SemaphoreAssumption
  <2> QED
    BY <2>1 DEF Init, Alive, Exiting, NoCall, OwnedWhenTaken
<1>2. Base /\ Alive /\ OwnedWhenTaken /\ [Next]_vars => (Alive /\ OwnedWhenTaken)'
  BY NextOwners
<1> QED
  BY <1>1, <1>2, InitBase, NextBase, PTL DEF Spec

-----------------------------------------------------------------------------
(***************************************************************************)
(* A thread that PulseEvent has marked is released, as long as threads wait*)
(* for one object at a time: the mark is the thread's and not the event's. *)
(***************************************************************************)

OneObject == {"any", "all"} \cap Calls = {}

ManualIn(objs) == \E i \in DOMAIN objs : Kind[objs[i]] = "manual"

\* Who waits for a manual-reset event waits for nothing else.
AsksForOne(c) == ManualIn(c.lppsem) => Len(c.lppsem) = 1 /\ c.bWaitAll

\* A thread has marked the waiters of s and is about to signal it, or to wake them.
Coming(s) == Waking(s) \/ \E u \in Threads : pc[u] = "pulse" /\ call[u].lpsem = s

\* The mark of a thread is spent by the check that follows its wait, and does not reach the
\* next wait; who is awake in a wait was woken or its time is up; and who sleeps with the
\* mark is about to be woken.
MarkRight(t) ==
  /\ AsksForOne(call[t])
  /\ thr[t].timer => pc[t] \in {"sleep", "leave"} /\ call[t].timed
  /\ ManualIn(call[t].lppsem) =>
       /\ pc[t] = "leave" => call[t].dwRetv \in {0, 1}
       /\ pc[t] = "check" /\ thr[t].pulsing => call[t].dwRetv = 1
       /\ pc[t] = "down" => ~thr[t].pulsing
  /\ pc[t] = "sleep" /\ ~Blocked(t) =>
       thr[t].lpRouser \in thr[t].lpWaitQueue \/ (call[t].timed /\ thr[t].expired)
  /\ Blocked(t) /\ thr[t].pulsing => \A s \in Objs(t) : Kind[s] = "manual" => Coming(s)

Marks == \A t \in Threads : MarkRight(t)

LEMMA NoManual == ~ManualIn(<<>>) /\ ~ManualIn(<<csSemList>>)
  BY ConstantFacts DEF ManualIn

LEMMA InitMarks == Init => Marks
<1> SUFFICES ASSUME Init, NEW t \in Threads PROVE MarkRight(t)
  BY DEF Marks
<1> QED
  BY NoManual DEF Init, MarkRight, AsksForOne, NoCall, Blocked

\* A thread that a step leaves alone.
LEMMA SameMark ==
  ASSUME NEW u \in Threads, MarkRight(u), pc'[u] = pc[u], call'[u] = call[u], thr'[u] = thr[u],
         \A s \in Objs(u) : Coming(s) => Coming(s)'
  PROVE  MarkRight(u)'
<1>1. Objs(u)' = Objs(u) /\ (Blocked(u)' <=> Blocked(u))
  BY DEF Objs, Obj, Indices, Blocked
<1> QED
  BY <1>1 DEF MarkRight, AsksForOne, ManualIn

\* A step of t that changes no other thread, and is neither a wake-up nor the set of a pulse.
LEMMA OneMark ==
  ASSUME TypeOK, Marks, NEW t \in Threads, NEW l \in PCs, NEW c \in CallType, Goto(t, l, c),
         pc[t] \notin Wakers \cup {"pulse"},
         \A u \in Threads \ {t} : thr'[u] = thr[u],
         MarkRight(t)'
  PROVE  Marks'
<1>1. \A u \in Threads \ {t} : pc'[u] = pc[u] /\ call'[u] = call[u]
  BY GotoOne
<1>2. \A s : Coming(s) => Coming(s)'
  BY <1>1 DEF Coming, Waking, Wakers
<1> QED
  BY <1>1, <1>2, SameMark DEF Marks

\* A step of t to a place where it does not wait.
LEMMA OutsideMark ==
  ASSUME TypeOK, NEW t \in Threads, MarkRight(t), NEW l \in PCs, NEW c \in CallType, Goto(t, l, c),
         l \notin {"check", "down", "sleep", "leave"}, AsksForOne(c),
         ~thr'[t].timer, ~Blocked(t)'
  PROVE  MarkRight(t)'
<1>1. pc'[t] = l /\ call'[t] = IF l = "idle" THEN NoCall ELSE c
  BY GotoOne
<1>2. AsksForOne(call'[t])
  BY <1>1, NoManual DEF AsksForOne, NoCall
<1> QED
  BY <1>1, <1>2 DEF MarkRight, AsksForOne, ManualIn

\* What is known of a thread that does not wait.
LEMMA Awake ==
  ASSUME Base, Waiters, Marks, NEW t \in Threads
  PROVE  /\ call[t] \in CallType /\ thr[t] \in ThreadType /\ AsksForOne(call[t])
         /\ pc[t] \notin {"sleep", "leave"} => ~thr[t].timer
         /\ pc[t] # "sleep" => ~Blocked(t)
  BY DEF Base, TypeOK, Waiters, SleepersQueued, Marks, MarkRight

\* Such a step that leaves all threads as they are to those that wait.
LEMMA QuietMarks ==
  ASSUME Base, Waiters, Marks, NEW t \in Threads, NEW l \in PCs, NEW c \in CallType, Goto(t, l, c),
         pc[t] \notin {"sleep", "leave", "pulse"} \cup Wakers,
         l \notin {"check", "down", "sleep", "leave"}, AsksForOne(c),
         \A u \in Threads \ {t} : thr'[u] = thr[u],
         thr'[t].timer => thr[t].timer, Blocked(t)' => Blocked(t)
  PROVE  Marks'
<1>1. TypeOK /\ MarkRight(t)
  BY DEF Base, Marks
<1>2. ~thr'[t].timer /\ ~Blocked(t)'
  BY Awake
<1>3. MarkRight(t)'
  BY <1>1, <1>2, OutsideMark
<1> QED
  BY <1>1, <1>3, OneMark

LEMMA SignalMarks ==
  ASSUME Base, Waiters, Marks, NEW t \in Threads, NEW s \in Sems, NEW n, NEW owned,
         NEW l \in PCs, NEW wake \in PCs, NEW next \in PCs,
         Signal(t, s, n, owned, l, wake, next),
         l \notin {"sleep", "leave", "pulse"} \cup Wakers,
         wake \notin {"check", "down", "sleep", "leave"},
         next \notin {"check", "down", "sleep", "leave"}
  PROVE  Marks'
<1> DEFINE go == IF MustWake(sem[s], s, n) THEN wake ELSE next
           c == [call[t] EXCEPT !.lpsem = s]
<1>1. call[t] \in CallType /\ AsksForOne(call[t])
  BY Awake
<1>2. c \in CallType /\ AsksForOne(c)
  BY <1>1 DEF CallType, AsksForOne
<1>3. Goto(t, go, c) /\ thr' = thr /\ pc[t] = l /\ go \in PCs /\ go \notin {"check", "down", "sleep", "leave"}
  BY DEF Signal, At
<1>4. Blocked(t)' => Blocked(t)
  BY <1>3 DEF Blocked
<1> HIDE DEF go, c
<1> QED
  BY <1>2, <1>3, <1>4, QuietMarks

LEMMA PlainMarks ==
  ASSUME Base, Waiters, Marks, NEW t \in Threads,
         \/ ExitThread(t) \/ SweepClear(t) \/ Detach(t)
         \/ EnterSweep(t) /\ sem[csSemList].lpOwner = t
         \/ AllocFails(t) /\ Kind[Obj(t, 1)] # "crit"
         \/ \E s \in Sems, l \in {"idle", "sweep"}, next \in {"idle", "detach"} : LowerLockCount(t, s, l, next)
         \/ \E s \in Sems, l \in {"idle", "reset"} : SemaphoreReset(t, s, l)
  PROVE  Marks'
<1> DEFINE exit == [NoCall EXCEPT !.lppsem = <<csSemList>>, !.exit = TRUE]
<1>1. call[t] \in CallType /\ AsksForOne(call[t])
  BY Awake
<1>2. NoCall \in CallType /\ AsksForOne(NoCall)
  BY NoCallType, NoManual DEF AsksForOne, NoCall
<1>3. exit \in CallType /\ AsksForOne(exit)
  <2>1. <<csSemList>> \in Seq(Sems)
    BY ConstantFacts
  <2>2. exit \in CallType /\ exit.lppsem = <<csSemList>>
    BY <2>1, NoCallType DEF CallType
  <2> HIDE DEF exit
  <2> QED
    BY <2>2, NoManual DEF AsksForOne
<1>4. pc[t] \notin {"sleep", "leave", "pulse"} \cup Wakers
  BY DEF ExitThread, SweepClear, Detach, EnterSweep, AllocFails, LowerLockCount, SemaphoreReset, At, Wakers
<1>5. \E l \in {"dying", "sweep", "idle", "detach", "dead"}, c \in {call[t], NoCall, exit} : Goto(t, l, c)
  BY DEF ExitThread, SweepClear, Detach, EnterSweep, AllocFails, LowerLockCount, SemaphoreReset
<1>6. /\ \A u \in Threads \ {t} : thr'[u] = thr[u]
      /\ thr'[t].timer => thr[t].timer
      /\ Blocked(t)' => Blocked(t)
  <2>1. thr \in [Threads -> ThreadType]
    BY DEF Base, TypeOK
  <2>2. CASE Detach(t)
    BY <2>1, <2>2 DEF Detach, ThreadType, Blocked
  <2>3. CASE thr' = thr
    BY <2>3 DEF Blocked
  <2> QED
    BY <2>2, <2>3 DEF ExitThread, SweepClear, EnterSweep, AllocFails, LowerLockCount, SemaphoreReset
<1> HIDE DEF exit
<1>7. PICK l \in {"dying", "sweep", "idle", "detach", "dead"}, c \in {call[t], NoCall, exit} : Goto(t, l, c)
  BY <1>5
<1>8. l \in PCs /\ l \notin {"check", "down", "sleep", "leave"} /\ c \in CallType /\ AsksForOne(c)
  BY <1>1, <1>2, <1>3 DEF PCs
<1> QED
  BY <1>4, <1>6, <1>7, <1>8, QuietMarks

\* A step to the check of some objects.
LEMMA CheckMarks ==
  ASSUME Base, Waiters, Marks, NEW t \in Threads, NEW c \in CallType, Goto(t, "check", c),
         pc[t] \notin Wakers \cup {"pulse"},
         \A u \in Threads \ {t} : thr'[u] = thr[u],
         ~thr'[t].timer, ~Blocked(t)', AsksForOne(c),
         ManualIn(c.lppsem) /\ thr'[t].pulsing => c.dwRetv = 1
  PROVE  Marks'
<1>1. TypeOK /\ "check" \in PCs
  BY DEF Base, PCs
<1>2. pc'[t] = "check" /\ call'[t] = c
  BY <1>1, GotoOne
<1>3. MarkRight(t)'
  BY <1>2 DEF MarkRight, AsksForOne, ManualIn
<1> QED
  BY <1>1, <1>3, OneMark

LEMMA WaitMarks ==
  ASSUME Base, Waiters, Marks, NEW t \in Threads, NEW s \in Sems, NEW all \in BOOLEAN,
         NEW timed \in BOOLEAN, Wait(t, <<s>>, all, timed), Kind[s] = "manual" => all
  PROVE  Marks'
<1> DEFINE c == [NoCall EXCEPT !.lppsem = <<s>>, !.bWaitAll = all, !.timed = timed]
<1>1. c \in CallType /\ c.lppsem = <<s>> /\ c.bWaitAll = all
  <2>1. <<s>> \in Seq(Sems)
    OBVIOUS
  <2> QED
    BY <2>1, NoCallType DEF CallType
<1>2. Goto(t, "check", c) /\ pc[t] = "idle" /\ thr' = [thr EXCEPT ![t].pulsing = FALSE]
  BY DEF Wait, At
<1> HIDE DEF c
<1>3. AsksForOne(c)
  BY <1>1 DEF AsksForOne, ManualIn
<1>4. /\ \A u \in Threads \ {t} : thr'[u] = thr[u]
      /\ thr'[t].timer = thr[t].timer /\ ~thr'[t].pulsing /\ thr'[t].dwState = thr[t].dwState
  BY <1>2 DEF Base, TypeOK, ThreadType
<1>5. ~thr'[t].timer /\ ~Blocked(t)'
  BY <1>2, <1>4, Awake DEF Blocked
<1> QED
  BY <1>1, <1>2, <1>3, <1>4, <1>5, CheckMarks DEF Wakers

LEMMA CheckCountMarks ==
  ASSUME Base, Waiters, Marks, NEW t \in Threads, CheckCount(t)
  PROVE  Marks'
<1> DEFINE l == IF Takes(t) = {} THEN "down" ELSE IF call[t].exit THEN "sweep" ELSE "idle"
<1>1. /\ pc[t] = "check" /\ Goto(t, l, call[t]) /\ l \in PCs
      /\ \E p \in BOOLEAN : thr' = [thr EXCEPT ![t].pulsing = p] /\ (p => thr[t].pulsing)
  BY DEF CheckCount, At, PCs, Base, TypeOK, ThreadType
<1>2. /\ call[t] \in CallType /\ AsksForOne(call[t]) /\ ~thr[t].timer /\ ~Blocked(t)
      /\ TypeOK
  BY <1>1, Awake DEF Base
<1>3. /\ \A u \in Threads \ {t} : thr'[u] = thr[u]
      /\ thr'[t].timer = thr[t].timer /\ thr'[t].dwState = thr[t].dwState
      /\ thr'[t].pulsing => thr[t].pulsing
  BY <1>1 DEF Base, TypeOK, ThreadType
<1>4. ~thr'[t].timer /\ ~Blocked(t)'
  BY <1>2, <1>3 DEF Blocked
<1>5. CASE Takes(t) # {}
  BY <1>1, <1>2, <1>3, <1>4, <1>5, QuietMarks DEF Wakers
<1>6. CASE Takes(t) = {}
  <2>1. pc'[t] = "down" /\ call'[t] = call[t]
    BY <1>1, <1>2, <1>6, GotoOne
  <2>2. ManualIn(call[t].lppsem) => ~thr[t].pulsing
    <3> SUFFICES ASSUME ManualIn(call[t].lppsem), thr[t].pulsing PROVE FALSE
      OBVIOUS
    <3>1. Indices(t) = {1} /\ Kind[Obj(t, 1)] = "manual" /\ call[t].bWaitAll /\ call[t].dwRetv = 1
      BY <1>1, <1>2 DEF Indices, Obj, ManualIn, AsksForOne, Marks, MarkRight, CallType
    <3>2. sem[Obj(t, 1)].nCount \in Nat
      BY <1>2, <3>1 DEF TypeOK, SemType, CallType, Obj, Indices
    <3>3. Available(t, 1)
      BY <3>1, <3>2 DEF Available, Pulsed
    <3>4. Takes(t) = {1}
      BY <3>1, <3>3 DEF Takes
    <3> QED
      BY <1>6, <3>4
  <2>3. MarkRight(t)'
    BY <1>2, <1>3, <1>4, <2>1, <2>2 DEF MarkRight, AsksForOne, ManualIn
  <2> QED
    BY <1>1, <1>2, <1>3, <2>3, OneMark DEF Wakers
<1> QED
  BY <1>5, <1>6

LEMMA LeaveDownMarks ==
  ASSUME Base, Waiters, Marks, NEW t \in Threads, LeaveDown(t)
  PROVE  Marks'
<1>1. /\ pc[t] = "leave" /\ thr' = [thr EXCEPT ![t].timer = thr[t].timer /\ ~call[t].timed]
      /\ Goto(t, "idle", call[t]) \/ (Goto(t, "check", call[t]) /\ call[t].dwRetv # 0)
  BY DEF LeaveDown, At
<1>2. /\ call[t] \in CallType /\ AsksForOne(call[t]) /\ ~Blocked(t) /\ TypeOK /\ MarkRight(t)
      /\ thr[t].timer => call[t].timed
  BY <1>1, Awake DEF Base, Marks, MarkRight
<1>3. /\ \A u \in Threads \ {t} : thr'[u] = thr[u]
      /\ ~thr'[t].timer /\ thr'[t].dwState = thr[t].dwState
  BY <1>1, <1>2 DEF TypeOK, ThreadType
<1>4. ~Blocked(t)'
  BY <1>2, <1>3 DEF Blocked
<1>5. CASE Goto(t, "idle", call[t])
  <2>1. "idle" \in PCs
    BY DEF PCs
  <2>2. MarkRight(t)'
    BY <1>2, <1>3, <1>4, <1>5, <2>1, OutsideMark
  <2> QED
    BY <1>1, <1>2, <1>3, <1>5, <2>1, <2>2, OneMark DEF Wakers
<1>6. CASE Goto(t, "check", call[t]) /\ call[t].dwRetv # 0
  <2>1. ManualIn(call[t].lppsem) => call[t].dwRetv = 1
    BY <1>1, <1>2, <1>6 DEF MarkRight
  <2> QED
    BY <1>1, <1>2, <1>3, <1>4, <1>6, <2>1, CheckMarks DEF Wakers
<1> QED
  BY <1>1, <1>5, <1>6

\* What waking a queue leaves alone, and that it names an element of whom it wakes.
LEMMA WakeAllNames ==
  ASSUME Base, Waiters, NEW s \in Sems, NEW u \in Threads,
         NEW F, F = WakeAll(thr, sem[s].lpWaitQueue)
  PROVE  /\ F[u].timer = thr[u].timer /\ F[u].expired = thr[u].expired
         /\ F[u].pulsing = thr[u].pulsing
         /\ Blocked(u) /\ F[u].dwState \notin {"INTERRUPTIBLE", "UNINTERRUPTIBLE"} =>
              F[u].lpRouser \in thr[u].lpWaitQueue
<1> DEFINE mine == {n \in sem[s].lpWaitQueue : n.lpThread = u}
           n0 == CHOOSE n \in mine : TRUE
<1>1. thr[u] \in ThreadType
  BY DEF Base, TypeOK
<1>2. Blocked(u) => /\ pc[u] = "sleep" /\ thr[u].lpWaitQueue = OwnNodes(u)
                    /\ thr[u].lpRouser # NULL => thr[u].lpRouser \in thr[u].lpWaitQueue
  BY DEF Waiters, SleepersQueued, RouserIsOwn, Base, CallsAsk
<1>3. mine # {} => n0 \in OwnNodes(u)
  BY DEF Waiters, QueuesRight
<1>4. F[u] = IF mine # {} /\ Blocked(u)
             THEN [thr[u] EXCEPT !.dwState = "RUNNING",
                                 !.lpRouser = IF thr[u].lpRouser = NULL THEN n0 ELSE thr[u].lpRouser]
             ELSE thr[u]
  BY DEF WakeAll, Blocked
<1> HIDE DEF mine, n0
<1>5. CASE mine # {} /\ Blocked(u)
  BY <1>1, <1>2, <1>3, <1>4, <1>5 DEF ThreadType
<1>6. CASE ~(mine # {} /\ Blocked(u))
  BY <1>1, <1>4, <1>6 DEF Blocked
<1> QED
  BY <1>5, <1>6

\* A thread that is woken, or sleeps on, keeps its mark right.
LEMMA WokenMark ==
  ASSUME Base, Marks, NEW s \in Sems, NEW u \in Threads, pc'[u] = pc[u], call'[u] = call[u],
         \A z \in Sems \ {s} : Coming(z) => Coming(z)',
         thr'[u].lpWaitQueue = thr[u].lpWaitQueue,
         Blocked(u)' => Blocked(u) /\ s \notin Objs(u),
         thr'[u].lpRouser # thr[u].lpRouser => thr'[u].lpRouser \in thr[u].lpWaitQueue,
         thr'[u].timer = thr[u].timer, thr'[u].expired = thr[u].expired,
         thr'[u].pulsing = thr[u].pulsing,
         Blocked(u) /\ ~Blocked(u)' => thr'[u].lpRouser \in thr[u].lpWaitQueue
  PROVE  MarkRight(u)'
<1>1. MarkRight(u) /\ Objs(u) \subseteq Sems
  BY NodesOf DEF Marks
<1>2. Objs(u)' = Objs(u)
  BY DEF Objs, Obj, Indices
<1>3. Blocked(u)' /\ thr'[u].pulsing => \A z \in Objs(u)' : Kind[z] = "manual" => Coming(z)'
  BY <1>1, <1>2 DEF MarkRight
<1>4. pc'[u] = "sleep" /\ ~Blocked(u)' =>
        thr'[u].lpRouser \in thr'[u].lpWaitQueue \/ (call'[u].timed /\ thr'[u].expired)
  BY <1>1 DEF MarkRight
<1> QED
  BY <1>1, <1>3, <1>4 DEF MarkRight, AsksForOne, ManualIn

LEMMA ExitMarks ==
  ASSUME Base, Waiters, Marks, NEW t \in Threads,
         EnterSweep(t) \/ (AllocFails(t) /\ Kind[Obj(t, 1)] = "crit")
  PROVE  Marks'
<1> DEFINE exit == [NoCall EXCEPT !.lppsem = <<csSemList>>, !.exit = TRUE]
<1>1. /\ call[t] \in CallType /\ AsksForOne(call[t])
      /\ thr' = thr /\ pc[t] \in {"dying", "down"}
      /\ ~thr[t].timer /\ ~Blocked(t)
  BY Awake DEF EnterSweep, AllocFails, At
<1>2. ~thr'[t].timer /\ ~Blocked(t)'
  BY <1>1 DEF Blocked
<1>3. CASE EnterSweep(t) /\ sem[csSemList].lpOwner = t
  BY <1>3, PlainMarks
<1>4. CASE EnterSweep(t) /\ sem[csSemList].lpOwner # t
  <2>1. exit \in CallType /\ exit.lppsem = <<csSemList>>
    <3>1. <<csSemList>> \in Seq(Sems)
      BY ConstantFacts
    <3> QED
      BY <3>1, NoCallType DEF CallType
  <2>2. Goto(t, "check", exit)
    BY <1>4 DEF EnterSweep
  <2> HIDE DEF exit
  <2>3. AsksForOne(exit) /\ ~ManualIn(exit.lppsem)
    BY <2>1, NoManual DEF AsksForOne
  <2> QED
    BY <1>1, <1>2, <2>1, <2>2, <2>3, CheckMarks DEF Wakers
<1>5. CASE AllocFails(t) /\ Kind[Obj(t, 1)] = "crit"
  <2>1. Goto(t, "check", call[t])
    BY <1>5 DEF AllocFails
  <2>2. ~ManualIn(call[t].lppsem)
    BY <1>1, <1>5 DEF ManualIn, AsksForOne, Obj, CallType
  <2> QED
    BY <1>1, <1>2, <2>1, <2>2, CheckMarks DEF Wakers
<1> QED
  BY <1>3, <1>4, <1>5

\* t wakes the waiters of an object: whoever still sleeps does not wait for it.
LEMMA WakeMarks ==
  ASSUME Base, Waiters, Marks, NEW t \in Threads, NEW l \in Wakers,
         NEW next \in {"idle", "reset", "clear", "detach"}, WakeupWaitQueue(t, l, next)
  PROVE  Marks'
<1> DEFINE s == call[t].lpsem
<1>1. /\ thr' = WakeAll(thr, sem[s].lpWaitQueue) /\ Goto(t, next, call[t]) /\ pc[t] = l
      /\ s \in Sems /\ next \in PCs \ {"check", "down", "sleep", "leave"}
      /\ call[t] \in CallType /\ AsksForOne(call[t]) /\ TypeOK
  BY Awake DEF WakeupWaitQueue, At, Base, TypeOK, CallType, PCs
<1>2. \A u \in Threads :
        /\ thr'[u].lpWaitQueue = thr[u].lpWaitQueue
        /\ Blocked(u)' => Blocked(u) /\ s \notin Objs(u)
        /\ thr'[u].lpRouser # thr[u].lpRouser => thr'[u].lpRouser \in thr[u].lpWaitQueue
        /\ thr'[u].timer = thr[u].timer /\ thr'[u].expired = thr[u].expired
        /\ thr'[u].pulsing = thr[u].pulsing
        /\ Blocked(u) /\ ~Blocked(u)' => thr'[u].lpRouser \in thr[u].lpWaitQueue
  BY <1>1, WakeAllReaches, WakeAllNames DEF Blocked
<1>3. /\ pc'[t] = next
      /\ \A u \in Threads \ {t} : pc'[u] = pc[u] /\ call'[u] = call[u]
  BY <1>1, GotoOne
<1>4. \A z \in Sems \ {s} : Coming(z) => Coming(z)'
  BY <1>1, <1>3 DEF Coming, Waking, Wakers
<1>5. MarkRight(t)'
  <2>1. ~thr[t].timer /\ ~Blocked(t)
    BY <1>1, Awake DEF Wakers
  <2>2. ~thr'[t].timer /\ ~Blocked(t)'
    BY <1>2, <2>1
  <2> QED
    BY <1>1, <2>2, OutsideMark DEF Marks
<1> HIDE DEF s
<1>6. ASSUME NEW u \in Threads \ {t} PROVE MarkRight(u)'
  <2>1. s \in Sems /\ u \in Threads
    BY <1>1
  <2> QED
    BY <1>2, <1>3, <1>4, <2>1, WokenMark
<1> QED
  BY <1>5, <1>6 DEF Marks

LEMMA InterruptMarks ==
  ASSUME Base, Waiters, Marks, NEW s \in Sems, INTR_ISRFun(s)
  PROVE  Marks'
<1>1. /\ call' = call /\ pc' = pc
      /\ thr' = thr \/ thr' = WakeAll(thr, sem[s].lpWaitQueue)
  BY DEF INTR_ISRFun
<1>2. \A z : Coming(z)' = Coming(z)
  BY <1>1 DEF Coming, Waking
<1>3. CASE thr' = thr
  BY <1>1, <1>2, <1>3, SameMark DEF Marks
<1>4. CASE thr' = WakeAll(thr, sem[s].lpWaitQueue)
  <2>1. \A u \in Threads :
          /\ thr'[u].lpWaitQueue = thr[u].lpWaitQueue
          /\ Blocked(u)' => Blocked(u) /\ s \notin Objs(u)
          /\ thr'[u].lpRouser # thr[u].lpRouser => thr'[u].lpRouser \in thr[u].lpWaitQueue
          /\ thr'[u].timer = thr[u].timer /\ thr'[u].expired = thr[u].expired
          /\ thr'[u].pulsing = thr[u].pulsing
          /\ Blocked(u) /\ ~Blocked(u)' => thr'[u].lpRouser \in thr[u].lpWaitQueue
    BY <1>4, WakeAllReaches, WakeAllNames DEF Blocked
  <2> QED
    BY <1>1, <1>2, <2>1, WokenMark DEF Marks
<1> QED
  BY <1>1, <1>3, <1>4

LEMMA TimeoutMarks ==
  ASSUME Base, Waiters, Marks, NEW t \in Threads, ThreadTimeout(t)
  PROVE  Marks'
<1>1. /\ thr \in [Threads -> ThreadType] /\ call' = call /\ pc' = pc
      /\ thr[t].timer /\ MarkRight(t)
  BY DEF ThreadTimeout, Base, TypeOK, Marks
<1> DEFINE q == [thr[t] EXCEPT !.timer = FALSE, !.expired = TRUE,
                               !.dwState = IF Blocked(t) THEN "RUNNING" ELSE thr[t].dwState]
<1>2. thr' = [thr EXCEPT ![t] = q]
  BY <1>1 DEF ThreadTimeout
<1>3. ~q.timer /\ q.expired /\ q.pulsing = thr[t].pulsing
      /\ q.dwState \notin {"INTERRUPTIBLE", "UNINTERRUPTIBLE"}
  BY <1>1 DEF ThreadType, Blocked
<1> HIDE DEF q
<1>4. thr'[t] = q /\ \A u \in Threads \ {t} : thr'[u] = thr[u]
  BY <1>1, <1>2
<1>5. \A z : Coming(z)' = Coming(z)
  BY <1>1 DEF Coming, Waking
<1>6. MarkRight(t)'
  BY <1>1, <1>3, <1>4 DEF MarkRight, AsksForOne, ManualIn, Blocked
<1>7. ASSUME NEW u \in Threads \ {t} PROVE MarkRight(u)'
  BY <1>1, <1>4, <1>5, SameMark DEF Marks
<1> QED
  BY <1>6, <1>7 DEF Marks

\* PulseEvent marks the waiters of the event, which wait for nothing else.
LEMMA PulseEventMarks ==
  ASSUME Base, Waiters, Marks, NEW t \in Threads, NEW s \in Sems, PulseEvent(t, s)
  PROVE  Marks'
<1>1. CASE Kind[s] # "manual"
  <2>1. Signal(t, s, 1, FALSE, "idle", "up", "idle")
    BY <1>1 DEF PulseEvent
  <2>2. /\ "idle" \in PCs /\ "idle" \notin {"sleep", "leave", "pulse"} \cup Wakers
        /\ "up" \in PCs /\ \A l \in {"idle", "up"} : l \notin {"check", "down", "sleep", "leave"}
    BY DEF PCs, Wakers
  <2> QED
    BY <2>1, <2>2, SignalMarks
<1>2. CASE Kind[s] = "manual"
  <2> DEFINE marked(u) == \E n \in sem[s].lpWaitQueue : n.lpThread = u
             c == [call[t] EXCEPT !.lpsem = s]
  <2>1. /\ pc[t] = "idle" /\ Goto(t, "pulse", c) /\ "pulse" \in PCs /\ TypeOK
        /\ thr' = [u \in Threads |-> [thr[u] EXCEPT !.pulsing = thr[u].pulsing \/ marked(u)]]
    BY <1>2 DEF PulseEvent, At, PCs, Base
  <2>2. c \in CallType /\ c.lpsem = s /\ AsksForOne(c)
    BY Awake DEF CallType, AsksForOne
  <2> HIDE DEF c
  <2>3. /\ pc'[t] = "pulse" /\ call'[t] = c
        /\ \A u \in Threads \ {t} : pc'[u] = pc[u] /\ call'[u] = call[u]
    BY <2>1, <2>2, GotoOne
  <2>4. \A z : Coming(z) => Coming(z)'
    BY <2>1, <2>3 DEF Coming, Waking
  <2>5. Coming(s)'
    BY <2>2, <2>3 DEF Coming
  <2>6. ASSUME NEW u \in Threads
        PROVE  /\ thr'[u].timer = thr[u].timer /\ thr'[u].expired = thr[u].expired
               /\ thr'[u].dwState = thr[u].dwState
               /\ thr'[u].lpRouser = thr[u].lpRouser /\ thr'[u].lpWaitQueue = thr[u].lpWaitQueue
               /\ thr'[u].pulsing = (thr[u].pulsing \/ marked(u))
    <3>1. thr[u] \in ThreadType /\ marked(u) \in BOOLEAN
      BY DEF Base, TypeOK
    <3> HIDE DEF marked
    <3> QED
      BY <2>1, <3>1 DEF ThreadType
  <2>7. ASSUME NEW u \in Threads, marked(u)
        PROVE  pc[u] \in {"sleep", "leave"} /\ s \in Objs(u)
    BY <2>7, NodesOf DEF Waiters, QueuesRight
  <2>8. ASSUME NEW u \in Threads, s \in Objs(u) PROVE Objs(u) = {s}
    <3>1. call[u].lppsem \in Seq(Sems) /\ AsksForOne(call[u])
      BY Awake DEF CallType
    <3>2. ManualIn(call[u].lppsem)
      BY <1>2, <2>8 DEF ManualIn, Objs, Obj, Indices
    <3>3. Indices(u) = {1}
      BY <3>1, <3>2 DEF AsksForOne, Indices
    <3> QED
      BY <2>8, <3>3 DEF Objs
  <2> HIDE DEF marked
  <2>9. ASSUME NEW u \in Threads \ {t} PROVE MarkRight(u)'
    <3>1. MarkRight(u) /\ u \in Threads /\ Objs(u)' = Objs(u) /\ pc'[u] = pc[u] /\ call'[u] = call[u]
      BY <2>3 DEF Marks, Objs, Obj, Indices
    <3>2. Blocked(u)' <=> Blocked(u)
      BY <2>6 DEF Blocked
    <3>3. ASSUME Blocked(u)', thr'[u].pulsing, NEW z \in Objs(u), Kind[z] = "manual"
          PROVE  Coming(z)'
      <4>1. CASE thr[u].pulsing
        BY <2>4, <3>1, <3>2, <3>3, <4>1 DEF MarkRight
      <4>2. CASE marked(u)
        <5>1. z = s
          BY <2>7, <2>8, <4>2
        <5> QED
          BY <2>5, <5>1
      <4> QED
        BY <2>6, <3>1, <3>3, <4>1, <4>2
    <3>4. pc[u] \in {"check", "down"} => (thr'[u].pulsing => thr[u].pulsing)
      <4>1. pc[u] \in {"check", "down"} => ~marked(u)
        BY <2>7, <3>1
      <4> QED
        BY <2>6, <3>1, <4>1
    <3> QED
      BY <2>6, <3>1, <3>2, <3>3, <3>4 DEF MarkRight, AsksForOne, ManualIn
  <2>10. MarkRight(t)'
    <3>1. ~thr[t].timer /\ ~Blocked(t) /\ MarkRight(t)
      BY <2>1, Awake DEF Marks
    <3>2. ~thr'[t].timer /\ ~Blocked(t)'
      BY <2>6, <3>1 DEF Blocked
    <3> QED
      BY <2>1, <2>2, <3>1, <3>2, OutsideMark
  <2> QED
    BY <2>9, <2>10 DEF Marks
<1> QED
  BY <1>1, <1>2

\* PulseEvent sets the event: its waiters are counted, so it has to wake them.
LEMMA PulseSetMarks ==
  ASSUME Base, Waiters, Marks, NEW t \in Threads, PulseSet(t)
  PROVE  Marks'
<1>0. PICK s \in Sems : s = call[t].lpsem
  BY DEF Base, TypeOK, CallType
<1> DEFINE go == IF MustWake(sem[s], s, 1) THEN "pulseUp" ELSE "reset"
           c == [call[t] EXCEPT !.lpsem = s]
<1>1. /\ pc[t] = "pulse" /\ thr' = thr /\ TypeOK
      /\ call[t] \in CallType /\ c = call[t] /\ Goto(t, go, c)
      /\ go \in PCs /\ go \notin {"idle", "check", "down", "sleep", "leave"}
  BY <1>0 DEF PulseSet, Signal, At, Base, TypeOK, CallType, PCs
<1>2. /\ sem[s].nCount \in Nat /\ sem[s].nWaiting \in Nat /\ nMaxCount[s] \in Nat \ {0}
  BY <1>1, ConstantFacts DEF Base, TypeOK, SemType
<1>3. sem[s].nCount = 0 /\ sem[s].nWaiting > 0 => go = "pulseUp"
  BY <1>2 DEF MustWake
<1> HIDE DEF go, c
<1>4. /\ pc'[t] = go /\ call'[t] = call[t]
      /\ \A u \in Threads \ {t} : pc'[u] = pc[u] /\ call'[u] = call[u]
  BY <1>1, GotoOne
<1>5. \A z : Waking(z) => Waking(z)'
  BY <1>1, <1>4 DEF Waking
<1>6. go = "pulseUp" => Waking(s)'
  BY <1>0, <1>4 DEF Waking
<1>7. \A z \in Sems \ {s} : Coming(z) => Coming(z)'
  BY <1>0, <1>4, <1>5 DEF Coming
<1>8. ASSUME NEW u \in Threads \ {t} PROVE MarkRight(u)'
  <2>1. MarkRight(u) /\ u \in Threads /\ Objs(u) \subseteq Sems
    BY NodesOf DEF Marks
  <2>2. Objs(u)' = Objs(u) /\ (Blocked(u)' <=> Blocked(u)) /\ pc'[u] = pc[u] /\ call'[u] = call[u]
    BY <1>1, <1>4 DEF Objs, Obj, Indices, Blocked
  <2>3. ASSUME Blocked(u), thr[u].pulsing, NEW z \in Objs(u), Kind[z] = "manual" PROVE Coming(z)'
    <3>1. CASE z = s
      <4>1. Waking(s) \/ (sem[s].nCount = 0 /\ sem[s].nWaiting > 0)
        BY <2>1, <2>3, <3>1 DEF Waiters, BlockedCounted
      <4> QED
        BY <1>3, <1>5, <1>6, <3>1, <4>1 DEF Coming
    <3>2. CASE z # s
      BY <1>7, <2>1, <2>3, <3>2 DEF MarkRight
    <3> QED
      BY <3>1, <3>2
  <2> QED
    BY <1>1, <2>1, <2>2, <2>3 DEF MarkRight, AsksForOne, ManualIn
<1>9. MarkRight(t)'
  <2>1. ~thr[t].timer /\ ~Blocked(t) /\ MarkRight(t) /\ AsksForOne(call[t])
    BY <1>1, Awake DEF Marks
  <2>2. ~thr'[t].timer /\ ~Blocked(t)'
    BY <1>1, <2>1 DEF Blocked
  <2>3. AsksForOne(c)
    BY <1>1, <2>1
  <2>4. c \in CallType
    BY <1>1
  <2> QED
    BY <1>1, <2>1, <2>2, <2>3, <2>4, OutsideMark
<1> QED
  BY <1>8, <1>9 DEF Marks

\* t returns from its wait, or sleeps on.
LEMMA DownMarks ==
  ASSUME Base, Waiters, Marks, NEW t \in Threads, NEW l \in {"sleep", "leave"},
         NEW c \in CallType, Goto(t, l, c), pc[t] \in {"down", "sleep"},
         c.lppsem = call[t].lppsem, c.bWaitAll = call[t].bWaitAll, c.timed = call[t].timed,
         NEW q \in ThreadType, thr' = [thr EXCEPT ![t] = q],
         q.timer => call[t].timed,
         l = "leave" => /\ q.dwState = "RUNNING"
                        /\ ManualIn(c.lppsem) => c.dwRetv \in {0, 1},
         l = "sleep" => /\ ManualIn(c.lppsem) => ~q.pulsing
                        /\ \/ q.dwState \in {"INTERRUPTIBLE", "UNINTERRUPTIBLE"}
                           \/ call[t].timed /\ q.expired
  PROVE  Marks'
<1>1. TypeOK /\ l \in PCs /\ l # "idle"
  BY DEF Base, PCs
<1>2. pc'[t] = l /\ call'[t] = c
  BY <1>1, GotoOne
<1>3. thr'[t] = q /\ \A u \in Threads \ {t} : thr'[u] = thr[u]
  BY <1>1 DEF TypeOK
<1>4. AsksForOne(c)
  BY DEF Marks, MarkRight, AsksForOne
<1>5. Blocked(t)' /\ q.pulsing => \A s \in Objs(t)' : Kind[s] = "manual" => FALSE
  <2>1. Blocked(t)' => l = "sleep"
    BY <1>3 DEF Blocked
  <2>2. \A s \in Objs(t)' : Kind[s] = "manual" => ManualIn(c.lppsem)
    BY <1>2 DEF Objs, Obj, Indices, ManualIn
  <2> QED
    BY <2>1, <2>2
<1>6. l = "sleep" /\ ~Blocked(t)' => call[t].timed /\ q.expired
  BY <1>3 DEF Blocked
<1>7. MarkRight(t)'
  BY <1>2, <1>3, <1>4, <1>5, <1>6 DEF MarkRight, AsksForOne, ManualIn
<1> QED
  BY <1>1, <1>3, <1>7, OneMark DEF Wakers

\* A return of a wait.
LEMMA ReturnMarks ==
  ASSUME Base, Waiters, Marks, NEW t \in Threads, pc[t] \in {"down", "sleep"}, NEW S,
         NEW r \in ThreadType, NEW i \in Nat, ReturnFromDown(t, S, r, i),
         r.timer => call[t].timed, ManualIn(call[t].lppsem) => i \in {0, 1}
  PROVE  Marks'
<1> DEFINE c == [call[t] EXCEPT !.dwRetv = i]
           q == [r EXCEPT !.dwState = "RUNNING", !.expired = TRUE, !.lpWaitQueue = {}]
<1>1. /\ c \in CallType /\ c.lppsem = call[t].lppsem /\ c.bWaitAll = call[t].bWaitAll
      /\ c.timed = call[t].timed /\ c.dwRetv = i
  <2>1. call[t] \in CallType
    BY DEF Base, TypeOK
  <2> QED
    BY <2>1 DEF CallType
<1>2. q \in ThreadType /\ q.dwState = "RUNNING" /\ q.timer = r.timer
  BY DEF ThreadType
<1>3. thr' = [thr EXCEPT ![t] = q] /\ Goto(t, "leave", c)
  BY DEF ReturnFromDown
<1> HIDE DEF c, q
<1> QED
  BY <1>1, <1>2, <1>3, DownMarks

\* Who waits for a manual-reset event finds it signalled, or has no mark that says it was.
LEMMA PassMarks ==
  ASSUME Base, Waiters, Marks, NEW t \in Threads, pc[t] \in {"down", "sleep"}, NEW S,
         NEW r \in ThreadType, r.dwState = "RUNNING", Pass(t, S, r),
         r.timer => call[t].timed,
         ManualIn(call[t].lppsem) /\ r.pulsing => call[t].timed /\ r.expired
  PROVE  Marks'
<1> DEFINE signalled == {i \in Indices(t) : S[Obj(t, i)].nCount > 0}
<1>1. call[t] \in CallType /\ call[t].lppsem \in Seq(Sems) /\ AsksForOne(call[t])
  BY Awake DEF CallType
<1>2. CASE signalled # {}
  <2>1. Indices(t) \subseteq Nat
    BY <1>1 DEF Indices
  <2>2. Min(signalled) \in Nat /\ Min(signalled) \in Indices(t)
    BY <1>2, <2>1, MinIsOne
  <2>3. ManualIn(call[t].lppsem) => Indices(t) = {1}
    BY <1>1 DEF AsksForOne, Indices
  <2>4. ReturnFromDown(t, S, r, Min(signalled))
    BY <1>2 DEF Pass
  <2> QED
    BY <2>2, <2>3, <2>4, ReturnMarks
<1>3. CASE signalled = {} /\ call[t].timed /\ r.expired
  <2>1. ReturnFromDown(t, S, r, 0)
    BY <1>3 DEF Pass
  <2> QED
    BY <2>1, ReturnMarks
<1>4. CASE signalled = {} /\ ~(call[t].timed /\ r.expired)
  <2> DEFINE sleeps == [r EXCEPT !.dwState = IF call[t].timed THEN "INTERRUPTIBLE" ELSE "UNINTERRUPTIBLE"]
             given == [r EXCEPT !.expired = TRUE]
  <2>1. /\ thr' = [thr EXCEPT ![t] = sleeps] \/ (call[t].timed /\ thr' = [thr EXCEPT ![t] = given])
        /\ Goto(t, "sleep", call[t])
    BY <1>4 DEF Pass
  <2>2. /\ sleeps \in ThreadType /\ sleeps.timer = r.timer /\ sleeps.pulsing = r.pulsing
        /\ sleeps.dwState \in {"INTERRUPTIBLE", "UNINTERRUPTIBLE"}
        /\ given \in ThreadType /\ given.timer = r.timer /\ given.pulsing = r.pulsing /\ given.expired
    BY DEF ThreadType
  <2> HIDE DEF sleeps, given
  <2>3. CASE thr' = [thr EXCEPT ![t] = sleeps]
    BY <1>1, <1>4, <2>1, <2>2, <2>3, DownMarks
  <2>4. CASE call[t].timed /\ thr' = [thr EXCEPT ![t] = given]
    BY <1>1, <1>4, <2>1, <2>2, <2>4, DownMarks
  <2> QED
    BY <2>1, <2>3, <2>4
<1> QED
  BY <1>2, <1>3, <1>4

LEMMA EnterDownMarks ==
  ASSUME Base, Waiters, Marks, NEW t \in Threads, EnterDown(t)
  PROVE  Marks'
<1> DEFINE timer == thr[t].timer \/ call[t].timed
           expired == thr[t].expired /\ ~call[t].timed
           r == [thr[t] EXCEPT !.lpWaitQueue = OwnNodes(t), !.timer = timer, !.expired = expired]
<1>1. /\ pc[t] = "down" /\ thr[t].dwState = "RUNNING"
      /\ \E S : Pass(t, S, r)
  BY DEF EnterDown, At
<1>2. thr[t] \in ThreadType /\ ~thr[t].timer /\ MarkRight(t) /\ OwnNodes(t) \in SUBSET Nodes
  BY <1>1, Awake, NodesOf DEF Marks
<1>3. timer \in BOOLEAN /\ expired \in BOOLEAN /\ (timer => call[t].timed)
  BY <1>2
<1> HIDE DEF timer, expired
<1>4. r \in ThreadType /\ r.dwState = "RUNNING" /\ r.timer = timer /\ r.pulsing = thr[t].pulsing
  BY <1>1, <1>2, <1>3 DEF ThreadType
<1>5. ManualIn(call[t].lppsem) => ~r.pulsing
  BY <1>1, <1>2, <1>4 DEF MarkRight
<1> HIDE DEF r
<1>6. PICK S : Pass(t, S, r)
  BY <1>1
<1> QED
  BY <1>1, <1>3, <1>4, <1>5, <1>6, PassMarks

LEMMA ResumeMarks ==
  ASSUME Base, Waiters, Marks, NEW t \in Threads, Resume(t)
  PROVE  Marks'
<1> DEFINE rouser == thr[t].lpRouser
           r == [thr[t] EXCEPT !.lpRouser = NULL]
           i == CHOOSE j \in Indices(t) : Obj(t, j) = rouser.sem
<1>1. /\ pc[t] = "sleep" /\ thr[t].dwState = "RUNNING" /\ ~Blocked(t)
      /\ thr[t] \in ThreadType /\ thr[t].lpWaitQueue = OwnNodes(t) /\ MarkRight(t)
      /\ call[t] \in CallType /\ AsksForOne(call[t])
  BY Awake DEF Resume, At, Base, TypeOK, CallsAsk, Marks, Blocked
<1>2. /\ r \in ThreadType /\ r.lpWaitQueue = OwnNodes(t) /\ r.dwState = "RUNNING"
      /\ r.timer = thr[t].timer /\ r.expired = thr[t].expired /\ r.pulsing = thr[t].pulsing
  BY <1>1 DEF ThreadType
<1>3. r.timer => call[t].timed
  BY <1>1, <1>2 DEF MarkRight
<1>4. CASE rouser \in r.lpWaitQueue /\ (sem[rouser.sem].nCount > 0 \/ r.pulsing)
  <2>1. \E j \in Indices(t) : Obj(t, j) = rouser.sem
    BY <1>2, <1>4 DEF OwnNodes, Objs
  <2>2. Indices(t) \subseteq Nat
    BY <1>1 DEF CallType, Indices
  <2>3. i \in Nat /\ i \in Indices(t)
    BY <2>1, <2>2
  <2>4. ReturnFromDown(t, sem, r, i)
    BY <1>4 DEF Resume
  <2>5. ManualIn(call[t].lppsem) => Indices(t) = {1}
    BY <1>1 DEF AsksForOne, Indices, CallType
  <2> HIDE DEF i, r
  <2> QED
    BY <1>1, <1>2, <1>3, <2>3, <2>4, <2>5, ReturnMarks
<1>5. CASE ~(rouser \in r.lpWaitQueue /\ (sem[rouser.sem].nCount > 0 \/ r.pulsing))
  <2>1. Pass(t, sem, r)
    BY <1>5 DEF Resume
  <2>2. r.pulsing => call[t].timed /\ r.expired
    BY <1>1, <1>2, <1>5 DEF MarkRight
  <2> HIDE DEF r
  <2> QED
    BY <1>1, <1>2, <1>3, <2>1, <2>2, PassMarks
<1> QED
  BY <1>4, <1>5

LEMMA CallWaitMarks ==
  ASSUME OneObject, Base, Waiters, Marks, NEW t \in Threads, CallWait(t)
  PROVE  Marks'
<1>1. Timed \subseteq BOOLEAN /\ TRUE \in BOOLEAN /\ FALSE \in BOOLEAN
  BY DEF Timed
<1>2. ASSUME NEW s \in Objects, NEW w \in Timed, Wait(t, <<s>>, TRUE, w) PROVE Marks'
  BY <1>1, <1>2, WaitMarks DEF Objects
<1>3. ASSUME NEW s \in Sems \ Objects, Wait(t, <<s>>, FALSE, FALSE) PROVE Marks'
  <2>1. Kind[s] # "manual"
    BY DEF Objects
  <2> QED
    BY <1>1, <1>3, <2>1, WaitMarks
<1> QED
  BY <1>2, <1>3 DEF CallWait, OneObject

LEMMA CallSignalMarks ==
  ASSUME Base, Waiters, Marks, NEW t \in Threads, CallSignal(t)
  PROVE  Marks'
<1>0. /\ "idle" \in PCs /\ "idle" \notin {"sleep", "leave", "pulse"} \cup Wakers
      /\ "up" \in PCs /\ \A l \in {"idle", "up"} : l \notin {"check", "down", "sleep", "leave"}
  BY DEF PCs, Wakers
<1>1. ASSUME NEW s \in Sems, NEW n, NEW owned, Signal(t, s, n, owned, "idle", "up", "idle")
      PROVE  Marks'
  BY <1>0, <1>1, SignalMarks
<1>2. ASSUME NEW s \in Sems, LowerLockCount(t, s, "idle", "idle") \/ SemaphoreReset(t, s, "idle")
      PROVE  Marks'
  BY <1>2, PlainMarks
<1>3. ASSUME NEW s \in Sems, LeaveCrit(t, s) \/ ReleaseMutex(t, s) \/ SetEvent(t, s) \/ ResetEvent(t, s)
      PROVE  Marks'
  BY <1>1, <1>2, <1>3 DEF LeaveCrit, ReleaseMutex, SetEvent, ResetEvent
<1>4. ASSUME NEW s \in Sems, NEW n \in 1 .. nMaxCount[s], ReleaseSemaphore(t, s, n) PROVE Marks'
  BY <1>1, <1>4 DEF ReleaseSemaphore
<1> QED
  BY <1>3, <1>4, PulseEventMarks DEF CallSignal, Objects

LEMMA ContinueMarks ==
  ASSUME Base, Waiters, Marks, NEW t \in Threads, Continue(t)
  PROVE  Marks'
<1>0. /\ {"sweep", "sweepUp", "clear", "sweepLeave", "detach"} \subseteq PCs
      /\ "sweep" \notin {"sleep", "leave", "pulse"} \cup Wakers
      /\ \A l \in {"sweepUp", "clear", "sweepLeave", "detach"} : l \notin {"check", "down", "sleep", "leave"}
  BY DEF PCs, Wakers
<1>1. CASE CheckCount(t) \/ EnterDown(t) \/ Resume(t) \/ LeaveDown(t)
  BY <1>1, CheckCountMarks, EnterDownMarks, ResumeMarks, LeaveDownMarks
<1>2. CASE WakeupWaitQueue(t, "up", "idle") \/ WakeupWaitQueue(t, "pulseUp", "reset")
           \/ WakeupWaitQueue(t, "sweepUp", "clear") \/ WakeupWaitQueue(t, "sweepLeave", "detach")
  BY <1>2, WakeMarks DEF Wakers
<1>3. CASE PulseSet(t)
  BY <1>3, PulseSetMarks
<1>4. CASE PulseReset(t)
  <2>1. call[t].lpsem \in Sems
    BY DEF Base, TypeOK, CallType
  <2> QED
    BY <1>4, <2>1, PlainMarks DEF PulseReset
<1>5. CASE EnterSweep(t) \/ SweepClear(t) \/ Detach(t)
  BY <1>5, ExitMarks, PlainMarks
<1>6. CASE SweepUp(t)
  <2>1. PICK s \in Owned(t) : Signal(t, s, 1, Kind[s] = "mutex", "sweep", "sweepUp", "clear")
    BY <1>6 DEF SweepUp
  <2>2. s \in Sems
    BY DEF Owned
  <2> QED
    BY <1>0, <2>1, <2>2, SignalMarks
<1>7. CASE SweepDone(t)
  <2>1. CASE Signal(t, csSemList, 1, TRUE, "sweep", "sweepLeave", "detach")
    BY <1>0, <2>1, ConstantFacts, SignalMarks
  <2>2. CASE LowerLockCount(t, csSemList, "sweep", "detach")
    BY <2>2, ConstantFacts, PlainMarks
  <2> QED
    BY <1>7, <2>1, <2>2 DEF SweepDone
<1> QED
  BY <1>1, <1>2, <1>3, <1>4, <1>5, <1>6, <1>7 DEF Continue

LEMMA NextMarks ==
  ASSUME NoTermination, OneObject
  PROVE  Base /\ Waiters /\ Marks /\ [Next]_vars => Marks'
<1> SUFFICES ASSUME Base, Waiters, Marks, [Next]_vars PROVE Marks'
  OBVIOUS
<1>1. CASE UNCHANGED vars
  <2>1. \A z : Coming(z)' = Coming(z)
    BY <1>1 DEF vars, Coming, Waking
  <2> QED
    BY <1>1, <2>1, SameMark DEF vars, Marks
<1>2. ASSUME NEW t \in Threads,
             CallWait(t) \/ CallSignal(t) \/ Continue(t) \/ AllocFails(t) \/ ThreadTimeout(t)
             \/ ExitThread(t)
      PROVE  Marks'
  <2>1. CASE AllocFails(t) \/ ExitThread(t)
    BY <2>1, PlainMarks, ExitMarks
  <2> QED
    BY <1>2, <2>1, CallWaitMarks, CallSignalMarks, ContinueMarks, TimeoutMarks
<1> QED
  BY <1>1, <1>2, InterruptMarks DEF Next, NoTermination

\* A thread that PulseEvent has marked is released: it does not go back to sleep on the
\* event, as long as threads wait for one object at a time, nWaiting does not wrap and no
\* thread is terminated between the set of the event and the wake-up.
THEOREM PulsedAreReleased ==
  ASSUME NoTermination, ~CountWraps, OneObject
  PROVE  Spec => []PulsedIsReleased
<1>1. Base /\ Waiters /\ Marks /\ [Next]_vars => Marks'
  BY NextMarks
<1>2. Base /\ Marks => PulsedIsReleased
  <2> SUFFICES ASSUME Base, Marks, NEW t \in Threads, thr[t].pulsing, Blocked(t),
                      NEW s \in Objs(t), Kind[s] = "manual"
               PROVE  \/ \E u \in Threads : pc[u] = "pulse"
                      \/ \E z \in Sems : Waking(z)
    BY DEF PulsedIsReleased
  <2>1. s \in Sems /\ Coming(s)
    BY NodesOf DEF Marks, MarkRight
  <2> QED
    BY <2>1 DEF Coming
<1> QED
  BY <1>1, <1>2, InitMarks, AlwaysWaiters, PTL DEF Spec
=============================================================================
