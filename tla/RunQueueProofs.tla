--------------------------- MODULE RunQueueProofs ---------------------------
(***************************************************************************)
(* What the operations of the run queue preserve: the lemmas the theorems  *)
(* about the scheduler rest on.                                            *)
(***************************************************************************)
EXTENDS RunQueue, TLAPS

\* The run queue of a well-formed kernel: every conjunct of Scheduler's QueueOK.
WellFormed(k) ==
  k \in RunQueueType /\ LinksOK(k) /\ HeadsOK(k) /\ BitmapOK(k) /\ OneRing(k)

\* r has the same rings, heads and bitmaps as k.
SameQueue(k, r) ==
  /\ r.lpNextRun = k.lpNextRun
  /\ r.lpPrevRun = k.lpPrevRun
  /\ r.lpThreadList = k.lpThreadList
  /\ r.dwPriorityBitmap = k.dwPriorityBitmap
  /\ r.uPriorityGroup = k.uPriorityGroup
  /\ r.nCurPriority = k.nCurPriority

\* r has the same scheduling data of the threads as k.
SameThreads(k, r) ==
  /\ r.nCurPriority = k.nCurPriority
  /\ r.dwState = k.dwState
  /\ r.nSuspendCount = k.nSuspendCount
  /\ r.nTickCount = k.nTickCount
  /\ r.nBoost = k.nBoost
  /\ r.nCountRunning = k.nCountRunning
  /\ r.bNeedResched = k.bNeedResched
  /\ r.fault = k.fault

\* An assignment to fields that are not part of the queue keeps it well formed.
LEMMA SameQueueWellFormed ==
  ASSUME NEW k, NEW r, WellFormed(k), r \in RunQueueType, SameQueue(k, r)
  PROVE  WellFormed(r) /\ \A t \in Threads : Linked(r, t) <=> Linked(k, t)
  BY DEF WellFormed, SameQueue, LinksOK, HeadsOK, BitmapOK, OneRing, Ready, Linked

\* The fields LinkAtHead assigns, when the ring is empty and when it is not.
LEMMA LinkAtHeadEmpty ==
  ASSUME NEW k \in RunQueueType, NEW t \in Threads,
         k.lpThreadList[k.nCurPriority[t]] = NULL
  PROVE  LET r == LinkAtHead(k, t)
             p == k.nCurPriority[t]
         IN  /\ r \in RunQueueType
             /\ r.lpNextRun = [k.lpNextRun EXCEPT ![t] = t]
             /\ r.lpPrevRun = [k.lpPrevRun EXCEPT ![t] = t]
             /\ r.lpThreadList = [k.lpThreadList EXCEPT ![p] = t]
             /\ r.dwPriorityBitmap = [k.dwPriorityBitmap EXCEPT ![GroupOf(p)] = @ \cup {p}]
             /\ r.uPriorityGroup = k.uPriorityGroup \cup {GroupOf(p)}
             /\ SameThreads(k, r)
<1> DEFINE p == k.nCurPriority[t]
           m == SetPriorityBitmap(k, p)
<1>1. p \in Priorities /\ GroupOf(p) \in Groups
  BY DEF RunQueueType, Groups
<1>2. /\ m \in RunQueueType
      /\ m.lpNextRun = k.lpNextRun
      /\ m.lpPrevRun = k.lpPrevRun
      /\ m.lpThreadList = k.lpThreadList
      /\ m.dwPriorityBitmap = [k.dwPriorityBitmap EXCEPT ![GroupOf(p)] = @ \cup {p}]
      /\ m.uPriorityGroup = k.uPriorityGroup \cup {GroupOf(p)}
      /\ SameThreads(k, m)
  BY <1>1 DEF SetPriorityBitmap, RunQueueType, SameThreads
<1>3. LinkAtHead(k, t) = [m EXCEPT !.lpNextRun[t] = t, !.lpPrevRun[t] = t,
                                   !.lpThreadList[p] = t]
  BY DEF LinkAtHead
<1> DEFINE r == [m EXCEPT !.lpNextRun[t] = t, !.lpPrevRun[t] = t, !.lpThreadList[p] = t]
<1> HIDE DEF m, p
<1>4. r \in RunQueueType
  BY <1>1, <1>2 DEF RunQueueType
<1>5. /\ r.lpNextRun = [m.lpNextRun EXCEPT ![t] = t]
      /\ r.lpPrevRun = [m.lpPrevRun EXCEPT ![t] = t]
      /\ r.lpThreadList = [m.lpThreadList EXCEPT ![p] = t]
      /\ r.dwPriorityBitmap = m.dwPriorityBitmap
      /\ r.uPriorityGroup = m.uPriorityGroup
      /\ SameThreads(m, r)
  BY <1>1, <1>2 DEF RunQueueType, SameThreads
<1> HIDE DEF r
<1> QED
  BY <1>2, <1>3, <1>4, <1>5 DEF p, r, SameThreads

LEMMA LinkAtHeadRing ==
  ASSUME NEW k \in RunQueueType, NEW t \in Threads,
         k.lpThreadList[k.nCurPriority[t]] # NULL
  PROVE  LET r == LinkAtHead(k, t)
             p == k.nCurPriority[t]
             h == k.lpThreadList[p]
         IN  /\ r \in RunQueueType
             /\ r.lpNextRun = [k.lpNextRun EXCEPT ![k.lpPrevRun[h]] = t, ![t] = h]
             /\ r.lpPrevRun = [k.lpPrevRun EXCEPT ![t] = k.lpPrevRun[h], ![h] = t]
             /\ r.lpThreadList = [k.lpThreadList EXCEPT ![p] = t]
             /\ r.dwPriorityBitmap = k.dwPriorityBitmap
             /\ r.uPriorityGroup = k.uPriorityGroup
             /\ SameThreads(k, r)
  BY DEF LinkAtHead, RunQueueType, SameThreads

\* LinkAtHead puts a thread on the ring of its priority and keeps the queue well
\* formed.
LEMMA LinkAtHeadQueue ==
  ASSUME NEW k, WellFormed(k), NEW t \in Threads, ~Linked(k, t)
  PROVE  LET r == LinkAtHead(k, t)
         IN  /\ WellFormed(r)
             /\ SameThreads(k, r)
             /\ \A u \in Threads : Linked(r, u) <=> Linked(k, u) \/ u = t
<1> DEFINE r == LinkAtHead(k, t)
           p == k.nCurPriority[t]
           h == k.lpThreadList[p]
<1>0. /\ k \in RunQueueType /\ t \in Threads /\ p \in Priorities /\ GroupOf(p) \in Groups
      /\ h \in Threads \cup {NULL} /\ NULL \notin Threads
  BY RunQueueAssumption DEF WellFormed, RunQueueType, Groups
<1>1. CASE h = NULL
  <2>1. /\ r \in RunQueueType
        /\ r.lpNextRun = [k.lpNextRun EXCEPT ![t] = t]
        /\ r.lpPrevRun = [k.lpPrevRun EXCEPT ![t] = t]
        /\ r.lpThreadList = [k.lpThreadList EXCEPT ![p] = t]
        /\ r.dwPriorityBitmap = [k.dwPriorityBitmap EXCEPT ![GroupOf(p)] = @ \cup {p}]
        /\ r.uPriorityGroup = k.uPriorityGroup \cup {GroupOf(p)}
        /\ SameThreads(k, r)
    BY <1>0, <1>1, LinkAtHeadEmpty
  <2> HIDE DEF r, p
  <2>2. /\ \A u \in Threads : Linked(r, u) <=> Linked(k, u) \/ u = t
        /\ Ready(k, p) = {}
    BY <1>0, <1>1, <2>1 DEF WellFormed, Linked, RunQueueType, HeadsOK
  <2>3. \A q \in Priorities : Ready(r, q) = IF q = p THEN {t} ELSE Ready(k, q)
    BY <1>0, <2>1, <2>2 DEF Ready, SameThreads, p
  <2>4. LinksOK(r)
    BY <1>0, <2>1, <2>2 DEF WellFormed, LinksOK, Linked, RunQueueType, SameThreads
  <2>5. HeadsOK(r)
    BY <1>0, <2>1, <2>3 DEF WellFormed, HeadsOK, RunQueueType
  <2>6. BitmapOK(r)
    BY <1>0, <2>1 DEF WellFormed, BitmapOK, RunQueueType
  <2>7. OneRing(r)
    <3> SUFFICES ASSUME NEW q \in Priorities, NEW S \in SUBSET Ready(r, q), S # {},
                        \A u \in S : r.lpNextRun[u] \in S
                 PROVE  S = Ready(r, q)
      BY DEF OneRing
    <3>1. CASE q = p
      BY <2>3, <3>1
    <3>2. CASE q # p
      <4>1. S \in SUBSET Ready(k, q) /\ t \notin S
        BY <1>0, <2>3, <3>2 DEF Ready, p
      <4>2. \A u \in S : k.lpNextRun[u] \in S
        BY <1>0, <2>1, <4>1 DEF RunQueueType, Ready
      <4> QED
        BY <2>3, <3>2, <4>1, <4>2 DEF WellFormed, OneRing
    <3> QED
      BY <3>1, <3>2
  <2> QED
    BY <2>1, <2>2, <2>4, <2>5, <2>6, <2>7 DEF WellFormed, r
<1>2. CASE h # NULL
  <2> DEFINE v == k.lpPrevRun[h]
  <2>1. /\ r \in RunQueueType
        /\ r.lpNextRun = [k.lpNextRun EXCEPT ![v] = t, ![t] = h]
        /\ r.lpPrevRun = [k.lpPrevRun EXCEPT ![t] = v, ![h] = t]
        /\ r.lpThreadList = [k.lpThreadList EXCEPT ![p] = t]
        /\ r.dwPriorityBitmap = k.dwPriorityBitmap
        /\ r.uPriorityGroup = k.uPriorityGroup
        /\ SameThreads(k, r)
    BY <1>0, <1>2, LinkAtHeadRing
  <2>2. /\ h \in Threads /\ Linked(k, h) /\ k.nCurPriority[h] = p
        /\ v \in Threads /\ Linked(k, v) /\ k.nCurPriority[v] = p
        /\ k.lpNextRun[v] = h
        /\ v # t /\ h # t
    BY <1>0, <1>2 DEF WellFormed, HeadsOK, LinksOK, Ready, Linked, RunQueueType
  <2> HIDE DEF r, p, h, v
  <2>3. \A u \in Threads : Linked(r, u) <=> Linked(k, u) \/ u = t
    BY <1>0, <2>1, <2>2 DEF Linked, RunQueueType
  <2>4. \A q \in Priorities : Ready(r, q) = IF q = p THEN Ready(k, p) \cup {t}
                                          ELSE Ready(k, q)
    BY <1>0, <2>1, <2>3 DEF Ready, SameThreads, p
  <2>5. LinksOK(r)
    BY <1>0, <2>1, <2>2, <2>3 DEF WellFormed, LinksOK, Linked, RunQueueType, SameThreads, p
  <2>6. HeadsOK(r)
    BY <1>0, <1>2, <2>1, <2>4 DEF WellFormed, HeadsOK, RunQueueType
  <2>7. BitmapOK(r)
    BY <1>0, <1>2, <2>1 DEF WellFormed, BitmapOK, RunQueueType, h
  <2>8. OneRing(r)
    <3> SUFFICES ASSUME NEW q \in Priorities, NEW S \in SUBSET Ready(r, q), S # {},
                        \A u \in S : r.lpNextRun[u] \in S
                 PROVE  S = Ready(r, q)
      BY DEF OneRing
    <3>1. \A u \in Threads : Linked(k, u) => k.lpNextRun[u] # t
      BY <1>0 DEF WellFormed, LinksOK, Linked, RunQueueType
    <3>2. /\ r.lpNextRun[v] = t /\ r.lpNextRun[t] = h
          /\ \A u \in Threads \ {v, t} : r.lpNextRun[u] = k.lpNextRun[u]
      BY <1>0, <2>1, <2>2 DEF RunQueueType
    <3>3. CASE q # p
      <4>1. S \in SUBSET Ready(k, q) /\ \A u \in S : k.lpNextRun[u] \in S
        BY <2>2, <2>4, <3>2, <3>3 DEF Ready, p
      <4> QED
        BY <2>4, <3>3, <4>1 DEF WellFormed, OneRing
    <3>4. CASE q = p
      <4> DEFINE T == S \ {t}
      <4>1. T \in SUBSET Ready(k, p)
        BY <2>4, <3>4, <1>0
      <4>2. T # {}
        BY <2>2, <3>2
      <4>3. ASSUME NEW u \in T PROVE k.lpNextRun[u] \in T
        <5>1. u \in Threads /\ Linked(k, u)
          BY <4>1, <4>3 DEF Ready
        <5> QED
          BY <2>2, <3>1, <3>2, <5>1, <4>3
      <4>4. T = Ready(k, p)
        BY <1>0, <4>1, <4>2, <4>3 DEF WellFormed, OneRing
      <4>5. v \in T
        BY <2>2, <4>4 DEF Ready
      <4> QED
        BY <2>4, <3>2, <3>4, <4>4, <4>5, <1>0
    <3> QED
      BY <3>3, <3>4
  <2> QED
    BY <2>1, <2>3, <2>5, <2>6, <2>7, <2>8 DEF WellFormed, r
<1> QED
  BY <1>0, <1>1, <1>2

\* AddToRunQueue of a thread that may run queues it, and asks for a reschedule unless
\* the current thread's priority is higher.
LEMMA AddQueues ==
  ASSUME NEW k, WellFormed(k), NEW t \in Threads, ~Linked(k, t),
         k.nSuspendCount[t] = 0, NEW c \in Threads
  PROVE  LET r == AddToRunQueue(k, t, c)
         IN  /\ WellFormed(r)
             /\ \A u \in Threads : Linked(r, u) <=> Linked(k, u) \/ u = t
             /\ r.nCurPriority = k.nCurPriority
             /\ r.dwState = k.dwState
             /\ r.nSuspendCount = k.nSuspendCount
             /\ r.nTickCount = k.nTickCount
             /\ r.nBoost = k.nBoost
             /\ r.fault = k.fault
             /\ r.bNeedResched <=> k.bNeedResched \/ k.nCurPriority[t] <= k.nCurPriority[c]
<1> DEFINE m == LinkAtHead(k, t)
           n == k.bNeedResched \/ k.nCurPriority[t] <= k.nCurPriority[c]
           r == [m EXCEPT !.bNeedResched = n, !.nCountRunning = m.nCountRunning + 1]
<1>1. /\ WellFormed(m)
      /\ SameThreads(k, m)
      /\ \A u \in Threads : Linked(m, u) <=> Linked(k, u) \/ u = t
  BY LinkAtHeadQueue
<1>2. k.lpNextRun[t] = NULL /\ k.lpPrevRun[t] = NULL
  BY DEF Linked, WellFormed, LinksOK
<1>3. AddToRunQueue(k, t, c) = r
  BY <1>1, <1>2 DEF AddToRunQueue, SameThreads
<1>4. n \in BOOLEAN
  BY Zenon
<1> HIDE DEF m, n
<1>5. r \in RunQueueType
  <2>1. m \in RunQueueType /\ m.nCountRunning + 1 \in Int
    BY <1>1 DEF WellFormed, RunQueueType
  <2> DEFINE e == m.nCountRunning + 1
  <2> HIDE DEF e
  <2> QED
    BY <1>4, <2>1, Zenon DEF RunQueueType, e
<1>6. /\ SameQueue(m, r)
      /\ r.dwState = m.dwState
      /\ r.nSuspendCount = m.nSuspendCount
      /\ r.nTickCount = m.nTickCount
      /\ r.nBoost = m.nBoost
      /\ r.fault = m.fault
  BY <1>1, <1>4 DEF WellFormed, RunQueueType, SameQueue
<1>7. r.bNeedResched = n
  BY <1>1, <1>4, Zenon DEF WellFormed, RunQueueType
<1> HIDE DEF r
<1>8. WellFormed(r) /\ \A u \in Threads : Linked(r, u) <=> Linked(m, u)
  BY <1>1, <1>6, <1>5, SameQueueWellFormed
<1> QED
  BY <1>1, <1>3, <1>6, <1>8, <1>7 DEF SameThreads, SameQueue, n

\* AddToRunQueue of a suspended thread only marks it.
LEMMA AddMarks ==
  ASSUME NEW k, WellFormed(k), NEW t \in Threads, k.nSuspendCount[t] # 0, NEW c \in Threads
  PROVE  LET r == AddToRunQueue(k, t, c)
         IN  /\ WellFormed(r)
             /\ \A u \in Threads : Linked(r, u) <=> Linked(k, u)
             /\ r.nCurPriority = k.nCurPriority
             /\ r.dwState = [k.dwState EXCEPT ![t] = "SUSPENDED"]
             /\ r.nSuspendCount = k.nSuspendCount
             /\ r.nTickCount = k.nTickCount
             /\ r.nBoost = k.nBoost
             /\ r.fault = k.fault
             /\ r.bNeedResched = k.bNeedResched
<1> DEFINE r == [k EXCEPT !.dwState[t] = "SUSPENDED"]
<1>1. AddToRunQueue(k, t, c) = r
  BY DEF AddToRunQueue
<1>2. /\ r \in RunQueueType /\ SameQueue(k, r)
      /\ r.dwState = [k.dwState EXCEPT ![t] = "SUSPENDED"]
      /\ r.nSuspendCount = k.nSuspendCount
      /\ r.nTickCount = k.nTickCount
      /\ r.nBoost = k.nBoost
      /\ r.fault = k.fault
      /\ r.bNeedResched = k.bNeedResched
  BY DEF WellFormed, RunQueueType, SameQueue, States
<1> HIDE DEF r
<1> QED
  BY <1>1, <1>2, SameQueueWellFormed DEF SameQueue

\* The fields Unlink assigns, for the only thread of a ring and for one of several.
LEMMA UnlinkLast ==
  ASSUME NEW k \in RunQueueType, NEW t \in Threads, k.lpNextRun[t] = t
  PROVE  LET r == Unlink(k, t)
             p == k.nCurPriority[t]
             g == GroupOf(p)
         IN  /\ r \in RunQueueType
             /\ r.lpNextRun = [k.lpNextRun EXCEPT ![t] = NULL]
             /\ r.lpPrevRun = [k.lpPrevRun EXCEPT ![t] = NULL]
             /\ r.lpThreadList = [k.lpThreadList EXCEPT ![p] = NULL]
             /\ r.dwPriorityBitmap = [k.dwPriorityBitmap EXCEPT ![g] = @ \ {p}]
             /\ r.uPriorityGroup = IF k.dwPriorityBitmap[g] \ {p} = {}
                                   THEN k.uPriorityGroup \ {g} ELSE k.uPriorityGroup
             /\ SameThreads(k, r)
<1> DEFINE p == k.nCurPriority[t]
           g == GroupOf(p)
           m == ClearPriorityBitmap(k, p)
           r == [m EXCEPT !.lpThreadList[p] = NULL, !.lpNextRun[t] = NULL,
                          !.lpPrevRun[t] = NULL]
<1>1. p \in Priorities /\ g \in Groups
  BY DEF RunQueueType, Groups
<1>2. /\ m \in RunQueueType
      /\ m.lpNextRun = k.lpNextRun
      /\ m.lpPrevRun = k.lpPrevRun
      /\ m.lpThreadList = k.lpThreadList
      /\ m.dwPriorityBitmap = [k.dwPriorityBitmap EXCEPT ![g] = @ \ {p}]
      /\ m.uPriorityGroup = IF k.dwPriorityBitmap[g] \ {p} = {}
                            THEN k.uPriorityGroup \ {g} ELSE k.uPriorityGroup
      /\ SameThreads(k, m)
  BY <1>1 DEF ClearPriorityBitmap, RunQueueType, SameThreads
<1>3. Unlink(k, t) = r
  BY DEF Unlink
<1> HIDE DEF m, p
<1>4. r \in RunQueueType
  BY <1>1, <1>2 DEF RunQueueType
<1>5. /\ r.lpNextRun = [m.lpNextRun EXCEPT ![t] = NULL]
      /\ r.lpPrevRun = [m.lpPrevRun EXCEPT ![t] = NULL]
      /\ r.lpThreadList = [m.lpThreadList EXCEPT ![p] = NULL]
      /\ r.dwPriorityBitmap = m.dwPriorityBitmap
      /\ r.uPriorityGroup = m.uPriorityGroup
      /\ SameThreads(m, r)
  BY <1>1, <1>2 DEF RunQueueType, SameThreads
<1> HIDE DEF r
<1> QED
  BY <1>2, <1>3, <1>4, <1>5 DEF p, SameThreads

LEMMA UnlinkInner ==
  ASSUME NEW k \in RunQueueType, NEW t \in Threads, k.lpNextRun[t] # t,
         k.lpNextRun[t] # NULL, k.lpPrevRun[t] # NULL
  PROVE  LET r == Unlink(k, t)
             p == k.nCurPriority[t]
             n == k.lpNextRun[t]
             v == k.lpPrevRun[t]
         IN  /\ r \in RunQueueType
             /\ r.lpNextRun = [k.lpNextRun EXCEPT ![v] = n, ![t] = NULL]
             /\ r.lpPrevRun = [k.lpPrevRun EXCEPT ![n] = v, ![t] = NULL]
             /\ r.lpThreadList = [k.lpThreadList EXCEPT ![p] = IF @ = t THEN n ELSE @]
             /\ r.dwPriorityBitmap = k.dwPriorityBitmap
             /\ r.uPriorityGroup = k.uPriorityGroup
             /\ SameThreads(k, r)
  BY DEF Unlink, RunQueueType, SameThreads

\* Unlink takes a thread off its ring and keeps the queue well formed.
LEMMA UnlinkQueue ==
  ASSUME NEW k, WellFormed(k), NEW t \in Threads, Linked(k, t)
  PROVE  LET r == Unlink(k, t)
         IN  /\ WellFormed(r)
             /\ SameThreads(k, r)
             /\ \A u \in Threads : Linked(r, u) <=> Linked(k, u) /\ u # t
<1> DEFINE r == Unlink(k, t)
           p == k.nCurPriority[t]
           g == GroupOf(p)
           n == k.lpNextRun[t]
           v == k.lpPrevRun[t]
<1>0. /\ k \in RunQueueType /\ t \in Threads /\ p \in Priorities /\ g \in Groups
      /\ NULL \notin Threads
      /\ n \in Threads /\ v \in Threads /\ Linked(k, n) /\ Linked(k, v)
      /\ k.nCurPriority[n] = p /\ k.nCurPriority[v] = p
      /\ k.lpPrevRun[n] = t /\ k.lpNextRun[v] = t
  BY RunQueueAssumption DEF WellFormed, RunQueueType, Groups, LinksOK, Linked
<1>1. CASE n = t
  <2>1. /\ r \in RunQueueType
        /\ r.lpNextRun = [k.lpNextRun EXCEPT ![t] = NULL]
        /\ r.lpPrevRun = [k.lpPrevRun EXCEPT ![t] = NULL]
        /\ r.lpThreadList = [k.lpThreadList EXCEPT ![p] = NULL]
        /\ r.dwPriorityBitmap = [k.dwPriorityBitmap EXCEPT ![g] = @ \ {p}]
        /\ r.uPriorityGroup = IF k.dwPriorityBitmap[g] \ {p} = {}
                              THEN k.uPriorityGroup \ {g} ELSE k.uPriorityGroup
        /\ SameThreads(k, r)
    BY <1>0, <1>1, UnlinkLast
  <2>2. Ready(k, p) = {t}
    <3>1. {t} \in SUBSET Ready(k, p)
      BY <1>0 DEF Ready
    <3>2. \A u \in {t} : k.lpNextRun[u] \in {t}
      BY <1>1
    <3> QED
      BY <1>0, <3>1, <3>2 DEF WellFormed, OneRing
  <2> HIDE DEF r, p
  <2>3. \A u \in Threads : Linked(r, u) <=> Linked(k, u) /\ u # t
    BY <1>0, <2>1 DEF Linked, RunQueueType
  <2>4. \A q \in Priorities : Ready(r, q) = IF q = p THEN {} ELSE Ready(k, q)
    BY <1>0, <2>1, <2>2, <2>3 DEF Ready, SameThreads, p
  <2>5. LinksOK(r)
    BY <1>0, <1>1, <2>1, <2>3 DEF WellFormed, LinksOK, Linked, RunQueueType, SameThreads
  <2>6. HeadsOK(r)
    BY <1>0, <2>1, <2>4 DEF WellFormed, HeadsOK, RunQueueType
  <2>7. BitmapOK(r)
    BY <1>0, <2>1 DEF WellFormed, BitmapOK, RunQueueType
  <2>8. OneRing(r)
    <3> SUFFICES ASSUME NEW q \in Priorities, NEW S \in SUBSET Ready(r, q), S # {},
                        \A u \in S : r.lpNextRun[u] \in S
                 PROVE  S = Ready(r, q)
      BY DEF OneRing
    <3>1. S \in SUBSET Ready(k, q) /\ t \notin S /\ Ready(r, q) = Ready(k, q)
      BY <2>3, <2>4 DEF Ready
    <3>2. \A u \in S : k.lpNextRun[u] \in S
      BY <1>0, <2>1, <3>1 DEF RunQueueType, Ready
    <3> QED
      BY <3>1, <3>2 DEF WellFormed, OneRing
  <2> QED
    BY <2>1, <2>3, <2>5, <2>6, <2>7, <2>8 DEF WellFormed, r
<1>2. CASE n # t
  <2>1. /\ r \in RunQueueType
        /\ r.lpNextRun = [k.lpNextRun EXCEPT ![v] = n, ![t] = NULL]
        /\ r.lpPrevRun = [k.lpPrevRun EXCEPT ![n] = v, ![t] = NULL]
        /\ r.lpThreadList = [k.lpThreadList EXCEPT ![p] = IF @ = t THEN n ELSE @]
        /\ r.dwPriorityBitmap = k.dwPriorityBitmap
        /\ r.uPriorityGroup = k.uPriorityGroup
        /\ SameThreads(k, r)
    BY <1>0, <1>2, UnlinkInner
  <2>2. v # t
    BY <1>0, <1>2
  <2> HIDE DEF r, p, n, v
  <2>3. \A u \in Threads : Linked(r, u) <=> Linked(k, u) /\ u # t
    BY <1>0, <2>1, <2>2 DEF Linked, RunQueueType
  <2>4. \A q \in Priorities : Ready(r, q) = Ready(k, q) \ {t}
    BY <1>0, <2>1, <2>3 DEF Ready, SameThreads
  <2>5. LinksOK(r)
    BY <1>0, <1>2, <2>1, <2>2, <2>3
       DEF WellFormed, LinksOK, Linked, RunQueueType, SameThreads, n, v
  <2>6. HeadsOK(r)
    <3>1. n \in Ready(k, p) \ {t}
      BY <1>0, <1>2 DEF Ready
    <3>2. \A q \in Priorities \ {p} : t \notin Ready(k, q)
      BY DEF Ready, p
    <3> QED
      BY <1>0, <2>1, <2>4, <3>1, <3>2 DEF WellFormed, HeadsOK, RunQueueType
  <2>7. BitmapOK(r)
    BY <1>0, <2>1 DEF WellFormed, BitmapOK, RunQueueType
  <2>8. OneRing(r)
    <3> SUFFICES ASSUME NEW q \in Priorities, NEW S \in SUBSET Ready(r, q), S # {},
                        \A u \in S : r.lpNextRun[u] \in S
                 PROVE  S = Ready(r, q)
      BY DEF OneRing
    <3> DEFINE T == IF v \in S THEN S \cup {t} ELSE S
    <3>1. S \in SUBSET Ready(k, q) /\ t \notin S
      BY <2>4
    <3>2. /\ r.lpNextRun[v] = n /\ k.lpNextRun[t] = n
          /\ \A u \in Threads \ {v, t} : r.lpNextRun[u] = k.lpNextRun[u]
      BY <1>0, <2>1, <2>2 DEF RunQueueType, n
    <3>3. T \in SUBSET Ready(k, q)
      BY <1>0, <3>1 DEF Ready, p
    <3>4. \A u \in T : k.lpNextRun[u] \in T
      BY <1>0, <3>1, <3>2 DEF Ready
    <3>5. T = Ready(k, q)
      BY <3>3, <3>4 DEF WellFormed, OneRing
    <3> QED
      BY <2>4, <3>1, <3>5
  <2> QED
    BY <2>1, <2>3, <2>5, <2>6, <2>7, <2>8 DEF WellFormed, r
<1> QED
  BY <1>1, <1>2

\* RemoveFromRunQueue of a queued thread other than the initial one is no fault, and
\* takes just this thread off.
LEMMA RemoveUnlinks ==
  ASSUME NEW k, WellFormed(k), NEW t \in Threads \ {InitThread}, Linked(k, t)
  PROVE  LET r == RemoveFromRunQueue(k, t)
         IN  /\ WellFormed(r)
             /\ \A u \in Threads : Linked(r, u) <=> Linked(k, u) /\ u # t
             /\ r.nCurPriority = k.nCurPriority
             /\ r.dwState = k.dwState
             /\ r.nSuspendCount = k.nSuspendCount
             /\ r.nTickCount = k.nTickCount
             /\ r.nBoost = [k.nBoost EXCEPT ![t] = 0]
             /\ r.fault = k.fault
             /\ r.bNeedResched = k.bNeedResched
<1> DEFINE m == Unlink(k, t)
           r == [m EXCEPT !.nBoost[t] = 0, !.nCountRunning = m.nCountRunning - 1]
<1>1. /\ WellFormed(m)
      /\ SameThreads(k, m)
      /\ \A u \in Threads : Linked(m, u) <=> Linked(k, u) /\ u # t
  BY UnlinkQueue
<1>2. k.lpNextRun[t] # NULL /\ k.lpPrevRun[t] # NULL
  BY DEF Linked, WellFormed, LinksOK
<1>3. RemoveFromRunQueue(k, t) = r
  BY <1>2 DEF RemoveFromRunQueue
<1> HIDE DEF m
<1>4. r \in RunQueueType
  <2>1. m \in RunQueueType /\ m.nCountRunning - 1 \in Int /\ 0 \in Nat
    BY <1>1 DEF WellFormed, RunQueueType
  <2>2. [m.nBoost EXCEPT ![t] = 0] \in [Threads -> Nat]
    BY <2>1 DEF RunQueueType
  <2> QED
    BY <2>1, <2>2 DEF RunQueueType
<1>5. /\ SameQueue(m, r)
      /\ r.dwState = m.dwState
      /\ r.nSuspendCount = m.nSuspendCount
      /\ r.nTickCount = m.nTickCount
      /\ r.nBoost = [m.nBoost EXCEPT ![t] = 0]
      /\ r.fault = m.fault
      /\ r.bNeedResched = m.bNeedResched
  BY <1>1 DEF WellFormed, RunQueueType, SameQueue
<1> HIDE DEF r
<1>6. WellFormed(r) /\ \A u \in Threads : Linked(r, u) <=> Linked(m, u)
  BY <1>1, <1>4, <1>5, SameQueueWellFormed
<1> QED
  BY <1>1, <1>3, <1>5, <1>6 DEF SameThreads, SameQueue

\* The priority of a thread that is on no ring may be changed.
LEMMA PriorityOfUnlinked ==
  ASSUME NEW k, WellFormed(k), NEW t \in Threads, ~Linked(k, t), NEW p \in Priorities,
         NEW r \in RunQueueType,
         r.lpNextRun = k.lpNextRun, r.lpPrevRun = k.lpPrevRun,
         r.lpThreadList = k.lpThreadList, r.dwPriorityBitmap = k.dwPriorityBitmap,
         r.uPriorityGroup = k.uPriorityGroup,
         r.nCurPriority = [k.nCurPriority EXCEPT ![t] = p]
  PROVE  WellFormed(r) /\ \A u \in Threads : Linked(r, u) <=> Linked(k, u)
<1>1. \A u \in Threads : Linked(r, u) <=> Linked(k, u)
  BY DEF Linked
<1>2. \A u \in Threads : Linked(k, u) => r.nCurPriority[u] = k.nCurPriority[u]
  BY DEF WellFormed, RunQueueType
<1>3. \A q \in Priorities : Ready(r, q) = Ready(k, q)
  BY <1>1, <1>2 DEF Ready
<1>4. \A u \in Threads : Linked(k, u) =>
        /\ k.lpNextRun[u] \in Threads /\ Linked(k, k.lpNextRun[u])
        /\ k.lpPrevRun[u] \in Threads /\ Linked(k, k.lpPrevRun[u])
  BY RunQueueAssumption DEF WellFormed, RunQueueType, LinksOK, Linked
<1>5. LinksOK(r)
  BY <1>1, <1>2, <1>4 DEF WellFormed, LinksOK
<1>6. HeadsOK(r) /\ BitmapOK(r) /\ OneRing(r)
  BY <1>3 DEF WellFormed, HeadsOK, BitmapOK, OneRing
<1> QED
  BY <1>1, <1>5, <1>6 DEF WellFormed

\* The queue InitScheduler leaves is well formed, with the initial thread alone on it.
LEMMA InitSchedulerWellFormed ==
  /\ WellFormed(InitScheduler)
  /\ \A t \in Threads : Linked(InitScheduler, t) <=> t = InitThread
<1> DEFINE r == InitScheduler
           P == IDLE_PRIORITY
<1>0. /\ InitThread \in Threads /\ NULL \notin Threads /\ P \in Priorities
      /\ GroupOf(P) \in Groups
  BY RunQueueAssumption DEF Priorities, Groups
<1>1. r \in RunQueueType
  BY <1>0 DEF InitScheduler, RunQueueType, States
<1>2. /\ r.lpNextRun = [t \in Threads |-> IF t = InitThread THEN t ELSE NULL]
      /\ r.lpPrevRun = [t \in Threads |-> IF t = InitThread THEN t ELSE NULL]
      /\ r.lpThreadList = [p \in Priorities |-> IF p = P THEN InitThread ELSE NULL]
      /\ r.dwPriorityBitmap = [g \in Groups |-> IF g = GroupOf(P) THEN {P} ELSE {}]
      /\ r.uPriorityGroup = {GroupOf(P)}
      /\ r.nCurPriority = [t \in Threads |-> P]
  BY DEF InitScheduler
<1> HIDE DEF r, P
<1>3. \A t \in Threads : /\ r.lpNextRun[t] = IF t = InitThread THEN t ELSE NULL
                         /\ r.lpPrevRun[t] = IF t = InitThread THEN t ELSE NULL
                         /\ r.nCurPriority[t] = P
  BY <1>2
<1>4. \A t \in Threads : Linked(r, t) <=> t = InitThread
  BY <1>0, <1>3 DEF Linked
<1>5. \A p \in Priorities : Ready(r, p) = IF p = P THEN {InitThread} ELSE {}
  BY <1>0, <1>3, <1>4 DEF Ready
<1>6. LinksOK(r)
  BY <1>0, <1>3, <1>4 DEF LinksOK
<1>7. HeadsOK(r)
  BY <1>0, <1>2, <1>5 DEF HeadsOK
<1>8. BitmapOK(r)
  <2>1. \A p \in Priorities : GroupOf(p) \in Groups
    BY DEF Groups
  <2> QED
    BY <1>0, <1>2, <2>1 DEF BitmapOK
<1>9. OneRing(r)
  <2> SUFFICES ASSUME NEW p \in Priorities, NEW S \in SUBSET Ready(r, p), S # {}
               PROVE  S = Ready(r, p)
    BY DEF OneRing
  <2> QED
    BY <1>5
<1> QED
  BY <1>1, <1>4, <1>8, <1>9, <1>6, <1>7 DEF WellFormed, r
=============================================================================
