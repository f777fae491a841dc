--------------------------- MODULE HandlesProofs ----------------------------
(***************************************************************************)
(* References are counted and names are unique, for any processes, handles *)
(* and objects, as long as a count is read and written in one piece and    *)
(* the allocation of a handle for a named object does not fail.            *)
(***************************************************************************)
EXTENDS Handles, FiniteSetTheorems, TLAPS

NoFaults == Faults = {}

\* Who is inside the two critical sections.
Inside ==
  \A t \in Threads :
    /\ pc[t] \in {"make", "count", "alloc", "drop"} <=> csSemList = t
    /\ pc[t] \in {"delete", "drop"} => csHandleObjList = t
    /\ csHandleObjList = t => pc[t] \in {"delete", "drop", "closeAll"}

\* A handle in use has an object and an owner.
HandlesInUse == \A h \in Handles : ulOwner[h] = NULL <=> lpvObjData[h] = NULL

\* What thread t, at l in a call with the locals a, knows of its handle and its object.
KnowsHandle(t, l, a) ==
  /\ l \in {"close", "delete", "drop"} => a.h \in Handles /\ ulOwner[a.h] = t
  /\ l = "drop" => lpvObjData[a.h] = a.s
  /\ l = "wait" => \E h \in Handles : ulOwner[h] = t /\ lpvObjData[h] = a.s

KnowsObject(l, a) ==
  /\ l \in {"count", "alloc", "drop", "wait"} => a.s \in Sems
  /\ l = "count" => a.s \in listed
  /\ l \in {"count", "drop"} => a.count = nRefCount[a.s]
  /\ l = "make" => Lookup(a.name) = {}

Known == \A t \in Threads : KnowsHandle(t, pc[t], arg[t]) /\ KnowsObject(pc[t], arg[t])

IInv ==
  /\ TypeOK
  /\ Inside
  /\ HandlesInUse
  /\ Known
  /\ ReferencesCounted
  /\ NamesAreUnique
  /\ DeadHaveNoHandles

USE HandlesAssumption

LEMMA InitIInv == Init => IInv
<1> SUFFICES ASSUME Init PROVE IInv
  OBVIOUS
<1>1. TypeOK
  BY DEF Init, TypeOK, PCs, NoCall
<1>2. Inside /\ HandlesInUse /\ NamesAreUnique /\ DeadHaveNoHandles
  BY DEF Init, Inside, HandlesInUse, NamesAreUnique, DeadHaveNoHandles
<1>3. Known
  BY DEF Init, Known, KnowsHandle, KnowsObject
<1>4. ReferencesCounted
  <2>1. \A s \in Sems : Referents(s) = {}
    BY DEF Init, Referents
  <2> QED
    BY <2>1, FS_EmptySet DEF Init, ReferencesCounted
<1> QED
  BY <1>1, <1>2, <1>3, <1>4 DEF IInv

-----------------------------------------------------------------------------
(* Counting *)

LEMMA ReferentsFinite == \A s \in Sems : IsFiniteSet(Referents(s))
<1>1. IsFiniteSet(Handles \cup Threads)
  BY FS_Union
<1>2. \A s \in Sems : Referents(s) \subseteq Handles \cup Threads
  BY DEF Referents
<1> QED
  BY <1>1, <1>2, FS_Subset

\* The step leaves the references of every object alone.
LEMMA SameReferents ==
  ASSUME ReferencesCounted,
         \A s \in Sems : Referents(s)' = Referents(s),
         UNCHANGED <<listed, nRefCount>>
  PROVE  ReferencesCounted'
BY DEF ReferencesCounted

\* The step adds one reference and counts it.
LEMMA ReferentAdded ==
  ASSUME TypeOK, ReferencesCounted, NEW s \in Sems, NEW x,
         x \notin Referents(s),
         Referents(s)' = Referents(s) \cup {x},
         \A u \in Sems \ {s} : Referents(u)' = Referents(u),
         nRefCount' = [nRefCount EXCEPT ![s] = nRefCount[s] + 1],
         listed' = listed \cup {s}
  PROVE  ReferencesCounted'
<1>1. Cardinality(Referents(s)') = nRefCount[s] + 1
  BY ReferentsFinite, FS_AddElement DEF ReferencesCounted
<1>2. nRefCount'[s] = nRefCount[s] + 1 /\ nRefCount[s] \in Nat
  BY DEF TypeOK
<1>3. \A u \in Sems \ {s} : nRefCount'[u] = nRefCount[u] /\ (u \in listed' <=> u \in listed)
  BY DEF TypeOK
<1>4. \A u \in Sems : nRefCount'[u] = Cardinality(Referents(u)')
  BY <1>1, <1>2, <1>3 DEF ReferencesCounted
<1>5. \A u \in Sems : u \in listed' <=> nRefCount'[u] > 0
  BY <1>2, <1>3 DEF ReferencesCounted
<1> QED
  BY <1>4, <1>5 DEF ReferencesCounted

\* The step takes one reference away, and the object with the last one.
LEMMA ReferentRemoved ==
  ASSUME TypeOK, ReferencesCounted, NEW s \in Sems, NEW x,
         x \in Referents(s),
         Referents(s)' = Referents(s) \ {x},
         \A u \in Sems \ {s} : Referents(u)' = Referents(u),
         nRefCount' = [nRefCount EXCEPT ![s] = nRefCount[s] - 1],
         listed' = IF nRefCount[s] = 1 THEN listed \ {s} ELSE listed
  PROVE  ReferencesCounted'
<1>1. Cardinality(Referents(s)') = nRefCount[s] - 1
  BY ReferentsFinite, FS_RemoveElement DEF ReferencesCounted
<1>2. nRefCount[s] \in Nat \ {0}
  BY ReferentsFinite, FS_EmptySet DEF TypeOK, ReferencesCounted
<1>3. nRefCount'[s] = nRefCount[s] - 1
  BY DEF TypeOK
<1>4. \A u \in Sems \ {s} : nRefCount'[u] = nRefCount[u] /\ (u \in listed' <=> u \in listed)
  BY DEF TypeOK
<1>5. s \in listed' <=> nRefCount'[s] > 0
  BY <1>2, <1>3 DEF ReferencesCounted
<1> QED
  BY <1>1, <1>3, <1>4, <1>5 DEF ReferencesCounted

\* One reference takes the place of another one.
LEMMA ReferentReplaced ==
  ASSUME ReferencesCounted, NEW s \in Sems, NEW x, NEW y,
         x \in Referents(s), y \notin Referents(s),
         Referents(s)' = (Referents(s) \ {x}) \cup {y},
         \A u \in Sems \ {s} : Referents(u)' = Referents(u),
         UNCHANGED <<listed, nRefCount>>
  PROVE  ReferencesCounted'
<1>1. Cardinality(Referents(s) \ {x}) = Cardinality(Referents(s)) - 1
      /\ IsFiniteSet(Referents(s) \ {x})
  BY ReferentsFinite, FS_RemoveElement
<1>2. Cardinality(Referents(s)') = Cardinality(Referents(s) \ {x}) + 1
  BY <1>1, FS_AddElement
<1>3. Cardinality(Referents(s)) \in Nat
  BY ReferentsFinite, FS_CardinalityType
<1>4. Cardinality(Referents(s)') = Cardinality(Referents(s))
  BY <1>1, <1>2, <1>3
<1> QED
  BY <1>4 DEF ReferencesCounted

\* The only reference of an object that is counted once is the one that is known.
LEMMA OnlyReferent ==
  ASSUME ReferencesCounted, NEW s \in Sems, NEW x \in Referents(s), nRefCount[s] = 1
  PROVE  Referents(s) = {x}
BY ReferentsFinite, FS_Singleton DEF ReferencesCounted

-----------------------------------------------------------------------------
(* Steps that count nothing and change no handle *)

LEMMA GotoFrame ==
  ASSUME TypeOK, NEW t \in Threads, NEW l, NEW a, Goto(t, l, a)
  PROVE  /\ pc'[t] = l /\ arg'[t] = a
         /\ \A u \in Threads \ {t} : pc'[u] = pc[u] /\ arg'[u] = arg[u]
BY DEF TypeOK, Goto

Args == [h : Handles \cup {NULL}, s : Sems \cup {NULL}, name : Names \cup {NULL}, count : Nat,
         next : {"idle", "closeAll"}]

\* Everything but the locks, when a thread moves to a place where it is no referent.
LEMMA QuietKeeps ==
  ASSUME IInv, NEW t \in Threads, NEW l \in PCs, NEW a \in Args, Goto(t, l, a),
         pc[t] \notin {"wait", "alloc"}, l \notin {"wait", "alloc"},
         KnowsHandle(t, l, a), KnowsObject(l, a), l = "dead" => Mine(t) = {},
         UNCHANGED <<handleVars, semVars>>,
         csSemList' \in Threads \cup {NULL}, csHandleObjList' \in Threads \cup {NULL},
         Inside'
  PROVE  IInv'
<1> USE DEF IInv, handleVars, semVars
<1>1. /\ pc'[t] = l /\ arg'[t] = a
      /\ \A u \in Threads \ {t} : pc'[u] = pc[u] /\ arg'[u] = arg[u]
  BY GotoFrame
<1>2. TypeOK'
  BY DEF TypeOK, Goto, Args
<1>3. HandlesInUse' /\ NamesAreUnique'
  BY DEF HandlesInUse, NamesAreUnique
<1>4. Known'
  BY <1>1 DEF Known, KnowsHandle, KnowsObject, Lookup
<1>5. ReferencesCounted'
  <2>1. \A s \in Sems : Referents(s)' = Referents(s)
    BY <1>1 DEF Referents
  <2> QED
    BY <2>1, SameReferents
<1>6. DeadHaveNoHandles'
  BY <1>1 DEF DeadHaveNoHandles, Mine
<1> QED
  BY <1>2, <1>3, <1>4, <1>5, <1>6

\* A call starts.
LEMMA CallKeeps ==
  ASSUME IInv, NEW t \in Threads,
         \/ \E n \in Names \cup {NULL} : Create(t, n)
         \/ \E h \in Handles : CloseHandle(t, h)
         \/ ExitThread(t)
  PROVE  IInv'
<1> USE DEF IInv, handleVars, semVars, lockVars, NoCall
<1>1. CASE \E n \in Names \cup {NULL} : Create(t, n)
  <2> PICK n \in Names \cup {NULL} : Create(t, n)
    BY <1>1
  <2>1. [NoCall EXCEPT !.name = n] \in Args /\ "create" \in PCs
    BY DEF Args, PCs
  <2>2. Inside'
    BY GotoFrame DEF Inside, TypeOK, Create
  <2> QED
    BY <2>1, <2>2, QuietKeeps DEF KnowsHandle, KnowsObject, TypeOK, Create
<1>2. CASE \E h \in Handles : CloseHandle(t, h)
  <2> PICK h \in Handles : CloseHandle(t, h)
    BY <1>2
  <2>1. [NoCall EXCEPT !.h = h] \in Args /\ "close" \in PCs
    BY DEF Args, PCs
  <2>2. Inside'
    BY GotoFrame DEF Inside, TypeOK, CloseHandle
  <2> QED
    BY <2>1, <2>2, QuietKeeps DEF KnowsHandle, KnowsObject, TypeOK, Mine, CloseHandle
<1>3. CASE ExitThread(t)
  <2>1. [NoCall EXCEPT !.next = "closeAll"] \in Args /\ "closeAll" \in PCs
    BY DEF Args, PCs
  <2>2. Inside'
    BY <1>3, GotoFrame DEF Inside, TypeOK, ExitThread
  <2> QED
    BY <1>3, <2>1, <2>2, QuietKeeps DEF KnowsHandle, KnowsObject, TypeOK, ExitThread
<1> QED
  BY <1>1, <1>2, <1>3

\* csSemList is entered to create: an object of the name is there, or there is none.
LEMMA SemaphoreCreateKeeps ==
  ASSUME IInv, NEW t \in Threads, SemaphoreCreate(t)
  PROVE  IInv'
<1> USE DEF IInv, handleVars, semVars, lockVars
<1>1. CASE Lookup(arg[t].name) = {} /\ Goto(t, "make", arg[t])
  <2>1. arg[t] \in Args /\ "make" \in PCs
    BY DEF TypeOK, Args, PCs
  <2>2. Inside'
    BY <1>1, GotoFrame DEF Inside, TypeOK, SemaphoreCreate
  <2> QED
    BY <1>1, <2>1, <2>2, QuietKeeps DEF KnowsHandle, KnowsObject, TypeOK, SemaphoreCreate
<1>2. CASE \E s \in Lookup(arg[t].name) :
             Goto(t, "count", [arg[t] EXCEPT !.s = s, !.count = nRefCount[s]])
  <2> PICK s \in Lookup(arg[t].name) :
             Goto(t, "count", [arg[t] EXCEPT !.s = s, !.count = nRefCount[s]])
    BY <1>2
  <2> DEFINE a == [arg[t] EXCEPT !.s = s, !.count = nRefCount[s]]
  <2>1. s \in Sems /\ s \in listed
    BY DEF Lookup, TypeOK
  <2>2. arg[t] \in Args /\ nRefCount[s] \in Nat
    BY <2>1 DEF TypeOK, Args
  <2>3. a \in Args /\ a.s = s /\ a.count = nRefCount[s] /\ "count" \in PCs
    BY <2>1, <2>2 DEF Args, PCs
  <2>4. Goto(t, "count", a)
    OBVIOUS
  <2> HIDE DEF a
  <2>5. KnowsHandle(t, "count", a) /\ KnowsObject("count", a)
    BY <2>1, <2>3 DEF KnowsHandle, KnowsObject
  <2>6. Inside'
    <3>1. pc'[t] = "count" /\ \A u \in Threads \ {t} : pc'[u] = pc[u]
      BY <2>4, GotoFrame
    <3>2. pc[t] = "create" /\ csSemList = NULL /\ csSemList' = t
          /\ csHandleObjList' = csHandleObjList
      BY DEF SemaphoreCreate
    <3> QED
      BY <3>1, <3>2 DEF Inside, TypeOK
  <2> QED
    BY <2>3, <2>4, <2>5, <2>6, QuietKeeps DEF TypeOK, SemaphoreCreate
<1> QED
  BY <1>1, <1>2 DEF SemaphoreCreate

LEMMA MakeFailsKeeps ==
  ASSUME IInv, NEW t \in Threads, MakeFails(t)
  PROVE  IInv'
<1> USE DEF IInv, handleVars, semVars, lockVars
<1>1. NoCall \in Args /\ "idle" \in PCs
  BY DEF NoCall, Args, PCs
<1>2. Inside'
  BY GotoFrame DEF Inside, TypeOK, MakeFails
<1> QED
  BY <1>1, <1>2, QuietKeeps DEF KnowsHandle, KnowsObject, TypeOK, MakeFails

\* csHandleObjList is entered to close one handle.
LEMMA EnterCloseKeeps ==
  ASSUME IInv, NEW t \in Threads, EnterClose(t)
  PROVE  IInv'
<1> USE DEF IInv, handleVars, semVars, lockVars
<1>1. arg[t] \in Args /\ "delete" \in PCs
  BY DEF TypeOK, Args, PCs
<1>2. Inside'
  BY GotoFrame DEF Inside, TypeOK, EnterClose
<1>3. KnowsHandle(t, "delete", arg[t]) /\ KnowsObject("delete", arg[t])
  BY DEF Known, KnowsHandle, KnowsObject, EnterClose
<1> QED
  BY <1>1, <1>2, <1>3, QuietKeeps DEF TypeOK, EnterClose

\* The next handle of a process that exits, or the end.
LEMMA CloseAllKeeps ==
  ASSUME IInv, NEW t \in Threads, CloseAll(t)
  PROVE  IInv'
<1> USE DEF IInv, handleVars, semVars, lockVars
<1>1. CASE Mine(t) = {} /\ csHandleObjList' = NULL /\ Goto(t, "dead", NoCall)
  <2>1. NoCall \in Args /\ "dead" \in PCs
    BY DEF NoCall, Args, PCs
  <2>2. Inside'
    BY <1>1, GotoFrame DEF Inside, TypeOK, CloseAll
  <2> QED
    BY <1>1, <2>1, <2>2, QuietKeeps DEF KnowsHandle, KnowsObject, TypeOK, CloseAll
<1>2. CASE csHandleObjList' = t /\ \E h \in Mine(t) : Goto(t, "delete", [arg[t] EXCEPT !.h = h])
  <2> PICK h \in Mine(t) : Goto(t, "delete", [arg[t] EXCEPT !.h = h])
    BY <1>2
  <2> DEFINE a == [arg[t] EXCEPT !.h = h]
  <2>1. h \in Handles /\ ulOwner[h] = t
    BY DEF Mine
  <2>2. arg[t] \in Args
    BY DEF TypeOK, Args
  <2>3. a \in Args /\ a.h = h /\ "delete" \in PCs
    BY <2>1, <2>2 DEF Args, PCs
  <2>4. Goto(t, "delete", a)
    OBVIOUS
  <2> HIDE DEF a
  <2>5. KnowsHandle(t, "delete", a) /\ KnowsObject("delete", a)
    BY <2>1, <2>3 DEF KnowsHandle, KnowsObject
  <2>6. Inside'
    <3>1. pc'[t] = "delete" /\ \A u \in Threads \ {t} : pc'[u] = pc[u]
      BY <2>4, GotoFrame
    <3> QED
      BY <1>2, <3>1 DEF Inside, TypeOK, CloseAll
  <2> QED
    BY <1>2, <2>3, <2>4, <2>5, <2>6, QuietKeeps DEF TypeOK, CloseAll
<1> QED
  BY <1>1, <1>2 DEF CloseAll

\* csSemList is entered to drop a reference, and the count is read.
LEMMA CloseSemaphoreObjKeeps ==
  ASSUME IInv, NEW t \in Threads, CloseSemaphoreObj(t)
  PROVE  IInv'
<1> USE DEF IInv, handleVars, semVars, lockVars
<1> DEFINE s == lpvObjData[arg[t].h]
           a == [arg[t] EXCEPT !.s = s, !.count = nRefCount[s]]
<1>1. arg[t].h \in Handles /\ ulOwner[arg[t].h] = t
  BY DEF Known, KnowsHandle, CloseSemaphoreObj
<1>2. s \in Sems /\ nRefCount[s] \in Nat
  BY <1>1 DEF HandlesInUse, TypeOK
<1>3. arg[t] \in Args
  BY DEF TypeOK, Args
<1>4. a \in Args /\ a.s = s /\ a.count = nRefCount[s] /\ a.h = arg[t].h /\ "drop" \in PCs
  BY <1>2, <1>3 DEF Args, PCs
<1>5. Inside'
  BY GotoFrame DEF Inside, TypeOK, CloseSemaphoreObj
<1>6. KnowsHandle(t, "drop", a) /\ KnowsObject("drop", a)
  BY <1>1, <1>2, <1>4 DEF KnowsHandle, KnowsObject
<1>7. Goto(t, "drop", a)
  BY DEF CloseSemaphoreObj
<1> HIDE DEF s, a
<1> QED
  BY <1>4, <1>5, <1>6, <1>7, QuietKeeps DEF TypeOK, CloseSemaphoreObj

-----------------------------------------------------------------------------
(* Steps that count, or change a handle *)

\* A new object has one reference, the thread that made it.
LEMMA MakeSemaphoreKeeps ==
  ASSUME IInv, NEW t \in Threads, MakeSemaphore(t)
  PROVE  IInv'
<1> USE DEF IInv, handleVars, semVars, lockVars
<1> PICK s \in Sems \ listed :
      /\ listed' = listed \cup {s}
      /\ lpszName' = [lpszName EXCEPT ![s] = arg[t].name]
      /\ nRefCount' = [nRefCount EXCEPT ![s] = 1]
      /\ Goto(t, "alloc", [arg[t] EXCEPT !.s = s])
  BY DEF MakeSemaphore
<1> DEFINE a == [arg[t] EXCEPT !.s = s]
<1>0. arg[t] \in Args /\ arg[t].name \in Names \cup {NULL}
  BY DEF TypeOK, Args
<1>1. a \in Args /\ a.s = s
  BY <1>0 DEF Args
<1>2. Goto(t, "alloc", a)
  OBVIOUS
<1> HIDE DEF a
<1>3. /\ pc'[t] = "alloc" /\ arg'[t] = a /\ pc[t] = "make"
      /\ \A u \in Threads \ {t} : pc'[u] = pc[u] /\ arg'[u] = arg[u]
  BY <1>2, GotoFrame DEF MakeSemaphore
<1>4. nRefCount[s] = 0 /\ Referents(s) = {}
  BY ReferentsFinite, FS_EmptySet DEF ReferencesCounted, TypeOK
<1>5. UNCHANGED <<lpvObjData, ulOwner, csSemList, csHandleObjList>>
  BY DEF MakeSemaphore
<1>6. TypeOK'
  BY <1>0, <1>1, <1>2, <1>5 DEF TypeOK, Args, PCs, Goto
<1>7. Inside' /\ HandlesInUse' /\ DeadHaveNoHandles'
  BY <1>3, <1>5 DEF Inside, HandlesInUse, DeadHaveNoHandles, Mine
<1>8. Known'
  <2>1. KnowsHandle(t, pc[t], arg[t])' /\ KnowsObject(pc[t], arg[t])'
    BY <1>1, <1>3 DEF KnowsHandle, KnowsObject
  <2>2. ASSUME NEW u \in Threads \ {t} PROVE (KnowsHandle(u, pc[u], arg[u]) /\ KnowsObject(pc[u], arg[u]))'
    <3>1. pc[u] \notin {"count", "drop", "make"}
      BY <1>3 DEF Inside
    <3> QED
      BY <1>3, <1>5, <3>1 DEF Known, KnowsHandle, KnowsObject
  <2> QED
    BY <2>1, <2>2 DEF Known
<1>9. ReferencesCounted'
  <2>1. Referents(s)' = Referents(s) \cup {t}
    BY <1>1, <1>3, <1>4, <1>5 DEF Referents
  <2>2. \A u \in Sems \ {s} : Referents(u)' = Referents(u)
    BY <1>1, <1>3, <1>5 DEF Referents
  <2>3. nRefCount' = [nRefCount EXCEPT ![s] = nRefCount[s] + 1]
    BY <1>4
  <2> QED
    BY <1>4, <2>1, <2>2, <2>3, ReferentAdded
<1>10. NamesAreUnique'
  <2>1. \A u \in listed : lpszName[u] # arg[t].name \/ arg[t].name = NULL
    BY <1>3 DEF Known, KnowsObject, Lookup
  <2>2. lpszName'[s] = arg[t].name /\ \A u \in listed : lpszName'[u] = lpszName[u]
    BY DEF TypeOK
  <2> QED
    BY <2>1, <2>2 DEF NamesAreUnique
<1> QED
  BY <1>6, <1>7, <1>8, <1>9, <1>10

\* The object that was found has one reference more, the thread that found it.
LEMMA CountFoundKeeps ==
  ASSUME IInv, NEW t \in Threads, CountFound(t)
  PROVE  IInv'
<1> USE DEF IInv, handleVars, semVars, lockVars
<1>1. PICK s \in Sems : s = arg[t].s /\ s \in listed /\ arg[t].count = nRefCount[s]
  BY DEF Known, KnowsObject, CountFound
<1>2. nRefCount' = [nRefCount EXCEPT ![s] = nRefCount[s] + 1]
  BY <1>1 DEF CountFound
<1>3. /\ pc'[t] = "alloc" /\ arg'[t] = arg[t] /\ pc[t] = "count"
      /\ \A u \in Threads \ {t} : pc'[u] = pc[u] /\ arg'[u] = arg[u]
  BY GotoFrame DEF CountFound
<1>4. UNCHANGED <<lpvObjData, ulOwner, listed, lpszName, csSemList, csHandleObjList>>
  BY DEF CountFound
<1>5. TypeOK'
  <2>1. pc' \in [Threads -> PCs] /\ arg' = arg
    BY DEF TypeOK, PCs, CountFound, Goto
  <2>2. nRefCount' \in [Sems -> Nat]
    BY <1>1, <1>2 DEF TypeOK
  <2> QED
    BY <1>4, <2>1, <2>2 DEF TypeOK
<1>6. Inside' /\ HandlesInUse' /\ DeadHaveNoHandles' /\ NamesAreUnique'
  BY <1>3, <1>4 DEF Inside, HandlesInUse, DeadHaveNoHandles, Mine, NamesAreUnique
<1>7. Known'
  <2>1. KnowsHandle(t, pc[t], arg[t])' /\ KnowsObject(pc[t], arg[t])'
    BY <1>1, <1>3 DEF KnowsHandle, KnowsObject
  <2>2. ASSUME NEW u \in Threads \ {t} PROVE (KnowsHandle(u, pc[u], arg[u]) /\ KnowsObject(pc[u], arg[u]))'
    <3>1. pc[u] \notin {"count", "drop", "make"}
      BY <1>3 DEF Inside
    <3> QED
      BY <1>3, <1>4, <3>1 DEF Known, KnowsHandle, KnowsObject
  <2> QED
    BY <2>1, <2>2 DEF Known
<1>8. ReferencesCounted'
  <2>1. Referents(s)' = Referents(s) \cup {t} /\ t \notin Referents(s)
    BY <1>1, <1>3, <1>4 DEF Referents
  <2>2. \A u \in Sems \ {s} : Referents(u)' = Referents(u)
    BY <1>1, <1>3, <1>4 DEF Referents
  <2>3. listed' = listed \cup {s}
    BY <1>1, <1>4
  <2> QED
    BY <1>2, <2>1, <2>2, <2>3, ReferentAdded
<1> QED
  BY <1>5, <1>6, <1>7, <1>8

\* The new handle takes over the reference of the thread.
LEMMA HandleAllocKeeps ==
  ASSUME IInv, NEW t \in Threads, HandleAlloc(t)
  PROVE  IInv'
<1> USE DEF IInv, handleVars, semVars, lockVars
<1>1. PICK s \in Sems : s = arg[t].s
  BY DEF Known, KnowsObject, HandleAlloc
<1> PICK h \in Handles :
      /\ ulOwner[h] = NULL
      /\ lpvObjData' = [lpvObjData EXCEPT ![h] = s]
      /\ ulOwner' = [ulOwner EXCEPT ![h] = t]
  BY <1>1 DEF HandleAlloc
<1>2. /\ pc'[t] = "idle" /\ arg'[t] = NoCall /\ pc[t] = "alloc"
      /\ \A u \in Threads \ {t} : pc'[u] = pc[u] /\ arg'[u] = arg[u]
  BY GotoFrame DEF HandleAlloc
<1>3. /\ lpvObjData'[h] = s /\ ulOwner'[h] = t
      /\ \A g \in Handles \ {h} : lpvObjData'[g] = lpvObjData[g] /\ ulOwner'[g] = ulOwner[g]
  BY DEF TypeOK
<1>4. UNCHANGED <<listed, lpszName, nRefCount, csHandleObjList>> /\ csSemList' = NULL
  BY DEF HandleAlloc
<1>5. lpvObjData[h] = NULL
  BY DEF HandlesInUse
<1>6. TypeOK'
  <2>1. pc' \in [Threads -> PCs]
    BY DEF TypeOK, PCs, HandleAlloc, Goto
  <2>2. arg' \in [Threads -> Args]
    BY DEF TypeOK, Args, HandleAlloc, Goto, NoCall
  <2> QED
    BY <1>1, <1>4, <2>1, <2>2 DEF TypeOK, Args
<1>7. Inside' /\ HandlesInUse' /\ NamesAreUnique'
  <2>1. Inside'
    BY <1>2, <1>4 DEF Inside
  <2>2. HandlesInUse'
    BY <1>1, <1>3 DEF HandlesInUse
  <2> QED
    BY <1>4, <2>1, <2>2 DEF NamesAreUnique
<1>8. DeadHaveNoHandles'
  BY <1>2, <1>3 DEF DeadHaveNoHandles, Mine
<1>9. Known'
  <2>1. KnowsHandle(t, pc[t], arg[t])' /\ KnowsObject(pc[t], arg[t])'
    BY <1>2 DEF KnowsHandle, KnowsObject
  <2>2. ASSUME NEW u \in Threads \ {t} PROVE (KnowsHandle(u, pc[u], arg[u]) /\ KnowsObject(pc[u], arg[u]))'
    <3>1. KnowsHandle(u, pc[u], arg[u]) /\ KnowsObject(pc[u], arg[u])
      BY DEF Known
    <3>2. \A g \in Handles : ulOwner[g] = u => g # h
      OBVIOUS
    <3>3. KnowsHandle(u, pc[u], arg[u])'
      BY <1>2, <1>3, <3>1, <3>2 DEF KnowsHandle
    <3>4. KnowsObject(pc[u], arg[u])'
      BY <1>2, <1>4, <3>1 DEF KnowsObject, Lookup
    <3> QED
      BY <3>3, <3>4
  <2> QED
    BY <2>1, <2>2 DEF Known
<1>10. ReferencesCounted'
  <2>1. t \in Referents(s) /\ h \notin Referents(s) /\ t # h
    BY <1>1, <1>2, <1>5 DEF Referents
  <2>2. Referents(s)' = (Referents(s) \ {t}) \cup {h}
    BY <1>1, <1>2, <1>3, <2>1 DEF Referents
  <2>3. \A u \in Sems \ {s} : Referents(u)' = Referents(u)
    BY <1>1, <1>2, <1>3, <1>5 DEF Referents
  <2> QED
    BY <1>4, <2>1, <2>2, <2>3, ReferentReplaced
<1> QED
  BY <1>6, <1>7, <1>8, <1>9, <1>10

\* Without faults the object whose handle was not allocated goes with its only reference.
LEMMA HandleAllocFailsKeeps ==
  ASSUME IInv, NoFaults, NEW t \in Threads, HandleAllocFails(t)
  PROVE  IInv'
<1> USE DEF IInv, handleVars, semVars, lockVars
<1>1. PICK s \in Sems : s = arg[t].s /\ nRefCount[s] = 1
  BY DEF Known, KnowsObject, HandleAllocFails, NoFaults
<1>2. /\ pc'[t] = "idle" /\ arg'[t] = NoCall /\ pc[t] = "alloc"
      /\ \A u \in Threads \ {t} : pc'[u] = pc[u] /\ arg'[u] = arg[u]
  BY GotoFrame DEF HandleAllocFails
<1>3. /\ listed' = listed \ {s}
      /\ lpszName' = [lpszName EXCEPT ![s] = NULL]
      /\ nRefCount' = [nRefCount EXCEPT ![s] = 0]
      /\ csSemList' = NULL
      /\ UNCHANGED <<lpvObjData, ulOwner, csHandleObjList>>
  BY <1>1 DEF HandleAllocFails, Delete
<1>4. Referents(s) = {t}
  <2>1. t \in Referents(s)
    BY <1>1, <1>2 DEF Referents
  <2> QED
    BY <1>1, <2>1, OnlyReferent
<1>5. TypeOK'
  <2>1. pc' \in [Threads -> PCs] /\ arg' \in [Threads -> Args]
    BY DEF TypeOK, PCs, Args, HandleAllocFails, Goto, NoCall
  <2> QED
    BY <1>3, <2>1 DEF TypeOK, Args
<1>6. Inside' /\ HandlesInUse' /\ DeadHaveNoHandles'
  BY <1>2, <1>3 DEF Inside, HandlesInUse, DeadHaveNoHandles, Mine
<1>7. NamesAreUnique'
  <2>1. \A u \in listed' : lpszName'[u] = lpszName[u] /\ u \in listed
    BY <1>3 DEF TypeOK
  <2> QED
    BY <2>1 DEF NamesAreUnique
<1>8. Known'
  <2>1. KnowsHandle(t, pc[t], arg[t])' /\ KnowsObject(pc[t], arg[t])'
    BY <1>2 DEF KnowsHandle, KnowsObject
  <2>2. ASSUME NEW u \in Threads \ {t} PROVE (KnowsHandle(u, pc[u], arg[u]) /\ KnowsObject(pc[u], arg[u]))'
    <3>1. pc[u] \notin {"count", "drop", "make"}
      BY <1>2 DEF Inside
    <3> QED
      BY <1>2, <1>3, <3>1 DEF Known, KnowsHandle, KnowsObject
  <2> QED
    BY <2>1, <2>2 DEF Known
<1>9. ReferencesCounted'
  <2>1. Referents(s)' = Referents(s) \ {t}
    BY <1>1, <1>2, <1>3 DEF Referents
  <2>2. \A u \in Sems \ {s} : Referents(u)' = Referents(u)
    BY <1>1, <1>2, <1>3 DEF Referents
  <2>3. nRefCount' = [nRefCount EXCEPT ![s] = nRefCount[s] - 1]
    BY <1>1, <1>3
  <2> QED
    BY <1>1, <1>3, <1>4, <2>1, <2>2, <2>3, ReferentRemoved
<1> QED
  BY <1>5, <1>6, <1>7, <1>8, <1>9

\* The handle goes with its reference, and the object with the last one.
LEMMA DropReferenceKeeps ==
  ASSUME IInv, NEW t \in Threads, DropReference(t)
  PROVE  IInv'
<1> USE DEF IInv, handleVars, semVars, lockVars
<1>1. PICK s \in Sems, h \in Handles :
        /\ s = arg[t].s /\ h = arg[t].h
        /\ lpvObjData[h] = s /\ ulOwner[h] = t /\ arg[t].count = nRefCount[s]
  BY DEF Known, KnowsObject, KnowsHandle, DropReference
<1>2. PICK next \in {"idle", "closeAll"} : next = arg[t].next
  BY DEF TypeOK
<1>3. /\ pc'[t] = next /\ arg'[t] = [NoCall EXCEPT !.next = next] /\ pc[t] = "drop"
      /\ \A u \in Threads \ {t} : pc'[u] = pc[u] /\ arg'[u] = arg[u]
  BY <1>2, GotoFrame DEF DropReference
<1>4. /\ lpvObjData'[h] = NULL /\ ulOwner'[h] = NULL
      /\ \A g \in Handles \ {h} : lpvObjData'[g] = lpvObjData[g] /\ ulOwner'[g] = ulOwner[g]
  BY <1>1 DEF DropReference, FreeHandle, TypeOK
<1>5. h \in Referents(s)
  BY <1>1 DEF Referents
<1>6. nRefCount[s] \in Nat
  BY DEF TypeOK
<1>7. /\ nRefCount' = [nRefCount EXCEPT ![s] = nRefCount[s] - 1]
      /\ listed' = IF nRefCount[s] = 1 THEN listed \ {s} ELSE listed
      /\ \A u \in listed' : u \in listed /\ lpszName'[u] = lpszName[u]
  BY <1>1, <1>6 DEF DropReference, Delete, TypeOK
<1>8. nRefCount[s] > 0
  BY <1>5, <1>6, ReferentsFinite, FS_EmptySet DEF ReferencesCounted
<1>9. TypeOK'
  <2>1. pc' \in [Threads -> PCs] /\ arg' \in [Threads -> Args]
    BY <1>2 DEF TypeOK, PCs, Args, DropReference, Goto, NoCall
  <2>2. nRefCount' \in [Sems -> Nat] /\ listed' \subseteq Sems
    BY <1>6, <1>7, <1>8 DEF TypeOK
  <2>3. lpszName' \in [Sems -> Names \cup {NULL}]
    BY DEF DropReference, Delete, TypeOK
  <2>4. lpvObjData' \in [Handles -> Sems \cup {NULL}] /\ ulOwner' \in [Handles -> Threads \cup {NULL}]
    BY DEF DropReference, FreeHandle, TypeOK
  <2>5. csSemList' \in Threads \cup {NULL} /\ csHandleObjList' \in Threads \cup {NULL}
    BY DEF DropReference, TypeOK
  <2> QED
    BY <2>1, <2>2, <2>3, <2>4, <2>5 DEF TypeOK, Args
<1>10. Inside'
  <2>1. csSemList' = NULL /\ csHandleObjList' = IF next = "idle" THEN NULL ELSE csHandleObjList
    BY <1>2 DEF DropReference
  <2> QED
    BY <1>3, <2>1 DEF Inside
<1>11. HandlesInUse' /\ DeadHaveNoHandles' /\ NamesAreUnique'
  <2>1. HandlesInUse'
    BY <1>4 DEF HandlesInUse
  <2>2. DeadHaveNoHandles'
    BY <1>3, <1>4 DEF DeadHaveNoHandles, Mine
  <2>3. NamesAreUnique'
    BY <1>7 DEF NamesAreUnique
  <2> QED
    BY <2>1, <2>2, <2>3
<1>12. Known'
  <2>1. KnowsHandle(t, pc[t], arg[t])' /\ KnowsObject(pc[t], arg[t])'
    BY <1>3 DEF KnowsHandle, KnowsObject
  <2>2. ASSUME NEW u \in Threads \ {t} PROVE (KnowsHandle(u, pc[u], arg[u]) /\ KnowsObject(pc[u], arg[u]))'
    <3>1. pc[u] \notin {"count", "drop", "make"}
      BY <1>3 DEF Inside
    <3>2. KnowsHandle(u, pc[u], arg[u]) /\ KnowsObject(pc[u], arg[u])
      BY DEF Known
    <3>3. \A g \in Handles : ulOwner[g] = u => g # h
      BY <1>1
    <3>4. KnowsHandle(u, pc[u], arg[u])'
      BY <1>3, <1>4, <3>1, <3>2, <3>3 DEF KnowsHandle
    <3>5. KnowsObject(pc[u], arg[u])'
      BY <1>3, <3>1, <3>2 DEF KnowsObject
    <3> QED
      BY <3>4, <3>5
  <2> QED
    BY <2>1, <2>2 DEF Known
<1>13. ReferencesCounted'
  <2>2. Referents(s)' = Referents(s) \ {h}
    BY <1>1, <1>2, <1>3, <1>4 DEF Referents
  <2>3. \A u \in Sems \ {s} : Referents(u)' = Referents(u)
    BY <1>1, <1>2, <1>3, <1>4 DEF Referents
  <2> QED
    BY <1>5, <1>7, <2>2, <2>3, ReferentRemoved
<1> QED
  BY <1>9, <1>10, <1>11, <1>12, <1>13

\* A wait is counted, and the thread keeps a handle for the object.
LEMMA StartWaitKeeps ==
  ASSUME IInv, NoFaults, NEW t \in Threads, NEW h \in Handles, StartWait(t, h)
  PROVE  IInv'
<1> USE DEF IInv, handleVars, semVars, lockVars
<1>1. PICK s \in Sems : s = lpvObjData[h] /\ ulOwner[h] = t /\ nRefCount[s] > 0
  BY DEF StartWait, Mine, HandlesInUse, TypeOK
<1>2. [NoCall EXCEPT !.s = s] \in Args /\ [NoCall EXCEPT !.s = s].s = s
  BY DEF Args, NoCall
<1>3. /\ pc'[t] = "wait" /\ arg'[t].s = s /\ pc[t] = "idle"
      /\ \A u \in Threads \ {t} : pc'[u] = pc[u] /\ arg'[u] = arg[u]
  <2>1. pc[t] = "idle" /\ Goto(t, "wait", [NoCall EXCEPT !.s = s])
    BY <1>1 DEF StartWait
  <2> QED
    BY <1>2, <2>1, GotoFrame
<1>4. nRefCount' = [nRefCount EXCEPT ![s] = nRefCount[s] + 1]
  BY <1>1 DEF StartWait
<1>5. UNCHANGED <<lpvObjData, ulOwner, listed, lpszName, csSemList, csHandleObjList>>
  BY DEF StartWait
<1>6. s \in listed
  BY <1>1 DEF ReferencesCounted
<1>7. \A u \in Threads : pc[u] \in {"count", "drop"} => arg[u].s # s
  BY <1>1 DEF StartWait, Settled, NoFaults
<1>8. TypeOK'
  <2>1. pc' \in [Threads -> PCs] /\ arg' \in [Threads -> Args]
    BY <1>1, <1>2 DEF TypeOK, PCs, Args, StartWait, Goto
  <2>2. nRefCount' \in [Sems -> Nat]
    BY <1>4 DEF TypeOK
  <2> QED
    BY <1>5, <2>1, <2>2 DEF TypeOK, Args
<1>9. Inside' /\ HandlesInUse' /\ DeadHaveNoHandles' /\ NamesAreUnique'
  BY <1>3, <1>5 DEF Inside, HandlesInUse, DeadHaveNoHandles, Mine, NamesAreUnique
<1>10. Known'
  <2>1. KnowsHandle(t, pc[t], arg[t])' /\ KnowsObject(pc[t], arg[t])'
    BY <1>1, <1>3, <1>5 DEF KnowsHandle, KnowsObject
  <2>2. ASSUME NEW u \in Threads \ {t} PROVE (KnowsHandle(u, pc[u], arg[u]) /\ KnowsObject(pc[u], arg[u]))'
    <3>1. pc[u] \in {"count", "drop"} => nRefCount'[arg[u].s] = nRefCount[arg[u].s]
      BY <1>4, <1>7 DEF TypeOK
    <3> QED
      BY <1>3, <1>5, <3>1 DEF Known, KnowsHandle, KnowsObject, Lookup
  <2> QED
    BY <2>1, <2>2 DEF Known
<1>11. ReferencesCounted'
  <2>1. Referents(s)' = Referents(s) \cup {t} /\ t \notin Referents(s)
    BY <1>3, <1>5 DEF Referents
  <2>2. \A u \in Sems \ {s} : Referents(u)' = Referents(u)
    BY <1>3, <1>5 DEF Referents
  <2>3. listed' = listed \cup {s}
    BY <1>5, <1>6
  <2> QED
    BY <1>4, <2>1, <2>2, <2>3, ReferentAdded
<1> QED
  BY <1>8, <1>9, <1>10, <1>11

\* The end of a wait is never the end of the object.
LEMMA EndWaitKeeps ==
  ASSUME IInv, NoFaults, NEW t \in Threads, EndWait(t)
  PROVE  IInv'
<1> USE DEF IInv, handleVars, semVars, lockVars
<1>1. PICK s \in Sems : s = arg[t].s
  BY DEF Known, KnowsObject, EndWait
<1>2. PICK h \in Handles : lpvObjData[h] = s
  BY <1>1 DEF Known, KnowsHandle, EndWait
<1>3. /\ pc'[t] = "idle" /\ arg'[t] = NoCall /\ pc[t] = "wait"
      /\ \A u \in Threads \ {t} : pc'[u] = pc[u] /\ arg'[u] = arg[u]
  BY GotoFrame DEF EndWait
<1>4. nRefCount' = [nRefCount EXCEPT ![s] = nRefCount[s] - 1]
  BY <1>1 DEF EndWait
<1>5. UNCHANGED <<lpvObjData, ulOwner, listed, lpszName, csSemList, csHandleObjList>>
  BY DEF EndWait
<1>6. \A u \in Threads : pc[u] \in {"count", "drop"} => arg[u].s # s
  BY <1>1 DEF EndWait, Settled, NoFaults
<1>7. nRefCount[s] \in Nat /\ nRefCount[s] # 0 /\ nRefCount[s] # 1 /\ nRefCount[s] - 1 \in Nat
  <2>1. t \in Referents(s) /\ h \in Referents(s) /\ t # h
    BY <1>1, <1>2, <1>3 DEF Referents
  <2>2. nRefCount[s] # 0
    BY <2>1, ReferentsFinite, FS_EmptySet DEF ReferencesCounted
  <2>3. nRefCount[s] # 1
    BY <2>1, OnlyReferent
  <2> QED
    BY <2>2, <2>3 DEF TypeOK
<1>8. TypeOK'
  <2>1. NoCall \in Args
    BY DEF NoCall, Args
  <2>2. pc' \in [Threads -> PCs] /\ arg' \in [Threads -> Args]
    BY <2>1 DEF TypeOK, PCs, Args, EndWait, Goto
  <2>3. nRefCount' \in [Sems -> Nat]
    BY <1>4, <1>7 DEF TypeOK
  <2> QED
    BY <1>5, <2>2, <2>3 DEF TypeOK, Args
<1>9. Inside' /\ HandlesInUse' /\ DeadHaveNoHandles' /\ NamesAreUnique'
  BY <1>3, <1>5 DEF Inside, HandlesInUse, DeadHaveNoHandles, Mine, NamesAreUnique
<1>10. Known'
  <2>1. KnowsHandle(t, pc[t], arg[t])' /\ KnowsObject(pc[t], arg[t])'
    BY <1>3 DEF KnowsHandle, KnowsObject
  <2>2. ASSUME NEW u \in Threads \ {t} PROVE (KnowsHandle(u, pc[u], arg[u]) /\ KnowsObject(pc[u], arg[u]))'
    <3>1. pc[u] \in {"count", "drop"} => nRefCount'[arg[u].s] = nRefCount[arg[u].s]
      BY <1>4, <1>6 DEF TypeOK
    <3> QED
      BY <1>3, <1>5, <3>1 DEF Known, KnowsHandle, KnowsObject, Lookup
  <2> QED
    BY <2>1, <2>2 DEF Known
<1>11. ReferencesCounted'
  <2>1. Referents(s)' = Referents(s) \ {t} /\ t \in Referents(s)
    BY <1>1, <1>3, <1>5 DEF Referents
  <2>2. \A u \in Sems \ {s} : Referents(u)' = Referents(u)
    BY <1>1, <1>3, <1>5 DEF Referents
  <2> QED
    BY <1>4, <1>5, <1>7, <2>1, <2>2, ReferentRemoved
<1> QED
  BY <1>8, <1>9, <1>10, <1>11

-----------------------------------------------------------------------------
(* The specification *)

LEMMA NextKeeps ==
  ASSUME IInv, NoFaults, [Next]_vars
  PROVE  IInv'
<1>1. CASE UNCHANGED vars
  <2> USE <1>1 DEF vars
  <2>1. TypeOK'
    BY DEF IInv, TypeOK
  <2>2. Inside' /\ HandlesInUse' /\ NamesAreUnique' /\ DeadHaveNoHandles'
    BY DEF IInv, Inside, HandlesInUse, NamesAreUnique, DeadHaveNoHandles, Mine
  <2>3. Known'
    BY DEF IInv, Known, KnowsHandle, KnowsObject, Lookup
  <2>4. ReferencesCounted'
    BY DEF IInv, ReferencesCounted, Referents
  <2> QED
    BY <2>1, <2>2, <2>3, <2>4 DEF IInv
<1>2. ASSUME NEW t \in Threads, Call(t) PROVE IInv'
  BY <1>2, CallKeeps, StartWaitKeeps DEF Call
<1>3. ASSUME NEW t \in Threads, Continue(t) PROVE IInv'
  BY <1>3, SemaphoreCreateKeeps, MakeSemaphoreKeeps, MakeFailsKeeps, CountFoundKeeps,
     HandleAllocKeeps, HandleAllocFailsKeeps, EnterCloseKeeps, CloseAllKeeps,
     CloseSemaphoreObjKeeps, DropReferenceKeeps, EndWaitKeeps DEF Continue
<1> QED
  BY <1>1, <1>2, <1>3 DEF Next

\* The invariant of the creation, the use and the end of wait objects.
THEOREM InvariantHolds == NoFaults /\ Spec => []IInv
<1> SUFFICES ASSUME NoFaults PROVE Spec => []IInv
  OBVIOUS
<1>1. Init => IInv
  BY InitIInv
<1>2. IInv /\ [Next]_vars => IInv'
  BY NextKeeps
<1> QED
  BY <1>1, <1>2, PTL DEF Spec

\* Every variable keeps its type; the counts of references do not go below zero.
THEOREM TypeCorrect == NoFaults /\ Spec => []TypeOK
<1>1. IInv => TypeOK
  BY DEF IInv
<1> QED
  BY <1>1, InvariantHolds, PTL

\* No handle and no waiting thread refers to an object that was freed.
THEOREM CountsAreRight == NoFaults /\ Spec => []ReferencesCounted
<1>1. IInv => ReferencesCounted
  BY DEF IInv
<1> QED
  BY <1>1, InvariantHolds, PTL

\* A name stands for one object.
THEOREM OneObjectPerName == NoFaults /\ Spec => []NamesAreUnique
<1>1. IInv => NamesAreUnique
  BY DEF IInv
<1> QED
  BY <1>1, InvariantHolds, PTL

\* A process that has exited has left no handle behind.
THEOREM ExitLeavesNoHandle == NoFaults /\ Spec => []DeadHaveNoHandles
<1>1. IInv => DeadHaveNoHandles
  BY DEF IInv
<1> QED
  BY <1>1, InvariantHolds, PTL
=============================================================================
