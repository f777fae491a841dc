------------------------------ MODULE Handles -------------------------------
(***************************************************************************)
(* Handles and the life of the objects behind them (hmgr.c; creation,      *)
(* close and reference counts of semaphor.c): semaphores, mutexes and      *)
(* events, with or without a name.                                         *)
(*                                                                         *)
(* A process is one thread, and a handle is used by its process only.      *)
(* Then iRefCount of a handle is 1: KL_OpenProcess alone raises it, and    *)
(* the handles of processes are not modelled.  The two critical sections   *)
(* are locks, which is what module CriticalSection shows them to be.  What *)
(* runs inside both is one step.  Counting a reference under csSemList is  *)
(* a read and a write, because interrupts are on there; a wait counts with *)
(* interrupts off.  Freed memory, of a handle or of an object, is used     *)
(* again for the next one.                                                 *)
(***************************************************************************)
EXTENDS Integers, FiniteSets

CONSTANTS Threads, Handles, Sems, Names, NULL,
          Faults  \* "count": a wait may fall between the read and the write of a count;
                  \* "nomem": the handle of an object found by its name may not be allocated

ASSUME HandlesAssumption ==
  /\ IsFiniteSet(Threads)
  /\ IsFiniteSet(Handles)
  /\ Threads \cap Handles = {}
  /\ NULL \notin Threads \cup Handles \cup Sems \cup Names
  /\ Faults \subseteq {"count", "nomem"}

VARIABLES
  lpvObjData, ulOwner,  \* of a HANDLEDATA: its object and its process, NULL when it is free
  listed,               \* the SEMAPHORE structures on lpSemList
  lpszName, nRefCount,
  csSemList, csHandleObjList,  \* who is inside, or NULL
  pc,
  arg                   \* the arguments and locals of a call

vars == <<lpvObjData, ulOwner, listed, lpszName, nRefCount, csSemList, csHandleObjList, pc, arg>>

handleVars == <<lpvObjData, ulOwner>>
semVars == <<listed, lpszName, nRefCount>>
lockVars == <<csSemList, csHandleObjList>>

\* h, s: the handle and the object of the call.  name: of the object to create.
\* count: nRefCount as it was read.  next: where the thread goes on when h is closed.
NoCall == [h |-> NULL, s |-> NULL, name |-> NULL, count |-> 0, next |-> "idle"]

Init ==
  /\ lpvObjData = [h \in Handles |-> NULL]
  /\ ulOwner = [h \in Handles |-> NULL]
  /\ listed = {}
  /\ lpszName = [s \in Sems |-> NULL]
  /\ nRefCount = [s \in Sems |-> 0]
  /\ csSemList = NULL
  /\ csHandleObjList = NULL
  /\ pc = [t \in Threads |-> "idle"]
  /\ arg = [t \in Threads |-> NoCall]

Goto(t, l, a) == pc' = [pc EXCEPT ![t] = l] /\ arg' = [arg EXCEPT ![t] = a]

Mine(t) == {h \in Handles : ulOwner[h] = t}

\* No thread has read the count of s and is about to write it.
Settled(s) ==
  \/ "count" \in Faults
  \/ \A t \in Threads : pc[t] \in {"count", "drop"} => arg[t].s # s

-----------------------------------------------------------------------------
(* _CreateHandleObj *)

Create(t, n) ==
  /\ pc[t] = "idle"
  /\ Goto(t, "create", [NoCall EXCEPT !.name = n])
  /\ UNCHANGED <<handleVars, semVars, lockVars>>

Lookup(n) == {s \in listed : n # NULL /\ lpszName[s] = n}

\* Mutant: the list is searched outside csSemList.
SemaphoreCreate_Outside(t) ==
  /\ pc[t] = "create"
  /\ csSemList' = IF csSemList = NULL THEN t ELSE csSemList
  /\ \/ \E s \in Lookup(arg[t].name) :
          Goto(t, "count", [arg[t] EXCEPT !.s = s, !.count = nRefCount[s]])
     \/ Lookup(arg[t].name) = {} /\ Goto(t, "make", arg[t])
  /\ UNCHANGED <<handleVars, semVars, csHandleObjList>>

\* _SemaphoreCreate enters csSemList and looks for an object of the name.
SemaphoreCreate(t) ==
  /\ pc[t] = "create"
  /\ csSemList = NULL
  /\ csSemList' = t
  /\ \/ \E s \in Lookup(arg[t].name) :
          Goto(t, "count", [arg[t] EXCEPT !.s = s, !.count = nRefCount[s]])
     \/ Lookup(arg[t].name) = {} /\ Goto(t, "make", arg[t])
  /\ UNCHANGED <<handleVars, semVars, csHandleObjList>>

\* There is none: it makes one.
MakeSemaphore(t) ==
  /\ pc[t] = "make"
  /\ \E s \in Sems \ listed :
       /\ listed' = listed \cup {s}
       /\ lpszName' = [lpszName EXCEPT ![s] = arg[t].name]
       /\ nRefCount' = [nRefCount EXCEPT ![s] = 1]
       /\ Goto(t, "alloc", [arg[t] EXCEPT !.s = s])
  /\ UNCHANGED <<handleVars, lockVars>>

\* There is no memory for it.
MakeFails(t) ==
  /\ pc[t] = "make"
  /\ csSemList' = NULL
  /\ Goto(t, "idle", NoCall)
  /\ UNCHANGED <<handleVars, semVars, csHandleObjList>>

CountFound(t) ==
  /\ pc[t] = "count"
  /\ nRefCount' = [nRefCount EXCEPT ![arg[t].s] = arg[t].count + 1]
  /\ Goto(t, "alloc", arg[t])
  /\ UNCHANGED <<handleVars, listed, lpszName, lockVars>>

\* Handle_Alloc, which enters csHandleObjList inside csSemList.
HandleAlloc(t) ==
  /\ pc[t] = "alloc"
  /\ csHandleObjList = NULL
  /\ \E h \in Handles :
       /\ ulOwner[h] = NULL
       /\ lpvObjData' = [lpvObjData EXCEPT ![h] = arg[t].s]
       /\ ulOwner' = [ulOwner EXCEPT ![h] = t]
  /\ csSemList' = NULL
  /\ Goto(t, "idle", NoCall)
  /\ UNCHANGED <<semVars, csHandleObjList>>

Delete(s) ==
  /\ listed' = listed \ {s}
  /\ lpszName' = [lpszName EXCEPT ![s] = NULL]
  /\ nRefCount' = [nRefCount EXCEPT ![s] = 0]

\* Handle_Alloc finds no memory: the object goes, whoever else refers to it.
HandleAllocFails(t) ==
  /\ pc[t] = "alloc"
  /\ "nomem" \in Faults \/ nRefCount[arg[t].s] = 1
  /\ Delete(arg[t].s)
  /\ csSemList' = NULL
  /\ Goto(t, "idle", NoCall)
  /\ UNCHANGED <<handleVars, csHandleObjList>>

-----------------------------------------------------------------------------
(* KL_CloseHandle, Handle_CloseAll *)

CloseHandle(t, h) ==
  /\ pc[t] = "idle"
  /\ h \in Mine(t)
  /\ Goto(t, "close", [NoCall EXCEPT !.h = h])
  /\ UNCHANGED <<handleVars, semVars, lockVars>>

\* _DoThreadExit of the main thread of a process.
ExitThread(t) ==
  /\ pc[t] = "idle"
  /\ Goto(t, "closeAll", [NoCall EXCEPT !.next = "closeAll"])
  /\ UNCHANGED <<handleVars, semVars, lockVars>>

EnterClose(t) ==
  /\ pc[t] = "close"
  /\ csHandleObjList = NULL
  /\ csHandleObjList' = t
  /\ Goto(t, "delete", arg[t])
  /\ UNCHANGED <<handleVars, semVars, csSemList>>

\* Mutant: one handle is closed, not all.
CloseAll_One(t) ==
  /\ pc[t] = "closeAll"
  /\ csHandleObjList \in {NULL, t}
  /\ \/ /\ Mine(t) = {} \/ csHandleObjList = t
        /\ csHandleObjList' = NULL
        /\ Goto(t, "dead", NoCall)
     \/ /\ csHandleObjList = NULL
        /\ csHandleObjList' = t
        /\ \E h \in Mine(t) : Goto(t, "delete", [arg[t] EXCEPT !.h = h])
  /\ UNCHANGED <<handleVars, semVars, csSemList>>

\* Handle_CloseAll and the loop of ObjList_Delete.
CloseAll(t) ==
  /\ pc[t] = "closeAll"
  /\ csHandleObjList \in {NULL, t}
  /\ \/ /\ Mine(t) = {}
        /\ csHandleObjList' = NULL
        /\ Goto(t, "dead", NoCall)
     \/ /\ csHandleObjList' = t
        /\ \E h \in Mine(t) : Goto(t, "delete", [arg[t] EXCEPT !.h = h])
  /\ UNCHANGED <<handleVars, semVars, csSemList>>

\* _CloseSemaphoreObj, called by _DeleteHandleObject, enters csSemList inside
\* csHandleObjList, and reads the count.
CloseSemaphoreObj(t) ==
  LET s == lpvObjData[arg[t].h]
  IN  /\ pc[t] = "delete"
      /\ csSemList = NULL
      /\ csSemList' = t
      /\ Goto(t, "drop", [arg[t] EXCEPT !.s = s, !.count = nRefCount[s]])
      /\ UNCHANGED <<handleVars, semVars, csHandleObjList>>

FreeHandle(h) ==
  /\ lpvObjData' = [lpvObjData EXCEPT ![h] = NULL]
  /\ ulOwner' = [ulOwner EXCEPT ![h] = NULL]

\* It deletes the object, or writes the count, and leaves; then Handle_Free.
DropReference(t) ==
  /\ pc[t] = "drop"
  /\ \/ arg[t].count = 1 /\ Delete(arg[t].s)
     \/ /\ arg[t].count # 1
        /\ nRefCount' = [nRefCount EXCEPT ![arg[t].s] = arg[t].count - 1]
        /\ UNCHANGED <<listed, lpszName>>
  /\ FreeHandle(arg[t].h)
  /\ csSemList' = NULL
  /\ csHandleObjList' = IF arg[t].next = "idle" THEN NULL ELSE csHandleObjList
  /\ Goto(t, arg[t].next, [NoCall EXCEPT !.next = arg[t].next])

-----------------------------------------------------------------------------
(* KL_WaitForSingleObject *)

\* Mutant: the wait is not counted.
StartWait_NotCounted(t, h) ==
  LET s == lpvObjData[h]
  IN  /\ pc[t] = "idle"
      /\ h \in Mine(t)
      /\ Settled(s)
      /\ nRefCount[s] > 0
      /\ Goto(t, "wait", [NoCall EXCEPT !.s = s])
      /\ UNCHANGED <<handleVars, semVars, lockVars>>

\* GetSemaphoreAndLock.
StartWait(t, h) ==
  LET s == lpvObjData[h]
  IN  /\ pc[t] = "idle"
      /\ h \in Mine(t)
      /\ Settled(s)
      /\ nRefCount[s] > 0
      /\ nRefCount' = [nRefCount EXCEPT ![s] = @ + 1]
      /\ Goto(t, "wait", [NoCall EXCEPT !.s = s])
      /\ UNCHANGED <<handleVars, listed, lpszName, lockVars>>

\* ReleaseSemaphoreAndUnlock; the thread has a handle, so this is not the last reference.
EndWait(t) ==
  /\ pc[t] = "wait"
  /\ Settled(arg[t].s)
  /\ nRefCount' = [nRefCount EXCEPT ![arg[t].s] = @ - 1]
  /\ Goto(t, "idle", NoCall)
  /\ UNCHANGED <<handleVars, listed, lpszName, lockVars>>

-----------------------------------------------------------------------------
Call(t) ==
  \/ \E n \in Names \cup {NULL} : Create(t, n)
  \/ \E h \in Handles : CloseHandle(t, h) \/ StartWait(t, h)
  \/ ExitThread(t)

Continue(t) ==
  \/ SemaphoreCreate(t) \/ MakeSemaphore(t) \/ MakeFails(t) \/ CountFound(t)
  \/ HandleAlloc(t) \/ HandleAllocFails(t)
  \/ EnterClose(t) \/ CloseAll(t) \/ CloseSemaphoreObj(t) \/ DropReference(t)
  \/ EndWait(t)

Next == \E t \in Threads : Call(t) \/ Continue(t)

Spec == Init /\ [][Next]_vars

-----------------------------------------------------------------------------
(* Properties *)

PCs == {"idle", "create", "make", "count", "alloc", "close", "closeAll", "delete", "drop",
        "wait", "dead"}

TypeOK ==
  /\ lpvObjData \in [Handles -> Sems \cup {NULL}]
  /\ ulOwner \in [Handles -> Threads \cup {NULL}]
  /\ listed \subseteq Sems
  /\ lpszName \in [Sems -> Names \cup {NULL}]
  /\ nRefCount \in [Sems -> Nat]
  /\ csSemList \in Threads \cup {NULL}
  /\ csHandleObjList \in Threads \cup {NULL}
  /\ pc \in [Threads -> PCs]
  /\ arg \in [Threads -> [h : Handles \cup {NULL}, s : Sems \cup {NULL},
                          name : Names \cup {NULL}, count : Nat, next : {"idle", "closeAll"}]]

\* Who refers to s: its handles, the threads that wait for it, and the thread that is
\* about to get a handle for it.
Referents(s) ==
  {h \in Handles : lpvObjData[h] = s}
  \cup {t \in Threads : pc[t] \in {"wait", "alloc"} /\ arg[t].s = s}

\* No handle and no thread refers to an object that has been freed, even if the memory
\* was used again: an object has as many references as are counted, and is in the list
\* exactly while it has one (nRefCount, semaphor.c).
ReferencesCounted ==
  \A s \in Sems : /\ nRefCount[s] = Cardinality(Referents(s))
                  /\ s \in listed <=> nRefCount[s] > 0

\* A name stands for one object, whoever opened it (the search of _SemaphoreCreate).
NamesAreUnique ==
  \A s, u \in listed : lpszName[s] = lpszName[u] /\ lpszName[s] # NULL => s = u

\* A process that has exited has left no handle behind (Handle_CloseAll).
DeadHaveNoHandles == \A t \in Threads : pc[t] = "dead" => Mine(t) = {}
=============================================================================
