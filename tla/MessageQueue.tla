---------------------------- MODULE MessageQueue ----------------------------
(***************************************************************************)
(* The message queue of a thread of the windowing system (gwme/msgqueue.c, *)
(* with WinMsg_Get of message.c and the life of windows of win.c).         *)
(*                                                                         *)
(* A queue is a ring in an array that grows when it is full.  A message is *)
(* taken back by marking it INVALID_HANDLE_VALUE; marked messages and those*)
(* of windows that are gone are dropped by the next look at the queue.     *)
(* Everything done inside csThreadQueue is one step, and so is a wait for  *)
(* hWaitEvent, an event that resets itself.  Slots of the array that hold  *)
(* no message are Empty.                                                   *)
(***************************************************************************)
EXTENDS Integers, Sequences, SequencesExt, Subsequences

CONSTANTS Threads, Owner,  \* who puts messages, and whose queue it is
          Windows,         \* values of HWND, of windows of the owner
          Codes, WM_PAINT, \* messages, ordered, and one of them
          ChildOf,         \* the pairs <<c, w>> with c a child of w (Win_IsChild)
          Posted, Filters, \* what is put in and asked for, see Message and Filter
          NULL, INVALID_HANDLE_VALUE,
          InitSize, Grow,  \* 8 and 8
          MaxSize,         \* bound on the size of the array
          StaleHandles     \* whether a new window may have the HWND of an older one which
                           \* messages in the queue carry

ASSUME MessageQueueAssumption ==
  /\ Owner \in Threads
  /\ Codes \subseteq Nat \ {0}
  /\ WM_PAINT \in Codes
  /\ {NULL, INVALID_HANDLE_VALUE} \cap Windows = {}
  /\ NULL # INVALID_HANDLE_VALUE
  /\ {InitSize, Grow, MaxSize} \subseteq Nat \ {0}
  /\ InitSize <= MaxSize
  /\ StaleHandles \in BOOLEAN

Message == [hwnd : Windows \cup {NULL}, message : Codes]

\* hwnd NULL: of any window.  max 0: any message, and min is 0 too.
Filter == [hwnd : Windows \cup {NULL}, min : Codes \cup {0}, max : Codes \cup {0},
           fCheckChild : BOOLEAN]
NoFilter == [hwnd |-> NULL, min |-> 0, max |-> 0, fCheckChild |-> TRUE]

ASSUME CallsAssumption == Posted \subseteq Message /\ Filters \subseteq Filter

\* NULL stands for no message, too.
ASSUME NullAssumption == NULL \notin Message

VARIABLES
  msgQueue,    \* _MSGQUEUE: lpMsgData, size, count, nQueueHead, nQueueTail
  hWaitEvent,  \* whether it is signalled
  windows,     \* the HWNDs that Win_IsWindow knows
  pc,
  arg          \* the message or the filter of a call

vars == <<msgQueue, hWaitEvent, windows, pc, arg>>

Empty == [hwnd |-> NULL, message |-> 0]

-----------------------------------------------------------------------------
(* The ring *)

Wrap(q, i) == IF i < q.size THEN i ELSE i - q.size

\* The messages in the queue, the oldest first.
Contents(q) == [i \in 1 .. q.count |-> q.lpMsgData[Wrap(q, q.nQueueHead + i - 1)]]

\* Mutant: the part of the ring before the head stays where it was.
Enlarge_Flat(q) ==
  LET size == q.size + Grow
  IN [q EXCEPT
        !.size = size,
        !.lpMsgData = [j \in 0 .. size - 1 |-> IF j < q.size THEN q.lpMsgData[j] ELSE Empty],
        !.nQueueTail = q.size]

\* realloc, then the part before the head moves behind the rest.
Enlarge(q) ==
  LET size == q.size + Grow
  IN [q EXCEPT
        !.size = size,
        !.lpMsgData = [j \in 0 .. size - 1 |->
                         CASE j >= q.size /\ j - q.size < q.nQueueHead -> q.lpMsgData[j - q.size]
                           [] j >= q.size /\ j - q.size >= q.nQueueHead -> Empty
                           [] j < q.nQueueHead -> IF j + Grow < q.nQueueHead
                                                  THEN q.lpMsgData[j + Grow] ELSE Empty
                           [] j >= q.nQueueHead /\ j < q.size -> q.lpMsgData[j]],
        !.nQueueTail = (q.size + q.nQueueHead) % size]

InsertAtTail(q, m) ==
  [q EXCEPT
     !.lpMsgData[q.nQueueTail] = m,
     !.nQueueTail = Wrap(q, @ + 1),
     !.count = @ + 1]

_InsertQueue(q, m) == InsertAtTail(IF q.count < q.size THEN q ELSE Enlarge(q), m)

\* The oldest n messages are dropped.
Advance(q, n) ==
  LET dropped == {Wrap(q, q.nQueueHead + i) : i \in 0 .. n - 1}
  IN [q EXCEPT
        !.lpMsgData = [j \in DOMAIN @ |-> IF j \in dropped THEN Empty ELSE @[j]],
        !.nQueueHead = Wrap(q, @ + n),
        !.count = @ - n]

\* Mutant: the tail stays behind the messages that were dropped.
Refill_OldTail(q, s) ==
  LET offset(j) == IF j >= q.nQueueHead THEN j - q.nQueueHead ELSE j - q.nQueueHead + q.size
  IN [q EXCEPT
        !.lpMsgData = [j \in DOMAIN @ |-> IF offset(j) < Len(s) THEN s[offset(j) + 1] ELSE Empty],
        !.count = Len(s)]

\* The messages of s, the first of them at the head.
Refill(q, s) ==
  LET offset(j) == IF j >= q.nQueueHead THEN j - q.nQueueHead ELSE j - q.nQueueHead + q.size
  IN [q EXCEPT
        !.lpMsgData = [j \in DOMAIN @ |-> IF offset(j) < Len(s) THEN s[offset(j) + 1] ELSE Empty],
        !.count = Len(s),
        !.nQueueTail = Wrap(q, q.nQueueHead + Len(s))]

Mark(s, marked) ==
  [i \in DOMAIN s |-> IF i \in marked THEN [s[i] EXCEPT !.hwnd = INVALID_HANDLE_VALUE] ELSE s[i]]

Compact(s) == Subsequence(s, {i \in DOMAIN s : s[i].hwnd # INVALID_HANDLE_VALUE})

-----------------------------------------------------------------------------
(* Looking for a message *)

Live(m) == m.hwnd \in windows \cup {NULL}

Matches(m, f) ==
  /\ f.hwnd \in {NULL, m.hwnd} \/ (f.fCheckChild /\ <<m.hwnd, f.hwnd>> \in ChildOf)
  /\ f.max = 0 \/ m.message \in f.min .. f.max

LiveIndices(s) == {i \in DOMAIN s : Live(s[i])}

Hits(s, f) == {i \in LiveIndices(s) : Matches(s[i], f)}

\* Where the search ends: at the first hit, or behind the last message.
Reach(s, f) == Min(Hits(s, f) \cup {Len(s) + 1})

\* _CheckThreadQueue without a filter drops what it passes, from the head.
CheckAll(q, taken) ==
  LET s == Contents(q)
      n == Reach(s, NoFilter)
  IN Advance(q, IF taken THEN n ELSE n - 1)

\* With one it marks what it takes and what is not live, and drops what is marked, if it
\* has marked anything.
CheckSome(q, f, taken) ==
  LET s == Contents(q)
      n == Reach(s, f)
      marked == {i \in 1 .. n - 1 : ~Live(s[i])} \cup (IF taken THEN {n} ELSE {})
  IN IF marked = {} THEN q ELSE Refill(q, Compact(Mark(s, marked)))

Taken(q, f, fRemove) ==
  LET s == Contents(q)
  IN fRemove /\ Hits(s, f) # {} /\ s[Reach(s, f)].message # WM_PAINT

_CheckThreadQueue(q, f, fRemove) ==
  IF f = NoFilter THEN CheckAll(q, Taken(q, f, fRemove))
                  ELSE CheckSome(q, f, Taken(q, f, fRemove))

Pending(f) == Hits(Contents(msgQueue), f) # {}

-----------------------------------------------------------------------------
(* Putting a message in *)

Init ==
  /\ msgQueue = [lpMsgData |-> [j \in 0 .. InitSize - 1 |-> Empty], size |-> InitSize,
                 count |-> 0, nQueueHead |-> 0, nQueueTail |-> 0]
  /\ hWaitEvent = FALSE
  /\ windows = {}
  /\ pc = [t \in Threads |-> "idle"]
  /\ arg = [t \in Threads |-> Empty]

Goto(t, l, a) == pc' = [pc EXCEPT ![t] = l] /\ arg' = [arg EXCEPT ![t] = a]

\* WinMsg_Post, and AddMsgToThreadQueue, which finds the thread of the window;
\* _WinSys_PostThreadMessage, for a message of no window.
Post(t, m) ==
  /\ pc[t] = "idle"
  /\ m.message # WM_PAINT
  /\ Live(m)
  /\ Goto(t, "insert", m)
  /\ UNCHANGED <<msgQueue, hWaitEvent, windows>>

\* ATQ_ONLYONE
PostOnlyOne(t, m) ==
  /\ pc[t] = "idle"
  /\ m.hwnd \in windows
  /\ Goto(t, "check", m)
  /\ UNCHANGED <<msgQueue, hWaitEvent, windows>>

\* If there is one already, nothing is put in and nobody is woken.
CheckOnlyOne(t) ==
  LET m == arg[t]
      f == [hwnd |-> m.hwnd, min |-> m.message, max |-> m.message, fCheckChild |-> FALSE]
  IN /\ pc[t] = "check"
     /\ msgQueue' = _CheckThreadQueue(msgQueue, f, FALSE)
     /\ IF Pending(f) THEN Goto(t, "idle", Empty) ELSE Goto(t, "insert", m)
     /\ UNCHANGED <<hWaitEvent, windows>>

\* Mutant: only the first message wakes the owner.
Insert_FirstWakes(t) ==
  /\ pc[t] = "insert"
  /\ msgQueue' = IF msgQueue.count < msgQueue.size \/ msgQueue.size + Grow <= MaxSize
                 THEN _InsertQueue(msgQueue, arg[t])
                 ELSE msgQueue
  /\ Goto(t, IF msgQueue.count = 0 THEN "signal" ELSE "idle", Empty)
  /\ UNCHANGED <<hWaitEvent, windows>>

\* Without memory for a larger array the message is lost; the rest goes on as if it were in.
Insert(t) ==
  /\ pc[t] = "insert"
  /\ msgQueue' = IF msgQueue.count < msgQueue.size \/ msgQueue.size + Grow <= MaxSize
                 THEN _InsertQueue(msgQueue, arg[t])
                 ELSE msgQueue
  /\ Goto(t, "signal", Empty)
  /\ UNCHANGED <<hWaitEvent, windows>>

Signal(t) ==
  /\ pc[t] = "signal"
  /\ hWaitEvent' = TRUE
  /\ Goto(t, "idle", Empty)
  /\ UNCHANGED <<msgQueue, windows>>

\* ClearThreadQueue marks the messages of a window, or of all, that are in a range.
ClearThreadQueue(t, f) ==
  /\ pc[t] = "idle"
  /\ ~f.fCheckChild
  /\ LET s == Contents(msgQueue)
     IN msgQueue' = Refill(msgQueue, Mark(s, {i \in DOMAIN s : Matches(s[i], f)}))
  /\ UNCHANGED <<hWaitEvent, windows, pc, arg>>

-----------------------------------------------------------------------------
(* The owner *)

\* CheckThreadQueue, which gives a copy of the message back when there is one.
Look(f, fRemove, otherwise) ==
  /\ msgQueue' = _CheckThreadQueue(msgQueue, f, fRemove)
  /\ LET s == Contents(msgQueue)
     IN IF Pending(f) THEN Goto(Owner, "dispatch", s[Reach(s, f)])
                      ELSE Goto(Owner, otherwise, IF otherwise = "wait" THEN f ELSE Empty)
  /\ UNCHANGED <<hWaitEvent, windows>>

PeekMessage(f, fRemove) ==
  /\ pc[Owner] = "idle"
  /\ f.fCheckChild
  /\ Look(f, fRemove, "idle")

GetMessage(f) ==
  /\ pc[Owner] = "idle"
  /\ f.fCheckChild
  /\ Goto(Owner, "peek", f)
  /\ UNCHANGED <<msgQueue, hWaitEvent, windows>>

Peek == pc[Owner] = "peek" /\ Look(arg[Owner], TRUE, "wait")

\* The owner has the message.  What its window procedure does is what it does when idle.
Dispatch ==
  /\ pc[Owner] = "dispatch"
  /\ Goto(Owner, "idle", Empty)
  /\ UNCHANGED <<msgQueue, hWaitEvent, windows>>

WaitMessage ==
  /\ pc[Owner] = "wait"
  /\ hWaitEvent
  /\ hWaitEvent' = FALSE
  /\ Goto(Owner, "peek", arg[Owner])
  /\ UNCHANGED <<msgQueue, windows>>

Queued(w) == \E i \in DOMAIN Contents(msgQueue) : Contents(msgQueue)[i].hwnd = w

\* A HWND is the address of the window's block and two random bits.
CreateWindow(w) ==
  /\ pc[Owner] = "idle"
  /\ w \notin windows
  /\ \A p \in Windows : <<w, p>> \in ChildOf => p \in windows
  /\ Queued(w) => StaleHandles
  /\ windows' = windows \cup {w}
  /\ UNCHANGED <<msgQueue, hWaitEvent, pc, arg>>

\* Its messages stay in the queue.
DestroyWindow(w) ==
  /\ pc[Owner] = "idle"
  /\ w \in windows
  /\ windows' = windows \ ({w} \cup {c \in Windows : <<c, w>> \in ChildOf})
  /\ UNCHANGED <<msgQueue, hWaitEvent, pc, arg>>

Next ==
  \/ \E t \in Threads :
       \/ \E m \in Posted : Post(t, m) \/ PostOnlyOne(t, m)
       \/ CheckOnlyOne(t) \/ Insert(t) \/ Signal(t)
       \/ \E f \in Filters : ClearThreadQueue(t, f)
  \/ \E f \in Filters : GetMessage(f) \/ \E fRemove \in BOOLEAN : PeekMessage(f, fRemove)
  \/ Peek \/ Dispatch \/ WaitMessage
  \/ \E w \in Windows : CreateWindow(w) \/ DestroyWindow(w)

Spec == Init /\ [][Next]_vars

-----------------------------------------------------------------------------

\* The ring is well formed: the tail is count slots after the head (_InsertQueue,
\* _CheckThreadQueue).
TypeOK ==
  /\ msgQueue.size \in 1 .. MaxSize
  /\ msgQueue.count \in 0 .. msgQueue.size
  /\ msgQueue.nQueueHead \in 0 .. msgQueue.size - 1
  /\ msgQueue.nQueueTail = Wrap(msgQueue, msgQueue.nQueueHead + msgQueue.count)
  /\ msgQueue.lpMsgData \in
       [0 .. msgQueue.size - 1 ->
          [hwnd : Windows \cup {NULL, INVALID_HANDLE_VALUE}, message : Codes \cup {0}]]
  /\ hWaitEvent \in BOOLEAN
  /\ windows \subseteq Windows
  /\ pc \in [Threads -> {"idle", "check", "insert", "signal", "peek", "wait", "dispatch"}]
  /\ arg \in [Threads -> Message \cup Filter \cup {Empty}]

\* The owner does not sleep while a message it waits for is in the queue, unless the event
\* is about to be set (_InsertThreadQueue puts the message in and then sets hWaitEvent;
\* WinMsg_Get looks again after every wait).
NoSleepWithMessage ==
  /\ pc[Owner] = "wait"
  /\ ~hWaitEvent
  /\ Pending(arg[Owner])
  => \E t \in Threads : pc[t] = "signal"

Fifo == INSTANCE MsgFifo WITH
  queue <- Subsequence(Contents(msgQueue), LiveIndices(Contents(msgQueue))),
  last <- IF pc[Owner] = "dispatch" THEN arg[Owner] ELSE NULL

\* The ring is a queue: growing, dropping marked messages and taking one out of the middle
\* neither lose nor reorder a message of a window that exists (_InsertQueue,
\* _CheckThreadQueue, ClearThreadQueue).
ImplementsFifo == Fifo!Spec
=============================================================================
