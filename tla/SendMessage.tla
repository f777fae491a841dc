---------------------------- MODULE SendMessage -----------------------------
(***************************************************************************)
(* Sending messages between the threads of the windowing system            *)
(* (gwme/message.c: _CallThreadWindowProc, WinMsg_Peek, WinMsg_Get, with   *)
(* the queues of msgqueue.c).                                              *)
(*                                                                         *)
(* Each thread has one window, a message loop, and a stack of calls: its   *)
(* window procedure may send, the wait for the answer handles what others  *)
(* send meanwhile, and so on.  A queue is what module MsgFifo says, and    *)
(* hWaitEvent an event that resets itself.  A THREADMSG holds a sent       *)
(* message until its sender has the answer.  What a window procedure       *)
(* returns tells what it was called with.                                  *)
(*                                                                         *)
(* Not modelled: other filters than none, PM_NOREMOVE, broadcasts, memory  *)
(* that runs out.  A call with a time-out that is over after it was woken  *)
(* is one that waits again and times out at once.                          *)
(***************************************************************************)
EXTENDS Integers, Sequences, SequencesExt

CONSTANTS Threads, Blocks, NULL,
          Flags,       \* fuFlags of the calls: "NORMAL", "BLOCK" (SMTO_)
          MaxSends,    \* bound on the messages sent and posted
          ReuseBlocks  \* TRUE: a block may be used again, for the same receiver, while
                       \* a message still refers to it

ASSUME SendMessageAssumption ==
  /\ Blocks \subseteq Nat
  /\ NULL \notin Threads \cup Blocks
  /\ Flags \subseteq {"NORMAL", "BLOCK"}
  /\ MaxSends \in Nat
  /\ ReuseBlocks \in BOOLEAN

VARIABLES
  queue,       \* of each thread: a THREADMSG for each message sent, NULL for one posted
  hWaitEvent,
  windows,     \* the threads whose window exists
  lptm,        \* the THREADMSGs
  allocated,   \* those in use
  stack,       \* the calls each thread is in, the innermost first
  sent         \* how many messages were sent or posted

vars == <<queue, hWaitEvent, windows, lptm, allocated, stack, sent>>

\* A message is told by its number.
Messages == 1 .. MaxSends
THREADMSG == [msg : Messages \cup {NULL}, lResult : Messages \cup {NULL},
              dwThreadIDOfSender : Threads \cup {NULL}, uFlag : 0 .. 2]
Unused == [msg |-> NULL, lResult |-> NULL, dwThreadIDOfSender |-> NULL, uFlag |-> 0]

\* A call.  b: the THREADMSG that it sends, or answers.  to: whom it sends to.  msg: what it
\* sends, or handles.  timed: there is a time-out.
Frame == [pc : {"peek", "wait", "proc", "result", "signal",
                "insert", "wake", "test", "woken", "drain", "dispatched", "handled", "failed"},
          b : Blocks \cup {NULL}, to : Threads \cup {NULL}, msg : Messages \cup {NULL},
          timed : BOOLEAN, flags : Flags \cup {NULL}]

Loop == [pc |-> "peek", b |-> NULL, to |-> NULL, msg |-> NULL, timed |-> FALSE, flags |-> NULL]

Init ==
  /\ queue = [t \in Threads |-> <<>>]
  /\ hWaitEvent = [t \in Threads |-> FALSE]
  /\ windows = Threads
  /\ lptm = [b \in Blocks |-> Unused]
  /\ allocated = {}
  /\ stack = [t \in Threads |-> <<Loop>>]
  /\ sent = 0

Top(t) == Head(stack[t])

InLoop(t) == Len(stack[t]) = 1

\* The innermost call goes on at l.
Goto(t, l) == stack' = [stack EXCEPT ![t] = <<[Head(@) EXCEPT !.pc = l]>> \o Tail(@)]

\* It goes on at l when the new call f has returned.
Call(t, l, f) == stack' = [stack EXCEPT ![t] = <<f, [Head(@) EXCEPT !.pc = l]>> \o Tail(@)]

Return(t) == stack' = [stack EXCEPT ![t] = Tail(@)]

-----------------------------------------------------------------------------
(* A thread's own code: its window procedure, and what it does between two messages *)

MaySend(t, w) ==
  /\ Top(t).pc = "proc" \/ (InLoop(t) /\ Top(t).pc = "peek")
  /\ w \in windows \ {t}
  /\ sent < MaxSends
  /\ sent' = sent + 1

\* A message in a queue or a call of a receiver still refers to b.
Named(b) ==
  \E t \in Threads :
    \/ \E i \in DOMAIN queue[t] : queue[t][i] = b
    \/ \E i \in DOMAIN stack[t] : stack[t][i].b = b

\* BlockHeap_Alloc.  Which of the free blocks it takes does not matter otherwise.
MayUse(b, w) ==
  /\ b \notin allocated
  /\ Named(b) => /\ ReuseBlocks
                 /\ \A t \in Threads \ {w} :
                      /\ \A i \in DOMAIN queue[t] : queue[t][i] # b
                      /\ \A i \in DOMAIN stack[t] : stack[t][i].b # b

\* WinMsg_SendTimeout, and WinMsg_Send, which has no time-out, to another thread.
Send(t, w, timed, flags) ==
  /\ MaySend(t, w)
  /\ timed \/ flags = "NORMAL"
  /\ \E b \in Blocks :
       /\ MayUse(b, w)
       /\ \A other \in Blocks : MayUse(other, w) => b <= other
       /\ allocated' = allocated \cup {b}
       /\ lptm' = [lptm EXCEPT ![b] = [msg |-> sent', lResult |-> NULL,
                                       dwThreadIDOfSender |-> t, uFlag |-> 1]]
       /\ Call(t, Top(t).pc, [pc |-> "insert", b |-> b, to |-> w, msg |-> sent',
                              timed |-> timed, flags |-> flags])
  /\ UNCHANGED <<queue, hWaitEvent, windows>>

\* WinMsg_Post
Post(t, w) ==
  /\ MaySend(t, w)
  /\ Call(t, Top(t).pc, [Loop EXCEPT !.pc = "insert", !.to = w])
  /\ UNCHANGED <<queue, hWaitEvent, windows, lptm, allocated>>

\* AddMsgToThreadQueue: nobody is told when the window is gone.
Insert(t) ==
  LET f == Top(t)
  IN /\ f.pc = "insert"
     /\ IF f.to \in windows
        THEN queue' = [queue EXCEPT ![f.to] = Append(@, f.b)] /\ Goto(t, "wake")
        ELSE queue' = queue /\ IF f.b = NULL THEN Return(t) ELSE Goto(t, "test")
     /\ UNCHANGED <<hWaitEvent, windows, lptm, allocated, sent>>

Wake(t) ==
  LET f == Top(t)
  IN /\ f.pc = "wake"
     /\ hWaitEvent' = [hWaitEvent EXCEPT ![f.to] = TRUE]
     /\ IF f.b = NULL THEN Return(t) ELSE Goto(t, "test")
     /\ UNCHANGED <<queue, windows, lptm, allocated, sent>>

DestroyWindow(t) ==
  /\ Top(t).pc = "proc"
  /\ t \in windows
  /\ windows' = windows \ {t}
  /\ UNCHANGED <<queue, hWaitEvent, lptm, allocated, stack, sent>>

-----------------------------------------------------------------------------
(* _CallThreadWindowProc waits for the answer *)

Test(t) ==
  /\ Top(t).pc = "test"
  /\ Goto(t, IF lptm[Top(t).b].uFlag = 2 THEN "handled" ELSE "wait")
  /\ UNCHANGED <<queue, hWaitEvent, windows, lptm, allocated, sent>>

\* _WinSys_WaitMessage, here and in WinMsg_Get
WaitMessage(t) ==
  /\ Top(t).pc = "wait"
  /\ hWaitEvent[t]
  /\ hWaitEvent' = [hWaitEvent EXCEPT ![t] = FALSE]
  /\ Goto(t, IF InLoop(t) THEN "peek" ELSE "woken")
  /\ UNCHANGED <<queue, windows, lptm, allocated, sent>>

Timeout(t) ==
  /\ Top(t).pc = "wait"
  /\ Top(t).timed
  /\ Goto(t, "failed")
  /\ UNCHANGED <<queue, hWaitEvent, windows, lptm, allocated, sent>>

\* Mutant: a sender that waits handles nothing that others send.
Woken_Deaf(t) ==
  LET f == Top(t)
  IN /\ f.pc = "woken"
     /\ Goto(t, IF f.to \notin windows THEN "failed"
                ELSE IF lptm[f.b].uFlag = 2 THEN "handled" ELSE "test")
     /\ UNCHANGED <<queue, hWaitEvent, windows, lptm, allocated, sent>>

Woken(t) ==
  LET f == Top(t)
  IN /\ f.pc = "woken"
     /\ Goto(t, IF f.to \notin windows THEN "failed"
                ELSE IF lptm[f.b].uFlag = 2 THEN "handled"
                ELSE IF f.flags = "NORMAL" THEN "drain" ELSE "test")
     /\ UNCHANGED <<queue, hWaitEvent, windows, lptm, allocated, sent>>

\* Mutant: a send that fails keeps its block.
Finish_Leaks(t) ==
  /\ Top(t).pc \in {"handled", "failed"}
  /\ allocated' = IF Top(t).pc = "failed" THEN allocated ELSE allocated \ {Top(t).b}
  /\ lptm' = [lptm EXCEPT ![Top(t).b].msg = NULL, ![Top(t).b].lResult = NULL, ![Top(t).b].uFlag = 0]
  /\ Return(t)
  /\ UNCHANGED <<queue, hWaitEvent, windows, sent>>

\* The first word of a free block is a link of the heap, and no window any more.
Finish(t) ==
  /\ Top(t).pc \in {"handled", "failed"}
  /\ allocated' = allocated \ {Top(t).b}
  /\ lptm' = [lptm EXCEPT ![Top(t).b].msg = NULL, ![Top(t).b].lResult = NULL, ![Top(t).b].uFlag = 0]
  /\ Return(t)
  /\ UNCHANGED <<queue, hWaitEvent, windows, sent>>

-----------------------------------------------------------------------------
(* WinMsg_Peek, of the message loop and of a sender that waits *)

Peeks(t) == (InLoop(t) /\ Top(t).pc = "peek") \/ Top(t).pc = "drain"

\* Nothing, or only messages of a window that is gone.
PeekNone(t) ==
  /\ Peeks(t)
  /\ queue[t] = <<>> \/ t \notin windows
  /\ queue' = [queue EXCEPT ![t] = <<>>]
  /\ Goto(t, IF InLoop(t) THEN "wait" ELSE "test")
  /\ UNCHANGED <<hWaitEvent, windows, lptm, allocated, sent>>

\* A posted message goes to its caller, which dispatches it; a sender that waits then looks
\* whether it has its answer.
PeekPosted(t) ==
  /\ Peeks(t)
  /\ t \in windows
  /\ queue[t] # <<>>
  /\ Head(queue[t]) = NULL
  /\ queue' = [queue EXCEPT ![t] = Tail(@)]
  /\ Call(t, IF InLoop(t) THEN "peek" ELSE "dispatched", [Loop EXCEPT !.pc = "proc"])
  /\ UNCHANGED <<hWaitEvent, windows, lptm, allocated, sent>>

Dispatched(t) ==
  /\ Top(t).pc = "dispatched"
  /\ Goto(t, IF lptm[Top(t).b].uFlag = 2 THEN "test" ELSE "drain")
  /\ UNCHANGED <<queue, hWaitEvent, windows, lptm, allocated, sent>>

\* Mutant: the message counts as handled when it is taken from the queue.
PeekSent_FlagFirst(t) ==
  LET b == Head(queue[t])
  IN /\ Peeks(t)
     /\ t \in windows
     /\ queue[t] # <<>>
     /\ b # NULL
     /\ queue' = [queue EXCEPT ![t] = Tail(@)]
     /\ Call(t, Top(t).pc, [Loop EXCEPT !.pc = IF lptm[b].msg = NULL THEN "result" ELSE "proc",
                                        !.b = b, !.msg = lptm[b].msg])
     /\ lptm' = [lptm EXCEPT ![b].uFlag = 2]
     /\ UNCHANGED <<hWaitEvent, windows, allocated, sent>>

\* One that was sent is handled here, and then the next is looked for.
PeekSent(t) ==
  LET b == Head(queue[t])
  IN /\ Peeks(t)
     /\ t \in windows
     /\ queue[t] # <<>>
     /\ b # NULL
     /\ queue' = [queue EXCEPT ![t] = Tail(@)]
     /\ Call(t, Top(t).pc, [Loop EXCEPT !.pc = IF lptm[b].msg = NULL THEN "result" ELSE "proc",
                                        !.b = b, !.msg = lptm[b].msg])
     /\ UNCHANGED <<hWaitEvent, windows, lptm, allocated, sent>>

ProcReturns(t) ==
  /\ Top(t).pc = "proc"
  /\ IF Top(t).b = NULL THEN Return(t) ELSE Goto(t, "result")
  /\ UNCHANGED <<queue, hWaitEvent, windows, lptm, allocated, sent>>

\* The result and then the flag, which is all that tells the sender.
PutAnswer(t) ==
  /\ Top(t).pc = "result"
  /\ lptm' = [lptm EXCEPT ![Top(t).b].lResult = Top(t).msg, ![Top(t).b].uFlag = 2]
  /\ Goto(t, "signal")
  /\ UNCHANGED <<queue, hWaitEvent, windows, allocated, sent>>

\* Mutant: the sender is not told.
SignalSender_Quiet(t) ==
  /\ Top(t).pc = "signal"
  /\ Return(t)
  /\ UNCHANGED <<queue, hWaitEvent, windows, lptm, allocated, sent>>

\* The sender may have freed the block already.
SignalSender(t) ==
  /\ Top(t).pc = "signal"
  /\ hWaitEvent' = [hWaitEvent EXCEPT ![lptm[Top(t).b].dwThreadIDOfSender] = TRUE]
  /\ Return(t)
  /\ UNCHANGED <<queue, windows, lptm, allocated, sent>>

Step(t) ==
  \/ \E w \in Threads : Post(t, w) \/ \E timed \in BOOLEAN, flags \in Flags : Send(t, w, timed, flags)
  \/ Insert(t) \/ Wake(t) \/ DestroyWindow(t)
  \/ Test(t) \/ WaitMessage(t) \/ Timeout(t) \/ Woken(t) \/ Finish(t)
  \/ PeekNone(t) \/ PeekPosted(t) \/ Dispatched(t) \/ PeekSent(t)
  \/ ProcReturns(t) \/ PutAnswer(t) \/ SignalSender(t)

Next == \E t \in Threads : Step(t)

Spec == Init /\ [][Next]_vars

\* Every thread runs, and every window procedure returns.
FairSpec == Spec /\ \A t \in Threads : WF_vars(Step(t))

-----------------------------------------------------------------------------

Sending(f) == f.b # NULL /\ f.to # NULL

\* A block in use belongs to one call that sends, and names its thread; a call in the
\* message loop, and only that, is at the bottom of the stack (_CallThreadWindowProc).
TypeOK ==
  /\ queue \in [Threads -> Seq(Blocks \cup {NULL})]
  /\ hWaitEvent \in [Threads -> BOOLEAN]
  /\ windows \subseteq Threads
  /\ lptm \in [Blocks -> THREADMSG]
  /\ \A t \in Threads :
       /\ stack[t] \in Seq(Frame)
       /\ Last(stack[t]) \in {[Loop EXCEPT !.pc = l] : l \in {"peek", "wait"}}
  /\ sent \in 0 .. MaxSends
  /\ allocated = {b \in Blocks : \E t \in Threads : \E i \in DOMAIN stack[t] :
                                   Sending(stack[t][i]) /\ stack[t][i].b = b}
  /\ \A t \in Threads : \A i \in DOMAIN stack[t] :
       Sending(stack[t][i]) => lptm[stack[t][i].b].dwThreadIDOfSender = t

\* A send that succeeds returns what the window procedure made of its own message (comment
\* "data valid" where uFlag is 2 in _CallThreadWindowProc).
ResultIsOwn ==
  \A t \in Threads : Top(t).pc = "handled" => lptm[Top(t).b].lResult = Top(t).msg

\* About to set the event of t.
Waking(t) ==
  \E u \in Threads :
    \/ Top(u).pc = "wake" /\ Top(u).to = t
    \/ Top(u).pc = "signal" /\ lptm[Top(u).b].dwThreadIDOfSender = t

\* No thread sleeps over what it waits for: a message loop over a message, a sender over its
\* answer (WinMsg_Get and _CallThreadWindowProc look before they wait, and every message
\* and answer sets the one event of the thread, which some nested wait may have taken).
NoSleepWithWork ==
  \A t \in Threads :
    Top(t).pc = "wait" /\ ~hWaitEvent[t] =>
      Waking(t) \/ IF InLoop(t) THEN queue[t] = <<>> \/ t \notin windows
                                ELSE lptm[Top(t).b].uFlag # 2

\* Threads that send to each other do not wait for ever: there is always a time again when
\* all sends have returned, unless a window is destroyed (SMTO_NORMAL: a sender handles what
\* is sent to it while it waits).
SendsReturn ==
  []<>(windows # Threads \/ \A t \in Threads : \A i \in DOMAIN stack[t] : ~Sending(stack[t][i]))
=============================================================================
