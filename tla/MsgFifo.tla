------------------------------ MODULE MsgFifo -------------------------------
(***************************************************************************)
(* What a thread's message queue promises: the messages of windows that    *)
(* exist, and those of no window, are kept in the order they were put in;  *)
(* one that is asked for is the first of its kind; a WM_PAINT stays after  *)
(* it was got; and a window takes its messages with it.                    *)
(***************************************************************************)
EXTENDS Sequences, SequencesExt, Subsequences

CONSTANTS Windows, Codes, WM_PAINT, NULL

Messages == [hwnd : Windows \cup {NULL}, message : Codes]

VARIABLES queue, windows,
          last  \* the message the thread has got and not handled yet, or NULL

Init == queue = <<>> /\ windows = {} /\ last = NULL

Put ==
  /\ UNCHANGED <<windows, last>>
  /\ Len(queue') > Len(queue)
  /\ \E m \in Messages : m.hwnd \in windows \cup {NULL} /\ queue' = Append(queue, m)

\* The kinds of messages that a call may ask for.
Kind(W, C) == [hwnd : W, message : C]
Kinds == {Kind(W, C) : W \in SUBSET (Windows \cup {NULL}), C \in SUBSET Codes}

\* The thread gets the first message of some kind.
Get ==
  /\ last = NULL
  /\ last' # NULL
  /\ UNCHANGED windows
  /\ \E i \in DOMAIN queue :
       /\ last' = queue[i]
       /\ \/ queue' = queue
          \/ queue[i].message # WM_PAINT /\ queue' = RemoveAt(queue, i)
       /\ \E kind \in Kinds : queue[i] \in kind /\ \A j \in 1 .. i - 1 : queue[j] \notin kind

Handled == last' = NULL /\ UNCHANGED <<queue, windows>>

Without(kind) == Subsequence(queue, {i \in DOMAIN queue : queue[i] \notin kind})

\* The messages of some kind are taken back.
Clear ==
  /\ UNCHANGED <<windows, last>>
  /\ Len(queue') < Len(queue)
  /\ \E kind \in Kinds : queue' = Without(kind)

Create(w) ==
  /\ w \notin windows
  /\ windows' = windows \cup {w}
  /\ UNCHANGED <<queue, last>>

Destroy(W) ==
  /\ windows' = windows \ W
  /\ queue' = Without(Kind(W, Codes))
  /\ UNCHANGED last

Next ==
  \/ Handled \/ Get \/ Put \/ Clear
  \/ \E w \in Windows : Create(w)
  \/ \E W \in (SUBSET windows) \ {{}} : Destroy(W)

Spec == Init /\ [][Next]_<<queue, windows, last>>
=============================================================================
