--------------------------- MODULE MCMessageQueue ---------------------------
(* Instances of MessageQueue for TLC. *)
EXTENDS MessageQueue, TLC

CodesOf == 1 .. 2

\* The only child window.
Child == {<<"child", "top">>}

PostedOf == {[hwnd |-> "top", message |-> c] : c \in CodesOf}
  \cup {[hwnd |-> w, message |-> 1] : w \in Windows \cup {NULL}}

\* Anything; one message of a window and its children.  To clear: WM_PAINT of a window.
FiltersOf ==
  {NoFilter, [hwnd |-> "top", min |-> 1, max |-> 1, fCheckChild |-> TRUE],
   [hwnd |-> "top", min |-> 2, max |-> 2, fCheckChild |-> FALSE]}

\* Subsequence takes what SelectSeq takes, as the code does in one pass.
ASSUME SubsequenceIsSelectSeq ==
  \A s \in BoundedSeq(1 .. 3, 4) : \A A \in SUBSET (1 .. 3) :
    Subsequence(s, {i \in DOMAIN s : s[i] \in A}) = SelectSeq(s, LAMBDA x : x \in A)
=============================================================================
