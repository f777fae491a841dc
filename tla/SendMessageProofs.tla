------------------------- MODULE SendMessageProofs --------------------------
(***************************************************************************)
(* The blocks of sent messages belong to the calls that send them, for any *)
(* threads and blocks; and as long as no block is used again while         *)
(* something still refers to it, each send gets its own answer and no      *)
(* thread sleeps over a message or an answer.                              *)
(***************************************************************************)
EXTENDS SendMessage, SequenceTheorems, TLAPS

Labels == {"peek", "wait", "proc", "result", "signal",
           "insert", "wake", "test", "woken", "drain", "dispatched", "handled", "failed"}

SendLabels == {"test", "woken", "drain", "dispatched", "handled", "failed"}

\* What the label of a call tells of it.
FrameOK(f) ==
  /\ f.pc \in SendLabels => Sending(f)
  /\ f.pc \in {"insert", "wake"} => f.to # NULL
  /\ Sending(f) => f.pc \in SendLabels \cup {"insert", "wake", "wait"}
  /\ f.pc \in {"result", "signal"} => f.b # NULL

\* The message loop is at the bottom, calls that wait for the return of another are peeking
\* or in a window procedure, and every call that sends has a block of its own.
StackOK(s) ==
  /\ s \in Seq(Frame)
  /\ s # <<>>
  /\ s[Len(s)] \in {[Loop EXCEPT !.pc = l] : l \in {"peek", "wait"}}
  /\ \A i \in 1 .. Len(s) : FrameOK(s[i])
  /\ \A i \in 2 .. Len(s) : s[i].pc \in {"peek", "proc", "drain", "dispatched"}
  /\ \A i \in 1 .. Len(s) - 1 : s[i].pc # "peek" /\ (s[i].pc = "wait" => Sending(s[i]))
  /\ \A i, j \in 1 .. Len(s) : Sending(s[i]) /\ Sending(s[j]) /\ s[i].b = s[j].b => i = j

\* The blocks of the calls that send.
SendBlocks(s) == {s[i].b : i \in {j \in 1 .. Len(s) : Sending(s[j])}}

\* The blocks in use are those of the calls that send, and name their threads.
Base ==
  /\ queue \in [Threads -> Seq(Blocks \cup {NULL})]
  /\ hWaitEvent \in [Threads -> BOOLEAN]
  /\ windows \subseteq Threads
  /\ lptm \in [Blocks -> THREADMSG]
  /\ sent \in 0 .. MaxSends
  /\ stack \in [Threads -> Seq(Frame)]
  /\ \A t \in Threads : StackOK(stack[t])
  /\ \A t \in Threads : \A b \in SendBlocks(stack[t]) : lptm[b].dwThreadIDOfSender = t
  /\ allocated = UNION {SendBlocks(stack[t]) : t \in Threads}

LEMMA ConstantFacts ==
  /\ Blocks \subseteq Nat
  /\ NULL \notin Threads
  /\ NULL \notin Blocks
  /\ MaxSends \in Nat
  BY SendMessageAssumption DEF SendMessageAssumption

LEMMA LoopType == Loop \in Frame /\ Loop.pc = "peek" /\ Loop.b = NULL /\ Loop.to = NULL
  BY DEF Loop, Frame

LEMMA SetLabel ==
  ASSUME NEW f \in Frame, NEW l \in Labels, NEW g, g = [f EXCEPT !.pc = l]
  PROVE  g \in Frame /\ g.pc = l /\ g.b = f.b /\ g.to = f.to /\ g.msg = f.msg
  BY DEF Frame, Labels

-----------------------------------------------------------------------------
(* Stacks *)

\* new is s with g for its innermost call, with the call f above that, or without it.
Replaced(s, g, new) ==
  /\ new \in Seq(Frame) /\ Len(new) = Len(s)
  /\ new[1] = g
  /\ \A i \in 2 .. Len(s) : new[i] = s[i]

Pushed(s, f, g, new) ==
  /\ new \in Seq(Frame) /\ Len(new) = Len(s) + 1
  /\ new[1] = f /\ new[2] = g
  /\ \A i \in 2 .. Len(s) : new[i + 1] = s[i]

Popped(s, new) ==
  /\ new \in Seq(Frame) /\ Len(new) = Len(s) - 1
  /\ \A i \in 1 .. Len(s) - 1 : new[i] = s[i + 1]

LEMMA Shapes ==
  ASSUME NEW s \in Seq(Frame), s # <<>>, NEW f \in Frame, NEW g \in Frame
  PROVE  /\ Len(s) \in Nat \ {0}
         /\ Head(s) = s[1] /\ Head(s) \in Frame
         /\ Replaced(s, g, <<g>> \o Tail(s))
         /\ Pushed(s, f, g, <<f, g>> \o Tail(s))
         /\ Popped(s, Tail(s))
<1>1. /\ Len(s) \in Nat \ {0} /\ Head(s) = s[1] /\ Head(s) \in Frame
      /\ Tail(s) \in Seq(Frame) /\ Len(Tail(s)) = Len(s) - 1
      /\ \A i \in 1 .. Len(s) - 1 : Tail(s)[i] = s[i + 1]
  BY HeadTailProperties, EmptySeq
<1>2. /\ <<g>> \in Seq(Frame) /\ Len(<<g>>) = 1 /\ <<g>>[1] = g
      /\ <<f, g>> \in Seq(Frame) /\ Len(<<f, g>>) = 2 /\ <<f, g>>[1] = f /\ <<f, g>>[2] = g
  OBVIOUS
<1> DEFINE q == Tail(s)
           a == <<g>>
           c == <<f, g>>
<1>3. q \in Seq(Frame) /\ a \in Seq(Frame) /\ c \in Seq(Frame)
  BY <1>1, <1>2
<1> HIDE DEF q, a, c
<1>4. /\ a \o q \in Seq(Frame) /\ Len(a \o q) = Len(a) + Len(q)
      /\ \A i \in 1 .. Len(a) + Len(q) : (a \o q)[i] = IF i <= Len(a) THEN a[i] ELSE q[i - Len(a)]
  BY <1>3, ConcatProperties, Zenon
<1>5. /\ c \o q \in Seq(Frame) /\ Len(c \o q) = Len(c) + Len(q)
      /\ \A i \in 1 .. Len(c) + Len(q) : (c \o q)[i] = IF i <= Len(c) THEN c[i] ELSE q[i - Len(c)]
  BY <1>3, ConcatProperties, Zenon
<1> DEFINE x == a \o q
           y == c \o q
<1>6. Replaced(s, g, x)
  <2>1. Len(a) = 1 /\ a[1] = g /\ Len(q) = Len(s) - 1 /\ \A i \in 1 .. Len(s) - 1 : q[i] = s[i + 1]
    BY <1>1, <1>2 DEF a, q
  <2> HIDE DEF x
  <2>2. x \in Seq(Frame) /\ Len(x) = Len(s) /\ \A i \in 1 .. Len(s) : x[i] = IF i <= 1 THEN a[i] ELSE q[i - 1]
    BY <1>1, <1>4, <2>1 DEF x
  <2>3. ASSUME NEW i \in 2 .. Len(s) PROVE x[i] = s[i]
    <3>1. i - 1 \in 1 .. Len(s) - 1 /\ i \in 1 .. Len(s) /\ ~(i <= 1) /\ (i - 1) + 1 = i
      BY <1>1
    <3> QED
      BY <2>1, <2>2, <3>1
  <2>4. x[1] = g
    BY <1>1, <2>1, <2>2
  <2> QED
    BY <2>2, <2>3, <2>4 DEF Replaced
<1>7. Pushed(s, f, g, y)
  <2>1. Len(c) = 2 /\ c[1] = f /\ c[2] = g /\ Len(q) = Len(s) - 1 /\ \A i \in 1 .. Len(s) - 1 : q[i] = s[i + 1]
    BY <1>1, <1>2 DEF c, q
  <2> HIDE DEF y
  <2>2. /\ y \in Seq(Frame) /\ Len(y) = Len(s) + 1
        /\ \A i \in 1 .. Len(s) + 1 : y[i] = IF i <= 2 THEN c[i] ELSE q[i - 2]
    BY <1>1, <1>5, <2>1 DEF y
  <2>3. ASSUME NEW i \in 2 .. Len(s) PROVE y[i + 1] = s[i]
    <3>1. /\ i - 1 \in 1 .. Len(s) - 1 /\ i + 1 \in 1 .. Len(s) + 1 /\ ~(i + 1 <= 2)
          /\ (i - 1) + 1 = i /\ (i + 1) - 2 = i - 1
      BY <1>1
    <3> QED
      BY <2>1, <2>2, <3>1
  <2>4. y[1] = f /\ y[2] = g
    BY <1>1, <2>1, <2>2
  <2> QED
    BY <2>2, <2>3, <2>4 DEF Pushed
<1> QED
  BY <1>1, <1>6, <1>7 DEF a, c, q, Popped

LEMMA SendBlocksOf == \A s, b : b \in SendBlocks(s) <=> \E i \in 1 .. Len(s) : Sending(s[i]) /\ s[i].b = b
  BY DEF SendBlocks

\* Places in a stack of n calls.
LEMMA Places ==
  ASSUME NEW n \in Nat \ {0}
  PROVE  /\ 1 \in 1 .. n
         /\ n # 1 => n \in 2 .. n /\ 2 \in 2 .. n /\ 1 \in 1 .. n - 1
         /\ 2 \in 1 .. n => n # 1
         /\ \A i \in 1 .. n - 1 : n # 1 /\ (i = 1 \/ i \in 2 .. n)
         /\ \A i \in 2 .. n + 1 : i \in 1 .. n + 1 /\ i # 1
  OBVIOUS

\* A call goes on at l.
LEMMA GotoStack ==
  ASSUME NEW s, StackOK(s), NEW l \in Labels, NEW g, g = [s[1] EXCEPT !.pc = l],
         NEW new, Replaced(s, g, new), FrameOK(g),
         Len(s) = 1 => l \in {"peek", "wait"},
         Len(s) # 1 => l # "peek" /\ (l = "wait" => Sending(g))
  PROVE  /\ StackOK(new)
         /\ SendBlocks(new) = SendBlocks(s)
<1>1. Len(s) \in Nat \ {0} /\ s \in Seq(Frame) /\ s[1] \in Frame
  BY Shapes DEF StackOK
<1>2. /\ new \in Seq(Frame) /\ Len(new) = Len(s) /\ new[1] = g
      /\ \A i \in 2 .. Len(s) : new[i] = s[i]
  BY DEF Replaced
<1>3. g.pc = l /\ g.b = s[1].b /\ (Sending(g) <=> Sending(s[1]))
  BY <1>1, SetLabel DEF Sending
<1>4. new[Len(new)] \in {[Loop EXCEPT !.pc = k] : k \in {"peek", "wait"}}
  <2>1. CASE Len(s) = 1
    <3>1. PICK k \in {"peek", "wait"} : s[1] = [Loop EXCEPT !.pc = k]
      BY <2>1 DEF StackOK
    <3>2. g = [Loop EXCEPT !.pc = l]
      BY <3>1 DEF Loop
    <3> QED
      BY <1>2, <2>1, <3>2
  <2>2. CASE Len(s) # 1
    <3>1. Len(s) \in 2 .. Len(s)
      BY <1>1, <2>2, Places, Zenon
    <3> QED
      BY <1>2, <3>1 DEF StackOK
  <2> QED
    BY <2>1, <2>2
<1>5. \A i \in 1 .. Len(s) : i = 1 \/ i \in 2 .. Len(s)
  BY <1>1
<1>6. \A i \in 1 .. Len(s) : (Sending(new[i]) <=> Sending(s[i])) /\ new[i].b = s[i].b
  BY <1>2, <1>3, <1>5
<1>7. \A i \in 1 .. Len(s) : FrameOK(new[i])
  BY <1>2, <1>5 DEF StackOK
<1>8. \A i \in 2 .. Len(s) : new[i].pc \in {"peek", "proc", "drain", "dispatched"}
  BY <1>2 DEF StackOK
<1>9. \A i \in 1 .. Len(s) - 1 : new[i].pc # "peek" /\ (new[i].pc = "wait" => Sending(new[i]))
  <2> SUFFICES ASSUME NEW i \in 1 .. Len(s) - 1
               PROVE  new[i].pc # "peek" /\ (new[i].pc = "wait" => Sending(new[i]))
    OBVIOUS
  <2>1. CASE i = 1
    <3>1. Len(s) # 1
      BY <1>1, Places, Zenon
    <3> QED
      BY <1>2, <1>3, <2>1, <3>1
  <2>2. CASE i # 1
    <3>1. i \in 2 .. Len(s)
      BY <1>1, <2>2, Places, Zenon
    <3> QED
      BY <1>2, <3>1 DEF StackOK
  <2> QED
    BY <2>1, <2>2
<1>10. ASSUME NEW i \in 1 .. Len(s), NEW j \in 1 .. Len(s),
              Sending(new[i]), Sending(new[j]), new[i].b = new[j].b
       PROVE  i = j
  <2>1. Sending(s[i]) /\ Sending(s[j]) /\ s[i].b = s[j].b
    BY <1>6, <1>10
  <2> QED
    BY <2>1 DEF StackOK
<1>11. SendBlocks(new) = SendBlocks(s)
  <2>1. ASSUME NEW b, b \in SendBlocks(new) PROVE b \in SendBlocks(s)
    <3>1. PICK i \in 1 .. Len(s) : Sending(new[i]) /\ new[i].b = b
      BY <1>2, <2>1, SendBlocksOf
    <3>2. Sending(s[i]) /\ s[i].b = b
      BY <1>6, <3>1
    <3> QED
      BY <3>2, SendBlocksOf
  <2>2. ASSUME NEW b, b \in SendBlocks(s) PROVE b \in SendBlocks(new)
    <3>1. PICK i \in 1 .. Len(s) : Sending(s[i]) /\ s[i].b = b
      BY <2>2, SendBlocksOf
    <3>2. Sending(new[i]) /\ new[i].b = b
      BY <1>6, <3>1
    <3> QED
      BY <1>2, <3>2, SendBlocksOf
  <2> QED
    BY <2>1, <2>2
<1>12. new # <<>>
  BY <1>1, <1>2
<1> QED
  BY <1>2, <1>4, <1>7, <1>8, <1>9, <1>10, <1>11, <1>12 DEF StackOK

\* A new call f starts, and the one below it goes on at l later.
LEMMA CallStack ==
  ASSUME NEW s, StackOK(s), NEW l \in {"peek", "proc", "drain", "dispatched"},
         NEW g, g = [s[1] EXCEPT !.pc = l], FrameOK(g), Len(s) = 1 <=> l = "peek",
         NEW f \in Frame, FrameOK(f), f.pc \notin {"peek", "wait"},
         Sending(f) => f.b \notin SendBlocks(s),
         NEW new, Pushed(s, f, g, new)
  PROVE  /\ StackOK(new)
         /\ SendBlocks(new) = IF Sending(f) THEN SendBlocks(s) \cup {f.b} ELSE SendBlocks(s)
<1>1. Len(s) \in Nat \ {0} /\ s \in Seq(Frame) /\ s[1] \in Frame
  BY Shapes DEF StackOK
<1>2. /\ new \in Seq(Frame) /\ Len(new) = Len(s) + 1 /\ new[1] = f /\ new[2] = g
      /\ \A i \in 2 .. Len(s) : new[i + 1] = s[i]
  BY DEF Pushed
<1>3. g.pc = l /\ g.b = s[1].b /\ (Sending(g) <=> Sending(s[1]))
  BY <1>1, SetLabel DEF Sending, Labels
\* Where the calls are now.
<1>4. /\ \A i \in 1 .. Len(s) + 1 : i = 1 \/ i - 1 \in 1 .. Len(s)
      /\ \A i \in 1 .. Len(s) : i + 1 \in 1 .. Len(s) + 1 /\ i + 1 # 1 /\ (i + 1) - 1 = i
      /\ \A i \in 1 .. Len(s) + 1 : i - 1 = 1 \/ i - 1 \in 2 .. Len(s) \/ i = 1
      /\ \A i \in 1 .. Len(s) + 1 : (i - 1) + 1 = i /\ (i - 1 = 1 => i = 2)
  BY <1>1
<1>5. \A i \in 1 .. Len(s) + 1 : i - 1 \in 2 .. Len(s) => new[i] = s[i - 1]
  BY <1>2, <1>4
<1>6. \A i \in 1 .. Len(s) + 1 : i # 1 =>
        (Sending(new[i]) <=> Sending(s[i - 1])) /\ new[i].b = s[i - 1].b
  BY <1>2, <1>3, <1>4, <1>5
<1>7. new[Len(new)] \in {[Loop EXCEPT !.pc = k] : k \in {"peek", "wait"}}
  <2>1. CASE Len(s) = 1
    <3>1. PICK k \in {"peek", "wait"} : s[1] = [Loop EXCEPT !.pc = k]
      BY <2>1 DEF StackOK
    <3>2. g = [Loop EXCEPT !.pc = "peek"]
      BY <2>1, <3>1 DEF Loop
    <3>3. Len(new) = 2
      BY <1>2, <2>1
    <3> QED
      BY <1>2, <3>2, <3>3
  <2>2. CASE Len(s) # 1
    <3>1. Len(s) \in 2 .. Len(s)
      BY <1>1, <2>2, Places, Zenon
    <3>2. new[Len(new)] = s[Len(s)]
      BY <1>2, <3>1
    <3> QED
      BY <3>2 DEF StackOK
  <2> QED
    BY <2>1, <2>2
<1>8. \A i \in 1 .. Len(s) + 1 : FrameOK(new[i])
  <2>1. \A i \in 2 .. Len(s) : FrameOK(s[i])
    BY <1>1 DEF StackOK
  <2> QED
    BY <1>2, <1>4, <1>5, <2>1
<1>9. \A i \in 2 .. Len(s) + 1 : new[i].pc \in {"peek", "proc", "drain", "dispatched"}
  <2>1. \A i \in 2 .. Len(s) : s[i].pc \in {"peek", "proc", "drain", "dispatched"}
    BY DEF StackOK
  <2>2. \A i \in 2 .. Len(s) + 1 : i \in 1 .. Len(s) + 1 /\ i # 1
    BY <1>1, Places, Zenon
  <2> SUFFICES ASSUME NEW i \in 2 .. Len(s) + 1
               PROVE  new[i].pc \in {"peek", "proc", "drain", "dispatched"}
    OBVIOUS
  <2>3. CASE i - 1 = 1
    <3>1. new[i] = g
      BY <1>2, <1>4, <2>2, <2>3, Zenon
    <3> QED
      BY <1>3, <3>1
  <2>4. CASE i - 1 \in 2 .. Len(s)
    <3>1. new[i] = s[i - 1]
      BY <1>5, <2>2, <2>4, Zenon
    <3> QED
      BY <2>1, <2>4, <3>1
  <2> QED
    BY <1>4, <2>2, <2>3, <2>4, Zenon
<1>10. \A i \in 1 .. Len(s) : new[i].pc # "peek" /\ (new[i].pc = "wait" => Sending(new[i]))
  <2> SUFFICES ASSUME NEW i \in 1 .. Len(s)
               PROVE  new[i].pc # "peek" /\ (new[i].pc = "wait" => Sending(new[i]))
    OBVIOUS
  <2>1. CASE i = 1
    BY <1>2, <2>1
  <2>2. CASE i = 2
    <3>1. Len(s) # 1
      BY <1>1, <2>2, Places, Zenon
    <3> QED
      BY <1>2, <1>3, <2>2, <3>1
  <2>3. CASE i \notin {1, 2}
    <3>1. i - 1 \in 1 .. Len(s) - 1 /\ i - 1 \in 2 .. Len(s) /\ i \in 1 .. Len(s) + 1
      BY <1>1, <2>3
    <3> QED
      BY <1>5, <3>1 DEF StackOK
  <2> QED
    BY <2>1, <2>2, <2>3
<1>11. ASSUME NEW i \in 1 .. Len(s) + 1, i # 1, Sending(new[i])
       PROVE  i - 1 \in 1 .. Len(s) /\ Sending(s[i - 1]) /\ new[i].b = s[i - 1].b
                /\ new[i].b \in SendBlocks(s)
  BY <1>4, <1>6, <1>11, SendBlocksOf
<1>12. ASSUME NEW i \in 1 .. Len(s) + 1, NEW j \in 1 .. Len(s) + 1,
              Sending(new[i]), Sending(new[j]), new[i].b = new[j].b
       PROVE  i = j
  <2>1. CASE i # 1 /\ j # 1
    <3>1. i - 1 = j - 1
      BY <1>11, <1>12, <2>1 DEF StackOK
    <3> QED
      BY <3>1
  <2>2. CASE i = 1 \/ j = 1
    BY <1>2, <1>11, <1>12, <2>2
  <2> QED
    BY <2>1, <2>2
<1>13. SendBlocks(new) = IF Sending(f) THEN SendBlocks(s) \cup {f.b} ELSE SendBlocks(s)
  <2>1. ASSUME NEW b, b \in SendBlocks(s) PROVE b \in SendBlocks(new)
    <3>1. PICK i \in 1 .. Len(s) : Sending(s[i]) /\ s[i].b = b
      BY <2>1, SendBlocksOf
    <3>2. i + 1 \in 1 .. Len(s) + 1 /\ Sending(new[i + 1]) /\ new[i + 1].b = b
      BY <1>4, <1>6, <3>1
    <3> QED
      BY <1>2, <3>2, SendBlocksOf
  <2>2. ASSUME NEW b, b \in SendBlocks(new) PROVE b \in SendBlocks(s) \/ (Sending(f) /\ b = f.b)
    <3>1. PICK i \in 1 .. Len(s) + 1 : Sending(new[i]) /\ new[i].b = b
      BY <1>2, <2>2, SendBlocksOf
    <3> QED
      BY <1>2, <1>11, <3>1
  <2>3. Sending(f) => f.b \in SendBlocks(new)
    <3>1. 1 \in 1 .. Len(new)
      BY <1>1, <1>2
    <3> QED
      BY <1>2, <3>1, SendBlocksOf
  <2> QED
    BY <2>1, <2>2, <2>3
<1>14. new # <<>>
  BY <1>1, <1>2
<1>15. Len(new) - 1 = Len(s)
  BY <1>1, <1>2
<1> QED
  BY <1>2, <1>7, <1>8, <1>9, <1>10, <1>12, <1>13, <1>14, <1>15 DEF StackOK

\* The innermost call returns.
LEMMA ReturnStack ==
  ASSUME NEW s, StackOK(s), Len(s) # 1, NEW new, Popped(s, new)
  PROVE  /\ StackOK(new)
         /\ SendBlocks(new) = IF Sending(s[1]) THEN SendBlocks(s) \ {s[1].b} ELSE SendBlocks(s)
<1>1. /\ Len(s) \in Nat \ {0, 1}
      /\ new \in Seq(Frame) /\ Len(new) = Len(s) - 1
      /\ \A i \in 1 .. Len(s) - 1 : new[i] = s[i + 1]
  BY Shapes DEF StackOK, Popped
<1>2. /\ \A i \in 1 .. Len(s) - 1 : i + 1 \in 1 .. Len(s) /\ i + 1 \in 2 .. Len(s) /\ i + 1 # 1
      /\ \A i \in 1 .. Len(s) - 2 : i \in 1 .. Len(s) - 1 /\ i + 1 \in 1 .. Len(s) - 1
      /\ \A i \in 2 .. Len(s) - 1 : i \in 1 .. Len(s) - 1
      /\ \A i \in 1 .. Len(s) : i = 1 \/ (i - 1 \in 1 .. Len(s) - 1 /\ (i - 1) + 1 = i)
      /\ Len(new) \in 1 .. Len(s) - 1 /\ Len(new) + 1 = Len(s) /\ Len(new) - 1 = Len(s) - 2
      /\ 1 \in 1 .. Len(s) /\ new # <<>>
  BY <1>1
<1>3. new[Len(new)] = s[Len(s)]
  BY <1>1, <1>2
<1>4. \A i \in 1 .. Len(s) - 1 : FrameOK(new[i])
  BY <1>1, <1>2 DEF StackOK
<1>5. \A i \in 2 .. Len(s) - 1 : new[i].pc \in {"peek", "proc", "drain", "dispatched"}
  BY <1>1, <1>2 DEF StackOK
<1>6. ASSUME NEW i \in 1 .. Len(s) - 2
      PROVE  new[i].pc # "peek" /\ (new[i].pc = "wait" => Sending(new[i]))
  <2>1. new[i] = s[i + 1] /\ i + 1 \in 1 .. Len(s) - 1
    BY <1>1, <1>2
  <2> QED
    BY <2>1 DEF StackOK
<1>7. ASSUME NEW i \in 1 .. Len(s) - 1, NEW j \in 1 .. Len(s) - 1,
             Sending(new[i]), Sending(new[j]), new[i].b = new[j].b
      PROVE  i = j
  <2>1. i + 1 = j + 1
    BY <1>1, <1>2, <1>7 DEF StackOK
  <2> QED
    BY <2>1
<1>8. SendBlocks(new) = IF Sending(s[1]) THEN SendBlocks(s) \ {s[1].b} ELSE SendBlocks(s)
  <2>1. ASSUME NEW b, b \in SendBlocks(new) PROVE b \in SendBlocks(s) /\ ~(Sending(s[1]) /\ b = s[1].b)
    <3>1. PICK i \in 1 .. Len(s) - 1 : Sending(new[i]) /\ new[i].b = b
      BY <1>1, <2>1, SendBlocksOf
    <3>2. i + 1 \in 1 .. Len(s) /\ i + 1 # 1 /\ Sending(s[i + 1]) /\ s[i + 1].b = b
      BY <1>1, <1>2, <3>1
    <3>3. b \in SendBlocks(s)
      BY <3>2, SendBlocksOf
    <3>4. ~(Sending(s[1]) /\ b = s[1].b)
      BY <1>2, <3>2 DEF StackOK
    <3> QED
      BY <3>3, <3>4
  <2>2. ASSUME NEW b, b \in SendBlocks(s), ~(Sending(s[1]) /\ b = s[1].b) PROVE b \in SendBlocks(new)
    <3>1. PICK i \in 1 .. Len(s) : Sending(s[i]) /\ s[i].b = b
      BY <2>2, SendBlocksOf
    <3>2. i - 1 \in 1 .. Len(s) - 1 /\ new[i - 1] = s[i]
      BY <1>1, <1>2, <2>2, <3>1
    <3> QED
      BY <1>1, <3>1, <3>2, SendBlocksOf
  <2> QED
    BY <2>1, <2>2
<1> QED
  BY <1>1, <1>2, <1>3, <1>4, <1>5, <1>6, <1>7, <1>8 DEF StackOK

-----------------------------------------------------------------------------
(* Steps of the stacks *)

LEMMA TopOK ==
  ASSUME Base, NEW t \in Threads
  PROVE  /\ Len(stack[t]) \in Nat \ {0}
         /\ Top(t) = stack[t][1] /\ Head(stack[t]) = stack[t][1]
         /\ Top(t) \in Frame
         /\ FrameOK(Top(t))
         /\ Len(stack[t]) = 1 =>
              Top(t).pc \in {"peek", "wait"} /\ Top(t).b = NULL /\ Top(t).to = NULL /\ ~Top(t).timed
         /\ Len(stack[t]) # 1 => Top(t).pc # "peek" /\ (Top(t).pc = "wait" => Sending(Top(t)))
         /\ Sending(Top(t)) => Top(t).b \in SendBlocks(stack[t])
<1>1. StackOK(stack[t])
  BY DEF Base
<1>2. /\ Len(stack[t]) \in Nat \ {0} /\ Head(stack[t]) = stack[t][1] /\ Head(stack[t]) \in Frame
  <2>1. stack[t] \in Seq(Frame) /\ stack[t] # <<>>
    BY <1>1 DEF StackOK
  <2> QED
    BY <2>1, HeadTailProperties, EmptySeq
<1>3. 1 \in 1 .. Len(stack[t]) /\ (Len(stack[t]) # 1 => 1 \in 1 .. Len(stack[t]) - 1)
  BY <1>2, Places, Zenon
<1>4. Len(stack[t]) = 1 => stack[t][1] \in {[Loop EXCEPT !.pc = l] : l \in {"peek", "wait"}}
  BY <1>1 DEF StackOK
<1>5. Len(stack[t]) = 1 => stack[t][1].pc \in {"peek", "wait"} /\ stack[t][1].b = NULL /\ stack[t][1].to = NULL
                            /\ ~stack[t][1].timed
  BY <1>4 DEF Loop
<1> QED
  BY <1>1, <1>2, <1>3, <1>5, SendBlocksOf DEF StackOK, Top

LEMMA SendBlocksType ==
  ASSUME NEW s, StackOK(s)
  PROVE  SendBlocks(s) \subseteq Blocks
<1> SUFFICES ASSUME NEW b, b \in SendBlocks(s) PROVE b \in Blocks
  OBVIOUS
<1>1. PICK i \in 1 .. Len(s) : Sending(s[i]) /\ s[i].b = b
  BY SendBlocksOf
<1>2. s[i] \in Frame
  BY ElementOfSeq DEF StackOK
<1> QED
  BY <1>1, <1>2 DEF Sending, Frame

\* The variables but the stacks and blocks in use keep their types.
Kept ==
  /\ queue' \in [Threads -> Seq(Blocks \cup {NULL})]
  /\ hWaitEvent' \in [Threads -> BOOLEAN]
  /\ windows' \subseteq Threads
  /\ lptm' \in [Blocks -> THREADMSG]
  /\ sent' \in 0 .. MaxSends

SendersKept == \A b \in Blocks : lptm'[b].dwThreadIDOfSender = lptm[b].dwThreadIDOfSender

LEMMA StackBase ==
  ASSUME Base, NEW t \in Threads, Kept, NEW new, StackOK(new), stack' = [stack EXCEPT ![t] = new],
         \A b \in SendBlocks(new) : lptm'[b].dwThreadIDOfSender = t,
         \A u \in Threads \ {t} : \A b \in SendBlocks(stack[u]) :
           lptm'[b].dwThreadIDOfSender = lptm[b].dwThreadIDOfSender,
         allocated' = (allocated \ SendBlocks(stack[t])) \cup SendBlocks(new)
  PROVE  Base'
<1>1. /\ stack' \in [Threads -> Seq(Frame)]
      /\ stack'[t] = new /\ \A u \in Threads \ {t} : stack'[u] = stack[u]
  BY DEF Base, StackOK
<1>2. \A u \in Threads : StackOK(stack'[u])
  BY <1>1 DEF Base
<1>3. \A u \in Threads : \A b \in SendBlocks(stack'[u]) : lptm'[b].dwThreadIDOfSender = u
  BY <1>1 DEF Base
<1>4. allocated' = UNION {SendBlocks(stack'[u]) : u \in Threads}
  <2>1. \A u \in Threads \ {t} : \A b \in SendBlocks(stack[u]) : b \notin SendBlocks(stack[t])
    BY DEF Base
  <2>2. allocated = UNION {SendBlocks(stack[u]) : u \in Threads}
    BY DEF Base
  <2>3. \A b : b \in allocated' <=> (b \in allocated /\ b \notin SendBlocks(stack[t])) \/ b \in SendBlocks(new)
    OBVIOUS
  <2>4. \A b : b \in allocated' <=> \E u \in Threads : b \in SendBlocks(stack'[u])
    BY <1>1, <2>1, <2>2, <2>3
  <2> QED
    BY <2>4
<1> QED
  BY <1>1, <1>2, <1>3, <1>4 DEF Base, Kept

\* Where t may go on.
GoesOn(t, l) ==
  /\ l \in SendLabels => Sending(Top(t))
  /\ l \in {"insert", "wake"} => Top(t).to # NULL
  /\ Sending(Top(t)) => l \in SendLabels \cup {"insert", "wake", "wait"}
  /\ l \in {"result", "signal"} => Top(t).b # NULL
  /\ InLoop(t) => l \in {"peek", "wait"}
  /\ ~InLoop(t) => l # "peek" /\ (l = "wait" => Sending(Top(t)))

LEMMA GotoBase ==
  ASSUME Base, NEW t \in Threads, NEW l \in Labels, Goto(t, l), GoesOn(t, l), Kept, SendersKept,
         allocated' = allocated
  PROVE  /\ Base'
         /\ Replaced(stack[t], [Top(t) EXCEPT !.pc = l], stack'[t])
         /\ \A u \in Threads \ {t} : stack'[u] = stack[u]
<1> DEFINE g == [stack[t][1] EXCEPT !.pc = l]
           new == <<g>> \o Tail(stack[t])
<1>1. StackOK(stack[t]) /\ stack[t] \in Seq(Frame) /\ stack[t] # <<>> /\ stack \in [Threads -> Seq(Frame)]
  BY DEF Base, StackOK
<1>2. Top(t) = stack[t][1] /\ Head(stack[t]) = stack[t][1] /\ Top(t) \in Frame
  BY TopOK
<1>3. g \in Frame /\ g.pc = l /\ g.b = Top(t).b /\ g.to = Top(t).to
  BY <1>2, SetLabel
<1>4. stack' = [stack EXCEPT ![t] = new]
  BY <1>2 DEF Goto
<1>5. Replaced(stack[t], g, new)
  BY <1>1, <1>3, Shapes
<1> HIDE DEF new
<1>6. FrameOK(g)
  BY <1>3 DEF GoesOn, FrameOK, Sending
<1>7. StackOK(new) /\ SendBlocks(new) = SendBlocks(stack[t])
  <2>1. /\ Len(stack[t]) = 1 => l \in {"peek", "wait"}
        /\ Len(stack[t]) # 1 => l # "peek" /\ (l = "wait" => Sending(g))
    BY <1>3 DEF GoesOn, InLoop, Sending
  <2> QED
    BY <1>1, <1>5, <1>6, <2>1, GotoStack
<1> HIDE DEF g
<1>8. SendBlocks(stack[t]) \subseteq Blocks /\ \A u \in Threads : SendBlocks(stack[u]) \subseteq Blocks
  BY SendBlocksType DEF Base
<1>9. \A b \in SendBlocks(new) : lptm'[b].dwThreadIDOfSender = t
  BY <1>7, <1>8 DEF Base, SendersKept
<1>10. allocated' = (allocated \ SendBlocks(stack[t])) \cup SendBlocks(new)
  <2>1. SendBlocks(stack[t]) \subseteq allocated
    BY DEF Base
  <2> QED
    BY <1>7, <2>1
<1>11. \A u \in Threads \ {t} : \A b \in SendBlocks(stack[u]) :
         lptm'[b].dwThreadIDOfSender = lptm[b].dwThreadIDOfSender
  BY <1>8 DEF SendersKept
<1>12. Base'
  BY <1>4, <1>7, <1>9, <1>10, <1>11, StackBase
<1> QED
  BY <1>1, <1>2, <1>4, <1>5, <1>12 DEF g

LEMMA CallBase ==
  ASSUME Base, NEW t \in Threads, NEW l \in {"peek", "proc", "drain", "dispatched"},
         NEW f \in Frame, Call(t, l, f), FrameOK(f), f.pc \notin {"peek", "wait"},
         l = "dispatched" => Sending(Top(t)), l = "proc" => ~Sending(Top(t)),
         InLoop(t) <=> l = "peek",
         l = "drain" => Sending(Top(t)),
         Sending(f) => f.b \notin allocated /\ lptm'[f.b].dwThreadIDOfSender = t,
         \A b \in allocated : lptm'[b].dwThreadIDOfSender = lptm[b].dwThreadIDOfSender,
         Kept, allocated' = IF Sending(f) THEN allocated \cup {f.b} ELSE allocated
  PROVE  /\ Base'
         /\ Pushed(stack[t], f, [Top(t) EXCEPT !.pc = l], stack'[t])
         /\ \A u \in Threads \ {t} : stack'[u] = stack[u]
<1> DEFINE g == [stack[t][1] EXCEPT !.pc = l]
           new == <<f, g>> \o Tail(stack[t])
<1>1. StackOK(stack[t]) /\ stack[t] \in Seq(Frame) /\ stack[t] # <<>> /\ stack \in [Threads -> Seq(Frame)]
  BY DEF Base, StackOK
<1>2. /\ Top(t) = stack[t][1] /\ Head(stack[t]) = stack[t][1] /\ Top(t) \in Frame
      /\ Len(stack[t]) = 1 => ~Sending(Top(t))
  BY TopOK DEF Sending
<1>3. g \in Frame /\ g.pc = l /\ g.b = Top(t).b /\ g.to = Top(t).to
  BY <1>2, SetLabel DEF Labels
<1>4. stack' = [stack EXCEPT ![t] = new]
  BY <1>2 DEF Call
<1>5. Pushed(stack[t], f, g, new)
  BY <1>1, <1>3, Shapes
<1> HIDE DEF new
<1>6. FrameOK(g)
  BY <1>2, <1>3 DEF FrameOK, Sending, SendLabels, InLoop
<1>7. SendBlocks(stack[t]) \subseteq allocated /\ \A u \in Threads : SendBlocks(stack[u]) \subseteq allocated
  BY DEF Base
<1>8. /\ StackOK(new)
      /\ SendBlocks(new) = IF Sending(f) THEN SendBlocks(stack[t]) \cup {f.b} ELSE SendBlocks(stack[t])
  <2>1. Len(stack[t]) = 1 <=> l = "peek"
    BY DEF InLoop
  <2>2. Sending(f) => f.b \notin SendBlocks(stack[t])
    BY <1>7
  <2> QED
    BY <1>1, <1>5, <1>6, <2>1, <2>2, CallStack
<1> HIDE DEF g
<1>9. \A b \in SendBlocks(new) : lptm'[b].dwThreadIDOfSender = t
  <2>1. \A b \in SendBlocks(stack[t]) : lptm[b].dwThreadIDOfSender = t
    BY DEF Base
  <2> QED
    BY <1>7, <1>8, <2>1
<1>10. allocated' = (allocated \ SendBlocks(stack[t])) \cup SendBlocks(new)
  BY <1>7, <1>8
<1>11. \A u \in Threads \ {t} : \A b \in SendBlocks(stack[u]) :
         lptm'[b].dwThreadIDOfSender = lptm[b].dwThreadIDOfSender
  BY <1>7
<1>12. Base'
  BY <1>4, <1>8, <1>9, <1>10, <1>11, StackBase
<1> QED
  BY <1>1, <1>2, <1>4, <1>5, <1>12 DEF g

LEMMA ReturnBase ==
  ASSUME Base, NEW t \in Threads, ~InLoop(t), Return(t), Kept, SendersKept,
         allocated' = IF Sending(Top(t)) THEN allocated \ {Top(t).b} ELSE allocated
  PROVE  /\ Base'
         /\ Popped(stack[t], stack'[t])
         /\ \A u \in Threads \ {t} : stack'[u] = stack[u]
<1> DEFINE new == Tail(stack[t])
<1>1. StackOK(stack[t]) /\ stack[t] \in Seq(Frame) /\ stack[t] # <<>> /\ stack \in [Threads -> Seq(Frame)]
  BY DEF Base, StackOK
<1>2. Top(t) = stack[t][1] /\ Head(stack[t]) = stack[t][1] /\ Top(t) \in Frame
  BY TopOK
<1>3. stack' = [stack EXCEPT ![t] = new]
  BY DEF Return
<1>4. Popped(stack[t], new)
  BY <1>1, <1>2, Shapes
<1> HIDE DEF new
<1>5. /\ StackOK(new)
      /\ SendBlocks(new) = IF Sending(Top(t)) THEN SendBlocks(stack[t]) \ {Top(t).b} ELSE SendBlocks(stack[t])
  <2>1. Len(stack[t]) # 1
    BY DEF InLoop
  <2> QED
    BY <1>1, <1>2, <1>4, <2>1, ReturnStack
<1>6. /\ SendBlocks(stack[t]) \subseteq Blocks /\ \A u \in Threads : SendBlocks(stack[u]) \subseteq Blocks
      /\ SendBlocks(stack[t]) \subseteq allocated
      /\ Sending(Top(t)) => Top(t).b \in SendBlocks(stack[t])
  BY SendBlocksType, TopOK DEF Base
<1>7. \A b \in SendBlocks(new) : lptm'[b].dwThreadIDOfSender = t
  <2>1. \A b \in SendBlocks(stack[t]) : lptm[b].dwThreadIDOfSender = t
    BY DEF Base
  <2> QED
    BY <1>5, <1>6, <2>1 DEF SendersKept
<1>8. allocated' = (allocated \ SendBlocks(stack[t])) \cup SendBlocks(new)
  BY <1>5, <1>6
<1>9. \A u \in Threads \ {t} : \A b \in SendBlocks(stack[u]) :
         lptm'[b].dwThreadIDOfSender = lptm[b].dwThreadIDOfSender
  BY <1>6 DEF SendersKept
<1>10. Base'
  BY <1>3, <1>5, <1>7, <1>8, <1>9, StackBase
<1> QED
  BY <1>1, <1>3, <1>4, <1>10

-----------------------------------------------------------------------------
(* What a step does to the calls, the answers and the sleepers *)

\* The innermost call of t afterwards.
LEMMA TopAfter ==
  ASSUME NEW t \in Threads, Base'
  PROVE  Top(t)' = stack'[t][1]
<1>1. stack'[t] \in Seq(Frame) /\ stack'[t] # <<>>
  BY DEF Base, StackOK
<1>2. Head(stack'[t]) = stack'[t][1]
  BY <1>1, HeadTailProperties, EmptySeq
<1> QED
  BY <1>2 DEF Top

\* t went on at l, started the call f from l, or returned from its innermost call.
Went(t, l) ==
  /\ Replaced(stack[t], [Top(t) EXCEPT !.pc = l], stack'[t])
  /\ \A u \in Threads \ {t} : stack'[u] = stack[u]

Called(t, l, f) ==
  /\ Pushed(stack[t], f, [Top(t) EXCEPT !.pc = l], stack'[t])
  /\ \A u \in Threads \ {t} : stack'[u] = stack[u]

Returned(t) ==
  /\ Popped(stack[t], stack'[t])
  /\ \A u \in Threads \ {t} : stack'[u] = stack[u]

LEMMA WentTop ==
  ASSUME Base, Base', NEW t \in Threads, NEW l \in Labels, Went(t, l)
  PROVE  /\ Top(t)'.pc = l /\ Top(t)'.b = Top(t).b /\ Top(t)'.to = Top(t).to
         /\ InLoop(t)' <=> InLoop(t)
         /\ \A u \in Threads \ {t} : Top(u)' = Top(u) /\ (InLoop(u)' <=> InLoop(u))
<1>1. Top(t)' = [Top(t) EXCEPT !.pc = l] /\ Len(stack'[t]) = Len(stack[t])
  BY TopAfter DEF Went, Replaced
<1>2. Top(t) \in Frame
  BY TopOK
<1> QED
  BY <1>1, <1>2, SetLabel DEF Went, Top, InLoop

LEMMA CalledTop ==
  ASSUME Base, Base', NEW t \in Threads, NEW l, NEW f, Called(t, l, f)
  PROVE  /\ Top(t)' = f
         /\ \A u \in Threads \ {t} : Top(u)' = Top(u) /\ (InLoop(u)' <=> InLoop(u))
<1>1. Top(t)' = f
  BY TopAfter DEF Called, Pushed
<1> QED
  BY <1>1 DEF Called, Top, InLoop

LEMMA ReturnedTop ==
  ASSUME Base, Base', NEW t \in Threads, ~InLoop(t), Returned(t)
  PROVE  /\ Top(t)'.pc \in {"peek", "proc", "drain", "dispatched"}
         /\ \A u \in Threads \ {t} : Top(u)' = Top(u) /\ (InLoop(u)' <=> InLoop(u))
<1>1. Len(stack[t]) \in Nat \ {0} /\ Len(stack[t]) # 1
  BY TopOK DEF InLoop
<1>2. 1 \in 1 .. Len(stack[t]) - 1 /\ 2 \in 2 .. Len(stack[t])
  BY <1>1, Places, Zenon
<1>3. stack'[t][1] = stack[t][2]
  <2>1. stack'[t][1] = stack[t][1 + 1]
    BY <1>2 DEF Returned, Popped
  <2> QED
    BY <2>1
<1>5. stack[t][2].pc \in {"peek", "proc", "drain", "dispatched"}
  BY <1>2 DEF Base, StackOK
<1> QED
  BY <1>3, <1>5, TopAfter DEF Returned, Top, InLoop

\* The call f and the answer it waits for, or works on, belong together.
AnswerIn(f, L, A) ==
  /\ Sending(f) => L[f.b].msg = f.msg /\ (L[f.b].uFlag = 2 => L[f.b].lResult = f.msg)
  /\ f.pc = "handled" => L[f.b].uFlag = 2
  /\ f.b # NULL /\ ~Sending(f) /\ f.b \in A => f.msg = L[f.b].msg

Answers == \A t \in Threads : \A i \in 1 .. Len(stack[t]) : AnswerIn(stack[t][i], lptm, allocated)

\* The calls that a step of t leaves as they are.
RestAnswers(t) ==
  \A u \in Threads : \A i \in 1 .. Len(stack[u]) :
    u # t \/ i # 1 => AnswerIn(stack[u][i], lptm', allocated')

LEMMA WentAnswers ==
  ASSUME Base, NEW t \in Threads, NEW l \in Labels, Went(t, l), RestAnswers(t),
         AnswerIn([Top(t) EXCEPT !.pc = l], lptm', allocated')
  PROVE  Answers'
<1>1. Len(stack[t]) \in Nat \ {0}
  BY TopOK
<1>2. \A i \in 1 .. Len(stack[t]) : i = 1 \/ i \in 2 .. Len(stack[t])
  BY <1>1
<1>3. \A i \in 1 .. Len(stack'[t]) : AnswerIn(stack'[t][i], lptm', allocated')
  BY <1>2 DEF Went, Replaced, RestAnswers
<1>4. \A u \in Threads \ {t} : \A i \in 1 .. Len(stack'[u]) : AnswerIn(stack'[u][i], lptm', allocated')
  BY DEF Went, RestAnswers
<1> QED
  BY <1>3, <1>4 DEF Answers, AnswerIn, Sending

LEMMA CalledAnswers ==
  ASSUME Base, NEW t \in Threads, NEW l, NEW f, Called(t, l, f), RestAnswers(t),
         AnswerIn([Top(t) EXCEPT !.pc = l], lptm', allocated'), AnswerIn(f, lptm', allocated')
  PROVE  Answers'
<1>1. Len(stack[t]) \in Nat \ {0}
  BY TopOK
<1>2. \A i \in 1 .. Len(stack[t]) + 1 :
        i = 1 \/ i = 2 \/ (i - 1 \in 2 .. Len(stack[t]) /\ i - 1 \in 1 .. Len(stack[t]) /\ i - 1 # 1 /\ (i - 1) + 1 = i)
  BY <1>1
<1>3. \A i \in 1 .. Len(stack'[t]) : AnswerIn(stack'[t][i], lptm', allocated')
  <2>1. /\ Len(stack'[t]) = Len(stack[t]) + 1
        /\ stack'[t][1] = f /\ stack'[t][2] = [Top(t) EXCEPT !.pc = l]
        /\ \A i \in 2 .. Len(stack[t]) : stack'[t][i + 1] = stack[t][i]
    BY DEF Called, Pushed
  <2> SUFFICES ASSUME NEW i \in 1 .. Len(stack[t]) + 1 PROVE AnswerIn(stack'[t][i], lptm', allocated')
    BY <2>1
  <2>2. CASE i - 1 \in 2 .. Len(stack[t]) /\ i - 1 \in 1 .. Len(stack[t]) /\ i - 1 # 1 /\ (i - 1) + 1 = i
    <3>1. stack'[t][i] = stack[t][i - 1]
      BY <2>1, <2>2
    <3> QED
      BY <2>2, <3>1 DEF RestAnswers
  <2> QED
    BY <1>2, <2>1, <2>2
<1>4. \A u \in Threads \ {t} : \A i \in 1 .. Len(stack'[u]) : AnswerIn(stack'[u][i], lptm', allocated')
  BY DEF Called, RestAnswers
<1> QED
  BY <1>3, <1>4 DEF Answers, AnswerIn, Sending

LEMMA ReturnedAnswers ==
  ASSUME Base, NEW t \in Threads, Returned(t), RestAnswers(t)
  PROVE  Answers'
<1>1. Len(stack[t]) \in Nat \ {0}
  BY TopOK
<1>2. \A i \in 1 .. Len(stack[t]) - 1 : i + 1 \in 1 .. Len(stack[t]) /\ i + 1 # 1
  BY <1>1
<1>3. \A i \in 1 .. Len(stack'[t]) : AnswerIn(stack'[t][i], lptm', allocated')
  BY <1>2 DEF Returned, Popped, RestAnswers
<1>4. \A u \in Threads \ {t} : \A i \in 1 .. Len(stack'[u]) : AnswerIn(stack'[u][i], lptm', allocated')
  BY DEF Returned, RestAnswers
<1> QED
  BY <1>3, <1>4 DEF Answers, AnswerIn, Sending

\* The threads that sleep, over a step of t.
LEMMA SleepersKept ==
  ASSUME NoSleepWithWork, NEW t \in Threads,
         \A u \in Threads \ {t} : Top(u)' = Top(u) /\ (InLoop(u)' <=> InLoop(u)),
         \A u \in Threads \ {t} : hWaitEvent[u] => hWaitEvent'[u],
         \A u \in Threads \ {t} : Top(u).pc = "signal" =>
           lptm'[Top(u).b].dwThreadIDOfSender = lptm[Top(u).b].dwThreadIDOfSender,
         Top(t).pc = "wake" => Top(t).to \in Threads /\ hWaitEvent'[Top(t).to],
         Top(t).pc = "signal" => \A u \in Threads : lptm[Top(t).b].dwThreadIDOfSender = u => hWaitEvent'[u],
         \A u \in Threads \ {t} : queue'[u] # <<>> /\ u \in windows' =>
           \/ queue[u] # <<>> /\ u \in windows
           \/ Top(t)'.pc = "wake" /\ Top(t)'.to = u,
         \A u \in Threads \ {t} : Top(u).pc = "wait" /\ ~InLoop(u) /\ lptm'[Top(u).b].uFlag = 2 =>
           \/ lptm[Top(u).b].uFlag = 2
           \/ Top(t)'.pc = "signal" /\ lptm'[Top(t)'.b].dwThreadIDOfSender = u,
         Top(t)'.pc = "wait" /\ ~hWaitEvent'[t] =>
           IF InLoop(t)' THEN queue'[t] = <<>> \/ t \notin windows' ELSE lptm'[Top(t)'.b].uFlag # 2
  PROVE  NoSleepWithWork'
<1> SUFFICES ASSUME NEW u \in Threads, Top(u)'.pc = "wait", ~hWaitEvent'[u]
             PROVE  Waking(u)' \/ IF InLoop(u)' THEN queue'[u] = <<>> \/ u \notin windows'
                                                 ELSE lptm'[Top(u)'.b].uFlag # 2
  BY DEF NoSleepWithWork
<1>1. CASE u = t
  BY <1>1
<1>2. CASE u # t
  <2>1. Top(u).pc = "wait" /\ ~hWaitEvent[u]
    BY <1>2
  <2>2. Waking(u) => Waking(u)'
    <3> SUFFICES ASSUME Waking(u) PROVE Waking(u)'
      OBVIOUS
    <3>1. PICK v \in Threads : \/ Top(v).pc = "wake" /\ Top(v).to = u
                               \/ Top(v).pc = "signal" /\ lptm[Top(v).b].dwThreadIDOfSender = u
      BY DEF Waking
    <3>2. v # t
      BY <3>1
    <3> QED
      BY <3>1, <3>2 DEF Waking
  <2>3. Waking(u) \/ IF InLoop(u) THEN queue[u] = <<>> \/ u \notin windows ELSE lptm[Top(u).b].uFlag # 2
    BY <2>1 DEF NoSleepWithWork
  <2>4. CASE InLoop(u)
    BY <1>2, <2>2, <2>3, <2>4 DEF Waking
  <2>5. CASE ~InLoop(u)
    BY <1>2, <2>1, <2>2, <2>3, <2>5 DEF Waking
  <2> QED
    BY <2>4, <2>5
<1> QED
  BY <1>1, <1>2

-----------------------------------------------------------------------------
(* Steps that change no block *)

LEMMA TopPlace ==
  ASSUME Base, NEW t \in Threads
  PROVE  1 \in 1 .. Len(stack[t])
<1>1. Len(stack[t]) \in Nat \ {0}
  BY TopOK
<1> QED
  BY <1>1, Places, Zenon

LEMMA TopAnswer ==
  ASSUME Base, Answers, NEW t \in Threads
  PROVE  AnswerIn(Top(t), lptm, allocated)
<1>1. Top(t) = stack[t][1]
  BY TopOK
<1> QED
  BY <1>1, TopPlace DEF Answers

LEMMA GotoStep ==
  ASSUME Base, NEW t \in Threads, NEW l \in Labels, Goto(t, l), GoesOn(t, l), Kept,
         lptm' = lptm, allocated' = allocated,
         l = "handled" => lptm[Top(t).b].uFlag = 2
  PROVE  Base' /\ Went(t, l) /\ (Answers => Answers')
<1>1. Base' /\ Went(t, l)
  BY GotoBase DEF SendersKept, Went
<1>2. ASSUME Answers PROVE Answers'
  <2> DEFINE g == [Top(t) EXCEPT !.pc = l]
  <2>1. g.pc = l /\ g.b = Top(t).b /\ g.to = Top(t).to /\ g.msg = Top(t).msg
    BY TopOK, SetLabel
  <2>2. AnswerIn(g, lptm, allocated)
    BY <1>2, <2>1, TopAnswer DEF AnswerIn, Sending
  <2>3. RestAnswers(t)
    BY <1>2 DEF RestAnswers, Answers
  <2> QED
    BY <1>1, <2>2, <2>3, WentAnswers
<1> QED
  BY <1>1, <1>2

LEMMA CallStep ==
  ASSUME Base, NEW t \in Threads, NEW l \in {"peek", "proc", "drain", "dispatched"},
         NEW f \in Frame, Call(t, l, f), FrameOK(f), f.pc \notin {"peek", "wait"}, ~Sending(f),
         l = "dispatched" => Sending(Top(t)), l = "proc" => ~Sending(Top(t)),
         InLoop(t) <=> l = "peek",
         l = "drain" => Sending(Top(t)),
         f.b # NULL => f.msg = lptm[f.b].msg,
         Kept, lptm' = lptm, allocated' = allocated
  PROVE  Base' /\ Called(t, l, f) /\ (Answers => Answers')
<1>1. Base' /\ Called(t, l, f)
  BY CallBase DEF Called
<1>2. ASSUME Answers PROVE Answers'
  <2> DEFINE g == [Top(t) EXCEPT !.pc = l]
  <2>1. g.pc = l /\ g.b = Top(t).b /\ g.to = Top(t).to /\ g.msg = Top(t).msg
    BY TopOK, SetLabel DEF Labels
  <2>2. AnswerIn(g, lptm, allocated)
    BY <1>2, <2>1, TopAnswer DEF AnswerIn, Sending
  <2>3. RestAnswers(t)
    BY <1>2 DEF RestAnswers, Answers
  <2>4. AnswerIn(f, lptm, allocated)
    BY DEF AnswerIn, FrameOK, SendLabels
  <2> QED
    BY <1>1, <2>2, <2>3, <2>4, CalledAnswers
<1> QED
  BY <1>1, <1>2

LEMMA ReturnStep ==
  ASSUME Base, NEW t \in Threads, ~InLoop(t), Return(t), Kept, ~Sending(Top(t)),
         lptm' = lptm, allocated' = allocated
  PROVE  Base' /\ Returned(t) /\ (Answers => Answers')
<1>1. Base' /\ Returned(t)
  BY ReturnBase DEF SendersKept, Returned
<1>2. ASSUME Answers PROVE Answers'
  <2>1. RestAnswers(t)
    BY <1>2 DEF RestAnswers, Answers
  <2> QED
    BY <1>1, <2>1, ReturnedAnswers
<1> QED
  BY <1>1, <1>2

-----------------------------------------------------------------------------
(* The actions *)

\* What every step of t has to show.
Keeps ==
  /\ Base'
  /\ ~ReuseBlocks /\ Answers => Answers'
  /\ ~ReuseBlocks /\ NoSleepWithWork => NoSleepWithWork'

\* A call looks at what is there, and goes on.
LEMMA LookKeeps ==
  ASSUME Base, NEW t \in Threads, Test(t) \/ Timeout(t) \/ Woken(t) \/ Dispatched(t)
  PROVE  Keeps
<1>1. PICK l \in {"handled", "wait", "failed", "drain", "test"} :
        /\ Goto(t, l)
        /\ l = "handled" => lptm[Top(t).b].uFlag = 2
        /\ l = "wait" => lptm[Top(t).b].uFlag # 2
  BY DEF Test, Timeout, Woken, Dispatched
<1>2. /\ Top(t).pc \in {"test", "wait", "woken", "dispatched"}
      /\ Top(t).pc = "wait" => Top(t).timed
      /\ UNCHANGED <<queue, hWaitEvent, windows, lptm, allocated, sent>>
  BY DEF Test, Timeout, Woken, Dispatched
<1>3. Sending(Top(t)) /\ ~InLoop(t)
  BY <1>2, TopOK DEF InLoop, FrameOK, SendLabels, Sending
<1>4. l \in Labels /\ GoesOn(t, l)
  BY <1>3 DEF Labels, GoesOn, SendLabels
<1>5. Kept
  BY <1>2 DEF Kept, Base
<1>6. Base' /\ Went(t, l) /\ (Answers => Answers')
  BY <1>1, <1>2, <1>4, <1>5, GotoStep
<1>7. ASSUME NoSleepWithWork PROVE NoSleepWithWork'
  BY <1>1, <1>2, <1>3, <1>4, <1>6, <1>7, WentTop, SleepersKept
<1> QED
  BY <1>6, <1>7 DEF Keeps

LEMMA WaitMessageKeeps ==
  ASSUME Base, NEW t \in Threads, WaitMessage(t)
  PROVE  Keeps
<1> DEFINE l == IF InLoop(t) THEN "peek" ELSE "woken"
<1>1. /\ Goto(t, l) /\ Top(t).pc = "wait"
      /\ hWaitEvent' = [hWaitEvent EXCEPT ![t] = FALSE]
      /\ UNCHANGED <<queue, windows, lptm, allocated, sent>>
  BY DEF WaitMessage
<1>2. l \in Labels /\ GoesOn(t, l)
  BY <1>1, TopOK DEF Labels, GoesOn, SendLabels, InLoop, Sending
<1>3. hWaitEvent' \in [Threads -> BOOLEAN] /\ \A u \in Threads \ {t} : hWaitEvent'[u] = hWaitEvent[u]
  BY <1>1 DEF Base
<1>4. Kept
  BY <1>1, <1>3 DEF Kept, Base
<1>5. Base' /\ Went(t, l) /\ (Answers => Answers')
  BY <1>1, <1>2, <1>4, GotoStep
<1>6. ASSUME NoSleepWithWork PROVE NoSleepWithWork'
  BY <1>1, <1>2, <1>3, <1>5, <1>6, WentTop, SleepersKept
<1> QED
  BY <1>5, <1>6 DEF Keeps

LEMMA ProcReturnsKeeps ==
  ASSUME Base, NEW t \in Threads, ProcReturns(t)
  PROVE  Keeps
<1>1. /\ Top(t).pc = "proc" /\ UNCHANGED <<queue, hWaitEvent, windows, lptm, allocated, sent>>
      /\ IF Top(t).b = NULL THEN Return(t) ELSE Goto(t, "result")
  BY DEF ProcReturns
<1>2. ~InLoop(t) /\ ~Sending(Top(t)) /\ Kept
  BY <1>1, TopOK DEF InLoop, FrameOK, SendLabels, Kept, Base
<1>3. CASE Top(t).b = NULL
  <2>1. Base' /\ Returned(t) /\ (Answers => Answers')
    BY <1>1, <1>2, <1>3, ReturnStep
  <2>2. ASSUME NoSleepWithWork PROVE NoSleepWithWork'
    BY <1>1, <1>2, <2>1, <2>2, ReturnedTop, SleepersKept
  <2> QED
    BY <2>1, <2>2 DEF Keeps
<1>4. CASE Top(t).b # NULL
  <2>1. "result" \in Labels /\ GoesOn(t, "result")
    BY <1>2, <1>4 DEF Labels, GoesOn, SendLabels
  <2>2. Base' /\ Went(t, "result") /\ (Answers => Answers')
    BY <1>1, <1>2, <1>4, <2>1, GotoStep
  <2>3. ASSUME NoSleepWithWork PROVE NoSleepWithWork'
    BY <1>1, <2>1, <2>2, <2>3, WentTop, SleepersKept
  <2> QED
    BY <2>2, <2>3 DEF Keeps
<1> QED
  BY <1>3, <1>4

LEMMA SignalSenderKeeps ==
  ASSUME Base, NEW t \in Threads, SignalSender(t)
  PROVE  Keeps
<1>1. /\ Top(t).pc = "signal" /\ Return(t)
      /\ hWaitEvent' = [hWaitEvent EXCEPT ![lptm[Top(t).b].dwThreadIDOfSender] = TRUE]
      /\ UNCHANGED <<queue, windows, lptm, allocated, sent>>
  BY DEF SignalSender
<1>2. ~InLoop(t) /\ ~Sending(Top(t))
  BY <1>1, TopOK DEF InLoop, FrameOK, SendLabels
<1>3. /\ hWaitEvent' \in [Threads -> BOOLEAN]
      /\ \A u \in Threads : hWaitEvent[u] => hWaitEvent'[u]
      /\ \A u \in Threads : lptm[Top(t).b].dwThreadIDOfSender = u => hWaitEvent'[u]
  BY <1>1 DEF Base
<1>4. Kept
  BY <1>1, <1>3 DEF Kept, Base
<1>5. Base' /\ Returned(t) /\ (Answers => Answers')
  BY <1>1, <1>2, <1>4, ReturnStep
<1>6. ASSUME NoSleepWithWork PROVE NoSleepWithWork'
  BY <1>1, <1>2, <1>3, <1>5, <1>6, ReturnedTop, SleepersKept
<1> QED
  BY <1>5, <1>6 DEF Keeps

LEMMA WakeKeeps ==
  ASSUME Base, NEW t \in Threads, Wake(t)
  PROVE  Keeps
<1>1. /\ Top(t).pc = "wake"
      /\ hWaitEvent' = [hWaitEvent EXCEPT ![Top(t).to] = TRUE]
      /\ IF Top(t).b = NULL THEN Return(t) ELSE Goto(t, "test")
      /\ UNCHANGED <<queue, windows, lptm, allocated, sent>>
  BY DEF Wake
<1>2. ~InLoop(t) /\ Top(t).to \in Threads
  BY <1>1, TopOK DEF InLoop, FrameOK, Frame
<1>3. /\ hWaitEvent' \in [Threads -> BOOLEAN]
      /\ \A u \in Threads : hWaitEvent[u] => hWaitEvent'[u]
      /\ hWaitEvent'[Top(t).to]
  BY <1>1, <1>2 DEF Base
<1>4. Kept
  BY <1>1, <1>3 DEF Kept, Base
<1>5. CASE Top(t).b = NULL
  <2>1. Base' /\ Returned(t) /\ (Answers => Answers')
    BY <1>1, <1>2, <1>4, <1>5, ReturnStep DEF Sending
  <2>2. ASSUME NoSleepWithWork PROVE NoSleepWithWork'
    BY <1>1, <1>2, <1>3, <2>1, <2>2, ReturnedTop, SleepersKept
  <2> QED
    BY <2>1, <2>2 DEF Keeps
<1>6. CASE Top(t).b # NULL
  <2>1. "test" \in Labels /\ GoesOn(t, "test")
    BY <1>2, <1>6, ConstantFacts DEF Labels, GoesOn, SendLabels, Sending
  <2>2. Base' /\ Went(t, "test") /\ (Answers => Answers')
    BY <1>1, <1>4, <1>6, <2>1, GotoStep
  <2>3. ASSUME NoSleepWithWork PROVE NoSleepWithWork'
    BY <1>1, <1>2, <1>3, <2>1, <2>2, <2>3, WentTop, SleepersKept
  <2> QED
    BY <2>2, <2>3 DEF Keeps
<1> QED
  BY <1>5, <1>6

\* AddMsgToThreadQueue puts a message in, and then its thread is to be woken.
LEMMA InsertKeeps ==
  ASSUME Base, NEW t \in Threads, Insert(t)
  PROVE  Keeps
<1>1. Top(t).pc = "insert" /\ UNCHANGED <<hWaitEvent, windows, lptm, allocated, sent>>
  BY DEF Insert
<1>2. /\ ~InLoop(t) /\ Top(t).to \in Threads /\ Top(t).to # NULL
      /\ Top(t).b \in Blocks \cup {NULL}
  BY <1>1, TopOK DEF InLoop, FrameOK, Frame
<1>3. CASE Top(t).to \in windows
  <2>1. /\ queue' = [queue EXCEPT ![Top(t).to] = Append(queue[Top(t).to], Top(t).b)]
        /\ Goto(t, "wake")
    BY <1>3 DEF Insert
  <2>2. queue' \in [Threads -> Seq(Blocks \cup {NULL})]
    <3>1. queue[Top(t).to] \in Seq(Blocks \cup {NULL})
      BY <1>2 DEF Base
    <3>2. Append(queue[Top(t).to], Top(t).b) \in Seq(Blocks \cup {NULL})
      BY <1>2, <3>1
    <3> QED
      BY <2>1, <3>2 DEF Base
  <2>3. \A u \in Threads : u # Top(t).to => queue'[u] = queue[u]
    BY <2>1 DEF Base
  <2>4. Kept
    BY <1>1, <2>2 DEF Kept, Base
  <2>5. "wake" \in Labels /\ GoesOn(t, "wake")
    BY <1>2 DEF Labels, GoesOn, SendLabels
  <2>6. Base' /\ Went(t, "wake") /\ (Answers => Answers')
    BY <1>1, <2>1, <2>4, <2>5, GotoStep
  <2>7. ASSUME NoSleepWithWork PROVE NoSleepWithWork'
    BY <1>1, <2>3, <2>5, <2>6, <2>7, WentTop, SleepersKept
  <2> QED
    BY <2>6, <2>7 DEF Keeps
<1>4. CASE Top(t).to \notin windows /\ Top(t).b = NULL
  <2>1. Return(t) /\ queue' = queue
    BY <1>4 DEF Insert
  <2>2. Kept
    BY <1>1, <2>1 DEF Kept, Base
  <2>3. Base' /\ Returned(t) /\ (Answers => Answers')
    BY <1>1, <1>2, <1>4, <2>1, <2>2, ReturnStep DEF Sending
  <2>4. ASSUME NoSleepWithWork PROVE NoSleepWithWork'
    BY <1>1, <1>2, <2>1, <2>3, <2>4, ReturnedTop, SleepersKept
  <2> QED
    BY <2>3, <2>4 DEF Keeps
<1>5. CASE Top(t).to \notin windows /\ Top(t).b # NULL
  <2>1. Goto(t, "test") /\ queue' = queue
    BY <1>5 DEF Insert
  <2>2. Kept
    BY <1>1, <2>1 DEF Kept, Base
  <2>3. "test" \in Labels /\ GoesOn(t, "test")
    BY <1>2, <1>5 DEF Labels, GoesOn, SendLabels, Sending
  <2>4. Base' /\ Went(t, "test") /\ (Answers => Answers')
    BY <1>1, <2>1, <2>2, <2>3, GotoStep
  <2>5. ASSUME NoSleepWithWork PROVE NoSleepWithWork'
    BY <1>1, <2>1, <2>3, <2>4, <2>5, WentTop, SleepersKept
  <2> QED
    BY <2>4, <2>5 DEF Keeps
<1> QED
  BY <1>3, <1>4, <1>5

\* WinMsg_Peek finds nothing.
LEMMA PeekNoneKeeps ==
  ASSUME Base, NEW t \in Threads, PeekNone(t)
  PROVE  Keeps
<1> DEFINE l == IF InLoop(t) THEN "wait" ELSE "test"
<1>1. /\ Peeks(t) /\ Goto(t, l) /\ queue' = [queue EXCEPT ![t] = <<>>]
      /\ UNCHANGED <<hWaitEvent, windows, lptm, allocated, sent>>
  BY DEF PeekNone
<1>2. /\ queue' \in [Threads -> Seq(Blocks \cup {NULL})] /\ queue'[t] = <<>>
      /\ \A u \in Threads \ {t} : queue'[u] = queue[u]
  <2>1. <<>> \in Seq(Blocks \cup {NULL})
    OBVIOUS
  <2> QED
    BY <1>1, <2>1 DEF Base
<1>3. Kept
  BY <1>1, <1>2 DEF Kept, Base
<1>4. l \in Labels /\ GoesOn(t, l) /\ Top(t).pc \notin {"wake", "signal"}
  BY <1>1, TopOK DEF Labels, GoesOn, SendLabels, Peeks, FrameOK, Sending, InLoop
<1>5. Base' /\ Went(t, l) /\ (Answers => Answers')
  BY <1>1, <1>3, <1>4, GotoStep
<1>6. ASSUME NoSleepWithWork PROVE NoSleepWithWork'
  BY <1>1, <1>2, <1>4, <1>5, <1>6, WentTop, SleepersKept
<1> QED
  BY <1>5, <1>6 DEF Keeps

\* It finds a message.
LEMMA PeekKeeps ==
  ASSUME Base, NEW t \in Threads, PeekPosted(t) \/ PeekSent(t)
  PROVE  Keeps
<1>1. /\ Peeks(t) /\ queue[t] # <<>> /\ queue' = [queue EXCEPT ![t] = Tail(queue[t])]
      /\ UNCHANGED <<hWaitEvent, windows, lptm, allocated, sent>>
  BY DEF PeekPosted, PeekSent
<1>2. /\ queue' \in [Threads -> Seq(Blocks \cup {NULL})] /\ Head(queue[t]) \in Blocks \cup {NULL}
      /\ \A u \in Threads \ {t} : queue'[u] = queue[u]
  <2>1. queue[t] \in Seq(Blocks \cup {NULL})
    BY DEF Base
  <2>2. Tail(queue[t]) \in Seq(Blocks \cup {NULL}) /\ Head(queue[t]) \in Blocks \cup {NULL}
    BY <1>1, <2>1, HeadTailProperties
  <2> QED
    BY <1>1, <2>2 DEF Base
<1>3. Kept
  BY <1>1, <1>2 DEF Kept, Base
<1>4. Top(t).pc \in {"peek", "drain"} /\ (InLoop(t) <=> Top(t).pc = "peek")
  BY <1>1, TopOK DEF Peeks, InLoop
<1>5. \E l \in {"peek", "drain", "dispatched"}, f \in Frame :
        /\ Call(t, l, f)
        /\ FrameOK(f) /\ f.pc \notin {"peek", "wait"} /\ ~Sending(f)
        /\ f.b # NULL => f.msg = lptm[f.b].msg
        /\ InLoop(t) <=> l = "peek"
  <2>1. CASE PeekPosted(t)
    <3> DEFINE f == [Loop EXCEPT !.pc = "proc"]
               l == IF InLoop(t) THEN "peek" ELSE "dispatched"
    <3>1. f \in Frame /\ f.pc = "proc" /\ f.b = NULL
      BY LoopType, SetLabel DEF Labels
    <3>2. Call(t, l, f)
      BY <2>1 DEF PeekPosted
    <3> QED
      BY <3>1, <3>2 DEF FrameOK, Sending, SendLabels
  <2>2. CASE PeekSent(t)
    <3> DEFINE b == Head(queue[t])
               k == IF lptm[b].msg = NULL THEN "result" ELSE "proc"
               f == [Loop EXCEPT !.pc = k, !.b = b, !.msg = lptm[b].msg]
    <3>1. b \in Blocks /\ Call(t, Top(t).pc, f)
      BY <1>2, <2>2 DEF PeekSent
    <3>2. lptm[b].msg \in Messages \cup {NULL} /\ k \in {"result", "proc"}
      BY <3>1 DEF Base, THREADMSG
    <3>3. f \in Frame /\ f.pc = k /\ f.b = b /\ f.msg = lptm[b].msg /\ f.to = NULL
      BY <3>1, <3>2 DEF Frame, Loop
    <3> HIDE DEF f, k, b
    <3>4. FrameOK(f) /\ ~Sending(f)
      BY <3>1, <3>2, <3>3, ConstantFacts DEF FrameOK, Sending, SendLabels
    <3> QED
      BY <1>4, <3>1, <3>2, <3>3, <3>4
  <2> QED
    BY <2>1, <2>2
<1>6. PICK l \in {"peek", "drain", "dispatched"}, f \in Frame :
        /\ Call(t, l, f)
        /\ FrameOK(f) /\ f.pc \notin {"peek", "wait"} /\ ~Sending(f)
        /\ f.b # NULL => f.msg = lptm[f.b].msg
        /\ InLoop(t) <=> l = "peek"
  BY <1>5
<1>7. l # "peek" => Sending(Top(t))
  BY <1>4, <1>6, TopOK DEF FrameOK, SendLabels
<1>8. Base' /\ Called(t, l, f) /\ (Answers => Answers')
  BY <1>1, <1>3, <1>6, <1>7, CallStep
<1>9. ASSUME NoSleepWithWork PROVE NoSleepWithWork'
  <2>1. Top(t)'.pc # "wait"
    BY <1>6, <1>8, CalledTop
  <2> QED
    BY <1>1, <1>2, <1>4, <1>8, <1>9, <2>1, CalledTop, SleepersKept
<1> QED
  BY <1>8, <1>9 DEF Keeps

\* WinMsg_Post
LEMMA PostKeeps ==
  ASSUME Base, NEW t \in Threads, NEW w \in Threads, Post(t, w)
  PROVE  Keeps
<1> DEFINE f == [Loop EXCEPT !.pc = "insert", !.to = w]
           l == Top(t).pc
<1>1. /\ Call(t, l, f) /\ MaySend(t, w)
      /\ UNCHANGED <<queue, hWaitEvent, windows, lptm, allocated>>
  BY DEF Post
<1>2. f \in Frame /\ f.pc = "insert" /\ f.b = NULL /\ f.to = w /\ w # NULL
  BY ConstantFacts DEF Frame, Loop
<1>3. sent' \in 0 .. MaxSends
  BY <1>1, ConstantFacts DEF MaySend, Base
<1>4. Kept
  BY <1>1, <1>3 DEF Kept, Base
<1>5. l \in {"proc", "peek"} /\ (InLoop(t) <=> l = "peek") /\ (l = "proc" => ~Sending(Top(t)))
  BY <1>1, TopOK DEF MaySend, InLoop, FrameOK, SendLabels
<1> HIDE DEF f, l
<1>6. FrameOK(f) /\ ~Sending(f)
  BY <1>2 DEF FrameOK, Sending, SendLabels
<1>7. Base' /\ Called(t, l, f) /\ (Answers => Answers')
  BY <1>1, <1>2, <1>4, <1>5, <1>6, CallStep
<1>8. ASSUME NoSleepWithWork PROVE NoSleepWithWork'
  <2>1. Top(t)'.pc # "wait"
    BY <1>2, <1>7, CalledTop
  <2> QED
    BY <1>1, <1>5, <1>7, <1>8, <2>1, CalledTop, SleepersKept DEF l
<1> QED
  BY <1>7, <1>8 DEF Keeps

LEMMA DestroyWindowKeeps ==
  ASSUME Base, NEW t \in Threads, DestroyWindow(t)
  PROVE  Keeps
<1>1. /\ Top(t).pc = "proc" /\ windows' = windows \ {t}
      /\ UNCHANGED <<queue, hWaitEvent, lptm, allocated, stack, sent>>
  BY DEF DestroyWindow
<1>2. Base'
  BY <1>1 DEF Base
<1>3. Answers => Answers'
  BY <1>1 DEF Answers, AnswerIn, Sending
<1>4. \A u \in Threads : Top(u)' = Top(u) /\ (InLoop(u)' <=> InLoop(u))
  BY <1>1 DEF Top, InLoop
<1>5. ASSUME NoSleepWithWork PROVE NoSleepWithWork'
  BY <1>1, <1>4, <1>5, SleepersKept
<1> QED
  BY <1>2, <1>3, <1>5 DEF Keeps

\* The blocks in use are those of the calls that send.
LEMMA SendingBlock ==
  ASSUME Base, NEW u \in Threads, NEW i \in 1 .. Len(stack[u]), Sending(stack[u][i])
  PROVE  /\ stack[u][i].b \in allocated
         /\ lptm[stack[u][i].b].dwThreadIDOfSender = u
<1>1. stack[u][i].b \in SendBlocks(stack[u])
  BY SendBlocksOf
<1> QED
  BY <1>1 DEF Base

\* The block x with another message, result and flag.
Changed(x, m, a, k) == [x EXCEPT !.msg = m, !.lResult = a, !.uFlag = k]

LEMMA ChangedBlock ==
  ASSUME NEW x \in THREADMSG, NEW m \in Messages \cup {NULL}, NEW a \in Messages \cup {NULL}, NEW k \in 0 .. 2
  PROVE  /\ Changed(x, m, a, k) \in THREADMSG
         /\ Changed(x, m, a, k).msg = m /\ Changed(x, m, a, k).lResult = a /\ Changed(x, m, a, k).uFlag = k
         /\ Changed(x, m, a, k).dwThreadIDOfSender = x.dwThreadIDOfSender
  BY DEF THREADMSG, Changed

LEMMA PutAnswerKeeps ==
  ASSUME Base, NEW t \in Threads, PutAnswer(t)
  PROVE  Keeps
<1> DEFINE b == Top(t).b
<1>1. /\ Top(t).pc = "result" /\ Goto(t, "signal")
      /\ lptm' = [lptm EXCEPT ![b].lResult = Top(t).msg, ![b].uFlag = 2]
      /\ UNCHANGED <<queue, hWaitEvent, windows, allocated, sent>>
  BY DEF PutAnswer
<1>2. /\ ~InLoop(t) /\ ~Sending(Top(t)) /\ b \in Blocks /\ b # NULL
      /\ Top(t).msg \in Messages \cup {NULL}
  BY <1>1, TopOK DEF InLoop, FrameOK, SendLabels, Frame
<1> HIDE DEF b
<1>3. lptm \in [Blocks -> THREADMSG]
  BY DEF Base
<1>4. /\ lptm' \in [Blocks -> THREADMSG]
      /\ \A c \in Blocks : lptm'[c].msg = lptm[c].msg
                        /\ lptm'[c].dwThreadIDOfSender = lptm[c].dwThreadIDOfSender
      /\ \A c \in Blocks : c # b => lptm'[c] = lptm[c]
      /\ lptm'[b].uFlag = 2 /\ lptm'[b].lResult = Top(t).msg
  <2> DEFINE r == Changed(lptm[b], lptm[b].msg, Top(t).msg, 2)
  <2>1. lptm[b] \in THREADMSG
    BY <1>2, <1>3
  <2>2. lptm' = [lptm EXCEPT ![b] = r]
    BY <1>1, <1>2, <1>3, <2>1 DEF Changed, THREADMSG
  <2>3. lptm[b].msg \in Messages \cup {NULL} /\ 2 \in 0 .. 2
    BY <2>1 DEF THREADMSG
  <2>4. /\ r \in THREADMSG /\ r.uFlag = 2 /\ r.lResult = Top(t).msg
        /\ r.msg = lptm[b].msg /\ r.dwThreadIDOfSender = lptm[b].dwThreadIDOfSender
    <3> DEFINE old == lptm[b]
               itsMsg == lptm[b].msg
               itsResult == Top(t).msg
    <3>1. old \in THREADMSG /\ itsMsg \in Messages \cup {NULL} /\ itsResult \in Messages \cup {NULL} /\ 2 \in 0 .. 2
      BY <1>2, <2>1, <2>3
    <3> HIDE DEF old, itsMsg, itsResult
    <3>2. /\ Changed(old, itsMsg, itsResult, 2) \in THREADMSG
          /\ Changed(old, itsMsg, itsResult, 2).msg = itsMsg
          /\ Changed(old, itsMsg, itsResult, 2).lResult = itsResult
          /\ Changed(old, itsMsg, itsResult, 2).uFlag = 2
          /\ Changed(old, itsMsg, itsResult, 2).dwThreadIDOfSender = old.dwThreadIDOfSender
      BY <3>1 DEF THREADMSG, Changed
    <3> QED
      BY <3>2 DEF old, itsMsg, itsResult
  <2> QED
    BY <1>2, <1>3, <2>2, <2>4
<1>5. Kept /\ SendersKept
  BY <1>1, <1>4 DEF Kept, Base, SendersKept
<1>6. "signal" \in Labels /\ GoesOn(t, "signal")
  BY <1>2 DEF Labels, GoesOn, SendLabels, b
<1>7. Base' /\ Went(t, "signal")
  BY <1>1, <1>5, <1>6, GotoBase DEF Went
<1>8. ASSUME Answers PROVE Answers'
  <2>1. b \in allocated => Top(t).msg = lptm[b].msg
    BY <1>2, <1>8, TopAnswer DEF AnswerIn, b
  <2>2. ASSUME NEW u \in Threads, NEW i \in 1 .. Len(stack[u])
        PROVE  AnswerIn(stack[u][i], lptm', allocated')
    <3>1. AnswerIn(stack[u][i], lptm, allocated)
      BY <1>8 DEF Answers
    <3>2. stack[u][i] \in Frame /\ FrameOK(stack[u][i])
      BY ElementOfSeq DEF Base, StackOK
    <3>3. Sending(stack[u][i]) => stack[u][i].b \in allocated
      BY SendingBlock
    <3>4. stack[u][i].b \in Blocks \cup {NULL}
      BY <3>2 DEF Frame
    <3>5. stack[u][i].pc = "handled" => Sending(stack[u][i])
      BY <3>2 DEF FrameOK, SendLabels
    <3>6. allocated' = allocated
      BY <1>1
    <3> QED
      BY <1>2, <1>4, <2>1, <3>1, <3>3, <3>4, <3>5, <3>6 DEF AnswerIn, Sending
  <2>3. RestAnswers(t)
    BY <2>2 DEF RestAnswers
  <2> DEFINE g == [Top(t) EXCEPT !.pc = "signal"]
  <2>4. g.pc = "signal" /\ g.b = Top(t).b /\ g.to = Top(t).to /\ g.msg = Top(t).msg
    BY <1>6, TopOK, SetLabel
  <2>5. AnswerIn(g, lptm', allocated')
    <3>1. AnswerIn(Top(t), lptm', allocated')
      BY <2>2, TopOK, TopPlace
    <3> QED
      BY <2>4, <3>1 DEF AnswerIn, Sending
  <2> QED
    BY <1>6, <1>7, <2>3, <2>5, WentAnswers
<1>9. ASSUME NoSleepWithWork PROVE NoSleepWithWork'
  <2>1. /\ Top(t)'.pc = "signal" /\ Top(t)'.b = b
        /\ \A u \in Threads \ {t} : Top(u)' = Top(u) /\ (InLoop(u)' <=> InLoop(u))
    BY <1>6, <1>7, WentTop DEF b
  <2>2. ASSUME NEW u \in Threads \ {t}, Top(u).pc = "wait", ~InLoop(u), lptm'[Top(u).b].uFlag = 2
        PROVE  \/ lptm[Top(u).b].uFlag = 2
               \/ Top(t)'.pc = "signal" /\ lptm'[Top(t)'.b].dwThreadIDOfSender = u
    <3>1. Sending(Top(u)) /\ Top(u) \in Frame /\ Top(u) = stack[u][1]
      BY <2>2, TopOK DEF InLoop
    <3>2. Top(u).b \in Blocks
      BY <3>1 DEF Sending, Frame
    <3>3. lptm[Top(u).b].dwThreadIDOfSender = u
      BY <3>1, TopPlace, SendingBlock
    <3> QED
      BY <1>2, <1>4, <2>1, <2>2, <3>2, <3>3
  <2>3. \A u \in Threads \ {t} : Top(u).pc = "signal" =>
          lptm'[Top(u).b].dwThreadIDOfSender = lptm[Top(u).b].dwThreadIDOfSender
    BY <1>4, TopOK DEF FrameOK, Frame
  <2> QED
    BY <1>1, <1>9, <2>1, <2>2, <2>3, SleepersKept
<1> QED
  BY <1>7, <1>8, <1>9 DEF Keeps

\* The sender frees the block.
LEMMA FinishKeeps ==
  ASSUME Base, NEW t \in Threads, Finish(t)
  PROVE  Keeps
<1> DEFINE b == Top(t).b
<1>1. /\ Top(t).pc \in {"handled", "failed"} /\ Return(t) /\ allocated' = allocated \ {b}
      /\ lptm' = [lptm EXCEPT ![b].msg = NULL, ![b].lResult = NULL, ![b].uFlag = 0]
      /\ UNCHANGED <<queue, hWaitEvent, windows, sent>>
  BY DEF Finish
<1>2. ~InLoop(t) /\ Sending(Top(t)) /\ b \in Blocks
  BY <1>1, TopOK DEF InLoop, FrameOK, SendLabels, Frame, Sending
<1>3. lptm \in [Blocks -> THREADMSG]
  BY DEF Base
<1> HIDE DEF b
<1>4. /\ lptm' \in [Blocks -> THREADMSG]
      /\ \A c \in Blocks : lptm'[c].dwThreadIDOfSender = lptm[c].dwThreadIDOfSender
      /\ \A c \in Blocks : c # b => lptm'[c] = lptm[c]
      /\ lptm'[b].uFlag = 0
  <2> DEFINE r == Changed(lptm[b], NULL, NULL, 0)
  <2>1. lptm[b] \in THREADMSG /\ NULL \in Messages \cup {NULL} /\ 0 \in 0 .. 2
    BY <1>2, <1>3
  <2>2. lptm' = [lptm EXCEPT ![b] = r]
    BY <1>1, <1>2, <1>3 DEF Changed
  <2>3. r \in THREADMSG /\ r.uFlag = 0 /\ r.dwThreadIDOfSender = lptm[b].dwThreadIDOfSender
    BY <2>1, ChangedBlock
  <2> QED
    BY <1>2, <1>3, <2>2, <2>3
<1>5. Kept /\ SendersKept
  BY <1>1, <1>4 DEF Kept, Base, SendersKept
<1>6. Base' /\ Returned(t)
  BY <1>1, <1>2, <1>5, ReturnBase DEF Returned, b
<1>7. ASSUME Answers PROVE Answers'
  <2>1. ASSUME NEW u \in Threads, NEW i \in 1 .. Len(stack[u]), u # t \/ i # 1
        PROVE  AnswerIn(stack[u][i], lptm', allocated')
    <3>1. AnswerIn(stack[u][i], lptm, allocated)
      BY <1>7 DEF Answers
    <3>2. stack[u][i] \in Frame /\ FrameOK(stack[u][i])
      BY ElementOfSeq DEF Base, StackOK
    <3>3. ~(Sending(stack[u][i]) /\ stack[u][i].b = b)
      <4>1. CASE u = t
        <5>1. Sending(stack[t][1]) /\ stack[t][1].b = b /\ 1 \in 1 .. Len(stack[t]) /\ StackOK(stack[t])
          BY <1>2, TopOK, TopPlace DEF Base, b
        <5> QED
          BY <2>1, <4>1, <5>1 DEF StackOK
      <4>2. CASE u # t
        <5>1. lptm[b].dwThreadIDOfSender = t
          BY <1>2, TopOK, TopPlace, SendingBlock DEF b
        <5> QED
          BY <4>2, <5>1, SendingBlock
      <4> QED
        BY <4>1, <4>2
    <3>4. stack[u][i].b \in Blocks \cup {NULL}
      BY <3>2 DEF Frame
    <3>5. stack[u][i].pc = "handled" => Sending(stack[u][i])
      BY <3>2 DEF FrameOK, SendLabels
    <3>6. allocated' = allocated \ {b}
      BY <1>1
    <3> QED
      BY <1>4, <3>1, <3>3, <3>4, <3>5, <3>6 DEF AnswerIn, Sending
  <2>2. RestAnswers(t)
    BY <2>1 DEF RestAnswers
  <2> QED
    BY <1>6, <2>2, ReturnedAnswers
<1>8. ASSUME NoSleepWithWork PROVE NoSleepWithWork'
  <2>1. \A u \in Threads \ {t} : Top(u).pc = "signal" =>
          lptm'[Top(u).b].dwThreadIDOfSender = lptm[Top(u).b].dwThreadIDOfSender
    BY <1>4, TopOK DEF FrameOK, Frame
  <2>2. ASSUME NEW u \in Threads \ {t}, Top(u).pc = "wait", ~InLoop(u), lptm'[Top(u).b].uFlag = 2
        PROVE  lptm[Top(u).b].uFlag = 2
    <3>1. Top(u).b \in Blocks
      BY <2>2, TopOK DEF InLoop, Sending, Frame
    <3> QED
      BY <1>4, <2>2, <3>1
  <2> QED
    <3>1. /\ Top(t)'.pc # "wait"
          /\ \A u \in Threads \ {t} : Top(u)' = Top(u) /\ (InLoop(u)' <=> InLoop(u))
      BY <1>2, <1>6, ReturnedTop
    <3>2. Top(t).pc # "wake" /\ Top(t).pc # "signal"
      BY <1>1
    <3>3. queue' = queue /\ hWaitEvent' = hWaitEvent /\ windows' = windows
      BY <1>1
    <3> QED
      BY <1>8, <2>1, <2>2, <3>1, <3>2, <3>3, SleepersKept
<1> QED
  BY <1>6, <1>7, <1>8 DEF Keeps

\* A block that no message and no call refers to.
LEMMA Unnamed ==
  ASSUME Base, NEW b, ~Named(b), NEW u \in Threads
  PROVE  /\ \A i \in 1 .. Len(stack[u]) : stack[u][i].b # b
         /\ Top(u).b # b
<1>1. stack[u] \in Seq(Frame)
  BY DEF Base
<1>2. DOMAIN stack[u] = 1 .. Len(stack[u])
  BY <1>1, LenProperties
<1>3. \A i \in 1 .. Len(stack[u]) : stack[u][i].b # b
  BY <1>2 DEF Named
<1> QED
  BY <1>3, TopOK, TopPlace

\* WinMsg_SendTimeout takes a block.
LEMMA SendKeeps ==
  ASSUME Base, NEW t \in Threads, NEW w \in Threads, NEW timed \in BOOLEAN, NEW flags \in Flags,
         Send(t, w, timed, flags)
  PROVE  Keeps
<1> DEFINE l == Top(t).pc
           F(b) == [pc |-> "insert", b |-> b, to |-> w, msg |-> sent', timed |-> timed, flags |-> flags]
           R == [msg |-> sent', lResult |-> NULL, dwThreadIDOfSender |-> t, uFlag |-> 1]
<1>1. PICK b \in Blocks :
        /\ MayUse(b, w) /\ allocated' = allocated \cup {b}
        /\ lptm' = [lptm EXCEPT ![b] = R]
        /\ Call(t, l, F(b))
  BY DEF Send
<1>2. MaySend(t, w) /\ UNCHANGED <<queue, hWaitEvent, windows>>
  BY DEF Send
<1> DEFINE f == F(b)
<1>3. sent' \in 0 .. MaxSends /\ sent' \in Messages
  BY <1>2, ConstantFacts DEF MaySend, Base, Messages
<1>4. f \in Frame /\ f.pc = "insert" /\ f.b = b /\ f.to = w /\ f.msg = sent'
  BY <1>3 DEF Frame
<1>5. b # NULL /\ w # NULL /\ b \notin allocated /\ (~ReuseBlocks => ~Named(b))
  BY <1>1, ConstantFacts DEF MayUse
<1>6. R \in THREADMSG /\ R.msg = sent' /\ R.dwThreadIDOfSender = t /\ R.uFlag = 1
  BY <1>3 DEF THREADMSG
<1>7. l \in {"proc", "peek"} /\ (InLoop(t) <=> l = "peek") /\ (l = "proc" => ~Sending(Top(t)))
  BY <1>2, TopOK DEF MaySend, InLoop, FrameOK, SendLabels
<1> HIDE DEF l, F, R, f
<1>8. Call(t, l, f)
  BY <1>1 DEF f
<1>9. /\ lptm' \in [Blocks -> THREADMSG] /\ lptm'[b] = R
      /\ \A c \in Blocks : c # b => lptm'[c] = lptm[c]
  BY <1>1, <1>6 DEF Base
<1>10. Kept
  BY <1>2, <1>3, <1>9 DEF Kept, Base
<1>11. FrameOK(f) /\ Sending(f)
  BY <1>4, <1>5 DEF FrameOK, Sending, SendLabels
<1>12. \A c \in allocated : lptm'[c].dwThreadIDOfSender = lptm[c].dwThreadIDOfSender
  <2>1. allocated \subseteq Blocks
    BY SendBlocksType DEF Base
  <2> QED
    BY <1>5, <1>9, <2>1
<1>13. Base' /\ Called(t, l, f)
  <2>1. f.b \notin allocated /\ lptm'[f.b].dwThreadIDOfSender = t
    BY <1>4, <1>5, <1>6, <1>9
  <2>2. allocated' = IF Sending(f) THEN allocated \cup {f.b} ELSE allocated
    BY <1>1, <1>4, <1>11
  <2>3. l \in {"peek", "proc", "drain", "dispatched"} /\ l # "drain" /\ l # "dispatched"
    BY <1>7
  <2>4. f.pc \notin {"peek", "wait"}
    BY <1>4
  <2> QED
    BY <1>4, <1>7, <1>8, <1>10, <1>11, <1>12, <2>1, <2>2, <2>3, <2>4, CallBase DEF Called
<1>14. ASSUME ~ReuseBlocks, Answers PROVE Answers'
  <2>1. ASSUME NEW u \in Threads, NEW i \in 1 .. Len(stack[u])
        PROVE  AnswerIn(stack[u][i], lptm', allocated')
    <3>1. AnswerIn(stack[u][i], lptm, allocated)
      BY <1>14 DEF Answers
    <3>2. stack[u][i] \in Frame /\ FrameOK(stack[u][i])
      BY ElementOfSeq DEF Base, StackOK
    <3>3. stack[u][i].b # b
      BY <1>5, <1>14, Unnamed
    <3>4. stack[u][i].b \in Blocks \cup {NULL}
      BY <3>2 DEF Frame
    <3>5. stack[u][i].pc = "handled" => Sending(stack[u][i])
      BY <3>2 DEF FrameOK, SendLabels
    <3>6. allocated' = allocated \cup {b}
      BY <1>1
    <3> QED
      BY <1>9, <3>1, <3>3, <3>4, <3>5, <3>6 DEF AnswerIn, Sending
  <2>2. RestAnswers(t)
    BY <2>1 DEF RestAnswers
  <2> DEFINE g == [Top(t) EXCEPT !.pc = l]
  <2>3. g.pc = l /\ g.b = Top(t).b /\ g.to = Top(t).to /\ g.msg = Top(t).msg
    BY <1>7, TopOK, SetLabel DEF Labels
  <2>4. AnswerIn(g, lptm', allocated')
    <3>1. AnswerIn(Top(t), lptm', allocated')
      BY <2>1, TopOK, TopPlace
    <3> QED
      BY <1>7, <2>3, <3>1 DEF AnswerIn, Sending
  <2>5. AnswerIn(f, lptm', allocated')
    BY <1>4, <1>6, <1>9, <1>11 DEF AnswerIn
  <2> QED
    BY <1>13, <2>2, <2>4, <2>5, CalledAnswers
<1>15. ASSUME ~ReuseBlocks, NoSleepWithWork PROVE NoSleepWithWork'
  <2>1. /\ Top(t)'.pc # "wait"
        /\ \A u \in Threads \ {t} : Top(u)' = Top(u) /\ (InLoop(u)' <=> InLoop(u))
    BY <1>4, <1>13, CalledTop
  <2>2. ASSUME NEW u \in Threads \ {t}, Top(u).pc = "signal"
        PROVE  lptm'[Top(u).b].dwThreadIDOfSender = lptm[Top(u).b].dwThreadIDOfSender
    <3>1. Top(u).b \in Blocks /\ Top(u).b # b
      BY <1>5, <1>15, <2>2, TopOK, Unnamed DEF FrameOK, Frame
    <3> QED
      BY <1>9, <3>1
  <2>3. ASSUME NEW u \in Threads \ {t}, Top(u).pc = "wait", ~InLoop(u), lptm'[Top(u).b].uFlag = 2
        PROVE  lptm[Top(u).b].uFlag = 2
    <3>1. Top(u).b \in Blocks
      BY <2>3, TopOK DEF InLoop, Sending, Frame
    <3> QED
      BY <1>6, <1>9, <2>3, <3>1
  <2>4. Top(t).pc # "wake" /\ Top(t).pc # "signal"
    BY <1>7 DEF l
  <2>5. queue' = queue /\ hWaitEvent' = hWaitEvent /\ windows' = windows
    BY <1>2
  <2> QED
    BY <1>15, <2>1, <2>2, <2>3, <2>4, <2>5, SleepersKept
<1> QED
  BY <1>13, <1>14, <1>15 DEF Keeps

-----------------------------------------------------------------------------
(* The theorems *)

LEMMA InitHolds == Init => Base /\ Answers /\ NoSleepWithWork
<1> SUFFICES ASSUME Init PROVE Base /\ Answers /\ NoSleepWithWork
  OBVIOUS
<1>1. /\ Loop \in Frame /\ Loop.pc = "peek" /\ Loop.b = NULL /\ ~Sending(Loop) /\ FrameOK(Loop)
      /\ Loop = [Loop EXCEPT !.pc = "peek"]
  BY LoopType DEF Sending, FrameOK, SendLabels, Loop
<1>2. \A t \in Threads : stack[t] = <<Loop>>
  BY DEF Init
<1>3. /\ <<Loop>> \in Seq(Frame) /\ Len(<<Loop>>) = 1 /\ <<Loop>>[1] = Loop /\ <<Loop>> # <<>>
      /\ Head(<<Loop>>) = Loop
  BY <1>1
<1>4. \A i : i \in 1 .. 1 => i = 1
  OBVIOUS
<1>5. StackOK(<<Loop>>)
  <2>1. 1 .. 1 - 1 = {} /\ 2 .. 1 = {}
    OBVIOUS
  <2> QED
    BY <1>1, <1>3, <1>4, <2>1 DEF StackOK
<1>6. SendBlocks(<<Loop>>) = {}
  BY <1>1, <1>3, <1>4 DEF SendBlocks
<1>7. Unused \in THREADMSG
  BY DEF Unused, THREADMSG
<1>8. Base
  <2>1. queue \in [Threads -> Seq(Blocks \cup {NULL})]
    <3>1. <<>> \in Seq(Blocks \cup {NULL})
      OBVIOUS
    <3> QED
      BY <3>1 DEF Init
  <2>2. stack \in [Threads -> Seq(Frame)]
    BY <1>3 DEF Init
  <2>3. allocated = UNION {SendBlocks(stack[t]) : t \in Threads}
    BY <1>2, <1>6 DEF Init
  <2>4. sent \in 0 .. MaxSends
    BY ConstantFacts DEF Init
  <2> QED
    BY <1>2, <1>5, <1>6, <1>7, <2>1, <2>2, <2>3, <2>4 DEF Base, Init
<1>9. Answers
  BY <1>1, <1>2, <1>3, <1>4 DEF Answers, AnswerIn
<1>10. NoSleepWithWork
  BY <1>1, <1>2, <1>3 DEF NoSleepWithWork, Top
<1> QED
  BY <1>8, <1>9, <1>10

LEMMA StepKeeps ==
  ASSUME Base, [Next]_vars
  PROVE  Keeps
<1>1. ASSUME NEW t \in Threads, Step(t) PROVE Keeps
  BY <1>1, LookKeeps, WaitMessageKeeps, ProcReturnsKeeps, SignalSenderKeeps, WakeKeeps, InsertKeeps,
     PeekNoneKeeps, PeekKeeps, PostKeeps, DestroyWindowKeeps, PutAnswerKeeps, FinishKeeps, SendKeeps
  DEF Step
<1>2. CASE UNCHANGED vars
  <2>1. Base'
    BY <1>2 DEF Base, vars
  <2>2. Answers => Answers'
    BY <1>2 DEF Answers, AnswerIn, Sending, vars
  <2>3. NoSleepWithWork => NoSleepWithWork'
    BY <1>2 DEF NoSleepWithWork, Waking, Top, InLoop, vars
  <2> QED
    BY <2>1, <2>2, <2>3 DEF Keeps
<1> QED
  BY <1>1, <1>2 DEF Next

LEMMA BaseTypeOK == Base => TypeOK
<1> SUFFICES ASSUME Base PROVE TypeOK
  OBVIOUS
<1>1. ASSUME NEW t \in Threads
      PROVE  /\ stack[t] \in Seq(Frame) /\ DOMAIN stack[t] = 1 .. Len(stack[t])
             /\ Last(stack[t]) \in {[Loop EXCEPT !.pc = l] : l \in {"peek", "wait"}}
  <2>1. stack[t] \in Seq(Frame) /\ StackOK(stack[t])
    BY DEF Base
  <2> QED
    BY <2>1, LenProperties DEF StackOK, Last
<1>2. allocated = {b \in Blocks : \E t \in Threads : \E i \in DOMAIN stack[t] :
                                    Sending(stack[t][i]) /\ stack[t][i].b = b}
  <2>1. ASSUME NEW b, b \in allocated
        PROVE  b \in Blocks /\ \E t \in Threads : \E i \in DOMAIN stack[t] :
                                 Sending(stack[t][i]) /\ stack[t][i].b = b
    <3>1. PICK t \in Threads : b \in SendBlocks(stack[t])
      BY <2>1 DEF Base
    <3>2. b \in Blocks
      BY <3>1, SendBlocksType DEF Base
    <3> QED
      BY <1>1, <3>1, <3>2, SendBlocksOf
  <2>2. ASSUME NEW t \in Threads, NEW i \in DOMAIN stack[t], Sending(stack[t][i])
        PROVE  stack[t][i].b \in allocated
    BY <1>1, <2>2, SendingBlock
  <2> QED
    BY <2>1, <2>2
<1>3. \A t \in Threads : \A i \in DOMAIN stack[t] :
        Sending(stack[t][i]) => lptm[stack[t][i].b].dwThreadIDOfSender = t
  BY <1>1, SendingBlock
<1> QED
  BY <1>1, <1>2, <1>3 DEF Base, TypeOK

LEMMA AnswersAreResults ==
  ASSUME Base, Answers
  PROVE  ResultIsOwn
<1> SUFFICES ASSUME NEW t \in Threads, Top(t).pc = "handled"
             PROVE  lptm[Top(t).b].lResult = Top(t).msg
  BY DEF ResultIsOwn
<1>1. Sending(Top(t))
  BY TopOK DEF FrameOK, SendLabels
<1> QED
  BY <1>1, TopAnswer DEF AnswerIn

\* The blocks in use are those of the calls that send, one each, and name the thread of the
\* call (BlockHeap_Alloc and BlockHeap_Free in WinMsg_SendTimeout and _CallThreadWindowProc).
THEOREM BlocksBelongToCalls == Spec => []TypeOK
<1>1. Init => Base
  BY InitHolds
<1>2. Base /\ [Next]_vars => Base'
  BY StepKeeps DEF Keeps
<1> QED
  BY <1>1, <1>2, BaseTypeOK, PTL DEF Spec

\* As long as a block is not used again while a queue or a call still refers to it, each send
\* that succeeds returns what the window procedure made of its own message.
THEOREM AnswersAreOwn == ASSUME ~ReuseBlocks PROVE Spec => []ResultIsOwn
<1> DEFINE Inv == Base /\ Answers
<1>1. Init => Inv
  BY InitHolds
<1>2. Inv /\ [Next]_vars => Inv'
  BY StepKeeps DEF Keeps
<1>3. Inv => ResultIsOwn
  BY AnswersAreResults
<1> QED
  BY <1>1, <1>2, <1>3, PTL DEF Spec

\* Under the same hypothesis no thread sleeps over a message or an answer that nobody is
\* about to tell it of.
THEOREM NobodySleepsOverWork == ASSUME ~ReuseBlocks PROVE Spec => []NoSleepWithWork
<1> DEFINE Inv == Base /\ NoSleepWithWork
<1>1. Init => Inv
  BY InitHolds
<1>2. Inv /\ [Next]_vars => Inv'
  BY StepKeeps DEF Keeps
<1> QED
  BY <1>1, <1>2, PTL DEF Spec
=============================================================================
