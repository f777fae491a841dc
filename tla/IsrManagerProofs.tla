--------------------------- MODULE IsrManagerProofs --------------------------
(***************************************************************************)
(* Safety of the interrupt delivery for any number of devices, any depth   *)
(* of nested interrupts and any number of registrations.                   *)
(*                                                                         *)
(* The steps that enter or go on with ISR_Handler are all alike: the lemma *)
(* ISR_HandlerKeeps says what they keep of the manager's own state, and    *)
(* that they lose no device that is about to get its event.                *)
(***************************************************************************)
EXTENDS IsrManager, FiniteSetTheorems, TLAPS

-----------------------------------------------------------------------------
(* The inductive invariant *)

\* The frame is in the service of a routine.
Serves(f) == f.pc \in {"serve", "served"}

Quiet(s) == \A i \in DOMAIN s : ~Serves(s[i])

\* What holds of the manager's own state: the frames s, the active flags A, the count n
\* of active routines and the count h of entries of ISR_Handler.
StateOK(s, A, n, h) ==
  /\ s \in Seq(Frame)
  /\ A \in [Devices -> BOOLEAN]
  /\ n \in Nat
  /\ Cardinality({d \in Devices : A[d]}) <= n
  /\ \A i, j \in DOMAIN s : Serves(s[i]) /\ Serves(s[j]) => i = j
  /\ h = IF Quiet(s) THEN 0 ELSE 1

\* The device d is about to get its event.
Coming(s, A, d) ==
  \/ A[d]
  \/ \E i \in DOMAIN s : s[i].pc = "serve" /\ s[i].idx = d

\* The part of TypeOK that StateOK leaves.
TypeRest ==
  /\ masked \in [Devices -> BOOLEAN]
  /\ bISRMasks \in [Devices -> BOOLEAN]
  /\ lpISRFun \in [Devices -> {"event", "default"}]
  /\ event \in [Devices -> BOOLEAN]
  /\ ist \in [Devices -> {"none", "wait", "work"}]
  /\ init \in [Devices -> {"no", "enable", "unregister", "done", "off"}]
  /\ nInits \in Nat
  /\ read \subseteq [Devices -> BOOLEAN]

\* A device in use has its routine registered and unmasked.
Registered ==
  \A d \in Devices : init[d] \in {"enable", "done", "off"} =>
    lpISRFun[d] = "event" /\ bISRMasks[d]

\* The mask OEM_SetAlarmTime has read is still the mask.
ReadIsCurrent == read \subseteq {masked}

\* The masked line of a device in use comes back, without the condition on bISRMasks,
\* which Registered gives.
Alive ==
  \A d \in Devices : masked[d] /\ init[d] = "done" =>
    Coming(stack, bISRActives, d) \/ event[d] \/ ist[d] = "work"

IInv ==
  /\ TypeRest
  /\ StateOK(stack, bISRActives, iISRActiveCount, nISRHandlerCount)
  /\ Registered
  /\ AlarmAlone => ReadIsCurrent /\ Alive

-----------------------------------------------------------------------------
(* Sets of devices *)

LEMMA DevicesFinite == Devices \subseteq Nat /\ IsFiniteSet(Devices)
<1>1. nDevices - 1 \in Int
  BY IsrAssumption
<1>2. IsFiniteSet(0 .. nDevices - 1)
  BY <1>1, FS_Interval
<1> QED
  BY <1>2 DEF Devices

\* Clearing the flag of an active device makes the set of active devices one smaller.
LEMMA ActiveRemoved ==
  ASSUME NEW A \in [Devices -> BOOLEAN], NEW d \in Devices, A[d]
  PROVE  /\ Cardinality({e \in Devices : [A EXCEPT ![d] = FALSE][e]})
              = Cardinality({e \in Devices : A[e]}) - 1
         /\ Cardinality({e \in Devices : A[e]}) \in Nat
<1> DEFINE S == {e \in Devices : A[e]}
<1>1. {e \in Devices : [A EXCEPT ![d] = FALSE][e]} = S \ {d}
  OBVIOUS
<1>2. IsFiniteSet(S)
  BY DevicesFinite, FS_Subset
<1>3. d \in S
  OBVIOUS
<1>4. Cardinality(S \ {d}) = Cardinality(S) - 1
  BY <1>2, <1>3, FS_RemoveElement
<1> QED
  BY <1>1, <1>2, <1>4, FS_CardinalityType

\* Setting the flag of a device adds at most one to the set of active devices.
LEMMA ActiveAdded ==
  ASSUME NEW A \in [Devices -> BOOLEAN], NEW d \in Devices
  PROVE  Cardinality({e \in Devices : [A EXCEPT ![d] = TRUE][e]})
           = IF A[d] THEN Cardinality({e \in Devices : A[e]})
             ELSE Cardinality({e \in Devices : A[e]}) + 1
<1> DEFINE S == {e \in Devices : A[e]}
<1>1. {e \in Devices : [A EXCEPT ![d] = TRUE][e]} = S \cup {d}
  OBVIOUS
<1>2. IsFiniteSet(S)
  BY DevicesFinite, FS_Subset
<1>3. d \in S <=> A[d]
  OBVIOUS
<1>4. Cardinality(S \cup {d}) = IF d \in S THEN Cardinality(S) ELSE Cardinality(S) + 1
  BY <1>2, FS_AddElement
<1> QED
  BY <1>1, <1>3, <1>4

\* Clearing a flag never makes the set of active devices larger.
LEMMA ActiveCleared ==
  ASSUME NEW A \in [Devices -> BOOLEAN], NEW d \in Devices
  PROVE  Cardinality({e \in Devices : [A EXCEPT ![d] = FALSE][e]})
           <= Cardinality({e \in Devices : A[e]})
<1> DEFINE S == {e \in Devices : A[e]}
           T == {e \in Devices : [A EXCEPT ![d] = FALSE][e]}
<1>1. T \in SUBSET S
  OBVIOUS
<1>2. IsFiniteSet(S)
  BY DevicesFinite, FS_Subset
<1> QED
  BY <1>1, <1>2, FS_Subset

-----------------------------------------------------------------------------
(* The stack of frames *)

\* What Append does to a stack.
LEMMA Pushed ==
  ASSUME NEW s \in Seq(Frame), NEW f \in Frame
  PROVE  /\ Append(s, f) \in Seq(Frame)
         /\ DOMAIN Append(s, f) = 1 .. Len(s) + 1
         /\ \A i \in DOMAIN s : Append(s, f)[i] = s[i]
         /\ Append(s, f)[Len(s) + 1] = f
         /\ DOMAIN s = 1 .. Len(s)
         /\ Len(s) \in Nat
  OBVIOUS

\* What Front and Last are of a stack that is not empty.
LEMMA Popped ==
  ASSUME NEW s \in Seq(Frame), s # <<>>
  PROVE  /\ Front(s) \in Seq(Frame)
         /\ Len(s) \in Nat \ {0}
         /\ DOMAIN s = 1 .. Len(s)
         /\ DOMAIN Front(s) = 1 .. Len(s) - 1
         /\ Len(Front(s)) = Len(s) - 1
         /\ \A i \in DOMAIN Front(s) : Front(s)[i] = s[i]
         /\ Last(s) = s[Len(s)]
         /\ Last(s) \in Frame
<1>1. Len(s) \in Nat \ {0} /\ DOMAIN s = 1 .. Len(s)
  OBVIOUS
<1>2. Len(s) - 1 \in 0 .. Len(s)
  BY <1>1
<1>3. /\ SubSeq(s, 1, Len(s) - 1) \in Seq(Frame)
      /\ Len(SubSeq(s, 1, Len(s) - 1)) = Len(s) - 1
      /\ \A i \in 1 .. Len(s) - 1 : SubSeq(s, 1, Len(s) - 1)[i] = s[i]
  BY <1>1, <1>2
<1>4. s[Len(s)] \in Frame
  BY <1>1
<1> QED
  BY <1>1, <1>3, <1>4 DEF Front, Last

LEMMA InDefaultIsFrame == InDefault \in Frame /\ ~Serves(InDefault) /\ InDefault.pc # "serve"
  BY DEF InDefault, Frame, Serves, ALL

\* A frame that serves nothing can be pushed.
LEMMA PushDefault ==
  ASSUME NEW s, NEW A, NEW n, NEW h, StateOK(s, A, n, h)
  PROVE  /\ StateOK(Append(s, InDefault), A, n, h)
         /\ \A d \in Devices : Coming(s, A, d) => Coming(Append(s, InDefault), A, d)
<1> DEFINE t == Append(s, InDefault)
<1>1. s \in Seq(Frame)
  BY DEF StateOK
<1>2. /\ t \in Seq(Frame)
      /\ DOMAIN t = 1 .. Len(s) + 1
      /\ \A i \in DOMAIN s : t[i] = s[i]
      /\ t[Len(s) + 1] = InDefault
      /\ DOMAIN s = 1 .. Len(s)
      /\ Len(s) \in Nat
  BY <1>1, Pushed, InDefaultIsFrame
<1> HIDE DEF t
<1>3. \A i \in DOMAIN t : Serves(t[i]) => i \in DOMAIN s /\ Serves(s[i])
  <2> SUFFICES ASSUME NEW i \in DOMAIN t, Serves(t[i])
               PROVE  i \in DOMAIN s /\ Serves(s[i])
    OBVIOUS
  <2>1. i # Len(s) + 1
    BY <1>2, InDefaultIsFrame
  <2>2. i \in DOMAIN s
    BY <1>2, <2>1
  <2> QED
    BY <1>2, <2>2
<1>4. \A i \in DOMAIN s : i \in DOMAIN t
  BY <1>2
<1>5. Quiet(t) <=> Quiet(s)
  BY <1>2, <1>3, <1>4 DEF Quiet
<1>6. StateOK(t, A, n, h)
  BY <1>2, <1>3, <1>5 DEF StateOK
<1>7. \A d \in Devices : Coming(s, A, d) => Coming(t, A, d)
  BY <1>2, <1>4 DEF Coming
<1> QED
  BY <1>6, <1>7 DEF t

\* The frame on top, when it does not serve or has served, can be popped.
LEMMA PopFrame ==
  ASSUME NEW s, NEW A, NEW n, NEW h, StateOK(s, A, n, h), s # <<>>, Last(s).pc # "serve"
  PROVE  /\ Last(s).pc = "default" => StateOK(Front(s), A, n, h)
         /\ Last(s).pc = "served" => StateOK(Front(s), A, n, 0) /\ Quiet(Front(s))
         /\ \A d \in Devices : Coming(s, A, d) => Coming(Front(s), A, d)
<1> DEFINE t == Front(s)
<1>1. s \in Seq(Frame)
  BY DEF StateOK
<1>2. /\ t \in Seq(Frame)
      /\ Len(s) \in Nat \ {0}
      /\ DOMAIN s = 1 .. Len(s)
      /\ DOMAIN t = 1 .. Len(s) - 1
      /\ \A i \in DOMAIN t : t[i] = s[i]
      /\ Last(s) = s[Len(s)]
  BY <1>1, Popped
<1> HIDE DEF t
<1>3. /\ DOMAIN t \subseteq DOMAIN s
      /\ \A i \in DOMAIN s : i = Len(s) \/ i \in DOMAIN t
      /\ Len(s) \in DOMAIN s
      /\ Len(s) \notin DOMAIN t
  BY <1>2
<1>4. \A i, j \in DOMAIN t : Serves(t[i]) /\ Serves(t[j]) => i = j
  BY <1>2, <1>3 DEF StateOK
<1>5. ASSUME Last(s).pc = "default" PROVE StateOK(t, A, n, h)
  <2>1. ~Serves(s[Len(s)])
    BY <1>2, <1>5 DEF Serves
  <2>2. Quiet(t) <=> Quiet(s)
    BY <1>2, <1>3, <2>1 DEF Quiet
  <2> QED
    BY <1>2, <1>4, <2>2 DEF StateOK
<1>6. ASSUME Last(s).pc = "served" PROVE StateOK(t, A, n, 0) /\ Quiet(t)
  <2>1. Serves(s[Len(s)])
    BY <1>2, <1>6 DEF Serves
  <2>2. Quiet(t)
    BY <1>2, <1>3, <2>1 DEF Quiet, StateOK
  <2> QED
    BY <1>2, <1>4, <2>2 DEF StateOK
<1>7. \A d \in Devices : Coming(s, A, d) => Coming(t, A, d)
  BY <1>2, <1>3 DEF Coming
<1> QED
  BY <1>5, <1>6, <1>7 DEF t

-----------------------------------------------------------------------------
(* ISR_Handler *)

\* A frame that serves d can be pushed on a stack without one, with the flag of d cleared
\* and the count one lower: the service of d goes from its flag to the frame.
LEMMA PushServe ==
  ASSUME NEW s, NEW A, NEW n, StateOK(s, A, n, 0), Quiet(s),
         NEW d \in Devices, A[d],
         NEW f \in Frame, f.pc = "serve", f.idx = d
  PROVE  /\ StateOK(Append(s, f), [A EXCEPT ![d] = FALSE], n - 1, 1)
         /\ \A e \in Devices : Coming(s, A, e) =>
              Coming(Append(s, f), [A EXCEPT ![d] = FALSE], e)
<1> DEFINE t == Append(s, f)
           B == [A EXCEPT ![d] = FALSE]
<1>1. s \in Seq(Frame) /\ A \in [Devices -> BOOLEAN]
  BY DEF StateOK
<1>2. /\ t \in Seq(Frame)
      /\ DOMAIN t = 1 .. Len(s) + 1
      /\ \A i \in DOMAIN s : t[i] = s[i]
      /\ t[Len(s) + 1] = f
      /\ DOMAIN s = 1 .. Len(s)
      /\ Len(s) \in Nat
  BY <1>1, Pushed
<1>3. /\ B \in [Devices -> BOOLEAN]
      /\ \A e \in Devices \ {d} : B[e] = A[e]
  BY <1>1
<1>4. /\ n - 1 \in Nat
      /\ Cardinality({e \in Devices : B[e]}) <= n - 1
  <2>1. /\ Cardinality({e \in Devices : B[e]}) = Cardinality({e \in Devices : A[e]}) - 1
        /\ Cardinality({e \in Devices : A[e]}) \in Nat
    BY <1>1, ActiveRemoved
  <2>2. Cardinality({e \in Devices : B[e]}) \in Nat
    <3>1. IsFiniteSet({e \in Devices : B[e]})
      BY DevicesFinite, FS_Subset
    <3> QED
      BY <3>1, FS_CardinalityType
  <2> QED
    BY <2>1, <2>2 DEF StateOK
<1> HIDE DEF t, B
<1>5. \A i \in DOMAIN t : Serves(t[i]) => i = Len(s) + 1
  BY <1>2 DEF Quiet
<1>6. ~Quiet(t)
  BY <1>2 DEF Quiet, Serves
<1>7. StateOK(t, B, n - 1, 1)
  BY <1>2, <1>3, <1>4, <1>5, <1>6 DEF StateOK
<1>8. ASSUME NEW e \in Devices, Coming(s, A, e) PROVE Coming(t, B, e)
  <2>1. CASE e = d
    BY <1>2, <2>1 DEF Coming
  <2>2. CASE e # d /\ A[e]
    BY <1>3, <2>2 DEF Coming
  <2>3. CASE \E i \in DOMAIN s : s[i].pc = "serve" /\ s[i].idx = e
    BY <1>2, <2>3 DEF Coming
  <2> QED
    BY <1>8, <2>1, <2>2, <2>3 DEF Coming
<1> QED
  BY <1>7, <1>8 DEF t, B

\* What ISR_Handler keeps when it is entered or goes on, and that it loses no device.
LEMMA HandleKeeps ==
  ASSUME NEW s, NEW A, NEW n, StateOK(s, A, n, 0), Quiet(s),
         NEW irq \in BOOLEAN, NEW first \in Devices \cup {ALL}, NEW p \in Nat,
         Handle(s, irq, A, n, first, p)
  PROVE  /\ StateOK(stack', bISRActives', iISRActiveCount', nISRHandlerCount')
         /\ \A e \in Devices : Coming(s, A, e) => Coming(stack', bISRActives', e)
<1>1. ASSUME NEW d \in Callable(A, first, p),
             bISRActives' = [A EXCEPT ![d] = FALSE],
             iISRActiveCount' = n - 1,
             nISRHandlerCount' = 1,
             stack' = Append(s, [pc |-> "serve", idx |-> d, irq |-> irq,
                                 next |-> IF d = first THEN 0 ELSE d + 1])
      PROVE  /\ StateOK(stack', bISRActives', iISRActiveCount', nISRHandlerCount')
             /\ \A e \in Devices : Coming(s, A, e) => Coming(stack', bISRActives', e)
  <2> DEFINE f == [pc |-> "serve", idx |-> d, irq |-> irq,
                   next |-> IF d = first THEN 0 ELSE d + 1]
  <2>1. d \in Devices /\ A[d]
    BY <1>1 DEF Callable
  <2>2. d \in Nat
    BY <2>1, DevicesFinite
  <2>3. f \in Frame /\ f.pc = "serve" /\ f.idx = d
    BY <2>1, <2>2 DEF Frame
  <2> HIDE DEF f
  <2>4. stack' = Append(s, f)
    BY <1>1 DEF f
  <2> QED
    BY <1>1, <2>1, <2>3, <2>4, PushServe
<1>2. ASSUME bISRActives' = A, iISRActiveCount' = n, nISRHandlerCount' = 0,
             stack' = IF irq THEN Append(s, InDefault) ELSE s
      PROVE  /\ StateOK(stack', bISRActives', iISRActiveCount', nISRHandlerCount')
             /\ \A e \in Devices : Coming(s, A, e) => Coming(stack', bISRActives', e)
  <2>1. CASE irq
    BY <1>2, <2>1, PushDefault
  <2>2. CASE ~irq
    BY <1>2, <2>2
  <2> QED
    BY <2>1, <2>2
<1> QED
  BY <1>1, <1>2 DEF Handle

\* The same for a call of ISR_Handler, which may be the second one.
LEMMA ISR_HandlerKeeps ==
  ASSUME NEW s, NEW A, NEW n, StateOK(s, A, n, nISRHandlerCount),
         NEW irq \in BOOLEAN, NEW first \in Devices \cup {ALL},
         ISR_Handler(s, irq, A, n, first)
  PROVE  /\ StateOK(stack', bISRActives', iISRActiveCount', nISRHandlerCount')
         /\ \A e \in Devices : Coming(s, A, e) => Coming(stack', bISRActives', e)
<1>1. CASE nISRHandlerCount = 0
  <2>1. Handle(s, irq, A, n, first, 0)
    BY <1>1 DEF ISR_Handler
  <2>2. Quiet(s) /\ StateOK(s, A, n, 0)
    BY <1>1 DEF StateOK
  <2> QED
    BY <2>1, <2>2, HandleKeeps
<1>2. CASE nISRHandlerCount # 0
  <2>1. /\ bISRActives' = A
        /\ iISRActiveCount' = n
        /\ nISRHandlerCount' = 1
        /\ stack' = IF irq THEN Append(s, InDefault) ELSE s
    BY <1>2 DEF ISR_Handler
  <2>2. StateOK(s, A, n, 1)
    BY <1>2 DEF StateOK
  <2>3. CASE irq
    BY <2>1, <2>2, <2>3, PushDefault
  <2>4. CASE ~irq
    BY <2>1, <2>2, <2>4
  <2> QED
    BY <2>3, <2>4
<1> QED
  BY <1>1, <1>2

-----------------------------------------------------------------------------
(* The steps *)

\* A step that changes the manager's state and the mask only, as the interrupts and
\* ISR_Handler do, keeps the invariant if it loses no device on its way to its event and
\* masks the line of a device only when the device is on its way.
LEMMA HandlerStep ==
  ASSUME IInv,
         StateOK(stack', bISRActives', iISRActiveCount', nISRHandlerCount'),
         \A e \in Devices :
           Coming(stack, bISRActives, e) => Coming(stack', bISRActives', e),
         UNCHANGED <<bISRMasks, lpISRFun, driver, read>>,
         masked' \in [Devices -> BOOLEAN],
         AlarmAlone => masked' = masked \/ read = {},
         \A e \in Devices : masked'[e] => masked[e] \/ Coming(stack', bISRActives', e)
  PROVE  IInv'
<1>1. TypeRest' /\ Registered'
  BY DEF IInv, TypeRest, Registered, driver
<1>2. AlarmAlone => ReadIsCurrent'
  BY DEF IInv, ReadIsCurrent
<1>3. AlarmAlone => Alive'
  <2> SUFFICES ASSUME AlarmAlone, NEW d \in Devices, masked'[d], init'[d] = "done"
               PROVE  Coming(stack', bISRActives', d) \/ event'[d] \/ ist'[d] = "work"
    BY DEF Alive
  <2>1. init[d] = "done" /\ event' = event /\ ist' = ist
    BY DEF driver
  <2>2. masked[d] \/ Coming(stack', bISRActives', d)
    OBVIOUS
  <2>3. masked[d] => Coming(stack, bISRActives, d) \/ event[d] \/ ist[d] = "work"
    BY <2>1 DEF IInv, Alive
  <2> QED
    BY <2>1, <2>2, <2>3
<1> QED
  BY <1>1, <1>2, <1>3 DEF IInv

\* The call of a routine: the device on its way gets its event.
LEMMA CallISRKeeps == IInv /\ CallISR => IInv'
<1> SUFFICES ASSUME IInv, CallISR PROVE IInv'
  OBVIOUS
<1> DEFINE top == Last(stack)
           low == Front(stack)
           ran == [top EXCEPT !.pc = "served"]
<1>1. stack \in Seq(Frame) /\ stack # <<>> /\ top.pc = "serve"
  BY DEF IInv, StateOK, CallISR
<1>2. /\ low \in Seq(Frame)
      /\ Len(stack) \in Nat \ {0}
      /\ DOMAIN stack = 1 .. Len(stack)
      /\ DOMAIN low = 1 .. Len(stack) - 1
      /\ \A i \in DOMAIN low : low[i] = stack[i]
      /\ top = stack[Len(stack)]
      /\ top \in Frame
  BY <1>1, Popped
<1>3. /\ ran \in Frame
      /\ ran.pc = "served"
      /\ ran.idx = top.idx
  BY <1>2 DEF Frame
<1>4. /\ stack' = Append(low, ran)
      /\ event' = [event EXCEPT ![top.idx] = @ \/ lpISRFun[top.idx] = "event"]
      /\ UNCHANGED <<masked, isr, ist, init, nInits, read>>
  BY DEF CallISR
<1>5. Len(low) = Len(stack) - 1
  BY <1>1, Popped
<1> HIDE DEF top, low, ran
<1>6. /\ stack' \in Seq(Frame)
      /\ DOMAIN stack' = DOMAIN stack
      /\ \A i \in DOMAIN stack : i # Len(stack) => stack'[i] = stack[i]
      /\ stack'[Len(stack)] = ran
  <2>1. /\ Append(low, ran) \in Seq(Frame)
        /\ DOMAIN Append(low, ran) = 1 .. Len(low) + 1
        /\ \A i \in DOMAIN low : Append(low, ran)[i] = low[i]
        /\ Append(low, ran)[Len(low) + 1] = ran
    BY <1>2, <1>3, Pushed
  <2>2. Len(low) + 1 = Len(stack)
    BY <1>2, <1>5
  <2>3. \A i \in DOMAIN stack : i # Len(stack) => i \in DOMAIN low
    BY <1>2
  <2> QED
    BY <1>2, <1>4, <2>1, <2>2, <2>3
<1>7. \A i \in DOMAIN stack : Serves(stack'[i]) <=> Serves(stack[i])
  <2> SUFFICES ASSUME NEW i \in DOMAIN stack
               PROVE  Serves(stack'[i]) <=> Serves(stack[i])
    OBVIOUS
  <2>1. CASE i = Len(stack)
    BY <1>1, <1>2, <1>3, <1>6, <2>1 DEF Serves
  <2>2. CASE i # Len(stack)
    BY <1>6, <2>2
  <2> QED
    BY <2>1, <2>2
<1>8. Quiet(stack') <=> Quiet(stack)
  BY <1>6, <1>7 DEF Quiet
<1>9. StateOK(stack', bISRActives', iISRActiveCount', nISRHandlerCount')
  BY <1>4, <1>6, <1>7, <1>8 DEF IInv, StateOK, isr
<1>10. event' \in [Devices -> BOOLEAN]
  BY <1>4 DEF IInv, TypeRest
<1>11. TypeRest' /\ Registered' /\ (AlarmAlone => ReadIsCurrent')
  BY <1>4, <1>10 DEF IInv, TypeRest, Registered, ReadIsCurrent, isr
<1>12. ASSUME AlarmAlone, NEW d \in Devices, masked'[d], init'[d] = "done"
       PROVE  Coming(stack', bISRActives', d) \/ event'[d] \/ ist'[d] = "work"
  <2>1. /\ lpISRFun[d] = "event"
        /\ Coming(stack, bISRActives, d) \/ event[d] \/ ist[d] = "work"
    BY <1>4, <1>12 DEF IInv, Registered, Alive
  <2>2. event[d] => event'[d]
    BY <1>4 DEF IInv, TypeRest
  <2>3. CASE top.idx = d
    BY <1>4, <2>1, <2>3 DEF IInv, TypeRest
  <2>4. CASE top.idx # d
    <3>1. Coming(stack, bISRActives, d) => Coming(stack', bISRActives', d)
      BY <1>2, <1>4, <1>6, <2>4 DEF Coming, isr
    <3> QED
      BY <1>4, <2>1, <2>2, <3>1
  <2> QED
    BY <2>3, <2>4
<1> QED
  BY <1>9, <1>11, <1>12 DEF IInv, Alive

\* The routines go on, or the interrupt returns.
LEMMA NextISRKeeps == IInv /\ NextISR => IInv'
<1> SUFFICES ASSUME IInv, NextISR PROVE IInv'
  OBVIOUS
<1>1. /\ stack # <<>>
      /\ Last(stack).pc = "served"
      /\ stack \in Seq(Frame)
      /\ Last(stack) \in Frame
  BY Popped DEF NextISR, IInv, StateOK
<1>2. /\ StateOK(Front(stack), bISRActives, iISRActiveCount, 0)
      /\ Quiet(Front(stack))
      /\ \A d \in Devices : Coming(stack, bISRActives, d) => Coming(Front(stack), bISRActives, d)
  BY <1>1, PopFrame DEF IInv
<1>3. /\ Last(stack).irq \in BOOLEAN
      /\ Last(stack).next \in Nat
      /\ ALL \in Devices \cup {ALL}
  BY <1>1 DEF Frame
<1>4. /\ Handle(Front(stack), Last(stack).irq, bISRActives, iISRActiveCount, ALL, Last(stack).next)
      /\ UNCHANGED <<masked, bISRMasks, lpISRFun, driver, read>>
  BY DEF NextISR
<1>5. /\ StateOK(stack', bISRActives', iISRActiveCount', nISRHandlerCount')
      /\ \A e \in Devices : Coming(Front(stack), bISRActives, e) => Coming(stack', bISRActives', e)
  BY <1>2, <1>3, <1>4, HandleKeeps
<1> QED
  BY <1>2, <1>4, <1>5, HandlerStep DEF IInv, TypeRest

LEMMA DeviceInterruptKeeps ==
  ASSUME IInv, NEW d \in Devices, DeviceInterrupt(d)
  PROVE  IInv'
<1> DEFINE A == [bISRActives EXCEPT ![d] = TRUE]
           n == IF bISRActives[d] THEN iISRActiveCount ELSE iISRActiveCount + 1
<1>1. bISRActives \in [Devices -> BOOLEAN] /\ iISRActiveCount \in Nat
  BY DEF IInv, StateOK
<1>2. A \in [Devices -> BOOLEAN] /\ A[d] /\ (\A e \in Devices : bISRActives[e] => A[e])
  BY <1>1
<1>3. n \in Nat /\ Cardinality({e \in Devices : A[e]}) <= n
  <2>1. Cardinality({e \in Devices : A[e]})
          = IF bISRActives[d] THEN Cardinality({e \in Devices : bISRActives[e]})
            ELSE Cardinality({e \in Devices : bISRActives[e]}) + 1
    BY <1>1, ActiveAdded
  <2>2. Cardinality({e \in Devices : bISRActives[e]}) \in Nat
    <3>1. IsFiniteSet({e \in Devices : bISRActives[e]})
      BY DevicesFinite, FS_Subset
    <3> QED
      BY <3>1, FS_CardinalityType
  <2> QED
    BY <1>1, <2>1, <2>2 DEF IInv, StateOK
<1>4. /\ ISR_Handler(stack, TRUE, A, n, d)
      /\ masked' = [masked EXCEPT ![d] = TRUE]
      /\ AlarmAlone => read = {}
      /\ UNCHANGED <<bISRMasks, lpISRFun, driver, read>>
  BY DEF DeviceInterrupt, MaskFree
<1> HIDE DEF A, n
<1>5. StateOK(stack, A, n, nISRHandlerCount)
  BY <1>2, <1>3 DEF IInv, StateOK
<1>6. /\ StateOK(stack', bISRActives', iISRActiveCount', nISRHandlerCount')
      /\ \A e \in Devices : Coming(stack, A, e) => Coming(stack', bISRActives', e)
  BY <1>4, <1>5, ISR_HandlerKeeps
<1>7. /\ \A e \in Devices : Coming(stack, bISRActives, e) => Coming(stack', bISRActives', e)
      /\ Coming(stack', bISRActives', d)
  BY <1>2, <1>6 DEF Coming
<1>8. /\ masked' \in [Devices -> BOOLEAN]
      /\ \A e \in Devices : masked'[e] => masked[e] \/ e = d
  BY <1>4 DEF IInv, TypeRest
<1> QED
  BY <1>4, <1>6, <1>7, <1>8, HandlerStep

\* The steps that call ISR_Handler for all routines, or need not.
LEMMA ScanKeeps ==
  ASSUME IInv, TimerInterrupt \/ DefaultHandler \/ DoLeaveAPI
  PROVE  IInv'
<1> DEFINE Kept ==
      /\ StateOK(stack', bISRActives', iISRActiveCount', nISRHandlerCount')
      /\ \A e \in Devices : Coming(stack, bISRActives, e) => Coming(stack', bISRActives', e)
<1>1. StateOK(stack, bISRActives, iISRActiveCount, nISRHandlerCount) /\ ALL \in Devices \cup {ALL}
  BY DEF IInv
<1>2. ASSUME TimerInterrupt PROVE Kept
  <2>1. CASE iISRActiveCount # 0
    <3>1. ISR_Handler(stack, TRUE, bISRActives, iISRActiveCount, ALL)
      BY <1>2, <2>1 DEF TimerInterrupt
    <3> QED
      BY <1>1, <3>1, ISR_HandlerKeeps
  <2>2. CASE iISRActiveCount = 0
    <3>1. /\ stack' = Append(stack, InDefault)
          /\ UNCHANGED <<bISRActives, iISRActiveCount, nISRHandlerCount>>
      BY <1>2, <2>2 DEF TimerInterrupt
    <3> QED
      BY <1>1, <3>1, PushDefault
  <2> QED
    BY <2>1, <2>2
<1>3. ASSUME DefaultHandler PROVE Kept
  <2>1. /\ StateOK(Front(stack), bISRActives, iISRActiveCount, nISRHandlerCount)
        /\ \A e \in Devices : Coming(stack, bISRActives, e) => Coming(Front(stack), bISRActives, e)
    BY <1>1, <1>3, PopFrame DEF DefaultHandler
  <2>2. CASE iISRActiveCount # 0
    <3>1. ISR_Handler(Front(stack), FALSE, bISRActives, iISRActiveCount, ALL)
      BY <1>3, <2>2 DEF DefaultHandler
    <3>2. /\ StateOK(stack', bISRActives', iISRActiveCount', nISRHandlerCount')
          /\ \A e \in Devices :
               Coming(Front(stack), bISRActives, e) => Coming(stack', bISRActives', e)
      BY <1>1, <2>1, <3>1, ISR_HandlerKeeps
    <3> QED
      BY <2>1, <3>2
  <2>3. CASE iISRActiveCount = 0
    <3>1. stack' = Front(stack) /\ UNCHANGED <<bISRActives, iISRActiveCount, nISRHandlerCount>>
      BY <1>3, <2>3 DEF DefaultHandler
    <3> QED
      BY <2>1, <3>1
  <2> QED
    BY <2>2, <2>3
<1>4. ASSUME DoLeaveAPI PROVE Kept
  <2>1. ISR_Handler(stack, FALSE, bISRActives, iISRActiveCount, ALL)
    BY <1>4 DEF DoLeaveAPI
  <2> QED
    BY <1>1, <2>1, ISR_HandlerKeeps
<1>5. UNCHANGED <<masked, bISRMasks, lpISRFun, driver, read>>
  BY DEF TimerInterrupt, DefaultHandler, DoLeaveAPI
<1>6. masked' \in [Devices -> BOOLEAN]
  BY <1>5 DEF IInv, TypeRest
<1>7. Kept
  BY <1>2, <1>3, <1>4
<1> QED
  BY <1>5, <1>6, <1>7, HandlerStep

\* The registration of a routine: it clears the flag of the device and not the count, and
\* so does taking the registration back.
LEMMA RegisterKeeps ==
  ASSUME IInv, NEW d \in Devices, ISR_RegisterServer(d) \/ IntrInitFails(d)
  PROVE  IInv'
<1>1. /\ bISRActives' = [bISRActives EXCEPT ![d] = FALSE]
      /\ UNCHANGED <<masked, iISRActiveCount, nISRHandlerCount, stack, event, ist, read>>
  BY DEF ISR_RegisterServer, IntrInitFails
<1>2. bISRActives \in [Devices -> BOOLEAN]
  BY DEF IInv, StateOK
<1>3. Cardinality({e \in Devices : bISRActives'[e]}) <= iISRActiveCount
  <2>1. Cardinality({e \in Devices : bISRActives'[e]})
          <= Cardinality({e \in Devices : bISRActives[e]})
    BY <1>1, <1>2, ActiveCleared
  <2>2. /\ Cardinality({e \in Devices : bISRActives'[e]}) \in Nat
        /\ Cardinality({e \in Devices : bISRActives[e]}) \in Nat
    <3>1. /\ IsFiniteSet({e \in Devices : bISRActives'[e]})
          /\ IsFiniteSet({e \in Devices : bISRActives[e]})
      BY DevicesFinite, FS_Subset
    <3> QED
      BY <3>1, FS_CardinalityType
  <2> QED
    BY <2>1, <2>2 DEF IInv, StateOK
<1>4. StateOK(stack', bISRActives', iISRActiveCount', nISRHandlerCount')
  BY <1>1, <1>2, <1>3 DEF IInv, StateOK
<1>5. /\ init' \in [Devices -> {"no", "enable", "unregister", "done", "off"}]
      /\ init'[d] # "done"
      /\ \A e \in Devices \ {d} : init'[e] = init[e] /\ bISRActives'[e] = bISRActives[e]
  BY <1>1, <1>2 DEF ISR_RegisterServer, IntrInitFails, IInv, TypeRest
<1>6. /\ lpISRFun' \in [Devices -> {"event", "default"}]
      /\ bISRMasks' \in [Devices -> BOOLEAN]
      /\ nInits' \in Nat
  <2>1. CASE ISR_RegisterServer(d)
    BY <2>1 DEF ISR_RegisterServer, IInv, TypeRest
  <2>2. CASE IntrInitFails(d)
    BY <2>2 DEF IntrInitFails, IInv, TypeRest
  <2> QED
    BY <2>1, <2>2
<1>7. TypeRest'
  BY <1>1, <1>5, <1>6 DEF IInv, TypeRest
<1>8. Registered'
  <2>1. CASE ISR_RegisterServer(d)
    <3>1. /\ lpISRFun' = [lpISRFun EXCEPT ![d] = "event"]
          /\ bISRMasks' = [bISRMasks EXCEPT ![d] = TRUE]
      BY <2>1 DEF ISR_RegisterServer
    <3> QED
      BY <1>5, <3>1 DEF IInv, TypeRest, Registered
  <2>2. CASE IntrInitFails(d)
    <3>1. /\ lpISRFun' = lpISRFun
          /\ bISRMasks' = [bISRMasks EXCEPT ![d] = FALSE]
          /\ init'[d] = "unregister"
      BY <2>2 DEF IntrInitFails, IInv, TypeRest
    <3> QED
      BY <1>5, <3>1 DEF IInv, TypeRest, Registered
  <2> QED
    BY <2>1, <2>2
<1>9. AlarmAlone => ReadIsCurrent' /\ Alive'
  BY <1>1, <1>5 DEF IInv, ReadIsCurrent, Alive, Coming
<1> QED
  BY <1>4, <1>7, <1>8, <1>9 DEF IInv

\* The other calls of the drivers and the alarm thread leave the manager's state alone.
LEMMA ThreadKeeps ==
  ASSUME IInv,
         \/ \E d \in Devices :
              \/ IntrInitEnable(d) \/ ISR_Unregister(d) \/ WaitInterrupt(d)
              \/ KL_IntrDone(d) \/ KL_IntrDisable(d) \/ KL_IntrEnable(d)
         \/ ReadMask
         \/ OEM_SetAlarmTime
  PROVE  IInv'
<1>1. /\ UNCHANGED <<bISRActives, bISRMasks, iISRActiveCount, nISRHandlerCount, stack, nInits>>
      /\ StateOK(stack', bISRActives', iISRActiveCount', nISRHandlerCount')
  BY DEF IntrInitEnable, ISR_Unregister, WaitInterrupt, KL_IntrDone, KL_IntrDisable,
         KL_IntrEnable, ReadMask, OEM_SetAlarmTime, isr, driver, IInv, StateOK
<1>2. ASSUME NEW d \in Devices, IntrInitEnable(d)
      PROVE  IInv'
  BY <1>1, <1>2 DEF IntrInitEnable, OEM_InterruptEnable, MaskFree, isr, IInv, TypeRest,
         Registered, ReadIsCurrent, Alive
<1>3. ASSUME NEW d \in Devices, ISR_Unregister(d)
      PROVE  IInv'
  BY <1>1, <1>3 DEF ISR_Unregister, IInv, TypeRest, Registered, ReadIsCurrent, Alive
<1>4. ASSUME NEW d \in Devices, WaitInterrupt(d)
      PROVE  IInv'
  BY <1>1, <1>4 DEF WaitInterrupt, isr, IInv, TypeRest, Registered, ReadIsCurrent, Alive
<1>5. ASSUME NEW d \in Devices, KL_IntrDone(d)
      PROVE  IInv'
  BY <1>1, <1>5 DEF KL_IntrDone, MaskFree, isr, IInv, TypeRest, Registered, ReadIsCurrent, Alive
<1>6. ASSUME NEW d \in Devices, KL_IntrDisable(d)
      PROVE  IInv'
  BY <1>1, <1>6 DEF KL_IntrDisable, MaskFree, isr, IInv, TypeRest, Registered, ReadIsCurrent,
         Alive
<1>7. ASSUME NEW d \in Devices, KL_IntrEnable(d)
      PROVE  IInv'
  BY <1>1, <1>7 DEF KL_IntrEnable, OEM_InterruptEnable, MaskFree, isr, IInv, TypeRest,
         Registered, ReadIsCurrent, Alive
<1>8. ASSUME ReadMask
      PROVE  IInv'
  BY <1>1, <1>8 DEF ReadMask, isr, driver, IInv, TypeRest, Registered, ReadIsCurrent, Alive
<1>9. ASSUME OEM_SetAlarmTime
      PROVE  IInv'
  <2>1. PICK m \in read : masked' = [d \in Devices |-> m[d] /\ d \notin Alarms]
    BY <1>9 DEF OEM_SetAlarmTime
  <2>2. read' = {} /\ UNCHANGED <<lpISRFun, event, ist, init>>
    BY <1>9 DEF OEM_SetAlarmTime, isr, driver
  <2>3. masked' \in [Devices -> BOOLEAN]
    BY <2>1
  <2>4. TypeRest' /\ Registered'
    BY <1>1, <2>2, <2>3 DEF IInv, TypeRest, Registered
  <2>5. AlarmAlone => \A d \in Devices : masked'[d] => masked[d]
    BY <2>1 DEF IInv, ReadIsCurrent
  <2>6. AlarmAlone => ReadIsCurrent' /\ Alive'
    BY <1>1, <2>2, <2>5 DEF IInv, ReadIsCurrent, Alive
  <2> QED
    BY <1>1, <2>4, <2>6 DEF IInv
<1> QED
  BY <1>2, <1>3, <1>4, <1>5, <1>6, <1>7, <1>8, <1>9

LEMMA InitKeeps == ISR_Init => IInv
<1> SUFFICES ASSUME ISR_Init PROVE IInv
  OBVIOUS
<1>1. TypeRest
  BY DEF ISR_Init, TypeRest
<1>2. Registered /\ ReadIsCurrent /\ Alive
  BY DEF ISR_Init, Registered, ReadIsCurrent, Alive
<1>3. {d \in Devices : bISRActives[d]} = {}
  BY DEF ISR_Init
<1>4. Cardinality({d \in Devices : bISRActives[d]}) <= iISRActiveCount
  <2>1. Cardinality({d \in Devices : bISRActives[d]}) = 0
    BY <1>3, FS_EmptySet
  <2> QED
    BY <2>1 DEF ISR_Init
<1>5. stack \in Seq(Frame) /\ DOMAIN stack = {}
  BY DEF ISR_Init
<1>6. StateOK(stack, bISRActives, iISRActiveCount, nISRHandlerCount)
  BY <1>4, <1>5 DEF ISR_Init, StateOK, Quiet
<1> QED
  BY <1>1, <1>2, <1>6 DEF IInv

LEMMA StepKeeps == IInv /\ [Next]_vars => IInv'
<1> SUFFICES ASSUME IInv, [Next]_vars PROVE IInv'
  OBVIOUS
<1>1. CASE System
  BY <1>1, CallISRKeeps, NextISRKeeps, ScanKeeps DEF System
<1>2. CASE TimerInterrupt \/ DoLeaveAPI
  BY <1>2, ScanKeeps
<1>3. CASE ReadMask \/ OEM_SetAlarmTime
  BY <1>3, ThreadKeeps
<1>4. ASSUME NEW d \in Devices, DeviceInterrupt(d) PROVE IInv'
  BY <1>4, DeviceInterruptKeeps
<1>5. ASSUME NEW d \in Devices, Driver(d) PROVE IInv'
  BY <1>5, RegisterKeeps, ThreadKeeps DEF Driver
<1>6. CASE UNCHANGED vars
  BY <1>6 DEF vars, IInv, TypeRest, StateOK, Quiet, Registered, ReadIsCurrent, Alive, Coming
<1> QED
  BY <1>1, <1>2, <1>3, <1>4, <1>5, <1>6 DEF Next

-----------------------------------------------------------------------------
(* The theorems *)

\* The inductive invariant holds always.
THEOREM InvariantHolds == Spec => []IInv
  BY InitKeeps, StepKeeps, PTL DEF Spec

\* Type correctness: the count of active routines never falls below zero (isr.c).
THEOREM TypeCorrect == Spec => []TypeOK
<1>1. IInv => TypeOK
  BY DEF IInv, TypeRest, StateOK, TypeOK
<1> QED
  BY <1>1, InvariantHolds, PTL

\* The count covers the active routines, so no check for work overlooks one (isr.c).
THEOREM CountIsEnough == Spec => []CountCovers
<1>1. IInv => CountCovers
  BY DEF IInv, StateOK, CountCovers, Active
<1> QED
  BY <1>1, InvariantHolds, PTL

\* ISR_Handler runs once at a time, however interrupts nest (isr.c).
THEOREM HandlerNotReentered == Spec => []OneHandler
<1>1. IInv => OneHandler
  <2> SUFFICES ASSUME IInv PROVE OneHandler
    OBVIOUS
  <2>1. \A i \in DOMAIN stack : Serves(stack[i]) <=> Serving(i)
    BY DEF Serves, Serving
  <2>2. nISRHandlerCount = 1 <=> ~Quiet(stack)
    BY DEF IInv, StateOK
  <2>3. ~Quiet(stack) <=> \E i \in DOMAIN stack : Serving(i)
    BY <2>1 DEF Quiet
  <2>4. \A i, j \in DOMAIN stack : Serving(i) /\ Serving(j) => i = j
    BY <2>1 DEF IInv, StateOK
  <2> QED
    BY <2>2, <2>3, <2>4 DEF OneHandler
<1> QED
  BY <1>1, InvariantHolds, PTL

\* When nothing else writes the mask while OEM_SetAlarmTime does, the masked line of every
\* device in use has somebody on the way to unmask it (oemintr.c, isr.c, intrapi.c).
THEOREM LinesComeBack ==
  ASSUME AlarmAlone
  PROVE  Spec => []NoDeadLine
<1>1. IInv => NoDeadLine
  BY DEF IInv, Registered, Alive, Coming, NoDeadLine
<1> QED
  BY <1>1, InvariantHolds, PTL
=============================================================================
