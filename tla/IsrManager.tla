----------------------------- MODULE IsrManager -----------------------------
(***************************************************************************)
(* The delivery of device interrupts: the interrupt entry (sysintr.c), the *)
(* service routine manager (isr.c), the calls of the drivers (intrapi.c)   *)
(* and the interrupt lines of the board (oemintr.c).                       *)
(*                                                                         *)
(* A device interrupts; the entry masks its line, notes that the device's  *)
(* routine is active and calls ISR_Handler, which runs the active routines *)
(* with interrupts on.  A routine sets the event its driver thread waits   *)
(* for, and the thread unmasks the line when it is done.                   *)
(*                                                                         *)
(* The real-time clock is a device apart: OEM_SetAlarmTime unmasks its     *)
(* line, in a read and a write of the mask with interrupts on (oemtime.c), *)
(* and OEM_InterruptEnable does not know it.                               *)
(*                                                                         *)
(* The interrupts that have not returned are a stack of frames; what runs  *)
(* is the top frame, or a thread when the stack is empty.  A step is a     *)
(* stretch of code with interrupts off.  A device may ask for service      *)
(* whenever its line is not masked.                                        *)
(***************************************************************************)
EXTENDS Integers, FiniteSets, SequencesExt

CONSTANTS nDevices,    \* SYSINTR_MAXIMUM
          Lines,       \* the devices OEM_InterruptEnable knows; it fails for others
          Alarms,      \* SYSINTR_RTC_ALARM
          AlarmAlone,  \* TRUE: nothing else changes the mask while OEM_SetAlarmTime does
          MaxNested,   \* bound on the interrupts that have not returned
          MaxInits     \* bound on the calls of INTR_Init

Devices == 0 .. nDevices - 1

ASSUME IsrAssumption ==
  /\ nDevices \in Nat
  /\ Lines \subseteq Devices
  /\ Alarms \subseteq Devices
  /\ AlarmAlone \in BOOLEAN
  /\ MaxNested \in Nat
  /\ MaxInits \in Nat

ALL == -1   \* ISR_ALL_INTRS, and the timer, which is never active itself

VARIABLES
  masked,           \* rINTMSK
  bISRActives,      \* the routine of the device is to be called
  bISRMasks,        \* TRUE: the routine may be called
  lpISRFun,         \* "event": INTR_ISRFun, "default": ISR_DefHandler
  iISRActiveCount,
  nISRHandlerCount, \* 0: ISR_Handler may be entered
  stack,            \* the frames of the interrupts that have not returned
  event,            \* the event of the device is signalled
  ist,              \* the driver's interrupt thread: "none", "wait" or "work"
  init,             \* where the driver is in INTR_Init
  nInits,           \* the calls of INTR_Init
  read              \* the mask that OEM_SetAlarmTime has read and not written yet

isr      == <<bISRActives, bISRMasks, lpISRFun, iISRActiveCount, nISRHandlerCount>>
driver   == <<event, ist, init, nInits>>
vars     == <<masked, bISRActives, bISRMasks, lpISRFun, iISRActiveCount,
              nISRHandlerCount, stack, event, ist, init, nInits, read>>

\* A frame of ISR_Handler is about to call the routine idx ("serve") or has called it
\* ("served") and goes on at next; irq: an interrupt called it, not a thread.  A frame
\* "default" is about to call DefaultHandler.
Frame == [pc: {"serve", "served", "default"}, idx: Devices \cup {ALL}, next: Nat, irq: BOOLEAN]

InDefault == [pc |-> "default", idx |-> ALL, next |-> 0, irq |-> TRUE]

ISR_Init ==
  /\ masked = [d \in Devices |-> TRUE]
  /\ bISRActives = [d \in Devices |-> FALSE]
  /\ bISRMasks = [d \in Devices |-> FALSE]
  /\ lpISRFun = [d \in Devices |-> "default"]
  /\ iISRActiveCount = 0
  /\ nISRHandlerCount = 0
  /\ stack = <<>>
  /\ event = [d \in Devices |-> FALSE]
  /\ ist = [d \in Devices |-> "none"]
  /\ init = [d \in Devices |-> "no"]
  /\ nInits = 0
  /\ read = {}

\* A thread runs; the interrupts are on.
InThread == stack = <<>>

\* The mask may be changed.  The code does not ask for it: AlarmAlone is a hypothesis.
MaskFree == AlarmAlone => read = {}

-----------------------------------------------------------------------------
(* ISR_Handler *)

\* Mutant: the scan starts one too high.
Callable_OffByOne(A, first, p) ==
  LET ready == {d \in Devices : A[d] /\ bISRMasks[d]}
  IN  IF first \in ready THEN {first} ELSE {d \in ready : d > p}

\* What ISR_Handler calls next, with the active routines A: first if it can be called,
\* else the scan goes on at index p.
Callable(A, first, p) ==
  LET ready == {d \in Devices : A[d] /\ bISRMasks[d]}
  IN  IF first \in ready THEN {first} ELSE {d \in ready : d >= p}

\* The handler, entered or gone on with on the stack s, up to its next call of a
\* routine, the one with the lowest index, or to its return.  A and n: bISRActives and
\* iISRActiveCount.
Handle(s, irq, A, n, first, p) ==
  \/ \E d \in Callable(A, first, p) :
       /\ n # 0
       /\ \A e \in Callable(A, first, p) : d <= e
       /\ bISRActives' = [A EXCEPT ![d] = FALSE]
       /\ iISRActiveCount' = n - 1
       /\ nISRHandlerCount' = 1
       /\ stack' = Append(s, [pc |-> "serve", idx |-> d, irq |-> irq,
                              next |-> IF d = first THEN 0 ELSE d + 1])
  \/ /\ n = 0 \/ Callable(A, first, p) = {}
     /\ bISRActives' = A
     /\ iISRActiveCount' = n
     /\ nISRHandlerCount' = 0
     /\ stack' = IF irq THEN Append(s, InDefault) ELSE s

\* Mutant: a second entry resets the count on its way out.
ISR_Handler_ResetOnReturn(s, irq, A, n, first) ==
  IF nISRHandlerCount = 0 THEN Handle(s, irq, A, n, first, 0)
  ELSE /\ bISRActives' = A
       /\ iISRActiveCount' = n
       /\ nISRHandlerCount' = 0
       /\ stack' = IF irq THEN Append(s, InDefault) ELSE s

\* A second entry returns at once.
ISR_Handler(s, irq, A, n, first) ==
  IF nISRHandlerCount = 0 THEN Handle(s, irq, A, n, first, 0)
  ELSE /\ bISRActives' = A
       /\ iISRActiveCount' = n
       /\ nISRHandlerCount' = 1
       /\ stack' = IF irq THEN Append(s, InDefault) ELSE s

\* The call of lpISRFun, with interrupts on.
CallISR ==
  /\ stack # <<>>
  /\ Last(stack).pc = "serve"
  /\ event' = [event EXCEPT ![Last(stack).idx] = @ \/ lpISRFun[Last(stack).idx] = "event"]
  /\ stack' = Append(Front(stack), [Last(stack) EXCEPT !.pc = "served"])
  /\ UNCHANGED <<masked, isr, ist, init, nInits, read>>

\* Interrupts off again: the handler goes on.
NextISR ==
  /\ stack # <<>>
  /\ Last(stack).pc = "served"
  /\ Handle(Front(stack), Last(stack).irq, bISRActives, iISRActiveCount, ALL, Last(stack).next)
  /\ UNCHANGED <<masked, bISRMasks, lpISRFun, driver, read>>

-----------------------------------------------------------------------------
(* Interrupts *)

\* Mutant: the routine is not noted while ISR_Handler is busy.
DeviceInterrupt_DropNested(d) ==
  /\ ~masked[d]
  /\ MaskFree
  /\ Len(stack) < MaxNested
  /\ masked' = [masked EXCEPT ![d] = TRUE]
  /\ ISR_Handler(stack, TRUE, [bISRActives EXCEPT ![d] = @ \/ nISRHandlerCount = 0],
                 IF bISRActives[d] \/ nISRHandlerCount # 0 THEN iISRActiveCount
                 ELSE iISRActiveCount + 1, d)
  /\ UNCHANGED <<bISRMasks, lpISRFun, driver, read>>

\* Mutant: the routine is not counted while ISR_Handler is busy.
DeviceInterrupt_CountOnce(d) ==
  /\ ~masked[d]
  /\ MaskFree
  /\ Len(stack) < MaxNested
  /\ masked' = [masked EXCEPT ![d] = TRUE]
  /\ ISR_Handler(stack, TRUE, [bISRActives EXCEPT ![d] = TRUE],
                 IF nISRHandlerCount # 0 THEN iISRActiveCount ELSE iISRActiveCount + 1, d)
  /\ UNCHANGED <<bISRMasks, lpISRFun, driver, read>>

\* OEM_InterruptHandler for a device, and INTR_Interrupt with ISR_Active.
DeviceInterrupt(d) ==
  /\ ~masked[d]
  /\ MaskFree
  /\ Len(stack) < MaxNested
  /\ masked' = [masked EXCEPT ![d] = TRUE]
  /\ ISR_Handler(stack, TRUE, [bISRActives EXCEPT ![d] = TRUE],
                 IF bISRActives[d] THEN iISRActiveCount ELSE iISRActiveCount + 1, d)
  /\ UNCHANGED <<bISRMasks, lpISRFun, driver, read>>

\* The timer's interrupt, from which DoTimer returns.
TimerInterrupt ==
  /\ Len(stack) < MaxNested
  /\ IF iISRActiveCount # 0 THEN ISR_Handler(stack, TRUE, bISRActives, iISRActiveCount, ALL)
     ELSE stack' = Append(stack, InDefault)
          /\ UNCHANGED <<bISRActives, iISRActiveCount, nISRHandlerCount>>
  /\ UNCHANGED <<masked, bISRMasks, lpISRFun, driver, read>>

\* DefaultHandler: once more for all, then the interrupt returns.
DefaultHandler ==
  /\ stack # <<>>
  /\ Last(stack).pc = "default"
  /\ IF iISRActiveCount # 0 THEN ISR_Handler(Front(stack), FALSE, bISRActives, iISRActiveCount, ALL)
     ELSE stack' = Front(stack) /\ UNCHANGED <<bISRActives, iISRActiveCount, nISRHandlerCount>>
  /\ UNCHANGED <<masked, bISRMasks, lpISRFun, driver, read>>

\* A thread leaves a system call, or gives the processor up (Schedule).
DoLeaveAPI ==
  /\ InThread
  /\ iISRActiveCount # 0
  /\ ISR_Handler(stack, FALSE, bISRActives, iISRActiveCount, ALL)
  /\ UNCHANGED <<masked, bISRMasks, lpISRFun, driver, read>>

-----------------------------------------------------------------------------
(* The drivers *)

\* Mutant: the count is lowered whether the routine was active or not.
ISR_RegisterServer_LowerCount(d) ==
  /\ InThread
  /\ init[d] \in {"no", "done"}
  /\ nInits < MaxInits
  /\ lpISRFun' = [lpISRFun EXCEPT ![d] = "event"]
  /\ bISRMasks' = [bISRMasks EXCEPT ![d] = TRUE]
  /\ bISRActives' = [bISRActives EXCEPT ![d] = FALSE]
  /\ iISRActiveCount' = iISRActiveCount - 1
  /\ init' = [init EXCEPT ![d] = "enable"]
  /\ nInits' = nInits + 1
  /\ UNCHANGED <<masked, nISRHandlerCount, stack, event, ist, read>>

\* KL_IntrInit: ISR_RegisterServer, with interrupts off.
ISR_RegisterServer(d) ==
  /\ InThread
  /\ init[d] \in {"no", "done"}
  /\ nInits < MaxInits
  /\ lpISRFun' = [lpISRFun EXCEPT ![d] = "event"]
  /\ bISRMasks' = [bISRMasks EXCEPT ![d] = TRUE]
  /\ bISRActives' = [bISRActives EXCEPT ![d] = FALSE]
  /\ init' = [init EXCEPT ![d] = "enable"]
  /\ nInits' = nInits + 1
  /\ UNCHANGED <<masked, iISRActiveCount, nISRHandlerCount, stack, event, ist, read>>

OEM_InterruptEnable(d) ==
  /\ d \in Lines
  /\ MaskFree
  /\ masked' = [masked EXCEPT ![d] = FALSE]

\* The driver starts its thread once it has its interrupt.
IntrInitEnable(d) ==
  /\ InThread
  /\ init[d] = "enable"
  /\ OEM_InterruptEnable(d)
  /\ init' = [init EXCEPT ![d] = "done"]
  /\ ist' = [ist EXCEPT ![d] = IF @ = "none" THEN "wait" ELSE @]
  /\ UNCHANGED <<isr, stack, event, nInits, read>>

\* ISR_Unregister, with interrupts on: ISR_Disable and the active flag, then the routine.
IntrInitFails(d) ==
  /\ InThread
  /\ init[d] = "enable"
  /\ d \notin Lines
  /\ bISRMasks' = [bISRMasks EXCEPT ![d] = FALSE]
  /\ bISRActives' = [bISRActives EXCEPT ![d] = FALSE]
  /\ init' = [init EXCEPT ![d] = "unregister"]
  /\ UNCHANGED <<masked, lpISRFun, iISRActiveCount, nISRHandlerCount, stack, event, ist,
                 nInits, read>>

ISR_Unregister(d) ==
  /\ InThread
  /\ init[d] = "unregister"
  /\ lpISRFun' = [lpISRFun EXCEPT ![d] = "default"]
  /\ init' = [init EXCEPT ![d] = "no"]
  /\ UNCHANGED <<masked, bISRActives, bISRMasks, iISRActiveCount, nISRHandlerCount,
                 stack, event, ist, nInits, read>>

\* The interrupt thread waits for its event ...
WaitInterrupt(d) ==
  /\ InThread
  /\ ist[d] = "wait"
  /\ event[d]
  /\ event' = [event EXCEPT ![d] = FALSE]
  /\ ist' = [ist EXCEPT ![d] = "work"]
  /\ UNCHANGED <<masked, isr, stack, init, nInits, read>>

\* ... and unmasks the line when it has served the device.
KL_IntrDone(d) ==
  /\ InThread
  /\ ist[d] = "work"
  /\ MaskFree
  /\ masked' = [masked EXCEPT ![d] = FALSE]
  /\ ist' = [ist EXCEPT ![d] = "wait"]
  /\ UNCHANGED <<isr, stack, event, init, nInits, read>>

\* A driver turns its interrupt off and on, as the serial port driver does.
KL_IntrDisable(d) ==
  /\ InThread
  /\ init[d] = "done"
  /\ MaskFree
  /\ masked' = [masked EXCEPT ![d] = TRUE]
  /\ init' = [init EXCEPT ![d] = "off"]
  /\ UNCHANGED <<isr, stack, event, ist, nInits, read>>

KL_IntrEnable(d) ==
  /\ InThread
  /\ init[d] = "off"
  /\ OEM_InterruptEnable(d)
  /\ init' = [init EXCEPT ![d] = "done"]
  /\ UNCHANGED <<isr, stack, event, ist, nInits, read>>

\* OEM_SetAlarmTime, called by the alarm thread: the mask is read ...
ReadMask ==
  /\ InThread
  /\ read = {}
  /\ Alarms # {}
  /\ read' = {masked}
  /\ UNCHANGED <<masked, isr, stack, driver>>

\* ... and written with the clock's bit cleared.
OEM_SetAlarmTime ==
  /\ InThread
  /\ read # {}
  /\ \E m \in read : masked' = [d \in Devices |-> m[d] /\ d \notin Alarms]
  /\ read' = {}
  /\ UNCHANGED <<isr, stack, driver>>

-----------------------------------------------------------------------------
System == CallISR \/ NextISR \/ DefaultHandler

Driver(d) ==
  \/ ISR_RegisterServer(d) \/ IntrInitEnable(d) \/ IntrInitFails(d) \/ ISR_Unregister(d)
  \/ WaitInterrupt(d) \/ KL_IntrDone(d) \/ KL_IntrDisable(d) \/ KL_IntrEnable(d)

Next ==
  \/ System
  \/ TimerInterrupt
  \/ DoLeaveAPI
  \/ ReadMask \/ OEM_SetAlarmTime
  \/ \E d \in Devices : DeviceInterrupt(d) \/ Driver(d)

Spec == ISR_Init /\ [][Next]_vars

\* Interrupts return: a frame is not interrupted for ever, because the timer is started
\* anew by each of its interrupts and a device's line stays masked.  The timer ticks, and
\* the interrupt threads, which have the highest priority, run, as does the alarm thread.
Fairness ==
  /\ \A n \in 1 .. MaxNested : SF_vars(System /\ Len(stack) = n)
  /\ SF_vars(InThread /\ TimerInterrupt)
  /\ SF_vars(OEM_SetAlarmTime)
  /\ \A d \in Devices : SF_vars(WaitInterrupt(d) \/ KL_IntrDone(d))

FairSpec == Spec /\ Fairness

-----------------------------------------------------------------------------
(* Properties *)

TypeOK ==
  /\ masked \in [Devices -> BOOLEAN]
  /\ bISRActives \in [Devices -> BOOLEAN]
  /\ bISRMasks \in [Devices -> BOOLEAN]
  /\ lpISRFun \in [Devices -> {"event", "default"}]
  /\ iISRActiveCount \in Nat
  /\ nISRHandlerCount \in {0, 1}
  /\ stack \in Seq(Frame)
  /\ event \in [Devices -> BOOLEAN]
  /\ ist \in [Devices -> {"none", "wait", "work"}]
  /\ init \in [Devices -> {"no", "enable", "unregister", "done", "off"}]
  /\ nInits \in Nat
  /\ read \subseteq [Devices -> BOOLEAN]

Active == {d \in Devices : bISRActives[d]}

\* iISRActiveCount never falls below the number of active routines.  Every check for work
\* looks at the count alone, so a count that is too low hides a routine; registering a
\* routine that is active makes it too high (isr.c).
CountCovers == Cardinality(Active) <= iISRActiveCount

Serving(i) == stack[i].pc \in {"serve", "served"}

\* ISR_Handler is not re-entered, whatever interrupts it while it has them enabled: the
\* routines run one at a time ("prevent re-entry", ISR_Handler), and the count that says
\* so is right.
OneHandler ==
  /\ \A i, j \in DOMAIN stack : Serving(i) /\ Serving(j) => i = j
  /\ nISRHandlerCount = 1 <=> \E i \in DOMAIN stack : Serving(i)

\* No line in use goes dead: while the line of a device is masked, somebody is on the way
\* to unmask it.
NoDeadLine ==
  \A d \in Devices : masked[d] /\ init[d] = "done" =>
    \/ bISRActives[d] /\ bISRMasks[d]
    \/ \E i \in DOMAIN stack : stack[i].pc = "serve" /\ stack[i].idx = d
    \/ event[d]
    \/ ist[d] = "work"

\* A masked line is unmasked again, so the device can be heard again.
LineComesBack ==
  \A d \in Devices : (masked[d] /\ init[d] = "done") ~> (~masked[d] \/ init[d] # "done")
=============================================================================
