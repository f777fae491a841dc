# Kingmos kernel: a verification project

Kingmos is an embedded real-time operating system in C for ARM boards (the
s3c2410 is the reference board) with a Windows emulator port. This directory
holds TLA+ modules that model the concurrent core of its kernel and the messages
of its windowing system, the TLC configurations that check them, and theorems
about them proved with TLAPS.

All paths below are relative to the repository; `kernel/` stands for
`src/kingmos_private/os/core/kernel/`, `gwme/` for
`src/kingmos_private/os/gwme_drv/gwme/` and `board/` for
`src/arch/s3c2410/kernel/hal/common/`.

| module | what it models |
| --- | --- |
| `RunQueue` | the rings of ready threads, their heads and the priority bitmaps (`kernel/sche.c`) |
| `Scheduler` | `Schedule`, `GetNextRun`, the tick, timed sleeps and the thread calls (`sche.c`, `thread.c`, `sleep.c`, `tick.c`) |
| `MCScheduler` | `Scheduler` for TLC |
| `RunQueueProofs`, `SchedulerProofs` | theorems about the two |
| `Semaphore` | semaphores, mutexes, events and the critical section `csSemList`: waiting, signalling, exit and termination (`semaphor.c`, `downup.c`, `sche.c`, `thread.c`) |
| `MCSemaphore` | `Semaphore` for TLC, with the kind of every object |
| `SemaphoreProofs` | theorems about it: types and owners, waits and signals, pulses |
| `IsrManager` | from the interrupt of a device to its driver's thread and back (`isr.c`, `intrapi.c`, `sysintr.c`, `board/oemintr.c`, `board/oemtime.c`) |
| `IsrManagerProofs` | theorems about it |
| `Lock` | what a critical section promises |
| `CriticalSection`, `MCCriticalSection` | critical sections with priority inheritance (`downup.c`, `semaphor.c`), for TLC with three priorities |
| `CriticalSectionProofs` | theorems about it, with the refinement of `Lock` |
| `Handles`, `MCHandles` | handles, names and reference counts of objects (`hmgr.c`, `semaphor.c`) |
| `HandlesProofs` | theorems about it |
| `Subsequences` | what is left of a sequence at some of its indices, without recursion |
| `MsgFifo` | what a thread's message queue promises |
| `MessageQueue`, `MCMessageQueue` | the ring of messages, its search, its growth and its owner's wait (`gwme/msgqueue.c`, `gwme/message.c`, `gwme/win.c`) |
| `MessageQueueProofs` | theorems about it, with the refinement of `MsgFifo` |
| `SendMessage` | messages sent between threads, with answers and time-outs (`gwme/message.c`) |
| `SendMessageProofs` | theorems about it |

## 1. Inventory

### How the system works

There is one CPU and one kernel. A thread runs until it calls `Schedule` or an
interrupt, on its way out, finds `bNeedResched` set. Kernel code protects its
data by turning interrupts off for short stretches (`LockIRQSave`,
`INTR_OFF`), so the unit of atomicity everywhere is such a stretch; between two
of them anything may happen. Interrupts mark a service routine active;
`ISR_Handler` calls the active routines with interrupts on, and a routine
usually sets the event that a driver's thread waits for.

| part | state | operations | interacts through | hard because |
| --- | --- | --- | --- | --- |
| run queue, scheduler (`sche.c`) | rings, heads, bitmaps, `nCountRunning`, time slices, boosts, `bNeedResched`, `lpCurThread` | add, remove, wake, choose, switch, rotate | called by every blocking call, by the tick and by service routines | wake-ups race with going to sleep; pointers must agree with states |
| threads (`thread.c`, `sleep.c`) | state, suspend count, priorities, policy, exit code | create, suspend, resume, set priority, sleep, terminate, exit | the run queue; the objects a thread owns | calls on another thread at any point of its life |
| wait objects (`semaphor.c`, `downup.c`) | `nCount`, `nWaiting`, `lpOwner`, `nLockCount`, wait queue, flags | wait for one, any or all, release, set, reset, pulse | wait queue elements point at threads; the sweep at exit | lost wake-ups, timeouts racing signals, death of an owner |
| critical sections (`semaphor.c`, `downup.c`) | semaphore, lock count, inherited priority | enter, try, leave | the owner's priority | priority inheritance with several sections |
| timers and the clock (`sche.c`, `tick.c`, `itimer.c`) | ring of timers sorted by `dwExpires`, `dwJiffies` | add, delete, run | a service routine calls the timers with interrupts on | callbacks change the list; the clock wraps |
| interrupt routines (`isr.c`, `intrapi.c`, `sysintr.c`) | active and masked flags, count, nesting | activate, handle, register, unregister | the board's mask; events of drivers | nested interrupts |
| alarm (`alarmmgr.c`) | alarm time and event | set, ring | an interrupt and its thread | writes the interrupt mask from a thread |
| handles (`hmgr.c`) | table, reference counts | create, look up, close | all objects | a pointer outlives its handle |
| processes, programs (`process.c`, `program.c`) | address spaces, main thread, modules | create, exit | threads, handles, loaders | exit while others use it |
| API servers (`apisrv.c`, `coresrv.c`) | call stack per thread | enter, leave | every system call | process switch on the way |
| heaps (`klheap.c`, `blkheap.c`, `kalloc.c`), paging (`pagemgr.c`, `virtual.c`), loaders (`dlmain.c`, `elfmodule.c`, `execelf.c`, `dlrtld.c`) | free lists, page tables, images | allocate, map, load | everything above | data structures rather than protocols |
| device manager, file systems, drivers | tables under critical sections | register, open, read, write | system calls, service routines | device timing |
| windows and messages (`gwme_drv/gwme/`) | message queues, windows, timers, regions | post, send, reply, paint | threads and events | a sent message whose receiver dies |

What makes each part correct is stated next to its definitions, and
`PROJECT.json` lists the hazards at the lines where they bite.

### What is not modelled

The parts without a module, with the reason, are in `PROJECT.json`
("components"): pure data structures (heaps, page tables, loaders, regions and
drawing, which are most of the repository's lines), pure I/O (drivers, file
systems), the emulator port and the device manager. Of the parts that are
modelled in part:

- timers: the ring of the timer list, sorted by `dwExpires`, and the wrap of
  `dwJiffies`; `Scheduler` lets any due timer go off first;
- handles of threads, processes and files, and processes of several threads
  (`KL_OpenProcess` and `Process_Close` are the only code that counts handles);
- the system's input queue, window timers, broadcasts and `PM_NOREMOVE` of sent
  messages; the exit of the owner of a queue;
- terminations inside critical sections other than `csSemList`, and
  `KL_SetThreadPriority` of a thread with an inherited priority.

`kernel/pri.c` is not compiled.

## 2. Plan

Done, in this order: run queue, scheduler, wait objects, interrupts, critical
sections (against `Lock`), handles, message queues (against `MsgFifo`), sent
messages. A module either keeps the pieces of state that some property relates, or
relies on what another module shows of them: `Handles` and `MessageQueue` use
critical sections as the locks that `CriticalSection` shows them to be,
`SendMessage` uses queues as the sequences that `MessageQueue` shows them to
be, `CriticalSection` lets the scheduler be late in the way `Scheduler` allows,
and `Semaphore`, `Handles` and the message modules rely on its fairness.

What would come next: the timer list with the wrap of the clock, the creation and
exit of processes, and the broadcasts and the input queue of the windowing system.

## 3. The models

### RunQueue and Scheduler

`RunQueue` keeps the kernel's scheduling data in one record `k` with one field
per field of `THREAD` or global of `sche.c`, under the source's names. Each
operation of `sche.c` is an operator from `k` to the next `k`, because it runs
with interrupts off. Links are pointers: a thread or `NULL`. `k.fault` records
that `RemoveFromRunQueue` was asked to take off a thread that is on no ring.

`Scheduler` adds the CPU. `cur` is the current thread, `ctx` says whether the
CPU runs a thread, an interrupt, the timer routine or `GetNextRun`, and `pc`
says where each thread is in the kernel. `Schedule` goes up to the loop of
`GetNextRun`; `ScanStep` is one turn of that loop; `SwitchTo` is the switch.
Tick, timer routine, device interrupt and interrupt exit are actions of their
own. Blocking calls are split where the code turns interrupts on, so a wake-up
may come between "state set" and "off the run queue". Time is the number of
jiffies left of each timer, so the clock needs no bound.

### Semaphore

`sem` holds the `SEMAPHORE` structures, `thr` the fields of `THREAD` that
waiting uses, `call` the arguments and locals of the call a thread is in, `pc`
its place. A wait is `check` (`DownSemphores` decides), `down` (elements
queued, `nWaiting` counted), `sleep`, `leave` and again `check`. A signal is
`up` (`UpSemaphore` with interrupts off) and the wake-up of all waiters
afterwards. Exit and termination go through the sweep
(`_Semaphore_HandleThreadExit`), which itself enters `csSemList` and can be
terminated there. The scheduler is abstracted to "any ready thread may take its
next step"; a wait queue is a set, since every use of it goes through all of it;
a timeout may go off whenever the timer is armed.

### IsrManager

`stack` holds the interrupts that have not returned. A frame is about to call a
routine (`serve`), has called it (`served`) or is about to run `DefaultHandler`.
The top frame runs; when the stack is empty threads run, in any order. A device
may interrupt whenever its line is not masked; its interrupt masks the line
(`OEM_InterruptHandler`), activates the routine (`ISR_Active`) and calls
`ISR_Handler`, whose second entry returns at once. `Handle` is the handler up to
its next call of a routine. Drivers register (`ISR_RegisterServer`, then
`OEM_InterruptEnable`, or `ISR_Unregister` when it fails), wait, finish
(`KL_IntrDone`), disable and enable. `OEM_SetAlarmTime` is a read and a write of
the mask, because it is the one writer that leaves interrupts on.

`nISRHandlerCount` is only told zero from not zero, which is all the code asks.
The sub-lines of EINT8_23 and the two sources of the touch panel are left out:
one device, one line.

### CriticalSection

One field per field of `SEMAPHORE`, `CRITICAL_SECTION` and `THREAD` that the code
uses. `Take`, `RaiseOwner` and `TryFails` are the three ways out of the check in
`DownCrit`; `Down` is `__DownSemphores` up to its next sleep; `UpCrit` and `Up` are
the two stretches of a leave. Only the current thread takes steps, and `Schedule`
may give the processor to a best ready thread between any two of them, or late, as
`AddToRunQueue` only asks for a reschedule. `Block` and `Unblock` stand for
everything else a thread waits for while it is inside.

`Lock` says what callers rely on: one holder, who enters and leaves any number of
times. The refinement maps its holder to `lpOwner` and its depth to `iLockCount`.

### Handles

`lpvObjData` and `ulOwner` are the handles, `listed`, `lpszName` and `nRefCount` the
objects, `csSemList` and `csHandleObjList` who is inside. A creation goes through
the search for its name, the new object or the count of the one found, and
the allocation of the handle; a close through `csHandleObjList`, `csSemList`, the
read and the write of the count, and the deletion. A wait counts a reference
with interrupts off and may fall between the other two. Handles and objects are
reused after they are freed, so a handle of a freed object shows as a wrong count.

### MsgFifo, MessageQueue and SendMessage

`MessageQueue` has the ring as it is: array, size, count, head and tail.
`_InsertQueue` grows it, `_CheckThreadQueue` drops what it passes when nothing is
asked for in particular, and otherwise marks and compacts, `ClearThreadQueue`
marks. Posting is a step that inserts and a step that sets the event, as in
`_InsertThreadQueue`; `WinMsg_Get` alternates between looking and waiting. Windows
come and go, and their messages with them, which the ring learns only from
the next search. `MsgFifo` is the same queue as a sequence of the messages that
still matter; the refinement maps the ring to its live messages from the head on.
Both take parts of a sequence with `Subsequence`, a function of the set of indices,
where `SelectSeq` would be a recursion; `MCMessageQueue` has TLC compare the two.
`StaleHandles` says whether a new window may have an HWND that messages in the queue
carry.

`SendMessage` takes queues as sequences and adds the stack of each thread:
a window procedure sends, the wait for the answer (`_CallThreadWindowProc`) handles
what is sent meanwhile, and so on. A frame of the stack is one such call. A
`THREADMSG` is a block of a heap, freed by the sender and still named by the
receiver.

## 4. The runs

Every cfg gives values to CONSTANTs only. Objects and threads are model values
or strings; the sets are the smallest in which the case that matters happens.

| run | instance | shows |
| --- | --- | --- |
| `scheduler` | two threads and the idle thread, priorities 0 and 1 above the idle 2, two bitmap words, all calls, two suspensions, one tick during a routine | no ready thread is lost, no waiting or suspended one is queued, no reschedule is missed, every switch is to the highest ready priority, the count is right |
| `scheduler_live` | three threads on one ring that sleep, slices of two ticks | rings, heads and bitmaps are well formed; every timed sleep ends; equal priorities do not starve each other |
| `semaphore` | two threads, an auto-reset event, a mutex and `csSemList`; waits for any and for all, timeouts, set, reset and release, an interrupt; fairness | no lost signal, no waiter on a signalled object, `lpRouser` and the queues are right, taken means owned, a signalled object is taken when a thread waits for it alone |
| `semaphore_pulse` | three threads, a manual-reset and an auto-reset event, set, pulse, exit | a pulse releases every thread it finds waiting |
| `semaphore_kill` | two threads that may be terminated anywhere, a mutex and a counting semaphore of 2, allocation may fail | what a thread owned is released when it is gone |
| `interrupts` | two devices, the alarm and the timer, three nested interrupts, two registrations | no line in use goes dead, the count covers the active routines, one handler at a time, lines come back |
| `critsec` | three threads of three priorities, two sections, two levels of recursion | each section is a lock, its fields agree, no waiter is forgotten, no lent priority is kept |
| `handles` | three processes, three handles, three objects, one name | an object lives as long as something refers to it, a name is one object, exit leaves no handle |
| `msgqueue` | the owner and another thread, a window and its child, two kinds of messages one of which is WM_PAINT, a ring of 3 that grows by 1 to 4 | the ring is a queue, and the owner does not sleep over a message |
| `sendmessage` | two threads, three sends or posts, three blocks, with and without time-outs, SMTO_NORMAL and SMTO_BLOCK; fairness | a send gets its own answer, nobody sleeps over an answer or a message, mutual sends return |
| `inversion` (violation) | two threads, one section | a waiter's priority is not passed to an owner that enters between the check and the sleep (`downup.c:194`) |
| `stale_reply` (violation) | as `sendmessage`, blocks reused | a late answer to a send that timed out is taken for the answer to the next one (`message.c:466`) |

The bounds. `MaxNested` limits the interrupts inside interrupts: three are a
device that interrupts the service of another one that interrupted a third.
`MaxSuspend` and `MaxLock` limit counters that the code limits itself or that
only count up and down. `MaxInits` limits the registrations of drivers to one
for each device, or a second one of the same device. In the passing runs
`nWaiting` stays at its largest value instead of wrapping, which stands for
fewer than 65536 timeouts; the table of hypotheses says what happens after more.

The ring of `msgqueue` grows once and its head may be anywhere by then; with
8 slots and steps of 8 the same cases come later. Three sends are one that is
answered while its sender handles another, whose procedure sends a third.
Three processes are a creator, an opener and one that closes.

`semaphore_pulse`, `semaphore_kill` and the runs of `SendMessage` do not check for
deadlock: when every thread waits, or has exited, nobody is left to signal, and
the program really stops. Neither does `handles`: creation enters `csSemList` and
then `csHandleObjList`, a close enters them the other way round, and the two
really can wait for each other (`semaphor.c:418`, `hmgr.c:419`).

Some hypotheses are constants because the code does not establish them. Each can
be dropped in a cfg, and TLC then finds the fault:

| hypothesis in the passing runs | without it |
| --- | --- |
| one thread at a time controls the others (`Controllers = {a}`) | with `{a, b}`, `NoFault`: a thread is taken off a ring it is not on (`thread.c:1048`) |
| no policy ROTATION (`Policies`) | `QueueOK`: `MoveToEndOfRunQueue` breaks the ring (`sche.c:520`) |
| fewer timeouts than `nWaiting` counts (`CountWraps = FALSE`) | with `TRUE` and `MaxWaiting = 3`, `NoLostSignal` (`sche.c:971`) |
| no exit where `OwnedWhenTaken` is checked (`Calls`) | the next owner of a mutex is erased (`semaphor.c:331`) |
| no termination in the middle of a pulse, no wait for several objects (`Calls`), no wrap of `nWaiting` | `PulsedIsReleased` (`semaphor.c:758`) |
| nothing else changes the mask while the alarm does (`AlarmAlone = TRUE`) | `NoDeadLine` (`oemtime.c:263`) |
| no wait between the read and the write of a count, memory for every handle (`Faults = {}`) | `ReferencesCounted` (`semaphor.c:104`, `:427`) |
| a new window's HWND is in no old message (`StaleHandles = FALSE`) | `ImplementsFifo`: a window gets the messages of another (`win.c:1252`) |
| a block is not reused while a message names it (`ReuseBlocks = FALSE`) | the run `stale_reply` |

`SendMessage` also has one window per thread, and sends with SMTO_BLOCK only with a
time-out: two threads that block on each other without one wait for ever, as the
flag says.

### Fairness

`Scheduler`: the kernel's own steps go on (weak fairness) and ticks keep
arriving; the tick is strongly fair because the interrupt controller holds one
that arrives with interrupts off. What threads call is not fair. `Semaphore`: a
thread in the kernel goes on, which `NoStarvation` of the scheduler gives for threads
of one priority, and an armed timer goes off; callers of signals are not fair.
`IsrManager`: interrupts at every depth return (a line stays masked while it is served
and the timer is restarted by its own interrupt), the timer ticks, and the
interrupt threads and the alarm thread run. `SendMessage`: every thread runs, and
its window procedures return; a time-out comes when nothing else does. The other
modules state safety only.

## 5. The proofs

The theorems hold for every set of threads, every number of priorities and
devices, and every value of the other constants that satisfies the assumptions
stated in the modules (`RunQueueAssumption`, `SchedulerAssumption`,
`SemaphoreAssumption`, `SendMessageAssumption` and so on). Where a theorem needs more, its
ASSUME says so, and the table of hypotheses above what goes wrong otherwise.

`SchedulerProofs` assumes `SingleController` and `NoRotation`; without either TLC
refutes the theorems, as the table of hypotheses says. Well-formedness of the rings is not
inductive alone: removing a thread needs to know that it is on a ring, which
depends on its state, on where it is in the kernel and on whether `GetNextRun` is
under way. `IInv` therefore joins `WellFormed(k)` (links inverse to each other,
one head per priority, bitmaps in step) with `QueuedOK` (on a ring exactly when
ready), what holds of suspended and of resumed threads, of the current thread and
of the scan, and `ReschedOK` (a higher ready priority means a pending reschedule).
`RunQueueProofs` shows what each operation on the rings keeps; `SchedulerProofs`
has one lemma per action. The theorems follow: `TypeCorrect`, `QueueCorrect`,
`NeverFaults`, `NoLostThread`, `SuspensionHolds`, `ReschedulesAreRequested`,
`CountIsRight` and the action property `HighestPriorityRuns`. That a priority has one ring is said of
sets of threads closed under the forward link (`OneRing`), so no proof goes by
induction over the length of a ring. `CountIsRight` also assumes that there are finitely
many threads: with `IInv` at hand, `nCountRunning` is the cardinality of the linked threads
after every `AddToRunQueue` and `RemoveFromRunQueue` because each changes the two together.

`IsrManagerProofs` needs that the frames, the flags, the count and the entry count
agree (`StateOK`), that a device in use is registered (`Registered`), and that the
mask `OEM_SetAlarmTime` read is still current (`ReadIsCurrent`, under `AlarmAlone`).
`ISR_HandlerKeeps` says that a call of `ISR_Handler` keeps `StateOK` and loses no
device on its way to its event; every interrupt step rests on it. The theorems:
`TypeCorrect` (with `iISRActiveCount >= 0`), `CountIsEnough`, `HandlerNotReentered`,
and, assuming `AlarmAlone`, `LinesComeBack`.

`CriticalSectionProofs` needs that a taken section has one owner in all three
fields, that whoever is past the check has a reason to sleep or to look again,
and that a thread that owns nothing has its own priority; `IInv` is the
conjunction of the checked invariants with where each thread may be. The
refinement (`SectionIsALock`) maps `EnterAgain` and `Take` to `Enter`, `LeaveOnce` and
`UpCrit` to `Leave` and everything else to a stutter.

`HandlesProofs` assumes `NoFaults`. `ReferencesCounted` is a cardinality, so the proof
follows the set of referents of each object: every action adds one, removes one or
leaves the set alone, and `IInv` adds who is inside which section, what a thread
has read, and that a thread on its way to a handle has counted it.

The first three theorems of `SemaphoreProofs` have no hypotheses. `Base` joins `TypeOK` and `NoWaiterWhenSignalled` with what a
thread at each place of a call has asked for and holds (`CallsAsk`, `CallsSignal`), who
is inside `csSemList` (`Locked`), and how far the sweep of an exit has come (`Swept`: past it,
the thread owns nothing). `DeadOwnNothing` needs the last two together, since a thread may be
terminated inside the very section that its sweep enters.

The others assume `NoTermination` and, those about waits, `CountWraps = FALSE`. A lost
signal is a thread asleep on an object whose count is above 0, so the invariant
`Waiters` says what a sleeper can rely on: its elements are on the queues of the objects
it asked for and nobody else's are (`QueuesRight`, `SleepersQueued`), `lpRouser` is one of
them, and each of its objects has a wake-up on the way or is not signalled and counts a
waiter (`BlockedCounted`), which is why the code may skip the wake-up when `nWaiting` is 0.
`OwnedWhenTaken` is inductive together with `Alive` when no thread exits:
`_Semaphore_HandleThreadExit` signals a mutex before it clears `lpOwner`, and the theorem
is false without that hypothesis.

`PulsedAreReleased` also assumes `OneObject`, since the mark of a pulse is the thread's and
not the event's. Its invariant `Marks` follows the mark through a wait: whoever waits for a
manual-reset event waits for nothing else (`AsksForOne`), so the check after the wake-up
spends the mark and the next sleep starts without one; a thread that is awake inside a
wait was woken by one of its own elements or its time is up, and returns in both cases; and
while a thread sleeps with the mark, PulseEvent is between the mark and the wake-up
(`Coming`). That the wake-up is not skipped when the event is set is `BlockedCounted` again.

`MessageQueueProofs` proves the two invariants for every value of the constants and the
refinement (`RingIsAQueue`) under `~StaleHandles`. Only one function lists a set of
integers in their order (`OneEnumeration`), so parts of parts, the removal of one element
and the appending of another are equations about sets of indices
(`SelectFromSubsequence`, `RemoveIsSubsequence`, `DropFromSubsequence`). With them each
operation of the ring becomes an equation about `Contents`: `_InsertQueue` appends
although it may copy the array, `_CheckThreadQueue` keeps the live messages it does not
take, in their order, and `ClearThreadQueue` only changes which are live. `IInv` joins
`WellFormed` (the tail is `count` slots after the head) with what each call has in hand
(`ArgsFit`) and `NoSleepWithMessage`; every step then maps to a step of `MsgFifo` or a
stutter. The hypothesis is needed only where a window is created: the step at which a
message of a window that is gone could come back to life.

`SendMessageProofs` proves the type invariant, which says whom each block belongs to,
without hypotheses, and the other two under `ReuseBlocks = FALSE`. `Base` says what a stack
may look like (`StackOK`: the loop at the bottom, calls that wait for another one below it,
a block of its own for each call that sends). `Answers` says that a call that
sends and its block have the same message, that a block whose flag is 2 has the result of
that message, and that a receiver at work on a block still in use works on the
block's message. `NoSleepWithWork` is inductive with `Base` alone; `SleepersKept` lists what
a step must not do to somebody else's sleep, and every action is checked against it.

Only model-checked: the liveness properties (`SleepEnds`, `NoStarvation`,
`SignalIsTaken`, `LineComesBack`, `SendsReturn`), which are beyond the prover, and that
`Subsequence` is `SelectSeq`, which is recursive.

## 6. What the models found

The two violation runs show faults of the code (see "findings" in
`PROJECT.json`), and the table of hypotheses lists those that a changed constant
shows. Met while modelling and listed as hazards with a note:

- `_CreateHandleObj` and `KL_CloseHandle` enter the same two critical sections in
  opposite orders (`semaphor.c:418`, `hmgr.c:419`);
- `HandleToPtr` assigns where it means to compare, so that no handle's type is
  checked (`hmgr.c:210`);
- a sent message found with `PM_NOREMOVE` may be handled twice and another lost
  (`message.c:264`);
- a sender without a time-out is not woken when its receiver's window goes
  (`message.c:393`);
- a wait for all of several objects, some of them signalled, spins and never
  times out (`downup.c:413`);
- the pulse of an event is a flag of the thread, so a thread that waits for several
  objects may miss it (`semaphor.c:758`);
- a terminated waiter leaves `lpRouser` behind and the next wait fails its ASSERT
  (`sche.c:987`);
- on the s3c2410 the alarm's interrupt is registered, refused by
  `OEM_InterruptEnable` and unregistered again, and the answer is ignored: the alarm
  never rings, and `iISRActiveCount` stays above zero from its first interrupt on
  (`alarmmgr.c:132`); the run `interrupts` has a device like it;
- registering a routine that is active leaves the count too high (`isr.c:219`), which
  costs scans but hides nothing: `CountCovers`;
- `KL_CreateMutex` passes the opposite of what `_SemaphoreCreate` expects for an
  initial owner (`semaphor.c:595`, `:148`).
