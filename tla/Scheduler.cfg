SPECIFICATION Spec
CONSTANTS
  Threads = {idle, a, b}
  InitThread = idle
  BootThread = a
  Controllers = {a}
  NULL = NULL
  IDLE_PRIORITY = 2
  GroupSize = 2
  DEF_PRIORITY = 1
  DEF_ROTATE = 1
  Calls = {"suspend", "sleep", "wait", "exit"}
  Policies = {"OTHER", "FIFO"}
  UsedPriorities = {0, 1}
  Sleeps = {0, 1}
  MaxSuspend = 2
  MaxNested = 1
INVARIANTS TypeOK NoFault ReadyIffQueued SuspendedNotQueued NoMissedResched CountRunningOK
PROPERTY PicksHighest
