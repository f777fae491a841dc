SPECIFICATION FairSpec
CONSTANTS
  Threads = {idle, a, b, c}
  InitThread = idle
  BootThread = a
  Controllers = {a}
  NULL = NULL
  IDLE_PRIORITY = 2
  GroupSize = 2
  DEF_PRIORITY = 1
  DEF_ROTATE = 2
  Calls = {"sleep"}
  Policies = {}
  UsedPriorities = {}
  Sleeps = {1}
  MaxSuspend = 1
  MaxNested = 0
INVARIANT QueueOK
PROPERTIES SleepEnds NoStarvation
