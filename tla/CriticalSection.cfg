SPECIFICATION Spec
CONSTANTS
  Threads = {"hi", "mid", "lo"}
  Sections = {"a", "b"}
  NULL = NULL
  OriginPriority <- PriorityOf
  IDLE_PRIORITY = 4
  MaxLock = 2
INVARIANTS TypeOK  PriorityRestored NoLostWaiter
PROPERTIES ImplementsLock
