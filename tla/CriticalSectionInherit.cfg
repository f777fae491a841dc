SPECIFICATION Spec
CONSTANTS
  Threads = {"hi", "lo"}
  Sections = {"a"}
  NULL = NULL
  OriginPriority <- PriorityOf
  IDLE_PRIORITY = 4
  MaxLock = 1
INVARIANT OwnerInherits
