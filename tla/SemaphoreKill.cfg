SPECIFICATION Spec
CONSTANTS
  Threads = {a, b}
  Sems = {"list", "pool", "mutex"}
  NULL = NULL
  csSemList = "list"
  Kind <- KindOf
  InitCount <- InitOf
  nMaxCount <- MaxOf
  Calls = {"single", "timed", "release", "set", "crit", "exit", "kill", "nomem"}
  MaxWaiting = 1
  CountWraps = FALSE
  MaxLock = 2
SYMMETRY Symmetry
INVARIANT DeadOwnsNothing
CHECK_DEADLOCK FALSE
