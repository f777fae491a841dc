SPECIFICATION Spec
CONSTANTS
  Threads = {a, b, c}
  Sems = {"list", "manual", "auto"}
  NULL = NULL
  csSemList = "list"
  Kind <- KindOf
  InitCount <- InitOf
  nMaxCount <- MaxOf
  Calls = {"single", "timed", "pulse", "set", "exit"}
  MaxWaiting = 1
  CountWraps = FALSE
  MaxLock = 1
SYMMETRY Symmetry
INVARIANT PulsedIsReleased
CHECK_DEADLOCK FALSE
