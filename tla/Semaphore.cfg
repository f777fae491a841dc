SPECIFICATION FairSpec
CONSTANTS
  Threads = {a, b}
  Sems = {"list", "auto", "mutex"}
  NULL = NULL
  csSemList = "list"
  Kind <- KindOf
  InitCount <- InitOf
  nMaxCount <- MaxOf
  Calls = {"single", "any", "all", "timed", "release", "set", "reset", "isr"}
  MaxWaiting = 1
  CountWraps = FALSE
  MaxLock = 1
INVARIANTS TypeOK NoLostSignal NoWaiterWhenSignalled RouserIsOwn OwnedWhenTaken QueuedAreWaiting
PROPERTY SignalIsTaken
