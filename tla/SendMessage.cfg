SPECIFICATION FairSpec
CONSTANTS
  Threads = {a, b}
  Blocks = {1, 2, 3}
  NULL = NULL
  Flags = {"NORMAL", "BLOCK"}
  MaxSends = 3
  ReuseBlocks = FALSE
INVARIANTS TypeOK ResultIsOwn NoSleepWithWork
PROPERTY SendsReturn
CHECK_DEADLOCK FALSE
