SPECIFICATION Spec
CONSTANTS
  Threads = {a, b}
  Blocks = {1, 2, 3}
  NULL = NULL
  Flags = {"NORMAL", "BLOCK"}
  MaxSends = 3
  ReuseBlocks = TRUE
INVARIANT ResultIsOwn
CHECK_DEADLOCK FALSE
