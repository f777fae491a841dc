SPECIFICATION Spec
CONSTANTS
  Threads = {o, t}
  Owner = o
  Windows = {"top", "child"}
  Codes <- CodesOf
  WM_PAINT = 2
  ChildOf <- Child
  Posted <- PostedOf
  Filters <- FiltersOf
  NULL = NULL
  INVALID_HANDLE_VALUE = INVALID
  InitSize = 3
  Grow = 1
  MaxSize = 4
  StaleHandles = FALSE
INVARIANTS TypeOK NoSleepWithMessage
PROPERTY ImplementsFifo
