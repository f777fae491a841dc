SPECIFICATION Spec
CONSTANTS
  Threads = {a, b, c}
  Handles = {h1, h2, h3}
  Sems = {s1, s2, s3}
  Names = {n}
  NULL = NULL
  Faults = {}
SYMMETRY Symmetry
INVARIANTS TypeOK  NamesAreUnique DeadHaveNoHandles
CHECK_DEADLOCK FALSE
