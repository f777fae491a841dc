SPECIFICATION FairSpec
CONSTANTS
  nDevices = 3
  Lines = {0, 1}
  Alarms = {2}
  AlarmAlone = TRUE
  MaxNested = 3
  MaxInits = 2
INVARIANTS TypeOK CountCovers OneHandler NoDeadLine
PROPERTIES LineComesBack
