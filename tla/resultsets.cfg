SPECIFICATION Spec
CONSTANTS
  Mains = {1, 2, 3}
  Others = {11, 12, 13}
  Prefetches <- Lists
  Counts = {1, 2, 4}
  Faults = 1
CHECK_DEADLOCK FALSE
INVARIANTS
  TypeOK
  OwnParts
  EachWholeOnce
