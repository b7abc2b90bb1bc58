SPECIFICATION FairSpec
CONSTANTS
  Procs = {p1, p2}
  p1 = p1
  p2 = p2
  Jobs = {j1, j2}
  Main = {j1}
  Nobody = Nobody
  Pids = {1, 2}
  Room = 2
  Input = 3
  Tasks <- SmallTasks
CHECK_DEADLOCK FALSE
INVARIANTS
  TypeOK
  ReadOnce
  RunRight
  InputWhole
PROPERTY
  CallsReturn
