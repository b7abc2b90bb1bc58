SPECIFICATION Spec
CONSTANTS
  Jobs = {j1, j2}
  Drivers = {"sqlite3", "mysql", "postgres"}
  Nonblocking = TRUE
  Faults = {"BEGIN", "COMMIT", "ROLLBACK"}
  Depth = 2
  Writes = 2
  Shares = TRUE
CHECK_DEADLOCK FALSE
INVARIANTS
  TypeOK
  LeavesNothingOpen
  NoErrorNoLoss
