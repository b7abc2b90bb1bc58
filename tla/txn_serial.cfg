SPECIFICATION Spec
CONSTANTS
  Jobs = {j1, j2}
  Drivers = {"sqlite3", "mysql"}
  Nonblocking = FALSE
  Faults = {"COMMIT", "ROLLBACK"}
  Depth = 1
  Writes = 4
  Shares = FALSE
CHECK_DEADLOCK FALSE
INVARIANT
  Atomic
