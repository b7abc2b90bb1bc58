SPECIFICATION Spec
CONSTANTS
  Records = {r1, r2}
  Columns = {a, b}
  a = a
  b = b
  Rows = 2
  None = None
  Assignable <- TextAndFlag
  Rekeys = TRUE
  Reports = {TRUE, FALSE}
CHECK_DEADLOCK FALSE
SYMMETRY Symmetry
INVARIANTS
  TypeOK
  Saved
  NothingForgotten
