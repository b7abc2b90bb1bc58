SPECIFICATION FairSpec
CONSTANTS
  N = 3
  Width = 2
  Throws = {2}
  FailThrows = {3}
  Cyclic = TRUE
CHECK_DEADLOCK FALSE
INVARIANTS
  TypeOK
  OutcomeRight
  NeverForgotten
PROPERTY
  AwaitReturns
