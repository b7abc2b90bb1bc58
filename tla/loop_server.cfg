SPECIFICATION Spec
CONSTANTS
  Clients = {c1}
  Tasks = {t1}
  MaxFd = 4
  MaxOpen = 1
  Stdin = Stdin
  Listener = Listener
  Nobody = Nobody
  Console = FALSE
  CloseSock = TRUE
  SpawnAfterClose = FALSE
  Shared = FALSE
  HandlersRaise = TRUE
CHECK_DEADLOCK FALSE
INVARIANTS
  Registered
  NoStrayCallback
  AddNeverFails
PROPERTY
  ImplementsScheduler
