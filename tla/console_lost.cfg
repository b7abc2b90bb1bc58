SPECIFICATION Spec
CONSTANTS
  Clients = {c1}
  Tasks = {t1}
  MaxFd = 4
  MaxOpen = 1
  Stdin = Stdin
  Listener = Listener
  Nobody = Nobody
  Console = TRUE
  CloseSock = TRUE
  SpawnAfterClose = FALSE
  Shared = FALSE
  HandlersRaise = FALSE
CHECK_DEADLOCK FALSE
INVARIANT
  ConsoleAttached
