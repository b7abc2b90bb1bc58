SPECIFICATION Spec
CONSTANTS
  Clients = {c1}
  Tasks = {t1}
  MaxFd = 3
  MaxOpen = 1
  Stdin = Stdin
  Listener = Listener
  Nobody = Nobody
  Console = TRUE
  CloseSock = TRUE
  SpawnAfterClose = TRUE
  Shared = TRUE
  HandlersRaise = TRUE
CHECK_DEADLOCK FALSE
INVARIANTS
  TypeOK
  CallbackCanRun
  DeferredExactlyOnce
