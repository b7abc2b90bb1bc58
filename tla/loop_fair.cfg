SPECIFICATION FairSpec
CONSTANTS
  Clients = {c1}
  Tasks = {t1}
  MaxFd = 4
  MaxOpen = 0
  Stdin = Stdin
  Listener = Listener
  Nobody = Nobody
  Console = FALSE
  CloseSock = TRUE
  SpawnAfterClose = FALSE
  Shared = FALSE
  HandlersRaise = FALSE
CHECK_DEADLOCK FALSE
PROPERTY
  ImplementsFairScheduler
