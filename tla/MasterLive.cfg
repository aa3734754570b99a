SPECIFICATION FairSpec
CONSTANTS
  Pid = {p1, p2}
  max_workers = 1
  Prefork = 0
  MaxReadyFails = 5
  Inet = FALSE
  ForkFails = FALSE
  MaxConn = 2
  MaxCrash = 1
  MaxIdle = 1
  MaxHup = 0
  MaxEvent = 1
  Quit = TRUE
INVARIANTS NoWorkerLeft
PROPERTIES Served ShutdownEnds
CHECK_DEADLOCK FALSE
