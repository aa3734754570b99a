SPECIFICATION FairSpec
CONSTANTS
  Pid = {p1, p2}
  max_workers = 2
  Prefork = 0
  MaxReadyFails = 5
  Inet = FALSE
  ForkFails = FALSE
  MaxConn = 2
  MaxCrash = 0
  MaxIdle = 0
  MaxHup = 0
  MaxEvent = 0
  Quit = TRUE
PROPERTIES ShutdownEnds
CHECK_DEADLOCK FALSE
