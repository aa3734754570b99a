SPECIFICATION Spec
CONSTANTS
  Pid = {p1, p2, p3}
  max_workers = 1
  Prefork = 2
  MaxReadyFails = 1
  Inet = TRUE
  ForkFails = TRUE
  MaxConn = 2
  MaxCrash = 1
  MaxIdle = 0
  MaxHup = 2
  MaxEvent = 0
  Quit = FALSE
SYMMETRY Symmetry
INVARIANTS ActiveCount ReadyCount TrueView SlotFree WorkersBounded
