SPECIFICATION Spec
CONSTANTS
  s1 = s1
  Session <- MCSession
  Modes <- MCModes
  Flags <- MCFlags
  Start = 1
  MaxUid = 4
  MaxOps = 3
INVARIANTS InStep MapComplete NobodyRewrites Told Resumed
CHECK_DEADLOCK FALSE
