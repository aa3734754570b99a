SPECIFICATION Spec
CONSTANTS
  s1 = s1
  Session <- MCSession
  Modes <- MCModes
  Flags <- MCFlags
  Start = 2
  MaxUid = 4
  MaxOps = 3
INVARIANTS RecordThere
CHECK_DEADLOCK FALSE
