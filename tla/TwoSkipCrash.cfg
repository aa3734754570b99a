SPECIFICATION Spec
CONSTANTS
  Key = {1, 2, 3}
  Val = {a}
  NoVal = NoVal
  MaxLevel = 2
  MaxOffset = 7
  Proc = {p}
  NoProc = NoProc
  NoTxn = NoTxn
  Start = {1, 3}
  MinRewrite = 6
  MaxGen = 1
  CompactEmpty = TRUE
  Reads = {}
  Faults = {"power", "kill", "io"}
INVARIANTS CrashSafe CleanSound Consistent ReadsOwnWrites Durable RecoverySucceeds
PROPERTIES FileSpec
