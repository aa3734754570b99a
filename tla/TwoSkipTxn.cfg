SPECIFICATION FairSpec
CONSTANTS
  Key = {1, 2}
  Val = {a, b}
  NoVal = NoVal
  MaxLevel = 2
  MaxOffset = 5
  Proc = {p}
  NoProc = NoProc
  NoTxn = NoTxn
  Start = {1}
  MinRewrite = 5
  MaxGen = 2
  CompactEmpty = FALSE
  Reads = {}
  Faults = {"power", "kill", "io"}
PROPERTIES StoreSpec OperationsReturn
