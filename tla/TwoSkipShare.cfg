SPECIFICATION Spec
CONSTANTS
  Key = {1, 2}
  Val = {a}
  NoVal = NoVal
  MaxLevel = 2
  MaxOffset = 6
  Proc = {p, q}
  NoProc = NoProc
  NoTxn = NoTxn
  Start = {2}
  MinRewrite = 4
  MaxGen = 2
  CompactEmpty = FALSE
  Reads = {q}
  Faults = {}
INVARIANTS LocationSound
PROPERTIES ForeachComplete
