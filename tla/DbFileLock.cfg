SPECIFICATION Spec
CONSTANTS
  Proc = {p, q, r}
  MaxInode = 3
  MaxCommit = 3
SYMMETRY Symmetry
INVARIANTS HolderHasDatabase OneWriter NoCommitLost
PROPERTIES CreatedOnce
