SPECIFICATION FairSpec
CONSTANTS
  Block = 64
  MaxLevel = 31
  MaxTail = 1
  MaxEnd = 140
INVARIANTS HeadInOneBlock
PROPERTIES PaddingEnds
