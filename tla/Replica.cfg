SPECIFICATION FairSpec
CONSTANTS
  Guid <- MCGuid
  Flags <- MCFlags
  Clock <- MCClock
  Cached = TRUE
  Owned = TRUE
  MaxOps = 4
  MaxFault = 1
INVARIANTS TypeOK NoMessageLost FilesSent NoDuplicate
PROPERTIES UidStable Converges
CHECK_DEADLOCK FALSE
