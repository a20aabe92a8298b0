SPECIFICATION FairSpec
CONSTANTS
  Proc = {p1, p2}
  NULL = NULL
  Rows = 3
  Seconds <- SomeSeconds
  Second = 2
  Period = 2
  IntSpan = 6
  MaxTime = 8
  MaxSleeps = 3
INVARIANTS TypeOK WakeExact SleeperListed
PROPERTY Wakes
CHECK_DEADLOCK FALSE
