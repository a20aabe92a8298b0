SPECIFICATION FairSpec
CONSTANTS
  Proc = {p1, p2}
  NULL = NULL
  Rows = 2
  Seconds <- SomeSeconds
  Second = 2
  Period = 2
  IntSpan = 64
  MaxTime = 6
  MaxSleeps = 4
PROPERTY Wakes
CHECK_DEADLOCK FALSE
