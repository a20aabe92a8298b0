SPECIFICATION TestSpec
CONSTANTS
  NULL = NULL
  Proc = {"start4", "testcase_timeout", "k0", "k1", "k2", "k3", "k4", "k5", "k6", "k7", "k8", "k9"}
  Rows = 50
  Seconds <- SomeSeconds
  Second = 2
  Period = 1
  IntSpan = 1024
  MaxTime = 200
  MaxSleeps = 13
  Tests = {"00", "01", "02", "23"}
  Slow = {"00", "23"}
  SlowKids = 2
  SlowTime = 14
INVARIANTS LastArgument LastWokenFirst
PROPERTIES SleptAsTested TestEnds
CHECK_DEADLOCK FALSE
