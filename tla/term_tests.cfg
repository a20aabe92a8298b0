SPECIFICATION TestSpec
CONSTANTS
  Proc = {"start4", "k1", "k2", "k3", "k4"}
  NULL = NULL
  Unit = {0, 1, 2}
  Call = {}
  MaxLine = 4
  Lines = 10
  MaxInput = 7
  Tests = {3, 4, 5, 6, 7, 8, 19, 20, 21, 22, 23}
  Slow = {3, 4, 5, 6, 7, 8}
  Terms = 2
  Often = 2
  WriteLen = 2
  Input <- Typed3
INVARIANTS ResultsAsTested AllPrinted
PROPERTY TestEnds
CHECK_DEADLOCK FALSE
