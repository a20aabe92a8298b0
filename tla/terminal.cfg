SPECIFICATION FairSpec
CONSTANTS
  Proc = {p1, p2}
  NULL = NULL
  Unit = {0}
  Call <- SomeCalls
  MaxLine = 2
  Lines = 1
  MaxInput = 3
INVARIANTS TypeOK LinesWhole ReadOnce WriteExclusion ReadyIsFresh
PROPERTIES WritesWhole AsTeletype WriteReturns ErrorHalts
CHECK_DEADLOCK FALSE
