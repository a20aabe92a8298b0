SPECIFICATION TestSpec
CONSTANTS
  NULL = NULL
  Proc = {"start4", "k1", "k2", "k3", "k4", "k5", "k6", "k7", "k8"}
  Unit = {0, 1}
  Request = {}
  NumTracks <- RealTracks
  CodedTracks <- RealTracks
  TrackSize = 16
  Tests = {9, 10, 11, 12, 13, 14, 15, 16, 18, 23, 24}
  Slow = {9, 10, 11, 12, 13, 15, 18, 23, 24}
INVARIANTS ResultsAsTested DataInPlace ServiceOrder
PROPERTIES OwnUnit TestEnds
CHECK_DEADLOCK FALSE
