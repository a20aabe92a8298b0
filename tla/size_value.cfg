SPECIFICATION Spec
CONSTANTS
  NULL = NULL
  p1 = p1
  p2 = p2
  p3 = p3
  p4 = p4
  Proc <- Two
  Unit = {0, 1}
  Request <- Sizes
  NumTracks <- SmallTracks
  CodedTracks <- SmallTracks
  TrackSize = 2
INVARIANT SizeIsOwn
CHECK_DEADLOCK FALSE
