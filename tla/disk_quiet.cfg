SPECIFICATION FairSpec
CONSTANTS
  NULL = NULL
  p1 = p1
  p2 = p2
  p3 = p3
  p4 = p4
  Proc <- Three
  Unit = {0}
  Request <- Short
  NumTracks <- SmallTracks
  CodedTracks <- SmallTracks
  TrackSize = 2
PROPERTY ServedWhenQuiet
