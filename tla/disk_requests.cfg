SPECIFICATION Spec
CONSTANTS
  NULL = NULL
  p1 = p1
  p2 = p2
  p3 = p3
  p4 = p4
  Proc <- Four
  Unit = {0}
  Request <- Tracks
  NumTracks <- SmallTracks
  CodedTracks <- SmallTracks
  TrackSize = 2
SYMMETRY Symmetry4
INVARIANTS TypeOK LockExclusion QueueExact NoLostWakeup RowFree NobodyStuck
PROPERTY ElevatorOrder
