SPECIFICATION Spec
CONSTANTS
  MinTime = 0
  Infinite = 9
  ThisYear = 8
  Threshold = 2
  NoBound <- MCNoBound
  Times = {1, 3}
  Scales = {0, 2}
  Units = {1, 2}
  LastTime = 5
  MaxCalls = 4
  MayHappen = {}
INVARIANTS WellFormed InBounds ObserversCurrent RealTimeFollows
PROPERTIES FramesAdvance PlaybackReturns
CHECK_DEADLOCK FALSE
