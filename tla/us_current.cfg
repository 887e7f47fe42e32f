SPECIFICATION Spec
CONSTANTS
  Times <- MCTimes
  PointTimes <- MCPoints
  MaxDouble = 9
  PrefSpace <- MCCurrentPrefs
  Interpolations = {"OFF", "INTERNAL", "EXTERNAL"}
  FileModes = {TRUE, FALSE}
  Limitings = {TRUE, FALSE}
  MayChange <- MCMayChange
INVARIANTS TypeOK BracketStored BracketKnown CurrentIsLatest RangeSound InterpolatedAtNow
PROPERTY ChangeReported
