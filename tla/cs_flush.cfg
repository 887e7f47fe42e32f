SPECIFICATION Spec
CONSTANTS
  Times <- MCTimes
  CommandTimes <- MCCommandTimes
  MaxDouble = 9
  FieldSpace <- MCRepeated
  ClearSpace <- MCClear
  MaxCommands = 3
  LimitPoints = 2
  LimitTime = 2
  MayHappen = {"flush", "modify", "user"}
INVARIANTS RangeHidesNothing NothingAccumulates
