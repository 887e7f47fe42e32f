SPECIFICATION Spec
CONSTANTS
  Times <- MCTimes
  CommandTimes <- MCCommandTimes
  MaxDouble = 9
  FieldSpace <- MCFields
  ClearSpace <- MCClear
  MaxCommands = 3
  LimitPoints = 0
  LimitTime <- MCNoTimeLimit
  MayHappen = {"modify", "user"}
INVARIANTS WellFormed CacheIsReplay PrefsFollow
