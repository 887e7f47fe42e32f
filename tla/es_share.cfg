SPECIFICATION Spec
CONSTANTS
  Types <- MCTwoTypes
  Names = {"a"}
  OriginalIds = {1, 2}
  MaxId = 2
  Tids = {"t1", "t2", "t3"}
  MayHappen = {"overlap", "share", "late child", "cancel", "orphan"}
INVARIANTS OriginalIdsMatch CachesMatchStore
