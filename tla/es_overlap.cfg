SPECIFICATION Spec
CONSTANTS
  Types <- MCTypes
  Names = {"a", "b"}
  OriginalIds = {1, 2}
  MaxId = 3
  Tids = {"t1", "t2"}
  MayHappen = {"overlap"}
INVARIANTS WellFormed NamesMatchStore ChildrenMatchHosts
