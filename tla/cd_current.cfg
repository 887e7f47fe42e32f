SPECIFICATION Spec
CONSTANTS
  Category = {k1, k2}
  Value = {a, b}
  DataTimes <- MCDataTimes
  Now = {1, 3}
  MaxDouble = 9
  FastSearchWidth = 1
  FlushRanges <- MCFlushRanges
  LimitChoices <- MCLimits
  MaxEntries = 3
  MayHappen = {}
SYMMETRY MCSymmetry
INVARIANTS WellFormed LookupExact CacheSound ListenersCurrent
