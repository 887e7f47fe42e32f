SPECIFICATION SearchSpec
CONSTANTS
  SearchTimes <- MCSearchTimes
  StoredTimes <- MCStoredTimes
  FastSearchWidth = 3
INVARIANTS SearchTypeOK SearchIsExact UpdateIsLatest
