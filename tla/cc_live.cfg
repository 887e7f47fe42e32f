SPECIFICATION Spec
CONSTANTS
  Entities = {"p", "b"}
  TypeOf <- MCTypeOf
  Names = {"side", "kind"}
  Values = {"red"}
  Filters <- MCFilters
  Null = Null
  MaxEdits = 5
INVARIANTS WellFormed IdleIsCurrent
PROPERTY EventuallyCounted
CHECK_DEADLOCK FALSE
