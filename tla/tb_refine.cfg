SPECIFICATION Spec
CONSTANTS
  MaxColumns = 2
  Time = {1, 2, 3}
  Value = {a, b}
  LimitChoices <- MCLimits
SYMMETRY MCSymmetry
INVARIANTS WellFormed WithinLimit ReadsInOrder
PROPERTIES ImplementsTimeTable
CHECK_DEADLOCK FALSE
