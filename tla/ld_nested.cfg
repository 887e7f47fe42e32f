SPECIFICATION Spec
CONSTANTS
  Listeners <- MCListeners
  Weight <- MCWeight
  Null = Null
  Rounds <- MCAllRounds
  MaxDepth = 2
INVARIANTS WellFormed EveryoneCalled
PROPERTY RemovedAreSkipped
