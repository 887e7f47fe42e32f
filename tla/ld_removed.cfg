SPECIFICATION Spec
CONSTANTS
  Listeners <- MCListeners
  Weight <- MCWeight
  Null = Null
  Rounds <- MCOnce
  MaxDepth = 2
PROPERTY OnlyRegisteredCalled
