SPECIFICATION Spec
CONSTANTS
  MaxGeneration = 6
  MaxDepth = 4
INVARIANTS
  TypeOK
  DepthMatchesState
PROPERTIES
  KeepsPromise
