SPECIFICATION CoordinationSpec
CONSTANTS
  MaxGeneration = 4
  MaxDepth = 3
INVARIANTS
  CoordinationTypeOK
  SaveReadsBaseline
  ModifiedOnlyWhenActive
  DepthCountsHostSaves
