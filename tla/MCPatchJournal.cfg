SPECIFICATION Spec
CONSTANTS
  ImageBase = 1
  ImageSize = 3
  Value = {0, 1, 2}
  Requests <- MCRequests
  MaxGameWrites = 2
INVARIANTS
  TypeOK
  EntriesMatchState
PROPERTIES
  AllOrNothing
  KeepsForeignValues
