SPECIFICATION Spec
CONSTANTS
  Field <- MCField
  Value <- MCValue
  Valid <- MCValid
  Requests <- MCRequests
  MaxGeneration = 2
  MaxGameSteps = 2
INVARIANTS
  TypeOK
  HoldMatchesState
  AcceptedIsInPlace
PROPERTIES
  WritesOnlyItsObject
  ReturnsWhatItBorrows
