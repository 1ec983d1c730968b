SPECIFICATION Spec
CONSTANTS
  WordMax = 15
  Buffer = {left, right}
  Content = {"genuine", "other"}
  Admitted = {"genuine"}
  SizeOf <- MCSizeOf
  Header <- MCHeader
  Operand = {0, 1, 15}
  ModuleSize = {0, 9}
SYMMETRY MCSymmetry
INVARIANTS
  TypeOK
  ReadyBytesWereVerified
  DatabaseIsExact
  ResolvesExactly
  RejectionHasCause
