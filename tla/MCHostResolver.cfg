SPECIFICATION Spec
CONSTANTS
  d3d11 = d3d11
  proxy = proxy
  old = old
  decoy = decoy
  Module <- MCModule
  ExportNames <- MCExportNames
  Exports <- MCExports
  SdkVersion <- MCSdkVersion
  GameIdentifier <- MCGameIdentifier
  InitialCapacity = 1
  GrowthAllowance = 1
  MaxCapacity = 3
INVARIANT TypeOK
PROPERTIES
  HostIsUnambiguous
  PresentHostIsNoticed
  RejectionHasCause
