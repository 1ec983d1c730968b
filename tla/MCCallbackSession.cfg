SPECIFICATION Spec
CONSTANTS
  s1 = s1
  s2 = s2
  Session <- TwoSessions
  NumTargets = 2
  Capacity = 2
  CallbackId <- SaveOrUnknown
  InFlightModulus = 4
  HostSettles = TRUE
  MaxCalls = 3
  MaxAttempts = 3
SYMMETRY Symmetry
INVARIANTS
  TypeOK
  SlotExclusion
  InFlightExact
  LateThunkSafe
  TerminalDiagnosticsBalance
PROPERTIES
  TornDownTargetsRest
