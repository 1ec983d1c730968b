SPECIFICATION Spec
CONSTANTS
  s1 = s1
  s2 = s2
  Session <- OneSession
  NumTargets = 2
  Capacity = 2
  CallbackId <- SaveOrUnknown
  InFlightModulus = 4
  HostSettles = FALSE
  MaxCalls = 3
  MaxAttempts = 3
INVARIANTS
  LateThunkSafe
