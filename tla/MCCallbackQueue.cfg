SPECIFICATION Spec
CONSTANTS
  s1 = s1
  s2 = s2
  Session <- OneSession
  NumTargets = 2
  Capacity = 2
  CallbackId <- SaveOrUnknown
  InFlightModulus = 4
  HostSettles = TRUE
  MaxCalls = 5
  MaxAttempts = 2
PROPERTIES
  DeliversInOrder
