SPECIFICATION FairSpec
CONSTANTS
  s1 = s1
  s2 = s2
  Session <- TwoSessions
  NumTargets = 2
  Capacity = 2
  CallbackId <- SaveOrUnknown
  InFlightModulus = 4
  HostSettles = TRUE
  MaxCalls = 2
  MaxAttempts = 2
PROPERTIES
  TeardownReturns
