SPECIFICATION SystemSpec
CONSTANTS
  Callers = {c1, c2, closer}
  Closer = closer
  Nobody = Nobody
  Skew = 1
  Fallback = 5
  Lifetimes = {2}
  Latency = 0
  MaxDrift = 0
  Ops = {"get", "refresh", "clear"}
  MaxTime = 1
  MaxMints = 3
  MaxCalls = 3
  MaxCloses = 1
  Methods = {"PUT", "POST"}
  Bodies = {"value"}
  Timed = {TRUE}
  MaxRetries = 0
  Workload <- MCWorkload
SYMMETRY Symmetry
INVARIANTS
  SystemTypeOK
  LiveTokensAreAccountedFor
PROPERTIES
  IsMachineAgent
  RequestOutrunsExpiry
  RejectedTokenIsRetired
