SPECIFICATION Spec
CONSTANTS
  Callers = {c1, c2}
  Nobody = Nobody
  Skew = 1
  Fallback = 5
  Lifetimes = {3}
  Latency = 2
  MaxDrift = 0
  Ops = {"get"}
  MaxTime = 4
  MaxMints = 3
  MaxCalls = 2
PROPERTIES
  ReturnsUnexpired
