SPECIFICATION Spec
CONSTANTS
  Callers = {c1, c2}
  Nobody = Nobody
  Skew = 3
  Fallback = 5
  Lifetimes = {0, 6}
  Latency = 1
  MaxDrift = 0
  Ops = {"get", "refresh"}
  MaxTime = 3
  MaxMints = 3
  MaxCalls = 2
PROPERTIES
  RefreshDiscards
