SPECIFICATION Spec
CONSTANTS
  Callers = {c1, c2}
  Nobody = Nobody
  Skew = 3
  Fallback = 5
  Lifetimes = {0, 2, 6}
  Latency = 0
  MaxDrift = 0
  Ops = {"get"}
  MaxTime = 0
  MaxMints = 3
  MaxCalls = 2
PROPERTIES
  MissesShareOneMint
