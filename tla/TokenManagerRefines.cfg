SPECIFICATION FairSpec
CONSTANTS
  Callers = {c1, c2}
  Nobody = Nobody
  Skew = 3
  Fallback = 5
  Lifetimes = {0, 2, 6}
  Latency = 1
  MaxDrift = 0
  Ops = {"get", "refresh", "clear"}
  MaxTime = 3
  MaxMints = 3
  MaxCalls = 2
PROPERTIES
  IsTokenCell
  EveryCallReturns
