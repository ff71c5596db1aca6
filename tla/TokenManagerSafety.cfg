SPECIFICATION Spec
CONSTANTS
  Callers = {c1, c2}
  Nobody = Nobody
  Skew = 3
  Fallback = 5
  Lifetimes = {0, 2, 6}
  Latency = 1
  MaxDrift = 1
  Ops = {"get", "refresh", "clear"}
  MaxTime = 6
  MaxMints = 3
  MaxCalls = 2
SYMMETRY Symmetry
INVARIANTS
  TypeOK
  FreshMeansLive
  NoStaleToken
  MintsOnlyWhenNeeded
PROPERTIES
  AnswersInOrder
