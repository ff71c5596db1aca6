SPECIFICATION Spec
CONSTANTS
  Calls = {c1}
  Methods = {"PUT", "POST"}
  Bodies = {"stream"}
  Timed = {TRUE}
  MaxRetries = 1
  Tokens = {1, 2}
INVARIANTS
  EveryAttemptCarriesTheBody
