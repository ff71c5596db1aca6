SPECIFICATION Spec
CONSTANTS
  Calls = {c1}
  Methods = {"PUT", "POST"}
  Bodies = {"value"}
  Timed = {TRUE}
  MaxRetries = 1
  Tokens = {1, 2}
INVARIANTS
  UnknownMeansSent
