SPECIFICATION WriteSpec
CONSTANTS
  Calls = {1, 2}
  Methods = {"PUT", "POST"}
  Bodies = {"value"}
  Timed = {TRUE}
  MaxRetries = 1
  Tokens = {1, 2}
PROPERTIES
  EffectIsNotRepeated
