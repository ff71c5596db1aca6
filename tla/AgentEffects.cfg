SPECIFICATION FairSpec
CONSTANTS
  Calls = {c1}
  Methods = {"GET", "PUT", "POST", "PATCH"}
  Bodies = {"value"}
  Timed = {TRUE, FALSE}
  MaxRetries = 2
  Tokens = {1, 2, 3, 4}
INVARIANTS
  TypeOK
  NoDuplicateEffect
  DefiniteFailureMeansNeverSent
  ReplayUsesNewerToken
  UnauthorizedIsConfirmed
  UnknownIsAmbiguous
  AttemptBudget
PROPERTIES
  CallsRunDown
  TimedCallsEnd
