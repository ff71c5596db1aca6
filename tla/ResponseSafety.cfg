SPECIFICATION Spec
CONSTANTS
  StatusCodes = {200, 302, 400, 401, 402, 403, 429, 500}
INVARIANTS
  TypeOK
  HeadersNeverOutrankBody
  StatusPicksTheRefusal
  LongLifeIsStated
