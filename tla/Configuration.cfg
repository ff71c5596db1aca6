SPECIFICATION ConfigSpec
CONSTANTS
  Names = {"read", "write", "all"}
  Wildcards = {"all"}
  MaxEntries = 3
  Urls <- MCUrls
  Parts <- MCParts
  OriginLists <- MCOriginLists
INVARIANTS
  ConfigTypeOK
  BuiltIsWhatWasNamed
  FirstSeenOrder
  KeyFileIsReadLast
  EnvRaisesMudraIDErrors
  NoOtherIdentity
  TrustsStatedServersOnly
