CONSTANTS
  Prints <- MCPrints
  Templates <- MCTemplates
  Static <- MCStatic
  Regexes <- MCRegexes
SPECIFICATION Spec
INVARIANTS
  TypeOK
  NativeTypes
  DataStaysData
  LoudTemplates
  StatusTellsMatches
