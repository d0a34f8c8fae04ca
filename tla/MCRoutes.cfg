CONSTANTS
  Roots <- MCRoots
  Spellings <- MCSpellings
  Parameters <- MCParameters
  Infra <- MCInfra
  Texts = {"a", "t"}
  MaxEndpoints = 2
SPECIFICATION Spec
INVARIANTS
  TypeOK
  InfraAnswers
  PlainEndpointsReached
  DownloadsReachOwner
