CONSTANTS
  Requests = {r1, r2}
  Outputs = {1}
  WaitForPipes = TRUE
  AppLimits <- MCAppLimits
  OwnLimits <- MCOwnLimits
  MaxLength = 2
  Bounds <- MCBounds
  Times = {1, 2}
  DrainBounded = TRUE
SPECIFICATION Spec
INVARIANTS
  TypeOK
  Accounted
  DurationsAreSuccesses
  AverageIsRight
  SizeCapHolds
PROPERTIES
  OversizeIsFree
  RateLimitHolds
  DrainEnds
