CONSTANTS
  Requests = {r1, r2}
  Outputs = {}
  WaitForPipes = FALSE
  AppLimits <- Unlimited
  OwnLimits <- Unlimited
  MaxLength = 0
  Bounds <- MCBounds
  Times = {1}
  DrainBounded = FALSE
SPECIFICATION Spec
PROPERTY
  DrainEnds
