CONSTANTS
  Requests = {r1, r2}
  Outputs = {}
  WaitForPipes = TRUE
  AppLimits <- Unlimited
  OwnLimits <- Unlimited
  MaxLength = 0
  Bounds <- MCBounds
  Times = {1}
  DrainBounded = TRUE
SPECIFICATION Spec
INVARIANT
  CancelledCountedAsSent
