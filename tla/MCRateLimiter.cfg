CONSTANTS
  Keys = {k1, k2}
  Capacity = 2
  Window = 5
  Second = 2
  MaxTime = 7
SPECIFICATION Spec
INVARIANTS
  TypeOK
  RateBound
PROPERTIES
  HonestRetry
  ImplementsBucket
