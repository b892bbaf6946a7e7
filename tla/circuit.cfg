SPECIFICATION Spec
CONSTANTS
  a = a
  b = b
  c = c
  Caller <- MCCaller
  Threshold = 2
  BaseCooldown = 1
  MaxCooldown = 3
  MaxFailures = 3
INVARIANTS
  TypeOK
  ClosedBelowThreshold
PROPERTIES
  OpenIsTriedAgain
  Recovers
