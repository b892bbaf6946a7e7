SPECIFICATION Spec
CONSTANTS
  StartRole <- MCStartRole
  Target <- MCTarget
  MaxTurns = 5
  MaxRetries = 2
  MaxEscalations = 2
INVARIANTS
  TypeOK
  RetriesAreBounded
  SuccessIsTold
