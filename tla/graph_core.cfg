SPECIFICATION Spec
CONSTANTS
  StartRoles <- MCStartRoles
  MaxTurns = 5
  MaxRetries = 2
  MaxEscalations = 2
  MaxNudges = 3
  Cooldown = 2
  MaxResumes = 1
INVARIANTS
  TypeOK
  EscalationsAccounted
  NoRoleCycle
  FailureBudget
  BoostIsFresh
  TokenIsBehind
PROPERTIES
  ThinksHarderOnce
  GivesUpAtTheTop
  ImplementsLadder
  Termination
