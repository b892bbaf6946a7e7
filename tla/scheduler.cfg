SPECIFICATION Spec
CONSTANTS
  Job <- MCJob
  Runner = {a, b}
  Priority <- MCPriority
  MaxRetries <- MCMaxRetries
  Named = {1}
  MaxEnded = 1
  MaxCrashes = 1
INVARIANTS
  TypeOK
  NoDoubleRun
  CompletedInOrder
CHECK_DEADLOCK FALSE
PROPERTIES
  CancelledStaysOut
  ImplementsLedger
  RunAllDrains
