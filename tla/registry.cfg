SPECIFICATION Spec
CONSTANTS
  evaluate = evaluate
  update = update
  Execution <- MCExecution
  Steps <- MCSteps
  Rollback <- MCRollback
INVARIANTS
  TypeOK
  OwnContextWhenAlone
  RollbackRestores
  VerdictIsEarned
CHECK_DEADLOCK FALSE
