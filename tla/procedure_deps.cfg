SPECIFICATION Spec
CONSTANTS
  evaluate = evaluate
  update = update
  Execution <- MCExecution
  Steps <- MCSteps
  Rollback <- MCRollback
PROPERTIES
  RunsAfterDependencies
CHECK_DEADLOCK FALSE
