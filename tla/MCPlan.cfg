SPECIFICATION Spec
CONSTANTS
  t1 = t1
  t2 = t2
  Steps <- MCSteps
  Deps <- MCChain
  NonIdempotent <- MCSave
  NeedsYes <- MCSave
  MaxAttempts <- MCOpenTwice
  StepRecoveries <- MCOneRecovery
  MaxRecoveries = 1
  Procs <- MCTerminals
  MaxYes = 2
  MaxCommands = 3
CHECK_DEADLOCK FALSE
SYMMETRY Symmetric
INVARIANTS
  YesForEachAct
  CompletedMeansDone
  NonIdempotentOnce
PROPERTIES
  ImplementsOrder
  RunShrinks
