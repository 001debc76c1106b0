SPECIFICATION Spec
CONSTANTS
  once1 = once1
  every1 = every1
  operator1 = operator1
  daemon = daemon
  api = api
  cli = cli
  None = None
  Tasks <- MCAll
  Once <- MCOnce
  Operators <- MCOperators
  Daemons <- MCDaemons
  Callers <- MCApi
  Proc <- MCProc
  Period = 1
  MaxTime = 1
  MaxAborts = 1
  MaxRuns = 3
INVARIANTS
  OnceRunsOnce
  EditsKept
PROPERTY
  DueIsRun
