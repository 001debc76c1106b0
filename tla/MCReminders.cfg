SPECIFICATION Spec
CONSTANTS
  r1 = r1
  r2 = r2
  daemon = daemon
  runDue = runDue
  user = user
  None = None
  Ids <- MCIds2
  Schedulers <- MCBoth
  Loops <- MCDaemon
  Users <- MCUsers
  Limit = 1
  MaxTime = 1
  MaxCrashes = 1
CHECK_DEADLOCK FALSE
INVARIANTS
  RepeatsExplained
  TriggeredWasDelivered
PROPERTIES
  ClearedStaysCleared
  DueIsHandled
